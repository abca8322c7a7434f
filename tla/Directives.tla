----------------------------- MODULE Directives -----------------------------
(* What the router says of a height, and what that lets a node answer for  *)
(* it.  A task stands for its digest, Skip for skip_digest at the height.  *)
EXTENDS Integers

CONSTANTS MaxHeight,    \* bound: heights are 0 .. MaxHeight
          Tasks,        \* task payloads the router can announce
          Skip

Heights == 0 .. MaxHeight
Resolutions == Tasks \cup {Skip}
Directives == [height : Heights, says : Resolutions]

\* The directive that stands at a height where `word` (or nothing) stood when
\* `says` arrives: the first one, unless Skip takes back an announcement.
Stands(word, says) ==
    IF word = Skip \/ (word \in Tasks /\ says # Skip) THEN word ELSE says

\* What some TaskBook may answer for height h when it has heard some of the
\* directives H, in some order.  It bounds what a set of nodes can say; what
\* one node may say, given what it heard and when, is SkipRules!Permitted.
Answerable(H, h, res) ==
    \/ [height |-> h, says |-> res] \in H
    \/ res = Skip /\ \E d \in H : d.height > h
=============================================================================
