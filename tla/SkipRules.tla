----------------------------- MODULE SkipRules -----------------------------
(***************************************************************************)
(* What a node's TaskBook promises the aggregation engine: the normative   *)
(* skip rules of node/src/task_book.rs, with no mailbox, no queue and no   *)
(* trimmed directive log.  A request is answered at most once, with        *)
(*   - the directive that stands at its height, a task only if the router  *)
(*     announced that one there and has not taken it back;                 *)
(*   - Skip by rule 2 while the height has no directive, once the router   *)
(*     has been heard above it.                                            *)
(* The rules bind at every height the node still answers for.  Far below   *)
(* the router only Skip is left.  Below the floor the reporter set nothing *)
(* need be remembered: any directive heard there may be taken for the      *)
(* first one.  No step answers because time passed.                        *)
(***************************************************************************)
EXTENDS Directives

CONSTANTS Requests,     \* digest requests of the engine (one propose call each)
          PruneSlack,   \* how far below the router a directive is remembered
          None

VARIABLES
    heard,     \* every directive the TaskBook has taken so far
    standing,  \* the directive that stands at each height, None before one
    floor,     \* the heights below it are let go of
    asked,     \* the height each request is for, None before it is made
    answer     \* the resolution sent to each request, None before

vars == <<heard, standing, floor, asked, answer>>

FarBelow(H, h) == \E d \in H : h < d.height - PruneSlack

\* Height h may be resolved as res when the directives H have been heard and
\* `word` stands at h.
Permitted(H, word, h, res) ==
    \/ ~FarBelow(H, h) /\ h >= floor /\ word # None /\ res = word
    \/ ~FarBelow(H, h) /\ h >= floor /\ word = None
       /\ res = Skip /\ \E d \in H : d.height > h
    \/ ~FarBelow(H, h) /\ h < floor /\ Answerable(H, h, res)
    \/ FarBelow(H, h) /\ res = Skip

\* Requests are answered once, and only as the rules permit.
AnswersPermitted ==
    \A r \in Requests :
        \/ answer'[r] = answer[r]
        \/ /\ answer[r] = None
           /\ asked[r] # None
           /\ answer'[r] \in Resolutions
           /\ Permitted(heard', standing'[asked[r]], asked[r], answer'[r])

Init ==
    /\ heard = {}
    /\ standing = [h \in Heights |-> None]
    /\ floor = 0
    /\ asked = [r \in Requests |-> None]
    /\ answer = [r \in Requests |-> None]

Ask(r, h) ==
    /\ asked[r] = None
    /\ asked' = [asked EXCEPT ![r] = h]
    /\ UNCHANGED <<heard, standing, floor, answer>>

LetGo(f) ==
    /\ f > floor
    /\ floor' = f
    /\ UNCHANGED <<heard, standing, asked, answer>>

Hear(d) ==
    /\ heard' = heard \cup {d}
    /\ standing' = [standing EXCEPT ![d.height] = Stands(@, d.says)]
    /\ answer' \in [Requests -> Resolutions \cup {None}]
    /\ AnswersPermitted
    /\ UNCHANGED <<floor, asked>>

Answer ==
    /\ answer' \in [Requests -> Resolutions \cup {None}]
    /\ UNCHANGED <<heard, standing, floor, asked>>
    /\ AnswersPermitted

Next ==
    \/ \E r \in Requests, h \in Heights : Ask(r, h)
    \/ \E f \in Heights : LetGo(f)
    \/ \E d \in Directives : Hear(d)
    \/ Answer

Spec == Init /\ [][Next]_vars
=============================================================================
