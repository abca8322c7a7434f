---------------------------- MODULE HeightLedger ----------------------------
(***************************************************************************)
(* What the operators as a whole promise the router: every height gets at  *)
(* most one certified digest, and only a digest that the directives        *)
(* broadcast so far account for.  No nodes, no signatures, no restarts.    *)
(* The environment of Router.tla certifies by the same rule.               *)
(***************************************************************************)
EXTENDS Directives

CONSTANT None

VARIABLES out,      \* every directive broadcast
          ledger    \* the certified digest of each height, None before

vars == <<out, ledger>>

\* A quorum may give height h the digest d: a task book may answer it, or the
\* announced task failed validation.
Accounted(H, h, d) ==
    Answerable(H, h, d) \/ (d = Skip /\ \E e \in H : e.height = h)

Init == out = {} /\ ledger = [h \in Heights |-> None]

Broadcast(d) == out' = out \cup {d} /\ UNCHANGED ledger

Certify(h, d) ==
    /\ ledger[h] = None
    /\ Accounted(out, h, d)
    /\ ledger' = [ledger EXCEPT ![h] = d]
    /\ UNCHANGED out

Next ==
    \/ \E d \in Directives : Broadcast(d)
    \/ \E h \in Heights, d \in Resolutions : Certify(h, d)

Spec == Init /\ [][Next]_vars
=============================================================================
