----------------------------- MODULE TipReports -----------------------------
(***************************************************************************)
(* How a router that lost its journal learns where the quorum is: a node   *)
(* that hears a directive below its own tip answers with a TipReport       *)
(* (node/src/task_book.rs, `ingest`), the router keeps the highest report  *)
(* of each participant and takes the (f+1)-th highest as its safe tip      *)
(* (router/src/sequencer.rs, `TipReports` and `ingest_tip_reports`), and   *)
(* drive_height gives up a height below it.                                *)
(*                                                                         *)
(* The directive channel may lose, delay, reorder and repeat reports: a    *)
(* report once sent can reach the router at any later time, or never.      *)
(* External: the nodes' tips, their restarts, what faulty participants and *)
(* strangers send, and the heights the router resolves.                    *)
(***************************************************************************)
EXTENDS Participants

CONSTANTS Strangers,    \* other peers the channel authenticates
          MaxTip,       \* bound on heights and tips
          MaxRestarts   \* bound on restarts of the router and of nodes

Peers == Nodes \cup Strangers
Tips == 0 .. MaxTip

ASSUME TipReportsAssumption ==
    /\ Strangers \cap Nodes = {}
    /\ MaxTip \in Nat /\ MaxRestarts \in Nat

VARIABLES
    tips,       \* honest nodes: engine_tip, the tip shared with `ingest`
    sent,       \* history: the reports honest nodes have sent
    reports,    \* TipReports.reports, -1 for a peer without an entry
    driven,     \* the height the router's directives are for
    restarts    \* restarts so far

vars == <<tips, sent, reports, driven, restarts>>

TypeOK ==
    /\ tips \in [Honest -> Tips]
    /\ sent \subseteq Honest \X Tips
    /\ reports \in [Peers -> Tips \cup {-1}]
    /\ driven \in Tips
    /\ restarts \in 0 .. MaxRestarts

NoReports == [p \in Peers |-> -1]

Init ==
    /\ tips = [n \in Honest |-> 0]
    /\ sent = {}
    /\ reports = NoReports
    /\ driven = 0
    /\ restarts = 0

-----------------------------------------------------------------------------
(* TipReports                                                              *)

Reached(t) == {p \in Peers : reports[p] >= t}

\* Mutant of Backed: f reports instead of f + 1.
BackedByF(t) == t = 0 \/ Cardinality(Reached(t)) >= MaxFaults

Backed(t) == t = 0 \/ Cardinality(Reached(t)) > MaxFaults

\* The (f+1)-th highest report, 0 until there are that many.
SafeTip == CHOOSE t \in Tips : Backed(t) /\ \A u \in Tips : Backed(u) => u <= t

\* Mutant of Record: the last report instead of the highest.
RecordLast(p, t) == [reports EXCEPT ![p] = t]

Record(p, t) == [reports EXCEPT ![p] = IF t > @ THEN t ELSE @]

-----------------------------------------------------------------------------
(* Steps                                                                   *)

\* Mutant of Reply: the node reports the height after its tip.
ReplyNext(n, h) ==
    /\ h < tips[n]
    /\ sent' = sent \cup {<<n, tips[n] + 1>>}
    /\ UNCHANGED <<tips, reports, driven, restarts>>

\* A directive below the node's tip, the current one or a late one, is answered
\* with the tip; the rate limit (min_report_interval) only makes the node
\* answer a later rebroadcast.
Reply(n, h) ==
    /\ h < tips[n]
    /\ sent' = sent \cup {<<n, tips[n]>>}
    /\ UNCHANGED <<tips, reports, driven, restarts>>

Arrives(p, t) == p \in Honest => <<p, t>> \in sent

\* Mutant of Ingest: strangers are not turned away.
IngestAny(p, t) ==
    /\ Arrives(p, t)
    /\ reports' = Record(p, t)
    /\ UNCHANGED <<tips, sent, driven, restarts>>

\* Only participants' reports are recorded.
Ingest(p, t) ==
    /\ Arrives(p, t)
    /\ reports' = IF p \in Nodes THEN Record(p, t) ELSE reports
    /\ UNCHANGED <<tips, sent, driven, restarts>>

\* Mutant of Supersede: an off-by-one in the comparison.
SupersedeLate ==
    /\ SafeTip > driven + 1
    /\ driven' = SafeTip
    /\ UNCHANGED <<tips, sent, reports, restarts>>

\* Superseded: the task is assigned again at the safe tip.
Supersede ==
    /\ SafeTip > driven
    /\ driven' = SafeTip
    /\ UNCHANGED <<tips, sent, reports, restarts>>

\* External: the driven height resolved.
Resolved ==
    /\ driven < MaxTip
    /\ driven' = driven + 1
    /\ UNCHANGED <<tips, sent, reports, restarts>>

\* External: certificates move a node's tip.
AdvanceTip(n, t) ==
    /\ t > tips[n]
    /\ tips' = [tips EXCEPT ![n] = t]
    /\ UNCHANGED <<sent, reports, driven, restarts>>

\* External: a node restarts with its journal or without.
NodeRestart(n, t) ==
    /\ restarts < MaxRestarts
    /\ restarts' = restarts + 1
    /\ t < tips[n]
    /\ tips' = [tips EXCEPT ![n] = t]
    /\ UNCHANGED <<sent, reports, driven>>

\* The router restarts: the reports are gone, the first height may be stale.
RouterRestart(h) ==
    /\ restarts < MaxRestarts
    /\ restarts' = restarts + 1
    /\ reports' = NoReports
    /\ driven' = h
    /\ UNCHANGED <<tips, sent>>

Next ==
    \/ \E n \in Honest, h \in Tips : Reply(n, h)
    \/ \E p \in Peers, t \in Tips : Ingest(p, t)
    \/ Supersede
    \/ Resolved
    \/ \E n \in Honest, t \in Tips : AdvanceTip(n, t) \/ NodeRestart(n, t)
    \/ \E h \in Tips : RouterRestart(h)

Spec == Init /\ [][Next]_vars

\* While a node stays above the driven height the router's rebroadcasts reach
\* it, its answers reach the router, and the next tick looks at the safe tip.
Fairness ==
    /\ \A n \in Honest : WF_vars(Reply(n, driven))
    /\ \A n \in Honest : WF_vars(driven < tips[n] /\ Ingest(n, tips[n]))
    /\ WF_vars(Supersede)

FairSpec == Spec /\ Fairness

-----------------------------------------------------------------------------
(* Properties.                                                             *)

\* The safe tip is never the invention of faulty participants and strangers:
\* some honest node had a tip at least that high (sequencer.rs:185-189).
SafeTipHonest ==
    SafeTip > 0 => \E m \in sent : m[2] >= SafeTip

\* safe_tip as the code computes it: the recorded tips in descending order (a
\* sort that keeps no order of equals), the one at index max_faults, or 0.
Recorded == {p \in Peers : reports[p] >= 0}
Descending(peers) ==
    LET places == 1 .. Cardinality(peers)
    IN  {o \in [places -> peers] :
            \A i, j \in places : i < j => o[i] # o[j] /\ reports[o[i]] >= reports[o[j]]}
SortedTip(o) ==
    IF MaxFaults < Cardinality(Recorded) THEN reports[o[MaxFaults + 1]] ELSE 0

\* The count of reports behind a tip finds what any such sorting finds, and
\* there is one (sequencer.rs:206-213).
SafeTipSorted ==
    Descending(Recorded) # {} /\ \A o \in Descending(Recorded) : SafeTip = SortedTip(o)

\* Within a router life the safe tip never falls, whatever arrives late,
\* twice or out of order (sequencer.rs:197-203).
SafeTipMonotone ==
    [][reports' # NoReports => SafeTip' >= SafeTip]_vars

\* A router does not stay for ever on a height that f + 1 honest nodes are
\* past (sequencer.rs:493-497, task_book.rs:328-333).
LeftBehind(h) ==
    driven = h /\ Cardinality({n \in Honest : tips[n] > h}) > MaxFaults
LeavesDeadHeight == \A h \in Tips : LeftBehind(h) ~> ~LeftBehind(h)
=============================================================================
