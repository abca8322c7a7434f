---------------------------- MODULE NodeReporter ----------------------------
(***************************************************************************)
(* The node's reporter actor (node/src/reporter.rs): it takes what the     *)
(* aggregation engine reports from an unbounded mailbox, counts each       *)
(* certified height once, hands it to the application's certificate tap,   *)
(* keeps the highest height seen and prunes the TaskBook and its own       *)
(* dedupe set PRUNE_SLACK below it.                                        *)
(*                                                                         *)
(* External: the engine, which may report a certificate again and out of   *)
(* order anywhere between ActivityTimeout below its tip and Window above;  *)
(* the tap's consumer, which may go away; a crash of the process.          *)
(***************************************************************************)
EXTENDS Integers, Sequences, FiniteSets

CONSTANTS TopHeight,        \* bound: heights are 0 .. TopHeight
          SkipHeights,      \* those whose certificate carries the skip digest
          PruneSlack,       \* PRUNE_SLACK
          ActivityTimeout,  \* AGG_ACTIVITY_TIMEOUT of the engine
          Window,           \* AGG_WINDOW of the engine
          MaxLives,         \* bound: crashes + 1
          MaxQueue          \* bound on reports not yet taken (none in the code)

ReporterHeights == 0 .. TopHeight
Report == [kind : {"certified", "tip"}, height : ReporterHeights]

\* Nothing in the code relates the compiled-in slack to the two environment
\* variables; the dedupe set and the pruning rely on this (reporter.rs:110-114).
ASSUME NodeReporterAssumption ==
    /\ TopHeight \in Nat /\ SkipHeights \subseteq ReporterHeights
    /\ ActivityTimeout \in Nat
    /\ Window \in Nat \ {0}
    /\ PruneSlack \in Nat /\ PruneSlack + 1 >= ActivityTimeout + Window
    /\ MaxLives \in Nat \ {0} /\ MaxQueue \in Nat

VARIABLES
    mailbox,        \* reports the engine made and the actor has not taken
    tip,            \* tip_handle
    certified,      \* heights the dedupe set holds
    counted,        \* certified_counter
    skipped,        \* skipped_counter
    tapped,         \* heights sent on the certificate tap, in order
    tapOpen,        \* the tap's receiver exists
    pruned,         \* highest floor the TaskBook was told to prune below
    engineTip,      \* external: the engine's own tip
    \* History of this life: certified heights handled; and the life's number.
    handled, lives

countVars == <<certified, counted, skipped, tapped, handled>>
reporterVars == <<mailbox, tip, tapOpen, pruned, countVars, engineTip, lives>>

ReporterTypeOK ==
    /\ mailbox \in Seq(Report) /\ tip \in ReporterHeights
    /\ certified \subseteq ReporterHeights /\ handled \subseteq ReporterHeights
    /\ counted \in Nat /\ skipped \in Nat
    /\ tapped \in Seq(ReporterHeights) /\ tapOpen \in BOOLEAN
    /\ pruned \in ReporterHeights
    /\ engineTip \in ReporterHeights
    /\ lives \in 1 .. MaxLives

ReporterInit ==
    /\ mailbox = <<>> /\ tip = 0 /\ pruned = 0
    /\ certified = {} /\ counted = 0 /\ skipped = 0
    /\ tapped = <<>> /\ handled = {}
    /\ tapOpen \in BOOLEAN
    /\ engineTip = 0 /\ lives = 1

-----------------------------------------------------------------------------
(* The actor                                                               *)

SatSub(a, b) == IF a > b THEN a - b ELSE 0

\* Mutant of Advance: the slack is forgotten.
AdvanceNoSlack(h, seen) ==
    IF h <= tip
    THEN certified' = seen /\ UNCHANGED <<tip, pruned>>
    ELSE tip' = h /\ pruned' = h /\ certified' = {x \in seen : x >= h}

\* advance, with `seen` the dedupe set the handler has by then.
Advance(h, seen) ==
    IF h <= tip
    THEN /\ certified' = seen
         /\ UNCHANGED <<tip, pruned>>
    ELSE LET floor == SatSub(h, PruneSlack)
         IN  /\ tip' = h
             /\ pruned' = IF floor > 0 THEN floor ELSE pruned
             /\ certified' = {x \in seen : x >= floor}

Take(kind) ==
    /\ mailbox # <<>>
    /\ Head(mailbox).kind = kind
    /\ mailbox' = Tail(mailbox)
    /\ UNCHANGED <<tapOpen, engineTip, lives>>

\* A certificate the dedupe set holds: nothing happens, not even advance.
TakeReplayed ==
    /\ Take("certified")
    /\ Head(mailbox).height \in certified
    /\ UNCHANGED <<tip, pruned, countVars>>

\* Mutant of TakeCertified: a gone tap receiver ends the accounting early.
TakeCertifiedTapFirst ==
    /\ Take("certified")
    /\ LET h == Head(mailbox).height
       IN  /\ h \notin certified
           /\ tapped' = IF tapOpen THEN Append(tapped, h) ELSE tapped
           /\ counted' = IF tapOpen THEN counted + 1 ELSE counted
           /\ skipped' = skipped
           /\ handled' = handled \cup {h}
           /\ Advance(h, certified \cup {h})

\* Mutant of TakeCertified: the observation is sent twice.
TakeCertifiedTapTwice ==
    /\ Take("certified")
    /\ LET h == Head(mailbox).height
       IN  /\ h \notin certified
           /\ counted' = counted + 1
           /\ skipped' = IF h \in SkipHeights THEN skipped + 1 ELSE skipped
           /\ tapped' = IF tapOpen THEN tapped \o <<h, h>> ELSE tapped
           /\ handled' = handled \cup {h}
           /\ Advance(h, certified \cup {h})

TakeCertified ==
    /\ Take("certified")
    /\ LET h == Head(mailbox).height
       IN  /\ h \notin certified
           /\ counted' = counted + 1
           /\ skipped' = IF h \in SkipHeights THEN skipped + 1 ELSE skipped
           /\ tapped' = IF tapOpen THEN Append(tapped, h) ELSE tapped
           /\ handled' = handled \cup {h}
           /\ Advance(h, certified \cup {h})

TakeTip ==
    /\ Take("tip")
    /\ Advance(Head(mailbox).height, certified)
    /\ UNCHANGED <<counted, skipped, tapped, handled>>

Actor == TakeReplayed \/ TakeCertified \/ TakeTip

-----------------------------------------------------------------------------
(* External                                                                *)

\* A report never blocks and is never dropped: beyond the capacity it spills
\* to an overflow queue of the same order.
Enqueue(kind, h) ==
    /\ Len(mailbox) < MaxQueue
    /\ mailbox' = Append(mailbox, [kind |-> kind, height |-> h])
    /\ UNCHANGED <<tip, tapOpen, pruned, countVars, engineTip, lives>>

ReportCertified(h) ==
    /\ h >= engineTip - ActivityTimeout
    /\ h < engineTip + Window
    /\ Enqueue("certified", h)

\* A tip, or a stale one the journal replays.
ReportTip(t) ==
    /\ t <= engineTip
    /\ Enqueue("tip", t)

EngineMoves(t) ==
    /\ t > engineTip
    /\ engineTip' = t
    /\ UNCHANGED <<mailbox, tip, tapOpen, pruned, countVars, lives>>

TapDropped ==
    /\ tapOpen
    /\ tapOpen' = FALSE
    /\ UNCHANGED <<mailbox, tip, pruned, countVars, engineTip, lives>>

\* The process dies; the engine comes back with what its journal kept.
ReporterCrash ==
    /\ lives < MaxLives
    /\ lives' = lives + 1
    /\ mailbox' = <<>> /\ tip' = 0 /\ pruned' = 0
    /\ certified' = {} /\ counted' = 0 /\ skipped' = 0
    /\ tapped' = <<>> /\ handled' = {}
    /\ tapOpen' \in BOOLEAN
    /\ engineTip' \in 0 .. engineTip

ReporterNext ==
    \/ Actor
    \/ \E h \in ReporterHeights : ReportCertified(h) \/ ReportTip(h) \/ EngineMoves(h)
    \/ TapDropped
    \/ ReporterCrash

ReporterSpec == ReporterInit /\ [][ReporterNext]_reporterVars

-----------------------------------------------------------------------------
(* Properties.                                                             *)

\* However often and in whatever order the engine reports, and although the
\* dedupe set is pruned under it, the counters count every certified height
\* handled in this life once, the skipped ones among them too, and a consumer
\* that went away costs nothing (reporter.rs:169-214).
CountersExact ==
    /\ counted = Cardinality(handled)
    /\ skipped = Cardinality(handled \cap SkipHeights)

\* The tap sees no height twice in a life, and while its receiver lives none is
\* kept from it (reporter.rs:68-70, 95-98).
ObservedOnce ==
    /\ \A i, j \in 1 .. Len(tapped) : tapped[i] = tapped[j] => i = j
    /\ \A i \in 1 .. Len(tapped) : tapped[i] \in handled
    /\ tapOpen => \A h \in handled : \E i \in 1 .. Len(tapped) : tapped[i] = h

\* The TaskBook is never told to drop directives of a height the engine has
\* still to resolve, although a certificate above its tip moves the floor
\* (reporter.rs:242-245).
PruneBehindEngine == pruned <= engineTip
=============================================================================
