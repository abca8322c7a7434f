----------------------------- MODULE NodeProofs -----------------------------
(***************************************************************************)
(* The node's digest requests and its reporter.                            *)
(*                                                                         *)
(* For every backoff, cap, latency and set of budgets: the retry loop of   *)
(* one digest request ends in time, does not give up early, and outlasts   *)
(* an outage that ends a cap and a call before the deadline.               *)
(*                                                                         *)
(* For every slack that covers the engine's activity timeout and window,   *)
(* every order of reports and every crash: the node's reporter counts and  *)
(* taps a certified height once, and never prunes past the engine's tip.   *)
(***************************************************************************)
EXTENDS NodeAutomaton, NodeReporter, CommonLemmas, FiniteSetTheorems

-----------------------------------------------------------------------------
(* One digest request.                                                     *)

USE NodeAutomatonAssumption

\* The strengthening.  A wait is no longer than the time gone by when the call
\* before it was made, plus the first wait, so the waits up to a call take as
\* long as the next one; and every call but the first is made before the
\* deadline.
Fresh ==
    stage \in {"subscribing", "abandoned"} =>
        /\ resolution = "none" /\ answer = "none"
        /\ elapsed = 0 /\ callStart = 0
Heard == stage \in {"calling", "sleeping"} => resolution = "announce"
BackoffBounded ==
    /\ backoff <= MaxBackoff
    /\ backoff <= callStart + FirstBackoff
CallsInTime == callStart = 0 \/ callStart < budget
Elapsed ==
    /\ callStart <= elapsed
    /\ stage \in {"calling", "answered"} => elapsed <= callStart + MaxLatency
Sleeps ==
    stage = "sleeping" =>
        /\ elapsed <= wakeAt /\ wakeAt < budget
        /\ callStart + backoff <= wakeAt
GaveUpRightly ==
    GaveUp => /\ stage = "answered"
              /\ elapsed + backoff >= budget
              /\ ~valid \/ callStart < healthyFrom
AutomatonInv ==
    /\ AutomatonTypeOK /\ Fresh /\ Heard /\ BackoffBounded
    /\ CallsInTime /\ Elapsed /\ Sleeps /\ GaveUpRightly

-----------------------------------------------------------------------------
(* The invariant.                                                          *)

\* The initial states satisfy the invariant.
LEMMA AutomatonInitInv == AutomatonInit => AutomatonInv
BY DEF AutomatonInit, AutomatonInv, AutomatonTypeOK, Fresh, Heard, BackoffBounded,
       CallsInTime, Elapsed, Sleeps, GaveUpRightly, GaveUp

\* The TaskBook's answer, or its absence, starts the clock.
LEMMA HearInv == AutomatonInv /\ (HearSkip \/ BookGone \/ HearTask) => AutomatonInv'
BY DEF AutomatonInv, AutomatonTypeOK, Fresh, Heard, BackoffBounded, CallsInTime, Elapsed,
       Sleeps, GaveUpRightly, GaveUp, HearSkip, BookGone, HearTask, Send, timing, world

\* A call that succeeds answers with the task.
LEMMA SucceedInv == AutomatonInv /\ CallSucceeds => AutomatonInv'
BY DEF AutomatonInv, AutomatonTypeOK, Fresh, Heard, BackoffBounded, CallsInTime, Elapsed,
       Sleeps, GaveUpRightly, GaveUp, CallSucceeds, Send, timing, world

\* A failed call is retried while the next wait ends before the deadline.
LEMMA RetryInv == AutomatonInv /\ Retry => AutomatonInv'
BY DEF AutomatonInv, AutomatonTypeOK, Fresh, Heard, BackoffBounded, CallsInTime, Elapsed,
       Sleeps, GaveUpRightly, GaveUp, CallFails, Retry, world

\* Otherwise the request is given up.
LEMMA GiveUpInv == AutomatonInv /\ GiveUp => AutomatonInv'
BY DEF AutomatonInv, AutomatonTypeOK, Fresh, Heard, BackoffBounded, CallsInTime, Elapsed,
       Sleeps, GaveUpRightly, GaveUp, CallFails, GiveUp, Send, timing, world

\* Doubling keeps the wait within the time gone by.
LEMMA WakeInv == AutomatonInv /\ Wake => AutomatonInv'
<1> SUFFICES ASSUME AutomatonInv, Wake PROVE AutomatonInv'
  OBVIOUS
<1>1. /\ callStart \in Nat /\ backoff \in Nat /\ elapsed \in Nat /\ budget \in Nat
      /\ callStart' = elapsed /\ elapsed' = elapsed /\ budget' = budget
      /\ callStart + backoff <= elapsed /\ elapsed < budget
      /\ backoff <= callStart + FirstBackoff
  BY DEF AutomatonInv, AutomatonTypeOK, BackoffBounded, Sleeps, Wake, world
<1>2. AutomatonTypeOK' /\ Fresh' /\ Heard' /\ Sleeps' /\ GaveUpRightly'
  BY DEF AutomatonInv, AutomatonTypeOK, Fresh, Heard, Sleeps, GaveUpRightly, GaveUp, Wake, world
<1>3. BackoffBounded'
  <2>1. backoff' \in Nat /\ backoff' <= MaxBackoff /\ backoff' <= 2 * backoff
    BY <1>1 DEF Wake
  <2>2. 2 * backoff <= elapsed + FirstBackoff
    BY <1>1
  <2> QED
    BY <1>1, <2>1, <2>2 DEF BackoffBounded
<1>4. CallsInTime' /\ Elapsed'
  BY <1>1 DEF CallsInTime, Elapsed, Wake
<1> QED
  BY <1>2, <1>3, <1>4 DEF AutomatonInv

\* Time passes only within a call's latency or a sleep.
LEMMA TickInv == AutomatonInv /\ Tick => AutomatonInv'
BY DEF AutomatonInv, AutomatonTypeOK, Fresh, Heard, BackoffBounded, CallsInTime, Elapsed,
       Sleeps, GaveUpRightly, GaveUp, Tick, world

\* Every step keeps the invariant.
LEMMA AutomatonStepInv == AutomatonInv /\ [AutomatonNext]_automatonVars => AutomatonInv'
<1> SUFFICES ASSUME AutomatonInv, [AutomatonNext]_automatonVars PROVE AutomatonInv'
  OBVIOUS
<1>1. CASE Resolve
  BY <1>1, HearInv, SucceedInv, RetryInv, GiveUpInv, WakeInv DEF Resolve
<1>2. CASE Tick
  BY <1>2, TickInv
<1>3. CASE UNCHANGED automatonVars
  BY <1>3 DEF automatonVars, AutomatonInv, AutomatonTypeOK, Fresh, Heard, BackoffBounded,
              CallsInTime, Elapsed, Sleeps, GaveUpRightly, GaveUp
<1> QED
  BY <1>1, <1>2, <1>3 DEF AutomatonNext

\* The invariant holds of every behaviour of the retry loop (automaton.rs:184-216).
THEOREM AutomatonInvariance == AutomatonSpec => []AutomatonInv
BY AutomatonInitInv, AutomatonStepInv, PTL DEF AutomatonSpec

-----------------------------------------------------------------------------
(* The properties.                                                         *)

\* Type correctness of a digest request.
THEOREM AutomatonTypes == AutomatonSpec => []AutomatonTypeOK
<1>1. AutomatonInv => AutomatonTypeOK
  BY DEF AutomatonInv
<1> QED
  BY <1>1, AutomatonInvariance, PTL

\* The answer comes within one validator call of the deadline, whatever the
\* budget (automaton.rs:184-201).
THEOREM AnsweredInTime == AutomatonSpec => []AnswersInTime
<1>1. AutomatonInv => AnswersInTime
  BY DEF AutomatonInv, AutomatonTypeOK, CallsInTime, Elapsed, AnswersInTime
<1> QED
  BY <1>1, AutomatonInvariance, PTL

\* The node never gives up before half its budget is gone, nor more than the
\* backoff's cap early (automaton.rs:87-89).
THEOREM GivesUpNoSooner == AutomatonSpec => []GivesUpLate
<1>1. AutomatonInv => GivesUpLate
  BY DEF AutomatonInv, AutomatonTypeOK, BackoffBounded, Elapsed, GaveUpRightly, GivesUpLate
<1> QED
  BY <1>1, AutomatonInvariance, PTL

\* A validator that is back a cap and a call before the deadline never costs the
\* height its task (automaton.rs:178-183).
THEOREM OutageSurvived == AutomatonSpec => []SurvivesOutage
<1>1. AutomatonInv => SurvivesOutage
  BY DEF AutomatonInv, AutomatonTypeOK, BackoffBounded, Elapsed, GaveUpRightly, SurvivesOutage
<1> QED
  BY <1>1, AutomatonInvariance, PTL

-----------------------------------------------------------------------------
(* The reporter.                                                           *)

USE NodeReporterAssumption

\* How far below the reporter's tip a certificate may still come.
Lag == ActivityTimeout + Window - 1

\* The strengthening.  Reports are at most a window above the engine's tip, so
\* none that precedes a certificate, and not the tip made of them, is more than
\* Lag above it: the dedupe set still holds the height if it was ever handled.
MailAhead ==
    \A i \in 1 .. Len(mailbox) : mailbox[i].height <= engineTip + Window - 1
TipAhead == tip <= engineTip + Window - 1
NotTooLate ==
    \A j \in 1 .. Len(mailbox) :
        mailbox[j].kind = "certified" => tip <= mailbox[j].height + Lag
InOrder ==
    \A i, j \in 1 .. Len(mailbox) :
        i < j /\ mailbox[j].kind = "certified" =>
            mailbox[i].height <= mailbox[j].height + Lag
DedupeExact == certified = {x \in handled : x >= SatSub(tip, PruneSlack)}
FloorBehind == pruned <= SatSub(tip, PruneSlack)
MailInv == MailAhead /\ TipAhead /\ NotTooLate /\ InOrder
BookInv == DedupeExact /\ FloorBehind /\ CountersExact /\ ObservedOnce
ReporterInv == ReporterTypeOK /\ MailInv /\ BookInv

-----------------------------------------------------------------------------
(* The mailbox.                                                            *)

\* The slack covers the lag.
LEMMA SlackCoversLag == Lag \in Nat /\ Lag <= PruneSlack /\ Window - 1 <= Lag
BY DEF Lag

\* Heights are naturals.
LEMMA HeightsNat == ReporterHeights \subseteq Nat
BY DEF ReporterHeights

\* Advancing leaves the tip at the higher of the two.
LEMMA AdvanceTip ==
    ASSUME NEW h \in Nat, NEW seen, tip \in Nat, Advance(h, seen)
    PROVE  /\ tip' \in {tip, h} /\ tip <= tip' /\ h <= tip'
BY DEF Advance

\* Taking the head and advancing to its height, or leaving the tip alone, keeps
\* the order of the mailbox.
LEMMA TakeMail ==
    ASSUME ReporterTypeOK, MailInv, NEW kind, Take(kind),
           tip' \in {tip, Head(mailbox).height}
    PROVE  MailInv'
<1>1. /\ mailbox \in Seq(Report) /\ mailbox # <<>> /\ mailbox' = Tail(mailbox)
      /\ engineTip' = engineTip /\ engineTip \in Nat /\ tip \in Nat
  BY HeightsNat DEF ReporterTypeOK, Take
<1>2. /\ Len(mailbox') = Len(mailbox) - 1
      /\ Head(mailbox) = mailbox[1] /\ 1 \in 1 .. Len(mailbox)
      /\ \A i \in 1 .. Len(mailbox') :
            i + 1 \in 1 .. Len(mailbox) /\ mailbox'[i] = mailbox[i + 1]
  BY <1>1, TailShift
<1>3. MailAhead'
  BY <1>1, <1>2 DEF MailInv, MailAhead
<1>4. TipAhead'
  BY <1>1, <1>2 DEF MailInv, MailAhead, TipAhead
<1>5. NotTooLate'
  <2> SUFFICES ASSUME NEW j \in 1 .. Len(mailbox'), mailbox'[j].kind = "certified"
               PROVE  tip' <= mailbox'[j].height + Lag
    BY DEF NotTooLate, Lag
  <2>1. /\ j + 1 \in 1 .. Len(mailbox) /\ mailbox'[j] = mailbox[j + 1]
        /\ 1 < j + 1
    BY <1>2
  <2>2. mailbox[1].height <= mailbox[j + 1].height + Lag
    BY <1>2, <2>1 DEF MailInv, InOrder
  <2>3. tip <= mailbox[j + 1].height + Lag
    BY <2>1 DEF MailInv, NotTooLate
  <2> QED
    BY <1>2, <2>1, <2>2, <2>3
<1>6. InOrder'
  <2> SUFFICES ASSUME NEW i \in 1 .. Len(mailbox'), NEW j \in 1 .. Len(mailbox'),
                      i < j, mailbox'[j].kind = "certified"
               PROVE  mailbox'[i].height <= mailbox'[j].height + Lag
    BY DEF InOrder, Lag
  <2>1. /\ i + 1 \in 1 .. Len(mailbox) /\ mailbox'[i] = mailbox[i + 1]
        /\ j + 1 \in 1 .. Len(mailbox) /\ mailbox'[j] = mailbox[j + 1]
        /\ i + 1 < j + 1
    BY <1>2
  <2> QED
    BY <2>1 DEF MailInv, InOrder
<1> QED
  BY <1>3, <1>4, <1>5, <1>6 DEF MailInv

\* A report put behind the others keeps the order, if it is a certificate from
\* the engine's window or a tip it has reached.
LEMMA EnqueueMail ==
    ASSUME ReporterTypeOK, MailInv, NEW kind \in {"certified", "tip"},
           NEW h \in ReporterHeights, Enqueue(kind, h), h <= engineTip + Window - 1,
           kind = "certified" => h >= engineTip - ActivityTimeout
    PROVE  MailInv' /\ mailbox' \in Seq(Report)
<1> DEFINE e == [kind |-> kind, height |-> h]
<1>1. /\ mailbox \in Seq(Report) /\ e \in Report /\ mailbox' = Append(mailbox, e)
      /\ engineTip' = engineTip /\ tip' = tip /\ engineTip \in Nat /\ tip \in Nat
      /\ h \in Nat /\ e.height = h /\ e.kind = kind
  BY HeightsNat DEF ReporterTypeOK, Enqueue, Report
<1> HIDE DEF e
<1>2. /\ mailbox' \in Seq(Report) /\ Len(mailbox') = Len(mailbox) + 1
      /\ \A i \in 1 .. Len(mailbox) : mailbox'[i] = mailbox[i]
      /\ mailbox'[Len(mailbox) + 1] = e
      /\ Len(mailbox) \in Nat
  BY <1>1, AppendShift
<1>3. \A i \in 1 .. Len(mailbox') : i \in 1 .. Len(mailbox) \/ i = Len(mailbox) + 1
  BY <1>2
<1>4. MailAhead'
  BY <1>1, <1>2, <1>3 DEF MailInv, MailAhead
<1>5. TipAhead'
  BY <1>1 DEF MailInv, TipAhead
<1>6. kind = "certified" => engineTip + Window - 1 <= h + Lag
  BY <1>1 DEF Lag
<1>7. NotTooLate'
  <2> SUFFICES ASSUME NEW j \in 1 .. Len(mailbox'), mailbox'[j].kind = "certified"
               PROVE  tip' <= mailbox'[j].height + Lag
    BY DEF NotTooLate, Lag
  <2>1. CASE j \in 1 .. Len(mailbox)
    BY <1>1, <1>2, <2>1 DEF MailInv, NotTooLate
  <2>2. CASE j = Len(mailbox) + 1
    BY <1>1, <1>2, <1>6, <2>2, SlackCoversLag DEF MailInv, TipAhead
  <2> QED
    BY <1>3, <2>1, <2>2
<1>8. InOrder'
  <2> SUFFICES ASSUME NEW i \in 1 .. Len(mailbox'), NEW j \in 1 .. Len(mailbox'),
                      i < j, mailbox'[j].kind = "certified"
               PROVE  mailbox'[i].height <= mailbox'[j].height + Lag
    BY DEF InOrder, Lag
  <2>1. i \in 1 .. Len(mailbox) /\ mailbox'[i] = mailbox[i]
    BY <1>2
  <2>2. CASE j \in 1 .. Len(mailbox)
    BY <1>2, <2>1, <2>2 DEF MailInv, InOrder
  <2>3. CASE j = Len(mailbox) + 1
    <3>1. mailbox[i].height <= engineTip + Window - 1
      BY <2>1 DEF MailInv, MailAhead
    <3>2. mailbox[i].height \in Nat
      <4>1. mailbox[i] \in Report
        BY <1>1, <2>1
      <4> QED
        BY <4>1, HeightsNat DEF Report
    <3> QED
      BY <1>1, <1>2, <1>6, <2>1, <2>3, <3>1, <3>2, SlackCoversLag
  <2> QED
    BY <1>3, <2>2, <2>3
<1> QED
  BY <1>2, <1>4, <1>5, <1>7, <1>8 DEF MailInv
-----------------------------------------------------------------------------
(* The dedupe set, the counters and the tap.                               *)

\* Saturating subtraction stays among the heights and grows with the tip.
LEMMA SatSubGrows ==
    ASSUME NEW a \in ReporterHeights, NEW b \in ReporterHeights, a <= b
    PROVE  /\ SatSub(a, PruneSlack) \in ReporterHeights
           /\ SatSub(b, PruneSlack) \in ReporterHeights
           /\ SatSub(a, PruneSlack) <= SatSub(b, PruneSlack)
BY DEF SatSub, ReporterHeights

\* Advancing prunes the dedupe set to what the slack keeps below the new tip.
LEMMA AdvanceDedupe ==
    ASSUME ReporterTypeOK, DedupeExact, FloorBehind, NEW h \in ReporterHeights,
           NEW more, more = {} \/ more = {h},
           \A x \in more : x >= SatSub(tip, PruneSlack),
           handled' = handled \cup more,
           Advance(h, certified \cup more)
    PROVE  /\ tip' \in ReporterHeights /\ tip' \in {tip, h} /\ pruned' \in ReporterHeights
           /\ DedupeExact' /\ FloorBehind'
<1>1. /\ tip \in ReporterHeights /\ pruned \in ReporterHeights
      /\ handled \subseteq ReporterHeights /\ ReporterHeights \subseteq Nat
      /\ pruned <= SatSub(tip, PruneSlack)
      /\ certified = {x \in handled : x >= SatSub(tip, PruneSlack)}
  BY HeightsNat DEF ReporterTypeOK, DedupeExact, FloorBehind
<1>2. CASE h <= tip
  <2>1. certified' = certified \cup more /\ tip' = tip /\ pruned' = pruned
    BY <1>2 DEF Advance
  <2>2. certified \cup more = {x \in handled \cup more : x >= SatSub(tip, PruneSlack)}
    BY <1>1
  <2> QED
    BY <1>1, <2>1, <2>2 DEF DedupeExact, FloorBehind
<1>3. CASE ~(h <= tip)
  <2> DEFINE floor == SatSub(h, PruneSlack)
  <2>1. /\ certified' = {x \in certified \cup more : x >= floor} /\ tip' = h
        /\ pruned' = IF floor > 0 THEN floor ELSE pruned
    BY <1>3 DEF Advance
  <2>2. /\ SatSub(tip, PruneSlack) \in Nat /\ floor \in ReporterHeights
        /\ SatSub(tip, PruneSlack) <= floor
    <3>1. tip <= h
      BY <1>1, <1>3
    <3> QED
      BY <1>1, <3>1, SatSubGrows
  <2> HIDE DEF floor
  <2>3. floor \in Nat
    BY <1>1, <2>2
  <2>4. certified' = {x \in handled \cup more : x >= floor}
    <3>1. \A x \in handled : x >= floor => x >= SatSub(tip, PruneSlack)
      BY <1>1, <2>2, <2>3
    <3> QED
      BY <1>1, <2>1, <3>1
  <2>5. floor = SatSub(tip', PruneSlack)
    BY <2>1 DEF floor
  <2>6. pruned' \in ReporterHeights /\ pruned' <= floor
    BY <1>1, <2>1, <2>2, <2>3
  <2> QED
    BY <2>1, <2>4, <2>5, <2>6 DEF DedupeExact, FloorBehind
<1> QED
  BY <1>2, <1>3

\* The height sets are finite.
LEMMA HandledFinite ==
    ASSUME ReporterTypeOK
    PROVE  IsFiniteSet(handled) /\ IsFiniteSet(handled \cap SkipHeights)
<1>1. IsFiniteSet(ReporterHeights)
  BY FS_Interval DEF ReporterHeights
<1>2. handled \subseteq ReporterHeights
  BY DEF ReporterTypeOK
<1> QED
  BY <1>1, <1>2, FS_Subset

\* A height handled for the first time is counted once.
LEMMA CountOne ==
    ASSUME ReporterTypeOK, CountersExact, NEW h, h \notin handled,
           counted' = counted + 1,
           skipped' = IF h \in SkipHeights THEN skipped + 1 ELSE skipped,
           handled' = handled \cup {h}
    PROVE  CountersExact' /\ counted' \in Nat /\ skipped' \in Nat
<1>1. /\ counted \in Nat /\ skipped \in Nat
      /\ counted = Cardinality(handled)
      /\ skipped = Cardinality(handled \cap SkipHeights)
      /\ IsFiniteSet(handled) /\ IsFiniteSet(handled \cap SkipHeights)
  BY HandledFinite DEF ReporterTypeOK, CountersExact
<1>2. Cardinality(handled \cup {h}) = Cardinality(handled) + 1
  BY <1>1, FS_AddElement
<1>3. counted' = Cardinality(handled \cup {h}) /\ counted' \in Nat
  BY <1>1, <1>2
<1>4. CASE h \in SkipHeights
  <2>1. (handled \cup {h}) \cap SkipHeights = (handled \cap SkipHeights) \cup {h}
    BY <1>4
  <2>2. Cardinality((handled \cap SkipHeights) \cup {h})
            = Cardinality(handled \cap SkipHeights) + 1
    BY <1>1, FS_AddElement
  <2>3. skipped' = Cardinality((handled \cup {h}) \cap SkipHeights) /\ skipped' \in Nat
    BY <1>1, <1>4, <2>1, <2>2
  <2> QED
    BY <1>3, <2>3 DEF CountersExact
<1>5. CASE h \notin SkipHeights
  <2>1. (handled \cup {h}) \cap SkipHeights = handled \cap SkipHeights
    BY <1>5
  <2>2. skipped' = Cardinality((handled \cup {h}) \cap SkipHeights) /\ skipped' \in Nat
    BY <1>1, <1>5, <2>1
  <2> QED
    BY <1>3, <2>2 DEF CountersExact
<1> QED
  BY <1>4, <1>5

\* It is tapped once, if the tap is open.
LEMMA TapOne ==
    ASSUME ReporterTypeOK, ObservedOnce, NEW h \in ReporterHeights, h \notin handled,
           tapped' = IF tapOpen THEN Append(tapped, h) ELSE tapped,
           handled' = handled \cup {h}, tapOpen' = tapOpen
    PROVE  ObservedOnce' /\ tapped' \in Seq(ReporterHeights)
<1>1. tapped \in Seq(ReporterHeights) /\ tapOpen \in BOOLEAN
  BY DEF ReporterTypeOK
<1>2. CASE ~tapOpen
  BY <1>1, <1>2 DEF ObservedOnce
<1>3. CASE tapOpen
  <2>1. /\ tapped' \in Seq(ReporterHeights) /\ Len(tapped') = Len(tapped) + 1
        /\ \A i \in 1 .. Len(tapped) : tapped'[i] = tapped[i]
        /\ tapped'[Len(tapped) + 1] = h /\ Len(tapped) \in Nat
    BY <1>1, <1>3, AppendShift
  <2>2. \A i \in 1 .. Len(tapped') : i \in 1 .. Len(tapped) \/ i = Len(tapped) + 1
    BY <2>1
  <2>3. \A i \in 1 .. Len(tapped) : tapped[i] \in handled /\ tapped[i] # h
    BY DEF ObservedOnce
  <2>4. \A i \in 1 .. Len(tapped') : tapped'[i] \in handled'
    BY <2>1, <2>2, <2>3
  <2>5. \A i, j \in 1 .. Len(tapped') : tapped'[i] = tapped'[j] => i = j
    <3> SUFFICES ASSUME NEW i \in 1 .. Len(tapped'), NEW j \in 1 .. Len(tapped'),
                        tapped'[i] = tapped'[j]
                 PROVE  i = j
      OBVIOUS
    <3>1. CASE i \in 1 .. Len(tapped) /\ j \in 1 .. Len(tapped)
      BY <2>1, <3>1 DEF ObservedOnce
    <3>2. CASE i \in 1 .. Len(tapped) /\ j = Len(tapped) + 1
      BY <2>1, <2>3, <3>2
    <3>3. CASE i = Len(tapped) + 1 /\ j \in 1 .. Len(tapped)
      BY <2>1, <2>3, <3>3
    <3> QED
      BY <2>2, <3>1, <3>2, <3>3
  <2>6. \A x \in handled' : \E i \in 1 .. Len(tapped') : tapped'[i] = x
    <3> SUFFICES ASSUME NEW x \in handled'
                 PROVE  \E i \in 1 .. Len(tapped') : tapped'[i] = x
      OBVIOUS
    <3>1. CASE x = h
      <4>1. Len(tapped) + 1 \in 1 .. Len(tapped')
        BY <2>1
      <4> QED
        BY <2>1, <3>1, <4>1
    <3>2. CASE x \in handled
      <4>1. PICK i \in 1 .. Len(tapped) : tapped[i] = x
        BY <1>3, <3>2 DEF ObservedOnce
      <4>2. i \in 1 .. Len(tapped') /\ tapped'[i] = x
        BY <2>1, <4>1
      <4> QED
        BY <4>2
    <3> QED
      BY <3>1, <3>2
  <2> QED
    BY <1>3, <2>1, <2>4, <2>5, <2>6 DEF ObservedOnce
<1> QED
  BY <1>1, <1>2, <1>3

-----------------------------------------------------------------------------
(* The steps.                                                              *)

\* What a step that only takes a report leaves of the types.
Held == /\ tapOpen \in BOOLEAN /\ engineTip \in ReporterHeights /\ lives \in 1 .. MaxLives
        /\ mailbox \in Seq(Report)

\* The initial states satisfy the invariant.
LEMMA ReporterInitInv == ReporterInit => ReporterInv
<1> SUFFICES ASSUME ReporterInit PROVE ReporterInv
  OBVIOUS
<1>1. /\ mailbox = <<>> /\ tip = 0 /\ pruned = 0 /\ certified = {} /\ counted = 0
      /\ skipped = 0 /\ tapped = <<>> /\ handled = {} /\ tapOpen \in BOOLEAN
      /\ engineTip = 0 /\ lives = 1 /\ 0 \in ReporterHeights
  BY DEF ReporterInit, ReporterHeights
<1>2. ReporterTypeOK
  BY <1>1 DEF ReporterTypeOK
<1>3. MailInv
  BY <1>1 DEF MailInv, MailAhead, TipAhead, NotTooLate, InOrder
<1>4. DedupeExact /\ FloorBehind /\ ObservedOnce
  BY <1>1 DEF DedupeExact, FloorBehind, SatSub, ObservedOnce
<1>5. CountersExact
  <2>1. handled \cap SkipHeights = {}
    BY <1>1
  <2> QED
    BY <1>1, <2>1, FS_EmptySet DEF CountersExact
<1> QED
  BY <1>2, <1>3, <1>4, <1>5 DEF ReporterInv, BookInv

\* The head of the mailbox.
LEMMA TakeHead ==
    ASSUME ReporterTypeOK, NEW kind, Take(kind)
    PROVE  /\ Held' /\ tapOpen' = tapOpen
           /\ 1 \in 1 .. Len(mailbox) /\ Head(mailbox) = mailbox[1]
           /\ mailbox[1].kind = kind /\ mailbox[1].height \in ReporterHeights
<1>1. mailbox \in Seq(Report) /\ mailbox # <<>>
  BY DEF ReporterTypeOK, Take
<1>2. /\ Tail(mailbox) \in Seq(Report)
      /\ Head(mailbox) = mailbox[1] /\ 1 \in 1 .. Len(mailbox) /\ Head(mailbox) \in Report
  BY <1>1, TailShift
<1> QED
  BY <1>2 DEF Take, Held, ReporterTypeOK, Report

\* A replayed certificate changes nothing.
LEMMA ReplayedInv == ReporterInv /\ TakeReplayed => ReporterInv'
<1> SUFFICES ASSUME ReporterInv, TakeReplayed PROVE ReporterInv'
  OBVIOUS
<1>1. ReporterTypeOK /\ MailInv /\ BookInv /\ Take("certified")
  BY DEF ReporterInv, TakeReplayed
<1>2. UNCHANGED <<tip, pruned, countVars, tapOpen>>
  BY <1>1, TakeHead DEF TakeReplayed
<1>3. MailInv'
  BY <1>1, <1>2, TakeMail
<1>4. ReporterTypeOK'
  BY <1>1, <1>2, TakeHead DEF ReporterTypeOK, Held, countVars
<1>5. BookInv'
  BY <1>1, <1>2 DEF BookInv, DedupeExact, FloorBehind, CountersExact, ObservedOnce, countVars
<1> QED
  BY <1>3, <1>4, <1>5 DEF ReporterInv

\* A certificate the dedupe set does not hold is of a height not handled before.
LEMMA FreshHeight ==
    ASSUME ReporterInv, Take("certified"), Head(mailbox).height \notin certified
    PROVE  /\ Head(mailbox).height \notin handled
           /\ Head(mailbox).height >= SatSub(tip, PruneSlack)
<1>1. ReporterTypeOK /\ MailInv /\ DedupeExact
  BY DEF ReporterInv, BookInv
<1>2. PICK h \in ReporterHeights : h = mailbox[1].height
  BY <1>1, TakeHead
<1>3. tip <= h + Lag
  BY <1>1, <1>2, TakeHead DEF MailInv, NotTooLate
<1>4. h >= SatSub(tip, PruneSlack)
  BY <1>1, <1>2, <1>3, SlackCoversLag, HeightsNat DEF SatSub, ReporterTypeOK
<1> QED
  BY <1>1, <1>2, <1>4, TakeHead DEF DedupeExact

\* A certificate handled for the first time.
LEMMA CertifiedInv == ReporterInv /\ TakeCertified => ReporterInv'
<1> SUFFICES ASSUME ReporterInv, TakeCertified PROVE ReporterInv'
  OBVIOUS
<1>1. ReporterTypeOK /\ MailInv /\ BookInv /\ Take("certified")
  BY DEF ReporterInv, TakeCertified
<1>2. PICK h \in ReporterHeights : h = Head(mailbox).height
  BY <1>1, TakeHead
<1>3. /\ h \notin certified /\ counted' = counted + 1
      /\ skipped' = IF h \in SkipHeights THEN skipped + 1 ELSE skipped
      /\ tapped' = IF tapOpen THEN Append(tapped, h) ELSE tapped
      /\ handled' = handled \cup {h} /\ Advance(h, certified \cup {h})
      /\ tapOpen' = tapOpen
  BY <1>1, <1>2, TakeHead DEF TakeCertified
<1>4. h \notin handled /\ h >= SatSub(tip, PruneSlack)
  BY <1>1, <1>2, <1>3, FreshHeight
<1>5. /\ tip' \in ReporterHeights /\ tip' \in {tip, h} /\ pruned' \in ReporterHeights
      /\ DedupeExact' /\ FloorBehind'
  BY <1>1, <1>3, <1>4, AdvanceDedupe DEF BookInv
<1>6. MailInv'
  BY <1>1, <1>2, <1>5, TakeMail
<1>7. CountersExact' /\ counted' \in Nat /\ skipped' \in Nat
  BY <1>1, <1>3, <1>4, CountOne DEF BookInv
<1>8. ObservedOnce' /\ tapped' \in Seq(ReporterHeights)
  BY <1>1, <1>3, <1>4, TapOne DEF BookInv
<1>9. handled' \subseteq ReporterHeights /\ certified' \subseteq ReporterHeights
  BY <1>1, <1>3, <1>5 DEF ReporterTypeOK, DedupeExact
<1>10. ReporterTypeOK'
  BY <1>1, <1>5, <1>7, <1>8, <1>9, TakeHead DEF ReporterTypeOK, Held
<1> QED
  BY <1>5, <1>6, <1>7, <1>8, <1>10 DEF ReporterInv, BookInv

\* A tip.
LEMMA TipInv == ReporterInv /\ TakeTip => ReporterInv'
<1> SUFFICES ASSUME ReporterInv, TakeTip PROVE ReporterInv'
  OBVIOUS
<1>1. ReporterTypeOK /\ MailInv /\ BookInv /\ Take("tip")
  BY DEF ReporterInv, TakeTip
<1>2. PICK h \in ReporterHeights : h = Head(mailbox).height
  BY <1>1, TakeHead
<1>3. /\ counted' = counted /\ skipped' = skipped /\ tapped' = tapped
      /\ handled' = handled /\ Advance(h, certified) /\ tapOpen' = tapOpen
  BY <1>1, <1>2, TakeHead DEF TakeTip
<1>4. PICK more : more = {}
  OBVIOUS
<1>5. /\ tip' \in ReporterHeights /\ tip' \in {tip, h} /\ pruned' \in ReporterHeights
      /\ DedupeExact' /\ FloorBehind'
  <2>1. handled \cup more = handled /\ certified \cup more = certified
    BY <1>4
  <2>2. handled' = handled \cup more /\ Advance(h, certified \cup more)
    BY <1>3, <2>1
  <2>3. \A x \in more : x >= SatSub(tip, PruneSlack)
    BY <1>4
  <2> QED
    BY <1>1, <1>4, <2>2, <2>3, AdvanceDedupe DEF BookInv
<1>6. MailInv'
  BY <1>1, <1>2, <1>5, TakeMail
<1>7. CountersExact' /\ ObservedOnce'
  BY <1>1, <1>3 DEF BookInv, CountersExact, ObservedOnce
<1>8. certified' \subseteq ReporterHeights
  BY <1>1, <1>3, <1>5 DEF ReporterTypeOK, DedupeExact
<1>9. ReporterTypeOK'
  BY <1>1, <1>3, <1>5, <1>8, TakeHead DEF ReporterTypeOK, Held
<1> QED
  BY <1>5, <1>6, <1>7, <1>9 DEF ReporterInv, BookInv

\* A report of the engine.
LEMMA ReportInv ==
    ASSUME ReporterInv, NEW h \in ReporterHeights, ReportCertified(h) \/ ReportTip(h)
    PROVE  ReporterInv'
<1>1. ReporterTypeOK /\ MailInv /\ BookInv
  BY DEF ReporterInv
<1>2. PICK kind \in {"certified", "tip"} :
          /\ Enqueue(kind, h) /\ h <= engineTip + Window - 1
          /\ kind = "certified" => h >= engineTip - ActivityTimeout
  <2>1. engineTip \in Nat /\ h \in Nat
    BY <1>1, HeightsNat DEF ReporterTypeOK
  <2>2. CASE ReportCertified(h)
    BY <2>1, <2>2 DEF ReportCertified
  <2>3. CASE ReportTip(h)
    BY <2>1, <2>3 DEF ReportTip
  <2> QED
    BY <2>2, <2>3
<1>3. MailInv' /\ mailbox' \in Seq(Report)
  BY <1>1, <1>2, EnqueueMail
<1>4. UNCHANGED <<tip, tapOpen, pruned, countVars, engineTip, lives>>
  BY <1>2 DEF Enqueue
<1>5. ReporterTypeOK'
  BY <1>1, <1>3, <1>4 DEF ReporterTypeOK, countVars
<1>6. BookInv'
  BY <1>1, <1>4 DEF BookInv, DedupeExact, FloorBehind, CountersExact, ObservedOnce, countVars
<1> QED
  BY <1>3, <1>5, <1>6 DEF ReporterInv

\* The engine's tip only rises within a life.
LEMMA MovesInv ==
    ASSUME ReporterInv, NEW t \in ReporterHeights, EngineMoves(t)
    PROVE  ReporterInv'
<1>1. ReporterTypeOK /\ MailInv /\ BookInv
  BY DEF ReporterInv
<1>2. /\ UNCHANGED <<mailbox, tip, tapOpen, pruned, countVars, lives>>
      /\ engineTip' = t /\ engineTip < t /\ engineTip \in Nat /\ t \in Nat
  BY <1>1, HeightsNat DEF EngineMoves, ReporterTypeOK
<1>3. ReporterTypeOK'
  BY <1>1, <1>2 DEF ReporterTypeOK, countVars
<1>4. BookInv'
  BY <1>1, <1>2 DEF BookInv, DedupeExact, FloorBehind, CountersExact, ObservedOnce, countVars
<1>5. NotTooLate' /\ InOrder'
  BY <1>1, <1>2 DEF MailInv, NotTooLate, InOrder
<1>6. TipAhead'
  BY <1>1, <1>2, HeightsNat DEF MailInv, TipAhead, ReporterTypeOK
<1>7. MailAhead'
  <2> SUFFICES ASSUME NEW i \in 1 .. Len(mailbox)
               PROVE  mailbox[i].height <= engineTip' + Window - 1
    BY <1>2 DEF MailAhead
  <2>1. mailbox[i] \in Report
    BY <1>1 DEF ReporterTypeOK
  <2>2. mailbox[i].height \in Nat
    BY <2>1, HeightsNat DEF Report
  <2>3. mailbox[i].height <= engineTip + Window - 1
    BY <1>1 DEF MailInv, MailAhead
  <2> QED
    BY <1>2, <2>2, <2>3
<1> QED
  BY <1>3, <1>4, <1>5, <1>6, <1>7 DEF ReporterInv, MailInv

\* The consumer of the tap goes away.
LEMMA DroppedInv == ReporterInv /\ TapDropped => ReporterInv'
<1> SUFFICES ASSUME ReporterInv, TapDropped PROVE ReporterInv'
  OBVIOUS
<1>1. /\ UNCHANGED <<mailbox, tip, pruned, countVars, engineTip, lives>>
      /\ tapOpen' = FALSE
  BY DEF TapDropped
<1>2. ReporterTypeOK'
  BY <1>1 DEF ReporterInv, ReporterTypeOK, countVars
<1>3. MailInv'
  BY <1>1 DEF ReporterInv, MailInv, MailAhead, TipAhead, NotTooLate, InOrder, countVars
<1>4. BookInv'
  BY <1>1 DEF ReporterInv, BookInv, DedupeExact, FloorBehind, CountersExact, ObservedOnce,
              countVars
<1> QED
  BY <1>2, <1>3, <1>4 DEF ReporterInv

\* A crash starts the next life from nothing.
LEMMA CrashInv == ReporterInv /\ ReporterCrash => ReporterInv'
<1> SUFFICES ASSUME ReporterInv, ReporterCrash PROVE ReporterInv'
  OBVIOUS
<1>1. /\ mailbox' = <<>> /\ tip' = 0 /\ pruned' = 0 /\ certified' = {} /\ counted' = 0
      /\ skipped' = 0 /\ tapped' = <<>> /\ handled' = {} /\ tapOpen' \in BOOLEAN
      /\ engineTip' \in ReporterHeights /\ lives' \in 1 .. MaxLives
      /\ 0 \in ReporterHeights /\ engineTip' \in Nat
  BY HeightsNat DEF ReporterCrash, ReporterHeights, ReporterInv, ReporterTypeOK
<1>2. ReporterTypeOK'
  BY <1>1 DEF ReporterTypeOK
<1>3. MailInv'
  <2>1. TipAhead'
    <3>1. PICK e \in Nat : e = engineTip'
      BY <1>1
    <3>2. \A k \in Nat : 0 <= k + Window - 1
      OBVIOUS
    <3>3. 0 <= e + Window - 1
      BY <3>2
    <3> QED
      BY <1>1, <3>1, <3>3 DEF TipAhead
  <2>2. MailAhead' /\ NotTooLate' /\ InOrder'
    BY <1>1 DEF MailAhead, NotTooLate, InOrder
  <2> QED
    BY <2>1, <2>2 DEF MailInv
<1>4. DedupeExact' /\ FloorBehind' /\ ObservedOnce'
  BY <1>1 DEF DedupeExact, FloorBehind, SatSub, ObservedOnce
<1>5. CountersExact'
  <2>1. handled' \cap SkipHeights = {}
    BY <1>1
  <2> QED
    BY <1>1, <2>1, FS_EmptySet DEF CountersExact
<1> QED
  BY <1>2, <1>3, <1>4, <1>5 DEF ReporterInv, BookInv

\* Every step keeps the invariant.
LEMMA ReporterStepInv == ReporterInv /\ [ReporterNext]_reporterVars => ReporterInv'
<1> SUFFICES ASSUME ReporterInv, [ReporterNext]_reporterVars PROVE ReporterInv'
  OBVIOUS
<1>1. CASE Actor
  BY <1>1, ReplayedInv, CertifiedInv, TipInv DEF Actor
<1>2. CASE \E h \in ReporterHeights : ReportCertified(h) \/ ReportTip(h) \/ EngineMoves(h)
  BY <1>2, ReportInv, MovesInv
<1>3. CASE TapDropped
  BY <1>3, DroppedInv
<1>4. CASE ReporterCrash
  BY <1>4, CrashInv
<1>5. CASE UNCHANGED reporterVars
  BY <1>5 DEF reporterVars, ReporterInv, ReporterTypeOK, MailInv, MailAhead, TipAhead, NotTooLate,
              InOrder, BookInv, DedupeExact, FloorBehind, CountersExact, ObservedOnce,
              countVars
<1> QED
  BY <1>1, <1>2, <1>3, <1>4, <1>5 DEF ReporterNext

\* The invariant holds of every behaviour of the reporter actor
\* (node/src/reporter.rs:141-250).
THEOREM ReporterInvariance == ReporterSpec => []ReporterInv
BY ReporterInitInv, ReporterStepInv, PTL DEF ReporterSpec

-----------------------------------------------------------------------------
(* The properties.                                                         *)

\* Type correctness of the reporter.
THEOREM ReporterTypes == ReporterSpec => []ReporterTypeOK
<1>1. ReporterInv => ReporterTypeOK
  BY DEF ReporterInv
<1> QED
  BY <1>1, ReporterInvariance, PTL

\* The counters count every certified height handled in a life once, although the
\* dedupe set is pruned under them (reporter.rs:169-214).
THEOREM CountedOnce == ReporterSpec => []CountersExact
<1>1. ReporterInv => CountersExact
  BY DEF ReporterInv, BookInv
<1> QED
  BY <1>1, ReporterInvariance, PTL

\* The tap sees a height once, and misses none while it is open (reporter.rs:68-70).
THEOREM TappedOnce == ReporterSpec => []ObservedOnce
<1>1. ReporterInv => ObservedOnce
  BY DEF ReporterInv, BookInv
<1> QED
  BY <1>1, ReporterInvariance, PTL

\* The TaskBook is never told to prune above the engine's tip (reporter.rs:242-245).
THEOREM PrunedBehind == ReporterSpec => []PruneBehindEngine
<1>1. ReporterInv => PruneBehindEngine
  <2> SUFFICES ASSUME ReporterInv PROVE PruneBehindEngine
    OBVIOUS
  <2>1. /\ tip \in Nat /\ engineTip \in Nat /\ pruned \in Nat
        /\ tip <= engineTip + Window - 1 /\ pruned <= SatSub(tip, PruneSlack)
    BY HeightsNat DEF ReporterInv, ReporterTypeOK, MailInv, TipAhead, BookInv, FloorBehind
  <2> QED
    BY <2>1, SlackCoversLag DEF SatSub, PruneBehindEngine
<1> QED
  BY <1>1, ReporterInvariance, PTL
=============================================================================
