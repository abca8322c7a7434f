---------------------------- MODULE RouterProofs ----------------------------
(***************************************************************************)
(* For any number of heights, tasks, retries and lives, any window and any *)
(* slack that covers it: the sequencer lets go of a task by quorum, only   *)
(* certified tasks go on chain, no gap is opened, and every certificate    *)
(* the reporter forwards is resolved exactly once.  The invariant comes in *)
(* four layers, each inductive given those before it.                      *)
(***************************************************************************)
EXTENDS Router, CommonLemmas, FiniteSetTheorems

USE RouterAssumption DEF Submissions

-----------------------------------------------------------------------------
(* First layer: types, and where the sequencer is.                         *)

\* An assignment exists only for the height being driven; heights and consumed
\* dispositions stay below the next height.
Control ==
    /\ pc \in {"settling", "starting"} => height = -1 /\ consumed = {}
    /\ pc \in {"starting", "tipKnown"} => reply \in Tips
    /\ pc \in {"pending", "drained", "tipKnown", "driving", "gotReply"} => task \in Tasks
    /\ Driving => /\ height \in Heights
                  /\ assignments[height] = task
                  /\ <<height, task>> \in announced
    /\ \A h \in Heights : assignments[h] # None => Driving /\ h = height
    /\ height < nextHeight
    /\ \A h \in consumed : h < nextHeight
Layer1 == TypeOK /\ Control

\* None is no task and no tip.
LEMMA NoneApart == None \notin Tasks /\ None # Skip /\ Skip \notin Tasks
BY DEF Digests

\* Heights and tips are numbers.
LEMMA HeightsNat ==
    /\ Heights \subseteq Nat /\ Tips \subseteq Nat /\ Heights \subseteq Tips
    /\ \A h \in Heights : h + 1 \in Tips
    /\ Tips = 0 .. MaxHeight + 1 /\ 0 \in Tips
BY DEF Heights, Tips

\* The larger of two tips is a tip.
LEMMA LargerTip ==
    ASSUME NEW a \in Tips, NEW b \in Tips
    PROVE  Larger(a, b) \in Tips /\ Larger(a, b) >= a /\ Larger(a, b) >= b
           /\ Larger(a, b) \in {a, b}
BY HeightsNat DEF Larger

\* The maximum DrainResolutions takes exists.
LEMMA DrainMax ==
    ASSUME NEW n \in Tips, NEW H \in SUBSET Heights
    PROVE  LET m == Max({n} \cup {h + 1 : h \in H})
           IN  /\ m \in Tips /\ m >= n /\ \A h \in H : h < m
               /\ m = n \/ \E h \in H : m = h + 1
<1> DEFINE S == {n} \cup {h + 1 : h \in H}
<1>1. S \subseteq 0 .. MaxHeight + 1 /\ S # {} /\ MaxHeight + 1 \in Nat
  BY HeightsNat
<1>2. \E t \in S : \A u \in S : u <= t
  <2> HIDE DEF S
  <2> QED
    BY <1>1, GreatestElement
<1>3. \E t \in S : \A u \in S : t >= u
  BY <1>1, <1>2
<1>4. Max(S) \in S /\ \A u \in S : Max(S) >= u
  <2> HIDE DEF S
  <2> QED
    BY <1>3 DEF Max
<1>5. Max(S) \in Tips
  <2> HIDE DEF S
  <2> QED
    BY <1>1, <1>4 DEF Tips
<1>6. Max(S) >= n /\ \A h \in H : Max(S) >= h + 1
  BY <1>4
<1>7. Max(S) = n \/ \E h \in H : Max(S) = h + 1
  BY <1>4
<1>8. \A h \in H : h < Max(S)
  <2> TAKE h \in H
  <2>1. h \in Nat /\ Max(S) \in Nat
    BY <1>5, HeightsNat
  <2> HIDE DEF S
  <2> QED
    BY <1>6, <2>1
<1> QED
  BY <1>5, <1>6, <1>7, <1>8

\* The heights of a queue.
LEMMA QueueHeights ==
    ASSUME NEW S, S = Certs \/ S = Resolutions, NEW q \in Seq(S)
    PROVE  HeightsOf(q) \subseteq Heights
<1>1. \A i \in 1 .. Len(q) : q[i] \in S
  OBVIOUS
<1>2. \A e \in S : e.height \in Heights
  <2>1. CASE S = Certs
    BY <2>1 DEF Certs
  <2>2. CASE S = Resolutions
    BY <2>2 DEF Resolutions
  <2> QED
    BY <2>1, <2>2
<1> QED
  BY <1>1, <1>2 DEF HeightsOf

\* The head of the dispositions, and what is left.
LEMMA HeadResolution ==
    ASSUME resolutions \in Seq(Resolutions), resolutions # <<>>
    PROVE  /\ Head(resolutions).height \in Heights /\ Head(resolutions).kind \in Kinds
           /\ Tail(resolutions) \in Seq(Resolutions)
<1>1. Head(resolutions) \in Resolutions /\ Tail(resolutions) \in Seq(Resolutions)
  BY TailShift
<1> QED
  BY <1>1 DEF Resolutions

\* The head of the forwarded certificates, and what is left.
LEMMA HeadCertificate ==
    ASSUME toSubmit \in Seq(Certs), toSubmit # <<>>
    PROVE  /\ Head(toSubmit).height \in Heights /\ Head(toSubmit).digest \in Digests
           /\ Tail(toSubmit) \in Seq(Certs)
<1>1. Head(toSubmit) \in Certs /\ Tail(toSubmit) \in Seq(Certs)
  BY TailShift
<1> QED
  BY <1>1 DEF Certs

\* A disposition put behind the others.
LEMMA NotifyType ==
    ASSUME resolutions \in Seq(Resolutions), NEW h \in Heights, NEW k \in Kinds,
           Notify(h, k)
    PROVE  resolutions' \in Seq(Resolutions)
<1>1. [height |-> h, kind |-> k] \in Resolutions
  BY DEF Resolutions
<1> QED
  BY <1>1, AppendShift DEF Notify

\* The initial states.
LEMMA Init1 == Init => Layer1
<1> SUFFICES ASSUME Init PROVE Layer1
  OBVIOUS
<1>1. TypeOK
  <2>1. 0 \in 0 .. MaxHeight + 1 /\ 1 \in 1 .. MaxLives /\ 0 \in Tips
    BY HeightsNat
  <2>2. <<>> \in Seq(Certs) /\ <<>> \in Seq(Resolutions)
    OBVIOUS
  <2>3. /\ [h \in Heights |-> None] \in [Heights -> Tasks \cup {None}]
        /\ [h \in Heights |-> None] \in [Heights -> Digests \cup {None}]
    OBVIOUS
  <2> QED
    BY <2>1, <2>2, <2>3 DEF Init, TypeOK
<1>2. Control
  BY DEF Init, Control, Driving
<1> QED
  BY <1>1, <1>2 DEF Layer1

\* What every step of the sequencer leaves alone.
LEMMA SequencerTypes ==
    ASSUME TypeOK, OnlySequencer,
           pc' \in {"settling", "starting", "idle", "pending", "drained", "tipKnown",
                    "driving", "gotReply", "stopped"},
           nextHeight' \in Tips, height' \in Heights \cup {-1}, task' \in Tasks \cup {None},
           skipping' \in BOOLEAN, latched' \in BOOLEAN, reply' \in Tips \cup Digests \cup {None},
           assignments' \in [Heights -> Tasks \cup {None}],
           resolutions' \in Seq(Resolutions), announced' \subseteq Heights \X Tasks,
           consumed' \subseteq Heights,
           released' \subseteq [height : Heights, task : Tasks, kind : {"executed", "skipped"}]
    PROVE  TypeOK'
BY HeightsNat DEF TypeOK, OnlySequencer, reporterVars, submitterVars, networkVars

\* The steps up to the one before a height is assigned.
LEMMA Prelude1 ==
    ASSUME Layer1,
           \/ SettleReadTip \/ Start \/ SourceExhausted \/ ReadTip
           \/ \E t \in Tasks : NextTask(t)
    PROVE  Layer1'
<1>1. TypeOK /\ Control /\ tip \in Tips /\ safeTip \in Tips /\ nextHeight \in Tips
  BY HeightsNat DEF Layer1, TypeOK
<1>2. CASE SettleReadTip
  <2>1. TypeOK'
    BY <1>1, <1>2, SequencerTypes DEF SettleReadTip, TypeOK
  <2>2. Control'
    BY <1>1, <1>2 DEF SettleReadTip, Control, Driving
  <2> QED
    BY <2>1, <2>2 DEF Layer1
<1>3. CASE Start
  <2>1. reply \in Tips /\ nextHeight' = Larger(reply, safeTip)
    BY <1>1, <1>3 DEF Start, Control
  <2>2. nextHeight' \in Tips
    BY <1>1, <2>1, LargerTip
  <2>3. TypeOK'
    BY <1>1, <1>3, <2>2, SequencerTypes DEF Start, TypeOK
  <2>4. Control'
    <3>1. height = -1 /\ consumed = {} /\ -1 < nextHeight'
      BY <1>1, <1>3, <2>2, HeightsNat DEF Start, Control
    <3> QED
      BY <1>1, <1>3, <3>1 DEF Start, Control, Driving
  <2> QED
    BY <2>3, <2>4 DEF Layer1
<1>4. CASE SourceExhausted
  <2>1. TypeOK'
    BY <1>1, <1>4, SequencerTypes DEF SourceExhausted, TypeOK
  <2>2. Control'
    BY <1>1, <1>4 DEF SourceExhausted, Control, Driving
  <2> QED
    BY <2>1, <2>2 DEF Layer1
<1>5. CASE ReadTip
  <2>1. TypeOK'
    BY <1>1, <1>5, SequencerTypes DEF ReadTip, TypeOK
  <2>2. Control'
    BY <1>1, <1>5 DEF ReadTip, Control, Driving
  <2> QED
    BY <2>1, <2>2 DEF Layer1
<1>6. CASE \E t \in Tasks : NextTask(t)
  <2>1. TypeOK'
    BY <1>1, <1>6, SequencerTypes DEF NextTask, TypeOK
  <2>2. Control'
    BY <1>1, <1>6 DEF NextTask, Control, Driving
  <2> QED
    BY <2>1, <2>2 DEF Layer1
<1> QED
  BY <1>2, <1>3, <1>4, <1>5, <1>6

\* Draining keeps the next height above all that was consumed.
LEMMA Drain1 == Layer1 /\ DrainResolutions => Layer1'
<1> SUFFICES ASSUME Layer1, DrainResolutions PROVE Layer1'
  OBVIOUS
<1>1. /\ TypeOK /\ Control /\ nextHeight \in Tips /\ height \in Heights \cup {-1}
      /\ HeightsOf(resolutions) \subseteq Heights /\ consumed \subseteq Heights
  BY HeightsNat, QueueHeights DEF Layer1, TypeOK
<1>2. PICK m \in Tips : m = nextHeight' /\ m >= nextHeight
                        /\ \A h \in HeightsOf(resolutions) : h < m
  BY <1>1, DrainMax DEF DrainResolutions
<1>3. consumed' = consumed \cup HeightsOf(resolutions)
  BY DEF DrainResolutions
<1>4. height < m /\ \A h \in consumed' : h < m
  <2>1. nextHeight \in Nat /\ m \in Nat /\ height \in Int /\ \A h \in consumed : h \in Nat
    BY <1>1, HeightsNat
  <2>2. height < nextHeight /\ \A h \in consumed : h < nextHeight
    BY <1>1 DEF Control
  <2> QED
    BY <1>2, <1>3, <2>1, <2>2
<1>5. TypeOK'
  BY <1>1, <1>2, <1>3, SequencerTypes DEF DrainResolutions, TypeOK
<1>6. Control'
  BY <1>1, <1>2, <1>4 DEF DrainResolutions, Control, Driving
<1> QED
  BY <1>5, <1>6 DEF Layer1

\* The height assigned.
LEMMA AssignHeight ==
    ASSUME Layer1, Assign
    PROVE  /\ height' = Larger(nextHeight, Larger(reply, safeTip))
           /\ height' \in Heights /\ nextHeight <= height' /\ nextHeight' = height' + 1
           /\ reply \in Tips /\ safeTip \in Tips /\ nextHeight \in Tips
           /\ height' \in {nextHeight, reply, safeTip}
           /\ assignments' = [assignments EXCEPT ![height'] = task]
           /\ announced' = announced \cup {<<height', task>>}
<1>1. reply \in Tips /\ safeTip \in Tips /\ nextHeight \in Tips
  BY HeightsNat DEF Layer1, TypeOK, Control, Assign
<1> DEFINE l == Larger(reply, safeTip)
<1>2. l \in Tips /\ l \in {reply, safeTip}
  BY <1>1, LargerTip
<1>3. /\ Larger(nextHeight, l) \in {nextHeight, l} /\ Larger(nextHeight, l) >= nextHeight
  BY <1>1, <1>2, LargerTip
<1>4. height' = Larger(nextHeight, l)
  BY DEF Assign
<1>5. /\ height' \in Heights /\ nextHeight' = height' + 1
      /\ assignments' = [assignments EXCEPT ![height'] = task]
      /\ announced' = announced \cup {<<height', task>>}
  BY DEF Assign
<1> HIDE DEF l
<1>6. nextHeight <= height' /\ height' \in {nextHeight, reply, safeTip}
  BY <1>1, <1>2, <1>3, <1>4, <1>5, HeightsNat
<1> QED
  BY <1>1, <1>4, <1>5, <1>6 DEF l

\* Assigning.
LEMMA Assign1 == Layer1 /\ Assign => Layer1'
<1> SUFFICES ASSUME Layer1, Assign PROVE Layer1'
  OBVIOUS
<1>1. TypeOK /\ Control /\ task \in Tasks /\ pc = "tipKnown"
  BY DEF Layer1, Control, Assign
<1>2. PICK h \in Heights :
         /\ h = height' /\ nextHeight <= h /\ nextHeight' = h + 1 /\ nextHeight \in Nat
         /\ assignments' = [assignments EXCEPT ![h] = task]
         /\ announced' = announced \cup {<<h, task>>}
  BY AssignHeight, HeightsNat
<1>3. h + 1 \in Tips /\ assignments \in [Heights -> Tasks \cup {None}] /\ h \in Nat
  BY <1>1, HeightsNat DEF TypeOK
<1>4. TypeOK'
  <2>1. /\ nextHeight' \in Tips /\ height' \in Heights \cup {-1}
        /\ assignments' \in [Heights -> Tasks \cup {None}]
        /\ announced' \subseteq Heights \X Tasks
    BY <1>1, <1>2, <1>3 DEF TypeOK
  <2>2. /\ OnlySequencer /\ skipping' = FALSE /\ latched' = FALSE /\ reply' = None
        /\ pc' = "driving" /\ task' = task /\ resolutions' = resolutions
        /\ consumed' = consumed /\ released' = released
    BY DEF Assign
  <2> QED
    BY <1>1, <2>1, <2>2, SequencerTypes DEF TypeOK
<1>5. \A g \in consumed : g < h + 1
  <2>1. \A g \in consumed : g \in Nat /\ g < nextHeight
    BY <1>1, HeightsNat DEF TypeOK, Control
  <2> QED
    BY <1>2, <1>3, <2>1
<1>6. \A g \in Heights : assignments[g] = None
  BY <1>1 DEF Control, Driving
<1>7. Control'
  BY <1>1, <1>2, <1>3, <1>5, <1>6 DEF Assign, Control, Driving
<1> QED
  BY <1>4, <1>7 DEF Layer1

\* A driven height's end.
LEMMA Resolved1 == Layer1 /\ (TaskResolved \/ ForeignResolved) => Layer1'
<1> SUFFICES ASSUME Layer1, TaskResolved \/ ForeignResolved PROVE Layer1'
  OBVIOUS
<1>1. /\ TypeOK /\ Control /\ pc = "driving" /\ task \in Tasks /\ height \in Heights
      /\ resolutions \in Seq(Resolutions) /\ resolutions # <<>>
      /\ Head(resolutions).height = height
  BY DEF Layer1, Control, TypeOK, TaskResolved, ForeignResolved, ReceiveResolution, Driving
<1>2. /\ OnlySequencer /\ nextHeight' = nextHeight /\ height' = height /\ skipping' = skipping
      /\ latched' = latched /\ reply' = reply /\ announced' = announced
      /\ resolutions' = Tail(resolutions) /\ consumed' = consumed \cup {height}
      /\ assignments' = [assignments EXCEPT ![height] = None]
      /\ \/ pc' = "idle" /\ task' = None
         \/ pc' = "pending" /\ task' = task
  BY <1>1 DEF TaskResolved, ForeignResolved, ReceiveResolution
<1>3. released' \subseteq [height : Heights, task : Tasks, kind : {"executed", "skipped"}]
  BY <1>1 DEF TaskResolved, ForeignResolved, TypeOK
<1>4. TypeOK'
  <2>1. resolutions' \in Seq(Resolutions)
    BY <1>1, <1>2, HeadResolution
  <2> QED
    <3>1. /\ nextHeight' \in Tips /\ consumed' \subseteq Heights
          /\ assignments' \in [Heights -> Tasks \cup {None}]
      BY <1>1, <1>2, HeightsNat DEF TypeOK
    <3>2. task' \in Tasks \cup {None} /\ pc' \in {"idle", "pending"}
      BY <1>1, <1>2
    <3> QED
      BY <1>1, <1>2, <1>3, <2>1, <3>1, <3>2, SequencerTypes DEF TypeOK
<1>5. Control'
  <2>1. \A h \in Heights : assignments'[h] = None
    BY <1>1, <1>2 DEF TypeOK, Control, Driving
  <2> QED
    BY <1>1, <1>2, <2>1 DEF Control, Driving
<1> QED
  BY <1>4, <1>5 DEF Layer1

\* Another height's disposition.
LEMMA Other1 == Layer1 /\ OtherHeightResolved => Layer1'
<1> SUFFICES ASSUME Layer1, OtherHeightResolved PROVE Layer1'
  OBVIOUS
<1>1. /\ TypeOK /\ Control /\ pc = "driving" /\ nextHeight \in Tips
      /\ resolutions \in Seq(Resolutions) /\ resolutions # <<>>
  BY HeightsNat DEF Layer1, TypeOK, OtherHeightResolved, ReceiveResolution
<1>2. PICK g \in Heights : g = Head(resolutions).height
  BY <1>1, HeadResolution
<1>3. PICK m \in Tips : m = nextHeight' /\ m >= nextHeight /\ m >= g + 1
  BY <1>1, <1>2, LargerTip, HeightsNat DEF OtherHeightResolved
<1>4. height < m /\ \A h \in consumed \cup {g} : h < m
  <2>1. nextHeight \in Nat /\ m \in Nat /\ g \in Nat /\ height \in Int
        /\ \A h \in consumed : h \in Nat
    BY <1>1, HeightsNat DEF TypeOK
  <2>2. height < nextHeight /\ \A h \in consumed : h < nextHeight
    BY <1>1 DEF Control
  <2> QED
    BY <1>3, <2>1, <2>2
<1>5. TypeOK'
  <2>1. resolutions' \in Seq(Resolutions)
    BY <1>1, HeadResolution DEF OtherHeightResolved, ReceiveResolution
  <2> QED
    BY <1>1, <1>2, <1>3, <2>1, SequencerTypes
       DEF OtherHeightResolved, ReceiveResolution, TypeOK
<1>6. Control'
  BY <1>1, <1>2, <1>3, <1>4 DEF OtherHeightResolved, ReceiveResolution, Control, Driving
<1> QED
  BY <1>5, <1>6 DEF Layer1

\* The ticks of a driven height.
LEMMA Tick1 ==
    Layer1 /\ (TickReadCertificate \/ TickCertified \/ TickSuperseded \/ TickRebroadcast)
        => Layer1'
<1> SUFFICES ASSUME Layer1,
                    TickReadCertificate \/ TickCertified \/ TickSuperseded \/ TickRebroadcast
             PROVE  Layer1'
  OBVIOUS
<1>1. TypeOK /\ Control /\ Driving /\ height \in Heights /\ nextHeight \in Tips
  BY HeightsNat
     DEF Layer1, Control, Driving, TickReadCertificate, TickCertified, TickSuperseded,
         TickRebroadcast, TypeOK
<1>2. CASE TickReadCertificate
  <2>1. certified[height] \in Digests \cup {None}
    BY <1>1 DEF TypeOK
  <2>2. TypeOK'
    BY <1>1, <1>2, <2>1, SequencerTypes DEF TickReadCertificate, TypeOK
  <2>3. Control'
    BY <1>1, <1>2 DEF TickReadCertificate, Control, Driving
  <2> QED
    BY <2>2, <2>3 DEF Layer1
<1>3. CASE TickCertified
  <2>1. TypeOK'
    BY <1>1, <1>3, SequencerTypes DEF TickCertified, TypeOK
  <2>2. Control'
    BY <1>1, <1>3 DEF TickCertified, Control, Driving
  <2> QED
    BY <2>1, <2>2 DEF Layer1
<1>4. CASE TickSuperseded
  <2>1. assignments' \in [Heights -> Tasks \cup {None}]
    BY <1>1, <1>4 DEF TickSuperseded, TypeOK
  <2>2. TypeOK'
    BY <1>1, <1>4, <2>1, SequencerTypes DEF TickSuperseded, TypeOK
  <2>3. \A h \in Heights : assignments'[h] = None
    BY <1>1, <1>4 DEF TickSuperseded, TypeOK, Control, Driving
  <2>4. Control'
    BY <1>1, <1>4, <2>3 DEF TickSuperseded, Control, Driving
  <2> QED
    BY <2>2, <2>4 DEF Layer1
<1>5. CASE TickRebroadcast
  <2>1. TypeOK'
    BY <1>1, <1>5, SequencerTypes DEF TickRebroadcast, TypeOK
  <2>2. Control'
    BY <1>1, <1>5 DEF TickRebroadcast, Control, Driving
  <2> QED
    BY <2>1, <2>2 DEF Layer1
<1> QED
  BY <1>2, <1>3, <1>4, <1>5

\* The sequencer's state does not change under the other actors.
LEMMA OthersControl ==
    ASSUME Control, UNCHANGED <<sequencerVars, assignments, announced, consumed>>
    PROVE  Control'
BY DEF Control, Driving, sequencerVars

\* The reporter's types.
LEMMA Reporter1 == Layer1 /\ Reporter => Layer1'
<1> SUFFICES ASSUME Layer1, Reporter PROVE Layer1'
  OBVIOUS
<1>1. TypeOK /\ Control
  BY DEF Layer1
<1>2. OnlyReporter
  BY DEF Reporter, HandleCertified, HandleTip, Propose
<1>3. Control'
  BY <1>1, <1>2, OthersControl DEF OnlyReporter
<1>4. \A log \in [Heights -> Digests \cup {None}], t \in Tips :
         AdvanceTip(log, t) =>
            certified' \in [Heights -> Digests \cup {None}] /\ tip' \in Tips
  BY <1>1 DEF AdvanceTip, TypeOK
<1>5. /\ certified' \in [Heights -> Digests \cup {None}] /\ tip' \in Tips
      /\ toSubmit' \in Seq(Certs) /\ forwarded' \subseteq Heights
      /\ engineTip' \in Tips /\ expected' \in [Heights -> Tasks \cup {None}]
  <2>1. CASE \E h \in Heights : HandleCertified(h)
    <3>1. PICK h \in Heights : HandleCertified(h)
      BY <2>1
    <3>2. engineTip' \in Tips /\ expected' \in [Heights -> Tasks \cup {None}]
      BY <1>1, <3>1 DEF HandleCertified, TypeOK
    <3>3. CASE DuplicateCertified(h)
      BY <1>1, <3>2, <3>3 DEF DuplicateCertified, TypeOK
    <3>4. CASE FirstCertified(h)
      <4>1. ledger[h] \in Digests /\ h + 1 \in Tips
        BY <1>1, <3>1, HeightsNat DEF HandleCertified, TypeOK
      <4>2. [certified EXCEPT ![h] = ledger[h]] \in [Heights -> Digests \cup {None}]
        BY <1>1, <4>1 DEF TypeOK
      <4>3. [height |-> h, digest |-> ledger[h]] \in Certs
        BY <4>1 DEF Certs
      <4>4. toSubmit' \in Seq(Certs)
        BY <1>1, <3>4, <4>3, AppendShift DEF FirstCertified, TypeOK
      <4>5. certified' \in [Heights -> Digests \cup {None}] /\ tip' \in Tips
        BY <1>4, <3>4, <4>1, <4>2 DEF FirstCertified
      <4> QED
        BY <1>1, <3>2, <3>4, <4>4, <4>5 DEF FirstCertified, TypeOK
    <3> QED
      BY <3>1, <3>3, <3>4 DEF HandleCertified
  <2>2. CASE \E h \in Heights : Propose(h)
    <3>1. PICK h \in Heights : Propose(h)
      BY <2>2
    <3>2. assignments[h] \in Tasks
      BY <1>1, <3>1 DEF Propose, TypeOK
    <3> QED
      BY <1>1, <3>1, <3>2 DEF Propose, TypeOK, reporterVars
  <2>3. CASE \E t \in Tips : HandleTip(t)
    <3>1. PICK t \in Tips : HandleTip(t)
      BY <2>3
    <3>2. certified \in [Heights -> Digests \cup {None}]
      BY <1>1 DEF TypeOK
    <3>3. certified' \in [Heights -> Digests \cup {None}] /\ tip' \in Tips
      BY <1>4, <3>1, <3>2 DEF HandleTip
    <3> QED
      BY <1>1, <3>1, <3>3 DEF HandleTip, TypeOK
  <2> QED
    BY <2>1, <2>2, <2>3 DEF Reporter
<1>6. TypeOK'
  BY <1>1, <1>2, <1>5 DEF TypeOK, OnlyReporter, sequencerVars, submitterVars
<1> QED
  BY <1>3, <1>6 DEF Layer1

\* The submitter's types.
LEMMA Submitter1 == Layer1 /\ Submitter => Layer1'
<1> SUFFICES ASSUME Layer1, Submitter PROVE Layer1'
  OBVIOUS
<1>1. TypeOK /\ Control /\ Layer1
  BY DEF Layer1
<1>2. OnlySubmitter
  BY DEF Submitter, ResolveSkip, ResolveForeign, BeginSubmission, AttemptSucceeds,
         AttemptFails, TakeCertificate
<1>3. Control'
  BY <1>1, <1>2, OthersControl DEF OnlySubmitter
<1> DEFINE Jobs == [height : Heights, task : Tasks, attempt : 1 .. MaxRetries + 1]
<1>4. /\ toSubmit' \in Seq(Certs) /\ resolutions' \in Seq(Resolutions)
      /\ executing' \in Jobs \cup {None} /\ submitted' \subseteq Heights \X Tasks
  <2>1. CASE ResolveSkip \/ ResolveForeign \/ BeginSubmission
    <3>1. /\ toSubmit # <<>> /\ toSubmit' = Tail(toSubmit) /\ submitted' = submitted
          /\ executing = None
      BY <2>1 DEF ResolveSkip, ResolveForeign, BeginSubmission, TakeCertificate
    <3>2. /\ toSubmit' \in Seq(Certs) /\ Head(toSubmit).height \in Heights
          /\ Head(toSubmit).digest \in Digests
      BY <1>1, <3>1, HeadCertificate DEF TypeOK
    <3>3. CASE ResolveSkip \/ ResolveForeign
      <4>1. PICK k \in Kinds : Notify(Head(toSubmit).height, k)
        BY <3>3 DEF ResolveSkip, ResolveForeign, Kinds
      <4>2. resolutions' \in Seq(Resolutions)
        BY <1>1, <3>2, <4>1, NotifyType DEF TypeOK
      <4> QED
        BY <1>1, <3>1, <3>2, <3>3, <4>2 DEF ResolveSkip, ResolveForeign, TypeOK
    <3>4. CASE BeginSubmission
      <4>1. Head(toSubmit).digest \in Tasks /\ 1 \in 1 .. MaxRetries + 1
        BY <3>2, <3>4 DEF BeginSubmission, Digests
      <4>2. executing' \in Jobs
        BY <3>2, <3>4, <4>1 DEF BeginSubmission
      <4> QED
        BY <1>1, <3>1, <3>2, <3>4, <4>2 DEF BeginSubmission, TypeOK
    <3> QED
      BY <2>1, <3>3, <3>4
  <2>2. CASE AttemptSucceeds \/ AttemptFails
    <3>1. executing \in Jobs /\ toSubmit' = toSubmit
      BY <1>1, <2>2 DEF AttemptSucceeds, AttemptFails, TypeOK
    <3>2. /\ executing.height \in Heights /\ executing.task \in Tasks
          /\ executing.attempt \in 1 .. MaxRetries + 1
      BY <3>1
    <3>3. submitted' \subseteq Heights \X Tasks
      <4>1. submitted \subseteq Heights \X Tasks
        BY <1>1 DEF TypeOK
      <4>2. submitted' \subseteq submitted \cup {<<executing.height, executing.task>>}
        BY <2>2 DEF AttemptSucceeds, AttemptFails
      <4> QED
        BY <3>2, <4>1, <4>2
    <3>4. CASE Notify(executing.height, "executed") /\ executing' = None
      <4>1. resolutions' \in Seq(Resolutions)
        BY <1>1, <3>2, <3>4, NotifyType DEF TypeOK, Kinds
      <4> QED
        BY <1>1, <3>1, <3>3, <3>4, <4>1 DEF TypeOK
    <3>5. CASE /\ executing.attempt <= MaxRetries /\ resolutions' = resolutions
               /\ executing' = [executing EXCEPT !.attempt = @ + 1]
      <4>1. executing.attempt + 1 \in 1 .. MaxRetries + 1
        BY <3>2, <3>5
      <4>2. executing' \in Jobs
        BY <3>1, <3>5, <4>1
      <4> QED
        BY <1>1, <3>1, <3>3, <3>5, <4>2 DEF TypeOK
    <3> QED
      BY <2>2, <3>4, <3>5 DEF AttemptSucceeds, AttemptFails
  <2> QED
    BY <2>1, <2>2 DEF Submitter
<1>5. TypeOK'
  BY <1>1, <1>2, <1>4 DEF TypeOK, OnlySubmitter, sequencerVars, reporterVars, networkVars
<1> QED
  BY <1>3, <1>5 DEF Layer1

\* The network's types, a crash among them.
LEMMA Network1 == Layer1 /\ Network => Layer1'
<1> SUFFICES ASSUME Layer1, Network PROVE Layer1'
  OBVIOUS
<1>1. TypeOK /\ Control
  BY DEF Layer1
<1>2. CASE \E h \in Heights, d \in Digests : Certify(h, d)
  <2>1. PICK h \in Heights, d \in Digests : Certify(h, d)
    BY <1>2
  <2>2. OnlyNetwork /\ ledger' \in [Heights -> Digests \cup {None}] /\ safeTip' = safeTip
    BY <1>1, <2>1 DEF Certify, TypeOK
  <2>3. Control'
    BY <1>1, <2>2, OthersControl DEF OnlyNetwork
  <2>4. TypeOK'
    BY <1>1, <2>2 DEF OnlyNetwork, TypeOK, sequencerVars, reporterVars, submitterVars
  <2> QED
    BY <2>3, <2>4 DEF Layer1
<1>3. CASE \E t \in Tips : RaiseSafeTip(t)
  <2>1. OnlyNetwork /\ ledger' = ledger /\ safeTip' \in Tips
    BY <1>3 DEF RaiseSafeTip
  <2>2. Control'
    BY <1>1, <2>1, OthersControl DEF OnlyNetwork
  <2>3. TypeOK'
    BY <1>1, <2>1 DEF OnlyNetwork, TypeOK, sequencerVars, reporterVars, submitterVars
  <2> QED
    BY <2>2, <2>3 DEF Layer1
<1>4. CASE Crash
  <2>1. engineTip' \in Tips /\ life' \in 1 .. MaxLives
    BY <1>1, <1>4, HeightsNat DEF Crash, TypeOK
  <2>2. TypeOK'
    <3>1. 0 \in 0 .. MaxHeight + 1 /\ 0 \in Tips
      BY HeightsNat
    <3>2. <<>> \in Seq(Certs) /\ <<>> \in Seq(Resolutions)
      OBVIOUS
    <3>3. /\ [h \in Heights |-> None] \in [Heights -> Tasks \cup {None}]
          /\ [h \in Heights |-> None] \in [Heights -> Digests \cup {None}]
      OBVIOUS
    <3> QED
      BY <1>1, <1>4, <2>1, <3>1, <3>2, <3>3 DEF Crash, TypeOK
  <2>3. Control'
    BY <1>4 DEF Crash, Control, Driving
  <2> QED
    BY <2>2, <2>3 DEF Layer1
<1> QED
  BY <1>2, <1>3, <1>4 DEF Network

\* Every step keeps the first layer.
LEMMA Step1 == Layer1 /\ [Next]_vars => Layer1'
<1> SUFFICES ASSUME Layer1, [Next]_vars PROVE Layer1'
  OBVIOUS
<1>1. CASE Sequencer
  BY <1>1, Prelude1, Drain1, Assign1, Resolved1, Other1, Tick1 DEF Sequencer
<1>2. CASE Reporter \/ Submitter \/ Network
  BY <1>2, Reporter1, Submitter1, Network1
<1>3. CASE UNCHANGED vars
  BY <1>3 DEF vars, Layer1, TypeOK, Control, Driving, sequencerVars, reporterVars,
              submitterVars, networkVars
<1> QED
  BY <1>1, <1>2, <1>3 DEF Next

\* The first layer holds of every behaviour of the router.
THEOREM Types == Spec => []Layer1
BY Init1, Step1, PTL DEF Spec
-----------------------------------------------------------------------------
(* Second layer: certificates on their way.                                *)

\* A certificate is what the quorum certified; a submission, and a disposition
\* that is one's outcome, concern a height assigned before, and its own task
\* if that height is being driven.
Right(e, l) == l[e.height] = e.digest
Queued == \A i \in 1 .. Len(toSubmit) : Right(toSubmit[i], ledger)
OfAssigned(h, t) == h <= height /\ (Driving /\ h = height => t = task)
Executing ==
    executing # None =>
        /\ ledger[executing.height] = executing.task
        /\ <<executing.height, executing.task>> \in announced
        /\ OfAssigned(executing.height, executing.task)
Settled(r) ==
    /\ ledger[r.height] # None
    /\ r.kind = "skipped" => ledger[r.height] = Skip
    /\ r.kind = "executed" => OfAssigned(r.height, ledger[r.height])
Resolved == \A i \in 1 .. Len(resolutions) : Settled(resolutions[i])
Layer2 == Queued /\ Executing /\ Resolved /\ SubmitsOnlyCertified /\ ReleasedByQuorum

\* What never changes: a certified digest, and an announcement.
LedgerKept ==
    /\ \A h \in Heights : ledger[h] # None => ledger'[h] = ledger[h]
    /\ announced \subseteq announced'

\* Every step keeps the ledger.
LEMMA LedgerKeeps == Layer1 /\ [Next]_vars => LedgerKept
<1> SUFFICES ASSUME Layer1, [Next]_vars PROVE LedgerKept
  OBVIOUS
<1>1. CASE \E h \in Heights, d \in Digests : Certify(h, d)
  BY <1>1 DEF Certify, OnlyNetwork, LedgerKept, Layer1, TypeOK
<1>2. CASE Assign
  BY <1>2 DEF Assign, OnlySequencer, networkVars, LedgerKept
<1>3. UNCHANGED <<ledger, announced>> => LedgerKept
  BY DEF LedgerKept
<1>4. CASE Sequencer /\ ~Assign
  BY <1>3, <1>4
     DEF Sequencer, SettleReadTip, Start, SourceExhausted, NextTask, DrainResolutions,
         ReadTip, TaskResolved, ForeignResolved, OtherHeightResolved, ReceiveResolution,
         TickReadCertificate, TickCertified, TickSuperseded, TickRebroadcast,
         OnlySequencer, networkVars
<1>5. CASE Reporter
  BY <1>3, <1>5 DEF Reporter, HandleCertified, HandleTip, Propose, OnlyReporter
<1>6. CASE Submitter
  BY <1>3, <1>6
     DEF Submitter, ResolveSkip, ResolveForeign, BeginSubmission, AttemptSucceeds,
         AttemptFails, TakeCertificate, OnlySubmitter, networkVars
<1>7. CASE \E t \in Tips : RaiseSafeTip(t)
  BY <1>3, <1>7 DEF RaiseSafeTip, OnlyNetwork
<1>8. CASE Crash
  BY <1>3, <1>8 DEF Crash
<1>9. CASE UNCHANGED vars
  BY <1>3, <1>9 DEF vars, networkVars
<1> QED
  BY <1>1, <1>2, <1>4, <1>5, <1>6, <1>7, <1>8, <1>9 DEF Next, Network

\* The initial states.
LEMMA Init2 == Init => Layer2
<1> SUFFICES ASSUME Init PROVE Layer2
  OBVIOUS
<1>1. toSubmit = <<>> /\ resolutions = <<>> /\ executing = None /\ submitted = {}
      /\ released = {}
  BY DEF Init
<1>2. Len(toSubmit) = 0 /\ Len(resolutions) = 0
  BY <1>1
<1> QED
  BY <1>1, <1>2
     DEF Layer2, Queued, Executing, Resolved, SubmitsOnlyCertified, ReleasedByQuorum

\* The height and the task being driven, seen from a height assigned before:
\* they stay, or the drive ends, or a greater height is assigned.
DriveMoves ==
    \/ height' = height /\ (Driving' => Driving /\ task' = task)
    \/ height' > height

\* What was of an assigned height still is.
LEMMA AssignedKept ==
    ASSUME TypeOK, DriveMoves, height' \in Int, NEW h \in Heights, NEW t, OfAssigned(h, t)
    PROVE  OfAssigned(h, t)'
<1>1. height \in Int /\ h \in Int
  BY HeightsNat DEF TypeOK
<1> QED
  BY <1>1 DEF DriveMoves, OfAssigned

\* Every certificate, submission and disposition so far stays right.
LEMMA Kept2 ==
    ASSUME Layer1, LedgerKept, DriveMoves, height' \in Int
    PROVE  /\ \A e \in Certs : Right(e, ledger) => Right(e, ledger')
           /\ \A r \in Resolutions : Settled(r) => Settled(r)'
           /\ executing' = executing /\ Executing => Executing'
           /\ submitted' = submitted /\ SubmitsOnlyCertified => SubmitsOnlyCertified'
           /\ \A S \in SUBSET [height : Heights, task : Tasks, kind : {"executed", "skipped"}] :
                 released' = S /\ S \subseteq released /\ ReleasedByQuorum => ReleasedByQuorum'
<1>1. /\ TypeOK /\ \A h \in Heights : ledger[h] # None => ledger'[h] = ledger[h]
      /\ announced \subseteq announced'
  BY DEF Layer1, LedgerKept
<1>2. ASSUME NEW e \in Certs, Right(e, ledger) PROVE Right(e, ledger')
  <2>1. e.height \in Heights /\ e.digest \in Digests
    BY DEF Certs
  <2> QED
    BY <1>1, <1>2, <2>1 DEF Right
<1>3. ASSUME NEW r \in Resolutions, Settled(r) PROVE Settled(r)'
  <2>1. r.height \in Heights
    BY DEF Resolutions
  <2>2. ledger[r.height] # None /\ ledger'[r.height] = ledger[r.height]
    BY <1>1, <1>3, <2>1 DEF Settled
  <2>3. r.kind = "executed" => OfAssigned(r.height, ledger[r.height])'
    <3>1. PICK t : t = ledger[r.height]
      OBVIOUS
    <3>2. r.kind = "executed" => OfAssigned(r.height, t)
      BY <1>3, <3>1 DEF Settled
    <3>3. r.kind = "executed" => OfAssigned(r.height, t)'
      BY <1>1, <2>1, <3>2, AssignedKept
    <3> QED
      BY <2>2, <3>1, <3>3 DEF OfAssigned
  <2> QED
    BY <1>3, <2>2, <2>3 DEF Settled
<1>4. ASSUME executing' = executing, Executing PROVE Executing'
  <2> SUFFICES ASSUME executing # None PROVE Executing'
    BY <1>4 DEF Executing
  <2>1. PICK h \in Heights, t \in Tasks : h = executing.height /\ t = executing.task
    BY <1>1 DEF TypeOK
  <2>2. ledger[h] = t /\ <<h, t>> \in announced /\ OfAssigned(h, t)
    BY <1>4, <2>1 DEF Executing
  <2>3. OfAssigned(h, t)'
    BY <1>1, <2>2, AssignedKept
  <2>4. ledger'[h] = t
    BY <1>1, <2>2, NoneApart
  <2> QED
    BY <1>1, <1>4, <2>1, <2>2, <2>3, <2>4 DEF Executing, OfAssigned
<1>5. ASSUME submitted' = submitted, SubmitsOnlyCertified PROVE SubmitsOnlyCertified'
  <2> SUFFICES ASSUME NEW s \in submitted
               PROVE  s \in announced' /\ ledger'[s[1]] = s[2]
    BY <1>5 DEF SubmitsOnlyCertified
  <2>1. s \in Heights \X Tasks
    BY <1>1 DEF TypeOK
  <2>2. s \in announced /\ ledger[s[1]] = s[2]
    BY <1>5 DEF SubmitsOnlyCertified
  <2> QED
    BY <1>1, <2>1, <2>2, NoneApart
<1>6. ASSUME NEW S \in SUBSET [height : Heights, task : Tasks, kind : {"executed", "skipped"}],
             released' = S, S \subseteq released, ReleasedByQuorum
      PROVE  ReleasedByQuorum'
  <2> SUFFICES ASSUME NEW r \in S
               PROVE  ledger'[r.height] = IF r.kind = "executed" THEN r.task ELSE Skip
    BY <1>6 DEF ReleasedByQuorum
  <2>1. r.height \in Heights /\ r.task \in Tasks
    OBVIOUS
  <2>2. ledger[r.height] = IF r.kind = "executed" THEN r.task ELSE Skip
    BY <1>6 DEF ReleasedByQuorum
  <2> QED
    BY <1>1, <2>1, <2>2, NoneApart
<1> QED
  BY <1>2, <1>3, <1>4, <1>5, <1>6
\* Certificates and dispositions that are right now.
RightCerts == {e \in Certs : Right(e, ledger)}
SettledOnes == {r \in Resolutions : Settled(r)}

\* The queues hold such, and nothing else makes up the second layer.
LEMMA QueuesAsSets ==
    TypeOK => /\ Queued <=> toSubmit \in Seq(RightCerts)
              /\ Resolved <=> resolutions \in Seq(SettledOnes)
<1> SUFFICES ASSUME TypeOK
             PROVE  /\ Queued <=> toSubmit \in Seq(RightCerts)
                    /\ Resolved <=> resolutions \in Seq(SettledOnes)
  OBVIOUS
<1>1. toSubmit \in Seq(Certs) /\ resolutions \in Seq(Resolutions)
  BY DEF TypeOK
<1>2. /\ \A i \in 1 .. Len(toSubmit) : toSubmit[i] \in Certs
      /\ \A i \in 1 .. Len(resolutions) : resolutions[i] \in Resolutions
  BY <1>1
<1>3. ASSUME Queued PROVE toSubmit \in Seq(RightCerts)
  <2>1. \A i \in 1 .. Len(toSubmit) : toSubmit[i] \in RightCerts
    BY <1>2, <1>3 DEF Queued, RightCerts
  <2> QED
    BY <1>1, <2>1, QueueOf
<1>4. ASSUME Resolved PROVE resolutions \in Seq(SettledOnes)
  <2>1. \A i \in 1 .. Len(resolutions) : resolutions[i] \in SettledOnes
    BY <1>2, <1>4 DEF Resolved, SettledOnes
  <2> QED
    BY <1>1, <2>1, QueueOf
<1>5. ASSUME toSubmit \in Seq(RightCerts) PROVE Queued
  <2>1. \A i \in 1 .. Len(toSubmit) : toSubmit[i] \in RightCerts
    BY <1>5
  <2> QED
    BY <2>1 DEF Queued, RightCerts
<1>6. ASSUME resolutions \in Seq(SettledOnes) PROVE Resolved
  <2>1. \A i \in 1 .. Len(resolutions) : resolutions[i] \in SettledOnes
    BY <1>6
  <2> QED
    BY <2>1 DEF Resolved, SettledOnes
<1> QED
  BY <1>3, <1>4, <1>5, <1>6

\* The same of the next state.
QueueSets ==
    /\ toSubmit \in Seq(RightCerts) => Queued
    /\ resolutions \in Seq(SettledOnes) => Resolved

\* Being facts of every typed state, they hold of the next one.
LEMMA QueueSetsNext == Layer1' => QueueSets'
<1>1. Layer1 => QueueSets
  BY QueuesAsSets DEF Layer1, QueueSets
<1> QED
  BY <1>1, PTL

\* What a step other than a crash does to the drive.
Quiet == Layer1 /\ LedgerKept /\ DriveMoves /\ height' \in Int /\ Layer1'

\* Every step but a crash is one.
LEMMA QuietNext == Layer1 /\ [Next]_vars /\ ~Crash => Quiet
<1> SUFFICES ASSUME Layer1, [Next]_vars, ~Crash PROVE Quiet
  OBVIOUS
<1>1. LedgerKept /\ Layer1'
  BY LedgerKeeps, Step1
<1>2. height' \in Int
  BY <1>1, HeightsNat DEF Layer1, TypeOK
<1>3. UNCHANGED <<pc, height, task>> => DriveMoves
  BY DEF DriveMoves, Driving
<1>4. CASE Assign
  <2>1. /\ height' \in Heights /\ nextHeight <= height' /\ height < nextHeight
        /\ nextHeight \in Nat /\ height \in Int
    BY <1>4, AssignHeight, HeightsNat DEF Layer1, Control, TypeOK
  <2>2. height' > height
    BY <1>2, <2>1
  <2> QED
    BY <1>1, <1>2, <2>2 DEF DriveMoves, Quiet
<1>5. CASE Sequencer /\ ~Assign
  <2>1. DriveMoves
    BY <1>5
       DEF Sequencer, SettleReadTip, Start, SourceExhausted, NextTask, DrainResolutions,
           ReadTip, TaskResolved, ForeignResolved, OtherHeightResolved, ReceiveResolution,
           TickReadCertificate, TickCertified, TickSuperseded, TickRebroadcast, DriveMoves,
           Driving
  <2> QED
    BY <1>1, <1>2, <2>1 DEF Quiet
<1>6. CASE Reporter \/ Submitter \/ Network
  <2>1. UNCHANGED <<pc, height, task>>
    BY <1>6
       DEF Reporter, HandleCertified, HandleTip, Propose, OnlyReporter, Submitter,
           ResolveSkip, ResolveForeign, BeginSubmission, AttemptSucceeds, AttemptFails,
           TakeCertificate, OnlySubmitter, Network, Certify, RaiseSafeTip, OnlyNetwork,
           sequencerVars
  <2> QED
    BY <1>1, <1>2, <1>3, <2>1 DEF Quiet
<1>7. CASE UNCHANGED vars
  BY <1>1, <1>2, <1>3, <1>7 DEF vars, sequencerVars, Quiet
<1> QED
  BY <1>4, <1>5, <1>6, <1>7 DEF Next

\* What is queued stays right.
LEMMA QueuesKept ==
    ASSUME Layer2, Quiet
    PROVE  toSubmit \in Seq(RightCerts') /\ resolutions \in Seq(SettledOnes')
<1>1. toSubmit \in Seq(RightCerts) /\ resolutions \in Seq(SettledOnes)
  BY QueuesAsSets DEF Layer2, Quiet, Layer1
<1>2. /\ \A e \in RightCerts : e \in RightCerts'
      /\ \A r \in SettledOnes : r \in SettledOnes'
  BY Kept2 DEF Quiet, RightCerts, SettledOnes
<1>3. /\ \A i \in 1 .. Len(toSubmit) : toSubmit[i] \in RightCerts'
      /\ \A i \in 1 .. Len(resolutions) : resolutions[i] \in SettledOnes'
  BY <1>1, <1>2
<1> QED
  BY <1>1, <1>3, QueueOf

\* A step that only takes from the dispositions, and releases nothing new.
LEMMA OnlyTaken2 ==
    ASSUME Layer2, Quiet, toSubmit' = toSubmit, executing' = executing,
           submitted' = submitted, released' = released,
           \/ resolutions' = resolutions \/ resolutions' = <<>>
           \/ resolutions # <<>> /\ resolutions' = Tail(resolutions)
    PROVE  Layer2'
<1>1. toSubmit' \in Seq(RightCerts') /\ resolutions' \in Seq(SettledOnes')
  <2>1. toSubmit \in Seq(RightCerts') /\ resolutions \in Seq(SettledOnes')
    BY QueuesKept
  <2>2. <<>> \in Seq(SettledOnes')
    OBVIOUS
  <2>3. resolutions # <<>> => Tail(resolutions) \in Seq(SettledOnes')
    BY <2>1, TailShift
  <2> QED
    BY <2>1, <2>2, <2>3
<1>2. Queued' /\ Resolved'
  BY <1>1, QueueSetsNext DEF Quiet, QueueSets
<1>3. released \in SUBSET [height : Heights, task : Tasks, kind : {"executed", "skipped"}]
  BY DEF Quiet, Layer1, TypeOK
<1>4. Executing' /\ SubmitsOnlyCertified' /\ ReleasedByQuorum'
  BY <1>3, Kept2 DEF Quiet, Layer2
<1> QED
  BY <1>2, <1>4 DEF Layer2

\* The sequencer lets go of a task by its disposition.
LEMMA TaskResolved2 == Layer2 /\ Quiet /\ TaskResolved => Layer2'
<1> SUFFICES ASSUME Layer2, Quiet, TaskResolved PROVE Layer2'
  OBVIOUS
<1>1. /\ pc = "driving" /\ resolutions # <<>> /\ resolutions' = Tail(resolutions)
      /\ Head(resolutions).height = height /\ toSubmit' = toSubmit
      /\ executing' = executing /\ submitted' = submitted /\ ledger' = ledger
  BY DEF TaskResolved, ReceiveResolution, OnlySequencer, submitterVars, networkVars
<1>2. resolutions \in Seq(SettledOnes) /\ task \in Tasks /\ Driving
  BY <1>1, QueuesAsSets DEF Layer2, Quiet, Layer1, Control, Driving
<1>3. PICK r \in SettledOnes : r = Head(resolutions)
  BY <1>1, <1>2, TailShift
<1>4. /\ r.height = height /\ r.kind \in {"executed", "skipped"}
      /\ released' = released \cup {[height |-> height, task |-> task, kind |-> r.kind]}
  BY <1>1, <1>3 DEF TaskResolved
<1>5. ledger[height] = IF r.kind = "executed" THEN task ELSE Skip
  BY <1>2, <1>4 DEF SettledOnes, Settled, OfAssigned
<1>6. ReleasedByQuorum'
  <2> SUFFICES ASSUME NEW x \in released'
               PROVE  ledger[x.height] = IF x.kind = "executed" THEN x.task ELSE Skip
    BY <1>1 DEF ReleasedByQuorum
  <2>1. CASE x \in released
    BY <2>1 DEF Layer2, ReleasedByQuorum
  <2>2. CASE x = [height |-> height, task |-> task, kind |-> r.kind]
    BY <1>5, <2>2
  <2> QED
    BY <1>4, <2>1, <2>2
<1>7. toSubmit' \in Seq(RightCerts') /\ resolutions' \in Seq(SettledOnes')
  BY <1>1, QueuesKept, TailShift
<1>8. Queued' /\ Resolved'
  BY <1>7, QueueSetsNext DEF Quiet, QueueSets
<1>9. Executing' /\ SubmitsOnlyCertified'
  BY <1>1, Kept2 DEF Quiet, Layer2
<1> QED
  BY <1>6, <1>8, <1>9 DEF Layer2

\* The reporter forwards what is certified.
LEMMA Certified2 ==
    ASSUME Layer2, Quiet, NEW h \in Heights, HandleCertified(h)
    PROVE  Layer2'
<1>1. /\ executing' = executing /\ submitted' = submitted /\ released' = released
      /\ resolutions' = resolutions /\ ledger' = ledger /\ ledger[h] # None
  BY DEF HandleCertified, OnlyReporter, submitterVars
<1>2. CASE DuplicateCertified(h)
  BY <1>1, <1>2, OnlyTaken2 DEF DuplicateCertified
<1>3. CASE FirstCertified(h)
  <2> DEFINE e == [height |-> h, digest |-> ledger[h]]
  <2>1. e \in Certs /\ Right(e, ledger') /\ toSubmit' = Append(toSubmit, e)
    BY <1>1, <1>3 DEF FirstCertified, Certs, Right, Quiet, Layer1, TypeOK
  <2>2. e \in RightCerts'
    BY <2>1 DEF RightCerts
  <2> HIDE DEF e
  <2>3. toSubmit' \in Seq(RightCerts') /\ resolutions' \in Seq(SettledOnes')
    BY <1>1, <2>1, <2>2, QueuesKept, AppendShift
  <2>4. Queued' /\ Resolved'
    BY <2>3, QueueSetsNext DEF Quiet, QueueSets
  <2>5. released \in SUBSET [height : Heights, task : Tasks, kind : {"executed", "skipped"}]
    BY DEF Quiet, Layer1, TypeOK
  <2>6. Executing' /\ SubmitsOnlyCertified' /\ ReleasedByQuorum'
    BY <1>1, <2>5, Kept2 DEF Quiet, Layer2
  <2> QED
    BY <2>4, <2>6 DEF Layer2
<1> QED
  BY <1>2, <1>3 DEF HandleCertified

\* What a submitter's step leaves alone.
LEMMA SubmitterKeeps ==
    ASSUME OnlySubmitter
    PROVE  /\ UNCHANGED <<pc, height, task, assignments, ledger, announced, released>>
           /\ \A h, t : OfAssigned(h, t)' <=> OfAssigned(h, t)
BY DEF OnlySubmitter, sequencerVars, networkVars, OfAssigned, Driving

\* A disposition the submitter sends is right.
LEMMA NotifyRight ==
    ASSUME Layer2, Quiet, NEW h \in Heights, NEW k \in Kinds, Notify(h, k),
           Settled([height |-> h, kind |-> k])'
    PROVE  resolutions' \in Seq(SettledOnes')
<1> DEFINE r == [height |-> h, kind |-> k]
<1>1. r \in Resolutions /\ resolutions' = Append(resolutions, r)
  BY DEF Resolutions, Notify
<1>2. r \in SettledOnes'
  BY <1>1 DEF SettledOnes
<1> HIDE DEF r
<1> QED
  BY <1>1, <1>2, QueuesKept, AppendShift

\* A forwarded certificate is taken.
LEMMA Take2 == Layer2 /\ Quiet /\ (ResolveSkip \/ ResolveForeign \/ BeginSubmission) => Layer2'
<1> SUFFICES ASSUME Layer2, Quiet, ResolveSkip \/ ResolveForeign \/ BeginSubmission
             PROVE  Layer2'
  OBVIOUS
<1>1. /\ executing = None /\ toSubmit # <<>> /\ toSubmit' = Tail(toSubmit)
      /\ submitted' = submitted /\ OnlySubmitter
  BY DEF ResolveSkip, ResolveForeign, BeginSubmission, TakeCertificate
<1>2. /\ UNCHANGED <<pc, height, task, assignments, ledger, announced, released>>
      /\ \A h, t : OfAssigned(h, t)' <=> OfAssigned(h, t)
  BY <1>1, SubmitterKeeps
<1>3. /\ TypeOK /\ Control /\ toSubmit \in Seq(RightCerts) /\ toSubmit \in Seq(RightCerts')
      /\ resolutions \in Seq(SettledOnes')
  BY QueuesAsSets, QueuesKept DEF Layer2, Quiet, Layer1
<1>4. toSubmit' \in Seq(RightCerts')
  BY <1>1, <1>3, TailShift
<1>5. PICK c \in RightCerts : c = Head(toSubmit)
  BY <1>1, <1>3, TailShift
<1>6. c.height \in Heights /\ c.digest \in Digests /\ ledger[c.height] = c.digest
  BY <1>5 DEF RightCerts, Certs, Right
<1>7. released \in SUBSET [height : Heights, task : Tasks, kind : {"executed", "skipped"}]
  BY <1>3 DEF TypeOK
<1>8. SubmitsOnlyCertified' /\ ReleasedByQuorum'
  BY <1>1, <1>2, <1>7, Kept2 DEF Quiet, Layer2
<1>9. Executing' /\ resolutions' \in Seq(SettledOnes')
  <2>1. CASE ResolveSkip \/ ResolveForeign
    <3>1. PICK k \in {"skipped", "foreign"} :
             Notify(c.height, k) /\ (k = "skipped" => c.digest = Skip)
      BY <1>5, <2>1 DEF ResolveSkip, ResolveForeign
    <3>2. Settled([height |-> c.height, kind |-> k])'
      BY <1>2, <1>6, <3>1, NoneApart DEF Settled, Digests
    <3>3. resolutions' \in Seq(SettledOnes')
      BY <1>6, <3>1, <3>2, NotifyRight DEF Kinds
    <3>4. executing' = None
      BY <1>1, <2>1 DEF ResolveSkip, ResolveForeign
    <3> QED
      BY <3>3, <3>4 DEF Executing
  <2>2. CASE BeginSubmission
    <3>1. /\ c.digest # Skip /\ assignments[c.height] = c.digest
          /\ executing' = [height |-> c.height, task |-> c.digest, attempt |-> 1]
          /\ resolutions' = resolutions
      BY <1>5, <2>2 DEF BeginSubmission
    <3>2. c.digest \in Tasks /\ assignments[c.height] # None
      BY <1>6, <3>1, NoneApart DEF Digests
    <3>3. /\ Driving /\ c.height = height /\ c.digest = task
          /\ <<height, task>> \in announced /\ height \in Heights
      BY <1>3, <1>6, <3>1, <3>2 DEF Control
    <3>4. OfAssigned(c.height, c.digest)
      BY <3>3, HeightsNat DEF OfAssigned
    <3>5. Executing'
      <4>1. executing'.height = c.height /\ executing'.task = c.digest
        BY <3>1
      <4>2. OfAssigned(c.height, c.digest)'
        BY <1>2, <3>4
      <4>3. ledger'[c.height] = c.digest /\ <<c.height, c.digest>> \in announced'
        BY <1>2, <1>6, <3>3
      <4> QED
        BY <4>1, <4>2, <4>3 DEF Executing, OfAssigned
    <3> QED
      BY <1>3, <3>1, <3>5
  <2> QED
    BY <2>1, <2>2
<1>10. Queued' /\ Resolved'
  BY <1>4, <1>9, QueueSetsNext DEF Quiet, QueueSets
<1> QED
  BY <1>8, <1>9, <1>10 DEF Layer2

\* An attempt ends.
LEMMA Attempt2 == Layer2 /\ Quiet /\ (AttemptSucceeds \/ AttemptFails) => Layer2'
<1> SUFFICES ASSUME Layer2, Quiet, AttemptSucceeds \/ AttemptFails PROVE Layer2'
  OBVIOUS
<1>1. executing # None /\ toSubmit' = toSubmit /\ OnlySubmitter
  BY DEF AttemptSucceeds, AttemptFails
<1>2. /\ UNCHANGED <<pc, height, task, assignments, ledger, announced, released>>
      /\ \A h, t : OfAssigned(h, t)' <=> OfAssigned(h, t)
  BY <1>1, SubmitterKeeps
<1>3. /\ TypeOK /\ toSubmit \in Seq(RightCerts') /\ resolutions \in Seq(SettledOnes')
  BY QueuesKept DEF Layer2, Quiet, Layer1
<1>4. PICK h \in Heights, t \in Tasks :
         /\ h = executing.height /\ t = executing.task
         /\ ledger[h] = t /\ <<h, t>> \in announced /\ OfAssigned(h, t)
  BY <1>1, <1>3 DEF Layer2, Executing, TypeOK
<1>5. released \in SUBSET [height : Heights, task : Tasks, kind : {"executed", "skipped"}]
  BY <1>3 DEF TypeOK
<1>6. ReleasedByQuorum'
  BY <1>2, <1>5, Kept2 DEF Quiet, Layer2
<1>7. SubmitsOnlyCertified'
  <2>1. submitted' \in {submitted, submitted \cup {<<h, t>>}}
    BY <1>4 DEF AttemptSucceeds, AttemptFails
  <2> QED
    BY <1>2, <1>4, <2>1 DEF Layer2, SubmitsOnlyCertified
<1>8. Executing' /\ resolutions' \in Seq(SettledOnes')
  <2>1. CASE Notify(h, "executed") /\ executing' = None
    <3>1. Settled([height |-> h, kind |-> "executed"])'
      <4>1. ledger'[h] = t /\ OfAssigned(h, t)'
        BY <1>2, <1>4
      <4> QED
        BY <4>1, NoneApart DEF Settled, OfAssigned
    <3>2. resolutions' \in Seq(SettledOnes')
      BY <2>1, <3>1, NotifyRight DEF Kinds
    <3> QED
      BY <2>1, <3>2 DEF Executing
  <2>2. CASE resolutions' = resolutions /\ executing' = [executing EXCEPT !.attempt = @ + 1]
    <3>1. executing'.height = h /\ executing'.task = t
      BY <1>1, <1>3, <1>4, <2>2 DEF TypeOK
    <3>2. OfAssigned(h, t)' /\ ledger'[h] = t /\ <<h, t>> \in announced'
      BY <1>2, <1>4
    <3> QED
      BY <1>3, <2>2, <3>1, <3>2 DEF Executing, OfAssigned
  <2> QED
    BY <1>4, <2>1, <2>2 DEF AttemptSucceeds, AttemptFails
<1>9. Queued' /\ Resolved'
  BY <1>1, <1>3, <1>8, QueueSetsNext DEF Quiet, QueueSets
<1> QED
  BY <1>6, <1>7, <1>8, <1>9 DEF Layer2

\* A crash empties the queues and keeps what is on chain.
LEMMA Crash2 == Layer2 /\ Crash => Layer2'
<1> SUFFICES ASSUME Layer2, Crash PROVE Layer2'
  OBVIOUS
<1>1. /\ toSubmit' = <<>> /\ resolutions' = <<>> /\ executing' = None /\ released' = {}
      /\ UNCHANGED <<ledger, announced, submitted>>
  BY DEF Crash
<1>2. Len(toSubmit') = 0 /\ Len(resolutions') = 0
  BY <1>1
<1>3. Queued' /\ Resolved'
  BY <1>2 DEF Queued, Resolved
<1>4. Executing' /\ SubmitsOnlyCertified' /\ ReleasedByQuorum'
  BY <1>1 DEF Layer2, Executing, SubmitsOnlyCertified, ReleasedByQuorum
<1> QED
  BY <1>3, <1>4 DEF Layer2

\* Every step keeps the second layer.
LEMMA Step2 == Layer1 /\ Layer2 /\ [Next]_vars => Layer2'
<1> SUFFICES ASSUME Layer1, Layer2, [Next]_vars PROVE Layer2'
  OBVIOUS
<1>1. CASE Crash
  BY <1>1, Crash2
<1>2. CASE ~Crash
  <2>1. Quiet
    BY <1>2, QuietNext
  <2>2. CASE TaskResolved
    BY <2>1, <2>2, TaskResolved2
  <2>3. CASE \E h \in Heights : HandleCertified(h)
    BY <2>1, <2>3, Certified2
  <2>4. CASE Submitter
    BY <2>1, <2>4, Take2, Attempt2 DEF Submitter
  <2>5. CASE Sequencer /\ ~TaskResolved
    <3>1. /\ toSubmit' = toSubmit /\ executing' = executing /\ submitted' = submitted
          /\ released' = released
          /\ \/ resolutions' = resolutions \/ resolutions' = <<>>
             \/ resolutions # <<>> /\ resolutions' = Tail(resolutions)
      BY <2>5
         DEF Sequencer, SettleReadTip, Start, SourceExhausted, NextTask, DrainResolutions,
             ReadTip, Assign, ForeignResolved, OtherHeightResolved, ReceiveResolution,
             TickReadCertificate, TickCertified, TickSuperseded, TickRebroadcast,
             OnlySequencer, submitterVars
    <3> QED
      BY <2>1, <3>1, OnlyTaken2
  <2>6. CASE \/ \E h \in Heights : Propose(h)
             \/ \E t \in Tips : HandleTip(t) \/ RaiseSafeTip(t)
             \/ \E h \in Heights, d \in Digests : Certify(h, d)
             \/ UNCHANGED vars
    <3>1. /\ toSubmit' = toSubmit /\ executing' = executing /\ submitted' = submitted
          /\ released' = released /\ resolutions' = resolutions
      BY <2>6 DEF Propose, HandleTip, RaiseSafeTip, Certify, OnlyReporter, OnlyNetwork,
                  submitterVars, vars
    <3> QED
      BY <2>1, <3>1, OnlyTaken2
  <2> QED
    BY <1>2, <2>2, <2>3, <2>4, <2>5, <2>6 DEF Next, Reporter, Network
<1> QED
  BY <1>1, <1>2
-----------------------------------------------------------------------------
(* Third layer: no gaps.                                                   *)

\* Every height below t is certified.
Complete(t) == \A h \in Heights : h < t => ledger[h] # None

\* Certificates form in height order, and each of the numbers the next height
\* is made of is one below which all heights are certified, but for the one
\* being driven.
Gapless ==
    /\ \A h \in Heights : ledger[h] # None => Complete(h)
    /\ Complete(tip) /\ Complete(safeTip)
    /\ pc \in {"starting", "tipKnown"} => Complete(reply)
    /\ Driving => Complete(height)
    /\ \A h \in Heights : h < nextHeight => ledger[h] # None \/ (Driving /\ h = height)
    /\ \A a \in announced : Complete(a[1])
Layer3 == Gapless

\* The initial states.
LEMMA Init3 == Init => Layer3
<1> SUFFICES ASSUME Init PROVE Layer3
  OBVIOUS
<1>1. /\ tip = 0 /\ safeTip = 0 /\ nextHeight = 0 /\ announced = {} /\ pc = "settling"
      /\ ledger = [h \in Heights |-> None]
  BY DEF Init
<1>2. \A h \in Heights : ~(h < 0)
  BY HeightsNat
<1> QED
  BY <1>1, <1>2 DEF Layer3, Gapless, Complete, Driving

\* What is complete stays so.
LEMMA CompleteKept ==
    ASSUME LedgerKept, NEW t, Complete(t)
    PROVE  Complete(t)'
BY NoneApart DEF LedgerKept, Complete

\* Below a certified height everything is complete, and so it is up to it.
LEMMA CompleteNext ==
    ASSUME Layer3, NEW h \in Heights, ledger[h] # None
    PROVE  Complete(h) /\ Complete(h + 1)
<1>1. Complete(h)
  BY DEF Layer3, Gapless
<1>2. \A g \in Heights : g < h + 1 => g < h \/ g = h
  BY HeightsNat
<1> QED
  BY <1>1, <1>2 DEF Complete

\* The operators' frontier is complete, and whatever is not above it.
LEMMA CompleteFrontier ==
    ASSUME TypeOK, NEW t \in Tips, t <= Frontier
    PROVE  Complete(t)
<1> DEFINE Open == {u \in Tips : u \in Heights => ledger[u] = None}
           Good(u) == /\ \A h \in 0 .. u - 1 : ledger[h] # None
                      /\ u \in Heights => ledger[u] = None
<1>1. MaxHeight + 1 \in Open
  BY DEF Heights, Tips
<1>2. PICK f \in Open : \A u \in Open : f <= u
  <2>1. Open \subseteq Nat /\ Open # {}
    BY <1>1, HeightsNat
  <2> HIDE DEF Open
  <2> QED
    BY <2>1, LeastElement
<1>3. f \in Tips /\ f \in Nat /\ (f \in Heights => ledger[f] = None)
  BY HeightsNat
<1>4. \A h \in 0 .. f - 1 : ledger[h] # None
  <2> SUFFICES ASSUME NEW h \in 0 .. f - 1, ledger[h] = None PROVE FALSE
    OBVIOUS
  <2>1. h \in Tips /\ h < f /\ h \in Nat
    BY <1>3 DEF Tips
  <2>2. h \in Open
    BY <2>1
  <2> QED
    BY <1>2, <1>3, <2>1, <2>2
<1>5. \E u \in Tips : Good(u)
  BY <1>3, <1>4
<1>6. Frontier \in Tips /\ \A h \in 0 .. Frontier - 1 : ledger[h] # None
  BY <1>5 DEF Frontier
<1>7. \A h \in Heights : h < t => h \in 0 .. Frontier - 1
  <2>1. Frontier \in Nat /\ t \in Nat
    BY <1>6, HeightsNat
  <2> QED
    BY <2>1, HeightsNat
<1> QED
  BY <1>6, <1>7 DEF Complete

\* What a step that moves neither the tips, the sequencer's numbers, nor the
\* certificates leaves of the third layer.
LEMMA Still3 ==
    ASSUME Layer3, LedgerKept, ledger' = ledger, announced' = announced,
           nextHeight' = nextHeight, height' = height, reply' = reply, pc' = pc,
           Complete(tip'), Complete(safeTip')
    PROVE  Layer3'
BY DEF Layer3, Gapless, Complete, Driving

\* The reporter's tip rises to a complete one.
LEMMA Reporter3 == Layer1 /\ Layer3 /\ LedgerKept /\ Reporter => Layer3'
<1> SUFFICES ASSUME Layer1, Layer3, LedgerKept, Reporter PROVE Layer3'
  OBVIOUS
<1>1. /\ OnlyReporter /\ Complete(tip) /\ Complete(safeTip)
  BY DEF Reporter, HandleCertified, HandleTip, Propose, Layer3, Gapless
<1>2. /\ ledger' = ledger /\ announced' = announced /\ nextHeight' = nextHeight
      /\ height' = height /\ reply' = reply /\ pc' = pc /\ safeTip' = safeTip
  BY <1>1 DEF OnlyReporter, sequencerVars
<1>3. Complete(tip')
  <2>1. CASE \E h \in Heights : HandleCertified(h)
    <3>1. PICK h \in Heights : HandleCertified(h)
      BY <2>1
    <3>2. Complete(h + 1)
      BY <3>1, CompleteNext DEF HandleCertified
    <3>3. tip' \in {tip, h + 1}
      BY <3>1 DEF HandleCertified, DuplicateCertified, FirstCertified, AdvanceTip
    <3> QED
      BY <1>1, <3>2, <3>3
  <2>2. CASE \E t \in Tips : HandleTip(t)
    <3>1. PICK t \in Tips : HandleTip(t)
      BY <2>2
    <3>2. Complete(t)
      BY <3>1, CompleteFrontier DEF HandleTip, Layer1
    <3>3. tip' \in {tip, t}
      BY <3>1 DEF HandleTip, AdvanceTip
    <3> QED
      BY <1>1, <3>2, <3>3
  <2>3. CASE \E h \in Heights : Propose(h)
    BY <1>1, <2>3 DEF Propose, reporterVars
  <2> QED
    BY <2>1, <2>2, <2>3 DEF Reporter
<1> QED
  BY <1>1, <1>2, <1>3, Still3

\* The submitter touches none of it.
LEMMA Submitter3 == Layer3 /\ LedgerKept /\ Submitter => Layer3'
<1> SUFFICES ASSUME Layer3, LedgerKept, Submitter PROVE Layer3'
  OBVIOUS
<1>1. OnlySubmitter
  BY DEF Submitter, ResolveSkip, ResolveForeign, BeginSubmission, AttemptSucceeds,
         AttemptFails, TakeCertificate
<1>2. UNCHANGED <<ledger, announced, nextHeight, height, reply, pc, tip, safeTip>>
  BY <1>1 DEF OnlySubmitter, sequencerVars, reporterVars, networkVars
<1>3. Complete(tip) /\ Complete(safeTip)
  BY DEF Layer3, Gapless
<1> QED
  BY <1>2, <1>3, Still3

\* A certificate forms, the safe tip rises, or the router dies.
LEMMA Network3 == Layer1 /\ Layer3 /\ LedgerKept /\ Network => Layer3'
<1> SUFFICES ASSUME Layer1, Layer3, LedgerKept, Network PROVE Layer3'
  OBVIOUS
<1>1. TypeOK /\ Complete(tip) /\ Complete(safeTip)
  BY DEF Layer1, Layer3, Gapless
<1>2. CASE \E h \in Heights, d \in Digests : Certify(h, d)
  <2>1. PICK h \in Heights, d \in Digests : Certify(h, d)
    BY <1>2
  <2>2. /\ UNCHANGED <<announced, nextHeight, height, reply, pc, tip, safeTip>>
        /\ ledger' = [ledger EXCEPT ![h] = d] /\ ledger[h] = None
        /\ ledger \in [Heights -> Digests \cup {None}]
    BY <1>1, <2>1 DEF Certify, OnlyNetwork, sequencerVars, reporterVars, TypeOK
  <2>3. Complete(h)
    <3>1. CASE h \in LeftoverHeights
      BY <3>1, HeightsNat DEF Complete
    <3>2. CASE <<h, d>> \in announced
      BY <3>2 DEF Layer3, Gapless
    <3>3. CASE \E a \in announced : a[1] >= h
      <4>1. PICK a \in announced : a[1] >= h
        BY <3>3
      <4>2. PICK b \in Heights : b = a[1] /\ b >= h /\ Complete(b)
        BY <1>1, <4>1 DEF TypeOK, Layer3, Gapless
      <4>3. \A g \in Heights : g < h => g < b
        <5>1. b \in Nat /\ h \in Nat /\ \A g \in Heights : g \in Nat
          BY HeightsNat
        <5> QED
          BY <4>2, <5>1
      <4> QED
        BY <4>2, <4>3 DEF Complete
    <3> QED
      BY <2>1, <3>1, <3>2, <3>3 DEF Certify
  <2>4. /\ Complete(h)' /\ Complete(tip)' /\ Complete(safeTip)'
        /\ pc \in {"starting", "tipKnown"} => Complete(reply)'
        /\ Driving => Complete(height)'
        /\ \A g \in Heights : ledger[g] # None => Complete(g)'
        /\ \A a \in announced : Complete(a[1])'
    <3>1. /\ Complete(tip) /\ Complete(safeTip)
          /\ pc \in {"starting", "tipKnown"} => Complete(reply)
          /\ Driving => Complete(height)
          /\ \A g \in Heights : ledger[g] # None => Complete(g)
          /\ \A a \in announced : Complete(a[1])
      BY DEF Layer3, Gapless
    <3>2. \A g \in Heights : ledger[g] # None => ledger'[g] # None
      BY <2>2, NoneApart
    <3> QED
      BY <2>2, <2>3, <3>1, <3>2 DEF Complete
  <2>5. \A g \in Heights : ledger'[g] # None => Complete(g)'
    BY <2>2, <2>4
  <2>6. \A g \in Heights : g < nextHeight =>
            ledger'[g] # None \/ (Driving /\ g = height)
    BY <2>2, NoneApart DEF Layer3, Gapless
  <2> QED
    BY <2>2, <2>4, <2>5, <2>6 DEF Layer3, Gapless, Driving, Complete
<1>3. CASE \E t \in Tips : RaiseSafeTip(t)
  <2>1. PICK t \in Tips : RaiseSafeTip(t)
    BY <1>3
  <2>2. Complete(t)
    BY <1>1, <2>1, CompleteFrontier, CompleteNext DEF RaiseSafeTip
  <2>3. /\ UNCHANGED <<ledger, announced, nextHeight, height, reply, pc, tip>>
        /\ safeTip' = t
    BY <2>1 DEF RaiseSafeTip, OnlyNetwork, sequencerVars, reporterVars
  <2> QED
    BY <1>1, <2>2, <2>3, Still3
<1>4. CASE Crash
  <2>1. /\ tip' = 0 /\ safeTip' = 0 /\ nextHeight' = 0 /\ pc' = "settling"
        /\ ledger' = ledger /\ announced' = announced
    BY <1>4 DEF Crash
  <2>2. \A h \in Heights : ~(h < 0)
    BY HeightsNat
  <2> QED
    BY <2>1, <2>2 DEF Layer3, Gapless, Complete, Driving
<1> QED
  BY <1>2, <1>3, <1>4 DEF Network

\* A step of the sequencer that announces nothing.
LEMMA Sequencer3Frame ==
    ASSUME Layer3, OnlySequencer, announced' = announced,
           pc' \in {"starting", "tipKnown"} => Complete(reply'),
           Driving' => Driving /\ height' = height,
           \A h \in Heights : h < nextHeight' =>
              ledger[h] # None \/ (Driving' /\ h = height')
    PROVE  Layer3'
BY DEF Layer3, Gapless, Complete, OnlySequencer, networkVars, reporterVars

\* Before a height is assigned.
LEMMA Prelude3 ==
    ASSUME Layer1, Layer3,
           \/ SettleReadTip \/ Start \/ SourceExhausted \/ ReadTip
           \/ \E t \in Tasks : NextTask(t)
    PROVE  Layer3'
<1>1. /\ OnlySequencer /\ announced' = announced /\ height' = height
      /\ ~Driving /\ ~Driving'
  BY DEF SettleReadTip, Start, SourceExhausted, ReadTip, NextTask, Driving
<1>2. \A h \in Heights : h < nextHeight => ledger[h] # None
  BY <1>1 DEF Layer3, Gapless
<1>3. pc' \in {"starting", "tipKnown"} => Complete(reply')
  BY DEF SettleReadTip, Start, SourceExhausted, ReadTip, NextTask, Layer3, Gapless
<1>4. \A h \in Heights : h < nextHeight' => ledger[h] # None
  <2>1. CASE Start
    <3>1. reply \in Tips /\ safeTip \in Tips /\ nextHeight' = Larger(reply, safeTip)
      BY <2>1 DEF Start, Layer1, Control, TypeOK
    <3>2. nextHeight' \in {reply, safeTip}
      BY <3>1, LargerTip
    <3>3. Complete(reply) /\ Complete(safeTip)
      BY <2>1 DEF Start, Layer3, Gapless
    <3> QED
      BY <3>2, <3>3 DEF Complete
  <2>2. CASE ~Start
    <3>1. nextHeight' = nextHeight
      BY <2>2 DEF SettleReadTip, SourceExhausted, ReadTip, NextTask
    <3> QED
      BY <1>2, <3>1
  <2> QED
    BY <2>1, <2>2
<1> QED
  BY <1>1, <1>3, <1>4, Sequencer3Frame

\* The heights of dispositions are certified.
LEMMA ResolvedHeights ==
    ASSUME Layer2, NEW h \in HeightsOf(resolutions)
    PROVE  ledger[h] # None
BY DEF HeightsOf, Layer2, Resolved, Settled

\* Draining.
LEMMA Drain3 == Layer1 /\ Layer2 /\ Layer3 /\ DrainResolutions => Layer3'
<1> SUFFICES ASSUME Layer1, Layer2, Layer3, DrainResolutions PROVE Layer3'
  OBVIOUS
<1>1. /\ OnlySequencer /\ announced' = announced /\ ~Driving /\ ~Driving'
      /\ pc' = "drained"
  BY DEF DrainResolutions, Driving
<1>2. nextHeight \in Tips /\ HeightsOf(resolutions) \in SUBSET Heights
  BY HeightsNat, QueueHeights DEF Layer1, TypeOK
<1>3. nextHeight' = nextHeight \/ \E h \in HeightsOf(resolutions) : nextHeight' = h + 1
  BY <1>2, DrainMax DEF DrainResolutions
<1>4. Complete(nextHeight)
  BY <1>1 DEF Layer3, Gapless, Complete
<1>5. \A h \in HeightsOf(resolutions) : Complete(h + 1)
  BY <1>2, ResolvedHeights, CompleteNext
<1>6. \A h \in Heights : h < nextHeight' => ledger[h] # None
  BY <1>3, <1>4, <1>5 DEF Complete
<1> QED
  BY <1>1, <1>6, Sequencer3Frame

\* Assigning opens no gap.
LEMMA Assign3 == Layer1 /\ Layer3 /\ Assign => Layer3'
<1> SUFFICES ASSUME Layer1, Layer3, Assign PROVE Layer3'
  OBVIOUS
<1>1. PICK h \in Heights : /\ h = height' /\ nextHeight' = h + 1
                           /\ h \in {nextHeight, reply, safeTip}
                           /\ announced' = announced \cup {<<h, task>>}
  BY AssignHeight
<1>2. pc = "tipKnown" /\ pc' = "driving" /\ OnlySequencer
  BY DEF Assign
<1>3. Complete(h)
  <2>1. Complete(nextHeight) /\ Complete(reply) /\ Complete(safeTip)
    BY <1>2 DEF Layer3, Gapless, Complete, Driving
  <2> QED
    BY <1>1, <2>1
<1>4. \A g \in Heights : g < h + 1 => g < h \/ g = h
  BY HeightsNat
<1>5. ledger' = ledger /\ tip' = tip /\ safeTip' = safeTip
  BY <1>2 DEF OnlySequencer, networkVars, reporterVars
<1> QED
  BY <1>1, <1>2, <1>3, <1>4, <1>5 DEF Layer3, Gapless, Complete, Driving

\* Dispositions received, and ticks, of a driven height.
LEMMA Drive3 ==
    ASSUME Layer1, Layer2, Layer3,
           \/ TaskResolved \/ ForeignResolved \/ OtherHeightResolved
           \/ TickReadCertificate \/ TickCertified \/ TickSuperseded \/ TickRebroadcast
    PROVE  Layer3'
<1>1. /\ OnlySequencer /\ announced' = announced /\ height' = height /\ Driving
      /\ ~(pc' \in {"starting", "tipKnown"})
  BY DEF TaskResolved, ForeignResolved, OtherHeightResolved, ReceiveResolution,
         TickReadCertificate, TickCertified, TickSuperseded, TickRebroadcast, Driving
<1>2. \A h \in Heights : h < nextHeight => ledger[h] # None \/ h = height
  BY <1>1 DEF Layer3, Gapless
<1>3. height \in Heights /\ TypeOK
  BY <1>1 DEF Layer1, Control
<1>4. CASE TaskResolved \/ ForeignResolved
  <2>1. ledger[height] # None
    <3>1. resolutions # <<>> /\ Head(resolutions).height = height
      BY <1>4 DEF TaskResolved, ForeignResolved, ReceiveResolution
    <3>2. resolutions[1].height = height /\ 1 \in 1 .. Len(resolutions)
      BY <1>3, <3>1, TailShift DEF TypeOK
    <3> QED
      BY <3>2 DEF Layer2, Resolved, Settled
  <2>2. nextHeight' = nextHeight /\ ~Driving'
    BY <1>4 DEF TaskResolved, ForeignResolved, Driving
  <2> QED
    BY <1>1, <1>2, <2>1, <2>2, Sequencer3Frame
<1>5. CASE OtherHeightResolved
  <2>1. resolutions # <<>> /\ pc' = "driving"
        /\ nextHeight' = Larger(nextHeight, Head(resolutions).height + 1)
    BY <1>1, <1>5 DEF OtherHeightResolved, ReceiveResolution
  <2>2. PICK g \in Heights : g = Head(resolutions).height /\ g = resolutions[1].height
                             /\ 1 \in 1 .. Len(resolutions)
    BY <1>3, <2>1, HeadResolution, TailShift DEF TypeOK
  <2>3. Complete(g + 1)
    BY <2>2, CompleteNext DEF Layer2, Resolved, Settled
  <2>4. nextHeight' \in {nextHeight, g + 1}
    BY <2>1, <2>2 DEF Larger
  <2>5. \A h \in Heights : h < nextHeight' => ledger[h] # None \/ h = height
    BY <1>2, <2>3, <2>4 DEF Complete
  <2>6. Driving'
    BY <2>1 DEF Driving
  <2> QED
    BY <1>1, <2>5, <2>6, Sequencer3Frame
<1>6. CASE TickSuperseded
  <2>1. ledger[height] # None
    BY <1>3, <1>6 DEF TickSuperseded, Layer3, Gapless, Complete
  <2>2. nextHeight' = nextHeight /\ ~Driving'
    BY <1>6 DEF TickSuperseded, Driving
  <2> QED
    BY <1>1, <1>2, <2>1, <2>2, Sequencer3Frame
<1>7. CASE TickReadCertificate \/ TickCertified \/ TickRebroadcast
  <2>1. nextHeight' = nextHeight /\ Driving'
    BY <1>7 DEF TickReadCertificate, TickCertified, TickRebroadcast, Driving
  <2> QED
    BY <1>1, <1>2, <2>1, Sequencer3Frame
<1> QED
  BY <1>4, <1>5, <1>6, <1>7

\* Every step keeps the third layer.
LEMMA Step3 == Layer1 /\ Layer2 /\ Layer3 /\ [Next]_vars => Layer3'
<1> SUFFICES ASSUME Layer1, Layer2, Layer3, [Next]_vars PROVE Layer3'
  OBVIOUS
<1>1. LedgerKept
  BY LedgerKeeps
<1>2. CASE Sequencer
  BY <1>2, Prelude3, Drain3, Assign3, Drive3 DEF Sequencer
<1>3. CASE Reporter \/ Submitter \/ Network
  BY <1>1, <1>3, Reporter3, Submitter3, Network3
<1>4. CASE UNCHANGED vars
  BY <1>4 DEF vars, sequencerVars, reporterVars, networkVars, Layer3, Gapless, Complete,
              Driving
<1> QED
  BY <1>2, <1>3, <1>4 DEF Next
-----------------------------------------------------------------------------
(* Fourth layer: every forwarded certificate is in exactly one place.      *)

Submitting == IF executing = None THEN {} ELSE {executing.height}

\* W, S, R and C share nothing and make up F.
Partition(F, W, S, R, C) ==
    /\ F = W \cup S \cup R \cup C
    /\ W \cap S = {} /\ W \cap R = {} /\ W \cap C = {}
    /\ S \cap R = {} /\ S \cap C = {} /\ R \cap C = {}
Conserved ==
    /\ NoRepeats(toSubmit) /\ NoRepeats(resolutions)
    /\ Partition(forwarded, HeightsOf(toSubmit), Submitting, HeightsOf(resolutions), consumed)

\* The reporter's dedupe holds every forwarded height the engine may still
\* report.
Deduped ==
    /\ \A h \in forwarded : certified[h] # None \/ h < SaturatingSub(tip, PruneSlack)
    /\ tip <= engineTip + Window
Layer4 == Conserved /\ Deduped

\* The heights of a queue whose head is taken.
LEMMA TailHeights ==
    ASSUME NEW S, NEW q \in Seq(S), q # <<>>
    PROVE  /\ HeightsOf(q) = HeightsOf(Tail(q)) \cup {Head(q).height}
           /\ NoRepeats(q) => /\ NoRepeats(Tail(q))
                              /\ Head(q).height \notin HeightsOf(Tail(q))
<1>1. /\ Len(Tail(q)) = Len(q) - 1 /\ Head(q) = q[1] /\ 1 \in 1 .. Len(q)
      /\ \A i \in 1 .. Len(Tail(q)) : i + 1 \in 1 .. Len(q) /\ Tail(q)[i] = q[i + 1]
  BY TailShift
<1>2. \A i \in 1 .. Len(q) : i = 1 \/ (i - 1 \in 1 .. Len(Tail(q)) /\ q[i] = Tail(q)[i - 1])
  BY <1>1
<1>3. HeightsOf(q) = HeightsOf(Tail(q)) \cup {Head(q).height}
  <2>1. \A x \in HeightsOf(q) : x \in HeightsOf(Tail(q)) \cup {Head(q).height}
    BY <1>1, <1>2 DEF HeightsOf
  <2>2. \A x \in HeightsOf(Tail(q)) : x \in HeightsOf(q)
    BY <1>1 DEF HeightsOf
  <2>3. Head(q).height \in HeightsOf(q)
    BY <1>1 DEF HeightsOf
  <2> QED
    BY <2>1, <2>2, <2>3
<1>4. ASSUME NoRepeats(q) PROVE NoRepeats(Tail(q))
  <2> SUFFICES ASSUME NEW i \in 1 .. Len(Tail(q)), NEW j \in 1 .. Len(Tail(q)),
                      Tail(q)[i].height = Tail(q)[j].height
               PROVE  i = j
    BY DEF NoRepeats
  <2>1. i + 1 = j + 1
    BY <1>1, <1>4 DEF NoRepeats
  <2> QED
    BY <2>1
<1>5. ASSUME NoRepeats(q), Head(q).height \in HeightsOf(Tail(q)) PROVE FALSE
  <2>1. PICK i \in 1 .. Len(Tail(q)) : Tail(q)[i].height = Head(q).height
    BY <1>5 DEF HeightsOf
  <2>2. i + 1 = 1
    BY <1>1, <1>5, <2>1 DEF NoRepeats
  <2> QED
    BY <2>2
<1> QED
  BY <1>3, <1>4, <1>5

\* The heights of a queue with an element put behind it.
LEMMA AppendHeights ==
    ASSUME NEW S, NEW q \in Seq(S), NEW e \in S
    PROVE  /\ HeightsOf(Append(q, e)) = HeightsOf(q) \cup {e.height}
           /\ NoRepeats(q) /\ e.height \notin HeightsOf(q) => NoRepeats(Append(q, e))
<1> DEFINE a == Append(q, e)
<1>1. /\ Len(a) = Len(q) + 1 /\ Len(q) \in Nat /\ a[Len(q) + 1] = e
      /\ \A i \in 1 .. Len(q) : a[i] = q[i]
  BY AppendShift
<1> HIDE DEF a
<1>2. \A i \in 1 .. Len(a) : i \in 1 .. Len(q) \/ i = Len(q) + 1
  BY <1>1
<1>3. /\ \A i \in 1 .. Len(q) : i \in 1 .. Len(a)
      /\ Len(q) + 1 \in 1 .. Len(a)
  BY <1>1
<1>4. HeightsOf(a) = HeightsOf(q) \cup {e.height}
  <2>1. \A x \in HeightsOf(a) : x \in HeightsOf(q) \cup {e.height}
    BY <1>1, <1>2 DEF HeightsOf
  <2>2. \A x \in HeightsOf(q) : x \in HeightsOf(a)
    BY <1>1, <1>3 DEF HeightsOf
  <2>3. e.height \in HeightsOf(a)
    BY <1>1, <1>3 DEF HeightsOf
  <2> QED
    BY <2>1, <2>2, <2>3
<1>5. ASSUME NoRepeats(q), e.height \notin HeightsOf(q) PROVE NoRepeats(a)
  <2>1. \A i \in 1 .. Len(q) : q[i].height # e.height
    BY <1>5 DEF HeightsOf
  <2> QED
    BY <1>1, <1>2, <1>5, <2>1 DEF NoRepeats
<1> QED
  BY <1>4, <1>5 DEF a

\* The initial states, and those after a crash.
Empty ==
    /\ toSubmit = <<>> /\ resolutions = <<>> /\ executing = None
    /\ forwarded = {} /\ consumed = {} /\ tip = 0 /\ engineTip \in Nat

\* With nothing forwarded there is nothing to lose.
LEMMA Empty4 == Empty => Layer4
<1> SUFFICES ASSUME toSubmit = <<>>, resolutions = <<>>, executing = None,
                    forwarded = {}, consumed = {}, tip = 0, engineTip \in Nat
             PROVE  Layer4
  BY DEF Empty
<1>1. Len(toSubmit) = 0 /\ Len(resolutions) = 0
  OBVIOUS
<1>2. HeightsOf(toSubmit) = {} /\ HeightsOf(resolutions) = {} /\ Submitting = {}
  BY <1>1 DEF HeightsOf, Submitting
<1>3. NoRepeats(toSubmit) /\ NoRepeats(resolutions)
  BY <1>1 DEF NoRepeats
<1>4. \A k \in Nat : 0 <= k + Window
  OBVIOUS
<1> QED
  BY <1>2, <1>3, <1>4 DEF Layer4, Conserved, Deduped, Partition

\* The same of the next state.
LEMMA Empty4Next == Empty' => Layer4'
BY Empty4, PTL

\* Two disjoint finite sets.
LEMMA DisjointSum ==
    ASSUME NEW S, NEW T, IsFiniteSet(S), IsFiniteSet(T), S \cap T = {}
    PROVE  IsFiniteSet(S \cup T) /\ Cardinality(S \cup T) = Cardinality(S) + Cardinality(T)
<1>1. /\ IsFiniteSet(S \cup T)
      /\ Cardinality(S \cup T) = Cardinality(S) + Cardinality(T) - Cardinality(S \cap T)
  BY FS_Union
<1>2. Cardinality(S \cap T) = 0
  BY FS_EmptySet
<1>3. Cardinality(S) \in Nat /\ Cardinality(T) \in Nat
  BY FS_CardinalityType
<1> QED
  BY <1>1, <1>2, <1>3

\* The dedupe does not depend on the other actors.
LEMMA DedupeStill ==
    ASSUME Deduped, UNCHANGED <<forwarded, certified, tip, engineTip>>
    PROVE  Deduped'
BY DEF Deduped

\* Nor the conservation on who moves nothing.
LEMMA ConservedStill ==
    ASSUME Conserved, UNCHANGED <<forwarded, toSubmit, executing, resolutions, consumed>>
    PROVE  Conserved'
BY DEF Conserved, Submitting

\* The sequencer consumes dispositions.
LEMMA Sequencer4 == Layer1 /\ Layer4 /\ Sequencer => Layer4'
<1> SUFFICES ASSUME Layer1, Layer4, Sequencer PROVE Layer4'
  OBVIOUS
<1>1. /\ resolutions \in Seq(Resolutions) /\ Conserved /\ Deduped
  BY DEF Layer1, TypeOK, Layer4
<1>2. OnlySequencer
  BY DEF Sequencer, SettleReadTip, Start, SourceExhausted, NextTask, DrainResolutions,
         ReadTip, Assign, TaskResolved, ForeignResolved, OtherHeightResolved,
         ReceiveResolution, TickReadCertificate, TickCertified, TickSuperseded,
         TickRebroadcast
<1>3. UNCHANGED <<forwarded, certified, tip, engineTip, toSubmit, executing>>
  BY <1>2 DEF OnlySequencer, reporterVars, submitterVars, networkVars
<1>4. Conserved'
  <2>1. CASE ReceiveResolution
    <3>1. /\ resolutions # <<>> /\ resolutions' = Tail(resolutions)
          /\ consumed' = consumed \cup {Head(resolutions).height}
      BY <2>1 DEF ReceiveResolution
    <3>2. /\ HeightsOf(resolutions) = HeightsOf(resolutions') \cup {Head(resolutions).height}
          /\ NoRepeats(resolutions')
          /\ Head(resolutions).height \notin HeightsOf(resolutions')
      BY <1>1, <3>1, TailHeights DEF Conserved
    <3>3. Submitting' = Submitting
      BY <1>3 DEF Submitting
    <3>4. Partition(forwarded, HeightsOf(toSubmit), Submitting, HeightsOf(resolutions'),
                    consumed')
      BY <1>1, <3>1, <3>2 DEF Conserved, Partition
    <3> QED
      BY <1>1, <1>3, <3>2, <3>3, <3>4 DEF Conserved
  <2>2. CASE DrainResolutions
    <3>1. resolutions' = <<>> /\ consumed' = consumed \cup HeightsOf(resolutions)
      BY <2>2 DEF DrainResolutions
    <3>2. Len(resolutions') = 0
      BY <3>1
    <3>3. HeightsOf(resolutions') = {} /\ NoRepeats(resolutions')
      BY <3>2 DEF HeightsOf, NoRepeats
    <3>4. Submitting' = Submitting
      BY <1>3 DEF Submitting
    <3>5. Partition(forwarded, HeightsOf(toSubmit), Submitting, {}, consumed')
      BY <1>1, <3>1 DEF Conserved, Partition
    <3> QED
      BY <1>1, <1>3, <3>3, <3>4, <3>5 DEF Conserved
  <2>3. CASE ~ReceiveResolution /\ ~DrainResolutions
    <3>1. UNCHANGED <<resolutions, consumed>>
      BY <2>3
         DEF Sequencer, SettleReadTip, Start, SourceExhausted, NextTask, ReadTip, Assign,
             TaskResolved, ForeignResolved, OtherHeightResolved, TickReadCertificate,
             TickCertified, TickSuperseded, TickRebroadcast
    <3> QED
      BY <1>1, <1>3, <3>1, ConservedStill
  <2> QED
    BY <2>1, <2>2, <2>3
<1> QED
  BY <1>1, <1>3, <1>4, DedupeStill DEF Layer4

\* Saturating subtraction grows with the tip.
LEMMA SaturatingGrows ==
    ASSUME NEW a \in Nat, NEW b \in Nat, a <= b
    PROVE  /\ SaturatingSub(a, PruneSlack) \in Nat /\ SaturatingSub(b, PruneSlack) \in Nat
           /\ SaturatingSub(a, PruneSlack) <= SaturatingSub(b, PruneSlack)
BY DEF SaturatingSub

\* Advancing the tip prunes only what the slack lets go.
LEMMA AdvanceDeduped ==
    ASSUME Layer1, NEW log \in [Heights -> Digests \cup {None}], NEW t \in Tips,
           AdvanceTip(log, t), forwarded' \subseteq Heights,
           \A h \in forwarded' : log[h] # None \/ h < SaturatingSub(tip, PruneSlack)
    PROVE  /\ \A h \in forwarded' :
                 certified'[h] # None \/ h < SaturatingSub(tip', PruneSlack)
           /\ tip' \in {tip, t}
<1>1. tip \in Nat /\ t \in Nat /\ Heights \subseteq Nat
  BY HeightsNat DEF Layer1, TypeOK
<1>2. CASE t <= tip
  BY <1>2 DEF AdvanceTip
<1>3. CASE ~(t <= tip)
  <2>1. /\ tip' = t
        /\ certified' = [h \in Heights |->
                           IF h < SaturatingSub(t, PruneSlack) THEN None ELSE log[h]]
    BY <1>3 DEF AdvanceTip
  <2>2. PICK p \in Nat, q \in Nat : /\ p = SaturatingSub(tip, PruneSlack)
                                    /\ q = SaturatingSub(t, PruneSlack) /\ p <= q
    BY <1>1, <1>3, SaturatingGrows
  <2>3. ASSUME NEW h \in forwarded' PROVE certified'[h] # None \/ h < q
    <3>1. h \in Heights /\ h \in Nat /\ (log[h] # None \/ h < p)
      BY <1>1, <2>2
    <3>2. certified'[h] = IF h < q THEN None ELSE log[h]
      BY <2>1, <2>2, <3>1
    <3> QED
      BY <2>2, <3>1, <3>2
  <2> QED
    BY <2>1, <2>2, <2>3
<1> QED
  BY <1>2, <1>3

\* A certificate the reporter does not hold was not forwarded.
LEMMA FirstIsFirst ==
    ASSUME Layer1, Deduped, NEW h \in Heights, HandleCertified(h), certified[h] = None
    PROVE  h \notin forwarded
<1>1. tip \in Nat /\ engineTip \in Nat /\ h \in Nat
  BY HeightsNat DEF Layer1, TypeOK
<1>2. h >= engineTip - ActivityTimeout /\ tip <= engineTip + Window
  BY DEF HandleCertified, Deduped
<1>3. ~(h < SaturatingSub(tip, PruneSlack))
  BY <1>1, <1>2 DEF SaturatingSub
<1> QED
  BY <1>3 DEF Deduped

\* The reporter forwards a height once.
LEMMA Reporter4 == Layer1 /\ Layer4 /\ Reporter => Layer4'
<1> SUFFICES ASSUME Layer1, Layer4, Reporter PROVE Layer4'
  OBVIOUS
<1>1. /\ Conserved /\ Deduped /\ toSubmit \in Seq(Certs) /\ forwarded \subseteq Heights
      /\ certified \in [Heights -> Digests \cup {None}] /\ tip \in Nat /\ engineTip \in Nat
      /\ ledger \in [Heights -> Digests \cup {None}]
  BY HeightsNat DEF Layer1, TypeOK, Layer4
<1>2. OnlyReporter
  BY DEF Reporter, HandleCertified, HandleTip, Propose
<1>3. UNCHANGED <<executing, resolutions, consumed>> /\ Submitting' = Submitting
  BY <1>2 DEF OnlyReporter, submitterVars, Submitting
<1>4. CASE \E h \in Heights : HandleCertified(h)
  <2>1. PICK h \in Heights : HandleCertified(h)
    BY <1>4
  <2>2. engineTip' = engineTip /\ ledger[h] \in Digests /\ h < engineTip + Window
    BY <1>1, <2>1 DEF HandleCertified
  <2>3. CASE DuplicateCertified(h)
    BY <1>1, <1>3, <2>2, <2>3, ConservedStill, DedupeStill DEF DuplicateCertified, Layer4
  <2>4. CASE FirstCertified(h)
    <3> DEFINE e == [height |-> h, digest |-> ledger[h]]
               log == [certified EXCEPT ![h] = ledger[h]]
    <3>1. /\ certified[h] = None /\ AdvanceTip(log, h + 1)
          /\ toSubmit' = Append(toSubmit, e) /\ forwarded' = forwarded \cup {h}
      BY <2>4 DEF FirstCertified
    <3>2. h \notin forwarded
      BY <1>1, <2>1, <3>1, FirstIsFirst
    <3>3. e \in Certs /\ e.height = h
      BY <2>2 DEF Certs
    <3>4. log \in [Heights -> Digests \cup {None}]
          /\ \A g \in forwarded' : log[g] # None \/ g < SaturatingSub(tip, PruneSlack)
      BY <1>1, <2>2, <3>1 DEF Deduped, Digests
    <3> HIDE DEF e, log
    <3>5. h \notin HeightsOf(toSubmit)
      BY <1>1, <3>2 DEF Conserved, Partition
    <3>6. /\ HeightsOf(toSubmit') = HeightsOf(toSubmit) \cup {h}
          /\ NoRepeats(toSubmit')
      BY <1>1, <3>1, <3>3, <3>5, AppendHeights DEF Conserved
    <3>7. Partition(forwarded', HeightsOf(toSubmit'), Submitting, HeightsOf(resolutions),
                    consumed)
      BY <1>1, <3>1, <3>2, <3>6 DEF Conserved, Partition
    <3>8. Conserved'
      BY <1>1, <1>3, <3>6, <3>7 DEF Conserved
    <3>9. h + 1 \in Tips /\ forwarded' \subseteq Heights
      BY <1>1, <3>1, HeightsNat
    <3>10. /\ \A g \in forwarded' :
                 certified'[g] # None \/ g < SaturatingSub(tip', PruneSlack)
           /\ tip' \in {tip, h + 1}
      BY <3>1, <3>4, <3>9, AdvanceDeduped
    <3>11. tip' <= engineTip + Window
      BY <1>1, <2>2, <3>10, HeightsNat DEF Deduped
    <3> QED
      BY <2>2, <3>8, <3>10, <3>11 DEF Layer4, Deduped
  <2> QED
    BY <2>1, <2>3, <2>4 DEF HandleCertified
<1>5. CASE \E t \in Tips : HandleTip(t)
  <2>1. PICK t \in Tips : HandleTip(t)
    BY <1>5
  <2>2. /\ engineTip' = t /\ engineTip < t /\ AdvanceTip(certified, t)
        /\ toSubmit' = toSubmit /\ forwarded' = forwarded
    BY <2>1 DEF HandleTip
  <2>3. /\ \A g \in forwarded' :
              certified'[g] # None \/ g < SaturatingSub(tip', PruneSlack)
        /\ tip' \in {tip, t}
    BY <1>1, <2>2, AdvanceDeduped DEF Deduped
  <2>4. tip' <= t + Window
    BY <1>1, <2>2, <2>3, HeightsNat DEF Deduped
  <2>5. Conserved'
    BY <1>1, <1>3, <2>2, ConservedStill
  <2> QED
    BY <2>2, <2>3, <2>4, <2>5 DEF Layer4, Deduped
<1>6. CASE \E h \in Heights : Propose(h)
  BY <1>1, <1>3, <1>6, ConservedStill, DedupeStill DEF Propose, reporterVars, Layer4
<1> QED
  BY <1>4, <1>5, <1>6 DEF Reporter

\* A disposition for a height that is nowhere else.
LEMMA NotifyHeights ==
    ASSUME resolutions \in Seq(Resolutions), NoRepeats(resolutions),
           NEW h \in Heights, NEW k \in Kinds, Notify(h, k), h \notin HeightsOf(resolutions)
    PROVE  HeightsOf(resolutions') = HeightsOf(resolutions) \cup {h} /\ NoRepeats(resolutions')
<1> DEFINE r == [height |-> h, kind |-> k]
<1>1. r \in Resolutions /\ r.height = h /\ resolutions' = Append(resolutions, r)
  BY DEF Resolutions, Notify
<1> HIDE DEF r
<1> QED
  BY <1>1, AppendHeights

\* The submitter moves a height on.
LEMMA Submitter4 == Layer1 /\ Layer4 /\ Submitter => Layer4'
<1> SUFFICES ASSUME Layer1, Layer4, Submitter PROVE Layer4'
  OBVIOUS
<1>1. /\ Conserved /\ Deduped /\ TypeOK /\ toSubmit \in Seq(Certs)
      /\ resolutions \in Seq(Resolutions)
  BY DEF Layer1, TypeOK, Layer4
<1>2. OnlySubmitter
  BY DEF Submitter, ResolveSkip, ResolveForeign, BeginSubmission, AttemptSucceeds,
         AttemptFails, TakeCertificate
<1>3. UNCHANGED <<forwarded, certified, tip, engineTip, consumed>>
  BY <1>2 DEF OnlySubmitter, reporterVars, networkVars
<1>4. Conserved'
  <2>1. CASE ResolveSkip \/ ResolveForeign \/ BeginSubmission
    <3>1. executing = None /\ toSubmit # <<>> /\ toSubmit' = Tail(toSubmit)
      BY <2>1 DEF ResolveSkip, ResolveForeign, BeginSubmission, TakeCertificate
    <3>2. PICK h \in Heights : h = Head(toSubmit).height
      BY <1>1, <3>1, HeadCertificate
    <3>3. /\ HeightsOf(toSubmit) = HeightsOf(toSubmit') \cup {h}
          /\ NoRepeats(toSubmit') /\ h \notin HeightsOf(toSubmit')
      BY <1>1, <3>1, <3>2, TailHeights DEF Conserved
    <3>4. Submitting = {} /\ h \notin HeightsOf(resolutions) /\ h \notin consumed
      BY <1>1, <3>1, <3>3 DEF Conserved, Partition, Submitting
    <3>5. CASE ResolveSkip \/ ResolveForeign
      <4>1. PICK k \in Kinds : Notify(h, k)
        BY <3>2, <3>5 DEF ResolveSkip, ResolveForeign, Kinds
      <4>2. /\ HeightsOf(resolutions') = HeightsOf(resolutions) \cup {h}
            /\ NoRepeats(resolutions')
        BY <1>1, <3>4, <4>1, NotifyHeights DEF Conserved
      <4>3. Submitting' = {}
        BY <3>1, <3>5 DEF ResolveSkip, ResolveForeign, Submitting
      <4>4. Partition(forwarded, HeightsOf(toSubmit'), {}, HeightsOf(resolutions'), consumed)
        BY <1>1, <3>3, <3>4, <4>2 DEF Conserved, Partition
      <4> QED
        BY <1>3, <3>3, <4>2, <4>3, <4>4 DEF Conserved
    <3>6. CASE BeginSubmission
      <4>1. /\ resolutions' = resolutions
            /\ executing' = [height |-> h, task |-> Head(toSubmit).digest, attempt |-> 1]
        BY <3>2, <3>6 DEF BeginSubmission
      <4>2. executing' \in [height : Heights, task : Tasks, attempt : 1 .. MaxRetries + 1]
        <5>1. Head(toSubmit).digest \in Tasks /\ 1 \in 1 .. MaxRetries + 1
          BY <1>1, <3>1, <3>6, HeadCertificate DEF BeginSubmission, Digests
        <5> QED
          BY <4>1, <5>1
      <4>3. executing' # None
        BY <4>2
      <4>4. Submitting' = {h}
        BY <4>1, <4>3 DEF Submitting
      <4>5. Partition(forwarded, HeightsOf(toSubmit'), {h}, HeightsOf(resolutions), consumed)
        BY <1>1, <3>3, <3>4 DEF Conserved, Partition
      <4> QED
        BY <1>1, <1>3, <3>3, <4>1, <4>4, <4>5 DEF Conserved
    <3> QED
      BY <2>1, <3>5, <3>6
  <2>2. CASE AttemptSucceeds \/ AttemptFails
    <3>1. PICK h \in Heights : h = executing.height
      BY <1>1, <2>2 DEF AttemptSucceeds, AttemptFails, TypeOK
    <3>2. executing # None /\ toSubmit' = toSubmit /\ Submitting = {h}
      BY <2>2, <3>1 DEF AttemptSucceeds, AttemptFails, Submitting
    <3>3. CASE Notify(h, "executed") /\ executing' = None
      <4>1. h \notin HeightsOf(resolutions) /\ h \notin consumed
            /\ h \notin HeightsOf(toSubmit)
        BY <1>1, <3>2 DEF Conserved, Partition
      <4>2. /\ HeightsOf(resolutions') = HeightsOf(resolutions) \cup {h}
            /\ NoRepeats(resolutions')
        BY <1>1, <3>3, <4>1, NotifyHeights DEF Conserved, Kinds
      <4>3. Submitting' = {}
        BY <3>3 DEF Submitting
      <4>4. Partition(forwarded, HeightsOf(toSubmit), {}, HeightsOf(resolutions'), consumed)
        BY <1>1, <3>2, <4>1, <4>2 DEF Conserved, Partition
      <4> QED
        BY <1>1, <1>3, <3>2, <4>2, <4>3, <4>4 DEF Conserved
    <3>4. CASE /\ resolutions' = resolutions /\ executing.attempt <= MaxRetries
               /\ executing' = [executing EXCEPT !.attempt = @ + 1]
      <4>1. executing \in Submissions
        BY <1>1, <3>2 DEF TypeOK
      <4>2. executing' \in Submissions /\ executing'.height = h
        BY <3>1, <3>4, <4>1
      <4>3. executing' # None
        BY <4>2
      <4>4. Submitting' = {h}
        BY <4>2, <4>3 DEF Submitting
      <4> QED
        BY <1>1, <1>3, <3>2, <3>4, <4>4 DEF Conserved
    <3> QED
      BY <2>2, <3>1, <3>3, <3>4 DEF AttemptSucceeds, AttemptFails
  <2> QED
    BY <2>1, <2>2 DEF Submitter
<1> QED
  BY <1>1, <1>3, <1>4, DedupeStill DEF Layer4
\* Every step keeps the fourth layer.
LEMMA Step4 == Layer1 /\ Layer4 /\ [Next]_vars => Layer4'
<1> SUFFICES ASSUME Layer1, Layer4, [Next]_vars PROVE Layer4'
  OBVIOUS
<1>1. CASE Sequencer
  BY <1>1, Sequencer4
<1>2. CASE Reporter
  BY <1>2, Reporter4
<1>3. CASE Submitter
  BY <1>3, Submitter4
<1>4. CASE Crash
  <2>1. engineTip' \in Nat
    BY <1>4, HeightsNat DEF Crash, Layer1, TypeOK
  <2>2. Empty'
    BY <1>4, <2>1 DEF Crash, Empty
  <2> QED
    BY <2>2, Empty4Next
<1>5. CASE \/ \E h \in Heights, d \in Digests : Certify(h, d)
           \/ \E t \in Tips : RaiseSafeTip(t)
           \/ UNCHANGED vars
  <2>1. UNCHANGED <<forwarded, certified, tip, engineTip, toSubmit, executing, resolutions,
                    consumed>>
    BY <1>5 DEF Certify, RaiseSafeTip, OnlyNetwork, reporterVars, submitterVars,
                networkVars, vars
  <2> QED
    BY <2>1, ConservedStill, DedupeStill DEF Layer4
<1> QED
  BY <1>1, <1>2, <1>3, <1>4, <1>5 DEF Next, Network

-----------------------------------------------------------------------------
(* The properties.                                                         *)

\* The inductive invariant.
IInv == Layer1 /\ Layer2 /\ Layer3 /\ Layer4

\* The four layers hold of every behaviour of the router.
THEOREM RouterInvariance == Spec => []IInv
<1>1. Init => IInv
  <2>1. Init => Layer4
    BY Empty4 DEF Init, Empty
  <2> QED
    BY <2>1, Init1, Init2, Init3 DEF IInv
<1>2. IInv /\ [Next]_vars => IInv'
  BY Step1, Step2, Step3, Step4 DEF IInv
<1> QED
  BY <1>1, <1>2, PTL DEF Spec

\* Type correctness of the router.
THEOREM RouterTypes == Spec => []TypeOK
<1>1. IInv => TypeOK
  BY DEF IInv, Layer1
<1> QED
  BY <1>1, RouterInvariance, PTL

\* A task is let go of only once the quorum certified it, or Skip, where it was
\* driven (sequencer.rs:402-411).
THEOREM ReleasesByQuorum == Spec => []ReleasedByQuorum
<1>1. IInv => ReleasedByQuorum
  BY DEF IInv, Layer2
<1> QED
  BY <1>1, RouterInvariance, PTL

\* Only announced and certified tasks go on chain (submitter.rs:160-196).
THEOREM SubmitsCertified == Spec => []SubmitsOnlyCertified
<1>1. IInv => SubmitsOnlyCertified
  BY DEF IInv, Layer2
<1> QED
  BY <1>1, RouterInvariance, PTL

\* No height is announced above one that is not certified (sequencer.rs:340-376).
THEOREM OpensNoGap == Spec => []NoGapOpened
<1>1. IInv => NoGapOpened
  <2> SUFFICES ASSUME IInv, NEW a \in announced, NEW h \in 0 .. a[1] - 1
               PROVE  ledger[h] # None
    BY DEF NoGapOpened
  <2>1. PICK b \in Heights : b = a[1] /\ Complete(b)
    BY DEF IInv, Layer1, TypeOK, Layer3, Gapless
  <2>2. h \in Heights /\ h < b
    BY <2>1 DEF Heights
  <2> QED
    BY <2>1, <2>2 DEF Complete
<1> QED
  BY <1>1, RouterInvariance, PTL

\* Every forwarded certificate is in exactly one place (reporter.rs:210-228,
\* submitter.rs:153-248).
THEOREM ResolvesExactlyOnce == Spec => []ResolvedExactlyOnce
<1>1. IInv => ResolvedExactlyOnce
  <2> SUFFICES ASSUME IInv PROVE ResolvedExactlyOnce
    OBVIOUS
  <2> DEFINE W == HeightsOf(toSubmit)
             R == HeightsOf(resolutions)
  <2>1. /\ NoRepeats(toSubmit) /\ NoRepeats(resolutions)
        /\ Partition(forwarded, W, Submitting, R, consumed) /\ forwarded \subseteq Heights
    BY DEF IInv, Layer1, TypeOK, Layer4, Conserved
  <2>2. Submitting = IF executing = None THEN {} ELSE {executing.height}
    BY DEF Submitting
  <2>3. IsFiniteSet(Heights)
    BY FS_Interval DEF Heights
  <2> HIDE DEF W, R
  <2>4. /\ IsFiniteSet(W) /\ IsFiniteSet(Submitting) /\ IsFiniteSet(R)
        /\ IsFiniteSet(consumed)
    <3>1. W \subseteq Heights /\ Submitting \subseteq Heights /\ R \subseteq Heights
          /\ consumed \subseteq Heights
      BY <2>1 DEF Partition
    <3> QED
      BY <2>3, <3>1, FS_Subset
  <2>5. Cardinality(forwarded) = Cardinality(W) + Cardinality(Submitting)
                                   + Cardinality(R) + Cardinality(consumed)
    <3>1. IsFiniteSet(W \cup Submitting) /\
          Cardinality(W \cup Submitting) = Cardinality(W) + Cardinality(Submitting)
      BY <2>1, <2>4, DisjointSum DEF Partition
    <3>2. IsFiniteSet(R \cup consumed) /\
          Cardinality(R \cup consumed) = Cardinality(R) + Cardinality(consumed)
      BY <2>1, <2>4, DisjointSum DEF Partition
    <3>3. Cardinality((W \cup Submitting) \cup (R \cup consumed))
            = Cardinality(W \cup Submitting) + Cardinality(R \cup consumed)
      <4>1. (W \cup Submitting) \cap (R \cup consumed) = {}
        BY <2>1 DEF Partition
      <4> QED
        BY <3>1, <3>2, <4>1, DisjointSum
    <3>4. forwarded = (W \cup Submitting) \cup (R \cup consumed)
      BY <2>1 DEF Partition
    <3>5. /\ Cardinality(W) \in Nat /\ Cardinality(Submitting) \in Nat
          /\ Cardinality(R) \in Nat /\ Cardinality(consumed) \in Nat
      BY <2>4, FS_CardinalityType
    <3> QED
      BY <3>1, <3>2, <3>3, <3>4, <3>5
  <2> QED
    BY <2>1, <2>2, <2>5 DEF W, R, Partition, ResolvedExactlyOnce
<1> QED
  BY <1>1, RouterInvariance, PTL

\* Within a life heights are assigned in rising order, none of them resolved
\* before (sequencer.rs:366-376).
THEOREM AssignsFresh == Spec => AssignsFreshHeights
<1>1. IInv /\ [Next]_vars =>
        (pc = "tipKnown" /\ pc' = "driving" => height' > height /\ height' \notin consumed)
  <2> SUFFICES ASSUME IInv, [Next]_vars, pc = "tipKnown", pc' = "driving"
               PROVE  height' > height /\ height' \notin consumed
    OBVIOUS
  <2>1. Assign
    <3>1. ~(Reporter \/ Submitter \/ Network \/ UNCHANGED vars)
      BY DEF Reporter, HandleCertified, HandleTip, Propose, OnlyReporter, Submitter,
             ResolveSkip, ResolveForeign, BeginSubmission, AttemptSucceeds, AttemptFails,
             TakeCertificate, OnlySubmitter, Network, Certify, RaiseSafeTip, OnlyNetwork,
             Crash, sequencerVars, vars
    <3>2. Sequencer
      BY <3>1 DEF Next
    <3> QED
      BY <3>2
         DEF Sequencer, SettleReadTip, Start, SourceExhausted, NextTask, DrainResolutions,
             ReadTip, TaskResolved, ForeignResolved, OtherHeightResolved,
             ReceiveResolution, TickReadCertificate, TickCertified, TickSuperseded,
             TickRebroadcast
  <2>2. PICK h \in Heights : h = height' /\ nextHeight <= h
    BY <2>1, AssignHeight DEF IInv
  <2>3. /\ nextHeight \in Nat /\ h \in Nat /\ height \in Int /\ height < nextHeight
        /\ \A g \in consumed : g \in Nat /\ g < nextHeight
    BY HeightsNat DEF IInv, Layer1, Control, TypeOK
  <2>4. h > height /\ h \notin consumed
    BY <2>2, <2>3
  <2> QED
    BY <2>2, <2>4
<1>2. [][IInv /\ [Next]_vars]_vars => AssignsFreshHeights
  BY <1>1, PTL DEF AssignsFreshHeights
<1> QED
  BY <1>2, RouterInvariance, PTL DEF Spec
=============================================================================
