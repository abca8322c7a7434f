------------------------------- MODULE Router -------------------------------
(***************************************************************************)
(* The router process: the Sequencer that assigns heights to tasks and     *)
(* drives each one (router/src/sequencer.rs), the CertReporter that takes  *)
(* certificates and tips from the aggregation engine                       *)
(* (router/src/reporter.rs), the automaton that answers that engine's      *)
(* proposals (router/src/automaton.rs) and the Submitter that puts         *)
(* certified tasks on chain (router/src/submitter.rs), with the two        *)
(* unbounded channels between them and the shared assignment map.          *)
(*                                                                         *)
(* The three actors are concurrent.  A sequencer step that awaits the      *)
(* reporter is split at the await: the answer is read in one step and used *)
(* in a later one.  The reporter's own mailbox only delays reports nobody  *)
(* else sees, so a report is one step.                                     *)
(*                                                                         *)
(* External, and as adversarial as the code allows: the operators, which   *)
(* certify heights; the router's verifier-only engine, which reports what  *)
(* it saw of that, once or more; the nodes' tip reports; a crash.          *)
(* A task stands for its digest; Skip for skip_digest at its height.       *)
(***************************************************************************)
EXTENDS Integers, Sequences, FiniteSetsExt

CONSTANTS MaxHeight,        \* bound: heights are 0 .. MaxHeight
          Tasks,            \* tasks the source can hand out
          LeftoverHeights,  \* heights an earlier router life announced
          PruneSlack,       \* PRUNE_SLACK
          ActivityTimeout,  \* engine: how far below its tip it still certifies
          Window,           \* engine: how far above its tip it certifies
          MaxRetries,       \* MAX_RETRIES
          MaxLives,         \* bound: crashes + 1
          None, Skip

Heights == 0 .. MaxHeight
Tips == 0 .. MaxHeight + 1
Digests == Tasks \cup {Skip}
Kinds == {"executed", "skipped", "foreign"}
Certs == [height : Heights, digest : Digests]
Resolutions == [height : Heights, kind : Kinds]
Submissions == [height : Heights, task : Tasks, attempt : 1 .. MaxRetries + 1]

\* Heights count from the lowest one not certified; an earlier router life has
\* announced no higher one, as NoGapOpened says of every life.
ASSUME RouterAssumption ==
    /\ MaxHeight \in Nat /\ LeftoverHeights \subseteq {0}
    /\ ActivityTimeout \in Nat /\ Window \in Nat
    /\ PruneSlack \in Nat /\ PruneSlack >= ActivityTimeout + Window
    /\ MaxRetries \in Nat /\ MaxLives \in Nat \ {0}
    /\ Skip \notin Tasks /\ None \notin Digests \cup Submissions

VARIABLES
    \* The sequencer: where `run` and `drive_height` are, and their locals
    \* (height is the last one assigned, -1 before the first).
    pc, nextHeight, height, task, skipping, latched, reply,
    \* Shared with the submitter and the automaton: height -> expected digest.
    assignments,
    \* The reporter: certified digests kept per height, and the tip.
    certified, tip,
    \* The submitter: its input channel, the submission it is making, and the
    \* channel of dispositions to the sequencer.
    toSubmit, executing, resolutions,
    \* External: certificates formed, the router engine's tip, the digests its
    \* automaton answered it with, the safe tip.
    ledger, engineTip, expected, safeTip,
    \* History: announcements broadcast and submissions made in any life;
    \* heights forwarded, and dispositions consumed, in this life.
    announced, submitted, forwarded, consumed, released, life

sequencerVars == <<pc, nextHeight, height, task, skipping, latched, reply>>
reporterVars == <<certified, tip, forwarded>>
submitterVars == <<executing, submitted>>
networkVars == <<ledger, engineTip, expected, safeTip>>
vars == <<sequencerVars, assignments, reporterVars, toSubmit, submitterVars,
          resolutions, networkVars, announced, consumed, released, life>>

Larger(a, b) == IF a > b THEN a ELSE b
SaturatingSub(a, b) == IF a > b THEN a - b ELSE 0

\* Every height below an honest operator's tip was certified.
Frontier == CHOOSE t \in Tips : /\ \A h \in 0 .. t - 1 : ledger[h] # None
                                /\ t \in Heights => ledger[t] = None

Driving == pc \in {"driving", "gotReply"}

TypeOK ==
    /\ pc \in {"settling", "starting", "idle", "pending", "drained", "tipKnown",
               "driving", "gotReply", "stopped"}
    /\ nextHeight \in 0 .. MaxHeight + 1
    /\ height \in Heights \cup {-1} /\ task \in Tasks \cup {None}
    /\ skipping \in BOOLEAN /\ latched \in BOOLEAN
    /\ reply \in Tips \cup Digests \cup {None}
    /\ assignments \in [Heights -> Tasks \cup {None}]
    /\ certified \in [Heights -> Digests \cup {None}] /\ tip \in Tips
    /\ toSubmit \in Seq(Certs)
    /\ executing \in Submissions \cup {None}
    /\ resolutions \in Seq(Resolutions)
    /\ ledger \in [Heights -> Digests \cup {None}]
    /\ engineTip \in Tips /\ safeTip \in Tips
    /\ expected \in [Heights -> Tasks \cup {None}]
    /\ announced \subseteq Heights \X Tasks
    /\ submitted \subseteq Heights \X Tasks
    /\ forwarded \subseteq Heights /\ consumed \subseteq Heights
    /\ released \subseteq [height : Heights, task : Tasks, kind : {"executed", "skipped"}]
    /\ life \in 1 .. MaxLives

Init ==
    /\ pc = "settling" /\ nextHeight = 0 /\ height = -1 /\ task = None
    /\ skipping = FALSE /\ latched = FALSE /\ reply = None
    /\ assignments = [h \in Heights |-> None]
    /\ certified = [h \in Heights |-> None] /\ tip = 0
    /\ toSubmit = <<>> /\ executing = None /\ resolutions = <<>>
    /\ safeTip = 0 /\ forwarded = {} /\ consumed = {} /\ released = {}
    /\ ledger = [h \in Heights |-> None] /\ engineTip = 0
    /\ expected = [h \in Heights |-> None]
    /\ announced = {} /\ submitted = {} /\ life = 1

-----------------------------------------------------------------------------
(* Sequencer::run                                                          *)

OnlySequencer ==
    UNCHANGED <<reporterVars, toSubmit, submitterVars, networkVars, life>>

\* After SETTLE_DELAY the first height comes from the tips; the replay into
\* the reporter may or may not be over by then.
SettleReadTip ==
    /\ pc = "settling"
    /\ reply' = tip
    /\ pc' = "starting"
    /\ UNCHANGED <<nextHeight, height, task, skipping, latched>>
    /\ UNCHANGED <<assignments, resolutions, announced, consumed, released>>
    /\ OnlySequencer

Start ==
    /\ pc = "starting"
    /\ nextHeight' = Larger(reply, safeTip)
    /\ reply' = None
    /\ pc' = "idle"
    /\ UNCHANGED <<height, task, skipping, latched>>
    /\ UNCHANGED <<assignments, resolutions, announced, consumed, released>>
    /\ OnlySequencer

\* The outer loop's drain is repeated by the inner one before next_height is
\* read, so it is not a step of its own.
NextTask(t) ==
    /\ pc = "idle"
    /\ task' = t
    /\ pc' = "pending"
    /\ UNCHANGED <<nextHeight, height, skipping, latched, reply>>
    /\ UNCHANGED <<assignments, resolutions, announced, consumed, released>>
    /\ OnlySequencer

SourceExhausted ==
    /\ pc = "idle"
    /\ pc' = "stopped"
    /\ UNCHANGED <<nextHeight, height, task, skipping, latched, reply>>
    /\ UNCHANGED <<assignments, resolutions, announced, consumed, released>>
    /\ OnlySequencer

HeightsOf(seq) == {seq[i].height : i \in 1 .. Len(seq)}

DrainResolutions ==
    /\ pc = "pending"
    /\ nextHeight' = Max({nextHeight} \cup {h + 1 : h \in HeightsOf(resolutions)})
    /\ consumed' = consumed \cup HeightsOf(resolutions)
    /\ resolutions' = <<>>
    /\ pc' = "drained"
    /\ UNCHANGED <<height, task, skipping, latched, reply>>
    /\ UNCHANGED <<assignments, announced, released>>
    /\ OnlySequencer

ReadTip ==
    /\ pc = "drained"
    /\ reply' = tip
    /\ pc' = "tipKnown"
    /\ UNCHANGED <<nextHeight, height, task, skipping, latched>>
    /\ UNCHANGED <<assignments, resolutions, announced, consumed, released>>
    /\ OnlySequencer

\* Mutant of Assign: the height comes from the reporter's tip alone.
AssignAtTip ==
    /\ pc = "tipKnown"
    /\ reply \in Heights
    /\ height' = reply
    /\ nextHeight' = reply + 1
    /\ assignments' = [assignments EXCEPT ![reply] = task]
    /\ announced' = announced \cup {<<reply, task>>}
    /\ skipping' = FALSE /\ latched' = FALSE /\ reply' = None
    /\ pc' = "driving"
    /\ UNCHANGED <<task, resolutions, consumed, released>>
    /\ OnlySequencer

\* Assign the height, publish the assignment and broadcast Announce.
Assign ==
    /\ pc = "tipKnown"
    /\ LET h == Larger(nextHeight, Larger(reply, safeTip))
       IN  /\ h \in Heights
           /\ height' = h
           /\ nextHeight' = h + 1
           /\ assignments' = [assignments EXCEPT ![h] = task]
           /\ announced' = announced \cup {<<h, task>>}
    /\ skipping' = FALSE
    /\ latched' = FALSE
    /\ reply' = None
    /\ pc' = "driving"
    /\ UNCHANGED <<task, resolutions, consumed, released>>
    /\ OnlySequencer

-----------------------------------------------------------------------------
(* Sequencer::drive_height                                                 *)

ReceiveResolution ==
    /\ pc = "driving"
    /\ resolutions # <<>>
    /\ resolutions' = Tail(resolutions)
    /\ consumed' = consumed \cup {Head(resolutions).height}
    /\ UNCHANGED <<height, skipping, latched, reply, announced>>
    /\ OnlySequencer

\* Mutant of TaskResolved: any height's resolution ends the driven one.
AnyResolved ==
    /\ ReceiveResolution
    /\ LET kind == Head(resolutions).kind
       IN  /\ kind \in {"executed", "skipped"}
           /\ released' = released \cup {[height |-> height, task |-> task, kind |-> kind]}
    /\ assignments' = [assignments EXCEPT ![height] = None]
    /\ task' = None
    /\ pc' = "idle"
    /\ UNCHANGED nextHeight

\* Executed or Skipped: the task is consumed.
TaskResolved ==
    /\ ReceiveResolution
    /\ LET r == Head(resolutions)
       IN  /\ r.height = height
           /\ r.kind \in {"executed", "skipped"}
           /\ released' = released \cup {[height |-> height, task |-> task, kind |-> r.kind]}
    /\ assignments' = [assignments EXCEPT ![height] = None]
    /\ task' = None
    /\ pc' = "idle"
    /\ UNCHANGED nextHeight

\* Foreign: the height is consumed, the task is assigned again.
ForeignResolved ==
    /\ ReceiveResolution
    /\ Head(resolutions).height = height
    /\ Head(resolutions).kind = "foreign"
    /\ assignments' = [assignments EXCEPT ![height] = None]
    /\ pc' = "pending"
    /\ UNCHANGED <<task, nextHeight, released>>

OtherHeightResolved ==
    /\ ReceiveResolution
    /\ Head(resolutions).height # height
    /\ nextHeight' = Larger(nextHeight, Head(resolutions).height + 1)
    /\ UNCHANGED <<task, assignments, released, pc>>

\* A rebroadcast tick asks the reporter for the height's certificate ...
TickReadCertificate ==
    /\ pc = "driving"
    /\ ~latched
    /\ reply' = certified[height]
    /\ pc' = "gotReply"
    /\ UNCHANGED <<nextHeight, height, task, skipping, latched>>
    /\ UNCHANGED <<assignments, resolutions, announced, consumed, released>>
    /\ OnlySequencer

\* ... and resumes with the answer it got then.
TickCertified ==
    /\ pc = "gotReply"
    /\ reply # None
    /\ latched' = TRUE
    /\ reply' = None
    /\ pc' = "driving"
    /\ UNCHANGED <<nextHeight, height, task, skipping>>
    /\ UNCHANGED <<assignments, resolutions, announced, consumed, released>>
    /\ OnlySequencer

\* Mutant of TickSuperseded: superseded by a safe tip at the height itself.
TickSupersededAt ==
    /\ pc = "gotReply"
    /\ reply = None
    /\ safeTip >= height
    /\ assignments' = [assignments EXCEPT ![height] = None]
    /\ pc' = "pending"
    /\ UNCHANGED <<nextHeight, height, task, skipping, latched, reply>>
    /\ UNCHANGED <<resolutions, announced, consumed, released>>
    /\ OnlySequencer

TickSuperseded ==
    /\ pc = "gotReply"
    /\ reply = None
    /\ safeTip > height
    /\ assignments' = [assignments EXCEPT ![height] = None]
    /\ pc' = "pending"
    /\ UNCHANGED <<nextHeight, height, task, skipping, latched, reply>>
    /\ UNCHANGED <<resolutions, announced, consumed, released>>
    /\ OnlySequencer

\* Rebroadcast; past the deadline (any moment) Skip takes over for good.
TickRebroadcast ==
    /\ pc = "gotReply"
    /\ reply = None
    /\ ~(safeTip > height)
    /\ skipping' \in {skipping, TRUE}
    /\ pc' = "driving"
    /\ UNCHANGED <<nextHeight, height, task, latched, reply>>
    /\ UNCHANGED <<assignments, resolutions, announced, consumed, released>>
    /\ OnlySequencer

Sequencer ==
    \/ SettleReadTip \/ Start \/ SourceExhausted
    \/ \E t \in Tasks : NextTask(t)
    \/ DrainResolutions \/ ReadTip \/ Assign
    \/ TaskResolved \/ ForeignResolved \/ OtherHeightResolved
    \/ TickReadCertificate \/ TickCertified \/ TickSuperseded \/ TickRebroadcast

-----------------------------------------------------------------------------
(* CertReporter: what the engine reports.                                  *)

OnlyReporter ==
    UNCHANGED <<sequencerVars, assignments, submitterVars, resolutions, ledger,
                safeTip, announced, consumed, released, life>>

\* advance_tip: monotone, dropping what is below the new tip's slack.
AdvanceTip(log, t) ==
    IF t <= tip
    THEN certified' = log /\ tip' = tip
    ELSE /\ tip' = t
         /\ certified' = [h \in Heights |->
                            IF h < SaturatingSub(t, PruneSlack) THEN None ELSE log[h]]

\* The engine may report a certificate it reported before.
DuplicateCertified(h) ==
    /\ certified[h] # None
    /\ UNCHANGED <<certified, tip, forwarded, toSubmit>>

\* Mutant of FirstCertified: no dedupe, every report is forwarded.
EveryCertified(h) ==
    /\ AdvanceTip([certified EXCEPT ![h] = ledger[h]], h + 1)
    /\ toSubmit' = Append(toSubmit, [height |-> h, digest |-> ledger[h]])
    /\ forwarded' = forwarded \cup {h}

FirstCertified(h) ==
    /\ certified[h] = None
    /\ AdvanceTip([certified EXCEPT ![h] = ledger[h]], h + 1)
    /\ toSubmit' = Append(toSubmit, [height |-> h, digest |-> ledger[h]])
    /\ forwarded' = forwarded \cup {h}

HandleCertified(h) ==
    /\ ledger[h] # None
    /\ h >= engineTip - ActivityTimeout
    /\ h < engineTip + Window
    /\ expected[h] \in {None, ledger[h]}
    /\ DuplicateCertified(h) \/ FirstCertified(h)
    /\ UNCHANGED <<engineTip, expected>>
    /\ OnlyReporter

HandleTip(t) ==
    /\ t > engineTip /\ t <= Frontier
    /\ engineTip' = t
    /\ AdvanceTip(certified, t)
    /\ UNCHANGED <<toSubmit, forwarded, expected>>
    /\ OnlyReporter

\* RouterAutomaton::propose, asked once for each height of the window: with the
\* assigned digest the engine drops acks for any other; a dropped sender, the
\* usual answer, changes nothing.
Propose(h) ==
    /\ h >= engineTip /\ h < engineTip + Window
    /\ expected[h] = None
    /\ assignments[h] # None
    /\ expected' = [expected EXCEPT ![h] = assignments[h]]
    /\ UNCHANGED <<reporterVars, toSubmit, engineTip>>
    /\ OnlyReporter

Reporter ==
    \/ \E h \in Heights : HandleCertified(h) \/ Propose(h)
    \/ \E t \in Tips : HandleTip(t)

-----------------------------------------------------------------------------
(* Submitter                                                               *)

OnlySubmitter ==
    UNCHANGED <<sequencerVars, assignments, reporterVars, networkVars, announced,
                consumed, released, life>>

Notify(h, kind) ==
    resolutions' = Append(resolutions, [height |-> h, kind |-> kind])

TakeCertificate ==
    /\ executing = None
    /\ toSubmit # <<>>
    /\ toSubmit' = Tail(toSubmit)
    /\ UNCHANGED submitted
    /\ OnlySubmitter

\* Mutant of ResolveSkip: nothing to submit, so nobody is told.
DropSkip ==
    /\ TakeCertificate
    /\ Head(toSubmit).digest = Skip
    /\ UNCHANGED <<executing, resolutions>>

ResolveSkip ==
    /\ TakeCertificate
    /\ Head(toSubmit).digest = Skip
    /\ Notify(Head(toSubmit).height, "skipped")
    /\ UNCHANGED executing

\* No assignment, or a digest other than the assigned one.
ResolveForeign ==
    /\ TakeCertificate
    /\ Head(toSubmit).digest # Skip
    /\ assignments[Head(toSubmit).height] # Head(toSubmit).digest
    /\ Notify(Head(toSubmit).height, "foreign")
    /\ UNCHANGED executing

\* Mutant of BeginSubmission: the certified digest is not compared.
BeginUncompared ==
    /\ TakeCertificate
    /\ LET c == Head(toSubmit)
       IN  /\ c.digest # Skip
           /\ assignments[c.height] # None
           /\ executing' = [height |-> c.height, task |-> assignments[c.height],
                            attempt |-> 1]
    /\ UNCHANGED resolutions

\* The assignment is cloned here and used until the submission ends.
BeginSubmission ==
    /\ TakeCertificate
    /\ LET c == Head(toSubmit)
       IN  /\ c.digest # Skip
           /\ assignments[c.height] = c.digest
           /\ executing' = [height |-> c.height, task |-> c.digest, attempt |-> 1]
    /\ UNCHANGED resolutions

AttemptSucceeds ==
    /\ executing # None
    /\ submitted' = submitted \cup {<<executing.height, executing.task>>}
    /\ Notify(executing.height, "executed")
    /\ executing' = None
    /\ UNCHANGED toSubmit
    /\ OnlySubmitter

\* Mutant of AttemptFails: one retry too many.
AttemptFailsOnceMore ==
    /\ executing # None
    /\ executing' = [executing EXCEPT !.attempt = @ + 1]
    /\ UNCHANGED <<submitted, resolutions, toSubmit>>
    /\ OnlySubmitter

\* An error after the transaction was sent leaves it on chain all the same.
AttemptFails ==
    /\ executing # None
    /\ submitted' \in {submitted, submitted \cup {<<executing.height, executing.task>>}}
    /\ IF executing.attempt <= MaxRetries
       THEN /\ executing' = [executing EXCEPT !.attempt = @ + 1]
            /\ UNCHANGED resolutions
       ELSE /\ executing' = None
            /\ Notify(executing.height, "executed")
    /\ UNCHANGED toSubmit
    /\ OnlySubmitter

Submitter ==
    \/ ResolveSkip \/ ResolveForeign \/ BeginSubmission
    \/ AttemptSucceeds \/ AttemptFails

-----------------------------------------------------------------------------
(* External                                                                *)

OnlyNetwork ==
    UNCHANGED <<sequencerVars, assignments, reporterVars, toSubmit, submitterVars,
                resolutions, engineTip, expected, announced, consumed, released, life>>

\* The operators certify a task announced at the height, or Skip once a
\* directive for that height or a higher one is out.
Certify(h, d) ==
    /\ ledger[h] = None
    /\ \/ h \in LeftoverHeights
       \/ <<h, d>> \in announced
       \/ d = Skip /\ \E a \in announced : a[1] >= h
    /\ ledger' = [ledger EXCEPT ![h] = d]
    /\ UNCHANGED safeTip
    /\ OnlyNetwork

\* f + 1 operators have reported a tip of at least t (TipReports.tla); a node's
\* tip is its engine's, or the highest height it has seen certified.
RaiseSafeTip(t) ==
    /\ t > safeTip
    /\ t <= Frontier \/ (t \in Heights /\ ledger[t] # None)
    /\ safeTip' = t
    /\ UNCHANGED ledger
    /\ OnlyNetwork

\* The process dies; the engine replays some, all or none of its journal.
Crash ==
    /\ life < MaxLives
    /\ life' = life + 1
    /\ pc' = "settling" /\ nextHeight' = 0 /\ height' = -1 /\ task' = None
    /\ skipping' = FALSE /\ latched' = FALSE /\ reply' = None
    /\ assignments' = [h \in Heights |-> None]
    /\ certified' = [h \in Heights |-> None] /\ tip' = 0
    /\ toSubmit' = <<>> /\ executing' = None /\ resolutions' = <<>>
    /\ safeTip' = 0 /\ forwarded' = {} /\ consumed' = {} /\ released' = {}
    /\ engineTip' \in 0 .. engineTip
    /\ expected' = [h \in Heights |-> None]
    /\ UNCHANGED <<ledger, announced, submitted>>

Network ==
    \/ \E h \in Heights, d \in Digests : Certify(h, d)
    \/ \E t \in Tips : RaiseSafeTip(t)
    \/ Crash

Next == Sequencer \/ Reporter \/ Submitter \/ Network

Spec == Init /\ [][Next]_vars

\* The three actors keep running: each await of the sequencer ends, the select
\* of drive_height does not ignore a waiting resolution for ever, and the
\* submitter works its queue off.  Up to the driven height the operators keep
\* certifying, the router's engine reports what it may and follows their tips,
\* and they answer a directive below their tip with a tip report.
FairProcess ==
    /\ WF_vars(SettleReadTip) /\ WF_vars(Start)
    /\ WF_vars(DrainResolutions) /\ WF_vars(ReadTip) /\ WF_vars(Assign)
    /\ SF_vars(TaskResolved \/ ForeignResolved \/ OtherHeightResolved)
    /\ WF_vars(TickReadCertificate)
    /\ WF_vars(TickCertified \/ TickSuperseded \/ TickRebroadcast)
    /\ WF_vars(Submitter)
FairNetwork ==
    /\ \A h \in Heights : WF_vars(h <= height /\ \E d \in Digests : Certify(h, d))
    /\ \A h \in Heights : WF_vars(HandleCertified(h))
    /\ WF_vars(\E t \in Tips : HandleTip(t))
    /\ WF_vars(Driving /\ \E t \in Tips : RaiseSafeTip(t))

FairSpec == Spec /\ FairProcess /\ FairNetwork

-----------------------------------------------------------------------------
(* Properties.                                                             *)

NoRepeats(seq) == \A i, j \in 1 .. Len(seq) : seq[i].height = seq[j].height => i = j

\* Every certificate the reporter forwards is resolved exactly once: it waits
\* for the submitter, is being submitted, waits for the sequencer, or has been
\* consumed, whatever the engine re-reports (reporter.rs:210-228,
\* submitter.rs:153-248).
ResolvedExactlyOnce ==
    LET submitting == IF executing = None THEN {} ELSE {executing.height}
        waiting == HeightsOf(toSubmit)
        resolved == HeightsOf(resolutions)
    IN  /\ NoRepeats(toSubmit) /\ NoRepeats(resolutions)
        /\ forwarded = waiting \cup submitting \cup resolved \cup consumed
        /\ Cardinality(forwarded) = Cardinality(waiting) + Cardinality(submitting)
                                      + Cardinality(resolved) + Cardinality(consumed)

\* The sequencer lets go of a task only once the quorum certified that very
\* task, or Skip, at the height the task was driven at (sequencer.rs:402-411).
ReleasedByQuorum ==
    \A r \in released :
        ledger[r.height] = IF r.kind = "executed" THEN r.task ELSE Skip

\* Only a task this router announced at a height, and the quorum certified
\* there, goes on chain; never another router life's leftover or a skip
\* (submitter.rs:160-196).
SubmitsOnlyCertified ==
    \A s \in submitted : s \in announced /\ ledger[s[1]] = s[2]

\* The router opens no gap: a height is announced only when every height below
\* it is certified, in whatever router life, so certificates form in height
\* order although reporter tip, safe tip and resolutions each push next_height
\* (sequencer.rs:340-376, reporter.rs:246).
NoGapOpened ==
    \A a \in announced : \A h \in 0 .. a[1] - 1 : ledger[h] # None

\* Within a process life assigned heights only rise, and none of them was
\* already resolved to the sequencer (sequencer.rs:366-376).
AssignsFreshHeights ==
    [][pc = "tipKnown" /\ pc' = "driving" =>
            height' > height /\ height' \notin consumed]_vars

\* "Exactly one outstanding height at a time" (sequencer.rs:7-11): while the
\* submitter executes a height, that height is the one being driven.
OneOutstanding ==
    executing # None => Driving /\ executing.height = height

\* A driven height is let go of in the end (sequencer.rs:12).
DrivenHeightEnds == \A h \in Heights : (Driving /\ height = h) ~> ~(Driving /\ height = h)
=============================================================================
