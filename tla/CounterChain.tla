---------------------------- MODULE CounterChain ----------------------------
(***************************************************************************)
(* The counter application's loop around the chain: the task source polls  *)
(* the contract's round (examples/counter/router/src/source.rs), the nodes *)
(* certify the round they see the contract at (common/src/validator.rs) or *)
(* skip the height, and the submission of the certificate (Submission.tla) *)
(* moves the contract to the next round.  Router.tla is the loop's inside; *)
(* here it is one driven round and what became of its height.              *)
(*                                                                         *)
(* External: the RPC endpoints the router and the nodes read, each up to   *)
(* Lag rounds behind; the quorum; a crash of the router.                   *)
(***************************************************************************)
EXTENDS Submission

CONSTANTS Quorums,        \* signer sequences of a certificate, in key order
          Lag,            \* how many rounds a read may be behind
          MaxDisruptions  \* bound: crashes and superseded heights

ASSUME CounterChainAssumption ==
    /\ Quorums \subseteq Seq(Keys)
    /\ Lag \in Nat /\ MaxDisruptions \in Nat

VARIABLES driving,      \* the round the sequencer drives
          phase,        \* what became of the driven height
          disruptions   \* history: crashes and superseded heights so far

loopVars == <<driving, phase, disruptions>>
counterVars == <<chainVars, cache, submissionVars, outcome, loopVars>>

CounterTypeOK ==
    /\ SubmissionTypeOK
    /\ driving \in Rounds
    /\ phase \in {"idle", "open", "certified", "executing"}
    /\ disruptions \in 0 .. MaxDisruptions

CounterInit ==
    /\ SubmissionInit
    /\ driving = 0 /\ phase = "idle" /\ disruptions = 0

\* What a read of Counter.number() may return.
Readable == {r \in Rounds : number - Lag <= r /\ r <= number}

Release == driving' = 0 /\ phase' = "idle"

\* CounterTaskSource::next_task.
Poll(r) ==
    /\ phase = "idle"
    /\ r \in Readable
    /\ driving' = r /\ phase' = "open"
    /\ UNCHANGED <<chainVars, cache, submissionVars, outcome, disruptions>>

\* Enough nodes read the round the task carries, each from its own endpoint.
CertifyTask ==
    /\ phase = "open"
    /\ driving \in Readable
    /\ phase' = "certified"
    /\ UNCHANGED <<chainVars, cache, submissionVars, outcome, driving, disruptions>>

\* Mutant of SkipHeight: the skipped round is driven again.
KeepSkipped ==
    /\ phase = "open"
    /\ stage = "idle"
    /\ UNCHANGED counterVars

\* The nodes skip the height, and the submitter hands the skip on.
SkipHeight ==
    /\ phase = "open"
    /\ stage = "idle"
    /\ Release
    /\ UNCHANGED <<chainVars, cache, submissionVars, outcome, disruptions>>

TakeTask(quorum) ==
    /\ phase = "certified"
    /\ BeginSubmission(driving, quorum)
    /\ phase' = "executing"
    /\ UNCHANGED <<driving, disruptions>>

SubmissionGoesOn ==
    /\ GoesOn
    /\ UNCHANGED loopVars

\* The outcome releases the height, unless it was superseded meanwhile.
SubmissionEnds ==
    /\ Completes
    /\ IF phase = "executing" THEN Release ELSE UNCHANGED <<driving, phase>>
    /\ UNCHANGED disruptions

\* The safe tip passed the height: its task is driven at the next one, and a
\* certificate nobody took yet is foreign.
Supersede ==
    /\ phase # "idle"
    /\ disruptions < MaxDisruptions
    /\ disruptions' = disruptions + 1
    /\ phase' = "open"
    /\ UNCHANGED <<chainVars, cache, submissionVars, outcome, driving>>

\* The transaction that was waited for stays in the mempool.
CrashRouter ==
    /\ disruptions < MaxDisruptions
    /\ disruptions' = disruptions + 1
    /\ orphans' = IF receipt = "pending" THEN orphans \cup {round} ELSE orphans
    /\ cache' = [k \in Keys |-> NoAddress]
    /\ stage' = "idle" /\ round' = 0 /\ attempt' = 1
    /\ signers' = <<>> /\ operators' = <<>> /\ receipt' = "none"
    /\ outcome' = NoOutcome
    /\ Release
    /\ UNCHANGED number

CounterNext ==
    \/ \E r \in Rounds : Poll(r)
    \/ CertifyTask \/ SkipHeight
    \/ \E quorum \in Quorums : TakeTask(quorum)
    \/ SubmissionGoesOn \/ SubmissionEnds
    \/ Chain /\ UNCHANGED loopVars
    \/ Supersede \/ CrashRouter

CounterSpec == CounterInit /\ [][CounterNext]_counterVars

\* The processes keep running, and the outside world is not against them for
\* ever: reads are fresh again and again, a quorum that sees the round signs it,
\* RPC calls get through, and a transaction that is waited for lands.
Fresh == round = number
CounterFairness ==
    /\ WF_counterVars(SubmissionGoesOn \/ SubmissionEnds \/ SkipHeight)
    /\ WF_counterVars(\E quorum \in Quorums : TakeTask(quorum))
    /\ SF_counterVars(\E r \in Rounds : r = number /\ Poll(r))
    /\ SF_counterVars(driving = number /\ CertifyTask)
    /\ SF_counterVars(Fresh /\ ReadBlock /\ UNCHANGED loopVars)
    /\ SF_counterVars(Fresh /\ LookUp /\ UNCHANGED loopVars)
    /\ SF_counterVars(Fresh /\ ReadStakes /\ UNCHANGED loopVars)
    /\ SF_counterVars(Fresh /\ SendTransaction /\ UNCHANGED loopVars)
    /\ SF_counterVars(Fresh /\ LandAwaited /\ UNCHANGED loopVars)

CounterFairSpec == CounterSpec /\ CounterFairness

-----------------------------------------------------------------------------
(* Properties.                                                             *)

\* The address read for a signer stands at that signer's slot when the stakes
\* are read, and the cache never holds another's, whichever lookups failed
\* before and were made again (submitter.rs:308-346).
OperatorsAligned ==
    /\ \A k \in Keys : cache[k] \in {NoAddress, Address(k)}
    /\ stage \in {"stakes", "send", "sent"} =>
         /\ Len(operators) = Len(signers)
         /\ \A i \in 1 .. Len(signers) : operators[i] = Address(signers[i])

\* A height is reported as executed with success only if its round is counted,
\* although the round was read before the height certified and earlier attempts
\* may have left transactions for it behind (source.rs:52-61, executor.rs:71-90).
SuccessMeansCounted == outcome.success => number > outcome.round

\* Seen from outside a submission is one promise: success for a counted round,
\* failure for one the contract refused or after MAX_RETRIES + 1 attempts, and
\* no transaction but those of the rounds handed to it, whatever failed inside,
\* crashed or was superseded (submitter.rs:201-247, executor.rs:71-90).
executing ==
    IF stage = "idle" THEN [round |-> 0, attempt |-> 0]
    ELSE [round |-> round, attempt |-> attempt]
mempool == IF receipt = "pending" THEN orphans \cup {round} ELSE orphans
Promise == INSTANCE Execution
ImplementsExecution == Promise!Spec

\* "Self-healing" polling (source.rs:3-7): through stale reads, skips, failed
\* submissions, superseded heights and crashes the counter moves on.
Progress == \A n \in 0 .. LastRound - 1 : number = n ~> number > n
=============================================================================
