----------------------------- MODULE Execution ------------------------------
(***************************************************************************)
(* What the submitter promises of a certified height, whatever an attempt  *)
(* consists of: it reports success only when the contract has counted the  *)
(* round, and failure only when the contract refused it because its number *)
(* is another, or after MAX_RETRIES + 1 attempts.  No reference blocks, no *)
(* operators, no receipts.  Submission.tla, in the loop of                 *)
(* CounterChain.tla, is shown to implement it.                             *)
(***************************************************************************)
EXTENDS Integers

CONSTANTS MaxRetries, LastRound

VARIABLES number,     \* external: the contract's round
          mempool,    \* external: rounds of transactions that may still land
          executing,  \* the round on its way and the attempt at it
          outcome     \* the last Executed{success}, and for which round

vars == <<number, mempool, executing, outcome>>

Idle == [round |-> 0, attempt |-> 0]
NoOutcome == [round |-> 0, success |-> FALSE]

Init ==
    /\ number = 0 /\ mempool = {}
    /\ executing = Idle /\ outcome = NoOutcome

\* A height certified for a round the contract has reached.
Begin(r) ==
    /\ executing = Idle
    /\ r <= number
    /\ executing' = [round |-> r, attempt |-> 1]
    /\ UNCHANGED <<number, mempool, outcome>>

Send ==
    /\ executing # Idle
    /\ mempool' = mempool \cup {executing.round}
    /\ UNCHANGED <<number, executing, outcome>>

Report(success) ==
    /\ outcome' = [round |-> executing.round, success |-> success]
    /\ executing' = Idle

Succeed ==
    /\ executing # Idle
    /\ number > executing.round
    /\ Report(TRUE)
    /\ UNCHANGED <<number, mempool>>

\* The contract counted the round for another transaction (or is at the bound).
Revert ==
    /\ executing # Idle
    /\ number > executing.round \/ number = LastRound
    /\ Report(FALSE)
    /\ UNCHANGED <<number, mempool>>

\* An attempt fails, with its transaction sent or not.
Fail ==
    /\ executing # Idle
    /\ mempool' \in {mempool, mempool \cup {executing.round}}
    /\ IF executing.attempt <= MaxRetries
       THEN /\ executing' = [executing EXCEPT !.attempt = @ + 1]
            /\ UNCHANGED outcome
       ELSE Report(FALSE)
    /\ UNCHANGED number

\* A transaction lands; another for the same round may still be under way.
Land(r) ==
    /\ r \in mempool
    /\ mempool' \in {mempool, mempool \ {r}}
    /\ number' = IF r = number /\ number < LastRound THEN number + 1 ELSE number
    /\ UNCHANGED <<executing, outcome>>

\* The process forgets, the mempool does not.
Crash ==
    /\ executing' = Idle /\ outcome' = NoOutcome
    /\ UNCHANGED <<number, mempool>>

Next ==
    \/ \E r \in 0 .. LastRound : Begin(r) \/ Land(r)
    \/ Send \/ Succeed \/ Revert \/ Fail \/ Crash

Spec == Init /\ [][Next]_vars
=============================================================================
