----------------------------- MODULE Submission -----------------------------
(***************************************************************************)
(* One certified height on its way on chain (router/src/submitter.rs,      *)
(* `submit` under handle_certified's retry loop, and the counter's         *)
(* handler): fix a reference block, resolve every signer's operator        *)
(* address through the cache, read the stakes, send the transaction, wait  *)
(* for its receipt.  Every RPC call may fail; the failed attempt leaves    *)
(* behind what it cached and the transaction it sent.                      *)
(*                                                                         *)
(* External: the chain answers a lookup with the operator's address (the   *)
(* reference block is never one from before the router read its operator   *)
(* set), and lands a transaction at any later time; the contract accepts   *)
(* one only for its current round.                                         *)
(***************************************************************************)
EXTENDS Integers, Sequences, FiniteSets

CONSTANTS Keys,         \* participants, by index
          MaxRetries,   \* MAX_RETRIES
          LastRound     \* bound: the contract's number is 0 .. LastRound

Rounds == 0 .. LastRound
NoAddress == <<>>
NoOutcome == [round |-> 0, success |-> FALSE]
Address(key) == <<"operator", key>>      \* external: pubkeyHashToOperator

ASSUME SubmissionAssumption ==
    /\ Keys \subseteq Nat /\ IsFiniteSet(Keys)
    /\ MaxRetries \in Nat /\ LastRound \in Nat

VARIABLES
    number,       \* external: the contract's round
    orphans,      \* external: rounds of transactions nobody waits for
    cache,        \* operator_cache
    stage,        \* where `submit` is
    round, signers, attempt,    \* handle_certified's and submit's locals:
    operators,                  \* the addresses by slot,
    receipt,                    \* the transaction's fate
    outcome       \* the last Executed{success}, and for which round

submissionVars == <<stage, round, signers, attempt, operators, receipt>>
chainVars == <<number, orphans>>

Addresses == {Address(k) : k \in Keys} \cup {NoAddress}

SubmissionTypeOK ==
    /\ number \in Rounds /\ orphans \subseteq Rounds
    /\ cache \in [Keys -> Addresses]
    /\ stage \in {"idle", "begin", "resolving", "stakes", "send", "sent"}
    /\ round \in Rounds /\ attempt \in 1 .. MaxRetries + 1
    /\ signers \in Seq(Keys) /\ operators \in Seq(Addresses)
    /\ receipt \in {"none", "pending", "success", "reverted"}
    /\ outcome \in [round : Rounds, success : BOOLEAN] 

SubmissionInit ==
    /\ number = 0 /\ orphans = {}
    /\ cache = [k \in Keys |-> NoAddress]
    /\ stage = "idle" /\ round = 0 /\ attempt = 1
    /\ signers = <<>> /\ operators = <<>> /\ receipt = "none"
    /\ outcome = NoOutcome

-----------------------------------------------------------------------------
(* The submitter                                                           *)

BeginSubmission(r, quorum) ==
    /\ stage = "idle"
    /\ stage' = "begin"
    /\ round' = r /\ signers' = quorum /\ attempt' = 1
    /\ operators' = <<>> /\ receipt' = "none"
    /\ UNCHANGED <<chainVars, cache, outcome>>

Finish(success) ==
    /\ outcome' = [round |-> round, success |-> success]
    /\ stage' = "idle" /\ attempt' = 1
    /\ round' = 0 /\ signers' = <<>> /\ operators' = <<>> /\ receipt' = "none"

\* Mutant of AttemptFails: one retry too many.
OneMoreAttempt ==
    IF attempt <= MaxRetries + 1
    THEN /\ attempt' = attempt + 1
         /\ stage' = "begin" /\ operators' = <<>> /\ receipt' = "none"
         /\ UNCHANGED <<round, signers, outcome>>
    ELSE Finish(FALSE)

\* A failed attempt is made again from the start, MaxRetries times.
AttemptFails ==
    IF attempt <= MaxRetries
    THEN /\ attempt' = attempt + 1
         /\ stage' = "begin" /\ operators' = <<>> /\ receipt' = "none"
         /\ UNCHANGED <<round, signers, outcome>>
    ELSE Finish(FALSE)

\* The reference block is fixed and the cache hits fill their slots.
ReadBlock ==
    /\ stage = "begin"
    /\ operators' = [i \in 1 .. Len(signers) |-> cache[signers[i]]]
    /\ stage' = "resolving"
    /\ UNCHANGED <<chainVars, cache, round, signers, attempt, receipt, outcome>>

BlockFails ==
    /\ stage = "begin"
    /\ AttemptFails
    /\ UNCHANGED <<chainVars, cache>>

Misses == {i \in 1 .. Len(operators) : operators[i] = NoAddress}

Remember(answered) ==
    cache' = [k \in Keys |->
                IF \E i \in answered : signers[i] = k THEN Address(k) ELSE cache[k]]

\* Mutant of WriteBack: the k-th answer goes to the k-th slot.
WriteBackShifted(answered) ==
    LET rank(i) == Cardinality({j \in Misses : j <= i})
        to(i) == CHOOSE j \in answered : rank(j) = i
    IN  /\ Remember(answered)
        /\ operators' = [i \in 1 .. Len(operators) |->
                           IF i <= Cardinality(answered) THEN Address(signers[to(i)])
                           ELSE operators[i]]

\* The answers are written back, to cache and slot, in the order of the misses.
WriteBack(answered) ==
    /\ Remember(answered)
    /\ operators' = [i \in 1 .. Len(operators) |->
                       IF i \in answered THEN Address(signers[i]) ELSE operators[i]]

LookUp ==
    /\ stage = "resolving"
    /\ WriteBack(Misses)
    /\ stage' = "stakes"
    /\ UNCHANGED <<chainVars, round, signers, attempt, receipt, outcome>>

\* The first failure, at slot i, abandons the later answers.
LookUpFails(i) ==
    /\ stage = "resolving"
    /\ i \in Misses
    /\ LET answered == {j \in Misses : j < i}
       IN  Remember(answered)
    /\ AttemptFails
    /\ UNCHANGED chainVars

\* getNonSignerStakesAndSignature, pinned to the reference block.
ReadStakes ==
    /\ stage = "stakes"
    /\ stage' = "send"
    /\ UNCHANGED <<chainVars, cache, round, signers, attempt, operators, receipt, outcome>>

StakesFail ==
    /\ stage = "stakes"
    /\ AttemptFails
    /\ UNCHANGED <<chainVars, cache>>

SendTransaction ==
    /\ stage = "send"
    /\ stage' = "sent" /\ receipt' = "pending"
    /\ UNCHANGED <<chainVars, cache, round, signers, attempt, operators, outcome>>

\* An error does not mean the transaction stayed out of the mempool.
SendFails ==
    /\ stage = "send"
    /\ orphans' \in {orphans, orphans \cup {round}}
    /\ AttemptFails
    /\ UNCHANGED <<number, cache>>

\* Mutant of ReadReceipt: any receipt is a success.
ReadReceiptBlindly ==
    /\ stage = "sent"
    /\ receipt \in {"success", "reverted"}
    /\ Finish(TRUE)
    /\ UNCHANGED <<chainVars, cache>>

ReadReceipt ==
    /\ stage = "sent"
    /\ receipt \in {"success", "reverted"}
    /\ Finish(receipt = "success")
    /\ UNCHANGED <<chainVars, cache>>

\* Giving up on a receipt leaves the transaction where it is.
ReceiptFails ==
    /\ stage = "sent"
    /\ orphans' = IF receipt = "pending" THEN orphans \cup {round} ELSE orphans
    /\ AttemptFails
    /\ UNCHANGED <<number, cache>>

\* The submission ends with this step.
Completes ==
    \/ ReadReceipt
    \/ /\ attempt > MaxRetries
       /\ \/ BlockFails \/ StakesFail \/ SendFails \/ ReceiptFails
          \/ \E i \in Misses : LookUpFails(i)

\* A step of the submission that is not its last.
GoesOn ==
    \/ ReadBlock \/ LookUp \/ ReadStakes \/ SendTransaction
    \/ /\ attempt <= MaxRetries
       /\ \/ BlockFails \/ StakesFail \/ SendFails \/ ReceiptFails
          \/ \E i \in Misses : LookUpFails(i)

-----------------------------------------------------------------------------
(* External: the contract executes transactions in any order.              *)

Increment(r) == number' = IF r = number /\ number < LastRound THEN number + 1 ELSE number

LandAwaited ==
    /\ stage = "sent" /\ receipt = "pending"
    /\ Increment(round)
    /\ receipt' = IF number' > number THEN "success" ELSE "reverted"
    /\ UNCHANGED <<orphans, cache, stage, round, signers, attempt, operators, outcome>>

LandOrphan(r) ==
    /\ r \in orphans
    /\ orphans' = orphans \ {r}
    /\ Increment(r)
    /\ UNCHANGED <<cache, submissionVars, outcome>>

Chain == LandAwaited \/ \E r \in Rounds : LandOrphan(r)
=============================================================================
