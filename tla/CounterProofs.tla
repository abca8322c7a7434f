------------------------- MODULE CounterProofs -------------------------
(***************************************************************************)
(* For every set of keys, every quorum, lag and number of retries: the     *)
(* addresses of a submission stand at their signers' slots, and a height   *)
(* reported as executed with success has its round counted on chain.  And  *)
(* whatever an operator writes into the environment, the counter's `main`s *)
(* start, with an ack quota that covers the engine's demand.               *)
(***************************************************************************)
EXTENDS CounterChain, Config, CommonLemmas

USE SubmissionAssumption, CounterChainAssumption

\* The strengthening: while the misses are looked up every slot is empty or
\* right, and a receipt is a success only if the contract is past its round.
CacheRight == \A k \in Keys : cache[k] \in {NoAddress, Address(k)}
SlotsRight ==
    /\ stage \in {"resolving", "stakes", "send", "sent"} => Len(operators) = Len(signers)
    /\ stage = "resolving" =>
         \A i \in 1 .. Len(signers) : operators[i] \in {NoAddress, Address(signers[i])}
    /\ stage \in {"stakes", "send", "sent"} =>
         \A i \in 1 .. Len(signers) : operators[i] = Address(signers[i])
ReceiptRight == receipt = "success" => number > round
SubmissionInv ==
    SubmissionTypeOK /\ CacheRight /\ SlotsRight /\ ReceiptRight /\ SuccessMeansCounted
LoopInv ==
    /\ driving \in Rounds /\ phase \in {"idle", "open", "certified", "executing"}
    /\ disruptions \in 0 .. MaxDisruptions
IInv == SubmissionInv /\ LoopInv

-----------------------------------------------------------------------------
(* The submission's steps.                                                 *)

\* Rounds are naturals, and zero is one.
LEMMA RoundsNat == Rounds \subseteq Nat /\ 0 \in Rounds
BY DEF Rounds

\* What a submission's end, or its next attempt, leaves.
Restarted ==
    /\ stage \in {"begin", "idle"} /\ receipt = "none" /\ operators = <<>>
    /\ round \in Rounds /\ signers \in Seq(Keys) /\ attempt \in 1 .. MaxRetries + 1
    /\ outcome \in [round : Rounds, success : BOOLEAN]

\* An ended submission.
LEMMA FinishRestarts ==
    ASSUME NEW success \in BOOLEAN, round \in Rounds, Finish(success)
    PROVE  Restarted'
<1>1. /\ stage' = "idle" /\ receipt' = "none" /\ operators' = <<>> /\ round' = 0
      /\ signers' = <<>> /\ attempt' = 1
      /\ outcome' = [round |-> round, success |-> success]
  BY DEF Finish
<1>2. 1 \in 1 .. MaxRetries + 1 /\ outcome' \in [round : Rounds, success : BOOLEAN]
  BY <1>1
<1> QED
  BY <1>1, <1>2, RoundsNat DEF Restarted

\* The counted round of an outcome stays counted.
LEMMA CountedStays ==
    ASSUME SubmissionInv, outcome' = outcome, number' \in Rounds, number' >= number
    PROVE  SuccessMeansCounted'
<1>1. PICK r \in Nat : r = outcome.round
  BY RoundsNat DEF SubmissionInv, SubmissionTypeOK
<1>2. PICK n \in Nat, m \in Nat : n = number /\ m = number'
  BY RoundsNat DEF SubmissionInv, SubmissionTypeOK
<1> QED
  BY <1>1, <1>2 DEF SubmissionInv, SuccessMeansCounted

\* A failed attempt reports no success.
LEMMA FailedAttempt ==
    ASSUME SubmissionInv, AttemptFails, number' \in Rounds, number' >= number
    PROVE  Restarted' /\ SuccessMeansCounted'
<1>1. /\ round \in Rounds /\ signers \in Seq(Keys) /\ attempt \in 1 .. MaxRetries + 1
      /\ outcome \in [round : Rounds, success : BOOLEAN]
  BY DEF SubmissionInv, SubmissionTypeOK
<1>2. CASE attempt <= MaxRetries
  <2>1. attempt + 1 \in 1 .. MaxRetries + 1
    BY <1>1, <1>2
  <2>2. Restarted'
    BY <1>1, <1>2, <2>1 DEF AttemptFails, Restarted
  <2>3. outcome' = outcome
    BY <1>2 DEF AttemptFails
  <2> QED
    BY <2>2, <2>3, CountedStays
<1>3. CASE ~(attempt <= MaxRetries)
  <2>1. Finish(FALSE)
    BY <1>3 DEF AttemptFails
  <2>2. Restarted'
    BY <1>1, <2>1, FinishRestarts
  <2>3. outcome'.success = FALSE
    BY <2>1 DEF Finish
  <2> QED
    BY <2>2, <2>3 DEF SuccessMeansCounted
<1> QED
  BY <1>2, <1>3

\* A restarted submission keeps the invariant, whatever the cache learned.
LEMMA RestartInv ==
    ASSUME Restarted', SuccessMeansCounted', CacheRight',
           cache' \in [Keys -> Addresses], number' \in Rounds, orphans' \subseteq Rounds
    PROVE  SubmissionInv'
<1>1. operators' \in Seq(Addresses)
  BY DEF Restarted
<1>2. SubmissionTypeOK'
  BY <1>1 DEF SubmissionTypeOK, Restarted
<1>3. SlotsRight' /\ ReceiptRight'
  BY DEF Restarted, SlotsRight, ReceiptRight
<1> QED
  BY <1>2, <1>3 DEF SubmissionInv

\* What the submitter learned is right.
LEMMA RememberRight ==
    ASSUME SubmissionInv, NEW answered \in SUBSET Misses, Remember(answered)
    PROVE  CacheRight' /\ cache' \in [Keys -> Addresses]
<1>1. cache \in [Keys -> Addresses] /\ CacheRight
  BY DEF SubmissionInv, SubmissionTypeOK
<1>2. cache' = [k \in Keys |->
                  IF \E i \in answered : signers[i] = k THEN Address(k) ELSE cache[k]]
  BY DEF Remember
<1>3. \A k \in Keys : Address(k) \in Addresses
  BY DEF Addresses
<1>4. CacheRight'
  BY <1>1, <1>2 DEF CacheRight
<1> QED
  BY <1>1, <1>2, <1>3, <1>4

\* A step that is a failed attempt, with the transaction it may leave behind.
FailsHere ==
    \/ BlockFails \/ StakesFail \/ SendFails \/ ReceiptFails
    \/ \E i \in Misses : LookUpFails(i)

\* A failed attempt keeps the invariant.
LEMMA FailInv == SubmissionInv /\ FailsHere => SubmissionInv'
<1> SUFFICES ASSUME SubmissionInv, FailsHere PROVE SubmissionInv'
  OBVIOUS
<1>1. /\ cache \in [Keys -> Addresses] /\ CacheRight /\ number \in Rounds /\ number \in Nat
      /\ orphans \subseteq Rounds /\ round \in Rounds
  BY RoundsNat DEF SubmissionInv, SubmissionTypeOK
<1>2. CASE \E i \in Misses : LookUpFails(i)
  <2>1. PICK i \in Misses : LookUpFails(i)
    BY <1>2
  <2> DEFINE answered == {j \in Misses : j < i}
  <2>2. answered \in SUBSET Misses /\ Remember(answered)
    BY <2>1 DEF LookUpFails
  <2>3. AttemptFails /\ number' = number /\ orphans' = orphans
    BY <2>1 DEF LookUpFails, chainVars
  <2>4. Restarted' /\ SuccessMeansCounted'
    BY <1>1, <2>3, FailedAttempt
  <2>5. CacheRight' /\ cache' \in [Keys -> Addresses]
    BY <2>2, RememberRight
  <2> QED
    BY <1>1, <2>3, <2>4, <2>5, RestartInv
<1>3. CASE BlockFails \/ StakesFail \/ SendFails \/ ReceiptFails
  <2>1. /\ AttemptFails /\ cache' = cache /\ number' = number
        /\ orphans' \in {orphans, orphans \cup {round}}
    BY <1>3 DEF BlockFails, StakesFail, SendFails, ReceiptFails, chainVars
  <2>2. Restarted' /\ SuccessMeansCounted'
    BY <1>1, <2>1, FailedAttempt
  <2>3. CacheRight' /\ orphans' \subseteq Rounds
    BY <1>1, <2>1 DEF CacheRight
  <2> QED
    BY <1>1, <2>1, <2>2, <2>3, RestartInv
<1> QED
  BY <1>2, <1>3 DEF FailsHere

\* The cache hits fill their slots.
LEMMA ReadBlockInv == SubmissionInv /\ ReadBlock => SubmissionInv'
<1> SUFFICES ASSUME SubmissionInv, ReadBlock PROVE SubmissionInv'
  OBVIOUS
<1>1. /\ UNCHANGED <<chainVars, cache, round, signers, attempt, receipt, outcome>>
      /\ stage' = "resolving" /\ operators' = [i \in 1 .. Len(signers) |-> cache[signers[i]]]
      /\ signers \in Seq(Keys) /\ cache \in [Keys -> Addresses] /\ CacheRight
  BY DEF SubmissionInv, SubmissionTypeOK, ReadBlock
<1>2. Len(signers) \in Nat /\ \A i \in 1 .. Len(signers) : signers[i] \in Keys
  BY <1>1
<1>3. operators' \in [1 .. Len(signers) -> Addresses]
  BY <1>1, <1>2
<1>4. operators' \in Seq(Addresses) /\ Len(operators') = Len(signers)
  BY <1>2, <1>3, FunctionSeq
<1>5. SubmissionTypeOK'
  BY <1>1, <1>4 DEF SubmissionInv, SubmissionTypeOK, chainVars
<1>6. \A i \in 1 .. Len(signers) : operators'[i] \in {NoAddress, Address(signers[i])}
  BY <1>1, <1>2 DEF CacheRight
<1>7. SlotsRight' /\ CacheRight'
  BY <1>1, <1>4, <1>6 DEF SlotsRight, CacheRight
<1> QED
  BY <1>1, <1>5, <1>7 DEF SubmissionInv, ReceiptRight, SuccessMeansCounted, chainVars

\* The answers go to the slots of the misses.
LEMMA LookUpInv == SubmissionInv /\ LookUp => SubmissionInv'
<1> SUFFICES ASSUME SubmissionInv, LookUp PROVE SubmissionInv'
  OBVIOUS
<1>1. /\ UNCHANGED <<chainVars, round, signers, attempt, receipt, outcome>>
      /\ stage = "resolving" /\ stage' = "stakes" /\ Remember(Misses)
      /\ operators' = [i \in 1 .. Len(operators) |->
                         IF i \in Misses THEN Address(signers[i]) ELSE operators[i]]
      /\ signers \in Seq(Keys) /\ operators \in Seq(Addresses)
      /\ Len(operators) = Len(signers)
      /\ \A i \in 1 .. Len(signers) : operators[i] \in {NoAddress, Address(signers[i])}
  BY DEF SubmissionInv, SubmissionTypeOK, SlotsRight, LookUp, WriteBack
<1>2. Len(signers) \in Nat /\ \A i \in 1 .. Len(signers) : signers[i] \in Keys
  BY <1>1
<1>3. \A i \in 1 .. Len(signers) : operators'[i] = Address(signers[i])
  BY <1>1 DEF Misses
<1>4. \A k \in Keys : Address(k) \in Addresses
  BY DEF Addresses
<1>5. operators' \in [1 .. Len(signers) -> Addresses]
  BY <1>1, <1>2, <1>3, <1>4
<1>6. operators' \in Seq(Addresses) /\ Len(operators') = Len(signers)
  BY <1>2, <1>5, FunctionSeq
<1>7. CacheRight' /\ cache' \in [Keys -> Addresses]
  BY <1>1, RememberRight
<1>8. SubmissionTypeOK'
  BY <1>1, <1>6, <1>7 DEF SubmissionInv, SubmissionTypeOK, chainVars
<1>9. SlotsRight'
  BY <1>1, <1>3, <1>6 DEF SlotsRight
<1> QED
  BY <1>1, <1>7, <1>8, <1>9 DEF SubmissionInv, ReceiptRight, SuccessMeansCounted, chainVars

\* The stakes are read, the transaction is sent.
LEMMA ForwardInv == SubmissionInv /\ (ReadStakes \/ SendTransaction) => SubmissionInv'
BY DEF SubmissionInv, SubmissionTypeOK, CacheRight, SlotsRight, ReceiptRight,
       SuccessMeansCounted, ReadStakes, SendTransaction, chainVars

\* A success is reported on a successful receipt only.
LEMMA ReceiptInv == SubmissionInv /\ ReadReceipt => SubmissionInv'
<1> SUFFICES ASSUME SubmissionInv, ReadReceipt PROVE SubmissionInv'
  OBVIOUS
<1>1. /\ Finish(receipt = "success") /\ number' = number /\ orphans' = orphans
      /\ cache' = cache /\ round \in Rounds /\ number \in Rounds /\ orphans \subseteq Rounds
      /\ cache \in [Keys -> Addresses] /\ CacheRight /\ ReceiptRight
  BY DEF SubmissionInv, SubmissionTypeOK, ReadReceipt, chainVars
<1>2. (receipt = "success") \in BOOLEAN
  OBVIOUS
<1>3. Restarted'
  BY <1>1, <1>2, FinishRestarts
<1>4. SuccessMeansCounted'
  BY <1>1 DEF Finish, SuccessMeansCounted, ReceiptRight
<1>5. CacheRight'
  BY <1>1 DEF CacheRight
<1> QED
  BY <1>1, <1>3, <1>4, <1>5, RestartInv

\* The contract's round only rises, and a landing round is passed when it does.
LEMMA IncrementUp ==
    ASSUME number \in Rounds, NEW r \in Rounds, Increment(r)
    PROVE  number' \in Rounds /\ number' >= number /\ (number' > number => number' > r)
BY DEF Increment, Rounds

\* A transaction lands.
LEMMA ChainInv == SubmissionInv /\ Chain => SubmissionInv'
<1> SUFFICES ASSUME SubmissionInv, Chain PROVE SubmissionInv'
  OBVIOUS
<1>1. number \in Rounds /\ round \in Rounds /\ Rounds \subseteq Nat
  BY RoundsNat DEF SubmissionInv, SubmissionTypeOK
<1>2. CASE LandAwaited
  <2>1. /\ number' \in Rounds /\ number' >= number /\ (number' > number => number' > round)
        /\ outcome' = outcome
    BY <1>1, <1>2, IncrementUp DEF LandAwaited
  <2>2. SuccessMeansCounted'
    BY <2>1, CountedStays
  <2>3. ReceiptRight'
    BY <1>1, <1>2, <2>1 DEF LandAwaited, ReceiptRight
  <2>4. SubmissionTypeOK' /\ CacheRight' /\ SlotsRight'
    BY <1>2, <2>1 DEF LandAwaited, SubmissionInv, SubmissionTypeOK, CacheRight, SlotsRight
  <2> QED
    BY <2>2, <2>3, <2>4 DEF SubmissionInv
<1>3. CASE \E r \in Rounds : LandOrphan(r)
  <2>1. PICK r \in Rounds : LandOrphan(r)
    BY <1>3
  <2>2. number' \in Rounds /\ number' >= number /\ outcome' = outcome
    BY <1>1, <2>1, IncrementUp DEF LandOrphan
  <2>3. SuccessMeansCounted'
    BY <2>2, CountedStays
  <2>4. ReceiptRight'
    BY <1>1, <2>1, <2>2 DEF LandOrphan, SubmissionInv, ReceiptRight, submissionVars
  <2>5. SubmissionTypeOK' /\ CacheRight' /\ SlotsRight'
    BY <2>1, <2>2 DEF LandOrphan, SubmissionInv, SubmissionTypeOK, CacheRight, SlotsRight,
                      submissionVars
  <2> QED
    BY <2>3, <2>4, <2>5 DEF SubmissionInv
<1> QED
  BY <1>2, <1>3 DEF Chain

-----------------------------------------------------------------------------
(* The loop's steps.                                                       *)

\* The initial states satisfy the invariant.
LEMMA InitInv == CounterInit => IInv
<1> SUFFICES ASSUME CounterInit PROVE IInv
  OBVIOUS
<1>1. \A k \in Keys : NoAddress \in Addresses
  BY DEF Addresses
<1> QED
  BY <1>1, RoundsNat
     DEF CounterInit, SubmissionInit, IInv, LoopInv, SubmissionInv, SubmissionTypeOK,
         CacheRight, SlotsRight, ReceiptRight, SuccessMeansCounted, NoOutcome

\* The loop's own steps leave the submission alone.
LEMMA LoopStepInv ==
    ASSUME IInv,
           \/ \E r \in Rounds : Poll(r)
           \/ CertifyTask \/ SkipHeight \/ Supersede \/ UNCHANGED counterVars
    PROVE  IInv'
<1>1. UNCHANGED <<chainVars, cache, submissionVars, outcome>>
  BY DEF Poll, CertifyTask, SkipHeight, Supersede, counterVars
<1>2. SubmissionInv'
  BY <1>1 DEF IInv, SubmissionInv, SubmissionTypeOK, CacheRight, SlotsRight, ReceiptRight,
              SuccessMeansCounted, chainVars, submissionVars
<1>3. LoopInv'
  BY RoundsNat DEF IInv, LoopInv, Poll, CertifyTask, SkipHeight, Supersede, Release,
                   counterVars, loopVars
<1> QED
  BY <1>2, <1>3 DEF IInv

\* A certificate's submission begins.
LEMMA TakeInv == ASSUME IInv, NEW quorum \in Quorums, TakeTask(quorum) PROVE IInv'
<1>1. /\ stage' = "begin" /\ round' = driving /\ signers' = quorum /\ attempt' = 1
      /\ operators' = <<>> /\ receipt' = "none"
      /\ UNCHANGED <<number, orphans, cache, outcome>>
  BY DEF TakeTask, BeginSubmission, chainVars
<1>2. driving \in Rounds /\ quorum \in Seq(Keys) /\ 1 \in 1 .. MaxRetries + 1
  BY DEF IInv, LoopInv
<1>3. Restarted'
  BY <1>1, <1>2 DEF Restarted, IInv, SubmissionInv, SubmissionTypeOK
<1>4. /\ SuccessMeansCounted' /\ CacheRight' /\ cache' \in [Keys -> Addresses]
      /\ number' \in Rounds /\ orphans' \subseteq Rounds
  BY <1>1 DEF IInv, SubmissionInv, SubmissionTypeOK, SuccessMeansCounted, CacheRight
<1>5. SubmissionInv'
  BY <1>3, <1>4, RestartInv
<1>6. LoopInv'
  BY DEF IInv, LoopInv, TakeTask
<1> QED
  BY <1>5, <1>6 DEF IInv

\* A crash forgets the cache, the submission and its outcome.
LEMMA CrashInv == IInv /\ CrashRouter => IInv'
<1> SUFFICES ASSUME IInv, CrashRouter PROVE IInv'
  OBVIOUS
<1>1. /\ stage' = "idle" /\ round' = 0 /\ signers' = <<>> /\ attempt' = 1
      /\ operators' = <<>> /\ receipt' = "none" /\ outcome' = [round |-> 0, success |-> FALSE]
      /\ number' = number /\ cache' = [k \in Keys |-> NoAddress]
      /\ orphans' = IF receipt = "pending" THEN orphans \cup {round} ELSE orphans
  BY DEF CrashRouter, NoOutcome
<1>2. 1 \in 1 .. MaxRetries + 1 /\ outcome' \in [round : Rounds, success : BOOLEAN]
  BY <1>1, RoundsNat
<1>3. Restarted'
  BY <1>1, <1>2, RoundsNat DEF Restarted
<1>4. /\ SuccessMeansCounted' /\ CacheRight' /\ cache' \in [Keys -> Addresses]
  BY <1>1 DEF SuccessMeansCounted, CacheRight, Addresses
<1>5. number' \in Rounds /\ orphans' \subseteq Rounds
  BY <1>1 DEF IInv, SubmissionInv, SubmissionTypeOK
<1>6. SubmissionInv'
  BY <1>3, <1>4, <1>5, RestartInv
<1>7. LoopInv'
  BY RoundsNat DEF IInv, LoopInv, CrashRouter, Release
<1> QED
  BY <1>6, <1>7 DEF IInv

\* Every step keeps the invariant.
LEMMA StepInv == IInv /\ [CounterNext]_counterVars => IInv'
<1> SUFFICES ASSUME IInv, [CounterNext]_counterVars PROVE IInv'
  OBVIOUS
<1>1. CASE SubmissionGoesOn
  <2>1. SubmissionInv'
    BY <1>1, FailInv, ReadBlockInv, LookUpInv, ForwardInv
       DEF SubmissionGoesOn, GoesOn, FailsHere, IInv
  <2> QED
    BY <1>1, <2>1 DEF SubmissionGoesOn, IInv, LoopInv, loopVars
<1>2. CASE SubmissionEnds
  <2>1. SubmissionInv'
    BY <1>2, FailInv, ReceiptInv DEF SubmissionEnds, Completes, FailsHere, IInv
  <2> QED
    BY <1>2, <2>1, RoundsNat DEF SubmissionEnds, Release, IInv, LoopInv
<1>3. CASE Chain /\ UNCHANGED loopVars
  BY <1>3, ChainInv DEF IInv, LoopInv, loopVars
<1>4. CASE \E quorum \in Quorums : TakeTask(quorum)
  BY <1>4, TakeInv
<1>5. CASE CrashRouter
  BY <1>5, CrashInv
<1>6. CASE \/ \E r \in Rounds : Poll(r)
           \/ CertifyTask \/ SkipHeight \/ Supersede \/ UNCHANGED counterVars
  BY <1>6, LoopStepInv
<1> QED
  BY <1>1, <1>2, <1>3, <1>4, <1>5, <1>6 DEF CounterNext

\* The invariant holds of every behaviour of the counter's loop.
THEOREM CounterInvariance == CounterSpec => []IInv
BY InitInv, StepInv, PTL DEF CounterSpec

-----------------------------------------------------------------------------
(* The properties.                                                         *)

\* Type correctness of the loop and of the submission in it.
THEOREM CounterTypes == CounterSpec => []CounterTypeOK
<1>1. IInv => CounterTypeOK
  BY DEF IInv, SubmissionInv, LoopInv, CounterTypeOK
<1> QED
  BY <1>1, CounterInvariance, PTL

\* Every signer's slot holds that signer's operator address, whichever lookups
\* failed before (submitter.rs:308-346).
THEOREM SlotsAligned == CounterSpec => []OperatorsAligned
<1>1. IInv => OperatorsAligned
  BY DEF IInv, SubmissionInv, CacheRight, SlotsRight, OperatorsAligned
<1> QED
  BY <1>1, CounterInvariance, PTL

\* A success is only ever reported for a counted round (source.rs:52-61,
\* executor.rs:71-90).
THEOREM SuccessIsCounted == CounterSpec => []SuccessMeansCounted
<1>1. IInv => SuccessMeansCounted
  BY DEF IInv, SubmissionInv
<1> QED
  BY <1>1, CounterInvariance, PTL

-----------------------------------------------------------------------------
(* The submission as one promise.                                          *)

\* The strengthening the promise needs: the rounds at hand are ones the contract
\* has reached, and it refuses only those it has counted (or at the bound).
Reached == driving <= number /\ round <= number
RefusedRight == receipt = "reverted" => number > round \/ number = LastRound
AwaitedWhenSent == receipt # "none" => stage = "sent"
PromiseInv == IInv /\ Reached /\ RefusedRight /\ AwaitedWhenSent

\* What every failed attempt does.
LEMMA FailureLeaves ==
    ASSUME FailsHere, AwaitedWhenSent
    PROVE  /\ AttemptFails /\ number' = number /\ stage # "idle"
           /\ receipt' = "none" /\ round' \in {round, 0}
           /\ mempool' \in {mempool, mempool \cup {round}}
<1>1. AttemptFails /\ number' = number /\ stage # "idle"
  BY DEF FailsHere, BlockFails, StakesFail, SendFails, ReceiptFails, LookUpFails, chainVars
<1>2. receipt' = "none" /\ round' \in {round, 0}
  BY <1>1 DEF AttemptFails, Finish
<1>3. CASE ReceiptFails
  BY <1>1, <1>2, <1>3 DEF ReceiptFails, mempool
<1>4. CASE ~ReceiptFails
  <2>1. orphans' \in {orphans, orphans \cup {round}} /\ stage # "sent"
    BY <1>4 DEF FailsHere, BlockFails, StakesFail, SendFails, LookUpFails, chainVars
  <2> QED
    BY <1>1, <1>2, <2>1 DEF AwaitedWhenSent, mempool
<1> QED
  BY <1>1, <1>2, <1>3, <1>4

\* What the naturals among the variables are.
LEMMA Numbers ==
    ASSUME IInv
    PROVE  /\ number \in Nat /\ round \in Nat /\ driving \in Nat /\ LastRound \in Nat
           /\ number \in Rounds /\ round \in Rounds /\ driving \in Rounds
           /\ attempt \in 1 .. MaxRetries + 1
BY RoundsNat DEF IInv, SubmissionInv, SubmissionTypeOK, LoopInv

\* The submission's own steps keep what the promise needs.
LEMMA SubmissionReached ==
    ASSUME PromiseInv, SubmissionGoesOn \/ SubmissionEnds
    PROVE  Reached' /\ RefusedRight' /\ AwaitedWhenSent'
<1>1. /\ number' = number /\ round' \in {round, 0}
      /\ \/ receipt' = "none"
         \/ receipt' = "pending" /\ stage' = "sent"
         \/ receipt' = receipt /\ round' = round /\ stage # "sent"
  BY FailureLeaves
     DEF PromiseInv, SubmissionGoesOn, SubmissionEnds, GoesOn, Completes, FailsHere, ReadBlock, LookUp,
         ReadStakes, SendTransaction, ReadReceipt, Finish, chainVars
<1>2. driving' \in {driving, 0}
  BY DEF SubmissionGoesOn, SubmissionEnds, Release, loopVars
<1>3. number \in Nat
  BY Numbers DEF PromiseInv
<1> QED
  BY <1>1, <1>2, <1>3 DEF PromiseInv, Reached, RefusedRight, AwaitedWhenSent

\* A transaction lands: the awaited one's fate is right.
LEMMA ChainReached ==
    ASSUME PromiseInv, Chain, UNCHANGED loopVars
    PROVE  Reached' /\ RefusedRight' /\ AwaitedWhenSent'
<1>1. /\ number \in Nat /\ round \in Nat /\ driving \in Nat /\ LastRound \in Nat
      /\ number <= LastRound
  BY Numbers DEF PromiseInv, Rounds
<1>2. driving' = driving
  BY DEF loopVars
<1>3. CASE LandAwaited
  <2>1. /\ round' = round /\ stage' = "sent"
        /\ number' = IF round = number /\ number < LastRound THEN number + 1 ELSE number
        /\ receipt' = IF number' > number THEN "success" ELSE "reverted"
    BY <1>3 DEF LandAwaited, Increment
  <2> QED
    BY <1>1, <1>2, <2>1 DEF PromiseInv, Reached, RefusedRight, AwaitedWhenSent
<1>4. CASE \E r \in Rounds : LandOrphan(r)
  <2>1. /\ round' = round /\ receipt' = receipt /\ stage' = stage
        /\ number' = number \/ (number < LastRound /\ number' = number + 1)
    BY <1>4 DEF LandOrphan, Increment, submissionVars
  <2> QED
    BY <1>1, <1>2, <2>1 DEF PromiseInv, Reached, RefusedRight, AwaitedWhenSent
<1> QED
  BY <1>3, <1>4 DEF Chain

\* So does every other step.
LEMMA LoopReached ==
    ASSUME PromiseInv,
           \/ \E r \in Rounds : Poll(r)
           \/ CertifyTask \/ SkipHeight \/ Supersede \/ CrashRouter
           \/ \E quorum \in Quorums : TakeTask(quorum)
           \/ UNCHANGED counterVars
    PROVE  Reached' /\ RefusedRight' /\ AwaitedWhenSent'
<1>1. number' = number /\ number \in Nat
  BY Numbers DEF PromiseInv, Poll, CertifyTask, SkipHeight, Supersede, CrashRouter, TakeTask,
                 BeginSubmission, counterVars, chainVars
<1>2. driving' <= number
  BY <1>1 DEF PromiseInv, Reached, Poll, Readable, CertifyTask, SkipHeight, Supersede,
              CrashRouter, TakeTask, Release, counterVars, loopVars
<1>3. \/ round' \in {0, driving} /\ receipt' = "none"
      \/ round' = round /\ receipt' = receipt /\ stage' = stage
  BY DEF Poll, CertifyTask, SkipHeight, Supersede, CrashRouter, TakeTask, BeginSubmission,
         counterVars, submissionVars
<1> QED
  BY <1>1, <1>2, <1>3 DEF PromiseInv, Reached, RefusedRight, AwaitedWhenSent

\* The promise's invariant is inductive.
LEMMA PromiseInvariance == CounterSpec => []PromiseInv
<1>1. CounterInit => Reached /\ RefusedRight /\ AwaitedWhenSent
  BY DEF CounterInit, SubmissionInit, Reached, RefusedRight, AwaitedWhenSent
<1>2. IInv /\ Reached /\ RefusedRight /\ AwaitedWhenSent /\ [CounterNext]_counterVars => (Reached /\ RefusedRight /\ AwaitedWhenSent)'
  <2> SUFFICES ASSUME PromiseInv, [CounterNext]_counterVars
               PROVE  Reached' /\ RefusedRight' /\ AwaitedWhenSent'
    BY DEF PromiseInv
  <2> QED
    BY SubmissionReached, ChainReached, LoopReached DEF CounterNext
<1> QED
  BY <1>1, <1>2, CounterInvariance, PTL DEF CounterSpec, PromiseInv

-----------------------------------------------------------------------------
(* Every step is a step of the promise, or none.                           *)

\* A submission under way is not idle.
LEMMA ExecutingNotIdle ==
    ASSUME IInv, stage # "idle"
    PROVE  /\ executing # Promise!Idle
           /\ executing = [round |-> round, attempt |-> attempt]
<1>1. executing = [round |-> round, attempt |-> attempt]
  BY DEF executing
<1>2. attempt # 0
  BY Numbers
<1> QED
  BY <1>1, <1>2 DEF Promise!Idle

\* An ended submission is reported.
LEMMA FinishReports ==
    ASSUME IInv, stage # "idle", NEW success, Finish(success)
    PROVE  Promise!Report(success)
<1>1. executing.round = round
  BY ExecutingNotIdle
<1>2. executing' = Promise!Idle
  BY DEF Finish, executing, Promise!Idle
<1> QED
  BY <1>1, <1>2 DEF Finish, Promise!Report

\* A failed attempt is one.
LEMMA FailIsFail == ASSUME PromiseInv, FailsHere PROVE Promise!Fail
<1>1. IInv /\ AwaitedWhenSent
  BY DEF PromiseInv
<1>2. /\ AttemptFails /\ number' = number /\ stage # "idle"
      /\ mempool' \in {mempool, mempool \cup {round}}
  BY <1>1, FailureLeaves
<1>3. /\ executing # Promise!Idle
      /\ executing = [round |-> round, attempt |-> attempt]
  BY <1>1, <1>2, ExecutingNotIdle
<1>4. executing.round = round /\ executing.attempt = attempt
  BY <1>3
<1>5. CASE attempt <= MaxRetries
  <2>1. /\ stage' = "begin" /\ round' = round /\ attempt' = attempt + 1
        /\ outcome' = outcome
    BY <1>2, <1>5 DEF AttemptFails
  <2>2. executing' = [round |-> round, attempt |-> attempt + 1]
    BY <2>1 DEF executing
  <2>3. executing' = [executing EXCEPT !.attempt = @ + 1]
    BY <1>3, <2>2
  <2> QED
    BY <1>2, <1>3, <1>4, <1>5, <2>1, <2>3 DEF Promise!Fail
<1>6. CASE ~(attempt <= MaxRetries)
  <2>1. Promise!Report(FALSE)
    BY <1>1, <1>2, <1>6, FinishReports DEF AttemptFails
  <2> QED
    BY <1>2, <1>3, <1>4, <1>6, <2>1 DEF Promise!Fail
<1> QED
  BY <1>5, <1>6

\* The steps between the first and the last of an attempt are its own affair,
\* but for the transaction.
LEMMA AttemptStep ==
    ASSUME PromiseInv, ReadBlock \/ LookUp \/ ReadStakes \/ SendTransaction
    PROVE  [Promise!Next]_(Promise!vars)
<1>1. /\ UNCHANGED <<number, orphans, round, attempt, outcome>>
      /\ stage # "idle" /\ stage' # "idle"
  BY DEF ReadBlock, LookUp, ReadStakes, SendTransaction, chainVars
<1>2. executing' = executing
  BY <1>1 DEF executing
<1>3. CASE SendTransaction
  <2>1. executing # Promise!Idle /\ executing.round = round
    BY <1>1, ExecutingNotIdle DEF PromiseInv
  <2>2. receipt = "none"
    BY <1>3 DEF PromiseInv, AwaitedWhenSent, SendTransaction
  <2>3. mempool' = mempool \cup {executing.round}
    BY <1>1, <1>3, <2>1, <2>2 DEF SendTransaction, mempool
  <2> QED
    BY <1>1, <1>2, <2>1, <2>3 DEF Promise!Send, Promise!Next
<1>4. CASE ReadBlock \/ LookUp \/ ReadStakes
  <2>1. mempool' = mempool
    BY <1>1, <1>4 DEF ReadBlock, LookUp, ReadStakes, mempool
  <2> QED
    BY <1>1, <1>2, <2>1 DEF Promise!vars
<1> QED
  BY <1>3, <1>4

\* A receipt is a success or a refusal.
LEMMA ReceiptStep == ASSUME PromiseInv, ReadReceipt PROVE Promise!Next
<1>1. /\ IInv /\ stage # "idle" /\ Finish(receipt = "success")
      /\ receipt \in {"success", "reverted"} /\ UNCHANGED <<number, orphans>>
  BY DEF PromiseInv, ReadReceipt, chainVars
<1>2. executing # Promise!Idle /\ executing.round = round
  BY <1>1, ExecutingNotIdle
<1>3. mempool' = mempool
  BY <1>1 DEF Finish, mempool
<1>4. CASE receipt = "success"
  <2>1. Promise!Report(TRUE) /\ number > executing.round
    BY <1>1, <1>2, <1>4, FinishReports DEF IInv, SubmissionInv, ReceiptRight
  <2> QED
    BY <1>1, <1>2, <1>3, <2>1 DEF Promise!Succeed, Promise!Next
<1>5. CASE receipt = "reverted"
  <2>1. Promise!Report(FALSE) /\ (number > executing.round \/ number = LastRound)
    BY <1>1, <1>2, <1>5, FinishReports DEF PromiseInv, RefusedRight
  <2> QED
    BY <1>1, <1>2, <1>3, <2>1 DEF Promise!Revert, Promise!Next
<1> QED
  BY <1>1, <1>4, <1>5

\* A transaction lands.
LEMMA ChainStep == ASSUME PromiseInv, Chain PROVE Promise!Next
<1>1. round \in 0 .. LastRound /\ Rounds = 0 .. LastRound
  BY Numbers DEF PromiseInv, Rounds
<1>2. CASE LandAwaited
  <2>1. /\ round \in mempool /\ mempool' \in {mempool, mempool \ {round}}
        /\ executing' = executing /\ outcome' = outcome /\ Increment(round)
    BY <1>2 DEF LandAwaited, mempool, executing
  <2>2. Promise!Land(round)
    BY <2>1 DEF Promise!Land, Increment
  <2> QED
    BY <1>1, <2>2 DEF Promise!Next
<1>3. CASE \E r \in Rounds : LandOrphan(r)
  <2>1. PICK r \in Rounds : LandOrphan(r)
    BY <1>3
  <2>2. /\ r \in mempool /\ mempool' \in {mempool, mempool \ {r}}
        /\ executing' = executing /\ outcome' = outcome /\ Increment(r)
    BY <2>1 DEF LandOrphan, mempool, executing, submissionVars
  <2>3. Promise!Land(r)
    BY <2>2 DEF Promise!Land, Increment
  <2> QED
    BY <1>1, <2>1, <2>3 DEF Promise!Next
<1> QED
  BY <1>2, <1>3 DEF Chain

\* A certificate is handed over.
LEMMA TakeStep ==
    ASSUME PromiseInv, NEW quorum \in Quorums, TakeTask(quorum)
    PROVE  Promise!Next
<1>1. /\ stage = "idle" /\ stage' = "begin" /\ round' = driving /\ attempt' = 1
      /\ receipt' = "none" /\ UNCHANGED <<number, orphans, outcome>>
  BY DEF TakeTask, BeginSubmission, chainVars
<1>2. driving \in 0 .. LastRound /\ driving <= number
  BY Numbers DEF PromiseInv, Reached, Rounds
<1>3. executing = Promise!Idle /\ executing' = [round |-> driving, attempt |-> 1]
  BY <1>1 DEF executing, Promise!Idle
<1>4. receipt = "none"
  BY <1>1 DEF PromiseInv, AwaitedWhenSent
<1>5. mempool' = mempool
  BY <1>1, <1>4 DEF mempool
<1>6. Promise!Begin(driving)
  BY <1>1, <1>2, <1>3, <1>5 DEF Promise!Begin
<1> QED
  BY <1>2, <1>6 DEF Promise!Next

\* A crash loses the submission, its transaction stays.
LEMMA CrashStep == ASSUME CrashRouter PROVE Promise!Next
<1>1. /\ stage' = "idle" /\ receipt' = "none" /\ number' = number
      /\ outcome' = [round |-> 0, success |-> FALSE]
      /\ orphans' = IF receipt = "pending" THEN orphans \cup {round} ELSE orphans
  BY DEF CrashRouter, NoOutcome
<1>2. executing' = Promise!Idle /\ mempool' = mempool
  BY <1>1 DEF executing, mempool, Promise!Idle
<1> QED
  BY <1>1, <1>2 DEF Promise!Crash, Promise!Next, Promise!NoOutcome

\* The loop's own steps are none of the promise's.
LEMMA LoopStep ==
    ASSUME \/ \E r \in Rounds : Poll(r)
           \/ CertifyTask \/ SkipHeight \/ Supersede \/ UNCHANGED counterVars
    PROVE  UNCHANGED Promise!vars
<1>1. UNCHANGED <<chainVars, submissionVars, outcome>>
  BY DEF Poll, CertifyTask, SkipHeight, Supersede, counterVars
<1> QED
  BY <1>1 DEF Promise!vars, executing, mempool, chainVars, submissionVars

\* The submitter in its loop implements the promise: success for counted rounds
\* only, failure for refused ones or after the last retry, whatever fails inside.
THEOREM RefinesExecution == CounterSpec => ImplementsExecution
<1>1. CounterInit => Promise!Init
  BY DEF CounterInit, SubmissionInit, NoOutcome, Promise!Init, Promise!Idle,
         Promise!NoOutcome, executing, mempool
<1>2. PromiseInv /\ [CounterNext]_counterVars => [Promise!Next]_(Promise!vars)
  <2> SUFFICES ASSUME PromiseInv, [CounterNext]_counterVars
               PROVE  [Promise!Next]_(Promise!vars)
    OBVIOUS
  <2>1. CASE SubmissionGoesOn \/ SubmissionEnds
    BY <2>1, FailIsFail, AttemptStep, ReceiptStep
       DEF SubmissionGoesOn, SubmissionEnds, GoesOn, Completes, FailsHere, Promise!Next
  <2>2. CASE Chain \/ CrashRouter \/ \E quorum \in Quorums : TakeTask(quorum)
    BY <2>2, ChainStep, CrashStep, TakeStep
  <2>3. CASE \/ \E r \in Rounds : Poll(r)
             \/ CertifyTask \/ SkipHeight \/ Supersede \/ UNCHANGED counterVars
    BY <2>3, LoopStep
  <2> QED
    BY <2>1, <2>2, <2>3 DEF CounterNext
<1> QED
  BY <1>1, <1>2, PromiseInvariance, PTL DEF CounterSpec, ImplementsExecution, Promise!Spec

-----------------------------------------------------------------------------
(* The configuration.                                                      *)

\* What the constants are, without the product the defaults must fit.
LEMMA ConfigNumbers ==
    /\ Second \in Nat \ {0} /\ MaxDuration \in Nat
    /\ MaxU32 \in Nat /\ MaxU32 > 8
    /\ {DefaultRate, DefaultBacklog, DefaultWindow, DefaultRound, DefaultInterval}
         \subseteq Nat \ {0}
    /\ DefaultRate <= Second /\ {DefaultTimeout, DefaultPolling} \subseteq Nat
BY ConfigAssumption

USE ConfigNumbers

\* Rounded up, a quotient covers what was divided.
LEMMA CeilingCovers ==
    ASSUME NEW a \in Nat, NEW b \in Nat \ {0}
    PROVE  Ceiling(a, b) \in Nat /\ Ceiling(a, b) * b >= a
<1>1. a + b - 1 \in Nat
  OBVIOUS
<1>2. PICK x \in Nat : x = a + b - 1
  BY <1>1
<1>3. x \div b \in Nat /\ (x \div b) * b > x - b
  BY Rounding
<1>4. PICK c \in Nat : c = x \div b
  BY <1>3
<1>5. PICK y \in Nat : y = c * b
  BY <1>4
<1>6. y > x - b
  BY <1>3, <1>4, <1>5
<1>7. y >= a
  BY <1>2, <1>6
<1> QED
  BY <1>2, <1>4, <1>5, <1>7 DEF Ceiling

\* A whole number of seconds is at least one tick.
LEMMA WholeSeconds ==
    /\ \A seconds \in {DefaultRound, DefaultInterval} : seconds * Second \in 1 .. MaxDuration
    /\ Second \in 1 .. MaxDuration
<1>1. ASSUME NEW d \in Nat \ {0}, NEW s \in Nat \ {0}
      PROVE  d * s \in Nat /\ d * s >= s /\ s >= 1
  OBVIOUS
<1>2. ASSUME NEW d \in {DefaultRound, DefaultInterval}
      PROVE  d * Second \in 1 .. MaxDuration /\ Second <= MaxDuration
  <2>1. d \in Nat \ {0} /\ Second \in Nat \ {0} /\ d * Second <= MaxDuration
    BY ConfigAssumption
  <2>2. PICK p \in Nat : p = d * Second
    BY <1>1, <2>1
  <2>3. p >= Second /\ Second >= 1 /\ p <= MaxDuration
    BY <1>1, <2>1, <2>2
  <2> QED
    BY <2>1, <2>2, <2>3
<1> QED
  BY <1>2

\* A setting in seconds is a positive duration there is, set or not.
LEMMA SecondsFit ==
    ASSUME NEW s, NEW default \in {DefaultRound, DefaultInterval}
    PROVE  SecondsSetting(s, default) \in 1 .. MaxDuration
BY WholeSeconds DEF SecondsSetting, PositiveDuration

\* The reciprocal of the default rate is at least a tick and at most a second.
LEMMA DefaultPeriod == Ticks(1, DefaultRate) \in 1 .. MaxDuration
<1>1. PICK r \in Nat \ {0}, s \in Nat \ {0} : r = DefaultRate /\ s = Second /\ r <= s
  OBVIOUS
<1>2. PICK x \in Nat : x = 2 * s + r
  BY <1>1
<1>3. PICK b \in Nat \ {0} : b = 2 * r
  BY <1>1
<1>4. PICK q \in Nat : q = x \div b /\ q * b <= x /\ q * b > x - b
  BY Rounding
<1>5. q # 0
  <2> SUFFICES ASSUME q = 0 PROVE FALSE
    OBVIOUS
  <2>1. q * b = 0
    OBVIOUS
  <2> QED
    BY <1>1, <1>2, <1>3, <1>4, <2>1
<1>6. q <= s
  <2> SUFFICES ASSUME q >= s + 1 PROVE FALSE
    BY <1>1
  <2>1. q * b >= (s + 1) * b
    BY <1>1
  <2>2. (s + 1) * b = s * b + b
    BY <1>1
  <2>3. s * b >= 2 * s
    BY <1>1, <1>3
  <2>4. PICK qb \in Nat, sb \in Nat : qb = q * b /\ sb = s * b
    BY <1>1
  <2>5. qb >= sb + b /\ sb >= 2 * s /\ qb <= x
    BY <1>4, <2>1, <2>2, <2>3, <2>4
  <2> QED
    BY <1>1, <1>2, <1>3, <2>5
<1>7. s <= MaxDuration
  BY <1>1, WholeSeconds
<1>8. Ticks(1, DefaultRate) = q
  BY <1>1, <1>2, <1>3, <1>4 DEF Ticks
<1> QED
  BY <1>5, <1>6, <1>7, <1>8

\* Every period the network is given is a positive duration there is.
LEMMA PeriodFits == ASSUME NEW env PROVE p2p_quota_period(env) \in 1 .. MaxDuration
BY DefaultPeriod DEF p2p_quota_period

\* A whole setting is a natural number.
LEMMA WholeNatural ==
    ASSUME NEW s \in Settings, Whole(s)
    PROVE  s.num \in Nat
BY DEF Settings, Whole, IsNumber, Fractions

\* The engine's demand is at least what its heights cost per second, or the
\* most a u32 holds.
LEMMA DemandCovers ==
    ASSUME NEW env \in AnyEnvironment
    PROVE  /\ Demand(env) \in 0 .. MaxU32
           /\ agg_activity_timeout(env) \in Nat
           /\ rebroadcast_interval(env) \in Nat \ {0}
           /\ \/ Demand(env) = MaxU32
              \/ Demand(env) * rebroadcast_interval(env) >= agg_activity_timeout(env) * Second
<1>1. agg_activity_timeout(env) \in Nat
  <2>1. env.timeout \in Settings
    BY DEF AnyEnvironment
  <2> QED
    BY <2>1, WholeNatural DEF agg_activity_timeout
<1>2. rebroadcast_interval(env) \in Nat \ {0}
  BY SecondsFit DEF rebroadcast_interval
<1>3. PICK a \in Nat : a = agg_activity_timeout(env) * Second
  <2>1. PICK t \in Nat : t = agg_activity_timeout(env)
    BY <1>1
  <2>2. t * Second \in Nat
    BY <2>1
  <2> QED
    BY <2>1, <2>2
<1>4. PICK r \in Nat \ {0} : r = rebroadcast_interval(env)
  BY <1>2
<1>5. PICK c \in Nat : c = Ceiling(a, r) /\ c * r >= a
  BY CeilingCovers
<1>6. Demand(env) = IF c < MaxU32 THEN c ELSE MaxU32
  BY <1>3, <1>4, <1>5 DEF Demand, AtMost
<1> QED
  BY <1>1, <1>2, <1>3, <1>4, <1>5, <1>6

\* The quota is a positive u32.
LEMMA QuotaFits ==
    ASSUME NEW env \in AnyEnvironment
    PROVE  ack_messages_per_second(env) \in 1 .. MaxU32
<1>1. PICK d \in 0 .. MaxU32 : d = Demand(env)
  BY DemandCovers
<1>2. AckQuota(env) \in 0 .. MaxU32
  BY <1>1 DEF AckQuota, AtMost
<1>3. CASE Overridden(env)
  BY <1>3 DEF ack_messages_per_second, Overridden
<1>4. CASE ~Overridden(env)
  <2>1. PICK q \in 0 .. MaxU32 : q = AckQuota(env)
    BY <1>2
  <2>2. ack_messages_per_second(env) = IF q < 8 THEN 8 ELSE q
    BY <1>4, <2>1 DEF ack_messages_per_second
  <2> QED
    BY <2>2
<1> QED
  BY <1>3, <1>4

\* A process finds some settings and keeps them.
LEMMA EnvironmentKept == ConfigSpec => [](environment \in AnyEnvironment)
<1>1. environment \in AnyEnvironment /\ [UNCHANGED environment]_environment
        => (environment \in AnyEnvironment)'
  OBVIOUS
<1> QED
  BY <1>1, PTL DEF ConfigSpec

\* Whatever an operator wrote, the counter's `main`s start: no zero and no
\* overflow reaches a constructor that panics on it.
THEOREM AlwaysStartsUp == ConfigSpec => []StartsUp
<1>1. environment \in AnyEnvironment => StartsUp
  <2> SUFFICES ASSUME environment \in AnyEnvironment PROVE StartsUp
    OBVIOUS
  <2> DEFINE env == environment
  <2>1. /\ p2p_quota_period(env) \in 1 .. MaxDuration
        /\ rebroadcast_interval(env) \in 1 .. MaxDuration
        /\ round_timeout(env) \in 1 .. MaxDuration
    BY PeriodFits, SecondsFit DEF rebroadcast_interval, round_timeout
  <2>2. ack_messages_per_second(env) \in 1 .. MaxU32
    BY QuotaFits
  <2>3. agg_window(env) > 0 /\ p2p_message_backlog(env) > 0
    BY DEF agg_window, p2p_message_backlog
  <2> DEFINE Fine(got) ==
        /\ {got.directivePeriod, got.rebroadcast, got.timeout} \subseteq 1 .. MaxDuration
        /\ got.window > 0 /\ got.backlog > 0
        /\ got.ackQuota \in 1 .. MaxU32
  <2>4. Fine(NodeStartUp(env))
    BY <2>1, <2>2, <2>3, Zenon DEF NodeStartUp
  <2>5. Fine(RouterStartUp(env))
    BY <2>1, <2>2, <2>3, Zenon DEF RouterStartUp
  <2> QED
    BY <2>4, <2>5 DEF StartsUp
<1> QED
  BY <1>1, EnvironmentKept, PTL

\* However far the intervals and timeouts are stretched, the ack quota is twice
\* what the engine sends per second at least, or saturated.
THEOREM QuotaCoversDemand == ConfigSpec => []AckQuotaCoversDemand
<1>1. environment \in AnyEnvironment => AckQuotaCoversDemand
  <2> SUFFICES ASSUME environment \in AnyEnvironment, ~Overridden(environment),
                      ack_messages_per_second(environment) # MaxU32
               PROVE  ack_messages_per_second(environment) * rebroadcast_interval(environment)
                        >= 2 * agg_activity_timeout(environment) * Second
    BY DEF AckQuotaCoversDemand
  <2>1. PICK d \in 0 .. MaxU32 : d = Demand(environment)
    BY DemandCovers
  <2>2. /\ ack_messages_per_second(environment) = 2 * d + 8
        /\ d # MaxU32
    BY <2>1 DEF ack_messages_per_second, AckQuota, AtMost
  <2>3. PICK r \in Nat \ {0}, t \in Nat :
            r = rebroadcast_interval(environment) /\ t = agg_activity_timeout(environment)
    BY DemandCovers
  <2>4. d * r >= t * Second
    BY <2>1, <2>2, <2>3, DemandCovers
  <2>5. (2 * d + 8) * r >= 2 * (d * r)
    BY <2>3, TwiceAtLeast
  <2>6. 2 * t * Second = 2 * (t * Second)
    BY <2>3
  <2>7. PICK dr \in Nat, ts \in Nat : dr = d * r /\ ts = t * Second
    BY <2>3, NaturalProduct
  <2>8. (2 * d + 8) * r >= 2 * dr /\ 2 * t * Second = 2 * ts /\ dr >= ts
    BY <2>4, <2>5, <2>6, <2>7
  <2>9. PICK q \in Nat : q = (2 * d + 8) * r
    <3>1. PICK e \in Nat : e = 2 * d + 8
      BY <2>1
    <3> QED
      BY <2>3, <3>1, NaturalProduct
  <2>10. q >= 2 * ts
    BY <2>8, <2>9
  <2> QED
    BY <2>2, <2>3, <2>8, <2>9, <2>10
<1> QED
  BY <1>1, EnvironmentKept, PTL
=============================================================================
