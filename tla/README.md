# A verification development of commonware-restaking

The repository is a router and a set of operator nodes. The router turns application tasks into a
sequence of *aggregation heights*, the operators certify a digest for every height with a
BFT aggregation engine (an external library), and the router puts certified tasks on chain.
This directory models the code between the library and the chain, the part whose correctness
depends on the order in which actors, messages and restarts meet.

Every `tlc` and `tlapm` command below is run in this directory. `PROJECT.json` names, for every
definition, the source lines it stands for, and for every property the hazard it is there for.

## Inventory

| Component (source) | State | Operations | Talks to |
| --- | --- | --- | --- |
| Task book (`node/src/task_book.rs`) | directive per height, `max_seen`, parked waiters | deliver, subscribe, prune_below | fed by ingest, asked by the automaton, pruned by the reporter; all through one FIFO mailbox |
| Ingest (`node/src/task_book.rs:344`) | time of the last tip report | per directive: report the tip, warn, deliver | router → task book; node → router |
| Node automaton (`node/src/automaton.rs`) | per propose, in a detached task: deadline, backoff | propose: subscribe, validate with retries, send a digest | engine, task book, validator |
| Node reporter (`node/src/reporter.rs`) | mailbox, tip, dedupe set, two counters, tap | certified, tip | engine → task book, ingest, tap |
| Sequencer (`router/src/sequencer.rs`) | `next_height`, driven height, task, latch, skip flag | run, drive_height, drain_resolutions | task source, cert reporter (awaited queries), submitter (channel), nodes (p2p) |
| Tip reports (`router/src/sequencer.rs:181`) | highest tip per participant | record, safe_tip | nodes → sequencer |
| Cert reporter (`router/src/reporter.rs`) | certified digest per height, tip | certified, tip, get, get_tip | engine → submitter, sequencer |
| Submitter (`router/src/submitter.rs`) | operator cache, retries | handle_certified, submit, notify | reads the shared assignment map, the chain; → sequencer |
| Router automaton (`router/src/automaton.rs`) | none | propose | assignment map → the router's own engine, which keeps the digest |
| Wire (`core/src/wire`) | none | directive codec, `skip_digest` | everyone |
| BN254 keys and scheme (`core/src/bn254`) | participant set, own index | sign, verify attestation, assemble, verify certificate | engine, submitter, p2p (the handshake signs with the same key) |
| Engine glue (`core/src/consensus`), validator trait, executor trait | none | | |
| Counter example: source, validator, handler (`examples/counter`) | contract round (on chain) | next_task, expected_digest, handle_verification | the chain, each process through its own endpoint |
| Counter example: configuration and `main`s | settings, operator set, both read once | parsing, start-up | environment, chain |
| EigenLayer client (`eigenlayer`), bindings, scripts | none | start-up reads | the chain |

**What is hard.** The actors run concurrently and share an assignment map; an awaited query's answer
is used after the world has moved on. Directives and tip reports are lost, delayed, reordered and
repeated. Certificates are reported again on replay. The router and the nodes restart, with or
without their journals, and leftovers of earlier lives certify later. A height must never be
consumed twice, never be skipped over, and never wait for ever. Around that core, a submission is a chain of
RPC calls any of which may fail after the one before took effect; a validator may be down for part of the retry
budget; node and router read the operator set and their settings once, at different times.

**What makes each component correct.**

* Task book: every request is answered at most once and only as the normative skip rules
  (`task_book.rs:8-38`) allow: with the directive that stands at its height, and with Skip by rule 2
  only while the height has none; no request is lost; the first announcement of a height wins.
* Sequencer, reporter, submitter together: each certificate is resolved exactly once; only a task
  this router announced and the quorum certified goes on chain; assigned heights only rise and leave
  no gap; the driven height ends.
* Tip reports: the safe tip is one an honest node had, never falls within a life, and frees a
  router stuck on a dead height.
* Node automaton: a heard task is answered for within the retry budget and a call, not given up early, and
  a recovered validator is not missed. Node reporter: one count and one observation per height; the floor stays behind the engine.
* Scheme: a certificate means a quorum of distinct registered signers of that digest, and what the router
  assembles verifies wherever the operators were read from the same registry.
* Quorum of nodes: one digest per height, and every driven height certifies.
* Submission and counter: each address at its signer's slot, a reported success is a counted round, the counter moves on.
* Configuration: no setting panics a process, and the ack quota leaves room for the engine's demand.

## Modules

| Module | What it is | Proofs |
| --- | --- | --- |
| `Participants`, `Directives` | shared vocabulary: operators, fault bound and quorum; heights, tasks, which directive stands, and what nodes that heard some of a set may answer | |
| `SkipRules` | abstract: what a task book promises, with no log, no queue; of pruning only which heights are let go | |
| `TaskBook` | the task book actor: mailbox, five branches of `handle_directive`, three of `handle_subscribe`, prune | `TaskBookProofs` |
| `Router` | sequencer, cert reporter and submitter as three concurrent actors, the automaton's answer to the router's own engine, channels, crash and an adversarial engine | `RouterProofs` |
| `TipReports` | nodes' tip reports and the router's safe tip | `TipReportsProofs` |
| `HeightLedger` | abstract: what the operators as a whole promise the router: one digest per height, accounted for by directives | |
| `Aggregation` | the operators: directives, what each node signs, the engine's journals and certificates, restarts | `AggregationProofs` |
| `NodeAutomaton` | one digest request: `resolve` and the retry loop, with time | `NodeProofs` |
| `NodeReporter` | the node's reporter actor under replay, reordering and crash | `NodeProofs` |
| `Submission` | one certified height on its way on chain: `submit` inside the retry loop | |
| `Execution` | abstract: what the submitter promises of a certified height, with no reference blocks, operators or receipts | |
| `CounterChain` | extends `Submission`: task source, validator, handler and contract around it | `CounterProofs` |
| `Bn254` | keys, signatures and aggregation over ideal points | |
| `Scheme` | extends `Bn254`: the certificate scheme of processes that started at different times | `SchemeProofs` |
| `Config` | the settings, their fallbacks, the ack quota | `CounterProofs` |
| `CommonLemmas` | lemmas about naturals, queues and functions the proofs share | proved there |
| `MCTaskBook`, `MCRouter`, `MCTipReports`, `MCAggregation`, `MCCounter`, `MCParts` | instances for TLC | |

### TaskBook

State is the code's: `directives` (a resolution per height), `maxSeen` (-1 for `None`), `waiters`,
and the mailbox. One action per message a sender enqueues (`Deliver`, `Subscribe`,
`PruneBelow`) and one per handler; each branch of a handler is a named disjunct
(`KeepRecorded`, `OverrideBySkip`, `IgnoreBelowHorizon`, `RecordLower`, `RecordHighest`;
`AnswerRecorded`, `AnswerPassedOver`, `Park`). A request is a model value made at most once, because each
`propose` call makes one `oneshot`; it can be enqueued at any moment, because the automaton
subscribes in a detached task. The router's directives are arbitrary, conflicting ones included: the
actor's rules are meant to hold against any router. `asked`, `answer`, `heard` and `standing` are
history, `standing` being the directive that stands at each height by the idempotency rule
(`task_book.rs:26-38`): the first one, unless Skip took back an announcement. The code's log is
trimmed and `standing` is not, so the two are different things that have to agree. The four are the
variables of `SkipRules`, with the floor the reporter asked for as its `floor`, and
`ImplementsSkipRules` says that every step of the actor is one of its steps. What `SkipRules` permits
depends on the height:

* neither horizon has passed it (at or above the reporter's floor, at most `PruneSlack` below the
  highest directive): only the directive that stands there or, while none does, Skip once a higher one was heard.
  A task book that compared with `max_seen` before it looked in its log breaks this: it is the property's mutant;
* more than `PruneSlack` below the highest directive: only Skip;
* below the reporter's floor, where the log may be gone and a repeated directive recorded anew: the
  engine is past the height (`PruneBehindEngine`), and a request may get any directive heard for it, or Skip if one was heard above.

### Router

One `pc` says where `run` and `drive_height` are. A step that awaits the reporter is two steps:
`reply` holds the answer until the sequencer resumes (`SettleReadTip`/`Start`,
`ReadTip`/`Assign`, `TickReadCertificate`/`Tick...`). `assignments` is the shared map;
the submitter's clone of an entry is `executing`. `toSubmit` and `resolutions` are the two
channels. Time is abstracted: a rebroadcast tick can happen whenever the sequencer waits, and the round
timeout may have passed at any tick. `AttemptFails` covers an error before and after the
transaction was sent. The environment is: `ledger` (at most one certificate per height,
the engine's guarantee for at most f faulty operators), an engine that re-reports any certificate
within `ActivityTimeout` of its own tip and `Window` above it, safe tips no higher than the operators'
own tips, and `Crash`, after which any part of the engine's journal is replayed. A certificate can
only form for a task announced at the height, for Skip once a directive for that height or a higher one is
out, or for anything at a height of `LeftoverHeights` (an earlier router life). Heights count from the lowest that is
not certified, so that `NoGapOpened`, which holds of every life, leaves only height 0 to be a leftover; `RouterAssumption` says so.
`Propose` is the router's automaton: the assigned digest it answers with, if there is an assignment by then, is kept in `expected`, and from
then on the router's own engine reports a certificate of that height only if it has this digest.
`RouterAssumption` asks that `PruneSlack` be at least `ActivityTimeout + Window`: the comment at
`core/src/consensus/mod.rs:14` asks for the first term only, and without the second a certificate
can be reported again after its dedupe entry was pruned. `NodeReporter` needs one height less, because a certificate moves
the node's tip to its height and the router's to the height above. Neither the router nor the node compares
`AGG_WINDOW` and `AGG_ACTIVITY_TIMEOUT` from the environment with the compiled-in `PRUNE_SLACK`.

### TipReports

`Reply` is the node's half of the exchange, `Ingest` the router's; a report once sent may reach the
router at any later time, again, or never. Faulty participants and strangers send anything.
`SafeTip` is the highest tip that more than f peers' entries reach, the (f+1)-th highest;
`Descending` are the orders the code's sort may leave the recorded tips in (equal tips in either order), `SortedTip` what
the code reads off one of them, and `SafeTipSorted` says that the two agree.

### Aggregation

This module composes the others by their promises. The router is what `Router` shows of it: it drives a
height when all below are certified (`NoGapOpened`), says a task and from the round timeout on
Skip, and forgets both on a restart. A node answers its engine with what some task book could answer
that heard some of the directives ever broadcast, in some order (`Answerable`: any may be lost or late, and a
restart empties the task book; this is wider than `SkipRules`, which knows what one node heard and when), or with Skip when the announced task does not validate within the budget (`MayAnswer`). The
aggregation engine is external: it asks for heights within `Window` of its tip, signs once
per height and remembers that in its journal (`signed`); `node/src/reporter.rs:219-222` describes the
replay of a node's own signatures. `acks` is what was sent, which a lost journal
does not take back; faulty operators sign everything. `lost` names the nodes that lost their journals.
`HeightLedger`'s state is `out` and the digest of each height's certificate.

### NodeAutomaton

`stage` says where `resolve` is. Time counts from the task book's answer in units of the first backoff and passes
only inside a validator call or a sleep. A call lasts up to `MaxLatency` and fails when made before `healthyFrom` or
when the task is not valid, which the code cannot tell apart (`CallFails`). `Retry` and `GiveUp` are the two sides of the
comparison with the deadline, `Wake` the doubling with its cap. Requests share nothing, so one is enough.

### NodeReporter

`mailbox` holds what the engine reported; `TakeReplayed`, `TakeCertified` and `TakeTip` are the branches of `run`, each with
the whole of `advance`. The engine reports any height between `ActivityTimeout` below its tip and `Window` above, again and
out of order. `ReporterCrash` forgets everything in memory, so counts and observations are per life: `handled` is that
history. (A consumer that needs "exactly once" across restarts has to deduplicate itself.)

### Submission and CounterChain

`Submission` refines the single `executing` step of `Router`: `stage` names the await at which the submitter is, every
stage can fail, and `AttemptFails` is the retry loop. `operators` are the address slots, `cache` the operator cache; lookups run
concurrently, so the failure at a slot keeps the answers before it and drops the others. A transaction nobody waits for any more
is in `orphans`, and may land at any time. `CounterChain` drives a round: `Poll` reads the contract through an endpoint up to `Lag` rounds
behind (its read is never ahead of the contract), `CertifyTask` needs nodes that read the same round, and `SkipHeight`, `Supersede` and `CrashRouter` are the other ends of a height.
Seen from outside, a submission is `Execution`: `executing` is its round and attempt, `mempool` the transactions that may still land, awaited or
not. It reports success for a counted round, failure for one the contract refuses because it has counted it (or is at the model's last round) or after
`MAX_RETRIES + 1` attempts; `ImplementsExecution` says that the stages, their failures, the crash and the supersession add nothing to that.

### Bn254 and Scheme

A point is the bag of <<key, payload>> products it sums up; no relation between different products, no hash collision. `Garbage` is bytes that are no
point, hence no sum of products (`SchemeAssumption`). That keeps
what the code does with the namespace and the 32-byte payload, and what aggregation and the identity do. `Scheme` has one height: the
registry changes, each process reads it when it starts (`StartNode`, `StartRouter`; `view`), operators ack, a faulty one
sends any index with any signature that exists, handshakes included, and the router's engine pools what
verifies and blocks who sent what does not.

### Config

The settings of an environment are unset, malformed, or a fraction; seconds are `Second` ticks and integers are `MaxU32` wide, so that
saturation happens in small numbers. `NodeStartUp` and `RouterStartUp` are what the two `main`s make of them. `ConfigSpec` starts from any
setting whatever; `ConfigAssumption` asks of the code's defaults that they are positive and fit a `Duration`.

## Runs

| Run | Bounds | What it shows |
| --- | --- | --- |
| `taskbook` | heights 0..2, slack 1, two tasks, two requests, one queued message | below |
| `taskbook_parked` (violation) | one request, two queued messages | the comment at `task_book.rs:141` is too strong |
| `router` | heights 0..1, two tasks, leftover height 0, slack 1 = window 1 + activity timeout 0, one retry, one crash | below |
| `router_live` | heights 0..1, one task, slack 2, window and activity timeout 1, no retry, no crash | every driven height ends |
| `router_overlap` (violation) | heights 0..2, two tasks, no crash | rule 1 of `sequencer.rs` does not hold |
| `tip_reports` | four participants, one faulty, one stranger, tips 0..2, one restart | below |
| `aggregation` | four operators, one faulty, heights 0..1, two tasks, window 1, any number of router restarts | below |
| `agg_live` | the same with one task, no timeouts, one journal lost any finite number of times | every driven height certifies |
| `agg_split` (violation) | one height, one task, timeouts and failed validations | rule 2 of `sequencer.rs` does not hold |
| `agg_journal` (violation) | no faulty operator, two lost journals, one height | the journal is not safe to lose |
| `counter` | three keys, two overlapping quorums, rounds 0..2, one retry, reads one round behind, one crash or supersession | below |
| `parts` | one of four parts per behaviour: reporter (heights 0..3, slack 2 = window 2 + activity timeout 1 - 1, two reports, one crash), digest request (seven budgets, five outages, cap ten times the first backoff), scheme (four operators, one faulty, one registry change, three starts, two digests), configuration (each setting at its edges) | below |

*Why the bounds are enough.* Three heights give the task book a height below, at and above
`max_seen` with a slack of one, so both horizons bite; two requests and two tasks are what the
properties quantify over, and a queue of one already lets every sender order its message before or after
any handler (a message's position in the queue is the order of handling). For the router two
heights, one of them a leftover, give a foreign certificate, a re-assignment, a supersession and a pruned dedupe
entry; the slack is exactly the assumption's bound. Four participants is the least number with
f = 1; three tips separate the (f+1)-th highest report from its neighbours.
`counter`: two quorums that share a key make a cache hit meet a miss in one submission; two rounds let an orphan of the first land
while the second is submitted. `parts`: the four parts share no variable and the selector `part` never changes, so the run's states are the
sum of theirs; no property mentions more than one part. The reporter's slack is exactly its assumption's bound. The digest request's
budgets lie below, at and above the sums of the first waits and past the cap. Three starts are two nodes and the router, or
a restart of it. With one of the four faulty an honest node's absence already costs the quorum; two heights let a directive
for the higher one stand for a skip of the lower. The larger window 2 was run too (690 000 states,
no error) and adds only time. `agg_live` has one task because the counter source hands a restarted router the task it had (the
contract's round has not moved); with two, signatures can split between router lives as in `agg_split`.
`CHECK_DEADLOCK FALSE` in the runs of `Router` and `Aggregation`: the source can be exhausted (`run` returns),
and the models stop when the bounded heights are used up. In `parts` a digest request ends with its answer
and a configuration takes no step at all.

*What they show.*

* `taskbook`: `NoRequestLost`, `ParkedUndecided`, `FirstAnnouncementWins` and
  `ImplementsSkipRules`. Above both horizons the first announcement wins, an explicit Skip replaces it, and rule 2
  never overrules a directive that stands; below the reporter's floor a height may be pruned and recorded anew.
* `router`: `ResolvedExactlyOnce` (a conservation law over the reporter, both channels, the
  submitter and the sequencer), `ReleasedByQuorum`, `SubmitsOnlyCertified` (across crashes),
  `NoGapOpened` (across crashes: certificates form in height order, so the gap the header of
  `sequencer.rs:22-26` provides for is never opened by this router), `AssignsFreshHeights`.
* `router_live`: `DrivenHeightEnds` under the fairness below.
* `aggregation`: `OneCertificate`, and `ImplementsLedger`: nothing is certified that the router's own
  directives do not account for. `Router`'s environment certifies by this ledger's rule, so the two models meet in it.
* `agg_live`: `DrivenCertifies`.
* `counter`: `OperatorsAligned`, `SuccessMeansCounted`, `ImplementsExecution`, and `Progress`: under the fairness below the counter moves on from every round.
* `parts`: reporter `CountersExact`, `ObservedOnce`, `PruneBehindEngine`; digest request `AnswersInTime`, `GivesUpLate` ("in lockstep with the router"
  holds only up to the longest backoff), `SurvivesOutage`, `HeardIsAnswered`; scheme `PoolGenuine`, `CertificateMeansQuorum`,
  `AssembledVerifies`, `BlockedOnlyAcrossRegistries` (a correct operator is blocked only if it and the router read different
  registries); configuration `StartsUp`, `AckQuotaCoversDemand`.
* `tip_reports`: `SafeTipHonest`, `SafeTipSorted`, `SafeTipMonotone`, `LeavesDeadHeight`.

Every property of a passing run has a *mutant*: a named operator that changes one definition
the way a plausible bug would (`PROJECT.json`, "mutants"), with which the run finds the property
violated.

### Fairness

`Router`: weak fairness for each step of each actor, since all are tasks of a running executor and every
await ends; strong fairness for taking a resolution, because the `select!` is re-entered after each
tick and a ready branch is eventually chosen (a fresh sleep loses against a waiting message). Of the
environment: the operators certify the driven height and those below, their engine reports it, and
a directive below their tips is answered. The first is an assumption here: `agg_live` shows it while nothing times out, `agg_split` that it can fail.
The last is what `TipReports` shows.
`Aggregation`: while the router drives a height its rebroadcasts reach every honest node, so each answers for it and, by
the skip rules, for those below; honest nodes' signatures reach each other (`README.md:59-65` demands
reachability); journals are lost finitely often. Faulty operators never have to do anything, and
router restarts are not bounded: `DrivenCertifies` promises nothing of a height the router forgot.
`TipReports`: while a node stays above the driven height, rebroadcasts reach it, its answer
reaches the router and the next tick looks.
`NodeAutomaton`: the spawned task is polled and time passes, once the task book has answered; it need never answer.
`CounterChain`: the submitter's and the loop's own steps are weakly fair; strong fairness says that the outside world is not against
them for ever: again and again a read is fresh, the quorum sees the round and signs, an RPC call for the current round gets through, and
a transaction that is waited for lands. No fairness for orphans, crashes or supersessions. Restarts are bounded, so a liveness claim is about the time after the last one.

## Findings

* `task_book.rs:141-142` claims parked heights are `> max_seen`. A prune whose floor passes
  `max_seen` drops its directive, and a late subscription for `max_seen` then parks at it.
* Rule 1 of `sequencer.rs:7`, "Exactly one outstanding height at a time", is broken by a stale
  query: the tick reads "no certificate", the certificate arrives and its submission starts, the
  nodes report a higher tip, and the tick returns `Superseded`; the same task is assigned to the next
  height while it is being submitted. The conservation and submission properties hold all the same.
* Rule 2 of `sequencer.rs:12`, "Every assigned height MUST resolve to a certificate", needs more than
  Skip: a node answers and signs a height once, so a Skip that comes after it signed the task changes nothing. One
  silent operator and one failed validation among four leave two signatures for the task and one for Skip, and the height is
  driven for ever (`agg_split`; on the engine's word that it signs a height once).
* "The journal is safe to lose" (`README.md:67`): a node keeps nothing else of what it signed. Two of four honest
  operators that lose their journals give one height two certificates, which `router/src/reporter.rs:211-217`
  calls impossible under the fault assumptions (`agg_journal`). Losses count against the same
  (n-1)/3 as faults; within it, uniqueness is proved.

Also met while modelling, without a run of their own:

* `examples/counter/router/src/source.rs:5-7` says that a failed height leaves the round unchanged. A height is released as failed when a receipt could not be
  read; its transaction may land afterwards (`LandOrphan`), and the next poll then finds the round moved. `Progress` and
  `SuccessMeansCounted` do not depend on it.
* `router/src/executor.rs:46-48` speaks of a handler called without task data for a certificate this router did not announce. `Submitter` resolves such a certificate as
  foreign and never calls the handler (`ResolveForeign`).

## Proofs

TLAPS checks seven modules of theorems, and `CommonLemmas`, for every value of the constants that
meets the named assumptions of the modules (`TaskBookAssumption`, `ParticipantsAssumption`, `RouterAssumption`, ...).

* *Router.* `IInv` has four layers, each inductive given those before it. `Layer1` says where the sequencer is: an assignment
  exists only for the driven height, and what it consumed lies below `nextHeight`. `Layer2` says that whatever is queued, being submitted or
  resolved was certified as what it claims to be, and that an *executed* one carried the task then assigned (`OfAssigned`): the
  clone the submitter works on stays right although the entry may be gone. From it `ReleasesByQuorum` and
  `SubmitsCertified`. `Layer3` (`Gapless`) says that below every number the sequencer may take its next height from (its own counter, the
  reporter's tip, the safe tip, an answer on its way) all heights are certified, but for the driven one; hence `OpensNoGap`.
  `Layer4` partitions the forwarded certificates among the submitter's queue, the submission, the dispositions' queue and the consumed, without repeats,
  and says that the dedupe set still holds each that the engine may report again, which is where `PruneSlack >= ActivityTimeout + Window`
  enters: `ResolvesExactlyOnce`. `AssignsFresh` follows from the first layer and the guard of `Assign`.
* *Node reporter.* Two reports in the mailbox are at most `Lag = ActivityTimeout + Window - 1` out of order when the later one is a
  certificate (`InOrder`), and so is the tip made of those already taken (`NotTooLate`): the dedupe set, which is exactly the handled heights above the
  floor (`DedupeExact`), has not forgotten a height that comes again. From `IInv`: `CountedOnce`, `TappedOnce`, `PrunedBehind`.
* *Node automaton.* The next wait is no longer than the time gone by when the last call was made plus the first wait (`BackoffBounded`), so a node that
  gives up has used half its budget; every call but the first is made before the deadline (`CallsInTime`). From `IInv`:
  `AnsweredInTime`, `GivesUpNoSooner`, `OutageSurvived`.
* *Counter.* While misses are looked up each slot is empty or right (`SlotsRight`), the cache holds no other key's address, and a receipt
  is a success only when the contract is past its round. From `IInv`: `SlotsAligned`, `SuccessIsCounted`. The refinement
  `RefinesExecution` needs in addition (`PromiseInv`) that the rounds at hand are ones the contract has reached (`Reached`; a source that read ahead would
  break it), so that a refused one has been counted (`RefusedRight`), and that a transaction is awaited only while the submission says so: then every failed
  stage is one `Fail` (`FailIsFail`), whatever it cached or left in the mempool.
* *Configuration.* The rounding lemmas of `CommonLemmas` bound what a positive fraction, its reciprocal and a rounded-up quotient come to
  (`DefaultPeriod`, `CeilingCovers`); hence `AlwaysStartsUp` and `QuotaCoversDemand` for any environment, any width of integers above 8
  (the quota's own margin) and any tick.
* *Scheme.* `IInv` adds to the types that processes of one registry reading hold the same keys (`ViewsAgree`), that a pooled ack is the signature its
  index's operator makes (`Pooled`), and that an operator has one ack per digest (`OnePerSigner`). An existing signature is one product, so it passes for an
  operator's ack only if it is that operator's product (`VerifiedSingle`): `PoolIsGenuine`. Sums of different products are equal only if the products are
  the same (`BagTells`), so a certificate that verifies was summed from exactly its signers' products for that digest: `CertificateOfQuorum`. For
  `PoolAssembles` the sum over the sequence of acks is computed by least counterexample on the partial sums (`SumOfSingles`), and `SetToSeq` enters only as
  some sequence that lists each ack once. `BlockedAcrossRegistries` is the action property: with the same keys an honest ack verifies.
* *Task book.* The inductive invariant `IInv` adds to the properties what they need of the queue (a
  queued subscription is for a made request and occurs once, a queued floor was asked for) and
  `HandedOutStays`: a task handed out for a live height is still the recorded directive, or Skip has replaced it.
  Without it `FirstAnnouncementWins` is not inductive, for the log alone does not say what earlier
  requests were told. `StandingOK` ties the trimmed log to the rules: where neither horizon has passed it holds
  what stands, more than the slack below `max_seen` it holds nothing, and nothing was heard above `max_seen`.
  From `IInv`: `TypeCorrect`, `RequestsKept`, `ParkedAreUndecided`,
  `OneTaskPerHeight`, and `RefinesSkipRules`, the step simulation of `SkipRules` (`DirectivePermitted` for the
  parked requests a directive releases, `SubscribePermitted` for a late one).
* *Tip reports.* `IInv` says that a stranger leaves no entry and that an honest participant's entry
  is a report it sent. More than f entries at or above the safe tip, at most f faulty: one is honest
  (`HonestAmong`). `SafeTip` is well defined because a nonempty bounded set of naturals has a
  greatest element, taken from the well-foundedness of `<`. In any descending order of the recorded entries the first i reach the i-th and only they
  exceed it, which gives `SafeTipIsSorted`; that such an order exists for every set of peers is a least counterexample. `SafeTipNeverFalls` compares the sets of
  peers that reach the old safe tip before and after a step.
* *Aggregation.* `IInv`: every signature an honest node sent is accounted for by the directives, one of a node that
  kept its journal is the one in its journal, at most `MaxLosses` nodes lost theirs, and a certificate has a quorum of
  signers. Two quorums share more than f nodes (`QuorumsMeet`); if faults and lost journals together are at
  most f (`FewLosses`), one of those is honest with its journal, and signed one digest: `CertificatesUnique`.
  A quorum has an honest signer (`HonestSigner`), so what is certified is accounted for; with uniqueness
  this makes every step one of the ledger's: `RefinesLedger`. `agg_journal` shows that `FewLosses` is needed.

Only model-checked: the liveness properties `DrivenHeightEnds`, `LeavesDeadHeight`, `DrivenCertifies`, `Progress` and `HeardIsAnswered`, which rest on
fairness (TLAPS reasons neither about fairness nor about `ENABLED`). Every invariant, action property and refinement that a passing run checks is a theorem. The type
invariants of `NodeReporter` and `NodeAutomaton` are theorems that no run repeats.

## Not modelled, and why

Byte codecs (wire, certificate and key encodings), curve arithmetic, hash-to-curve and key derivation, metrics (dispatch times included)
and generated bindings: no protocol state, or out of TLC's reach. `convert_non_signer_data` copies a struct field by field.
Command line, key files, peer sockets, the deployment file, the storage directory and the RPC clients of the applications: I/O. Stakes and thresholds are
read from the registry but decide nothing in this code. The scripts drive an end-to-end test.
The `Closed` outcome of `drive_height` and poisoned locks: the process is going down. The router reporter's
defensive re-verification and its conflicting-digest branch: unreachable while a height has one certificate. The ingest loop's filter by
sender and its `beyond_window` warning: no other sender exists in the model, and the warning changes no state.
`pubkeyHashToOperator` answering zero for a key it does not know yet: the models' chain never answers for a block before the
operator set was read. Mailbox overflow is unbounded in the code (`Policy::handle` never drops); the models bound it.

## What is left

`Router`'s submitter and `Execution` describe the same attempts, the first without a chain and the second without heights; a refinement between them needs
a common notion of which round a task stands for. `Scheme`'s quorum could be joined with `Aggregation`'s, which takes signatures to be genuine. Both are
stated here only by the correspondence of their definitions.
