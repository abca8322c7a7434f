---------------------------- MODULE NodeAutomaton ---------------------------
(***************************************************************************)
(* One digest request of the node's aggregation engine                     *)
(* (node/src/automaton.rs, `resolve` and `digest_for_announce`): wait for  *)
(* the TaskBook's resolution of the height, validate an announced task,    *)
(* retry errors with doubling backoff inside the retry budget, and sign    *)
(* the skip digest when the budget cannot take the next wait.  Requests of *)
(* other heights run concurrently and share nothing.                       *)
(*                                                                         *)
(* Time counts from the moment the TaskBook answered, in units of the      *)
(* first backoff.  External: what the TaskBook answers (TaskBook.tla), and *)
(* the validator, whose calls take up to MaxLatency (the code sets them no *)
(* timeout) and may fail when made before HealthyFrom; a task it finds     *)
(* invalid fails always, and the automaton cannot tell the two apart.      *)
(***************************************************************************)
EXTENDS Integers

CONSTANTS FirstBackoff,   \* INITIAL_RETRY_BACKOFF
          MaxBackoff,     \* MAX_RETRY_BACKOFF
          MaxLatency,     \* external: the longest validator call
          Budgets,        \* retry budgets (ROUND_TIMEOUT_SECS)
          HealthyTimes    \* external: when the validator may have recovered

ASSUME NodeAutomatonAssumption ==
    /\ FirstBackoff \in Nat \ {0} /\ MaxBackoff \in Nat /\ FirstBackoff <= MaxBackoff
    /\ MaxLatency \in Nat
    /\ Budgets \subseteq Nat /\ HealthyTimes \subseteq Nat

VARIABLES
    stage,        \* where `resolve` is
    resolution,   \* what the TaskBook answered
    elapsed,      \* time since the resolution came
    callStart,    \* when the validator call in flight, or the last, was made
    wakeAt,       \* when the sleep ends
    backoff,      \* the next wait
    budget,       \* retry_budget, which is also the deadline
    healthyFrom,  \* external: calls made from then on do not fail
    valid,        \* external: the validator accepts the task
    answer        \* what the engine was sent

automatonVars == <<stage, resolution, elapsed, callStart, wakeAt, backoff, budget,
                   healthyFrom, valid, answer>>
timing == <<elapsed, callStart, wakeAt, backoff>>
world == <<budget, healthyFrom, valid>>

AutomatonTypeOK ==
    /\ stage \in {"subscribing", "calling", "sleeping", "answered", "abandoned"}
    /\ resolution \in {"none", "announce", "skip"}
    /\ elapsed \in Nat /\ callStart \in Nat /\ wakeAt \in Nat /\ backoff \in Nat
    /\ budget \in Budgets /\ healthyFrom \in HealthyTimes /\ valid \in BOOLEAN
    /\ answer \in {"none", "task", "skip"}

AutomatonInit ==
    /\ stage = "subscribing" /\ resolution = "none" /\ answer = "none"
    /\ elapsed = 0 /\ callStart = 0 /\ wakeAt = 0 /\ backoff = FirstBackoff
    /\ budget \in Budgets /\ healthyFrom \in HealthyTimes /\ valid \in BOOLEAN

-----------------------------------------------------------------------------

Send(d) ==
    /\ answer' = d
    /\ stage' = "answered"

\* The height was skipped: nothing to validate.
HearSkip ==
    /\ stage = "subscribing"
    /\ resolution' = "skip"
    /\ Send("skip")
    /\ UNCHANGED <<timing, world>>

\* The TaskBook is gone: the request is dropped, not left pending.
BookGone ==
    /\ stage = "subscribing"
    /\ stage' = "abandoned"
    /\ UNCHANGED <<resolution, timing, world, answer>>

HearTask ==
    /\ stage = "subscribing"
    /\ resolution' = "announce"
    /\ stage' = "calling"
    /\ UNCHANGED <<timing, world, answer>>

CallSucceeds ==
    /\ stage = "calling"
    /\ valid
    /\ Send("task")
    /\ UNCHANGED <<resolution, timing, world>>

CallFails ==
    /\ stage = "calling"
    /\ ~valid \/ callStart < healthyFrom

\* Mutant of Retry: the next wait is not counted against the deadline.
RetryPastDeadline ==
    /\ CallFails
    /\ elapsed < budget
    /\ stage' = "sleeping"
    /\ wakeAt' = elapsed + backoff
    /\ UNCHANGED <<resolution, elapsed, callStart, backoff, world, answer>>

Retry ==
    /\ CallFails
    /\ elapsed + backoff < budget
    /\ stage' = "sleeping"
    /\ wakeAt' = elapsed + backoff
    /\ UNCHANGED <<resolution, elapsed, callStart, backoff, world, answer>>

GiveUp ==
    /\ CallFails
    /\ elapsed + backoff >= budget
    /\ Send("skip")
    /\ UNCHANGED <<resolution, timing, world>>

\* Mutant of Wake: the backoff doubles without its ceiling.
WakeUncapped ==
    /\ stage = "sleeping"
    /\ elapsed = wakeAt
    /\ stage' = "calling"
    /\ callStart' = elapsed
    /\ backoff' = 2 * backoff
    /\ UNCHANGED <<resolution, elapsed, wakeAt, world, answer>>

\* Mutant of Wake: a timer that never fires.
WakeNever ==
    /\ stage = "sleeping"
    /\ elapsed > wakeAt
    /\ UNCHANGED automatonVars

Wake ==
    /\ stage = "sleeping"
    /\ elapsed = wakeAt
    /\ stage' = "calling"
    /\ callStart' = elapsed
    /\ backoff' = IF 2 * backoff > MaxBackoff THEN MaxBackoff ELSE 2 * backoff
    /\ UNCHANGED <<resolution, elapsed, wakeAt, world, answer>>

\* Time passes, within a call or a sleep.
Tick ==
    /\ \/ stage = "calling" /\ elapsed < callStart + MaxLatency
       \/ stage = "sleeping" /\ elapsed < wakeAt
    /\ elapsed' = elapsed + 1
    /\ UNCHANGED <<stage, resolution, callStart, wakeAt, backoff, world, answer>>

Resolve ==
    \/ HearSkip \/ BookGone \/ HearTask
    \/ CallSucceeds \/ Retry \/ GiveUp \/ Wake

AutomatonNext == Resolve \/ Tick

AutomatonSpec == AutomatonInit /\ [][AutomatonNext]_automatonVars

\* The spawned task is polled and time passes; the TaskBook need never answer.
AutomatonFairness ==
    WF_automatonVars(stage # "subscribing" /\ (Resolve \/ Tick))

-----------------------------------------------------------------------------
(* Properties.                                                             *)

\* The budget is overrun by one validator call at most: no call is made at or
\* after the deadline but the first (automaton.rs:184-201).
AnswersInTime ==
    stage = "answered" =>
        elapsed <= (IF budget = 0 THEN 0 ELSE budget - 1) + MaxLatency

\* The node "gives up in lockstep with the router" (automaton.rs:87-89) only
\* roughly: never before half the budget is gone, and never more than
\* MaxBackoff early.
GaveUp == resolution = "announce" /\ answer = "skip"
GivesUpLate ==
    GaveUp => /\ 2 * elapsed + FirstBackoff >= budget
              /\ elapsed + MaxBackoff >= budget

\* A validator that recovers MaxBackoff and a call before the deadline never
\* costs the height its task (automaton.rs:178-183).
SurvivesOutage ==
    valid /\ healthyFrom + MaxLatency + MaxBackoff <= budget => ~GaveUp

\* A validator that is never back in time, or a task that is never valid, does
\* not wedge the height: a heard task is answered for in the end.
HeardIsAnswered == (stage = "calling") ~> (stage = "answered")
=============================================================================
