------------------------------- MODULE Config -------------------------------
(***************************************************************************)
(* How the counter applications read their tuning from the environment     *)
(* (examples/counter/common/src/config.rs) and what their `main`s make of  *)
(* it.  No constructor they call at start-up may panic, nor the engine get *)
(* a zero, whatever the operator of a process wrote.  (What a value does   *)
(* later, as a huge round timeout added to the time, is not asked here.)   *)
(*                                                                         *)
(* A setting is Unset, Malformed, or a fraction num/den, den = 0 standing  *)
(* for an infinite float.  Durations are whole ticks, Second of them a     *)
(* second, as nanoseconds are in the code; u32 and Duration keep a maximum *)
(* so that the saturating and overflowing cases are small numbers.         *)
(***************************************************************************)
EXTENDS Integers

CONSTANTS Unset, Malformed,
          Second,           \* ticks per second
          MaxDuration,      \* the longest Duration, in ticks
          MaxU32,           \* u32::MAX
          DefaultRate, DefaultBacklog, DefaultWindow, DefaultTimeout, DefaultPolling,
          DefaultRound, DefaultInterval     \* the DEFAULT_ constants, in seconds

ASSUME ConfigAssumption ==
    /\ Second \in Nat \ {0} /\ MaxDuration \in Nat /\ MaxU32 \in Nat \ 0 .. 8
    /\ {DefaultRate, DefaultBacklog, DefaultWindow, DefaultRound, DefaultInterval} \subseteq Nat \ {0}
    /\ DefaultRate <= Second /\ {DefaultTimeout, DefaultPolling} \subseteq Nat
    /\ \A seconds \in {DefaultRound, DefaultInterval} : seconds * Second <= MaxDuration

\* What a setting can be, and everything a process can find.
Fractions == [num : Int, den : Nat]
Settings == {Unset, Malformed} \cup Fractions
AnyEnvironment ==
    [round : Settings, interval : Settings, rate : Settings, window : Settings,
     backlog : Settings, polling : Settings, timeout : Settings, override : Settings]

IsNumber(s) == s \notin {Unset, Malformed}
Whole(s) == IsNumber(s) /\ s.den = 1 /\ s.num >= 0

AtMost(n, limit) == IF n < limit THEN n ELSE limit
Ceiling(a, b) == (a + b - 1) \div b

\* Duration::try_from_secs_f64 rounds to the nearest tick.
Ticks(num, den) == (2 * num * Second + den) \div (2 * den)

\* num/den seconds when that is a positive duration there is.
PositiveDuration(num, den, default) ==
    IF num > 0 /\ den > 0 /\ Ticks(num, den) \in 1 .. MaxDuration
    THEN Ticks(num, den) ELSE default * Second

SecondsSetting(s, default) ==
    IF IsNumber(s) THEN PositiveDuration(s.num, s.den, default) ELSE default * Second

round_timeout(env) == SecondsSetting(env.round, DefaultRound)

rebroadcast_interval(env) == SecondsSetting(env.interval, DefaultInterval)

\* Mutant of p2p_quota_period: a rate that is positive makes a period.
PeriodUnchecked(env) ==
    IF IsNumber(env.rate) /\ env.rate.num > 0 /\ env.rate.den > 0
    THEN Ticks(env.rate.den, env.rate.num) ELSE Ticks(1, DefaultRate)

\* The period is the reciprocal of the rate.
p2p_quota_period(env) ==
    LET fallback == Ticks(1, DefaultRate)
    IN  IF IsNumber(env.rate) /\ env.rate.num > 0 /\ env.rate.den > 0
             /\ Ticks(env.rate.den, env.rate.num) \in 1 .. MaxDuration
        THEN Ticks(env.rate.den, env.rate.num) ELSE fallback

\* In milliseconds; a zero is taken as it is.
polling_interval(env) == IF Whole(env.polling) THEN env.polling.num ELSE DefaultPolling

p2p_message_backlog(env) ==
    IF Whole(env.backlog) /\ env.backlog.num > 0 THEN env.backlog.num ELSE DefaultBacklog

agg_window(env) ==
    IF Whole(env.window) /\ env.window.num > 0 THEN env.window.num ELSE DefaultWindow

agg_activity_timeout(env) ==
    IF Whole(env.timeout) THEN env.timeout.num ELSE DefaultTimeout

\* `as u32` saturates, and so do the doubling and the addition.
Demand(env) ==
    AtMost(Ceiling(agg_activity_timeout(env) * Second, rebroadcast_interval(env)), MaxU32)

\* Mutant of AckQuota: wrapping arithmetic.
AckQuotaWrapping(env) == (2 * Demand(env) + 8) % (MaxU32 + 1)

AckQuota(env) == AtMost(AtMost(2 * Demand(env), MaxU32) + 8, MaxU32)

Overridden(env) == Whole(env.override) /\ env.override.num \in 1 .. MaxU32

ack_messages_per_second(env) ==
    IF Overridden(env) THEN env.override.num
    ELSE IF AckQuota(env) < 8 THEN 8 ELSE AckQuota(env)

-----------------------------------------------------------------------------
VARIABLE environment    \* the settings a process finds, never changed

\* What the two `main`s hand to the network, the engine and the actors.
NodeStartUp(env) ==
    [directivePeriod |-> p2p_quota_period(env), ackQuota |-> ack_messages_per_second(env),
     backlog |-> p2p_message_backlog(env), window |-> agg_window(env),
     activityTimeout |-> agg_activity_timeout(env), rebroadcast |-> rebroadcast_interval(env),
     reportInterval |-> rebroadcast_interval(env), timeout |-> round_timeout(env)]

RouterStartUp(env) ==
    [directivePeriod |-> p2p_quota_period(env), ackQuota |-> ack_messages_per_second(env),
     backlog |-> p2p_message_backlog(env), window |-> agg_window(env),
     activityTimeout |-> agg_activity_timeout(env), rebroadcast |-> rebroadcast_interval(env),
     pollInterval |-> polling_interval(env), timeout |-> round_timeout(env)]

\* Read once, whatever it is.
ConfigSpec == environment \in AnyEnvironment /\ [][UNCHANGED environment]_environment

-----------------------------------------------------------------------------
(* Properties.                                                             *)

\* No setting panics a process or hands the engine a zero: Quota::with_period,
\* NonZeroDuration::new_panic and the two non-zero integers all get what they
\* ask for (node app.rs:295-299, 400-404, router app.rs:250-254, 292-296).
StartsUp ==
    \A got \in {NodeStartUp(environment), RouterStartUp(environment)} :
        /\ {got.directivePeriod, got.rebroadcast, got.timeout} \subseteq 1 .. MaxDuration
        /\ got.window > 0 /\ got.backlog > 0
        /\ got.ackQuota \in 1 .. MaxU32

\* Unless it was overridden the ack quota leaves twice the engine's steady
\* demand, every tracked height's ack once per rebroadcast interval, or is all
\* a u32 holds; an undersized quota drops acks silently (config.rs:195-219).
AckQuotaCoversDemand ==
    ~Overridden(environment) =>
        LET quota == ack_messages_per_second(environment)
        IN  \/ quota = MaxU32
            \/ quota * rebroadcast_interval(environment)
                 >= 2 * agg_activity_timeout(environment) * Second
=============================================================================
