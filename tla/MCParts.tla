------------------------------- MODULE MCParts -------------------------------
(* The parts that only share their process: the node's reporter, one of    *)
(* its digest requests, the certificate scheme, the configuration.  Each   *)
(* behaviour runs one of them and leaves the others at their first state,  *)
(* so the states are the sum of the parts' states and not their product.   *)
EXTENDS NodeReporter, NodeAutomaton, Scheme, Config

VARIABLE part

MCSkipHeights == {1}
MCBudgets == {0, 1, 2, 3, 20, 31, 60}
MCHealthyTimes == {0, 3, 18, 48, 70}

MCOperators == {1, 2, 3, 4}
MCFounders == {2, 3, 4}

NoSettings == [s \in {"round", "interval", "rate", "window", "backlog", "polling",
                      "timeout", "override"} |-> Unset]
Fraction(nums, dens) == [num : nums, den : dens]
Either(settings) == {Unset, Malformed} \cup settings
Wholes == Either(Fraction({-1, 0, 1, 7, 60, 300}, {1}))
Reals == Wholes \cup Fraction({1}, {0, 3, 9, 300})

\* The quota depends on three settings together, each other result on one.
Environments ==
    {[NoSettings EXCEPT !.interval = i, !.timeout = t, !.override = o] :
        i \in Reals, t \in Wholes, o \in Either(Fraction({0, 3, 256}, {1}))}
    \cup {[NoSettings EXCEPT !.round = r, !.rate = r, !.interval = r] : r \in Reals}
    \cup {[NoSettings EXCEPT !.window = w, !.backlog = w, !.polling = w] : w \in Wholes}

First(p) ==
    /\ p # "reporter" => tapOpen
    /\ p # "automaton" => budget = 0 /\ healthyFrom = 0 /\ valid

Init ==
    /\ part \in {"reporter", "automaton", "scheme", "config"}
    /\ ReporterInit /\ AutomatonInit /\ SchemeInit
    /\ environment \in IF part = "config" THEN Environments ELSE {NoSettings}
    /\ First(part)

vars == <<part, reporterVars, automatonVars, schemeVars, environment>>

Next ==
    \/ part = "reporter" /\ ReporterNext
       /\ UNCHANGED <<part, automatonVars, schemeVars, environment>>
    \/ part = "automaton" /\ AutomatonNext
       /\ UNCHANGED <<part, reporterVars, schemeVars, environment>>
    \/ part = "scheme" /\ SchemeNext
       /\ UNCHANGED <<part, reporterVars, automatonVars, environment>>

Spec == Init /\ [][Next]_vars /\ AutomatonFairness
=============================================================================
