---------------------------- MODULE Participants ----------------------------
(* The operator set and the N3f1 fault rule every part of the system uses: *)
(* of n participants at most f = (n-1)/3 are faulty, n - f are a quorum.   *)
EXTENDS Integers, FiniteSets

CONSTANTS Nodes,        \* the quorum participants
          Faulty        \* those that sign and send anything

Honest == Nodes \ Faulty

\* participant_count.saturating_sub(1) / 3
MaxFaults == IF Cardinality(Nodes) = 0 THEN 0 ELSE (Cardinality(Nodes) - 1) \div 3
Quorum == Cardinality(Nodes) - MaxFaults

ASSUME ParticipantsAssumption ==
    /\ IsFiniteSet(Nodes) /\ Nodes # {}
    /\ Faulty \subseteq Nodes
    /\ Cardinality(Faulty) <= MaxFaults
=============================================================================
