---------------------------- MODULE MCTipReports ----------------------------
(* TipReports with four participants, one of them faulty (f = 1), and one  *)
(* stranger, on three heights.                                             *)
EXTENDS TipReports

CONSTANTS n1, n2, n3, n4, s1

MCNodes == {n1, n2, n3, n4}
MCFaulty == {n4}
MCStrangers == {s1}
=============================================================================
