---------------------------- MODULE MCTaskBook ----------------------------
(* TaskBook on three heights with a slack of one, two tasks (so that two   *)
(* announcements can conflict) and two requests.                           *)
EXTENDS TaskBook

CONSTANTS t1, t2, r1, r2

MCTasks == {t1, t2}
MCRequests == {r1, r2}
MCOneRequest == {r1}
=============================================================================
