--------------------------- MODULE MCPoolManager ---------------------------
(* PoolManager for TLC: two tasks and small sub-pools. *)
EXTENDS PoolManager, TLC

CONSTANTS t1, t2

TwoTasks == {t1, t2}
Symmetric == Permutations(Tasks)

OneSizes == <<1, 3>>
OneNumbers == <<1, 2>>
=============================================================================
