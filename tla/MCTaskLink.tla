----------------------------- MODULE MCTaskLink -----------------------------
(***************************************************************************)
(* TaskLink for TLC: one task, for a worker that may be silent.            *)
(***************************************************************************)
EXTENDS TaskLink

CONSTANT c1

OneTask == [m \in {"task", "stream"} |-> IF m = "task" THEN {c1} ELSE {}]
=============================================================================
