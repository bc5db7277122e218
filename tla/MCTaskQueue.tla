----------------------------- MODULE MCTaskQueue -----------------------------
(* A small instance of TaskQueue for TLC. *)
EXTENDS TaskQueue, TLC

TQSymmetry == Permutations(Threads) \cup Permutations(Tasks)

==============================================================================
