--------------------------- MODULE MCWorkerLease ---------------------------
(* Instance of WorkerLease for TLC: two workers of one task. *)
EXTENDS WorkerLease, TLC

MCTaskOf == [s \in SubjectIds |-> "task"]
MCSymmetry == Permutations(SubjectIds) \cup Permutations(Controllers)
=============================================================================
