------------------------------- MODULE MCJobs -------------------------------
(* Model-checking instances of Jobs. *)
EXTENDS Jobs, TLC

WorkerSymmetry == Permutations(Workers)
NodeSymmetry == Permutations(Nodes)
=============================================================================
