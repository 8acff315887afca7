----------------------------- MODULE MCThreadPool -----------------------------
(* ThreadPool for TLC, with the workers interchangeable in the safety run. *)
EXTENDS ThreadPool, TLC

WorkerSymmetry == Permutations(Workers)

===============================================================================
