-------------------------- MODULE MCMutationLease --------------------------
(***************************************************************************)
(* MutationLease with three processes; the processes are interchangeable,  *)
(* and so are the regular files.                                           *)
(***************************************************************************)
EXTENDS MutationLease, TLC

CONSTANTS lock1, lock2, lock3, fifo

Symmetric == Permutations(Process) \cup Permutations({lock1, lock2, lock3})
=============================================================================
