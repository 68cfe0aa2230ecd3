--------------------------- MODULE MCCommission ---------------------------
(* Two processes and two devices; one file more than can be held open. *)
EXTENDS Commission, TLC

Symmetry == Permutations(Procs) \cup Permutations(Devices) \cup Permutations(Inodes)
===========================================================================
