---------------------------- MODULE MCGroupcast -----------------------------
(* Instances of Groupcast for TLC. *)
EXTENDS Groupcast, TLC

\* Below and above g/gdc, and so close to the wrap that each of the following
\* additions passes it in some behaviour.
MCFiles == {0, 59, 62}

MCSymmetry == Permutations(Procs) \cup Permutations(Egress)
=============================================================================
