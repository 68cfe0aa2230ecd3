--------------------------- MODULE MCIpkRotation ---------------------------
(* Instances of IpkRotation for TLC. *)
EXTENDS IpkRotation, TLC

KeySymmetry == Permutations(Epochs \ {Default}) \cup Permutations(Nodes)
=============================================================================
