-------------------------------- MODULE MCBtp -------------------------------
(* The instance of Btp for TLC. *)
EXTENDS Btp

\* Messages of the central and of the peripheral.
MCMessages == [e \in Ends |-> IF e = "c" THEN 2 ELSE 1]
=============================================================================
