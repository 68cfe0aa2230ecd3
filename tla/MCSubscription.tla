--------------------------- MODULE MCSubscription ---------------------------
(* The instance of Subscription that TLC checks; its values are in the cfg. *)
EXTENDS Subscription
=============================================================================
