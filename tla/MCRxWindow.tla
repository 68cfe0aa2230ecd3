----------------------------- MODULE MCRxWindow -----------------------------
(* Instances of RxWindow for TLC. *)
EXTENDS RxWindow

\* Past three window widths of 3: every shift distance, in the window and out.
MCSmall == 0 .. 10

\* Both ends and the edges of the code's window of 32, and a little beyond.
MCEdges == {0, 1, 30, 31, 32, 33, 34, 64, 65}
=============================================================================
