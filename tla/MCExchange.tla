----------------------------- MODULE MCExchange -----------------------------
(* The instance of Exchange for TLC. *)
EXTENDS Exchange

\* CASE: the initiator retransmits, and a late opener starts a second attempt.
\* PASE, one round more: the network duplicates datagrams instead.
MCHandshakes ==
    {[rounds |-> 2, retries |-> 1, dups |-> 0, adopts |-> 2],
     [rounds |-> 3, retries |-> 0, dups |-> 2, adopts |-> 1]}

\* Below, and far above, the counters another attempt of the device has used.
MCStarts == {1, 100}
=============================================================================
