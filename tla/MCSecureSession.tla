--------------------------- MODULE MCSecureSession --------------------------
(* An instance of SecureSession for TLC. *)
EXTENDS SecureSession

\* Two buffered requests beside a read, a timed interaction beside a read and
\* a subscribe, and enough requests to overflow the buffers.
MCScripts ==
    {[open |-> <<"Read", "Invoke", "Invoke">>, repeats |-> 1],
     [open |-> <<"Timed", "Read">>, repeats |-> 1],
     [open |-> <<"Subscribe", "Timed">>, repeats |-> 1],
     [open |-> <<"Invoke", "Invoke", "Invoke", "Invoke">>, repeats |-> 0]}
=============================================================================
