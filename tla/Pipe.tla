-------------------------------- MODULE Pipe --------------------------------
(***************************************************************************)
(* What a ReliableChannel (mat-controller/src/transport.rs) promises to    *)
(* the code above it: two ends, every message handed over whole, once and  *)
(* in order, until the channel breaks for good.  The layers above rely on  *)
(* it: over such a transport they neither retransmit nor acknowledge.      *)
(***************************************************************************)
EXTENDS Naturals, Sequences

CONSTANTS Ends, Other(_), Messages

VARIABLES
    sent,   \* sent[e]: the messages end e has put in
    got,    \* got[e]: the messages handed to end e
    state   \* "new", "up" or, for good, "broken"

pipeVars == <<sent, got, state>>

Init ==
    /\ sent = [e \in Ends |-> << >>]
    /\ got = [e \in Ends |-> << >>]
    /\ state = "new"

Open == state = "new" /\ state' = "up" /\ UNCHANGED <<sent, got>>

Put(e) ==
    /\ state = "up"
    /\ \E msg \in Messages : sent' = [sent EXCEPT ![e] = Append(@, msg)]
    /\ UNCHANGED <<got, state>>

Take(e) ==
    /\ state = "up"
    /\ Len(got[e]) < Len(sent[Other(e)])
    /\ got' = [got EXCEPT ![e] = Append(@, sent[Other(e)][Len(@) + 1])]
    /\ UNCHANGED <<sent, state>>

Break == state # "broken" /\ state' = "broken" /\ UNCHANGED <<sent, got>>

Next == Open \/ Break \/ \E e \in Ends : Put(e) \/ Take(e)

Spec == Init /\ [][Next]_pipeVars
=============================================================================
