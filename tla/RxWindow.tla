------------------------------ MODULE RxWindow ------------------------------
(***************************************************************************)
(* One RxWindow fed with counters in any order, any number of times: the   *)
(* network duplicates and reorders, and the sender retransmits a datagram  *)
(* with the counter it was first sealed with.  times[c] is a history       *)
(* variable: how often check_and_commit(c) answered true, that is, how     *)
(* often the message with counter c was handed to the layer above.         *)
(***************************************************************************)
EXTENDS ReplayWindow

CONSTANT Counters

ASSUME CountersAssumption == Counters \subseteq Nat

VARIABLES win, times

windowVars == <<win, times>>

WindowInit ==
    /\ win = NewWindow
    /\ times = [c \in Counters |-> 0]

\* check_and_commit(c) answering true; answering false changes nothing.
CheckAndCommit(c) ==
    /\ Fresh(win, c)
    /\ win' = Commit(win, c)
    /\ times' = [times EXCEPT ![c] = @ + 1]

WindowNext == \E c \in Counters : CheckAndCommit(c)

WindowSpec == WindowInit /\ [][WindowNext]_windowVars
-----------------------------------------------------------------------------
Seen == {c \in Counters : times[c] > 0}

\* The window is a u32 counter and a u32 bitmap; times counts.
WindowTypeOK ==
    /\ win \in RxWindow
    /\ times \in [Counters -> Nat]

\* The bitmap tells the truth about every counter up to Width - 1 behind max,
\* after any run of shifts and out-of-order commits; the last bit (the counter
\* Width behind) never claims a counter that was not accepted.
WindowExact ==
    /\ win.empty => Seen = {} /\ win.bitmap = {}
    /\ ~win.empty => win.max \in Seen
    /\ \A c \in Seen : c <= win.max
    /\ \A b \in win.bitmap : win.max - 1 - b \in Seen
    /\ \A c \in Seen : c < win.max /\ win.max - c < Width
                          => win.max - c - 1 \in win.bitmap

\* No false duplicate: a counter that was never accepted and is not older than
\* the window is accepted (check_and_commit drops, and its callers still
\* acknowledge, what it takes for a duplicate: a false one is a lost message).
NewIsAccepted ==
    \A c \in Counters :
        c \notin Seen /\ (win.empty \/ c >= win.max - Width) => Fresh(win, c)

\* A duplicate of the newest counter, of any counter less than Width behind it
\* or of one older than the window is rejected.
DuplicateIsRejected ==
    \A c \in Seen : win.max - c # Width => ~Fresh(win, c)

\* What the callers of check_and_commit rely on: no message is lost to a false
\* duplicate and none is taken twice, after any sequence of jumps.  The
\* counter exactly Width behind the newest is left out (see AtMostOnce).
VerdictsRight == NewIsAccepted /\ DuplicateIsRejected

\* "Returns true (and commits) if the counter is fresh; false on duplicates and
\* on counters older than the window" (counter.rs): no message is accepted
\* twice.
AtMostOnce ==
    \A c \in Counters : times[c] <= 1
=============================================================================
