----------------------------- MODULE WarmSession ----------------------------
(***************************************************************************)
(* The warm CASE session of one node in matd (matd/src/native.rs) and the  *)
(* operations of the daemon's clients on it (handle_conn in                *)
(* matd/src/server/mod.rs).  Nodes do not share anything, so there is one. *)
(*                                                                         *)
(* The slot is guarded by a tokio Mutex, which is fair: a guard that is    *)
(* dropped hands the lock to the task that waits longest, so that try_lock *)
(* fails as long as anybody waits.  `queue' holds the tasks, the holder    *)
(* first.  An operation is a future: when its client leaves it is dropped  *)
(* where it stands, and abort_op follows as a step of its own.             *)
(*                                                                         *)
(* What an operation asks of the device is on the wire from the moment it  *)
(* is sent; the device executes it at most once per session                *)
(* (SecureSession!ExecutedOnce), at any later time or never.               *)
(***************************************************************************)
EXTENDS Naturals, Sequences, FiniteSets

CONSTANTS Ops  \* operations, each of a connection of its own

ASSUME OpsFinite == IsFiniteSet(Ops)

VARIABLES
    slot,    \* the session kept warm, 0 for none
    queue,   \* the operations at the Mutex, its holder first
    op,      \* op[o]: where with_session_inner is
    count,   \* sessions established so far
    wire,    \* <<o, s>>: operation o was sent over session s
    applied, \* those of wire the device has executed
    touched, \* sessions reported to on_new_session
    expired, \* history: sessions on which a send timed out
    broken,  \* history: sessions that failed in another way
    half     \* history: sessions an operation was dropped on in mid-exchange

vars == <<slot, queue, op, count, wire, applied, touched, expired, broken, half>>
history == <<expired, broken, half>>

Sessions == 1 .. 2 * Cardinality(Ops)
Holder == IF queue = << >> THEN {} ELSE {Head(queue)}
Sending == {"send", "resend"}
Establishing == {"establish", "reestablish"}
Running == {"queued"} \cup Sending \cup Establishing

At(o, states) == o \in Holder /\ op[o].st \in states
-----------------------------------------------------------------------------
\* dispatch reaches with_session and asks for the lock.
Arrive(o) ==
    /\ op[o].st = "idle"
    /\ op' = [op EXCEPT ![o].st = "queued"]
    /\ queue' = Append(queue, o)
    /\ UNCHANGED <<slot, count, wire, applied, touched, history>>

\* The operation sends over session s.
Send(o, s, state, new) ==
    /\ op' = [op EXCEPT ![o] = [st |-> state, new |-> new]]
    /\ wire' = wire \cup {<<o, s>>}

\* slot.lock(): a warm session is used as it is.
Lock(o) ==
    /\ At(o, {"queued"})
    /\ IF slot = 0
       THEN op' = [op EXCEPT ![o].st = "establish"] /\ UNCHANGED wire
       ELSE Send(o, slot, "send", {})
    /\ UNCHANGED <<slot, queue, count, applied, touched, history>>

\* establish, the first time or before the one resend.
Establish(o) ==
    /\ At(o, Establishing)
    /\ count' = count + 1
    /\ slot' = count + 1
    /\ Send(o, count + 1, IF op[o].st = "establish" THEN "send" ELSE "resend",
            op[o].new \cup {count + 1})
    /\ UNCHANGED <<queue, applied, touched, history>>

\* Mutant: on_new_session is called for successful operations only.
ReturnQuietly(o, result) ==
    /\ op' = [op EXCEPT ![o].st = result]
    /\ queue' = Tail(queue)
    /\ touched' = IF result = "done" THEN touched \cup op[o].new ELSE touched

\* with_session_inner returns, the lock is released, and with_session reports
\* what was established.
Return(o, result) ==
    /\ op' = [op EXCEPT ![o].st = result]
    /\ queue' = Tail(queue)
    /\ touched' = touched \cup op[o].new

EstablishFails(o) ==
    /\ At(o, Establishing)
    /\ Return(o, "failed")
    /\ UNCHANGED <<slot, count, wire, applied, history>>

\* The device executes what reached it.
DeviceApplies(w) ==
    /\ w \in wire \ applied
    /\ applied' = applied \cup {w}
    /\ UNCHANGED <<slot, queue, op, count, wire, touched, history>>

\* An answer: success, or DeviceRejected or ParseError, with which the session
\* is known to work.
Answer(o) ==
    /\ At(o, Sending) /\ <<o, slot>> \in applied
    /\ \E result \in {"done", "failed"} : Return(o, result)
    /\ UNCHANGED <<slot, count, wire, applied, history>>

\* Mutant: the session of a resend that timed out stays.
SendExpiresKeeps(o) ==
    /\ At(o, Sending)
    /\ expired' = expired \cup {slot}
    /\ slot' = IF op[o].st = "send" THEN 0 ELSE slot
    /\ \/ /\ op[o].st = "send"
          /\ op' = [op EXCEPT ![o].st = "reestablish"]
          /\ UNCHANGED <<queue, touched>>
       \/ Return(o, "failed")
    /\ UNCHANGED <<count, wire, applied, broken, half>>

\* Timeout of the retransmissions or of the deadline: the session is closed.
\* A first send is repeated over a new one, if RETRY_MIN_BUDGET is left.
SendExpires(o) ==
    /\ At(o, Sending)
    /\ expired' = expired \cup {slot}
    /\ slot' = 0
    /\ \/ /\ op[o].st = "send"
          /\ op' = [op EXCEPT ![o].st = "reestablish"]
          /\ UNCHANGED <<queue, touched>>
       \/ Return(o, "failed")
    /\ UNCHANGED <<count, wire, applied, broken, half>>

\* Any other error: the session is closed, and nothing is sent again.
SendBreaks(o) ==
    /\ At(o, Sending)
    /\ broken' = broken \cup {slot}
    /\ slot' = 0
    /\ Return(o, "failed")
    /\ UNCHANGED <<count, wire, applied, expired, half>>

\* Mutant: abort_op runs before the future is dropped, and waits for the lock.
ClientGoneHolding(o) ==
    /\ op[o].st \in Running
    /\ op' = [op EXCEPT ![o].st = "gone"]
    /\ half' = IF At(o, Sending) THEN half \cup {slot} ELSE half
    /\ UNCHANGED <<slot, queue, count, wire, applied, touched, expired, broken>>

\* The queue without its i-th task.
Without(q, i) == [k \in 1 .. Len(q) - 1 |-> IF k < i THEN q[k] ELSE q[k + 1]]

\* OpTurn::ClientGone: the future of the operation is dropped, and with it the
\* guard or the place in the queue.  on_new_session is not called.
ClientGone(o) ==
    /\ op[o].st \in Running
    /\ op' = [op EXCEPT ![o].st = "gone"]
    /\ \E i \in DOMAIN queue : queue[i] = o /\ queue' = Without(queue, i)
    /\ half' = IF At(o, Sending) THEN half \cup {slot} ELSE half
    /\ UNCHANGED <<slot, count, wire, applied, touched, expired, broken>>

\* abort_op, drop_session: the session is closed if the lock can be had.
AbortOp(o) ==
    /\ op[o].st = "gone"
    /\ op' = [op EXCEPT ![o].st = "aborted"]
    /\ slot' = IF queue = << >> THEN 0 ELSE slot
    /\ UNCHANGED <<queue, count, wire, applied, touched, history>>
-----------------------------------------------------------------------------
Init ==
    /\ slot = 0 /\ count = 0
    /\ queue = << >>
    /\ op = [o \in Ops |-> [st |-> "idle", new |-> {}]]
    /\ wire = {} /\ applied = {} /\ touched = {}
    /\ expired = {} /\ broken = {} /\ half = {}

\* What the deadline of an operation bounds.
Progress(o) == Lock(o) \/ Establish(o) \/ EstablishFails(o) \/ SendExpires(o)

Next ==
    \/ \E o \in Ops :
           \/ Arrive(o) \/ Progress(o) \/ Answer(o) \/ SendBreaks(o)
           \/ ClientGone(o) \/ AbortOp(o)
    \/ \E w \in wire : DeviceApplies(w)

Spec == Init /\ [][Next]_vars

\* The runtime runs the task that holds the lock, and each of its phases is
\* bounded by the deadline of the operation.
FairSpec == Spec /\ \A o \in Ops : WF_vars(Progress(o))
-----------------------------------------------------------------------------
(* Properties                                                              *)

TypeOK ==
    /\ slot \in {0} \cup Sessions /\ count \in {0} \cup Sessions
    /\ \A o \in Ops : op[o].st \in {"idle", "done", "failed", "gone", "aborted"} \cup Running
    /\ \A o \in Ops : o \in {queue[i] : i \in DOMAIN queue} <=> op[o].st \in Running
    /\ \A i \in 2 .. Len(queue) : op[queue[i]].st = "queued"
    /\ \A o \in Holder : op[o].st \in Sending => slot # 0

\* "Keeping a dead session would wedge the node for good": a session on which
\* an operation timed out or broke is never used again.
DeadIsNotKept == slot \notin expired \cup broken

\* A command that is not idempotent may be executed twice, but only when the
\* answer of the first send timed out, and never three times.
AgainOnlyAfterTimeout ==
    \A o \in Ops, s, t \in Sessions :
        <<o, s>> \in applied /\ <<o, t>> \in applied /\ s < t =>
            s \in expired /\ \A u \in Sessions : <<o, u>> \in applied => u \in {s, t}

\* The slot and its lock: one holder, no dead session, no third send.
SlotSound == TypeOK /\ DeadIsNotKept /\ AgainOnlyAfterTimeout

\* The device sends its reports over the newest session, so the subscription
\* has to know of each one: an operation that was answered, in whichever way,
\* has told of the sessions it established.
NewIsTold == \A o \in Ops : op[o].st \in {"done", "failed"} => op[o].new \subseteq touched

\* Every operation is answered unless its client leaves: no client that leaves
\* while it holds or waits for the lock keeps the others from it.
EachIsAnswered == \A o \in Ops : op[o].st \in Running ~> op[o].st \notin Running

\* "A session in mid-exchange is not carried over to the next operation"
\* (native.rs, drop_session).
NoHalfExchange == \A o \in Ops : At(o, Sending) => slot \notin half
=============================================================================
