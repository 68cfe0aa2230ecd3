---------------------------- MODULE SecureSession ---------------------------
(***************************************************************************)
(* One secured session (mat-controller/src/session/) with the Interaction  *)
(* Model on top of it: the client side (client.rs, subscribe.rs) at the    *)
(* controller "c", the server side (responder.rs, and serve_secured of     *)
(* mat-device/src/net/runtime/serve.rs) at the device "d".                 *)
(*                                                                         *)
(* An exchange is opened by a request of the controller and may take       *)
(* several messages: a timed interaction, a read or a subscribe whose      *)
(* report comes in chunks.  The code's own client has one exchange open    *)
(* at a time; other controllers, which the device has to serve as well,    *)
(* have several and put the ack of one exchange on a request of another    *)
(* (Pipelining > 1).                                                       *)
(*                                                                         *)
(* The network loses, delays, duplicates and reorders: `sent' holds every  *)
(* message ever sent, and each may be delivered any number of times, or    *)
(* never.  A retransmission is therefore no step of its own; running out   *)
(* of retransmissions is (CtlTimeout, DevTimeout).  Every fresh or         *)
(* repeated message is answered by a standalone ack at once, so that an    *)
(* ack for a message can arrive as soon as the message has been seen.      *)
(* Replay protection is the exact set of counters seen (RxWindow shows     *)
(* when the code's window is exact).                                       *)
(***************************************************************************)
EXTENDS Integers, Sequences, FiniteSets

CONSTANTS
    Scripts,     \* what the controller does: the requests it opens exchanges with,
                 \* in order, and a bound for the deliveries of messages
                 \* delivered before
    Pipelining,  \* exchanges open at a time: 1 for the code's client
    MaxReplies,  \* bound: messages the device answers a request with
    StashCap,    \* MAX_PEER_INITIATED_BUFFER
    DeferCap     \* MAX_DEFERRED_REQUESTS

Requests == {"Invoke", "Timed", "Read", "Subscribe"}

ASSUME SessionAssumption ==
    /\ Scripts \subseteq [open : Seq(Requests), repeats : Nat]
    /\ {Pipelining, MaxReplies, StashCap, DeferCap} \subseteq Nat \ {0}

VARIABLES
    script, \* the one of Scripts
    sent,   \* every message sent
    seen,   \* seen[e]: rx_window, the counters end e has committed
    pend,   \* the controller's pending_peer_ack, an <<exchange, counter>> or NoAck
    ctl,    \* ctl[x]: the client's call on exchange x
    dev,    \* the device's session and the task that serves it
    arrived, \* history: the opening requests the device took, in order
    repeats \* repeated deliveries so far

vars == <<script, sent, seen, pend, ctl, dev, arrived, repeats>>

Exchanges == DOMAIN script.open
None == [op |-> "None"]
NoAck == <<0, 0>>

From(e) == {m \in sent : m.from = e}
Chunked(op) == op \in {"Read", "Subscribe"}
Opens(m) == m.op = script.open[m.ex]
ToSet(s) == {s[i] : i \in DOMAIN s}

\* seal: a pending ack of the same exchange goes along, once.
Ack(p, x) == IF p[1] = x THEN p[2] ELSE 0
Consumed(p, ack) == IF p[2] = ack THEN NoAck ELSE p

Message(e, x, op, ack, to, last) ==
    [from |-> e, n |-> Cardinality(From(e)) + 1, ex |-> x, op |-> op, ack |-> ack,
     to |-> to, last |-> last]

\* check_and_commit of the replay window.
Deliver(e, m) ==
    /\ m.n \in seen[e] => repeats < script.repeats
    /\ repeats' = repeats + (IF m.n \in seen[e] THEN 1 ELSE 0)
    /\ seen' = [seen EXCEPT ![e] = @ \cup {m.n}]
-----------------------------------------------------------------------------
(* The controller                                                          *)

\* In send_reliable, or after it in recv.  A standalone ack leads from the one
\* to the other and decides nothing: both end with a message or a time-out.
Waiting(x) == ctl[x].st = "wait"

\* send_reliable on exchange x, with the pending ack p.
CtlSend(x, op, p, ack, right) ==
    LET m == Message("c", x, op, ack, 0, TRUE)
    IN  /\ sent' = sent \cup {m}
        /\ ctl' = [ctl EXCEPT ![x] = [st |-> "wait", n |-> m.n, op |-> op, right |-> right]]
        /\ pend' = Consumed(p, ack)

\* The first im_request of invoke, read, write, subscribe, send_timed_request.
\* Other controllers may put the ack of another exchange on it.
Request(x) ==
    /\ ctl[x].st = "new" /\ \A y \in 1 .. x - 1 : ctl[y].st # "new"
    /\ Cardinality({y \in Exchanges : Waiting(y)}) < Pipelining
    /\ \A y \in Exchanges : ctl[y].st # "failed"
    /\ \E ack \in {0} \cup (IF Pipelining > 1 THEN {pend[2]} ELSE {}) :
           CtlSend(x, script.open[x], pend, ack, TRUE)
    /\ UNCHANGED <<script, seen, dev, arrived, repeats>>

\* A call that got reply m on its exchange: a timed request is followed by its
\* action; collect_reports and subscribe confirm every message but the last.
CtlAccept(m) ==
    LET x == m.ex
        p == <<x, m.n>>
        right == ctl[x].right /\ m.to = ctl[x].n
    IN  CASE ctl[x].op = "Timed" -> CtlSend(x, "Invoke", p, m.n, right)
          [] ctl[x].op # "Timed" /\ ~m.last -> CtlSend(x, "Status", p, m.n, right)
          [] OTHER -> /\ ctl' = [ctl EXCEPT ![x].st = "done", ![x].right = right]
                      /\ pend' = p
                      /\ UNCHANGED sent

\* Mutant: a repeated message is delivered again.
CtlReceiveRepeats(m) ==
    /\ m.from = "d"
    /\ Deliver("c", m)
    /\ IF Waiting(m.ex)
       THEN CtlAccept(m)
       ELSE pend' = <<m.ex, m.n>> /\ UNCHANGED <<sent, ctl>>
    /\ UNCHANGED <<script, dev, arrived>>

\* screen_with at the controller.  A message that no call waits for is
\* acknowledged all the same, and dropped.
CtlReceive(m) ==
    /\ m.from = "d"
    /\ Deliver("c", m)
    /\ IF m.n \notin seen["c"] /\ Waiting(m.ex)
       THEN CtlAccept(m)
       ELSE pend' = <<m.ex, m.n>> /\ UNCHANGED <<sent, ctl>>
    /\ UNCHANGED <<script, dev, arrived>>

\* The retransmissions, or IM_RECV_TIMEOUT, have run out: the session is given
\* up.
CtlTimeout ==
    /\ \E x \in Exchanges : Waiting(x)
    /\ ctl' = [x \in Exchanges |-> IF Waiting(x) THEN [ctl[x] EXCEPT !.st = "failed"] ELSE ctl[x]]
    /\ UNCHANGED <<script, sent, seen, pend, dev, arrived, repeats>>
-----------------------------------------------------------------------------
(* The device: each operator gives the dev that follows d.                 *)

\* reply_reliable, the send: a reply to request m, with `left' more to come.
Reply(d, m, left, to) ==
    LET last == left = 0
        op == CASE m.op = "Timed" -> "Status" [] m.op = "Invoke" -> "Response"
                [] m.op = "Subscribe" /\ last -> "SubscribeResponse" [] OTHER -> "Report"
        ack == Ack(d.pend, m.ex)
    IN  [d EXCEPT !.mode = "reply", !.cur = m, !.left = left,
                  !.out = Message("d", m.ex, op, ack, to, last),
                  !.pend = IF ack # 0 THEN NoAck ELSE @]

\* requeue_buffered_request for each deferred message, the newest first: each
\* goes to the front, and a full buffer drops its newest for it.
Requeue(d) ==
    LET all == d.deferred \o d.stash
        kept == SubSeq(all, 1, IF Len(all) < StashCap THEN Len(all) ELSE StashCap)
    IN  [d EXCEPT !.stash = kept, !.deferred = << >>,
                  !.evicted = @ \cup (ToSet(all) \ ToSet(kept))]

\* The interaction is over; drain_buffered_requests follows.
Finish(d) == [Requeue(d) EXCEPT !.mode = "drain", !.cur = None, !.left = 0, !.out = None]

\* serve_secured_message.  handle_im answers every action but a StatusResponse
\* (NoReply); reads and subscribes own the whole of their interaction.
Serve(d, m) ==
    IF m.op = "Status" THEN {Finish(d)}
    ELSE {Reply([d EXCEPT !.begun = Append(@, m)], m, k - 1, m.n) :
              k \in IF Chunked(m.op) THEN 1 .. MaxReplies ELSE {1}}

\* await_peer_status_ok got message m.
Status(d, m) ==
    IF m.ex # d.cur.ex
    THEN LET e == [d EXCEPT !.mode = "status", !.deferred = Append(@, m)]
         IN  IF Len(e.deferred) >= DeferCap THEN Finish(e) ELSE e
    ELSE IF m.op = "Status" THEN Reply(Requeue(d), d.cur, d.left - 1, m.n)
    ELSE Finish(d)

\* reply_reliable is done: with an ack only (m = None), or with the message m
\* that came on the same exchange.
Replied(d, m) ==
    IF Chunked(d.cur.op)
    THEN {CASE d.left = 0 -> Finish(d)
            [] d.left > 0 /\ m = None -> [d EXCEPT !.mode = "status", !.out = None]
            [] OTHER -> Status(d, m)}
    ELSE IF m = None THEN {Finish(d)} ELSE Serve(d, m)

\* Mutant: a message of another exchange is acknowledged and dropped.
StashNothing(d, m) == d

\* stash_peer_initiated: a full buffer drops its oldest message.
Stash(d, m) ==
    IF Len(d.stash) >= StashCap
    THEN [d EXCEPT !.stash = Append(Tail(@), m), !.evicted = @ \cup {Head(d.stash)}]
    ELSE [d EXCEPT !.stash = Append(@, m)]

\* screen_with for reply_reliable (PeerExchange): a message of another
\* exchange is kept for later.  An ack counts on whichever exchange it comes
\* (last_peer_ack), a repeated message included.
WhileReplying(d, m, fresh) ==
    LET here == m.ex = d.cur.ex
        e == IF fresh /\ ~here THEN Stash(d, m) ELSE d
    IN  CASE fresh /\ here -> Replied(d, m)
          [] ~(fresh /\ here) /\ m.ack = d.out.n -> Replied(e, None)
          [] OTHER -> {e}

DevStep(next) ==
    /\ dev' \in next
    /\ sent' = sent \cup ({dev'.out} \ {None})
    /\ UNCHANGED <<script, pend, ctl>>

\* The task reads a datagram: in its main loop (deliver_request), for the ack
\* of a reply, or for a StatusResponse (recv_request, which takes what is
\* buffered first).
DevReceive(m) ==
    LET fresh == m.n \notin seen["d"]
        d == [dev EXCEPT !.pend = <<m.ex, m.n>>]
    IN  /\ m.from = "c"
        /\ dev.mode \in {"loop", "reply"} \/ (dev.mode = "status" /\ dev.stash = << >>)
        /\ Deliver("d", m)
        /\ arrived' = IF fresh /\ Opens(m) THEN Append(arrived, m) ELSE arrived
        /\ DevStep(CASE dev.mode = "reply" -> WhileReplying(d, m, fresh)
                      [] dev.mode = "loop" /\ fresh -> Serve(d, m)
                      [] dev.mode = "status" /\ fresh -> {Status(d, m)}
                      [] OTHER -> {d})

\* A standalone ack for the reply.
DevAck ==
    /\ dev.mode = "reply" /\ dev.out.n \in seen["c"]
    /\ DevStep(Replied(dev, None))
    /\ UNCHANGED <<seen, arrived, repeats>>

\* The reply's retransmissions, or REPORT_STATUS_TIMEOUT, have run out.
DevTimeout ==
    /\ dev.mode \in {"reply", "status"}
    /\ DevStep({Finish(dev)})
    /\ UNCHANGED <<seen, arrived, repeats>>

\* Mutant: the message is read and left in the buffer.
DevPeek ==
    /\ dev.mode = "status" /\ dev.stash # << >>
    /\ DevStep({Status(dev, Head(dev.stash))})
    /\ UNCHANGED <<seen, arrived, repeats>>

\* recv_request in await_peer_status_ok takes a buffered message.
DevPull ==
    /\ dev.mode = "status" /\ dev.stash # << >>
    /\ DevStep({Status([dev EXCEPT !.stash = Tail(@)], Head(dev.stash))})
    /\ UNCHANGED <<seen, arrived, repeats>>

\* Mutant: only one buffered request is served.
DrainOne ==
    /\ dev.mode = "drain"
    /\ DevStep({[dev EXCEPT !.mode = "loop"]})
    /\ UNCHANGED <<seen, arrived, repeats>>

\* drain_buffered_requests, one round.
Drain ==
    /\ dev.mode = "drain"
    /\ DevStep(IF dev.stash = << >> THEN {[dev EXCEPT !.mode = "loop"]}
               ELSE Serve([dev EXCEPT !.stash = Tail(@)], Head(dev.stash)))
    /\ UNCHANGED <<seen, arrived, repeats>>
-----------------------------------------------------------------------------
Init ==
    /\ script \in Scripts
    /\ sent = {}
    /\ seen = [e \in {"c", "d"} |-> {}]
    /\ pend = NoAck
    /\ ctl = [x \in Exchanges |-> [st |-> "new", n |-> 0, op |-> "None", right |-> TRUE]]
    /\ dev = [mode |-> "loop", cur |-> None, left |-> 0, out |-> None, deferred |-> << >>,
              stash |-> << >>, pend |-> NoAck, begun |-> << >>, evicted |-> {}]
    /\ arrived = << >>
    /\ repeats = 0

DevTask == DevAck \/ DevTimeout \/ DevPull \/ Drain

Next ==
    \/ \E x \in Exchanges : Request(x)
    \/ \E m \in sent : CtlReceive(m) \/ DevReceive(m)
    \/ CtlTimeout \/ DevTask

Spec == Init /\ [][Next]_vars

\* The device's timers fire and its task runs; the network promises nothing.
FairSpec == Spec /\ WF_vars(DevTimeout) /\ WF_vars(DevPull) /\ WF_vars(Drain)
-----------------------------------------------------------------------------
(* Properties                                                              *)

TypeOK ==
    /\ \A x \in Exchanges : ctl[x].st \in {"new", "wait", "done", "failed"}
    /\ dev.mode \in {"loop", "reply", "status", "drain"}
    /\ Len(dev.stash) <= StashCap /\ Len(dev.deferred) < DeferCap
    /\ dev.mode = "loop" => dev.stash = << >>
    /\ dev.mode # "status" => dev.deferred = << >>

\* Any message on the exchange completes send_reliable, without a look at what
\* it acknowledges: it is the answer to the message the call sent last all the
\* same, and never a late copy of an earlier one.
AnswerIsOurs == \A x \in Exchanges : ctl[x].right

\* However often it arrives, and whether it is served from the socket, from
\* the buffer or as a follow-up, a request is executed at most once.
ExecutedOnce == \A i, j \in DOMAIN dev.begun : dev.begun[i] = dev.begun[j] => i = j

\* "Ack, then drop": what the device has acknowledged it has executed, or
\* still holds, unless a buffer overflowed.
AckedIsKept ==
    \A m \in From("c") :
        m.n \in seen["d"] /\ m.op # "Status" =>
            m \in ToSet(dev.begun) \cup ToSet(dev.stash) \cup ToSet(dev.deferred) \cup dev.evicted

\* Requests are executed in the order in which they came, although they pass
\* through two buffers and go back from one to the other.
ServedInOrder ==
    LET at(s, m) == CHOOSE i \in DOMAIN s : s[i] = m
    IN  \A m, r \in ToSet(arrived) \cap ToSet(dev.begun) :
            at(arrived, m) < at(arrived, r) => at(dev.begun, m) < at(dev.begun, r)

\* The two buffers lose nothing, reorder nothing and keep to their bounds.
BuffersSound == TypeOK /\ AckedIsKept /\ ServedInOrder

\* What the device holds back it serves in the end, whatever becomes of the
\* controller and the network: with AckedIsKept, an acknowledged request is
\* executed unless a buffer overflowed.
Held == dev.stash # << >> \/ dev.deferred # << >>
HeldIsServed == Held ~> ~Held
=============================================================================
