-------------------------------- MODULE Btp ---------------------------------
(***************************************************************************)
(* The BTP session of mat-controller/src/btp.rs: Matter messages in        *)
(* segments over GATT writes and indications, with a sliding window in     *)
(* each direction.  A frame of either kind, a segment or a standalone ack, *)
(* takes a sequence number and a place in the window of its sender; acks   *)
(* are cumulative, and sequence numbers wrap (u8 in the code, Modulus      *)
(* here).                                                                  *)
(*                                                                         *)
(* The central "c" is the code: the actor run_session, which is either in  *)
(* its select loop or inside send_message, where it reads only while its   *)
(* window is full and where no keepalive ticks.  The peripheral "p" is the *)
(* device's Bluetooth stack, external: an engine with the same accounting  *)
(* that conforms to the protocol: it puts an owed ack on whatever it sends *)
(* next, may send one on its own while it has a place in its window, and   *)
(* keeps the last place for a frame that carries an ack.                   *)
(*                                                                         *)
(* GATT delivers in order and loses nothing while the link is up.  A       *)
(* message is a sequence of parts <<i, k>>, the k-th segment of the i-th   *)
(* message; lengths are counted in segments.  The channel to the           *)
(* application takes what is handed over: an application that does not     *)
(* read makes the actor wait in in_tx.send, and everything here with it.   *)
(***************************************************************************)
EXTENDS Integers, Sequences

CONSTANTS
    Modulus,      \* sequence numbers: 2^8 in the code
    Windows,      \* windows the peripheral may choose in the handshake
    MaxSegments,  \* bound: segments of a message
    MaxMessages   \* bound: messages each end sends, a function of the end

Ends == {"c", "p"}

Other(e) == IF e = "c" THEN "p" ELSE "c"

ASSUME BtpAssumption ==
    /\ Modulus \in Nat \ {0}
    /\ Windows \subseteq 0 .. Modulus - 1
    /\ MaxSegments \in Nat \ {0}
    /\ MaxMessages \in [Ends -> Nat]

VARIABLES
    phase,   \* of the session: "handshake", "open", or why it has ended
    win,     \* BtpParams.window_size
    st,      \* st[e]: the SessionState of end e
    out,     \* out[e]: the message end e is sending, n segments, k of them sent
    link,    \* link[e]: frames end e has sent and the other has not read
    stale,   \* last_ack_progress is ACK_TIMEOUT ago or longer
    overdue, \* history: a frame has waited ACK_TIMEOUT for progress
    sent,    \* sent[e]: messages end e has begun to send
    got      \* got[e]: messages handed to the application of end e

clock == <<stale, overdue>>
vars == <<phase, win, st, out, link, stale, overdue, sent, got>>

NoAck == Modulus
Plus(s, k) == (s + k) % Modulus
Minus(s, t) == (s - t) % Modulus

Numbers == 1 .. MaxMessages["c"] + MaxMessages["p"]
Message(i, n) == [k \in 1 .. n |-> <<i, k>>]
Messages == {Message(i, n) : i \in Numbers, n \in 1 .. MaxSegments}

Frame == [seq : 0 .. Modulus - 1, ack : 0 .. Modulus, beg : BOOLEAN, end : BOOLEAN,
          len : 0 .. MaxSegments,
          payload : {<< >>} \cup {<<<<i, k>>>> : i \in Numbers, k \in 1 .. MaxSegments}]
-----------------------------------------------------------------------------
(* Frames                                                                  *)

StandaloneAck(s) ==
    [seq |-> s.tx, ack |-> s.rx, beg |-> FALSE, end |-> FALSE, len |-> 0, payload |-> << >>]

\* The next segment of the message end e is sending.
Segment(e, with_ack) ==
    [seq |-> st[e].tx, ack |-> IF with_ack THEN st[e].rx ELSE NoAck,
     beg |-> out[e].k = 0, end |-> out[e].k + 1 = out[e].n,
     len |-> IF out[e].k = 0 THEN out[e].n ELSE 0,
     payload |-> <<<<Len(sent[e]), out[e].k + 1>>>>]

\* Mutant: the frame does not take a place in the window.
TakePlaceForSegmentsOnly(s, carries_ack) ==
    [s EXCEPT !.tx = Plus(@, 1),
              !.unacked = IF carries_ack THEN @ ELSE @ + 1,
              !.owe = IF carries_ack THEN FALSE ELSE @,
              !.segs = IF carries_ack THEN 0 ELSE @]

\* Sending a frame: it takes a sequence number and a place in the window, and
\* one that carries an ack pays what is owed.
TakePlace(s, carries_ack) ==
    [s EXCEPT !.tx = Plus(@, 1),
              !.unacked = @ + 1,
              !.owe = IF carries_ack THEN FALSE ELSE @,
              !.segs = IF carries_ack THEN 0 ELSE @]

HasRoom(s) == s.unacked < win

\* The state after, and the frames of, a standalone ack that is sent if cond.
AckIf(cond, s) ==
    IF cond THEN <<TakePlace(s, TRUE), <<StandaloneAck(s)>>>> ELSE <<s, << >>>>
-----------------------------------------------------------------------------
(* Receiving                                                               *)

\* How many frames the ack in f newly acknowledges.
Newly(s, f) == IF f.ack = NoAck THEN 0 ELSE Minus(f.ack, s.acked)

\* Reassembler::push: "error", "none", or "message" with the parts in buf.
PushVerdict(s, f) ==
    LET expected == IF f.beg THEN f.len ELSE s.expected
        buf == (IF f.beg THEN << >> ELSE s.buf) \o f.payload
    IN  CASE f.beg /\ s.expected # 0 -> "error"
          [] ~f.beg /\ s.expected = 0 -> IF f.payload = << >> THEN "none" ELSE "error"
          [] OTHER -> IF expected < Len(buf) THEN "error"
                      ELSE IF ~f.end THEN "none"
                      ELSE IF Len(buf) = expected THEN "message" ELSE "error"

\* Mutant: the parts of the message before are left in the buffer.
PushKeepsBuffer(s, f) ==
    LET buf == (IF s.expected = 0 /\ ~f.beg THEN << >> ELSE s.buf) \o f.payload
    IN  [s EXCEPT !.buf = buf,
                  !.expected = IF f.end THEN 0 ELSE IF f.beg THEN f.len ELSE @]

Push(s, f) ==
    LET buf == (IF f.beg \/ s.expected = 0 THEN << >> ELSE s.buf) \o f.payload
    IN  [s EXCEPT !.buf = buf,
                  !.expected = IF f.end THEN 0 ELSE IF f.beg THEN f.len ELSE @]

\* process_incoming, the verdict: an ack for a frame that was not sent, or a
\* sequence number out of order, ends the session.
Verdict(s, f) ==
    IF Newly(s, f) > s.unacked \/ f.seq # Plus(s.rx, 1) THEN "error" ELSE PushVerdict(s, f)

\* Mutant: an ack counts as one frame.
IncomingCountsOne(s, f) ==
    Push([s EXCEPT !.acked = IF f.ack = NoAck THEN @ ELSE f.ack,
                   !.unacked = IF Newly(s, f) = 0 THEN @ ELSE @ - 1,
                   !.rx = f.seq, !.owe = TRUE,
                   !.segs = IF f.payload = << >> THEN @ ELSE @ + 1], f)

\* Mutant: standalone acks count as well.
IncomingCountsAcks(s, f) ==
    Push([s EXCEPT !.acked = IF f.ack = NoAck THEN @ ELSE f.ack,
                   !.unacked = @ - Newly(s, f),
                   !.rx = f.seq, !.owe = TRUE,
                   !.segs = @ + 1], f)

\* process_incoming, the state: only frames with a payload count towards the
\* next proactive ack.
Incoming(s, f) ==
    Push([s EXCEPT !.acked = IF f.ack = NoAck THEN @ ELSE f.ack,
                   !.unacked = @ - Newly(s, f),
                   !.rx = f.seq, !.owe = TRUE,
                   !.segs = IF f.payload = << >> THEN @ ELSE @ + 1], f)

\* maybe_send_proactive_ack
ProactiveAck(s) ==
    AckIf(s.owe /\ s.segs >= (IF win < 2 THEN 1 ELSE win \div 2) /\ HasRoom(s), s)

\* The next frame for end e, what it makes of it and the state it leaves e in.
Arrived(e) == Head(link[Other(e)])
Outcome(e) == Verdict(st[e], Arrived(e))
Read(e) == Incoming(st[e], Arrived(e))

\* End e reads the next frame.  `after' is the state it ends in then and the
\* frames it sends.
Receive(e, after) ==
    /\ link[Other(e)] # << >>
    /\ IF Outcome(e) = "error"
       THEN /\ phase' = "violated"
            /\ UNCHANGED <<st, got, link>>
       ELSE /\ UNCHANGED phase
            /\ st' = [st EXCEPT ![e] = after[1]]
            /\ link' = [link EXCEPT ![Other(e)] = Tail(@), ![e] = @ \o after[2]]
            /\ got' = IF Outcome(e) = "message"
                      THEN [got EXCEPT ![e] = Append(@, Read(e).buf)]
                      ELSE got
    /\ IF e = "c" /\ Outcome(e) # "error" /\ Newly(st[e], Arrived(e)) > 0
       THEN stale' = FALSE /\ overdue' = FALSE
       ELSE UNCHANGED clock
-----------------------------------------------------------------------------
(* Both ends: what is common to a segment, a standalone ack and the start  *)
(* of a message.                                                           *)

SendAck(e) ==
    /\ st' = [st EXCEPT ![e] = TakePlace(@, TRUE)]
    /\ link' = [link EXCEPT ![e] = Append(@, StandaloneAck(st[e]))]

SendSegment(e, with_ack) ==
    /\ out[e].n > 0 /\ HasRoom(st[e])
    /\ st' = [st EXCEPT ![e] = TakePlace(@, with_ack)]
    /\ link' = [link EXCEPT ![e] = Append(@, Segment(e, with_ack))]
    /\ out' = [out EXCEPT ![e] = IF @.k + 1 = @.n THEN [n |-> 0, k |-> 0]
                                                  ELSE [n |-> @.n, k |-> @.k + 1]]
    /\ UNCHANGED <<phase, win, clock, sent, got>>

Begin(e) ==
    /\ phase = "open" /\ out[e].n = 0 /\ Len(sent[e]) < MaxMessages[e]
    /\ \E n \in 1 .. MaxSegments :
           /\ out' = [out EXCEPT ![e] = [n |-> n, k |-> 0]]
           /\ sent' = [sent EXCEPT ![e] = Append(@, Message(Len(@) + 1, n))]
    /\ UNCHANGED <<phase, win, st, link, clock, got>>
-----------------------------------------------------------------------------
(* The central                                                             *)

\* connect: the handshake request, and its answer within HANDSHAKE_TIMEOUT.
\* An answer that is malformed, of another version, with segments that are too
\* small (not ok) or with a window of 0 is refused.
Connect ==
    /\ phase = "handshake"
    /\ \E ok \in BOOLEAN, w \in Windows :
           /\ phase' = IF ok /\ w # 0 THEN "open" ELSE "refused"
           /\ win' = w
    /\ UNCHANGED <<st, out, link, clock, sent, got>>

Idle == phase = "open" /\ out["c"].n = 0
WindowFull == phase = "open" /\ out["c"].n > 0 /\ ~HasRoom(st["c"])

\* The select loop reads a frame.  A message is handed over without an ack of
\* its own: the response will carry it.
RecvIdle ==
    /\ Idle
    /\ Receive("c", IF Outcome("c") = "message" THEN AckIf(FALSE, Read("c")) ELSE ProactiveAck(Read("c")))
    /\ UNCHANGED <<win, out, sent>>

\* send_message takes the next message of the application.
SendMessage == Begin("c")

\* send_message, a segment; only the first one carries the ack that is owed.
SendNext ==
    /\ phase = "open"
    /\ SendSegment("c", st["c"].owe /\ out["c"].k = 0)

\* send_message waits for room.  A message that is completed meanwhile is
\* handed over and acknowledged at once, if there is room.
RecvFull ==
    /\ WindowFull
    /\ Receive("c", IF Outcome("c") = "message" THEN AckIf(HasRoom(Read("c")), Read("c"))
                    ELSE ProactiveAck(Read("c")))
    /\ UNCHANGED <<win, out, sent>>

\* ACK_TIMEOUT since the wait began or the last frame was read.  A frame that is
\* still under way is too late then.
WindowTimeout ==
    /\ WindowFull
    /\ phase' = "timeout_send"
    /\ UNCHANGED <<win, st, out, link, clock, sent, got>>

\* keepalive.tick(): without progress for ACK_TIMEOUT the session ends;
\* otherwise an owed ack is sent, if there is room.
KeepaliveTick ==
    /\ Idle
    /\ \/ /\ st["c"].unacked > 0 /\ stale
          /\ phase' = "timeout_idle"
          /\ UNCHANGED <<st, link>>
       \/ /\ ~(st["c"].unacked > 0 /\ stale)
          /\ st["c"].owe /\ HasRoom(st["c"])
          /\ SendAck("c")
          /\ UNCHANGED phase
    /\ UNCHANGED <<win, out, clock, sent, got>>

\* Time: ACK_TIMEOUT passes without progress.  last_ack_progress is set when
\* the session starts and when an ack arrives, not when a frame is sent.
TimePasses ==
    /\ phase = "open"
    /\ ~stale \/ (~overdue /\ st["c"].unacked > 0)
    /\ stale' = TRUE
    /\ overdue' = (st["c"].unacked > 0)
    /\ UNCHANGED <<phase, win, st, out, link, sent, got>>

\* The link is lost, or the application drops the Transport.
Lost ==
    /\ phase \in {"handshake", "open"}
    /\ phase' = "closed"
    /\ UNCHANGED <<win, st, out, link, clock, sent, got>>
-----------------------------------------------------------------------------
(* The peripheral (external)                                               *)

PeerMessage == Begin("p")

PeerSegment ==
    /\ phase = "open"
    /\ st["p"].unacked < win - 1 \/ st["p"].owe
    /\ SendSegment("p", st["p"].owe)

PeerAck ==
    /\ phase = "open" /\ st["p"].owe /\ HasRoom(st["p"])
    /\ SendAck("p")
    /\ UNCHANGED <<phase, win, out, clock, sent, got>>

PeerRecv ==
    /\ phase = "open"
    /\ Receive("p", AckIf(FALSE, Read("p")))
    /\ UNCHANGED <<win, out, sent>>
-----------------------------------------------------------------------------
NewSession(tx, acked, rx) ==
    [tx |-> tx, acked |-> acked, unacked |-> 0, rx |-> rx, owe |-> FALSE, segs |-> 0,
     buf |-> << >>, expected |-> 0]

\* The handshake response takes the peripheral's sequence number 0; the
\* handshake request takes none.
Init ==
    /\ phase = "handshake"
    /\ win = 0
    /\ st = [e \in Ends |-> IF e = "c" THEN NewSession(0, Modulus - 1, 0)
                                       ELSE NewSession(1 % Modulus, 0, Modulus - 1)]
    /\ out = [e \in Ends |-> [n |-> 0, k |-> 0]]
    /\ link = [e \in Ends |-> << >>]
    /\ stale = FALSE /\ overdue = FALSE
    /\ sent = [e \in Ends |-> << >>]
    /\ got = [e \in Ends |-> << >>]

Central ==
    \/ Connect \/ RecvIdle \/ SendMessage \/ SendNext \/ RecvFull
    \/ WindowTimeout \/ KeepaliveTick \/ TimePasses \/ Lost

Peripheral == PeerMessage \/ PeerSegment \/ PeerAck \/ PeerRecv

Next == Central \/ Peripheral

Spec == Init /\ [][Next]_vars

\* Every frame that is read starts the time-out again: it is certain to come
\* only while nothing arrives.
Silence == link["p"] = << >> /\ WindowTimeout

\* tokio runs the actor and its timers; nothing is assumed of the peripheral.
Fairness == WF_vars(SendNext) /\ WF_vars(RecvFull) /\ WF_vars(Silence)

FairSpec == Spec /\ Fairness
-----------------------------------------------------------------------------
(* Properties                                                              *)

\* Sequence numbers are u8, the window bounds what is unacknowledged
\* (saturating_add never saturates), segs_since_ack stays within it.
TypeOK ==
    /\ phase \in {"handshake", "open", "closed", "refused", "violated",
                  "timeout_send", "timeout_idle"}
    /\ \A e \in Ends :
           /\ {st[e].tx, st[e].acked, st[e].rx} \subseteq 0 .. Modulus - 1
           /\ st[e].unacked \in 0 .. win /\ st[e].segs \in 0 .. win
           /\ st[e].expected \in 0 .. MaxSegments
           /\ \A i \in DOMAIN link[e] : link[e][i] \in Frame

\* process_incoming closes the session on an ack for a frame that was not sent
\* and on a sequence number out of order: between two conforming ends neither
\* happens, however often the numbers wrap.
NoFalseViolation == phase # "violated"

\* The numbers of the two ends agree through what is in flight: frames are
\* consecutive, what is unacknowledged is what was sent after the last ack, and
\* every ack under way is for a frame the other end had read when it sent it.
SeqAgree ==
    \A e \in Ends :
        LET o == Other(e)
            got_(i) == IF link[o][i].ack = NoAck THEN 0 ELSE Minus(link[o][i].ack, st[e].acked)
        IN  /\ \A i \in DOMAIN link[e] : link[e][i].seq = Plus(st[o].rx, i)
            /\ st[e].tx = Plus(st[o].rx, Len(link[e]) + 1)
            /\ Minus(st[e].tx, Plus(st[e].acked, 1)) = st[e].unacked
            /\ Len(link[e]) <= st[e].unacked
            /\ \A i \in DOMAIN link[o] : got_(i) <= st[e].unacked - Len(link[e])
            /\ \A i, j \in DOMAIN link[o] :
                   i < j /\ link[o][j].ack # NoAck => got_(i) <= got_(j)

\* The window is never exceeded (the types), the numbers of the two ends agree,
\* and no conforming end is taken for one that does not conform.
FlowSound == TypeOK /\ SeqAgree /\ NoFalseViolation

\* The session is the pipe the layers above rely on: whole messages, once, in
\* order, in both directions, and nothing after it has broken.
ReliablePipe == INSTANCE Pipe WITH
    state <- CASE phase = "handshake" -> "new" [] phase = "open" -> "up" [] OTHER -> "broken"
PipeSpec == ReliablePipe!Spec

\* send_message does not wait for good with a peripheral whose messages come to
\* an end, whether that one goes on acknowledging or falls silent, and with both
\* windows full.  Each frame starts the time-out again, and an ack sent in the
\* wait may take the place the last frame has opened: what ends it is that acks
\* alone are never answered (process_incoming), or acks of acks would go on for
\* ever.
SendEnds == WindowFull ~> ~WindowFull

\* send_message, of a frame that completes no message: "if unacked has gone down
\* here the gate opens right after"; the ack it then sends may take the place.
AckOpensGate ==
    [][RecvFull /\ Outcome("c") = "none" /\ Newly(st["c"], Arrived("c")) > 0 => ~WindowFull']_vars

\* The keepalive closes the session only when a frame has gone unacknowledged
\* for ACK_TIMEOUT ("no ack progress within ACK_TIMEOUT").
IdleTimeoutIsDue == phase = "timeout_idle" => overdue

\* btp.rs, send_message, gives a peer that does not conform as the case in which
\* both ends wait with a full window: a conforming one could still send an ack.
NoMutualWait ==
    ~(/\ WindowFull
      /\ link = [e \in Ends |-> << >>]
      /\ ~HasRoom(st["p"]))
=============================================================================
