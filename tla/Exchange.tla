------------------------------ MODULE Exchange ------------------------------
(***************************************************************************)
(* One PASE or CASE handshake over an unsecured exchange with MRP.         *)
(*                                                                         *)
(* The initiator (the controller: mat-controller/src/pase.rs, case.rs) and *)
(* the responder (the device: mat-device/src/net/pase.rs, net/case.rs) run *)
(* the same ExchangeCore of mat-controller/src/exchange.rs: a message is   *)
(* retransmitted until it is acknowledged or the retry budget is spent, a  *)
(* standalone ack is sent for everything that asks for one, and an         *)
(* RxWindow drops duplicates (and acknowledges them again).  The network   *)
(* loses, reorders and duplicates datagrams.                               *)
(*                                                                         *)
(* A handshake is Rounds request/response pairs: 3 for PASE (PBKDF         *)
(* parameters, Pake1/2, Pake3/StatusReport), 2 for CASE (Sigma1/2,         *)
(* Sigma3/StatusReport).  Cryptography is abstracted to what it binds: a   *)
(* response carries the number n of the responder's attempt, a later       *)
(* request carries the n of the response it was computed from, and the     *)
(* last request is only valid for the attempt it was computed for.         *)
(*                                                                         *)
(* The device drives one handshake at a time and reads the next datagram   *)
(* only when it has ended; a late copy of an opener then starts another    *)
(* attempt, with a fresh random counter.                                   *)
(***************************************************************************)
EXTENDS ReplayWindow, FiniteSets

CONSTANTS
    Handshakes,   \* kinds of handshake, each with the bounds it is explored in
    TxStarts      \* values TxCounter::new_random may start a responder at

ASSUME ExchangeAssumption ==
    /\ Handshakes \subseteq [rounds : {2, 3}, retries : Nat, dups : Nat, adopts : Nat]
    /\ TxStarts \subseteq Nat \ {0}

VARIABLES
    kind,       \* the handshake that is run
    ini,        \* the initiator: establish() and its UnsecuredExchange
    rsp,        \* the responder: drive_established() and its ResponderExchange
    net,        \* datagrams in flight; one that stays is lost
    dups,       \* duplicates delivered so far
    heard,      \* history: counters of requests some responder accepted
    verified,   \* history: attempts whose last request was accepted
    installed,  \* attempts whose session the device installed
    abandoned   \* attempts that ended in an error on the device

history == <<kind, heard, verified, installed, abandoned>>
vars == <<kind, ini, rsp, net, dups, heard, verified, installed, abandoned>>

Rounds == kind.rounds         \* 3: PASE, 2: CASE
MaxRetries == kind.retries    \* MrpConfig.max_retries
MaxDups == kind.dups          \* bound: datagrams the network delivers once more
MaxAdopts == kind.adopts      \* bound: handshakes the device starts

\* A ProtocolHeader and the parts of the payload that matter.  ack = 0: none.
Datagram == [from : {"i", "r"}, ctr : Nat, needs : BOOLEAN, ack : Nat,
             op : {"ack", "req", "rsp", "fail"}, k : 0 .. Rounds, n : 0 .. MaxAdopts]

Build(from, ctr, ack, op, k, n) ==
    [from |-> from, ctr |-> ctr, needs |-> TRUE, ack |-> ack, op |-> op, k |-> k, n |-> n]

StandaloneAck(from, ctr, acked) ==
    [from |-> from, ctr |-> ctr, needs |-> FALSE, ack |-> acked, op |-> "ack", k |-> 0, n |-> 0]

\* is_standalone_ack
IsAck(m) == m.op = "ack"
-----------------------------------------------------------------------------
(* Screening, the same for both ends: every datagram that asks for it is   *)
(* acknowledged, a duplicate too; the ack uses up a counter.               *)

Acks(side, from, m) ==
    IF m.needs THEN {StandaloneAck(from, side.tx, m.ctr)} ELSE {}

AfterAck(side, m) == IF m.needs THEN side.tx + 1 ELSE side.tx

Screened(side, m) ==
    [side EXCEPT !.win = Commit(side.win, m.ctr), !.tx = AfterAck(side, m)]

Waiting(pc) == pc \in {"send", "recv"}

\* What of ms will still be read: the initiator's exchange ends with establish().
Readable(ms, pc) == {m \in ms : m.from = "i" \/ Waiting(pc)}

\* The network hands m over, and perhaps keeps a copy to hand over again; the
\* initiator then is at pc.
Deliver(m, sent, pc) ==
    \/ net' = Readable((net \ {m}) \cup sent, pc) /\ dups' = dups
    \/ dups < MaxDups /\ net' = Readable(net \cup sent, pc) /\ dups' = dups + 1
-----------------------------------------------------------------------------
(* The initiator                                                           *)

InitiatorDuplicate(m) ==
    /\ Waiting(ini.pc) /\ m \in net /\ m.from = "r"
    /\ ~Fresh(ini.win, m.ctr)
    /\ Deliver(m, Acks(ini, "i", m), ini.pc)
    /\ ini' = [ini EXCEPT !.tx = AfterAck(ini, m)]
    /\ UNCHANGED <<rsp, history>>

\* Mutant: any ack ends send_reliable.
InitiatorAckedByAny(m) ==
    /\ Waiting(ini.pc) /\ m \in net /\ m.from = "r" /\ IsAck(m)
    /\ Fresh(ini.win, m.ctr)
    /\ Deliver(m, {}, ini.pc)
    /\ ini' = [Screened(ini, m) EXCEPT !.pc = "recv"]
    /\ UNCHANGED <<rsp, history>>

\* send_reliable ends with None on the ack of what it sent; it ignores a stale
\* ack, and recv ignores every ack.
InitiatorAcked(m) ==
    /\ Waiting(ini.pc) /\ m \in net /\ m.from = "r" /\ IsAck(m)
    /\ Fresh(ini.win, m.ctr)
    /\ Deliver(m, {}, ini.pc)
    /\ ini' = [Screened(ini, m) EXCEPT !.pc = IF m.ack = ini.cur.ctr THEN "recv" ELSE @]
    /\ UNCHANGED <<rsp, history>>

\* The response must ack the request when it ended send_reliable (PASE always,
\* CASE for Sigma2 only).
NotAcked(m) ==
    /\ ini.pc = "send" /\ (Rounds = 3 \/ ini.k < Rounds)
    /\ m.ack # ini.cur.ctr

Acceptable(m) == ~NotAcked(m) /\ m.op = "rsp" /\ m.k = ini.k

\* A real message ends the wait.  The last response establishes the session;
\* an earlier one is followed by the next request, unless its contents are
\* refused, with an abort StatusReport sent once (PASE) or silently (CASE);
\* anything else is an error.
InitiatorResponse(m) ==
    /\ Waiting(ini.pc) /\ m \in net /\ m.from = "r" /\ ~IsAck(m)
    /\ Fresh(ini.win, m.ctr)
    /\ LET s == Screened(ini, m)
           next == Build("i", s.tx, 0, "req", ini.k + 1, m.n)
           abort == Build("i", s.tx, 0, "fail", 0, 0)
       IN  \/ /\ ~Acceptable(m)
              /\ Deliver(m, Acks(ini, "i", m), "failed")
              /\ ini' = [s EXCEPT !.pc = "failed"]
           \/ /\ Acceptable(m) /\ m.k = Rounds
              /\ Deliver(m, Acks(ini, "i", m), "established")
              /\ ini' = [s EXCEPT !.pc = "established"]
           \/ /\ Acceptable(m) /\ m.k < Rounds /\ (m.k > 1 => m.n = ini.n)
              /\ Deliver(m, Acks(ini, "i", m) \cup {next}, "send")
              /\ ini' = [s EXCEPT !.pc = "send", !.k = @ + 1, !.n = m.n, !.tx = @ + 1,
                                  !.cur = next, !.tries = 0]
           \/ /\ Acceptable(m) /\ m.k < Rounds
              /\ Deliver(m, Acks(ini, "i", m) \cup (IF Rounds = 3 THEN {abort} ELSE {}), "failed")
              /\ ini' = [s EXCEPT !.pc = "failed"]
    /\ UNCHANGED <<rsp, history>>

\* mrp_send_loop: the interval elapsed.
InitiatorRetransmit ==
    /\ ini.pc = "send" /\ ini.tries < MaxRetries
    /\ ini' = [ini EXCEPT !.tries = @ + 1]
    /\ net' = net \cup {ini.cur}
    /\ UNCHANGED <<rsp, dups, history>>

InitiatorTimeout ==
    /\ ini.pc = "recv" \/ (ini.pc = "send" /\ ini.tries = MaxRetries)
    /\ ini' = [ini EXCEPT !.pc = "failed"]
    /\ net' = Readable(net, "failed")
    /\ UNCHANGED <<rsp, dups, history>>
-----------------------------------------------------------------------------
(* The responder                                                           *)

Busy == rsp.pc # "idle"

\* classify_unsecured: every PASE opcode starts a PASE handshake, of CASE only
\* Sigma1.
IsOpener(m) == m.op = "req" /\ (Rounds = 3 \/ m.k = 1)

\* Mutant: the last request is not bound to the attempt.
ExpectedUnbound(r, m) == m.op = "req" /\ m.k = r.k

\* on_message: the one request the state expects, with valid contents; only the
\* last one is bound to this attempt.
Expected(r, m) == m.op = "req" /\ m.k = r.k /\ (m.k = Rounds => m.n = r.n)

\* The reply to request m from the state r that screening it left: r.cur is
\* sent (reply_reliable or reply_final) and acks the latest message accepted
\* from the peer (piggyback_ack).
Reply(r, m, op) ==
    LET d == Build("r", r.tx, r.peer, op, IF op = "rsp" THEN m.k ELSE 0, r.n)
    IN  [r EXCEPT !.cur = d, !.tx = @ + 1, !.tries = 0,
                  !.pc = IF op = "rsp" /\ m.k < Rounds THEN "send" ELSE "final",
                  !.ok = op = "rsp" /\ m.k = Rounds,
                  !.k = IF op = "rsp" /\ m.k < Rounds THEN @ + 1 ELSE @]

\* Feeding m to the core: the reply, or a failure StatusReport when the core
\* refuses it.  CASE may also refuse the credentials in an expected message; of
\* a wrong PASE passcode the initiator finds out first, from Pake2.
OnMessage(r, m) ==
    (IF Expected(r, m) THEN {Reply(r, m, "rsp")} ELSE {})
        \cup (IF Rounds = 2 \/ ~Expected(r, m) THEN {Reply(r, m, "fail")} ELSE {})

Respond(r, m, acks) ==
    \E q \in OnMessage(r, m) :
        /\ rsp' = q
        /\ Deliver(m, acks \cup {q.cur}, ini.pc)
        /\ heard' = heard \cup {m.ctr}
        /\ verified' = verified \cup (IF q.ok THEN {q.n} ELSE {})
        /\ UNCHANGED <<kind, ini, installed, abandoned>>

\* ResponderExchange::adopt on the opener the device loop just read.
ResponderAdopt(m, start) ==
    /\ rsp.pc = "idle" /\ rsp.n < MaxAdopts
    /\ m \in net /\ m.from = "i" /\ IsOpener(m)
    /\ Respond([rsp EXCEPT !.k = 1, !.n = @ + 1, !.tx = start, !.peer = m.ctr,
                           !.win = Commit(NewWindow, m.ctr)],
               m, {})

ResponderDuplicate(m) ==
    /\ Busy /\ m \in net /\ m.from = "i"
    /\ ~Fresh(rsp.win, m.ctr)
    /\ Deliver(m, Acks(rsp, "r", m), ini.pc)
    /\ rsp' = [rsp EXCEPT !.tx = AfterAck(rsp, m)]
    /\ UNCHANGED <<ini, history>>

\* A real message ends reply_reliable and recv.
ResponderRequest(m) ==
    /\ rsp.pc \in {"send", "recv"} /\ m \in net /\ m.from = "i" /\ ~IsAck(m)
    /\ Fresh(rsp.win, m.ctr)
    /\ Respond([Screened(rsp, m) EXCEPT !.peer = m.ctr], m, Acks(rsp, "r", m))

\* A standalone ack ends reply_reliable if it acks the reply.
ResponderAcked(m) ==
    /\ rsp.pc \in {"send", "recv"} /\ m \in net /\ m.from = "i" /\ IsAck(m)
    /\ Fresh(rsp.win, m.ctr)
    /\ Deliver(m, {}, ini.pc)
    /\ rsp' = [Screened(rsp, m) EXCEPT !.peer = m.ctr,
                                       !.pc = IF m.ack = rsp.cur.ctr THEN "recv" ELSE @]
    /\ UNCHANGED <<ini, history>>

\* The handshake is over: a session is installed, or the error is logged.
Finish(ok) ==
    /\ installed' = installed \cup (IF ok THEN {rsp.n} ELSE {})
    /\ abandoned' = abandoned \cup (IF ok THEN {} ELSE {rsp.n})
    /\ UNCHANGED <<kind, heard, verified>>

\* Mutant: any ack ends reply_final.
ResponderFinalAnyAck(m) ==
    /\ rsp.pc = "final" /\ m \in net /\ m.from = "i"
    /\ Fresh(rsp.win, m.ctr)
    /\ Deliver(m, Acks(rsp, "r", m), ini.pc)
    /\ rsp' = [Screened(rsp, m) EXCEPT !.peer = m.ctr, !.pc = IF IsAck(m) THEN "idle" ELSE @]
    /\ IF IsAck(m) THEN Finish(rsp.ok) ELSE UNCHANGED history
    /\ UNCHANGED ini

\* reply_final: only the ack of what was sent ends it, whatever carries the ack.
ResponderFinal(m) ==
    /\ rsp.pc = "final" /\ m \in net /\ m.from = "i"
    /\ Fresh(rsp.win, m.ctr)
    /\ Deliver(m, Acks(rsp, "r", m), ini.pc)
    /\ rsp' = [Screened(rsp, m) EXCEPT !.peer = m.ctr,
                                       !.pc = IF m.ack = rsp.cur.ctr THEN "idle" ELSE @]
    /\ IF m.ack = rsp.cur.ctr
       THEN Finish(rsp.ok)
       ELSE heard' = heard \cup {m.ctr} /\ UNCHANGED <<kind, verified, installed, abandoned>>
    /\ UNCHANGED ini

\* mrp_send_loop, as above.
ResponderRetransmit ==
    /\ rsp.pc \in {"send", "final"} /\ rsp.tries < MaxRetries
    /\ rsp' = [rsp EXCEPT !.tries = @ + 1]
    /\ net' = Readable(net \cup {rsp.cur}, ini.pc)
    /\ UNCHANGED <<ini, dups, history>>

\* Mutant: recv has no timeout.
ResponderRecvForever ==
    /\ rsp.pc \in {"send", "final"} /\ rsp.tries = MaxRetries
    /\ rsp' = [rsp EXCEPT !.pc = "idle"]
    /\ Finish(FALSE)
    /\ UNCHANGED <<ini, net, dups>>

\* The retry budget or RECV_TIMEOUT ran out: drive_established fails.
ResponderTimeout ==
    /\ \/ rsp.pc = "recv"
       \/ rsp.pc \in {"send", "final"} /\ rsp.tries = MaxRetries
    /\ rsp' = [rsp EXCEPT !.pc = "idle"]
    /\ Finish(FALSE)
    /\ UNCHANGED <<ini, net, dups>>
-----------------------------------------------------------------------------
\* establish() has built the exchange and sent the first request.
Init ==
    LET first == Build("i", 1, 0, "req", 1, 0)
    IN  /\ kind \in Handshakes
        /\ ini = [pc |-> "send", k |-> 1, n |-> 0, tx |-> 2, cur |-> first, tries |-> 0,
                  win |-> NewWindow]
        /\ rsp = [pc |-> "idle", k |-> 1, n |-> 0, tx |-> 1, cur |-> first, tries |-> 0,
                  win |-> NewWindow, peer |-> 0, ok |-> FALSE]
        /\ net = {first}
        /\ dups = 0
        /\ heard = {} /\ verified = {} /\ installed = {} /\ abandoned = {}

Initiator ==
    \/ \E m \in net : InitiatorDuplicate(m) \/ InitiatorAcked(m) \/ InitiatorResponse(m)
    \/ InitiatorRetransmit
    \/ InitiatorTimeout

ResponderTimers == ResponderRetransmit \/ ResponderTimeout

Responder ==
    \/ \E m \in net :
          \/ \E start \in TxStarts : ResponderAdopt(m, start)
          \/ ResponderDuplicate(m)
          \/ ResponderRequest(m)
          \/ ResponderAcked(m)
          \/ ResponderFinal(m)
    \/ ResponderTimers

Next == Initiator \/ Responder

Spec == Init /\ [][Next]_vars

\* Timers fire.  Nothing is assumed of the network or of the initiator.
FairSpec == Spec /\ WF_vars(ResponderTimers)
-----------------------------------------------------------------------------
\* The types of both ends and of what is in flight.
TypeOK ==
    /\ ini.pc \in {"send", "recv", "established", "failed"}
    /\ rsp.pc \in {"idle", "send", "recv", "final"}
    /\ {ini.k, rsp.k} \subseteq 1 .. Rounds
    /\ {ini.n, rsp.n} \subseteq 0 .. MaxAdopts
    /\ {ini.tries, rsp.tries} \subseteq 0 .. MaxRetries
    /\ {ini.win, rsp.win} \subseteq RxWindow
    /\ net \subseteq Datagram
    /\ {ini.cur, rsp.cur} \subseteq Datagram
    /\ dups \in 0 .. MaxDups
    /\ verified \cup installed \cup abandoned \subseteq 1 .. MaxAdopts

\* The session of the attempt that opened the exchange is installed only when the
\* controller has it too: the ack that ends reply_final came from an initiator
\* that accepted this StatusReport, never from the ack of an older message, a
\* duplicate or a later attempt.
FirstAttemptShared ==
    1 \in installed => ini.pc = "established" /\ ini.n = 1

\* The same of every attempt: "ex.recv keeps the one ResponderExchange (and its
\* single incrementing TxCounter) alive for the whole handshake, avoiding" that
\* a reply is acknowledged but rejected as too old (mat-device/src/net/pase.rs).
InstalledIsShared ==
    \A n \in installed : ini.pc = "established" /\ ini.n = n

\* The controller has a session only if the device verified its last request in
\* the attempt the keys come from, however many attempts late openers started.
EstablishedIsVerified ==
    ini.pc = "established" => ini.n \in verified

\* With the types of both ends, the retry budget included.
EstablishedSound == TypeOK /\ EstablishedIsVerified

\* "exchange 上の実メッセージは応答とみなす (相手が処理した証拠)": when the initiator
\* stops retransmitting, because of an ack or of a message, its request has
\* been accepted by the device.
AdvanceMeansAccepted ==
    ini.pc \in {"recv", "established"} => ini.cur.ctr \in heard

\* Whatever the network and the controller do, the device's single handshake
\* slot becomes free again.
SlotFreed == Busy ~> ~Busy

\* "Established failure: best-effort responder, nothing more to do - the
\* initiator's own retry/StatusReport handling covers it"
\* (mat-device/src/net/runtime/mod.rs): a handshake that failed on the device
\* has not succeeded on the controller.
FailureIsShared ==
    ini.pc = "established" => ini.n \notin abandoned
=============================================================================
