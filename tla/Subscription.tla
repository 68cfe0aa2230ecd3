---------------------------- MODULE Subscription ----------------------------
(***************************************************************************)
(* One node's subscription from end to end: the device                     *)
(* (DeviceSubscription), the subscription loop of matd                     *)
(* (matd/src/subscription/pump.rs) with what it shares with the server     *)
(* (SubHealth), the supervisor that starts and stops the loop              *)
(* (matd/src/subscription/mod.rs), and the operations that disturb it: the *)
(* device has one session, so the CASE session of a direct operation takes *)
(* the place of the subscription's.                                        *)
(*                                                                         *)
(* MRP (Exchange, SecureSession) makes a message arrive once or not at     *)
(* all, so the wire holds the one message in flight and a fault removes it *)
(* for good.  Time is left out: a timer may fire whenever the code waits   *)
(* for it and what it waits for cannot come; a timer that fires early is a *)
(* fault too.                                                              *)
(***************************************************************************)
EXTENDS DeviceSubscription

CONSTANTS
    MaxEvents,  \* the highest event number
    MaxBoots,   \* starts and commissionings of the device
    MaxTrouble  \* stimuli, operations, node_touched requests, restarts, lost
                \* messages and early timeouts taken together

ASSUME BoundsAssumption ==
    MaxEvents \in Nat \ {0} /\ MaxBoots \in Nat \ {0} /\ MaxTrouble \in Nat

VARIABLES
    dev,    \* the device
    wire,   \* the message in flight on the subscription's session
    health, \* SubHealth
    loop,   \* where node_subscription_loop is
    sup,    \* the ledger; the supervisor has a loop; it is letting go of it
    op,     \* the direct operation
    heard,  \* history: how often listeners got an event as news
    primed, \* history: events they got as priming lines
    told,   \* history: the value listeners know from news
    owed,   \* history: touched signals less the wakes they caused
    trouble \* what is left of MaxTrouble

vars == <<dev, wire, health, loop, sup, op, heard, primed, told, owed, trouble>>
listened == <<heard, primed, told>>

H == INSTANCE SubHealth WITH NoValue <- NoValue

Nothing == [k |-> "nothing"]
Ok == [k |-> "ok"]  \* the ack or StatusResponse that ends a device's flow
Event == (1 .. MaxBoots) \X (1 .. MaxEvents)
Waiting == {"establish", "ask", "subscribing", "pump", "answer", "backoff"}
NoConn == {"off", "establish", "backoff"}

\* The step is one of those that MaxTrouble bounds.
Trouble == trouble > 0 /\ trouble' = trouble - 1

\* Closing the connection loses what was on its way to the daemon.
Closed == IF wire.k \in {"ok", "request"} THEN wire ELSE Nothing
-----------------------------------------------------------------------------
(* The device.  Whatever it does it does between two flows. *)

\* A stimulus or a groupcast changes the attribute.
StimulusChanges(v) ==
    /\ dev.busy = "no" /\ v # dev.value
    /\ Trouble
    /\ dev' = Change(dev, v)
    /\ UNCHANGED <<wire, health, loop, sup, op, listened, owed>>

\* A stimulus emits an event.
StimulusEmits ==
    /\ dev.busy = "no" /\ dev.next <= MaxEvents
    /\ dev' = AppendEvent(dev)
    /\ UNCHANGED <<wire, health, loop, sup, op, listened, owed, trouble>>

\* The device loses its power: the value and the log start again.
Restart(first) ==
    /\ dev.ep < MaxBoots /\ Trouble
    /\ dev' = Boot(dev.ep + 1, first, dev.back \/ first < dev.next)
    /\ wire' = Nothing
    /\ UNCHANGED <<health, loop, sup, op, listened, owed>>

\* serve_subscribe_request: the priming report.
DevPrime ==
    /\ dev.busy = "no" /\ wire.k = "request"
    /\ IF dev.sess = "sub"
       THEN /\ dev' = [dev EXCEPT !.busy = "prime"]
            /\ wire' = [k |-> "priming", report |-> Priming(dev, wire.min)]
       ELSE /\ wire' = Nothing \* of a session that is gone
            /\ UNCHANGED dev
    /\ UNCHANGED <<health, loop, sup, op, listened, owed, trouble>>

\* on_subscription_due
DevReport ==
    /\ dev.busy = "no" /\ dev.sub.live /\ wire = Nothing
    /\ dev' = [dev EXCEPT !.busy = "report"]
    /\ wire' = [k |-> "report", report |-> Report(dev)]
    /\ UNCHANGED <<health, loop, sup, op, listened, owed, trouble>>

\* The answer came: the subscription is installed, or goes on.
DevAnswered ==
    /\ dev.busy # "no" /\ wire = Ok
    /\ dev' = IF dev.busy = "prime" THEN Installed(dev) ELSE Reported(dev)
    /\ wire' = Nothing
    /\ loop' = IF loop.pc = "answer" THEN [loop EXCEPT !.pc = "pump"] ELSE loop
    /\ UNCHANGED <<health, sup, op, listened, owed, trouble>>

\* No answer: there is no subscription any more.
DevGivesUp ==
    /\ dev.busy # "no" /\ wire = Nothing
    /\ dev' = Dropped(dev)
    /\ UNCHANGED <<wire, health, loop, sup, op, listened, owed, trouble>>
-----------------------------------------------------------------------------
(* The wire. *)

\* Lost for good.  A message for nobody costs no fault.
Lose ==
    /\ wire # Nothing
    /\ IF wire.k \in {"priming", "report"} /\ loop.pc \in NoConn
       THEN UNCHANGED trouble ELSE Trouble
    /\ wire' = Nothing
    /\ UNCHANGED <<dev, health, loop, sup, op, listened, owed>>

\* The device has the StatusResponse, but its ack is lost.
AckLost ==
    /\ dev.busy = "report" /\ wire = Ok /\ loop.pc = "answer"
    /\ Trouble
    /\ dev' = Reported(dev)
    /\ wire' = Nothing
    /\ loop' = [loop EXCEPT !.pc = "pump", !.err = TRUE]
    /\ UNCHANGED <<health, sup, op, listened, owed>>
-----------------------------------------------------------------------------
(* The subscription loop. *)

\* establish_subscription; event_min is read once the session is there.  A loop
\* that was aborted does not come that far: it is dropped while it waits.
Establish ==
    /\ loop.pc = "establish" /\ sup.ledger /\ ~sup.stopping /\ dev.busy = "no"
    /\ dev' = InstallSession(dev, "sub")
    /\ loop' = [loop EXCEPT !.pc = "ask"]
    /\ wire' = Nothing
    /\ UNCHANGED <<health, sup, op, listened, owed, trouble>>

\* The attempt failed, or the subscription is lost: mark_down and backoff.
Down(h) ==
    /\ health' = H!Mark(h, "down")
    /\ loop' = [pc |-> "backoff", min |-> 0, err |-> FALSE]
    /\ wire' = Closed

EstablishFails ==
    /\ loop.pc = "establish"
    /\ IF sup.ledger THEN Trouble ELSE UNCHANGED trouble
    /\ Down(health)
    /\ UNCHANGED <<dev, sup, op, listened, owed>>

\* conn.subscribe: EventMin is the number after the last one seen.
Ask ==
    /\ loop.pc = "ask" /\ wire = Nothing
    /\ LET min == IF health.last = 0 THEN 0 ELSE health.last + 1
       IN  /\ wire' = [k |-> "request", min |-> min]
           /\ loop' = [loop EXCEPT !.pc = "subscribing", !.min = min]
    /\ UNCHANGED <<dev, health, sup, op, listened, owed, trouble>>

\* The subscribe ends in an error; too soon if an answer is on its way.
SubscribeFails ==
    /\ loop.pc = "subscribing" /\ wire = Nothing
    /\ Down(health)
    /\ UNCHANGED <<dev, sup, op, listened, owed, trouble>>

SubscribeFailsEarly ==
    /\ loop.pc = "subscribing" /\ wire # Nothing
    /\ Trouble
    /\ Down(health)
    /\ UNCHANGED <<dev, sup, op, listened, owed>>

\* Report r goes to the listeners: `news' are its events that are.
Emit(h, r, news, priming) ==
    LET E(s) == {<<dev.ep, n>> : n \in s}
    IN  /\ heard' = [e \in Event |-> heard[e] + IF e \in E(news) THEN 1 ELSE 0]
        /\ primed' = primed \cup (E(r.events) \ E(news))
        /\ told' = IF H!IsNews(h, r.value, priming) THEN r.value ELSE told
        /\ health' = H!NoteEvents(H!Observe(h, r.value), r.events, ~priming)

\* The priming report and the SubscribeResponse: the subscription stands.
Established ==
    /\ loop.pc = "subscribing" /\ wire.k = "priming"
    /\ LET r == wire.report
       IN  Emit(H!ClearPending(H!Mark(health, "established")), r,
                H!NewsOfPriming(r.events, loop.min), TRUE)
    /\ loop' = [loop EXCEPT !.pc = "pump"]
    /\ wire' = Ok
    /\ UNCHANGED <<dev, sup, op, owed, trouble>>

\* next_report_full: a report is answered and delivered.  The code hands it over
\* when the answer is acknowledged or has failed; in between only an operation
\* that returns looks at the record, and only an abort ends the wait.
PumpReport ==
    /\ loop.pc = "pump" /\ ~loop.err /\ wire.k = "report"
    /\ Emit(H!ClearPending(health), wire.report, wire.report.events, FALSE)
    /\ loop' = [loop EXCEPT !.pc = "answer"]
    /\ wire' = Ok
    /\ UNCHANGED <<dev, sup, op, owed, trouble>>

\* respond_status got no ack: deferred_sub_err.
AnswerFails ==
    /\ loop.pc = "answer" /\ wire = Nothing
    /\ loop' = [loop EXCEPT !.pc = "pump", !.err = TRUE]
    /\ UNCHANGED <<dev, wire, health, sup, op, listened, owed, trouble>>

\* pump_verdict: touched.  The loop goes on at once, without mark_down.
EndTouched ==
    /\ loop.pc = "pump" /\ health.touched
    /\ health' = H!ClearTouched(H!ClearPending(health))
    /\ loop' = [pc |-> "establish", min |-> 0, err |-> FALSE]
    /\ wire' = Closed
    /\ owed' = owed - 1
    /\ UNCHANGED <<dev, sup, op, listened, trouble>>

\* pump_verdict: nothing came of an operation that changed the attribute.
EndOpGrace ==
    /\ loop.pc = "pump" /\ ~health.touched /\ health.pending
    /\ Down(H!ClearPending(health))
    /\ UNCHANGED <<dev, sup, op, listened, owed, trouble>>

\* pump_verdict: the silence deadline is past.  A device that serves the
\* subscription sends its keep-alive before.
EndSilence ==
    /\ loop.pc = "pump" /\ ~health.touched
    /\ ~dev.sub.live /\ dev.busy = "no" /\ wire = Nothing
    /\ Down(H!ClearPending(health))
    /\ UNCHANGED <<dev, sup, op, listened, owed, trouble>>

\* Its reports are late.
EndSilenceEarly ==
    /\ loop.pc = "pump" /\ ~health.touched /\ dev.sub.live
    /\ Trouble
    /\ Down(H!ClearPending(health))
    /\ UNCHANGED <<dev, sup, op, listened, owed>>

\* The session failed under the pump.
EndError ==
    /\ loop.pc = "pump" /\ loop.err
    /\ Down(H!ClearPending(health))
    /\ UNCHANGED <<dev, sup, op, listened, owed, trouble>>

\* The backoff is over.
Retry ==
    /\ loop.pc = "backoff"
    /\ loop' = [loop EXCEPT !.pc = "establish"]
    /\ UNCHANGED <<dev, wire, health, sup, op, listened, owed, trouble>>

\* The backoff is cut short by note_touched.
RetryTouched ==
    /\ loop.pc = "backoff" /\ health.permit
    /\ health' = H!ClearTouched(health)
    /\ loop' = [loop EXCEPT !.pc = "establish"]
    /\ owed' = owed - 1
    /\ UNCHANGED <<dev, wire, sup, op, listened, trouble>>
-----------------------------------------------------------------------------
(* The supervisor. *)

\* `mat unpair' removes the fabric from the device and the node from the
\* ledger; the device then is somebody else's.
Unpair ==
    /\ sup.ledger
    /\ dev.ep < MaxBoots /\ Trouble
    /\ sup' = [sup EXCEPT !.ledger = FALSE]
    /\ dev' = Boot(dev.ep + 1, 1, TRUE)
    /\ wire' = Nothing
    /\ UNCHANGED <<health, loop, op, listened, owed>>

\* `mat commission' under the same node id.
Pair ==
    /\ ~sup.ledger
    /\ sup' = [sup EXCEPT !.ledger = TRUE]
    /\ UNCHANGED <<dev, wire, health, loop, op, listened, owed, trouble>>

\* The rescan finds the node gone: abort.  The loop is dropped at its next await
\* and may write to the health record until then.
Unsubscribe ==
    /\ ~sup.ledger /\ sup.subscribed /\ ~sup.stopping
    /\ sup' = [sup EXCEPT !.stopping = TRUE]
    /\ UNCHANGED <<dev, wire, health, loop, op, listened, owed, trouble>>

\* The loop comes to an await; its SubConn is closed with it.
LoopDropped ==
    /\ sup.stopping /\ loop.pc # "off"
    /\ loop' = [pc |-> "off", min |-> 0, err |-> FALSE]
    /\ wire' = Closed
    /\ UNCHANGED <<dev, health, sup, op, listened, owed, trouble>>

\* The join has returned: forget.
Forget ==
    /\ sup.stopping /\ loop.pc = "off"
    /\ sup' = [sup EXCEPT !.subscribed = FALSE, !.stopping = FALSE]
    /\ health' = H!Forget(health)
    /\ told' = NoValue
    /\ UNCHANGED <<dev, wire, loop, op, heard, primed, owed, trouble>>

\* The rescan finds a new node: spawn, mark_establishing.
Subscribe ==
    /\ sup.ledger /\ ~sup.subscribed
    /\ sup' = [sup EXCEPT !.subscribed = TRUE]
    /\ loop' = [loop EXCEPT !.pc = "establish"]
    /\ health' = H!Mark(health, "establishing")
    /\ UNCHANGED <<dev, wire, op, listened, owed, trouble>>
-----------------------------------------------------------------------------
(* Operations of the daemon's clients (WarmSession). *)

\* Over a new session, or over the warm one if the device still has it.
OpSends(v) ==
    /\ op.st = "idle" /\ sup.ledger /\ dev.busy = "no"
    /\ Trouble
    /\ \E new \in {TRUE, dev.sess # "op"} :
          /\ op' = [st |-> "sent", new |-> new, v |-> v]
          /\ dev' = IF new THEN InstallSession(dev, "op") ELSE dev
    /\ UNCHANGED <<wire, health, loop, sup, listened, owed>>

\* The device executes the operation and the answer arrives.
OpExecutes ==
    /\ op.st = "sent" /\ dev.sess = "op" /\ dev.busy = "no"
    /\ dev' = IF op.v = dev.value THEN dev ELSE Change(dev, op.v)
    /\ op' = [op EXCEPT !.st = "answered"]
    /\ UNCHANGED <<wire, health, loop, sup, listened, owed, trouble>>

\* with_session returns: on_new_session first, note_op_expectation after a
\* success.
OpReturns ==
    /\ op.st = "answered" \/ (op.st = "sent" /\ dev.sess # "op")
    /\ LET h == IF op.new THEN H!NoteTouched(health) ELSE health
       IN  health' = IF op.st = "answered" THEN H!NoteOp(h, op.v) ELSE h
    /\ op' = [op EXCEPT !.st = "idle"]
    /\ owed' = owed + IF op.new THEN 1 ELSE 0
    /\ UNCHANGED <<dev, wire, loop, sup, listened, trouble>>

\* The client leaves: the operation is dropped and tells nobody.
OpDropped ==
    /\ op.st # "idle"
    /\ op' = [op EXCEPT !.st = "idle"]
    /\ UNCHANGED <<dev, wire, health, loop, sup, listened, owed, trouble>>

\* The node_touched request.
NodeTouched ==
    /\ Trouble
    /\ health' = H!NoteTouched(health)
    /\ owed' = owed + 1
    /\ UNCHANGED <<dev, wire, loop, sup, op, listened>>
-----------------------------------------------------------------------------
Init ==
    /\ dev = Boot(1, 1, FALSE)
    /\ wire = Nothing
    /\ health = H!Forgotten
    /\ loop = [pc |-> "off", min |-> 0, err |-> FALSE]
    /\ sup = [ledger |-> TRUE, subscribed |-> FALSE, stopping |-> FALSE]
    /\ op = [st |-> "idle", new |-> FALSE, v |-> Default]
    /\ heard = [e \in Event |-> 0]
    /\ primed = {}
    /\ told = NoValue
    /\ owed = 0
    /\ trouble = MaxTrouble

Environment ==
    \/ \E v \in Values : StimulusChanges(v) \/ OpSends(v)
    \/ \E first \in {1, dev.next} : Restart(first)
    \/ StimulusEmits \/ Unpair \/ Pair \/ Lose \/ AckLost
    \/ OpDropped \/ NodeTouched
    \/ EstablishFails \/ SubscribeFailsEarly \/ EndSilenceEarly

Device == DevPrime \/ DevReport \/ DevAnswered \/ DevGivesUp
Pump == Establish \/ Ask \/ Established \/ SubscribeFails \/ PumpReport \/ Retry
Ends == AnswerFails \/ EndOpGrace \/ EndError \/ EndSilence
Operation == OpExecutes \/ OpReturns
Supervisor == Unsubscribe \/ LoopDropped \/ Forget \/ Subscribe

Next ==
    \/ Environment \/ Device \/ Pump \/ Ends \/ Operation \/ Supervisor
    \/ EndTouched \/ RetryTouched

Spec == Init /\ [][Next]_vars

\* The receive loop of the device, the tasks of the daemon and their timers
\* go on; what they wait for is bounded by the timers.
FairSpec ==
    /\ Spec
    /\ WF_vars(Device) /\ WF_vars(Pump) /\ WF_vars(Ends)
    /\ WF_vars(EndTouched) /\ WF_vars(Operation) /\ WF_vars(Supervisor)
    /\ WF_vars(Lose /\ loop.pc \in NoConn)
-----------------------------------------------------------------------------
TypeOK ==
    /\ dev \in [value : Values, oldest : 1 .. MaxEvents + 1, next : 1 .. MaxEvents + 1,
                sess : {"none", "sub", "op"}, busy : {"no", "prime", "report"},
                sub : [live : BOOLEAN, dirty : BOOLEAN, next : 0 .. MaxEvents + 1],
                ep : 1 .. MaxBoots, back : BOOLEAN]
    /\ dev.next - dev.oldest \in 0 .. LogCap
    /\ dev.sub.live => dev.sess = "sub"
    /\ wire.k \in {"nothing", "ok", "request", "priming", "report"}
    /\ health \in [pending : BOOLEAN, value : Values \cup {NoValue},
                   last : 0 .. MaxEvents, touched : BOOLEAN, permit : BOOLEAN,
                   status : {"absent", "establishing", "established", "down"}]
    /\ loop \in [pc : {"off"} \cup Waiting, min : 0 .. MaxEvents + 1, err : BOOLEAN]
    /\ op \in [st : {"idle", "sent", "answered"}, new : BOOLEAN, v : Values]

\* No listener gets an event twice as news, whatever is lost and however often
\* the subscription is made again: a report that was delivered but not
\* acknowledged is not repeated by the next priming report (EventMin).
EventOnce == \A e \in Event : heard[e] <= 1

\* As long as the device's numbers do not start again, an event the daemon has
\* passed over was given to the listeners, unless the device's log had lost it
\* first: next_event of the device and EventMin of the daemon leave no gap, with
\* reports that carry a part of the log, reports that are not acknowledged and
\* a device that restarts.
NothingSkipped ==
    ~dev.back =>
        \A n \in Log(dev) :
            n <= health.last => heard[<<dev.ep, n>>] > 0 \/ <<dev.ep, n>> \in primed

\* Every event of the device reaches the listeners, and once: neither the
\* device's next_event nor the daemon's EventMin repeats or skips one.
EventsExact == EventOnce /\ NothingSkipped

\* Once the pump has seen a live event since the device started, the EventMin
\* of the next subscription is one the device will reach: note_event_number
\* follows a log that starts again instead of latching at its old end.
EventMinIsReachable ==
    (\E n \in 1 .. MaxEvents : heard[<<dev.ep, n>>] > 0) => health.last < dev.next

\* A listener that goes by the news alone never believes in a value the daemon
\* knows to be old: a change that fell into the time between two
\* subscriptions is reported as recovered.
BlindWindowRecovered == told = NoValue \/ told = health.value

\* A touched signal makes the loop subscribe again at most once: neither its
\* flag nor the permit of its Notify is left for a later wait.
TouchSpentOnce == owed >= 0

\* Of a node the supervisor has let go of, the daemon knows nothing: no write
\* of its aborted loop comes after forget, which waits for the join.
NoGhost ==
    ~sup.subscribed =>
        health.value = NoValue /\ health.last = 0 /\ health.status = "absent"

\* The record the loop, the operations and the supervisor share: its event number
\* can be resumed from, its signals are spent once, and it ends with the node.
HealthSound == TypeOK /\ EventMinIsReachable /\ TouchSpentOnce /\ NoGhost

\* When the disturbances are over, the daemon and the device agree again, and
\* stay so: a subscription stands, the last value and the last event are known.
\* No session that took the place of the subscription's, no lost report and no
\* restart leaves the daemon with a subscription only it believes in.
Converges ==
    <>[](sup.ledger =>
            /\ dev.sub.live /\ loop.pc \in {"pump", "answer"}
            /\ health.value = dev.value
            /\ \A n \in Log(dev) : n <= health.last)
=============================================================================
