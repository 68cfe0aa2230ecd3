------------------------ MODULE SubscriptionProofs ------------------------
(***************************************************************************)
(* Proofs about Subscription: EventsExact, HealthSound and                 *)
(* BlindWindowRecovered are invariants of the specification, for every set *)
(* of values, every size of the log and of the reports, and every number   *)
(* of events, restarts and faults.                                         *)
(*                                                                         *)
(* The device and the daemon agree on the events through three numbers:    *)
(* the device's dev.next and dev.sub.next, and the daemon's health.last.   *)
(* The inductive invariant relates each of them to what the listeners were *)
(* given of the device's present run (Heard, Covered), and to the message  *)
(* in flight, which is always made from the present state of its sender.   *)
(***************************************************************************)
EXTENDS Subscription, TLAPS

Number == 1 .. MaxEvents + 1
Min == 0 .. MaxEvents + 1

\* The listeners got event n of the device's present run as news, or at all.
Heard(n) == heard[<<dev.ep, n>>] > 0
Covered(n) == heard[<<dev.ep, n>>] > 0 \/ <<dev.ep, n>> \in primed

Sub == [live : BOOLEAN, dirty : BOOLEAN, next : 0 .. MaxEvents + 1]
Dev ==
    [value : Values, oldest : 1 .. MaxEvents + 1, next : 1 .. MaxEvents + 1,
     sess : {"none", "sub", "op"}, busy : {"no", "prime", "report"},
     sub : Sub, ep : 1 .. MaxBoots, back : BOOLEAN]
Health ==
    [pending : BOOLEAN, value : Values \cup {NoValue},
     last : 0 .. MaxEvents, touched : BOOLEAN, permit : BOOLEAN,
     status : {"absent", "establishing", "established", "down"}]
Loop == [pc : {"off"} \cup Waiting, min : 0 .. MaxEvents + 1, err : BOOLEAN]
Op == [st : {"idle", "sent", "answered"}, new : BOOLEAN, v : Values]

\* What the device keeps is consistent.
DevSound(d) ==
    /\ d \in Dev
    /\ d.next - d.oldest \in 0 .. LogCap
    /\ d.sub.live => d.sess = "sub"
    /\ d.sub.next <= d.next
    /\ d.busy = "report" => d.sub.live
    /\ d.busy # "no" => d.sess = "sub"

Types ==
    /\ DevSound(dev) /\ health \in Health /\ loop \in Loop /\ op \in Op
    /\ sup \in [ledger : BOOLEAN, subscribed : BOOLEAN, stopping : BOOLEAN]
    /\ heard \in [Event -> Nat] /\ primed \subseteq Event
    /\ owed \in Int /\ trouble \in Nat

\* What is in flight was made from the state its sender still is in.
WireSound ==
    \/ wire = Nothing
    \/ wire = Ok
    \/ \E min \in Min :
          /\ wire = [k |-> "request", min |-> min]
          /\ loop.pc = "subscribing" => min = loop.min
    \/ \E min \in Min :
          /\ dev.busy = "prime"
          /\ wire = [k |-> "priming", report |-> Priming(dev, min)]
          /\ loop.pc = "subscribing" => min = loop.min
    \/ dev.busy = "report" /\ wire = [k |-> "report", report |-> Report(dev)]

MinSound ==
    loop.pc = "subscribing" => loop.min = IF health.last = 0 THEN 0 ELSE health.last + 1

\* Nothing was given of a run of the device that is yet to come.
NotAhead ==
    \A b \in 1 .. MaxBoots, n \in 1 .. MaxEvents :
        heard[<<b, n>>] > 0 \/ <<b, n>> \in primed => b <= dev.ep

\* A subscription that stands, and where its next report will start: after the
\* one under way, if that was delivered.
Standing ==
    /\ dev.sub.live
    /\ \/ dev.busy = "no"
       \/ wire.k = "report"
       \/ dev.busy = "report" /\ wire = Ok
Upto ==
    IF dev.busy = "report" /\ wire = Ok THEN Reported(dev).sub.next ELSE dev.sub.next
JustPrimed == dev.busy = "prime" /\ wire = Ok

\* News of the device's present run: the daemon's number is not behind it, not
\* ahead of the device, and no report or priming report will repeat it.
HeardSound ==
    \A n \in 1 .. MaxEvents : Heard(n) =>
        /\ n < dev.next /\ n <= health.last /\ health.last < dev.next
        /\ Standing => n < Upto
        /\ sup.ledger

\* What is in the log and below one of the three numbers was given.
CoveredSound ==
    ~dev.back =>
        /\ health.last < dev.next
        /\ \A n \in Log(dev) :
              n <= health.last \/ JustPrimed \/ (Standing /\ n < Upto) => Covered(n)

Events == NotAhead /\ EventOnce /\ HeardSound /\ CoveredSound

\* A node that is not in the ledger is nobody's.
Unpaired == ~sup.ledger => dev.back /\ dev.sess = "none" /\ dev.busy = "no"

Owing == owed >= 0 /\ (health.touched \/ health.permit => owed >= 1)

Gone ==
    ~sup.subscribed =>
        /\ loop.pc = "off"
        /\ health.value = NoValue /\ health.last = 0 /\ health.status = "absent"

\* While the supervisor waits for an aborted loop, the node has nothing of it:
\* no session and no news of its present run, even if it was paired again.
Stopped ==
    sup.stopping =>
        /\ dev.back /\ dev.sess # "sub" /\ dev.busy = "no"
        /\ \A n \in 1 .. MaxEvents : ~Heard(n)

IInv ==
    /\ Types /\ WireSound /\ MinSound /\ Events
    /\ Unpaired /\ Owing /\ Gone /\ BlindWindowRecovered
-----------------------------------------------------------------------------
(* What the device's operators return. *)

\* A device that differs in what the event numbers do not depend on.
SameEvents(c, d) ==
    c.ep = d.ep /\ c.next = d.next /\ c.oldest = d.oldest /\ c.back = d.back

LEMMA DevFields ==
    ASSUME NEW d, DevSound(d)
    PROVE  /\ d.value \in Values /\ d.oldest \in Int /\ d.next \in Int
           /\ 1 <= d.oldest /\ d.oldest <= d.next /\ d.next <= MaxEvents + 1
           /\ d.next - d.oldest <= LogCap
           /\ d.sub \in Sub /\ d.sub.next \in Int /\ 0 <= d.sub.next
           /\ d.sub.next <= d.next /\ d.sub.dirty \in BOOLEAN /\ d.sub.live \in BOOLEAN
           /\ d.ep \in 1 .. MaxBoots /\ d.back \in BOOLEAN
  BY DeviceAssumption, BoundsAssumption DEF DevSound, Dev, Sub

\* Boot: a run that starts with an empty log.
LEMMA BootSound ==
    ASSUME NEW ep \in 1 .. MaxBoots, NEW first \in Number, NEW back \in BOOLEAN
    PROVE  /\ DevSound(Boot(ep, first, back))
           /\ Boot(ep, first, back).ep = ep
           /\ Boot(ep, first, back).next = first
           /\ Boot(ep, first, back).oldest = first
           /\ Boot(ep, first, back).back = back
           /\ Boot(ep, first, back).busy = "no"
           /\ Boot(ep, first, back).sess = "none"
           /\ ~Boot(ep, first, back).sub.live
  BY DeviceAssumption, BoundsAssumption DEF Boot, NoSub, DevSound, Dev, Sub, Number

\* append: the log keeps its bound, and its numbers stay consecutive.
LEMMA AppendEventSound ==
    ASSUME NEW d, DevSound(d), d.next <= MaxEvents, d.busy = "no"
    PROVE  LET c == AppendEvent(d)
           IN  /\ DevSound(c)
               /\ c.next = d.next + 1 /\ c.oldest \in {d.oldest, d.oldest + 1}
               /\ c.ep = d.ep /\ c.back = d.back /\ c.sub = d.sub
               /\ c.busy = d.busy /\ c.sess = d.sess
<1> DEFINE c == AppendEvent(d)
<1>1. /\ c.next = d.next + 1
      /\ c.oldest = IF d.next - d.oldest = LogCap THEN d.oldest + 1 ELSE d.oldest
      /\ c.ep = d.ep /\ c.back = d.back /\ c.sub = d.sub
      /\ c.busy = d.busy /\ c.sess = d.sess /\ c.value = d.value
  BY DEF AppendEvent, DevSound, Dev
<1>2. c.oldest \in Number /\ c.next \in Number /\ c.next - c.oldest \in 0 .. LogCap
  BY <1>1, DevFields, DeviceAssumption, BoundsAssumption DEF Number
<1>3. c \in Dev
  BY <1>2 DEF AppendEvent, DevSound, Dev, Number
<1> QED
  BY <1>1, <1>2, <1>3, DevFields DEF DevSound

\* Setting busy.
LEMMA BusySound ==
    ASSUME NEW d, DevSound(d), NEW b \in {"no", "prime", "report"}, b = "report" => d.sub.live,
           b # "no" => d.sess = "sub"
    PROVE  LET c == [d EXCEPT !.busy = b]
           IN  /\ DevSound(c) /\ SameEvents(c, d) /\ c.sub = d.sub
               /\ c.busy = b /\ c.sess = d.sess /\ c.value = d.value
  BY DEF DevSound, Dev, SameEvents

\* A stimulus or an invoke leaves the events alone.
LEMMA ChangeSound ==
    ASSUME NEW d, DevSound(d), NEW v \in Values
    PROVE  LET c == Change(d, v)
           IN  /\ DevSound(c) /\ SameEvents(c, d) /\ c.sub.live = d.sub.live
               /\ c.sub.next = d.sub.next /\ c.busy = d.busy /\ c.sess = d.sess
<1> DEFINE e == [d EXCEPT !.value = v]
           c == Change(d, v)
<1>1. /\ e \in Dev /\ e.sub = d.sub /\ SameEvents(e, d)
      /\ e.busy = d.busy /\ e.sess = d.sess
  BY DEF DevSound, Dev, SameEvents
<1>2. c = [e EXCEPT !.sub.dirty = e.sub.live \/ @]
  BY DEF Change, NoteChanged
<1>3. d.sub.live \in BOOLEAN /\ d.sub.dirty \in BOOLEAN
  BY DevFields
<1>4. (e.sub.live \/ e.sub.dirty) \in BOOLEAN
  BY <1>1, <1>3
<1>5. c.sub = [e.sub EXCEPT !.dirty = e.sub.live \/ @]
  BY <1>2, <1>1 DEF Dev
<1>6. c.sub \in Sub /\ c.sub.live = d.sub.live /\ c.sub.next = d.sub.next
  BY <1>5, <1>1, <1>4 DEF Sub, Dev
<1>7. c \in Dev /\ SameEvents(c, d) /\ c.busy = d.busy /\ c.sess = d.sess
  <2> HIDE DEF e, c
  <2>1. c = [e EXCEPT !.sub = c.sub]
    BY <1>1, <1>2, <1>5 DEF Dev
  <2> QED
    BY <2>1, <1>1, <1>6 DEF Dev, SameEvents
<1> QED
  BY <1>6, <1>7 DEF DevSound, SameEvents

\* c is d without its subscription, in session s and in no flow.
Unsubscribed(c, d, s) ==
    DevSound(c) /\ SameEvents(c, d) /\ ~c.sub.live /\ c.busy = "no" /\ c.sess = s

LEMMA NoSubSound ==
    ASSUME NEW d, DevSound(d), NEW s \in {"none", "sub", "op"}
    PROVE  Unsubscribed([d EXCEPT !.sess = s, !.busy = "no", !.sub = NoSub], d, s)
<1> DEFINE c == [d EXCEPT !.sess = s, !.busy = "no", !.sub = NoSub]
<1>1. NoSub \in Sub /\ ~NoSub.live /\ NoSub.next = 0
  BY BoundsAssumption DEF NoSub, Sub
<1>2. /\ c \in Dev /\ SameEvents(c, d) /\ c.sub = NoSub
      /\ c.busy = "no" /\ c.sess = s
  <2> HIDE DEF NoSub
  <2> QED BY <1>1 DEF DevSound, Dev, SameEvents
<1>3. DevSound(c) /\ ~c.sub.live
  <2> HIDE DEF NoSub, c
  <2> QED BY <1>1, <1>2, DevFields DEF DevSound, SameEvents
<1> QED
  BY <1>2, <1>3 DEF Unsubscribed

\* install_session, while no flow is under way.
LEMMA InstallSessionSound ==
    ASSUME NEW d, DevSound(d), d.busy = "no", NEW s \in {"sub", "op"}
    PROVE  Unsubscribed(InstallSession(d, s), d, s)
<1>1. InstallSession(d, s) = [d EXCEPT !.sess = s, !.busy = "no", !.sub = NoSub]
  BY DEF InstallSession, DevSound, Dev
<1>2. Unsubscribed([d EXCEPT !.sess = s, !.busy = "no", !.sub = NoSub], d, s)
  BY NoSubSound
<1> QED
  BY <1>1, <1>2

\* TornDown.
LEMMA DroppedSound ==
    ASSUME NEW d, DevSound(d)
    PROVE  Unsubscribed(Dropped(d), d, d.sess)
<1>1. Dropped(d) = [d EXCEPT !.sess = d.sess, !.busy = "no", !.sub = NoSub]
  BY DEF Dropped, DevSound, Dev
<1>2. d.sess \in {"none", "sub", "op"}
  BY DEF DevSound, Dev
<1>3. Unsubscribed([d EXCEPT !.sess = d.sess, !.busy = "no", !.sub = NoSub], d, d.sess)
  BY <1>2, NoSubSound, Zenon
<1> QED
  BY <1>1, <1>3

\* Installed: the first report starts after the log as it is.
LEMMA InstalledSound ==
    ASSUME NEW d, DevSound(d), d.sess = "sub"
    PROVE  LET c == Installed(d)
           IN  /\ DevSound(c) /\ SameEvents(c, d) /\ c.sub.live /\ c.sub.next = d.next
               /\ c.busy = "no" /\ c.sess = "sub"
<1> DEFINE s == [live |-> TRUE, dirty |-> FALSE, next |-> d.next]
           c == Installed(d)
<1>1. s \in Sub /\ s.live /\ s.next = d.next
  BY DevFields DEF Sub
<1>2. c = [d EXCEPT !.busy = "no", !.sub = s]
  BY DEF Installed
<1>3. /\ c \in Dev /\ SameEvents(c, d) /\ c.sub = s
      /\ c.busy = "no" /\ c.sess = d.sess
  <2> HIDE DEF s, c
  <2> QED BY <1>1, <1>2 DEF DevSound, Dev, SameEvents
<1>4. DevSound(c) /\ c.sub.live /\ c.sub.next = d.next
  <2> HIDE DEF s, c
  <2> QED BY <1>1, <1>3, DevFields DEF DevSound, SameEvents
<1> QED
  BY <1>3, <1>4

\* since and fit_events: a report's events are a part of the log that nothing
\* of the log lies before, but what was reported already.
LEMMA FitSound ==
    ASSUME NEW d, DevSound(d)
    PROVE  LET from == Start(d, d.sub.next)
           IN  /\ from \in Int /\ FitEvents(d, from) \in Int /\ 0 <= FitEvents(d, from)
               /\ d.sub.next <= from /\ d.oldest <= from /\ from \in {d.sub.next, d.oldest}
               /\ from + FitEvents(d, from) <= d.next
  BY DevFields, DeviceAssumption DEF Start, FitEvents

\* What the next report starts with once the present one is acknowledged.
LEMMA ReportedSound ==
    ASSUME NEW d, DevSound(d), d.sub.live
    PROVE  LET c == Reported(d)
               from == Start(d, d.sub.next)
               fitted == FitEvents(d, from)
           IN  /\ DevSound(c) /\ SameEvents(c, d) /\ c.sub.live
               /\ c.busy = "no" /\ c.sess = d.sess
               /\ c.sub.next = IF fitted > 0 THEN from + fitted
                               ELSE IF from >= d.next THEN d.next ELSE d.sub.next
<1> DEFINE from == Start(d, d.sub.next)
           fitted == FitEvents(d, from)
           up == IF fitted > 0 THEN from + fitted
                 ELSE IF from >= d.next THEN d.next ELSE d.sub.next
           s == [d.sub EXCEPT !.dirty = FALSE, !.next = up]
           c == Reported(d)
<1>1. from \in Int /\ fitted \in Int /\ 0 <= fitted /\ from + fitted <= d.next
      /\ d.sub.next <= from /\ d.oldest <= from
  BY FitSound
<1>2. up \in Int /\ 0 <= up /\ up <= d.next
  <2> HIDE DEF from, fitted
  <2> QED BY <1>1, DevFields
<1>3. up \in 0 .. MaxEvents + 1
  <2> HIDE DEF up
  <2> QED BY <1>2, DevFields, BoundsAssumption
<1>4. s \in Sub /\ s.live = d.sub.live /\ s.next = up
  <2> HIDE DEF up
  <2> QED BY <1>3, DevFields DEF Sub
<1>5. c = [d EXCEPT !.busy = "no", !.sub = s]
  <2> HIDE DEF from, fitted
  <2>1. (CASE fitted > 0     -> from + fitted
           [] from >= d.next -> d.next
           [] OTHER          -> d.sub.next) = up
    BY <1>1, DevFields
  <2>2. c = [d EXCEPT !.busy = "no", !.sub.dirty = FALSE, !.sub.next = up]
    BY <2>1 DEF Reported, from, fitted
  <2> HIDE DEF c, up
  <2> QED BY <2>2 DEF DevSound, Dev, Sub
<1>6. /\ c \in Dev /\ SameEvents(c, d) /\ c.sub = s
      /\ c.busy = "no" /\ c.sess = d.sess
  <2> HIDE DEF s, c
  <2> QED BY <1>4, <1>5 DEF DevSound, Dev, SameEvents
<1>7. DevSound(c)
  <2> HIDE DEF s, c, up
  <2> QED BY <1>2, <1>4, <1>6 DEF DevSound, SameEvents
<1>8. c.sub.live /\ c.sub.next = up
  <2> HIDE DEF s, c, up
  <2> QED BY <1>4, <1>6
<1> QED BY <1>6, <1>7, <1>8
-----------------------------------------------------------------------------
(* What the operators on the daemon's record return. *)

Status == {"absent", "establishing", "established", "down"}
SameSignals(g, h) == g.touched = h.touched /\ g.permit = h.permit
SameNews(g, h) == g.last = h.last /\ g.value = h.value

LEMMA MarkSound ==
    ASSUME NEW h \in Health, NEW s \in Status
    PROVE  LET g == H!Mark(h, s)
           IN  g \in Health /\ SameSignals(g, h) /\ SameNews(g, h) /\ g.status = s
  BY DEF Health, Status, H!Mark, SameSignals, SameNews

LEMMA ClearPendingSound ==
    ASSUME NEW h \in Health
    PROVE  LET g == H!ClearPending(h)
           IN  g \in Health /\ SameSignals(g, h) /\ SameNews(g, h) /\ g.status = h.status
  BY DEF Health, H!ClearPending, SameSignals, SameNews

LEMMA NoteOpSound ==
    ASSUME NEW h \in Health, NEW v
    PROVE  LET g == H!NoteOp(h, v)
           IN  g \in Health /\ SameSignals(g, h) /\ SameNews(g, h) /\ g.status = h.status
<1>1. (h.value \notin {NoValue, v} \/ h.pending) \in BOOLEAN
  BY DEF Health
<1> QED
  BY <1>1 DEF Health, H!NoteOp, SameSignals, SameNews

LEMMA NoteTouchedSound ==
    ASSUME NEW h \in Health
    PROVE  LET g == H!NoteTouched(h)
           IN  g \in Health /\ SameNews(g, h) /\ g.status = h.status
  BY DEF Health, H!NoteTouched, SameNews

LEMMA ClearTouchedSound ==
    ASSUME NEW h \in Health
    PROVE  LET g == H!ClearTouched(h)
           IN  /\ g \in Health /\ SameNews(g, h) /\ g.status = h.status
               /\ ~g.touched /\ ~g.permit
  BY DEF Health, H!ClearTouched, SameNews

LEMMA ForgetSound ==
    ASSUME NEW h
    PROVE  LET g == H!Forget(h)
           IN  /\ g \in Health /\ g.last = 0 /\ g.value = NoValue /\ g.status = "absent"
               /\ ~g.touched /\ ~g.permit
  BY BoundsAssumption DEF Health, H!Forget, H!Forgotten

LEMMA MaxOfInterval ==
    ASSUME NEW a \in Int, NEW b \in Int, a <= b
    PROVE  H!Max(a .. b) = b
<1>1. b \in a .. b /\ \A y \in a .. b : b >= y
  OBVIOUS
<1>2. \A x \in a .. b : (\A y \in a .. b : x >= y) => x = b
  <2> SUFFICES ASSUME NEW x \in a .. b, \A y \in a .. b : x >= y
               PROVE  x = b
    OBVIOUS
  <2> QED BY <1>1
<1> QED
  BY <1>1, <1>2 DEF H!Max

\* g is h after a report with value v and the events a .. b.
Noted(g, h, v, live, a, b) ==
    /\ g \in Health /\ SameSignals(g, h) /\ g.status = h.status
    /\ g.value = IF v = NoValue THEN h.value ELSE v
    /\ g.last = IF a > b \/ (~live /\ b <= h.last) THEN h.last ELSE b

LEMMA NoteEventsSound ==
    ASSUME NEW h \in Health, NEW v \in Values \cup {NoValue}, NEW live \in BOOLEAN,
           NEW a \in Int, NEW b \in Int, 1 <= a, b <= MaxEvents
    PROVE  Noted(H!NoteEvents(H!Observe(h, v), a .. b, live), h, v, live, a, b)
<1> DEFINE o == H!Observe(h, v)
           g == H!NoteEvents(o, a .. b, live)
<1>1. /\ o \in Health /\ SameSignals(o, h) /\ o.status = h.status /\ o.last = h.last
      /\ o.value = IF v = NoValue THEN h.value ELSE v
  BY DEF Health, H!Observe, SameSignals
<1> HIDE DEF o
<1>2. CASE a > b
  <2>1. a .. b = {}
    BY <1>2
  <2>2. g = o
    BY <2>1 DEF H!NoteEvents
  <2> QED
    BY <1>1, <1>2, <2>2 DEF SameSignals, o, Noted
<1>3. CASE a <= b
  <2>1. a .. b # {} /\ H!Max(a .. b) = b /\ b \in 0 .. MaxEvents
    BY <1>3, MaxOfInterval, BoundsAssumption
  <2> DEFINE l == IF b > o.last \/ (live /\ b < o.last) THEN b ELSE o.last
  <2>2. g = [o EXCEPT !.last = l]
    BY <2>1 DEF H!NoteEvents, H!NoteEventNumber
  <2>3. o.last \in 0 .. MaxEvents
    BY <1>1 DEF Health
  <2>4. l \in 0 .. MaxEvents /\ l = IF ~live /\ b <= h.last THEN h.last ELSE b
    BY <2>1, <2>3, <1>1, BoundsAssumption
  <2>5. /\ g \in Health /\ g.last = l
        /\ g.touched = o.touched /\ g.permit = o.permit /\ g.status = o.status /\ g.value = o.value
    <3> HIDE DEF l, g
    <3> QED BY <2>2, <2>4, <1>1 DEF Health
  <2>6. g.last = IF a > b \/ (~live /\ b <= h.last) THEN h.last ELSE b
    <3> HIDE DEF l, g
    <3> QED BY <2>4, <2>5, <1>3
  <2> QED
    BY <1>1, <2>5, <2>6 DEF SameSignals, o, Noted
<1> QED
  BY <1>2, <1>3
-----------------------------------------------------------------------------
(* What goes over the wire. *)

\* The priming report: all of the log from min on.
LEMMA PrimingSound ==
    ASSUME NEW d, DevSound(d), NEW min \in Min
    PROVE  LET r == Priming(d, min)
               from == Start(d, min)
           IN  /\ r.value \in Values \cup {NoValue}
               /\ r.events = from .. d.next - 1
               /\ from \in Int /\ 1 <= from /\ d.next - 1 \in Int /\ d.next - 1 <= MaxEvents
               /\ d.oldest <= from /\ min <= from /\ from \in {min, d.oldest}
<1>1. min \in Int /\ 0 <= min
  BY BoundsAssumption DEF Min
<1> QED
  BY <1>1, DevFields, BoundsAssumption DEF Priming, Since, Start

LEMMA ReportSound ==
    ASSUME NEW d, DevSound(d)
    PROVE  LET r == Report(d)
               from == Start(d, d.sub.next)
               fitted == FitEvents(d, from)
           IN  /\ r.value \in Values \cup {NoValue}
               /\ r.events = from .. from + fitted - 1
               /\ from \in Int /\ 1 <= from /\ from + fitted - 1 \in Int /\ fitted \in Int /\ 0 <= fitted
               /\ from + fitted - 1 <= d.next - 1 /\ from + fitted - 1 <= MaxEvents
               /\ d.oldest <= from /\ d.sub.next <= from /\ from \in {d.sub.next, d.oldest}
<1>1. Report(d).events = Start(d, d.sub.next) .. Start(d, d.sub.next) + FitEvents(d, Start(d, d.sub.next)) - 1
  BY DEF Report
<1>2. Report(d).value \in Values \cup {NoValue}
  BY DevFields DEF Report
<1> QED
  BY <1>1, <1>2, FitSound, DevFields, BoundsAssumption
-----------------------------------------------------------------------------
(* Steps that leave the parts of the invariant alone. *)

\* The step makes no news and moves none of the numbers.
Calm ==
    /\ heard' = heard /\ primed' = primed /\ health'.last = health.last
    /\ sup.ledger => sup'.ledger
    /\ SameEvents(dev', dev)
    /\ Standing' => Standing /\ Upto' = Upto
    /\ JustPrimed' => JustPrimed

LEMMA CalmKeeps ==
    ASSUME Events, Calm
    PROVE  Events'
<1> USE DEF Calm, SameEvents
<1>1. NotAhead'
  BY DEF Events, NotAhead
<1>2. EventOnce'
  BY DEF Events, EventOnce
<1>3. HeardSound'
  <2> HIDE DEF Standing, Upto
  <2>1. \A n : Heard(n)' <=> Heard(n)
    BY DEF Heard
  <2> HIDE DEF Heard
  <2> QED BY <2>1 DEF Events, HeardSound
<1>4. CoveredSound'
  <2>1. \A n : Covered(n)' <=> Covered(n)
    BY DEF Covered
  <2>2. Log(dev') = Log(dev)
    BY DEF Log
  <2>3. ASSUME ~dev'.back PROVE health'.last < dev'.next
    BY <2>3 DEF Events, CoveredSound
  <2>4. ASSUME ~dev'.back, NEW n \in Log(dev'),
               n <= health'.last \/ JustPrimed' \/ (Standing' /\ n < Upto')
        PROVE  Covered(n)'
    <3>1. n <= health.last \/ JustPrimed \/ (Standing /\ n < Upto)
      BY <2>4
    <3>2. Covered(n)
      BY <3>1, <2>4, <2>2 DEF Events, CoveredSound
    <3> QED BY <3>2, <2>1
  <2> QED
    BY <2>3, <2>4 DEF CoveredSound
<1> QED
  BY <1>1, <1>2, <1>3, <1>4 DEF Events

\* What the message in flight was made from does not change.
LEMMA WireKeeps ==
    ASSUME WireSound, loop'.pc = "subscribing" => loop.pc = "subscribing" /\ loop'.min = loop.min,
           \/ wire' = Nothing
           \/ wire' = Ok
           \/ wire' = wire /\ (dev' = dev \/ dev.busy = "no")
    PROVE  WireSound'
<1>1. CASE wire' = Nothing \/ wire' = Ok
  BY <1>1 DEF WireSound
<1>2. CASE wire' = wire /\ dev' = dev
  BY <1>2 DEF WireSound
<1>3. CASE wire' = wire /\ dev.busy = "no"
  BY <1>3 DEF WireSound
<1> QED
  BY <1>1, <1>2, <1>3

\* A step of the daemon that gives the listeners nothing, and of an operation.
DaemonStep ==
    /\ dev' = dev /\ heard' = heard /\ primed' = primed /\ told' = told
    /\ sup' \in [ledger : BOOLEAN, subscribed : BOOLEAN, stopping : BOOLEAN]
    /\ sup.ledger => sup'.ledger
    /\ health' \in Health /\ SameNews(health', health)
    /\ loop' \in Loop /\ op' \in Op /\ owed' \in Int /\ trouble' \in Nat
    /\ loop'.pc = "subscribing" => loop.pc = "subscribing" /\ loop'.min = loop.min
    /\ wire' = wire \/ wire' = Nothing

LEMMA DaemonStepKeeps ==
    ASSUME IInv, DaemonStep
    PROVE  /\ Types' /\ WireSound' /\ MinSound' /\ Events'
           /\ Unpaired' /\ BlindWindowRecovered'
<1>1. Types'
  BY DEF IInv, Types, DaemonStep
<1>2. WireSound'
  BY WireKeeps DEF IInv, DaemonStep
<1>3. MinSound'
  BY DEF IInv, MinSound, DaemonStep, SameNews
<1>4. Calm
  <2>1. Standing' => Standing /\ Upto' = Upto
    BY DEF DaemonStep, Standing, Upto, Nothing, Ok
  <2>2. JustPrimed' => JustPrimed
    BY DEF DaemonStep, JustPrimed, Nothing, Ok
  <2> QED
    BY <2>1, <2>2 DEF Calm, DaemonStep, SameNews, SameEvents
<1>5. Events'
  BY <1>4, CalmKeeps DEF IInv
<1>6. Unpaired'
  BY DEF IInv, Unpaired, DaemonStep
<1>7. BlindWindowRecovered'
  BY DEF IInv, BlindWindowRecovered, DaemonStep, SameNews
<1> QED
  BY <1>1, <1>2, <1>3, <1>5, <1>6, <1>7

\* A step of the device that keeps its log.
DeviceStep ==
    /\ DevSound(dev') /\ SameEvents(dev', dev)
    /\ heard' = heard /\ primed' = primed /\ told' = told
    /\ health' = health /\ sup' = sup /\ owed' = owed
    /\ loop' \in Loop /\ op' \in Op /\ trouble' \in Nat
    /\ loop'.pc = "off" <=> loop.pc = "off"
    /\ loop'.pc = "subscribing" => loop.pc = "subscribing" /\ loop'.min = loop.min
    /\ sup.ledger \/ (dev'.sess = dev.sess /\ dev'.busy = "no")
    /\ Standing' => Standing /\ Upto' = Upto
    /\ JustPrimed' => JustPrimed

LEMMA DeviceStepKeeps ==
    ASSUME IInv, DeviceStep, WireSound'
    PROVE  IInv'
<1>1. Types'
  BY DEF IInv, Types, DeviceStep
<1>2. MinSound'
  BY DEF IInv, MinSound, DeviceStep
<1>3. Calm
  BY DEF Calm, DeviceStep
<1>4. Events'
  BY <1>3, CalmKeeps DEF IInv
<1>5. Unpaired'
  BY DEF IInv, Unpaired, DeviceStep, SameEvents
<1>6. Owing' /\ Gone' /\ BlindWindowRecovered'
  BY DEF IInv, Owing, Gone, BlindWindowRecovered, DeviceStep
<1> QED
  BY <1>1, <1>2, <1>4, <1>5, <1>6 DEF IInv
-----------------------------------------------------------------------------
(* The steps of the daemon that give the listeners nothing. *)

LEMMA Unfold ==
    ASSUME IInv
    PROVE  /\ DevSound(dev) /\ health \in Health /\ loop \in Loop /\ op \in Op
           /\ sup \in [ledger : BOOLEAN, subscribed : BOOLEAN, stopping : BOOLEAN]
           /\ heard \in [Event -> Nat] /\ primed \subseteq Event
           /\ owed \in Int /\ trouble \in Nat
  BY DEF IInv, Types

LEMMA TroubleSound ==
    ASSUME trouble \in Nat, Trouble \/ trouble' = trouble
    PROVE  trouble' \in Nat
  BY DEF Trouble

LEMMA ClosedSound == Closed = wire \/ Closed = Nothing
  BY DEF Closed

\* mark_down and backoff: the rows but the status stay, the loop has no
\* subscription.
LEMMA DownKeeps ==
    ASSUME IInv, NEW h \in Health, Down(h), SameNews(h, health), SameSignals(h, health),
           loop.pc # "off",
           dev' = dev, sup' = sup, op' = op, heard' = heard, primed' = primed, told' = told,
           owed' = owed, Trouble \/ trouble' = trouble
    PROVE  IInv'
<1>1. /\ health' \in Health /\ SameNews(health', h) /\ SameSignals(health', h)
  BY MarkSound DEF Down, Status
<1>2. loop' \in Loop /\ loop'.pc = "backoff"
  BY BoundsAssumption DEF Down, Loop, Waiting
<1>3. DaemonStep
  BY <1>1, <1>2, ClosedSound, Unfold, TroubleSound DEF DaemonStep, Down, SameNews
<1>4. Owing'
  BY <1>1 DEF IInv, Owing, SameSignals
<1>5. Gone'
  BY DEF IInv, Gone
<1> QED
  BY <1>3, <1>4, <1>5, DaemonStepKeeps DEF IInv

LEMMA PendingCleared ==
    ASSUME IInv
    PROVE  LET h == H!ClearPending(health)
           IN  h \in Health /\ SameNews(h, health) /\ SameSignals(h, health)
  BY Unfold, ClearPendingSound

LEMMA EstablishFailsStep == ASSUME IInv, EstablishFails PROVE IInv'
<1>1. SameNews(health, health) /\ SameSignals(health, health)
  BY DEF SameNews, SameSignals
<1>2. Trouble \/ trouble' = trouble
  BY DEF EstablishFails
<1> QED
  BY <1>1, <1>2, Unfold, DownKeeps DEF EstablishFails, listened

LEMMA SubscribeFailsStep ==
    ASSUME IInv, SubscribeFails \/ SubscribeFailsEarly
    PROVE  IInv'
<1>1. SameNews(health, health) /\ SameSignals(health, health)
  BY DEF SameNews, SameSignals
<1> QED
  BY <1>1, Unfold, DownKeeps DEF SubscribeFails, SubscribeFailsEarly, listened

LEMMA EndStep ==
    ASSUME IInv, EndOpGrace \/ EndSilence \/ EndSilenceEarly \/ EndError
    PROVE  IInv'
<1> DEFINE h == H!ClearPending(health)
<1>1. h \in Health /\ SameNews(h, health) /\ SameSignals(h, health)
  BY PendingCleared
<1>2. /\ Down(h) /\ loop.pc # "off"
      /\ dev' = dev /\ sup' = sup /\ op' = op /\ heard' = heard /\ primed' = primed /\ told' = told
      /\ owed' = owed /\ (Trouble \/ trouble' = trouble)
  BY DEF EndOpGrace, EndSilence, EndSilenceEarly, EndError, listened
<1> QED
  BY <1>1, <1>2, DownKeeps

LEMMA LoseStep == ASSUME IInv, Lose PROVE IInv'
<1>1. /\ wire' = Nothing /\ dev' = dev /\ health' = health /\ loop' = loop /\ sup' = sup
      /\ op' = op /\ heard' = heard /\ primed' = primed /\ told' = told /\ owed' = owed
      /\ (Trouble \/ trouble' = trouble)
  BY DEF Lose, listened
<1>2. DaemonStep
  BY <1>1, Unfold, TroubleSound DEF DaemonStep, SameNews
<1>3. Owing' /\ Gone'
  BY <1>1 DEF IInv, Owing, Gone
<1> QED
  BY <1>2, <1>3, DaemonStepKeeps DEF IInv

LEMMA AnswerFailsStep == ASSUME IInv, AnswerFails PROVE IInv'
<1>1. /\ wire' = wire /\ dev' = dev /\ health' = health /\ sup' = sup
      /\ op' = op /\ heard' = heard /\ primed' = primed /\ told' = told /\ owed' = owed
      /\ trouble' = trouble
      /\ loop' = [loop EXCEPT !.pc = "pump", !.err = TRUE] /\ loop.pc = "answer"
  BY DEF AnswerFails, listened
<1>2. loop' \in Loop /\ loop'.pc = "pump"
  BY <1>1, Unfold DEF Loop, Waiting
<1>3. DaemonStep
  BY <1>1, <1>2, Unfold DEF DaemonStep, SameNews
<1>4. Owing' /\ Gone'
  BY <1>1 DEF IInv, Owing, Gone
<1> QED
  BY <1>3, <1>4, DaemonStepKeeps DEF IInv

LEMMA EndTouchedStep == ASSUME IInv, EndTouched PROVE IInv'
<1> DEFINE h == H!ClearPending(health)
<1>1. /\ loop.pc = "pump" /\ health.touched
      /\ health' = H!ClearTouched(h)
      /\ loop' = [pc |-> "establish", min |-> 0, err |-> FALSE]
      /\ wire' = Closed /\ owed' = owed - 1
      /\ dev' = dev /\ sup' = sup /\ op' = op /\ heard' = heard /\ primed' = primed /\ told' = told
      /\ trouble' = trouble
  BY DEF EndTouched, listened
<1>2. h \in Health /\ SameNews(h, health)
  BY PendingCleared
<1>3. health' \in Health /\ SameNews(health', h) /\ ~health'.touched /\ ~health'.permit
  <2> HIDE DEF h
  <2> QED BY <1>1, <1>2, ClearTouchedSound
<1>4. loop' \in Loop /\ loop'.pc = "establish"
  BY <1>1, BoundsAssumption DEF Loop, Waiting
<1> HIDE DEF h
<1>5. DaemonStep
  BY <1>1, <1>2, <1>3, <1>4, ClosedSound, Unfold DEF DaemonStep, SameNews
<1>6. Owing'
  BY <1>1, <1>3, Unfold DEF IInv, Owing
<1>7. Gone'
  BY <1>1 DEF IInv, Gone
<1> QED
  BY <1>5, <1>6, <1>7, DaemonStepKeeps DEF IInv

LEMMA RetryStep == ASSUME IInv, Retry PROVE IInv'
<1>1. /\ wire' = wire /\ dev' = dev /\ health' = health /\ sup' = sup
      /\ op' = op /\ heard' = heard /\ primed' = primed /\ told' = told /\ owed' = owed
      /\ trouble' = trouble
      /\ loop' = [loop EXCEPT !.pc = "establish"] /\ loop.pc = "backoff"
  BY DEF Retry, listened
<1>2. loop' \in Loop /\ loop'.pc = "establish"
  BY <1>1, Unfold DEF Loop, Waiting
<1>3. DaemonStep
  BY <1>1, <1>2, Unfold DEF DaemonStep, SameNews
<1>4. Owing' /\ Gone'
  BY <1>1 DEF IInv, Owing, Gone
<1> QED
  BY <1>3, <1>4, DaemonStepKeeps DEF IInv

LEMMA RetryTouchedStep == ASSUME IInv, RetryTouched PROVE IInv'
<1>1. /\ wire' = wire /\ dev' = dev /\ health' = H!ClearTouched(health) /\ sup' = sup
      /\ op' = op /\ heard' = heard /\ primed' = primed /\ told' = told /\ owed' = owed - 1
      /\ trouble' = trouble /\ health.permit
      /\ loop' = [loop EXCEPT !.pc = "establish"] /\ loop.pc = "backoff"
  BY DEF RetryTouched, listened
<1>2. loop' \in Loop /\ loop'.pc = "establish"
  BY <1>1, Unfold DEF Loop, Waiting
<1>3. health' \in Health /\ SameNews(health', health) /\ ~health'.touched /\ ~health'.permit
  BY <1>1, Unfold, ClearTouchedSound
<1>4. DaemonStep
  BY <1>1, <1>2, <1>3, Unfold DEF DaemonStep
<1>5. Owing'
  BY <1>1, <1>3, Unfold DEF IInv, Owing
<1>6. Gone'
  BY <1>1 DEF IInv, Gone
<1> QED
  BY <1>4, <1>5, <1>6, DaemonStepKeeps DEF IInv

LEMMA SubscribeStep == ASSUME IInv, Subscribe PROVE IInv'
<1>1. /\ wire' = wire /\ dev' = dev /\ health' = H!Mark(health, "establishing")
      /\ sup' = [sup EXCEPT !.subscribed = TRUE]
      /\ op' = op /\ heard' = heard /\ primed' = primed /\ told' = told /\ owed' = owed
      /\ trouble' = trouble
      /\ loop' = [loop EXCEPT !.pc = "establish"]
  BY DEF Subscribe, listened
<1>2. loop' \in Loop /\ loop'.pc = "establish"
  BY <1>1, Unfold DEF Loop, Waiting
<1>3. health' \in Health /\ SameNews(health', health) /\ SameSignals(health', health)
  BY <1>1, Unfold, MarkSound DEF Status
<1>4. /\ sup' \in [ledger : BOOLEAN, subscribed : BOOLEAN, stopping : BOOLEAN]
      /\ sup'.ledger = sup.ledger /\ sup'.subscribed
  BY <1>1, Unfold
<1>5. DaemonStep
  BY <1>1, <1>2, <1>3, <1>4, Unfold DEF DaemonStep
<1>6. Owing'
  BY <1>1, <1>3 DEF IInv, Owing, SameSignals
<1>7. Gone'
  BY <1>4 DEF Gone
<1> QED
  BY <1>5, <1>6, <1>7, DaemonStepKeeps DEF IInv

LEMMA PairStep == ASSUME IInv, Pair PROVE IInv'
<1>1. /\ wire' = wire /\ dev' = dev /\ health' = health
      /\ sup' = [sup EXCEPT !.ledger = TRUE]
      /\ op' = op /\ heard' = heard /\ primed' = primed /\ told' = told /\ owed' = owed
      /\ trouble' = trouble /\ loop' = loop
  BY DEF Pair, listened
<1>2. /\ sup' \in [ledger : BOOLEAN, subscribed : BOOLEAN, stopping : BOOLEAN]
      /\ sup'.ledger /\ sup'.subscribed = sup.subscribed
  BY <1>1, Unfold
<1>3. DaemonStep
  BY <1>1, <1>2, Unfold DEF DaemonStep, SameNews
<1>4. Owing' /\ Gone'
  BY <1>1, <1>2 DEF IInv, Owing, Gone
<1> QED
  BY <1>3, <1>4, DaemonStepKeeps DEF IInv

LEMMA OpReturnsStep == ASSUME IInv, OpReturns PROVE IInv'
<1> DEFINE h == IF op.new THEN H!NoteTouched(health) ELSE health
<1>1. /\ health' = IF op.st = "answered" THEN H!NoteOp(h, op.v) ELSE h
      /\ op' = [op EXCEPT !.st = "idle"]
      /\ owed' = owed + IF op.new THEN 1 ELSE 0
      /\ dev' = dev /\ wire' = wire /\ loop' = loop /\ sup' = sup
      /\ heard' = heard /\ primed' = primed /\ told' = told /\ trouble' = trouble
  BY DEF OpReturns, listened
<1>2. op' \in Op /\ op.new \in BOOLEAN
  BY <1>1, Unfold DEF Op
<1>3. /\ h \in Health /\ SameNews(h, health) /\ h.status = health.status
      /\ ~op.new => SameSignals(h, health)
  <2>1. CASE op.new
    BY <2>1, Unfold, NoteTouchedSound
  <2>2. CASE ~op.new
    BY <2>2, Unfold DEF SameNews, SameSignals
  <2> QED BY <2>1, <2>2
<1> HIDE DEF h
<1>4. /\ health' \in Health /\ SameNews(health', h) /\ health'.status = h.status
      /\ SameSignals(health', h)
  <2>1. CASE op.st = "answered"
    BY <2>1, <1>1, <1>3, NoteOpSound
  <2>2. CASE op.st # "answered"
    BY <2>2, <1>1, <1>3 DEF SameNews, SameSignals
  <2> QED BY <2>1, <2>2
<1>5. owed' \in Int
  BY <1>1, Unfold
<1>6. DaemonStep
  BY <1>1, <1>2, <1>3, <1>4, <1>5, Unfold DEF DaemonStep, SameNews
<1>7. Owing'
  <2>1. CASE op.new
    BY <2>1, <1>1, Unfold DEF IInv, Owing
  <2>2. CASE ~op.new
    <3>1. owed' = owed
      BY <2>2, <1>1, Unfold
    <3> QED BY <2>2, <3>1, <1>3, <1>4 DEF IInv, Owing, SameSignals
  <2> QED BY <2>1, <2>2
<1>8. Gone'
  BY <1>1, <1>3, <1>4 DEF IInv, Gone, SameNews
<1> QED
  BY <1>6, <1>7, <1>8, DaemonStepKeeps DEF IInv

LEMMA OpDroppedStep == ASSUME IInv, OpDropped PROVE IInv'
<1>1. /\ op' = [op EXCEPT !.st = "idle"]
      /\ dev' = dev /\ wire' = wire /\ health' = health /\ loop' = loop /\ sup' = sup
      /\ heard' = heard /\ primed' = primed /\ told' = told /\ owed' = owed /\ trouble' = trouble
  BY DEF OpDropped, listened
<1>2. op' \in Op
  BY <1>1, Unfold DEF Op
<1>3. DaemonStep
  BY <1>1, <1>2, Unfold DEF DaemonStep, SameNews
<1>4. Owing' /\ Gone'
  BY <1>1 DEF IInv, Owing, Gone
<1> QED
  BY <1>3, <1>4, DaemonStepKeeps DEF IInv

LEMMA NodeTouchedStep == ASSUME IInv, NodeTouched PROVE IInv'
<1>1. /\ health' = H!NoteTouched(health) /\ owed' = owed + 1
      /\ dev' = dev /\ wire' = wire /\ loop' = loop /\ sup' = sup /\ op' = op
      /\ heard' = heard /\ primed' = primed /\ told' = told /\ Trouble
  BY DEF NodeTouched, listened
<1>2. health' \in Health /\ SameNews(health', health) /\ health'.status = health.status
  BY <1>1, Unfold, NoteTouchedSound
<1>3. DaemonStep
  BY <1>1, <1>2, Unfold, TroubleSound DEF DaemonStep
<1>4. Owing' /\ Gone'
  BY <1>1, <1>2, Unfold DEF IInv, Owing, Gone, SameNews
<1> QED
  BY <1>3, <1>4, DaemonStepKeeps DEF IInv
-----------------------------------------------------------------------------
(* The steps of the device that keep its log. *)

LEMMA NothingIsNoReport ==
    Nothing.k # "report" /\ Nothing # Ok
  BY DEF Nothing, Ok

LEMMA StimulusChangesStep ==
    ASSUME IInv, NEW v \in Values, StimulusChanges(v)
    PROVE  IInv'
<1>1. /\ dev.busy = "no" /\ dev' = Change(dev, v) /\ Trouble
      /\ wire' = wire /\ health' = health /\ loop' = loop /\ sup' = sup /\ op' = op
      /\ heard' = heard /\ primed' = primed /\ told' = told /\ owed' = owed
  BY DEF StimulusChanges, listened
<1>2. /\ DevSound(dev') /\ SameEvents(dev', dev) /\ dev'.sub.live = dev.sub.live
      /\ dev'.sub.next = dev.sub.next /\ dev'.busy = dev.busy /\ dev'.sess = dev.sess
  BY <1>1, Unfold, ChangeSound
<1>3. WireSound'
  BY <1>1, WireKeeps DEF IInv
<1>4. (Standing' => Standing /\ Upto' = Upto) /\ (JustPrimed' => JustPrimed)
  BY <1>1, <1>2 DEF Standing, Upto, JustPrimed
<1>5. DeviceStep
  BY <1>1, <1>2, <1>4, Unfold, TroubleSound DEF DeviceStep
<1> QED
  BY <1>3, <1>5, DeviceStepKeeps

\* A new session, for the subscription or for an operation.
LEMMA SessionStep ==
    ASSUME IInv, NEW s \in {"sub", "op"}, dev.busy = "no", sup.ledger,
           dev' = InstallSession(dev, s),
           heard' = heard, primed' = primed, told' = told,
           health' = health, sup' = sup, owed' = owed,
           loop' \in Loop, op' \in Op, trouble' \in Nat,
           loop'.pc = "off" <=> loop.pc = "off",
           loop'.pc = "subscribing" => loop.pc = "subscribing" /\ loop'.min = loop.min,
           wire' = Nothing \/ wire' = wire
    PROVE  IInv'
<1>1. Unsubscribed(dev', dev, s)
  BY Unfold, InstallSessionSound
<1>2. WireSound'
  BY WireKeeps DEF IInv
<1>3. ~Standing' /\ ~JustPrimed'
  BY <1>1 DEF Unsubscribed, Standing, JustPrimed
<1>4. DeviceStep
  BY <1>1, <1>3 DEF DeviceStep, Unsubscribed
<1> QED
  BY <1>2, <1>4, DeviceStepKeeps

LEMMA EstablishStep == ASSUME IInv, Establish PROVE IInv'
<1>1. /\ loop.pc = "establish" /\ sup.ledger /\ dev.busy = "no"
      /\ dev' = InstallSession(dev, "sub")
      /\ loop' = [loop EXCEPT !.pc = "ask"]
      /\ wire' = Nothing
      /\ health' = health /\ sup' = sup /\ op' = op
      /\ heard' = heard /\ primed' = primed /\ told' = told /\ owed' = owed /\ trouble' = trouble
  BY DEF Establish, listened
<1>2. loop' \in Loop /\ loop'.pc = "ask"
  BY <1>1, Unfold DEF Loop, Waiting
<1> QED
  BY <1>1, <1>2, Unfold, SessionStep

LEMMA OpSendsStep ==
    ASSUME IInv, NEW v \in Values, OpSends(v)
    PROVE  IInv'
<1>1. /\ sup.ledger /\ dev.busy = "no" /\ Trouble
      /\ wire' = wire /\ health' = health /\ loop' = loop /\ sup' = sup
      /\ heard' = heard /\ primed' = primed /\ told' = told /\ owed' = owed
  BY DEF OpSends, listened
<1>2. PICK new \in {TRUE, dev.sess # "op"} :
        /\ op' = [st |-> "sent", new |-> new, v |-> v]
        /\ dev' = IF new THEN InstallSession(dev, "op") ELSE dev
  BY DEF OpSends
<1>3. op' \in Op
  BY <1>2 DEF Op
<1>4. CASE new
  BY <1>1, <1>2, <1>3, <1>4, Unfold, TroubleSound, SessionStep
<1>5. CASE ~new
  <2>1. dev' = dev
    BY <1>2, <1>5
  <2>2. WireSound'
    BY <1>1, WireKeeps DEF IInv
  <2>3. (Standing' => Standing /\ Upto' = Upto) /\ (JustPrimed' => JustPrimed)
    BY <1>1, <2>1 DEF Standing, Upto, JustPrimed
  <2>4. DeviceStep
    BY <1>1, <1>3, <2>1, <2>3, Unfold, TroubleSound DEF DeviceStep, SameEvents
  <2> QED
    BY <2>2, <2>4, DeviceStepKeeps
<1> QED
  BY <1>4, <1>5

LEMMA OpExecutesStep == ASSUME IInv, OpExecutes PROVE IInv'
<1>1. /\ dev.busy = "no" /\ dev.sess = "op"
      /\ dev' = IF op.v = dev.value THEN dev ELSE Change(dev, op.v)
      /\ op' = [op EXCEPT !.st = "answered"]
      /\ wire' = wire /\ health' = health /\ loop' = loop /\ sup' = sup
      /\ heard' = heard /\ primed' = primed /\ told' = told /\ owed' = owed /\ trouble' = trouble
  BY DEF OpExecutes, listened
<1>2. op' \in Op /\ op.v \in Values
  BY <1>1, Unfold DEF Op
<1>3. /\ DevSound(dev') /\ SameEvents(dev', dev) /\ dev'.sub.live = dev.sub.live
      /\ dev'.sub.next = dev.sub.next /\ dev'.busy = dev.busy /\ dev'.sess = dev.sess
  <2>1. CASE op.v = dev.value
    BY <2>1, <1>1, Unfold DEF SameEvents
  <2>2. CASE op.v # dev.value
    BY <2>2, <1>1, <1>2, Unfold, ChangeSound
  <2> QED BY <2>1, <2>2
<1>4. WireSound'
  BY <1>1, WireKeeps DEF IInv
<1>5. (Standing' => Standing /\ Upto' = Upto) /\ (JustPrimed' => JustPrimed)
  BY <1>1, <1>3 DEF Standing, Upto, JustPrimed
<1>6. DeviceStep
  BY <1>1, <1>2, <1>3, <1>5, Unfold DEF DeviceStep
<1> QED
  BY <1>4, <1>6, DeviceStepKeeps

LEMMA DevPrimeStep == ASSUME IInv, DevPrime PROVE IInv'
<1>1. /\ dev.busy = "no" /\ wire.k = "request"
      /\ health' = health /\ loop' = loop /\ sup' = sup /\ op' = op
      /\ heard' = heard /\ primed' = primed /\ told' = told /\ owed' = owed /\ trouble' = trouble
  BY DEF DevPrime, listened
<1>2. PICK min \in Min :
        /\ wire = [k |-> "request", min |-> min]
        /\ loop.pc = "subscribing" => min = loop.min
  BY <1>1 DEF IInv, WireSound, Nothing, Ok
<1>3. CASE dev.sess = "sub"
  <2>1. /\ dev' = [dev EXCEPT !.busy = "prime"]
        /\ wire' = [k |-> "priming", report |-> Priming(dev, min)]
    BY <1>2, <1>3 DEF DevPrime
  <2>2. /\ DevSound(dev') /\ SameEvents(dev', dev) /\ dev'.sub = dev.sub
        /\ dev'.busy = "prime" /\ dev'.sess = dev.sess /\ dev'.value = dev.value
    BY <1>3, <2>1, Unfold, BusySound
  <2>3. Priming(dev', min) = Priming(dev, min)
    BY <2>2 DEF Priming, Since, Start, SameEvents
  <2>4. WireSound'
    BY <1>1, <1>2, <2>1, <2>2, <2>3 DEF WireSound
  <2>5. wire'.k # "report" /\ wire' # Ok
    BY <2>1 DEF Ok
  <2>6. ~Standing' /\ ~JustPrimed'
    BY <2>2, <2>5 DEF Standing, JustPrimed
  <2>7. sup.ledger
    BY <1>3 DEF IInv, Unpaired
  <2>8. DeviceStep
    BY <1>1, <2>2, <2>6, <2>7, Unfold DEF DeviceStep
  <2> QED
    BY <2>4, <2>8, DeviceStepKeeps
<1>4. CASE dev.sess # "sub"
  <2>1. wire' = Nothing /\ dev' = dev
    BY <1>4 DEF DevPrime
  <2>2. WireSound'
    BY <1>1, <2>1, WireKeeps DEF IInv
  <2>3. (Standing' => Standing /\ Upto' = Upto) /\ (JustPrimed' => JustPrimed)
    BY <1>1, <2>1, NothingIsNoReport DEF Standing, Upto, JustPrimed
  <2>4. DeviceStep
    BY <1>1, <2>1, <2>3, Unfold DEF DeviceStep, SameEvents
  <2> QED
    BY <2>2, <2>4, DeviceStepKeeps
<1> QED
  BY <1>3, <1>4

LEMMA DevReportStep == ASSUME IInv, DevReport PROVE IInv'
<1>1. /\ dev.busy = "no" /\ dev.sub.live /\ wire = Nothing
      /\ dev' = [dev EXCEPT !.busy = "report"]
      /\ wire' = [k |-> "report", report |-> Report(dev)]
      /\ health' = health /\ loop' = loop /\ sup' = sup /\ op' = op
      /\ heard' = heard /\ primed' = primed /\ told' = told /\ owed' = owed /\ trouble' = trouble
  BY DEF DevReport, listened
<1>2. /\ DevSound(dev') /\ SameEvents(dev', dev) /\ dev'.sub = dev.sub
      /\ dev'.busy = "report" /\ dev'.sess = dev.sess /\ dev'.value = dev.value
  <2>1. dev.sess = "sub"
    BY <1>1, Unfold DEF DevSound
  <2> QED BY <1>1, <2>1, Unfold, BusySound
<1>3. Report(dev') = Report(dev)
  BY <1>2 DEF Report, Start, FitEvents, SameEvents
<1>4. WireSound'
  BY <1>1, <1>2, <1>3 DEF WireSound
<1>5. wire' # Ok
  BY <1>1 DEF Ok
<1>6. (Standing' => Standing /\ Upto' = Upto) /\ (JustPrimed' => JustPrimed)
  BY <1>1, <1>2, <1>5 DEF Standing, Upto, JustPrimed
<1>7. sup.ledger
  BY <1>1, Unfold DEF IInv, Unpaired, DevSound
<1>8. DeviceStep
  BY <1>1, <1>2, <1>6, <1>7, Unfold DEF DeviceStep
<1> QED
  BY <1>4, <1>8, DeviceStepKeeps

LEMMA DevGivesUpStep == ASSUME IInv, DevGivesUp PROVE IInv'
<1>1. /\ dev.busy # "no" /\ wire = Nothing /\ dev' = Dropped(dev)
      /\ wire' = wire /\ health' = health /\ loop' = loop /\ sup' = sup /\ op' = op
      /\ heard' = heard /\ primed' = primed /\ told' = told /\ owed' = owed /\ trouble' = trouble
  BY DEF DevGivesUp, listened
<1>2. Unsubscribed(dev', dev, dev.sess)
  BY <1>1, Unfold, DroppedSound
<1>3. WireSound'
  BY <1>1, WireKeeps DEF IInv
<1>4. ~Standing' /\ ~JustPrimed'
  BY <1>2 DEF Unsubscribed, Standing, JustPrimed
<1>5. DeviceStep
  BY <1>1, <1>2, <1>4, Unfold DEF DeviceStep, Unsubscribed
<1> QED
  BY <1>3, <1>5, DeviceStepKeeps

\* A report is acknowledged; the daemon may not hear of that.
LEMMA ReportedStep ==
    ASSUME IInv, dev.busy = "report", wire = Ok, dev' = Reported(dev), wire' = Nothing,
           heard' = heard, primed' = primed, told' = told,
           health' = health, sup' = sup, owed' = owed, op' = op,
           loop' \in Loop, trouble' \in Nat,
           loop'.pc = "off" <=> loop.pc = "off",
           loop'.pc = "subscribing" => loop.pc = "subscribing" /\ loop'.min = loop.min
    PROVE  IInv'
<1>1. dev.sub.live
  BY Unfold DEF DevSound
<1>2. /\ DevSound(dev') /\ SameEvents(dev', dev) /\ dev'.sub.live
      /\ dev'.busy = "no" /\ dev'.sess = dev.sess
  BY <1>1, Unfold, ReportedSound
<1>3. WireSound'
  BY WireKeeps DEF IInv
<1>4. Standing /\ Upto = Reported(dev).sub.next
  BY <1>1 DEF Standing, Upto
<1>5. Upto' = dev'.sub.next
  BY <1>2 DEF Upto
<1>6. ~JustPrimed'
  BY <1>2 DEF JustPrimed
<1>7. DeviceStep
  BY <1>2, <1>4, <1>5, <1>6, Unfold DEF DeviceStep
<1> QED
  BY <1>3, <1>7, DeviceStepKeeps

LEMMA AckLostStep == ASSUME IInv, AckLost PROVE IInv'
<1>1. /\ dev.busy = "report" /\ wire = Ok /\ loop.pc = "answer" /\ Trouble
      /\ dev' = Reported(dev) /\ wire' = Nothing
      /\ loop' = [loop EXCEPT !.pc = "pump", !.err = TRUE]
      /\ health' = health /\ sup' = sup /\ op' = op
      /\ heard' = heard /\ primed' = primed /\ told' = told /\ owed' = owed
  BY DEF AckLost, listened
<1>2. loop' \in Loop /\ loop'.pc = "pump"
  BY <1>1, Unfold DEF Loop, Waiting
<1> QED
  BY <1>1, <1>2, Unfold, TroubleSound, ReportedStep
-----------------------------------------------------------------------------
(* The steps that move one of the numbers. *)

\* A subscription that stands is installed: its first report starts after the
\* log, all of which went with the priming report.
LEMMA InstalledStep ==
    ASSUME IInv, dev.busy = "prime", dev.sess = "sub", wire = Ok,
           dev' = Installed(dev), wire' = Nothing,
           heard' = heard, primed' = primed, told' = told,
           health' = health, sup' = sup, owed' = owed, op' = op,
           loop' \in Loop, trouble' = trouble,
           loop'.pc = "off" <=> loop.pc = "off",
           loop'.pc = "subscribing" => loop.pc = "subscribing" /\ loop'.min = loop.min
    PROVE  IInv'
<1>1. /\ DevSound(dev') /\ SameEvents(dev', dev) /\ dev'.sub.live /\ dev'.sub.next = dev.next
      /\ dev'.busy = "no" /\ dev'.sess = "sub"
  BY Unfold, InstalledSound
<1>2. Types'
  BY <1>1, Unfold DEF Types
<1>3. WireSound'
  BY WireKeeps DEF IInv
<1>4. MinSound'
  BY DEF IInv, MinSound
<1>5. Upto' = dev.next /\ JustPrimed /\ ~JustPrimed'
  BY <1>1 DEF Upto, JustPrimed
<1>6. NotAhead' /\ EventOnce'
  BY <1>1 DEF IInv, Events, NotAhead, EventOnce, SameEvents
<1>7. HeardSound'
  <2>1. \A n : Heard(n)' <=> Heard(n)
    BY <1>1 DEF Heard, SameEvents
  <2> HIDE DEF Heard
  <2> QED BY <2>1, <1>1, <1>5 DEF IInv, Events, HeardSound, SameEvents
<1>8. CoveredSound'
  <2>1. \A n : Covered(n)' <=> Covered(n)
    BY <1>1 DEF Covered, SameEvents
  <2>2. Log(dev') = Log(dev)
    BY <1>1 DEF Log, SameEvents
  <2> HIDE DEF Covered
  <2> QED BY <2>1, <2>2, <1>1, <1>5 DEF IInv, Events, CoveredSound, SameEvents
<1>9. Unpaired'
  BY DEF IInv, Unpaired
<1>10. Owing' /\ Gone' /\ BlindWindowRecovered'
  BY DEF IInv, Owing, Gone, BlindWindowRecovered
<1> QED
  BY <1>2, <1>3, <1>4, <1>6, <1>7, <1>8, <1>9, <1>10 DEF IInv, Events

LEMMA DevAnsweredStep == ASSUME IInv, DevAnswered PROVE IInv'
<1>1. /\ dev.busy # "no" /\ wire = Ok
      /\ dev' = IF dev.busy = "prime" THEN Installed(dev) ELSE Reported(dev)
      /\ wire' = Nothing
      /\ loop' = IF loop.pc = "answer" THEN [loop EXCEPT !.pc = "pump"] ELSE loop
      /\ health' = health /\ sup' = sup /\ op' = op
      /\ heard' = heard /\ primed' = primed /\ told' = told /\ owed' = owed /\ trouble' = trouble
  BY DEF DevAnswered, listened
<1>2. /\ loop' \in Loop /\ (loop'.pc = "off" <=> loop.pc = "off")
      /\ loop'.pc = "subscribing" => loop.pc = "subscribing" /\ loop'.min = loop.min
  BY <1>1, Unfold DEF Loop, Waiting
<1>3. CASE dev.busy = "prime"
  <2>1. dev.sess = "sub"
    BY <1>1, Unfold DEF DevSound
  <2> QED BY <1>1, <1>2, <1>3, <2>1, InstalledStep
<1>4. CASE dev.busy = "report"
  BY <1>1, <1>2, <1>4, Unfold, ReportedStep
<1> QED
  BY <1>1, <1>3, <1>4, Unfold DEF DevSound, Dev

\* A new run of the device: nothing of it was given to anybody.
LEMMA NotYetHeard ==
    ASSUME IInv, dev.ep < MaxBoots, dev'.ep = dev.ep + 1, heard' = heard
    PROVE  \A n \in 1 .. MaxEvents : ~Heard(n)'
<1> SUFFICES ASSUME NEW n \in 1 .. MaxEvents, heard[<<dev'.ep, n>>] > 0
             PROVE  FALSE
  BY DEF Heard
<1>1. dev.ep \in Int /\ dev'.ep \in 1 .. MaxBoots
  BY Unfold, DevFields, BoundsAssumption
<1>2. dev'.ep <= dev.ep
  BY <1>1 DEF IInv, Events, NotAhead
<1> QED BY <1>1, <1>2

LEMMA NewRun ==
    ASSUME IInv, dev.ep < MaxBoots, NEW first \in Number, NEW back \in BOOLEAN,
           ~back => ~dev.back /\ first = dev.next,
           dev' = Boot(dev.ep + 1, first, back), wire' = Nothing,
           heard' = heard, primed' = primed, health' = health
    PROVE  DevSound(dev') /\ dev'.back = back /\ dev'.busy = "no" /\ dev'.sess = "none" /\ Events'
<1>1. dev.ep + 1 \in 1 .. MaxBoots
  BY Unfold, DevFields, BoundsAssumption
<1>2. /\ DevSound(dev') /\ dev'.ep = dev.ep + 1 /\ dev'.next = first /\ dev'.oldest = first
      /\ dev'.back = back /\ dev'.busy = "no" /\ dev'.sess = "none" /\ ~dev'.sub.live
  BY <1>1, BootSound
<1>3. ~Standing' /\ ~JustPrimed'
  BY <1>2 DEF Standing, JustPrimed
<1>4. dev.ep \in Int /\ dev'.ep = dev.ep + 1 /\ dev'.ep \in 1 .. MaxBoots
  BY <1>1, <1>2, Unfold, DevFields, BoundsAssumption
<1>5. NotAhead'
  <2> SUFFICES ASSUME NEW b \in 1 .. MaxBoots, NEW n \in 1 .. MaxEvents,
                      heard[<<b, n>>] > 0 \/ <<b, n>> \in primed
               PROVE  b <= dev'.ep
    BY DEF NotAhead
  <2>1. b <= dev.ep
    BY DEF IInv, Events, NotAhead
  <2> QED BY <2>1, <1>4, BoundsAssumption
<1>6. EventOnce'
  BY DEF IInv, Events, EventOnce
<1>7. \A n \in 1 .. MaxEvents : ~Heard(n)'
  BY <1>2, NotYetHeard
<1>8. HeardSound'
  BY <1>7 DEF HeardSound
<1>9. CoveredSound'
  <2>1. Log(dev') = {}
    BY <1>2 DEF Log, Number
  <2>2. ~back => health'.last < dev'.next
    BY <1>2 DEF IInv, Events, CoveredSound
  <2> QED BY <2>1, <2>2, <1>2 DEF CoveredSound
<1> QED
  BY <1>2, <1>5, <1>6, <1>8, <1>9 DEF Events

LEMMA RestartStep ==
    ASSUME IInv, NEW first \in {1, dev.next}, Restart(first)
    PROVE  IInv'
<1> DEFINE back == dev.back \/ first < dev.next
<1>1. /\ dev.ep < MaxBoots /\ Trouble
      /\ dev' = Boot(dev.ep + 1, first, back)
      /\ wire' = Nothing
      /\ health' = health /\ loop' = loop /\ sup' = sup /\ op' = op
      /\ heard' = heard /\ primed' = primed /\ told' = told /\ owed' = owed
  BY DEF Restart, listened
<1>2. /\ first \in Number /\ back \in BOOLEAN
      /\ ~back => ~dev.back /\ first = dev.next
  <2>1. dev.back \in BOOLEAN /\ dev.next \in Int /\ 1 <= dev.next /\ dev.next <= MaxEvents + 1
    BY Unfold, DevFields
  <2>2. first \in Number
    BY <2>1, BoundsAssumption DEF Number
  <2>3. ~(first < dev.next) => first = dev.next
    BY <2>1
  <2> QED BY <2>1, <2>2, <2>3
<1>3. DevSound(dev') /\ dev'.back = back /\ dev'.busy = "no" /\ dev'.sess = "none" /\ Events'
  <2> HIDE DEF back
  <2> QED BY <1>1, <1>2, NewRun
<1>4. Types'
  BY <1>1, <1>3, Unfold, TroubleSound DEF Types
<1>5. WireSound' /\ MinSound'
  BY <1>1, WireKeeps DEF IInv, MinSound
<1>6. Unpaired'
  BY <1>1, <1>3 DEF IInv, Unpaired
<1>7. Owing' /\ Gone' /\ BlindWindowRecovered'
  BY <1>1 DEF IInv, Owing, Gone, BlindWindowRecovered
<1> QED
  BY <1>3, <1>4, <1>5, <1>6, <1>7 DEF IInv

LEMMA UnpairStep == ASSUME IInv, Unpair PROVE IInv'
<1>1. /\ dev.ep < MaxBoots /\ Trouble
      /\ dev' = Boot(dev.ep + 1, 1, TRUE)
      /\ wire' = Nothing
      /\ sup' = [sup EXCEPT !.ledger = FALSE]
      /\ health' = health /\ loop' = loop /\ op' = op
      /\ heard' = heard /\ primed' = primed /\ told' = told /\ owed' = owed
  BY DEF Unpair, listened
<1>2. 1 \in Number
  BY BoundsAssumption DEF Number
<1>3. DevSound(dev') /\ dev'.back = TRUE /\ dev'.busy = "no" /\ dev'.sess = "none" /\ Events'
  BY <1>1, <1>2, NewRun
<1>4. sup' \in [ledger : BOOLEAN, subscribed : BOOLEAN, stopping : BOOLEAN] /\ sup'.subscribed = sup.subscribed
  BY <1>1, Unfold
<1>5. Types'
  BY <1>1, <1>3, <1>4, Unfold, TroubleSound DEF Types
<1>6. WireSound' /\ MinSound'
  BY <1>1, WireKeeps DEF IInv, MinSound
<1>7. Unpaired'
  BY <1>3 DEF Unpaired
<1>8. Owing' /\ Gone' /\ BlindWindowRecovered'
  BY <1>1, <1>4 DEF IInv, Owing, Gone, BlindWindowRecovered
<1> QED
  BY <1>3, <1>5, <1>6, <1>7, <1>8 DEF IInv

\* A new event is above all of the numbers.
LEMMA StimulusEmitsStep == ASSUME IInv, StimulusEmits PROVE IInv'
<1>1. /\ dev.busy = "no" /\ dev.next <= MaxEvents /\ dev' = AppendEvent(dev)
      /\ wire' = wire /\ health' = health /\ loop' = loop /\ sup' = sup /\ op' = op
      /\ heard' = heard /\ primed' = primed /\ told' = told /\ owed' = owed /\ trouble' = trouble
  BY DEF StimulusEmits, listened
<1>2. /\ DevSound(dev')
      /\ dev'.next = dev.next + 1 /\ dev'.oldest \in {dev.oldest, dev.oldest + 1}
      /\ dev'.ep = dev.ep /\ dev'.back = dev.back /\ dev'.sub = dev.sub
      /\ dev'.busy = dev.busy /\ dev'.sess = dev.sess
  BY <1>1, Unfold, AppendEventSound
<1>3. Types'
  BY <1>1, <1>2, Unfold DEF Types
<1>4. WireSound' /\ MinSound'
  BY <1>1, WireKeeps DEF IInv, MinSound
<1>5. /\ Standing' <=> Standing
      /\ Upto' = dev.sub.next /\ Upto = dev.sub.next /\ ~JustPrimed'
  BY <1>1, <1>2 DEF Standing, Upto, JustPrimed
<1>6. /\ dev.next \in Int /\ dev.oldest \in Int /\ dev.sub.next \in Int /\ dev.sub.next <= dev.next
      /\ health.last \in Int
  BY Unfold, DevFields, BoundsAssumption DEF Health
<1>7. NotAhead' /\ EventOnce'
  BY <1>1, <1>2 DEF IInv, Events, NotAhead, EventOnce
<1>8. HeardSound'
  <2>1. \A n : Heard(n)' <=> Heard(n)
    BY <1>1, <1>2 DEF Heard
  <2> SUFFICES ASSUME NEW n \in 1 .. MaxEvents, Heard(n)
               PROVE  /\ n < dev'.next /\ n <= health'.last /\ health'.last < dev'.next
                      /\ Standing' => n < Upto'
                      /\ sup'.ledger
    BY <2>1 DEF HeardSound
  <2>2. /\ n < dev.next /\ n <= health.last /\ health.last < dev.next
        /\ Standing => n < Upto
        /\ sup.ledger
    BY DEF IInv, Events, HeardSound
  <2> HIDE DEF Heard
  <2> QED BY <2>2, <1>1, <1>2, <1>5, <1>6
<1>9. CoveredSound'
  <2> SUFFICES ASSUME ~dev'.back
               PROVE  /\ health'.last < dev'.next
                      /\ \A n \in Log(dev') :
                           n <= health'.last \/ JustPrimed' \/ (Standing' /\ n < Upto') => Covered(n)'
    BY DEF CoveredSound
  <2>1. \A n : Covered(n)' <=> Covered(n)
    BY <1>1, <1>2 DEF Covered
  <2>2. health.last < dev.next
    BY <1>2 DEF IInv, Events, CoveredSound
  <2>3. ASSUME NEW n \in Log(dev'), n <= health'.last \/ JustPrimed' \/ (Standing' /\ n < Upto')
        PROVE  Covered(n)'
    <3>1. n < dev.next /\ n \in Log(dev)
      BY <2>3, <2>2, <1>1, <1>2, <1>5, <1>6 DEF Log
    <3>2. n <= health.last \/ (Standing /\ n < Upto)
      BY <2>3, <1>1, <1>5
    <3> QED BY <3>1, <3>2, <2>1, <1>2 DEF IInv, Events, CoveredSound
  <2> QED BY <2>2, <2>3, <1>1, <1>2, <1>6
<1>10. Unpaired'
  BY <1>1, <1>2 DEF IInv, Unpaired
<1>11. Owing' /\ Gone' /\ BlindWindowRecovered'
  BY <1>1 DEF IInv, Owing, Gone, BlindWindowRecovered
<1> QED
  BY <1>3, <1>4, <1>7, <1>8, <1>9, <1>10, <1>11 DEF IInv, Events

LEMMA AskStep == ASSUME IInv, Ask PROVE IInv'
<1> DEFINE min == IF health.last = 0 THEN 0 ELSE health.last + 1
<1>1. /\ loop.pc = "ask" /\ wire = Nothing
      /\ wire' = [k |-> "request", min |-> min]
      /\ loop' = [loop EXCEPT !.pc = "subscribing", !.min = min]
      /\ dev' = dev /\ health' = health /\ sup' = sup /\ op' = op
      /\ heard' = heard /\ primed' = primed /\ told' = told /\ owed' = owed /\ trouble' = trouble
  BY DEF Ask, listened
<1>2. min \in Min
  BY Unfold, BoundsAssumption DEF Health, Min
<1>3. MinSound'
  BY <1>1, Unfold DEF MinSound, Loop
<1> HIDE DEF min
<1>4. loop' \in Loop /\ loop'.pc = "subscribing" /\ loop'.min = min
  BY <1>1, <1>2, Unfold DEF Loop, Waiting, Min
<1>5. Types'
  BY <1>1, <1>4, Unfold DEF Types
<1>6. WireSound'
  BY <1>1, <1>2, <1>4 DEF WireSound
<1>7. wire'.k # "report" /\ wire' # Ok
  BY <1>1 DEF Ok
<1>8. (Standing' => Standing /\ Upto' = Upto) /\ (JustPrimed' => JustPrimed)
  BY <1>1, <1>7, NothingIsNoReport DEF Standing, Upto, JustPrimed
<1>9. Calm
  BY <1>1, <1>8 DEF Calm, SameEvents
<1>10. Events'
  BY <1>9, CalmKeeps DEF IInv
<1>11. Unpaired' /\ Owing' /\ Gone' /\ BlindWindowRecovered'
  BY <1>1 DEF IInv, Unpaired, Owing, Gone, BlindWindowRecovered
<1> QED
  BY <1>3, <1>5, <1>6, <1>10, <1>11 DEF IInv

\* abort and the drop of the loop.
LEMMA UnsubscribeStep == ASSUME IInv, Unsubscribe PROVE IInv'
<1>1. /\ wire' = wire /\ dev' = dev /\ health' = health /\ loop' = loop
      /\ sup' = [sup EXCEPT !.stopping = TRUE]
      /\ op' = op /\ heard' = heard /\ primed' = primed /\ told' = told /\ owed' = owed
      /\ trouble' = trouble
  BY DEF Unsubscribe, listened
<1>2. /\ sup' \in [ledger : BOOLEAN, subscribed : BOOLEAN, stopping : BOOLEAN]
      /\ sup'.ledger = sup.ledger /\ sup'.subscribed = sup.subscribed
  BY <1>1, Unfold
<1>3. DaemonStep
  BY <1>1, <1>2, Unfold DEF DaemonStep, SameNews
<1>4. Owing' /\ Gone'
  BY <1>1, <1>2 DEF IInv, Owing, Gone
<1> QED
  BY <1>3, <1>4, DaemonStepKeeps DEF IInv

LEMMA LoopDroppedStep == ASSUME IInv, LoopDropped PROVE IInv'
<1>1. /\ wire' = Closed /\ dev' = dev /\ health' = health /\ sup' = sup
      /\ loop' = [pc |-> "off", min |-> 0, err |-> FALSE]
      /\ op' = op /\ heard' = heard /\ primed' = primed /\ told' = told /\ owed' = owed
      /\ trouble' = trouble
  BY DEF LoopDropped, listened
<1>2. loop' \in Loop /\ loop'.pc = "off"
  BY <1>1, BoundsAssumption DEF Loop
<1>3. DaemonStep
  BY <1>1, <1>2, ClosedSound, Unfold DEF DaemonStep, SameNews
<1>4. Owing' /\ Gone'
  BY <1>1, <1>2 DEF IInv, Owing, Gone
<1> QED
  BY <1>3, <1>4, DaemonStepKeeps DEF IInv

\* forget: the daemon's number may go back to 0, because nothing of the node's
\* present run was given.
LEMMA ForgetStep == ASSUME IInv, Stopped, Forget PROVE IInv'
<1>1. /\ sup.stopping /\ loop.pc = "off"
      /\ sup' = [sup EXCEPT !.subscribed = FALSE, !.stopping = FALSE]
      /\ health' = H!Forget(health)
      /\ told' = NoValue /\ wire' = wire /\ loop' = loop
      /\ dev' = dev /\ op' = op /\ heard' = heard /\ primed' = primed
      /\ owed' = owed /\ trouble' = trouble
  BY DEF Forget
<1>2. /\ health' \in Health /\ health'.last = 0 /\ health'.value = NoValue
      /\ health'.status = "absent" /\ ~health'.touched /\ ~health'.permit
  BY <1>1, ForgetSound
<1>3. /\ sup' \in [ledger : BOOLEAN, subscribed : BOOLEAN, stopping : BOOLEAN]
      /\ sup'.ledger = sup.ledger
  BY <1>1, Unfold
<1>4. Types'
  BY <1>1, <1>2, <1>3, Unfold DEF Types
<1>5. WireSound' /\ MinSound'
  BY <1>1, WireKeeps DEF IInv, MinSound
<1>6. NotAhead' /\ EventOnce'
  BY <1>1 DEF IInv, Events, NotAhead, EventOnce
<1>7. HeardSound'
  BY <1>1 DEF Stopped, HeardSound, Heard
<1>8. CoveredSound'
  BY <1>1 DEF Stopped, CoveredSound
<1>9. Unpaired'
  BY <1>1, <1>3 DEF IInv, Unpaired
<1>10. Owing' /\ Gone' /\ BlindWindowRecovered'
  BY <1>1, <1>2, Unfold DEF IInv, Owing, Gone, BlindWindowRecovered
<1> QED
  BY <1>4, <1>5, <1>6, <1>7, <1>8, <1>9, <1>10 DEF IInv, Events

\* Report r, with the events a .. b, goes to the listeners.
LEMMA EmitHistory ==
    ASSUME DevSound(dev), heard \in [Event -> Nat], primed \subseteq Event,
           NEW h, NEW r, NEW news, NEW priming,
           r.events \subseteq 1 .. MaxEvents, news \subseteq r.events,
           Emit(h, r, news, priming)
    PROVE  /\ heard' \in [Event -> Nat] /\ primed' \subseteq Event
           /\ \A b \in 1 .. MaxBoots, n \in 1 .. MaxEvents :
                 /\ heard'[<<b, n>>] =
                       heard[<<b, n>>] + IF b = dev.ep /\ n \in news THEN 1 ELSE 0
                 /\ <<b, n>> \in primed' <=>
                       <<b, n>> \in primed \/ (b = dev.ep /\ n \in r.events \ news)
<1> DEFINE E(s) == {<<dev.ep, n>> : n \in s}
<1>1. /\ heard' = [e \in Event |-> heard[e] + IF e \in E(news) THEN 1 ELSE 0]
      /\ primed' = primed \cup (E(r.events) \ E(news))
  BY DEF Emit
<1>2. dev.ep \in 1 .. MaxBoots
  BY DevFields
<1>3. E(r.events) \subseteq Event
  BY <1>2 DEF Event
<1>4. \A s, b, n : <<b, n>> \in E(s) <=> b = dev.ep /\ n \in s
  OBVIOUS
<1>5. heard' \in [Event -> Nat]
  <2> HIDE DEF E
  <2> QED BY <1>1
<1>6. primed' \subseteq Event
  <2> HIDE DEF E
  <2> QED BY <1>1, <1>3
<1>7. ASSUME NEW b \in 1 .. MaxBoots, NEW n \in 1 .. MaxEvents
      PROVE  /\ heard'[<<b, n>>] =
                   heard[<<b, n>>] + IF b = dev.ep /\ n \in news THEN 1 ELSE 0
             /\ <<b, n>> \in primed' <=>
                   <<b, n>> \in primed \/ (b = dev.ep /\ n \in r.events \ news)
  <2> HIDE DEF E
  <2>1. <<b, n>> \in Event
    BY DEF Event
  <2>2. /\ <<b, n>> \in E(news) <=> b = dev.ep /\ n \in news
        /\ <<b, n>> \in E(r.events) <=> b = dev.ep /\ n \in r.events
    BY <1>4
  <2>3. heard'[<<b, n>>] = heard[<<b, n>>] + IF <<b, n>> \in E(news) THEN 1 ELSE 0
    BY <1>1, <2>1, Zenon
  <2>4. heard'[<<b, n>>] = heard[<<b, n>>] + IF b = dev.ep /\ n \in news THEN 1 ELSE 0
    BY <2>2, <2>3, Zenon
  <2>5. <<b, n>> \in primed' <=>
           <<b, n>> \in primed \/ (<<b, n>> \in E(r.events) /\ <<b, n>> \notin E(news))
    BY <1>1
  <2> QED BY <2>2, <2>4, <2>5
<1> QED
  BY <1>5, <1>6, <1>7

\* The news never leave the listeners with a value older than the daemon's: a
\* line that is no news repeats a value, or is the first one.
LEMMA EmitRecovers ==
    ASSUME NEW h \in Health, NEW r, NEW news, NEW priming \in BOOLEAN,
           h.value = health.value, BlindWindowRecovered,
           health'.value = IF r.value = NoValue THEN h.value ELSE r.value,
           Emit(h, r, news, priming)
    PROVE  BlindWindowRecovered'
<1>1. told' = IF H!IsNews(h, r.value, priming) THEN r.value ELSE told
  BY DEF Emit
<1>2. CASE H!IsNews(h, r.value, priming)
  <2>1. r.value # NoValue
    BY <1>2 DEF H!IsNews
  <2> QED BY <1>1, <1>2, <2>1 DEF BlindWindowRecovered
<1>3. CASE ~H!IsNews(h, r.value, priming)
  <2>1. told' = told
    BY <1>1, <1>3
  <2>2. CASE r.value = NoValue
    BY <2>1, <2>2 DEF BlindWindowRecovered
  <2>3. CASE r.value # NoValue
    <3>1. h.value = NoValue \/ h.value = r.value
      BY <1>3, <2>3 DEF H!IsNews
    <3> QED BY <2>1, <2>3, <3>1 DEF BlindWindowRecovered
  <2> QED BY <2>2, <2>3
<1> QED
  BY <1>2, <1>3

\* A step in which the daemon delivers something.
Delivers ==
    /\ dev' = dev /\ sup' = sup /\ op' = op /\ owed' = owed /\ trouble' = trouble
    /\ heard' \in [Event -> Nat] /\ primed' \subseteq Event
    /\ health' \in Health /\ SameSignals(health', health)
    /\ loop.pc # "off" /\ loop' \in Loop /\ loop'.pc # "subscribing"
    /\ wire' = Ok

LEMMA DeliversKeeps ==
    ASSUME IInv, Delivers
    PROVE  Types' /\ WireSound' /\ MinSound' /\ Unpaired' /\ Owing' /\ Gone'
<1>1. Types'
  BY Unfold DEF Types, Delivers
<1>2. WireSound' /\ MinSound'
  BY WireKeeps DEF IInv, Delivers, MinSound
<1>3. Unpaired' /\ Owing' /\ Gone'
  BY DEF IInv, Unpaired, Owing, Gone, Delivers, SameSignals
<1> QED
  BY <1>1, <1>2, <1>3

LEMMA EstablishedStep == ASSUME IInv, Established PROVE IInv'
<1> DEFINE h == H!ClearPending(H!Mark(health, "established"))
<1>1. /\ loop.pc = "subscribing" /\ wire.k = "priming"
      /\ Emit(h, wire.report, H!NewsOfPriming(wire.report.events, loop.min), TRUE)
      /\ loop' = [loop EXCEPT !.pc = "pump"] /\ wire' = Ok
      /\ dev' = dev /\ sup' = sup /\ op' = op /\ owed' = owed /\ trouble' = trouble
  BY DEF Established
<1>2. h \in Health /\ SameNews(h, health) /\ SameSignals(h, health)
  <2>1. LET g == H!Mark(health, "established")
        IN  g \in Health /\ SameSignals(g, health) /\ SameNews(g, health)
    BY Unfold, MarkSound DEF Status
  <2> QED BY <2>1, ClearPendingSound DEF SameNews, SameSignals
<1> DEFINE r == wire.report
           min == loop.min
           news == H!NewsOfPriming(r.events, min)
           from == Start(dev, min)
<1>3. dev.busy = "prime" /\ r = Priming(dev, min) /\ min \in Min
  BY <1>1 DEF IInv, WireSound, Nothing, Ok
<1>4. /\ r.value \in Values \cup {NoValue}
      /\ r.events = from .. dev.next - 1
      /\ from \in Int /\ 1 <= from /\ dev.next - 1 \in Int /\ dev.next - 1 <= MaxEvents
      /\ dev.oldest <= from /\ min <= from /\ from \in {min, dev.oldest}
  BY <1>3, Unfold, PrimingSound
<1>5. min = IF health.last = 0 THEN 0 ELSE health.last + 1
  BY <1>1 DEF IInv, MinSound
<1>6. health.last \in 0 .. MaxEvents /\ health.last \in Int /\ min \in Int /\ 0 <= min
  BY <1>5, Unfold, BoundsAssumption DEF Health
<1>7. /\ news \subseteq r.events
      /\ \A n : n \in news <=> n \in r.events /\ min # 0 /\ n >= min
  BY DEF H!NewsOfPriming
<1> HIDE DEF h, r, min, news, from
<1>8. /\ health' \in Health /\ SameSignals(health', h)
      /\ health'.value = IF r.value = NoValue THEN h.value ELSE r.value
      /\ health'.last = IF from > dev.next - 1 \/ dev.next - 1 <= h.last
                        THEN h.last ELSE dev.next - 1
  <2>1. health' = H!NoteEvents(H!Observe(h, r.value), r.events, FALSE)
    BY <1>1 DEF Emit, r, min, news
  <2> DEFINE nx == dev.next - 1
  <2>2. nx \in Int /\ nx <= MaxEvents /\ health' = H!NoteEvents(H!Observe(h, r.value), from .. nx, FALSE)
    BY <2>1, <1>4
  <2> HIDE DEF nx
  <2>3. FALSE \in BOOLEAN
    OBVIOUS
  <2>4. Noted(H!NoteEvents(H!Observe(h, r.value), from .. nx, FALSE), h, r.value, FALSE, from, nx)
    BY <2>2, <2>3, <1>2, <1>4, NoteEventsSound, Zenon
  <2> QED BY <2>2, <2>4 DEF nx, Noted
<1>9. Emit(h, r, news, TRUE)
  BY <1>1 DEF r, news, min
<1>10. r.events \subseteq 1 .. MaxEvents
  BY <1>4, BoundsAssumption
<1>11. /\ heard' \in [Event -> Nat] /\ primed' \subseteq Event
       /\ \A b \in 1 .. MaxBoots, n \in 1 .. MaxEvents :
             /\ heard'[<<b, n>>] =
                   heard[<<b, n>>] + IF b = dev.ep /\ n \in news THEN 1 ELSE 0
             /\ <<b, n>> \in primed' <=>
                   <<b, n>> \in primed \/ (b = dev.ep /\ n \in r.events \ news)
  BY <1>7, <1>9, <1>10, Unfold, EmitHistory
<1>12. BlindWindowRecovered'
  BY <1>2, <1>8, <1>9, EmitRecovers DEF IInv, SameNews
<1>13. Delivers
  <2>1. loop' \in Loop /\ loop'.pc = "pump"
    BY <1>1, Unfold DEF Loop, Waiting
  <2> QED BY <1>1, <1>2, <1>8, <1>11, <2>1 DEF Delivers, SameSignals
<1>14. ~Standing' /\ dev.next \in Int /\ dev.ep \in 1 .. MaxBoots
  <2>1. dev.busy = "prime" /\ wire' = Ok /\ dev' = dev
    BY <1>1, <1>3
  <2>2. Ok.k # "report"
    BY DEF Ok
  <2> QED BY <2>1, <2>2, Unfold, DevFields DEF Standing
<1>15. health'.last = IF from > dev.next - 1 \/ dev.next - 1 <= health.last
                      THEN health.last ELSE dev.next - 1
  BY <1>2, <1>8 DEF SameNews
<1>16. \A b \in 1 .. MaxBoots, n \in 1 .. MaxEvents : heard[<<b, n>>] \in Nat
  BY Unfold DEF Event
<1>17. \A n \in 1 .. MaxEvents : n \in news => ~Heard(n) /\ health.last < n /\ n < dev.next
  <2> SUFFICES ASSUME NEW n \in 1 .. MaxEvents, n \in news
               PROVE  ~Heard(n) /\ health.last < n /\ n < dev.next
    OBVIOUS
  <2>1. n >= min /\ min # 0 /\ n \in from .. dev.next - 1
    BY <1>7, <1>4
  <2>2. health.last < n /\ n < dev.next
    BY <2>1, <1>4, <1>5, <1>6, <1>14
  <2>3. Heard(n) => n <= health.last
    BY DEF IInv, Events, HeardSound
  <2> QED BY <2>2, <2>3, <1>6
<1>18. EventOnce'
  <2> SUFFICES ASSUME NEW b \in 1 .. MaxBoots, NEW n \in 1 .. MaxEvents
               PROVE  heard'[<<b, n>>] <= 1
    BY DEF EventOnce, Event
  <2>1. heard[<<b, n>>] <= 1 /\ heard[<<b, n>>] \in Nat
    BY <1>16 DEF IInv, Events, EventOnce, Event
  <2>2. CASE b = dev.ep /\ n \in news
    <3>1. ~(heard[<<b, n>>] > 0)
      BY <1>17, <2>2 DEF Heard
    <3> QED BY <3>1, <2>1, <2>2, <1>11
  <2>3. CASE ~(b = dev.ep /\ n \in news)
    BY <2>1, <2>3, <1>11
  <2> QED BY <2>2, <2>3
<1>19. NotAhead'
  <2> SUFFICES ASSUME NEW b \in 1 .. MaxBoots, NEW n \in 1 .. MaxEvents,
                      heard'[<<b, n>>] > 0 \/ <<b, n>> \in primed'
               PROVE  b <= dev.ep
    BY <1>1 DEF NotAhead
  <2>1. CASE b = dev.ep
    BY <2>1, <1>14, BoundsAssumption
  <2>2. CASE b # dev.ep
    <3>1. heard[<<b, n>>] > 0 \/ <<b, n>> \in primed
      BY <2>2, <1>11, <1>16
    <3> QED BY <3>1 DEF IInv, Events, NotAhead
  <2> QED BY <2>1, <2>2
<1>20. HeardSound'
  <2> SUFFICES ASSUME NEW n \in 1 .. MaxEvents, heard'[<<dev.ep, n>>] > 0
               PROVE  /\ n < dev.next /\ n <= health'.last /\ health'.last < dev.next
                      /\ sup.ledger
    BY <1>1, <1>14 DEF HeardSound, Heard
  <2>1. sup.ledger
    BY <1>3 DEF IInv, Unpaired
  <2>2. CASE n \in news
    <3>1. n \in from .. dev.next - 1 /\ health.last < n /\ n < dev.next
      BY <2>2, <1>17, <1>7, <1>4
    <3> QED BY <2>1, <3>1, <1>4, <1>6, <1>14, <1>15
  <2>3. CASE n \notin news
    <3>1. Heard(n)
      BY <2>3, <1>11, <1>14, <1>16 DEF Heard
    <3>2. n < dev.next /\ n <= health.last /\ health.last < dev.next
      BY <3>1 DEF IInv, Events, HeardSound
    <3> QED BY <2>1, <3>2, <1>6, <1>14, <1>15
  <2> QED BY <2>2, <2>3
<1>21. CoveredSound'
  <2> SUFFICES ASSUME ~dev.back
               PROVE  /\ health'.last < dev.next
                      /\ \A n \in Log(dev) : Covered(n)'
    BY <1>1 DEF CoveredSound
  <2>1. health.last < dev.next
    BY DEF IInv, Events, CoveredSound
  <2>2. health'.last < dev.next
    BY <2>1, <1>6, <1>14, <1>15
  <2>3. ASSUME NEW n \in Log(dev) PROVE Covered(n)'
    <3>1. n \in Int /\ dev.oldest <= n /\ n < dev.next /\ n \in 1 .. MaxEvents
      BY Unfold, DevFields, BoundsAssumption DEF Log
    <3>2. CASE n <= health.last
      <4>1. Covered(n)
        BY <3>2 DEF IInv, Events, CoveredSound
      <4>2. heard[<<dev.ep, n>>] > 0 => heard'[<<dev.ep, n>>] > 0
        BY <3>1, <1>11, <1>14, <1>16
      <4> QED BY <4>1, <4>2, <3>1, <1>1, <1>11, <1>14 DEF Covered
    <3>3. CASE health.last < n
      <4>1. n \in from .. dev.next - 1
        BY <3>1, <3>3, <1>4, <1>5, <1>6, Unfold, DevFields
      <4>2. n \in r.events
        BY <4>1, <1>4
      <4>3. CASE n \in news
        BY <4>3, <3>1, <1>1, <1>11, <1>14, <1>16 DEF Covered
      <4>4. CASE n \notin news
        BY <4>2, <4>4, <3>1, <1>1, <1>11, <1>14 DEF Covered
      <4> QED BY <4>3, <4>4
    <3> QED BY <3>1, <3>2, <3>3, <1>6
  <2> QED BY <2>2, <2>3
<1> QED
  BY <1>12, <1>13, <1>18, <1>19, <1>20, <1>21, DeliversKeeps DEF IInv, Events

LEMMA PumpReportStep == ASSUME IInv, PumpReport PROVE IInv'
<1> DEFINE h == H!ClearPending(health)
           r == wire.report
           from == Start(dev, dev.sub.next)
           fitted == FitEvents(dev, from)
           last == from + fitted - 1
<1>1. /\ loop.pc = "pump" /\ wire.k = "report"
      /\ Emit(h, r, r.events, FALSE)
      /\ loop' = [loop EXCEPT !.pc = "answer"] /\ wire' = Ok
      /\ dev' = dev /\ sup' = sup /\ op' = op /\ owed' = owed /\ trouble' = trouble
  BY DEF PumpReport
<1>2. h \in Health /\ SameNews(h, health) /\ SameSignals(h, health)
  BY PendingCleared
<1>3. dev.busy = "report" /\ r = Report(dev)
  BY <1>1 DEF IInv, WireSound, Nothing, Ok
<1>4. dev.sub.live /\ Standing /\ Upto = dev.sub.next
  <2>1. dev.sub.live
    BY <1>3, Unfold DEF DevSound
  <2>2. wire # Ok
    BY <1>1 DEF Ok
  <2> QED BY <1>1, <2>1, <2>2 DEF Standing, Upto
<1>5. /\ r.value \in Values \cup {NoValue}
      /\ r.events = from .. last
      /\ from \in Int /\ 1 <= from /\ last \in Int /\ fitted \in Int /\ 0 <= fitted
      /\ last <= dev.next - 1 /\ last <= MaxEvents
      /\ dev.oldest <= from /\ dev.sub.next <= from /\ from \in {dev.sub.next, dev.oldest}
  BY <1>3, Unfold, ReportSound
<1>6. /\ dev.sub.live
      /\ Upto' = IF fitted > 0 THEN from + fitted
                 ELSE IF from >= dev.next THEN dev.next ELSE dev.sub.next
  <2>1. Upto' = Reported(dev).sub.next
    BY <1>1, <1>3 DEF Upto
  <2> QED BY <2>1, <1>4, Unfold, ReportedSound
<1>7. last = from + fitted - 1
  OBVIOUS
<1> HIDE DEF h, r, from, fitted, last
<1>8. /\ health' \in Health /\ SameSignals(health', h)
      /\ health'.value = IF r.value = NoValue THEN h.value ELSE r.value
      /\ health'.last = IF from > last THEN h.last ELSE last
  <2>1. health' = H!NoteEvents(H!Observe(h, r.value), from .. last, TRUE)
    BY <1>1, <1>5 DEF Emit
  <2>2. TRUE \in BOOLEAN
    OBVIOUS
  <2>3. Noted(H!NoteEvents(H!Observe(h, r.value), from .. last, TRUE), h, r.value, TRUE, from, last)
    BY <2>2, <1>2, <1>5, NoteEventsSound, Zenon
  <2> QED BY <2>1, <2>3 DEF Noted
<1>9. r.events \subseteq 1 .. MaxEvents
  BY <1>5, BoundsAssumption
<1>10. /\ heard' \in [Event -> Nat] /\ primed' \subseteq Event
       /\ \A b \in 1 .. MaxBoots, n \in 1 .. MaxEvents :
             /\ heard'[<<b, n>>] =
                   heard[<<b, n>>] + IF b = dev.ep /\ n \in r.events THEN 1 ELSE 0
             /\ <<b, n>> \in primed' <=>
                   <<b, n>> \in primed \/ (b = dev.ep /\ n \in r.events \ r.events)
  BY <1>1, <1>9, Unfold, EmitHistory
<1>11. BlindWindowRecovered'
  BY <1>1, <1>2, <1>8, EmitRecovers DEF IInv, SameNews
<1>12. Delivers
  <2>1. loop' \in Loop /\ loop'.pc = "answer"
    BY <1>1, Unfold DEF Loop, Waiting
  <2> QED BY <1>1, <1>2, <1>8, <1>10, <2>1 DEF Delivers, SameSignals
<1>13. /\ dev.next \in Int /\ dev.oldest \in Int /\ dev.sub.next \in Int /\ dev.sub.next <= dev.next
       /\ dev.ep \in 1 .. MaxBoots /\ health.last \in Int
  BY Unfold, DevFields, BoundsAssumption DEF Health
<1>14. health'.last = IF from > last THEN health.last ELSE last
  BY <1>2, <1>8 DEF SameNews
<1>15. \A b \in 1 .. MaxBoots, n \in 1 .. MaxEvents : heard[<<b, n>>] \in Nat
  BY Unfold DEF Event
<1>16. \A n \in 1 .. MaxEvents : Heard(n) =>
          n < dev.next /\ n <= health.last /\ health.last < dev.next /\ n < dev.sub.next
  BY <1>4 DEF IInv, Events, HeardSound
<1>17. \A n \in 1 .. MaxEvents : n \in r.events => ~Heard(n)
  <2> SUFFICES ASSUME NEW n \in 1 .. MaxEvents, n \in r.events
               PROVE  ~(n < dev.sub.next)
    BY <1>16
  <2> QED BY <1>5, <1>13
<1>18. EventOnce'
  <2> SUFFICES ASSUME NEW b \in 1 .. MaxBoots, NEW n \in 1 .. MaxEvents
               PROVE  heard'[<<b, n>>] <= 1
    BY DEF EventOnce, Event
  <2>1. heard[<<b, n>>] <= 1 /\ heard[<<b, n>>] \in Nat
    BY <1>15 DEF IInv, Events, EventOnce, Event
  <2>2. CASE b = dev.ep /\ n \in r.events
    <3>1. ~(heard[<<b, n>>] > 0)
      BY <1>17, <2>2 DEF Heard
    <3> QED BY <3>1, <2>1, <2>2, <1>10
  <2>3. CASE ~(b = dev.ep /\ n \in r.events)
    BY <2>1, <2>3, <1>10
  <2> QED BY <2>2, <2>3
<1>19. NotAhead'
  <2> SUFFICES ASSUME NEW b \in 1 .. MaxBoots, NEW n \in 1 .. MaxEvents,
                      heard'[<<b, n>>] > 0 \/ <<b, n>> \in primed'
               PROVE  b <= dev.ep
    BY <1>1 DEF NotAhead
  <2>1. CASE b = dev.ep
    BY <2>1, <1>13, BoundsAssumption
  <2>2. CASE b # dev.ep
    <3>1. heard[<<b, n>>] > 0 \/ <<b, n>> \in primed
      BY <2>2, <1>10, <1>15
    <3> QED BY <3>1 DEF IInv, Events, NotAhead
  <2> QED BY <2>1, <2>2
<1>20. HeardSound'
  <2> SUFFICES ASSUME NEW n \in 1 .. MaxEvents, heard'[<<dev.ep, n>>] > 0
               PROVE  /\ n < dev.next /\ n <= health'.last /\ health'.last < dev.next
                      /\ n < Upto' /\ sup.ledger
    BY <1>1 DEF HeardSound, Heard
  <2>1. sup.ledger
    BY <1>3 DEF IInv, Unpaired
  <2>2. CASE n \in r.events
    <3>1. n \in from .. last
      BY <2>2, <1>5
    <3>2. fitted > 0 /\ from <= last
      BY <3>1, <1>5, <1>7
    <3> QED BY <2>1, <3>1, <3>2, <1>5, <1>6, <1>7, <1>13, <1>14
  <2>3. CASE n \notin r.events
    <3>1. Heard(n)
      BY <2>3, <1>10, <1>13, <1>15 DEF Heard
    <3>2. n < dev.next /\ n <= health.last /\ health.last < dev.next /\ n < dev.sub.next
      BY <3>1, <1>16
    <3> QED BY <2>1, <3>2, <1>5, <1>6, <1>7, <1>13, <1>14
  <2> QED BY <2>2, <2>3
<1>21. CoveredSound'
  <2> SUFFICES ASSUME ~dev.back
               PROVE  /\ health'.last < dev.next
                      /\ \A n \in Log(dev) : n <= health'.last \/ n < Upto' => Covered(n)'
    <3>1. ~JustPrimed'
      BY <1>1, <1>3 DEF JustPrimed
    <3> QED BY <1>1, <3>1 DEF CoveredSound
  <2>1. health.last < dev.next
    BY DEF IInv, Events, CoveredSound
  <2>2. health'.last < dev.next
    BY <2>1, <1>5, <1>13, <1>14
  <2>3. ASSUME NEW n \in Log(dev), n <= health'.last \/ n < Upto'
        PROVE  Covered(n)'
    <3>1. n \in Int /\ dev.oldest <= n /\ n < dev.next /\ n \in 1 .. MaxEvents
      BY Unfold, DevFields, BoundsAssumption DEF Log
    <3>2. CASE n \in r.events
      BY <3>1, <3>2, <1>1, <1>10, <1>13, <1>15 DEF Covered
    <3>3. CASE n \notin r.events
      <4>1. n <= health.last \/ n < dev.sub.next
        <5>1. ~(from <= n /\ n <= last)
          BY <3>1, <3>3, <1>5
        <5> QED BY <2>3, <3>1, <5>1, <1>5, <1>6, <1>7, <1>13, <1>14
      <4>2. Covered(n)
        BY <4>1, <1>4 DEF IInv, Events, CoveredSound
      <4>3. heard[<<dev.ep, n>>] > 0 => heard'[<<dev.ep, n>>] > 0
        BY <3>1, <1>10, <1>13, <1>15
      <4> QED BY <4>2, <4>3, <3>1, <1>1, <1>10, <1>13 DEF Covered
    <3> QED BY <3>2, <3>3
  <2> QED BY <2>2, <2>3
<1> QED
  BY <1>11, <1>12, <1>18, <1>19, <1>20, <1>21, DeliversKeeps DEF IInv, Events
-----------------------------------------------------------------------------
LEMMA InitSound == ASSUME Init PROVE IInv
<1>1. /\ DevSound(dev) /\ dev.ep = 1 /\ dev.next = 1 /\ dev.oldest = 1 /\ ~dev.back
      /\ dev.busy = "no" /\ ~dev.sub.live
  <2>1. 1 \in 1 .. MaxBoots /\ 1 \in Number
    BY BoundsAssumption DEF Number
  <2>2. dev = Boot(1, 1, FALSE) /\ FALSE \in BOOLEAN
    BY DEF Init
  <2> QED BY <2>1, <2>2, BootSound
<1>2. /\ health \in Health /\ health.last = 0 /\ health.value = NoValue
      /\ health.status = "absent" /\ ~health.touched /\ ~health.permit
  <2>1. health = H!Forget(health)
    BY DEF Init, H!Forget
  <2> QED BY <2>1, ForgetSound
<1>3. loop \in Loop /\ loop.pc = "off"
  BY BoundsAssumption DEF Init, Loop
<1>4. op \in Op /\ sup \in [ledger : BOOLEAN, subscribed : BOOLEAN, stopping : BOOLEAN] /\ sup.ledger
  BY DeviceAssumption DEF Init, Op
<1>5. heard \in [Event -> Nat] /\ (\A e \in Event : heard[e] = 0) /\ primed = {}
  BY DEF Init
<1>6. Types
  <2>1. owed \in Int /\ trouble \in Nat
    BY BoundsAssumption DEF Init
  <2> QED BY <1>1, <1>2, <1>3, <1>4, <1>5, <2>1 DEF Types
<1>7. WireSound /\ MinSound
  BY <1>3 DEF Init, WireSound, MinSound
<1>8. \A b \in 1 .. MaxBoots, n \in 1 .. MaxEvents : heard[<<b, n>>] = 0
  BY <1>5 DEF Event
<1>9. NotAhead /\ EventOnce
  BY <1>5, <1>8 DEF NotAhead, EventOnce
<1>10. HeardSound
  <2>1. dev.ep \in 1 .. MaxBoots
    BY <1>1, BoundsAssumption
  <2> QED BY <1>8, <2>1 DEF HeardSound, Heard
<1>11. CoveredSound
  <2>1. Log(dev) = {}
    BY <1>1 DEF Log
  <2> QED BY <1>1, <1>2, <2>1 DEF CoveredSound
<1>12. Unpaired /\ Owing /\ Gone /\ BlindWindowRecovered
  BY <1>2, <1>3, <1>4 DEF Init, Unpaired, Owing, Gone, BlindWindowRecovered
<1> QED
  BY <1>6, <1>7, <1>9, <1>10, <1>11, <1>12 DEF IInv, Events

LEMMA NextSound == ASSUME IInv, Stopped, [Next]_vars PROVE IInv'
<1>1. CASE Environment
  <2>1. ASSUME NEW v \in Values, StimulusChanges(v) PROVE IInv'
    BY <2>1, StimulusChangesStep
  <2>2. ASSUME NEW v \in Values, OpSends(v) PROVE IInv'
    BY <2>2, OpSendsStep
  <2>3. ASSUME NEW first \in {1, dev.next}, Restart(first) PROVE IInv'
    BY <2>3, RestartStep
  <2>4. CASE SubscribeFailsEarly
    BY <2>4, SubscribeFailsStep
  <2>5. CASE EndSilenceEarly
    BY <2>5, EndStep
  <2> QED
    BY <1>1, <2>1, <2>2, <2>3, <2>4, <2>5, StimulusEmitsStep, UnpairStep, PairStep,
       LoseStep, AckLostStep, OpDroppedStep, NodeTouchedStep, EstablishFailsStep
       DEF Environment
<1>2. CASE Device
  BY <1>2, DevPrimeStep, DevReportStep, DevAnsweredStep, DevGivesUpStep DEF Device
<1>3. CASE Pump
  BY <1>3, EstablishStep, AskStep, EstablishedStep, SubscribeFailsStep, PumpReportStep,
     RetryStep DEF Pump
<1>4. CASE Ends
  BY <1>4, AnswerFailsStep, EndStep DEF Ends
<1>5. CASE Operation \/ Supervisor
  BY <1>5, OpExecutesStep, OpReturnsStep, UnsubscribeStep, LoopDroppedStep, ForgetStep,
     SubscribeStep DEF Operation, Supervisor
<1>6. CASE EndTouched \/ RetryTouched
  BY <1>6, EndTouchedStep, RetryTouchedStep
<1>7. CASE UNCHANGED vars
  <2>1. /\ dev' = dev /\ wire' = wire /\ health' = health /\ loop' = loop /\ sup' = sup
        /\ op' = op /\ heard' = heard /\ primed' = primed /\ told' = told
        /\ owed' = owed /\ trouble' = trouble
    BY <1>7 DEF vars
  <2>2. DaemonStep
    BY <2>1, Unfold DEF DaemonStep, SameNews
  <2>3. Owing' /\ Gone'
    BY <2>1 DEF IInv, Owing, Gone
  <2> QED BY <2>2, <2>3, DaemonStepKeeps DEF IInv
<1> QED
  BY <1>1, <1>2, <1>3, <1>4, <1>5, <1>6, <1>7 DEF Next

\* Until the join returns nothing reaches the node on behalf of the loop.
LEMMA StoppedSound == ASSUME IInv, Stopped, [Next]_vars PROVE Stopped'
<1>1. ASSUME sup'.stopping => sup.stopping, heard' = heard, dev'.ep = dev.ep,
             dev'.back = dev.back,
             sup.stopping => dev'.sess # "sub" /\ dev'.busy = "no"
      PROVE  Stopped'
  BY <1>1 DEF Stopped, Heard
<1>2. CASE dev' = dev /\ heard' = heard /\ (sup' = sup \/ Pair \/ Subscribe \/ Forget)
  <2>1. sup'.stopping => sup.stopping
    BY <1>2, Unfold DEF Pair, Subscribe, Forget
  <2> QED BY <1>1, <1>2, <2>1 DEF Stopped
<1>3. CASE Unsubscribe
  <2>1. ~sup.ledger /\ dev' = dev /\ heard' = heard
    BY <1>3 DEF Unsubscribe, listened
  <2> QED BY <2>1 DEF IInv, Unpaired, Events, HeardSound, Stopped, Heard
<1>4. ASSUME NEW first \in {1, dev.next}, Restart(first) PROVE Stopped'
  <2>1. dev'.back = (dev.back \/ first < dev.next) /\ sup' = sup
    BY <1>4, Unfold DEF Restart, Boot
  <2>2. /\ dev.ep < MaxBoots /\ dev' = Boot(dev.ep + 1, first, dev.back \/ first < dev.next)
        /\ heard' = heard
    BY <1>4 DEF Restart, listened
  <2>3. dev'.ep = dev.ep + 1 /\ dev'.sess = "none" /\ dev'.busy = "no"
    BY <2>2 DEF Boot
  <2>4. \A n \in 1 .. MaxEvents : ~Heard(n)'
    BY <2>2, <2>3, NotYetHeard
  <2> QED BY <2>1, <2>3, <2>4 DEF Stopped
<1>5. CASE Unpair
  <2>1. dev.ep < MaxBoots /\ dev' = Boot(dev.ep + 1, 1, TRUE) /\ heard' = heard
    BY <1>5 DEF Unpair, listened
  <2>2. dev'.ep = dev.ep + 1 /\ dev'.sess = "none" /\ dev'.busy = "no" /\ dev'.back
    BY <2>1 DEF Boot
  <2>3. \A n \in 1 .. MaxEvents : ~Heard(n)'
    BY <2>1, <2>2, NotYetHeard
  <2> QED BY <2>2, <2>3 DEF Stopped
<1>6. ASSUME NEW v \in Values, StimulusChanges(v) PROVE Stopped'
  <2>1. dev' = Change(dev, v) /\ sup' = sup /\ heard' = heard
    BY <1>6 DEF StimulusChanges, listened
  <2>2. SameEvents(dev', dev) /\ dev'.busy = dev.busy /\ dev'.sess = dev.sess
    BY <2>1, Unfold, ChangeSound
  <2> QED BY <1>1, <2>1, <2>2 DEF SameEvents, Stopped
<1>7. CASE StimulusEmits
  <2>1. dev.busy = "no" /\ dev.next <= MaxEvents /\ dev' = AppendEvent(dev) /\ sup' = sup /\ heard' = heard
    BY <1>7 DEF StimulusEmits, listened
  <2>2. /\ dev'.ep = dev.ep /\ dev'.back = dev.back /\ dev'.busy = dev.busy
        /\ dev'.sess = dev.sess
    BY <2>1, Unfold, AppendEventSound
  <2> QED BY <1>1, <2>1, <2>2 DEF Stopped
<1>8. ASSUME NEW v \in Values, OpSends(v) PROVE Stopped'
  <2>1. /\ dev.busy = "no" /\ dev' \in {InstallSession(dev, "op"), dev}
        /\ sup' = sup /\ heard' = heard
    BY <1>8 DEF OpSends, listened
  <2>2. Unsubscribed(InstallSession(dev, "op"), dev, "op")
    BY <2>1, Unfold, InstallSessionSound
  <2> QED BY <1>1, <2>1, <2>2 DEF Unsubscribed, SameEvents, Stopped
<1>9. CASE OpExecutes
  <2>1. /\ dev' \in {dev, Change(dev, op.v)} /\ sup' = sup /\ heard' = heard
    BY <1>9 DEF OpExecutes, listened
  <2>2. op.v \in Values
    BY Unfold DEF Op
  <2>3. LET c == Change(dev, op.v) IN SameEvents(c, dev) /\ c.busy = dev.busy /\ c.sess = dev.sess
    BY <2>2, Unfold, ChangeSound
  <2> QED BY <1>1, <2>1, <2>3 DEF SameEvents, Stopped
<1>10. CASE Establish
  BY <1>10 DEF Establish, Stopped
<1>11. ASSUME dev.busy # "no" \/ dev.sub.live \/ wire.k \in {"priming", "report"},
              sup' = sup
       PROVE  Stopped'
  <2>1. dev.sub.live \/ dev.busy # "no" => dev.sess = "sub"
    BY Unfold DEF DevSound
  <2>2. wire.k \in {"priming", "report"} => dev.busy # "no"
    BY DEF IInv, WireSound, Nothing, Ok
  <2> QED BY <1>11, <2>1, <2>2 DEF Stopped
<1>12. CASE DevPrime
  <2>1. CASE dev.sess = "sub"
    BY <1>12, <2>1 DEF DevPrime, Stopped
  <2>2. CASE dev.sess # "sub"
    BY <1>12, <2>2, <1>2 DEF DevPrime, listened
  <2> QED BY <2>1, <2>2
<1>13. CASE DevReport \/ DevAnswered \/ DevGivesUp \/ AckLost \/ Established \/ PumpReport
  BY <1>13, <1>11 DEF DevReport, DevAnswered, DevGivesUp, AckLost, Established, PumpReport
<1>14. CASE Lose \/ OpDropped \/ NodeTouched \/ EstablishFails \/ SubscribeFailsEarly \/ EndSilenceEarly
  BY <1>14, <1>2 DEF Lose, OpDropped, NodeTouched, EstablishFails, SubscribeFailsEarly,
     EndSilenceEarly, listened
<1>15. CASE Ask \/ SubscribeFails \/ Retry \/ Ends \/ EndTouched \/ RetryTouched
  BY <1>15, <1>2 DEF Ask, SubscribeFails, Retry, Ends, AnswerFails, EndOpGrace, EndError,
     EndSilence, EndTouched, RetryTouched, listened
<1>16. CASE OpReturns \/ LoopDropped \/ Forget \/ Subscribe \/ Pair \/ UNCHANGED vars
  BY <1>16, <1>2 DEF OpReturns, LoopDropped, Forget, Subscribe, Pair, vars, listened
<1>17. CASE Environment
  BY <1>17, <1>4, <1>5, <1>6, <1>7, <1>8, <1>13, <1>14, <1>16 DEF Environment
<1> QED
  BY <1>3, <1>9, <1>10, <1>12, <1>13, <1>15, <1>16, <1>17
     DEF Next, Device, Pump, Operation, Supervisor

\* The inductive invariant: the device's next_event and log, the daemon's last
\* number and what is in flight between them always fit what the listeners were
\* given, through reports in parts, lost messages, restarts and re-pairing.
THEOREM SubscriptionInvariant == Spec => [](IInv /\ Stopped)
<1>1. Init => IInv /\ Stopped
  BY InitSound DEF Init, Stopped
<1>2. IInv /\ Stopped /\ [Next]_vars => (IInv /\ Stopped)'
  BY NextSound, StoppedSound
<1> QED
  BY <1>1, <1>2, PTL DEF Spec

\* No event is given to the listeners twice as news, and, as long as the
\* device's numbers do not start again, none that the daemon has passed over is
\* missing: neither note_event_number with EventMin nor the device's next_event
\* repeats or skips one (pump.rs, subscribe.rs).
THEOREM EventsExactProved == Spec => []EventsExact
<1>1. IInv => EventsExact
  <2> SUFFICES ASSUME IInv PROVE EventsExact
    OBVIOUS
  <2>1. NothingSkipped
    BY DEF IInv, Events, CoveredSound, NothingSkipped, Covered
  <2> QED BY <2>1 DEF IInv, Events, EventsExact
<1> QED
  BY <1>1, SubscriptionInvariant, PTL

\* The record of health.rs is well formed; the number it resumes from is one the
\* device will reach once a live event was seen; a touched signal is spent once;
\* and of a node the supervisor let go of nothing is left.
THEOREM HealthSoundProved == Spec => []HealthSound
<1>1. IInv => HealthSound
  <2> SUFFICES ASSUME IInv PROVE HealthSound
    OBVIOUS
  <2>1. wire.k \in {"nothing", "ok", "request", "priming", "report"}
    BY DEF IInv, WireSound, Nothing, Ok
  <2>2. TypeOK
    BY <2>1, Unfold DEF TypeOK, DevSound, Dev, Sub, Health, Loop, Op
  <2>3. EventMinIsReachable
    BY DEF IInv, Events, HeardSound, EventMinIsReachable, Heard
  <2>4. TouchSpentOnce
    BY DEF IInv, Owing, TouchSpentOnce
  <2>5. NoGhost
    BY DEF IInv, Gone, NoGhost
  <2> QED BY <2>2, <2>3, <2>4, <2>5 DEF HealthSound
<1> QED
  BY <1>1, SubscriptionInvariant, PTL

\* A listener that goes by the news alone never believes in a value the daemon
\* knows to be old: classify_against_cache makes every change that fell between
\* two subscriptions news (recovered).
THEOREM BlindWindowRecoveredProved == Spec => []BlindWindowRecovered
<1>1. IInv => BlindWindowRecovered
  BY DEF IInv
<1> QED
  BY <1>1, SubscriptionInvariant, PTL
=============================================================================
