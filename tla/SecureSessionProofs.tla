------------------------ MODULE SecureSessionProofs -------------------------
(***************************************************************************)
(* Proofs about SecureSession, for any script, number of exchanges at a    *)
(* time, length of a report and size of the buffers.                       *)
(*                                                                         *)
(* A message the device has taken stands in a line: first what was begun,  *)
(* then what is deferred, then what is stashed.  No message stands in it   *)
(* twice, and those that open an exchange stand in it as they arrived.     *)
(* Every operation of the device adds at the end, removes, or moves the    *)
(* border between two parts; the one that inserts is served on the spot    *)
(* and opens nothing.                                                      *)
(*                                                                         *)
(* That an answer is ours rests on the other end: a message is answered    *)
(* once, and the controller sends the next one on an exchange only when    *)
(* the one before has been answered.                                       *)
(***************************************************************************)
EXTENDS SecureSession, FiniteSetTheorems, SequenceTheorems, TLAPS

Ops == Requests \cup {"Status", "Response", "Report", "SubscribeResponse"}
Messages ==
    [from : {"c", "d"}, n : Nat, ex : Nat, op : Ops, ack : Nat, to : Nat, last : BOOLEAN]

Device ==
    [mode : {"loop", "reply", "status", "drain"}, cur : Messages \cup {None}, left : Nat,
     out : Messages \cup {None}, deferred : Seq(Messages), stash : Seq(Messages),
     pend : Nat \X Nat, begun : Seq(Messages), evicted : SUBSET Messages]

-----------------------------------------------------------------------------
(* The line of messages at the device.                                     *)

\* m and r are two messages, and if both opened an exchange, m came first.
Ahead(arr, m, r) ==
    /\ m # r
    /\ \A k, l \in DOMAIN arr : arr[k] = m /\ arr[l] = r => k < l

Chain(arr, s) == \A i, j \in DOMAIN s : i < j => Ahead(arr, s[i], s[j])
AllAhead(arr, M, R) == \A m \in M, r \in R : Ahead(arr, m, r)

Buffered(d) == ToSet(d.deferred) \cup ToSet(d.stash)
InLine(d) == ToSet(d.begun) \cup Buffered(d)

Line(arr, d) ==
    /\ Chain(arr, d.begun) /\ Chain(arr, d.deferred) /\ Chain(arr, d.stash)
    /\ AllAhead(arr, ToSet(d.begun), Buffered(d))
    /\ AllAhead(arr, ToSet(d.deferred), ToSet(d.stash))

\* What the mode of the task says of the rest.
Control(d) ==
    /\ Len(d.stash) <= StashCap /\ Len(d.deferred) < DeferCap
    /\ d.mode = "loop" => d.stash = << >>
    /\ d.mode # "status" => d.deferred = << >>
    /\ d.mode # "reply" => d.out = None
    /\ d.mode \in {"reply", "status"} => d.cur \in ToSet(d.begun)
    /\ d.mode = "status" => Chunked(d.cur.op) /\ d.left > 0

-----------------------------------------------------------------------------
(* The invariant                                                           *)

\* The messages the device has taken.
Taken == {m \in From("c") : m.n \in seen["d"]}

Typed ==
    /\ script \in Scripts
    /\ sent \in SUBSET Messages /\ IsFiniteSet(sent)
    /\ seen \in [{"c", "d"} -> SUBSET Nat]
    /\ pend \in Nat \X Nat
    /\ ctl \in [Exchanges -> [st : {"new", "wait", "done", "failed"}, n : Nat,
                              op : Ops \cup {"None"}, right : BOOLEAN]]
    /\ dev \in Device
    /\ arrived \in Seq(Messages)

\* The counters of an end are 1, 2, ... and the device has seen no others.
Numbered ==
    /\ \A e \in {"c", "d"} : \A m \in From(e) :
          /\ m.n \in 1 .. Cardinality(From(e))
          /\ \A r \in From(e) : r.n = m.n => r = m
    /\ \A k \in seen["d"] : \E m \in From("c") : m.n = k

\* What the controller sends on an exchange: the request that opens it, once,
\* then the action of a timed interaction or the confirmations of a report.
Opened ==
    /\ \A m \in From("c") :
          /\ m.ex \in Exchanges /\ ctl[m.ex].st # "new"
          /\ \/ Opens(m)
             \/ script.open[m.ex] = "Timed" /\ m.op = "Invoke"
             \/ Chunked(script.open[m.ex]) /\ m.op = "Status"
    /\ \A m, r \in From("c") : m.ex = r.ex /\ Opens(m) /\ Opens(r) => m = r
    /\ \A x \in Exchanges : ctl[x].op = "Timed" => script.open[x] = "Timed"
    /\ \A m \in From("d") : ~m.last => Chunked(script.open[m.ex])

\* Nothing follows on an exchange before the device has the request that
\* opened it.
OpenerFirst ==
    \A m \in sent : m.from = "d" \/ ~Opens(m) =>
        \E o \in Taken : o.ex = m.ex /\ Opens(o)

\* The device: what it has taken stands in line, or was a confirmation, or
\* fell out of a full buffer.
Queued ==
    /\ Control(dev) /\ Line(arrived, dev)
    /\ InLine(dev) \subseteq Taken
    /\ \A m \in Taken : m.op = "Status" \/ m \in InLine(dev) \cup dev.evicted
    /\ dev.mode = "reply" => dev.out \in From("d")
    /\ \A k \in DOMAIN arrived : arrived[k] \in Taken /\ Opens(arrived[k])
    /\ \A k, l \in DOMAIN arrived : arrived[k] = arrived[l] => k = l

\* A message of the device answers one that it has taken and no longer holds
\* back, and each at most one.
Answered(m) == \E r \in From("d") : r.to = m.n

Answers ==
    /\ \A r \in From("d") : \E m \in Taken : m.n = r.to /\ m.ex = r.ex
    /\ \A m \in Buffered(dev) : ~Answered(m)
    /\ \A r, s \in From("d") : r.to = s.to => r = s

\* The controller waits for the answer to its newest message on an exchange:
\* those before are answered, and what has not come yet is for this one.
Awaited ==
    /\ \A m \in From("c") : m.n = ctl[m.ex].n \/ Answered(m)
    /\ \A r \in From("d") : Waiting(r.ex) /\ r.n \notin seen["c"] => r.to = ctl[r.ex].n
    /\ AnswerIsOurs

IInv == Typed /\ Numbered /\ Opened /\ OpenerFirst /\ Queued /\ Answers /\ Awaited

-----------------------------------------------------------------------------
(* Sequences, as sets and as chains                                        *)

LEMMA AppendFacts ==
    ASSUME NEW S, NEW s \in Seq(S), NEW m \in S
    PROVE  /\ Append(s, m) \in Seq(S) /\ Len(Append(s, m)) = Len(s) + 1
           /\ ToSet(Append(s, m)) = ToSet(s) \cup {m}
<1>1. /\ Append(s, m) \in Seq(S) /\ Len(Append(s, m)) = Len(s) + 1
      /\ DOMAIN Append(s, m) = 1 .. Len(s) + 1 /\ DOMAIN s = 1 .. Len(s) /\ Len(s) \in Nat
      /\ \A i \in 1 .. Len(s) : Append(s, m)[i] = s[i]
      /\ Append(s, m)[Len(s) + 1] = m
    OBVIOUS
<1>2. ToSet(Append(s, m)) = ToSet(s) \cup {m}
  <2>1. ASSUME NEW x \in ToSet(Append(s, m)) PROVE x \in ToSet(s) \cup {m}
    <3>1. PICK i \in 1 .. Len(s) + 1 : x = Append(s, m)[i]
        BY <1>1, <2>1 DEF ToSet
    <3>2. CASE i = Len(s) + 1
        BY <1>1, <3>1, <3>2
    <3>3. CASE i \in 1 .. Len(s)
        BY <1>1, <3>1, <3>3 DEF ToSet
    <3> QED BY <1>1, <3>1, <3>2, <3>3
  <2>2. ASSUME NEW x \in ToSet(s) PROVE x \in ToSet(Append(s, m))
    <3>1. PICK i \in 1 .. Len(s) : x = s[i]
        BY <1>1 DEF ToSet
    <3>2. i \in 1 .. Len(s) + 1 /\ x = Append(s, m)[i]
        BY <1>1, <3>1
    <3> QED BY <1>1, <3>2 DEF ToSet
  <2>3. m \in ToSet(Append(s, m))
    <3>1. Len(s) + 1 \in 1 .. Len(s) + 1
        BY <1>1
    <3> QED BY <1>1, <3>1 DEF ToSet
  <2> QED BY <2>1, <2>2, <2>3
<1> QED BY <1>1, <1>2

LEMMA AppendChain ==
    ASSUME NEW S, NEW s \in Seq(S), NEW m \in S, NEW arr,
           Chain(arr, s), AllAhead(arr, ToSet(s), {m})
    PROVE  Chain(arr, Append(s, m))
<1>1. /\ DOMAIN Append(s, m) = 1 .. Len(s) + 1 /\ DOMAIN s = 1 .. Len(s) /\ Len(s) \in Nat
      /\ \A i \in 1 .. Len(s) : Append(s, m)[i] = s[i]
      /\ Append(s, m)[Len(s) + 1] = m
    OBVIOUS
<1> SUFFICES ASSUME NEW i \in 1 .. Len(s) + 1, NEW j \in 1 .. Len(s) + 1, i < j
             PROVE  Ahead(arr, Append(s, m)[i], Append(s, m)[j])
    BY <1>1 DEF Chain
<1>2. i \in 1 .. Len(s) /\ Append(s, m)[i] = s[i]
    BY <1>1
<1>3. CASE j = Len(s) + 1
  <2>1. s[i] \in ToSet(s) /\ Append(s, m)[j] = m
      BY <1>1, <1>2, <1>3 DEF ToSet
  <2> QED BY <1>2, <2>1 DEF AllAhead
<1>4. CASE j \in 1 .. Len(s)
  <2>1. Append(s, m)[j] = s[j]
      BY <1>1, <1>4
  <2> QED BY <1>1, <1>2, <1>4, <2>1 DEF Chain
<1> QED BY <1>1, <1>3, <1>4

LEMMA TailFacts ==
    ASSUME NEW S, NEW s \in Seq(S), s # << >>, NEW arr
    PROVE  /\ Tail(s) \in Seq(S) /\ Head(s) \in S /\ Len(Tail(s)) = Len(s) - 1
           /\ ToSet(s) = ToSet(Tail(s)) \cup {Head(s)}
           /\ Chain(arr, s) => Chain(arr, Tail(s)) /\ AllAhead(arr, {Head(s)}, ToSet(Tail(s)))
<1>1. /\ Tail(s) \in Seq(S) /\ Head(s) \in S /\ Len(Tail(s)) = Len(s) - 1
      /\ Len(s) \in Nat \ {0} /\ DOMAIN s = 1 .. Len(s)
      /\ DOMAIN Tail(s) = 1 .. Len(s) - 1 /\ Head(s) = s[1]
      /\ \A i \in 1 .. Len(s) - 1 : Tail(s)[i] = s[i + 1]
    BY HeadTailProperties
<1>2. ToSet(s) = ToSet(Tail(s)) \cup {Head(s)}
  <2>1. ASSUME NEW x \in ToSet(s) PROVE x \in ToSet(Tail(s)) \cup {Head(s)}
    <3>1. PICK i \in 1 .. Len(s) : x = s[i]
        BY <1>1 DEF ToSet
    <3>2. CASE i = 1
        BY <1>1, <3>1, <3>2
    <3>3. CASE i # 1
      <4>1. i - 1 \in 1 .. Len(s) - 1 /\ Tail(s)[i - 1] = s[i]
          BY <1>1, <3>3
      <4> QED BY <1>1, <3>1, <4>1 DEF ToSet
    <3> QED BY <3>2, <3>3
  <2>2. ASSUME NEW x \in ToSet(Tail(s)) PROVE x \in ToSet(s)
    <3>1. PICK i \in 1 .. Len(s) - 1 : x = Tail(s)[i]
        BY <1>1 DEF ToSet
    <3>2. i + 1 \in 1 .. Len(s) /\ x = s[i + 1]
        BY <1>1, <3>1
    <3> QED BY <1>1, <3>2 DEF ToSet
  <2>3. Head(s) \in ToSet(s)
    <3>1. 1 \in 1 .. Len(s)
        BY <1>1
    <3> QED BY <1>1, <3>1 DEF ToSet
  <2> QED BY <2>1, <2>2, <2>3
<1>3. ASSUME Chain(arr, s)
      PROVE  Chain(arr, Tail(s)) /\ AllAhead(arr, {Head(s)}, ToSet(Tail(s)))
  <2>1. ASSUME NEW i \in 1 .. Len(s) - 1, NEW j \in 1 .. Len(s) - 1, i < j
        PROVE  Ahead(arr, Tail(s)[i], Tail(s)[j])
    <3>1. /\ i + 1 \in 1 .. Len(s) /\ j + 1 \in 1 .. Len(s) /\ i + 1 < j + 1
          /\ Tail(s)[i] = s[i + 1] /\ Tail(s)[j] = s[j + 1]
        BY <1>1, <2>1
    <3> QED BY <1>1, <1>3, <3>1 DEF Chain
  <2>2. ASSUME NEW r \in ToSet(Tail(s)) PROVE Ahead(arr, Head(s), r)
    <3>1. PICK j \in 1 .. Len(s) - 1 : r = Tail(s)[j]
        BY <1>1 DEF ToSet
    <3>2. /\ 1 \in 1 .. Len(s) /\ j + 1 \in 1 .. Len(s) /\ 1 < j + 1
          /\ Head(s) = s[1] /\ r = s[j + 1]
        BY <1>1, <3>1
    <3> QED BY <1>1, <1>3, <3>2 DEF Chain
  <2> QED BY <1>1, <2>1, <2>2 DEF Chain, AllAhead
<1> QED BY <1>1, <1>2, <1>3

\* The first part of one sequence followed by another.
Kept(s, t) ==
    SubSeq(s \o t, 1, IF Len(s \o t) < StashCap THEN Len(s \o t) ELSE StashCap)

LEMMA KeptFacts ==
    ASSUME NEW S, NEW s \in Seq(S), NEW t \in Seq(S), NEW arr
    PROVE  /\ Kept(s, t) \in Seq(S) /\ Len(Kept(s, t)) <= StashCap
           /\ s \o t \in Seq(S) /\ ToSet(s \o t) = ToSet(s) \cup ToSet(t)
           /\ ToSet(Kept(s, t)) \subseteq ToSet(s \o t)
           /\ Chain(arr, s) /\ Chain(arr, t) /\ AllAhead(arr, ToSet(s), ToSet(t)) =>
                 Chain(arr, Kept(s, t))
<1> DEFINE all == s \o t
           k == IF Len(all) < StashCap THEN Len(all) ELSE StashCap
<1>1. StashCap \in Nat
    BY SessionAssumption
<1>2. /\ Len(s) \in Nat /\ Len(t) \in Nat /\ DOMAIN s = 1 .. Len(s) /\ DOMAIN t = 1 .. Len(t)
      /\ all \in Seq(S) /\ Len(all) = Len(s) + Len(t) /\ DOMAIN all = 1 .. Len(s) + Len(t)
      /\ \A i \in 1 .. Len(s) + Len(t) :
            all[i] = IF i <= Len(s) THEN s[i] ELSE t[i - Len(s)]
    BY ConcatProperties
<1>3. k \in Nat /\ k <= Len(all) /\ k <= StashCap /\ Kept(s, t) = SubSeq(all, 1, k)
    BY <1>1, <1>2 DEF Kept
<1> HIDE DEF all, k
<1>4. /\ Kept(s, t) \in Seq(S) /\ Len(Kept(s, t)) = k /\ DOMAIN Kept(s, t) = 1 .. k
      /\ \A i \in 1 .. k : Kept(s, t)[i] = all[i]
  <2>1. \A i \in 1 .. k : all[i] \in S
      BY <1>2, <1>3
  <2>2. /\ Len(SubSeq(all, 1, k)) = k
        /\ \A i \in 1 .. k : SubSeq(all, 1, k)[i] = all[i]
        /\ SubSeq(all, 1, k) \in Seq(S)
      BY <1>2, <1>3, <2>1
  <2> QED BY <1>3, <2>2
<1>5. ToSet(all) = ToSet(s) \cup ToSet(t)
  <2>1. ASSUME NEW x \in ToSet(all) PROVE x \in ToSet(s) \cup ToSet(t)
    <3>1. PICK i \in 1 .. Len(s) + Len(t) : x = all[i]
        BY <1>2 DEF ToSet
    <3>2. CASE i <= Len(s)
      <4>1. i \in 1 .. Len(s) /\ x = s[i]
          BY <1>2, <3>1, <3>2
      <4> QED BY <1>2, <4>1 DEF ToSet
    <3>3. CASE ~(i <= Len(s))
      <4>1. i - Len(s) \in 1 .. Len(t) /\ x = t[i - Len(s)]
          BY <1>2, <3>1, <3>3
      <4> QED BY <1>2, <4>1 DEF ToSet
    <3> QED BY <3>2, <3>3
  <2>2. ASSUME NEW x \in ToSet(s) PROVE x \in ToSet(all)
    <3>1. PICK i \in 1 .. Len(s) : x = s[i]
        BY <1>2 DEF ToSet
    <3>2. i \in 1 .. Len(s) + Len(t) /\ x = all[i]
        BY <1>2, <3>1
    <3> QED BY <1>2, <3>2 DEF ToSet
  <2>3. ASSUME NEW x \in ToSet(t) PROVE x \in ToSet(all)
    <3>1. PICK i \in 1 .. Len(t) : x = t[i]
        BY <1>2 DEF ToSet
    <3>2. i + Len(s) \in 1 .. Len(s) + Len(t) /\ ~(i + Len(s) <= Len(s)) /\ (i + Len(s)) - Len(s) = i
        BY <1>2
    <3>3. x = all[i + Len(s)]
        BY <1>2, <3>1, <3>2
    <3> QED BY <1>2, <3>2, <3>3 DEF ToSet
  <2> QED BY <2>1, <2>2, <2>3
<1>6. ToSet(Kept(s, t)) \subseteq ToSet(all)
  <2> SUFFICES ASSUME NEW x \in ToSet(Kept(s, t)) PROVE x \in ToSet(all)
      OBVIOUS
  <2>1. PICK i \in 1 .. k : x = all[i]
      BY <1>4 DEF ToSet
  <2>2. i \in 1 .. Len(s) + Len(t)
      BY <1>2, <1>3
  <2> QED BY <1>2, <2>1, <2>2 DEF ToSet
<1>7. ASSUME Chain(arr, s), Chain(arr, t), AllAhead(arr, ToSet(s), ToSet(t))
      PROVE  Chain(arr, Kept(s, t))
  <2> SUFFICES ASSUME NEW i \in 1 .. k, NEW j \in 1 .. k, i < j
               PROVE  Ahead(arr, all[i], all[j])
      BY <1>4 DEF Chain
  <2>0. i \in 1 .. Len(s) + Len(t) /\ j \in 1 .. Len(s) + Len(t)
      BY <1>2, <1>3
  <2>1. CASE j <= Len(s)
    <3>1. i \in 1 .. Len(s) /\ j \in 1 .. Len(s) /\ all[i] = s[i] /\ all[j] = s[j]
        BY <1>2, <2>0, <2>1
    <3> QED BY <1>2, <1>7, <3>1 DEF Chain
  <2>2. CASE ~(i <= Len(s))
    <3>1. /\ i - Len(s) \in 1 .. Len(t) /\ j - Len(s) \in 1 .. Len(t) /\ i - Len(s) < j - Len(s)
          /\ all[i] = t[i - Len(s)] /\ all[j] = t[j - Len(s)]
        BY <1>2, <2>0, <2>2
    <3> QED BY <1>2, <1>7, <3>1 DEF Chain
  <2>3. CASE i <= Len(s) /\ ~(j <= Len(s))
    <3>1. /\ i \in 1 .. Len(s) /\ all[i] = s[i]
          /\ j - Len(s) \in 1 .. Len(t) /\ all[j] = t[j - Len(s)]
        BY <1>2, <2>0, <2>3
    <3>2. all[i] \in ToSet(s) /\ all[j] \in ToSet(t)
        BY <1>2, <3>1 DEF ToSet
    <3> QED BY <1>7, <3>2 DEF AllAhead
  <2> QED BY <1>2, <2>0, <2>1, <2>2, <2>3
<1>8. Len(Kept(s, t)) <= StashCap
    BY <1>3, <1>4
<1> QED BY <1>2, <1>4, <1>5, <1>6, <1>7, <1>8 DEF all

-----------------------------------------------------------------------------
(* The device's operators, on values: d before, e after, T what the device *)
(* has taken, H the message in hand, if any.                               *)

Sound(arr, T, d) == d \in Device /\ InLine(d) \subseteq T /\ Line(arr, d)

\* m may go between what is deferred and what is stashed.
Fits(arr, d, m) ==
    /\ AllAhead(arr, ToSet(d.begun) \cup ToSet(d.deferred), {m})
    /\ AllAhead(arr, {m}, ToSet(d.stash))

\* Nothing comes in but what was in hand, and nothing is lost without notice.
Changes(d, H, e) ==
    /\ InLine(e) \subseteq InLine(d) \cup H
    /\ Buffered(e) \subseteq Buffered(d) \cup H
    /\ d.evicted \subseteq e.evicted
    /\ \A m \in InLine(d) \cup H : m.op = "Status" \/ m \in InLine(e) \cup e.evicted

\* e sends an answer to m.
Sends(m, e) ==
    /\ e.mode = "reply" /\ m \notin Buffered(e)
    /\ \E op \in Ops, ack \in Nat, last \in BOOLEAN :
          /\ e.out = Message("d", m.ex, op, ack, m.n, last)
          /\ ~last => Chunked(script.open[m.ex])

Outcome(arr, T, d, H, e) ==
    /\ Sound(arr, T, e) /\ Control(e) /\ Changes(d, H, e)
    /\ \/ e.mode # "reply"
       \/ d.mode = "reply" /\ e.out = d.out
       \/ \E m \in H : Sends(m, e)

LEMMA Capacities == StashCap \in Nat \ {0} /\ DeferCap \in Nat \ {0} /\ MaxReplies \in Nat \ {0}
BY SessionAssumption

LEMMA ToSetIn ==
    ASSUME NEW S, NEW s \in Seq(S)
    PROVE  ToSet(s) \subseteq S
BY ElementOfSeq DEF ToSet

LEMMA NoneIsNoMessage == \A m \in Messages : m # None
<1> SUFFICES ASSUME NEW m \in Messages, m = None PROVE FALSE
    OBVIOUS
<1>1. m.op \in Ops /\ None.op = "None"
    BY DEF Messages, None
<1> QED BY <1>1 DEF Ops, Requests

LEMMA MessageTyped ==
    ASSUME Typed, NEW e \in {"c", "d"}, NEW x \in Nat, NEW op \in Ops, NEW ack \in Nat,
           NEW to \in Nat, NEW last \in BOOLEAN
    PROVE  Message(e, x, op, ack, to, last) \in Messages
<1>1. IsFiniteSet(From(e))
  <2>1. From(e) \subseteq sent /\ IsFiniteSet(sent)
      BY DEF Typed, From
  <2> QED BY <2>1, FS_Subset
<1>2. Cardinality(From(e)) + 1 \in Nat
  <2>1. Cardinality(From(e)) \in Nat
      BY <1>1, FS_CardinalityType
  <2> QED BY <2>1
<1> QED BY <1>2 DEF Message, Messages

\* e is d with an answer to m on its way.
Replies(d, m, left, to, e) ==
    /\ e \in Device
    /\ e.mode = "reply" /\ e.cur = m
    /\ e.deferred = d.deferred /\ e.stash = d.stash /\ e.begun = d.begun
    /\ e.evicted = d.evicted
    /\ \E op \in Ops, ack \in Nat, last \in BOOLEAN :
          e.out = Message("d", m.ex, op, ack, to, last) /\ (~last => left # 0)

LEMMA ReplyFacts ==
    ASSUME Typed, NEW d \in Device, NEW m \in Messages, NEW left \in Nat, NEW to \in Nat
    PROVE  Replies(d, m, left, to, Reply(d, m, left, to))
<1> DEFINE op == CASE m.op = "Timed" -> "Status" [] m.op = "Invoke" -> "Response"
                   [] m.op = "Subscribe" /\ left = 0 -> "SubscribeResponse" [] OTHER -> "Report"
           ack == Ack(d.pend, m.ex)
           out == Message("d", m.ex, op, ack, to, left = 0)
           p == IF ack # 0 THEN NoAck ELSE d.pend
<1>1. op \in Ops
    BY DEF Ops
<1>2. d.pend \in Nat \X Nat
    BY DEF Device
<1>3. ack \in Nat /\ p \in Nat \X Nat
    BY <1>2 DEF Ack, NoAck
<1>4. (left = 0) \in BOOLEAN /\ m.ex \in Nat
    BY DEF Messages
<1>5. out \in Messages
    BY <1>1, <1>3, <1>4, MessageTyped
<1>6. Reply(d, m, left, to) =
        [d EXCEPT !.mode = "reply", !.cur = m, !.left = left, !.out = out, !.pend = p]
    BY DEF Reply
<1> HIDE DEF op, ack, out, p
<1>7. LET e == [d EXCEPT !.mode = "reply", !.cur = m, !.left = left, !.out = out, !.pend = p]
      IN  /\ e \in Device
          /\ e.mode = "reply" /\ e.cur = m /\ e.out = out
          /\ e.deferred = d.deferred /\ e.stash = d.stash /\ e.begun = d.begun
          /\ e.evicted = d.evicted
    BY <1>3, <1>5 DEF Device
<1>8. \E o \in Ops, a \in Nat, last \in BOOLEAN :
         out = Message("d", m.ex, o, a, to, last) /\ (~last => left # 0)
  <2>1. \E last \in BOOLEAN :
           out = Message("d", m.ex, op, ack, to, last) /\ (~last => left # 0)
    <3> WITNESS (left = 0) \in BOOLEAN
    <3> QED BY DEF out
  <2> QED BY <1>1, <1>3, <2>1
<1> QED BY <1>6, <1>7, <1>8 DEF Replies

LEMMA RequeueFacts ==
    ASSUME NEW d \in Device
    PROVE  LET e == Requeue(d)
           IN  /\ e \in Device
               /\ e.mode = d.mode /\ e.cur = d.cur /\ e.left = d.left /\ e.out = d.out
               /\ e.begun = d.begun /\ e.deferred = << >>
               /\ e.stash = Kept(d.deferred, d.stash)
               /\ e.evicted = d.evicted \cup
                                (ToSet(d.deferred \o d.stash) \ ToSet(Kept(d.deferred, d.stash)))
<1> DEFINE ev == d.evicted \cup (ToSet(d.deferred \o d.stash) \ ToSet(Kept(d.deferred, d.stash)))
           st == Kept(d.deferred, d.stash)
<1>1. d.deferred \in Seq(Messages) /\ d.stash \in Seq(Messages) /\ d.evicted \subseteq Messages
    BY DEF Device
<1>2. st \in Seq(Messages)
    BY <1>1, KeptFacts
<1>3. ev \subseteq Messages
  <2>1. d.deferred \o d.stash \in Seq(Messages)
      BY <1>1, KeptFacts
  <2>2. ToSet(d.deferred \o d.stash) \subseteq Messages
      BY <2>1, ToSetIn
  <2> QED BY <1>1, <2>2
<1>4. Requeue(d) = [d EXCEPT !.stash = st, !.deferred = << >>, !.evicted = ev]
    BY DEF Requeue, Kept
<1> HIDE DEF ev, st
<1>5. << >> \in Seq(Messages)
    OBVIOUS
<1>6. LET e == [d EXCEPT !.stash = st, !.deferred = << >>, !.evicted = ev]
      IN  /\ e \in Device
          /\ e.mode = d.mode /\ e.cur = d.cur /\ e.left = d.left /\ e.out = d.out
          /\ e.begun = d.begun /\ e.deferred = << >> /\ e.stash = st /\ e.evicted = ev
    BY <1>2, <1>3, <1>5 DEF Device
<1> QED BY <1>4, <1>6 DEF st, ev

\* What goes back to the stash stays in line.
LEMMA RequeueSound ==
    ASSUME NEW arr, NEW T, NEW d, Sound(arr, T, d)
    PROVE  LET e == Requeue(d)
           IN  /\ Sound(arr, T, e) /\ Changes(d, {}, e)
               /\ Len(e.stash) <= StashCap
<1> DEFINE e == Requeue(d)
<1>1. d \in Device
    BY DEF Sound
<1>2. /\ d.deferred \in Seq(Messages) /\ d.stash \in Seq(Messages)
    BY <1>1 DEF Device
<1>3. /\ e \in Device /\ e.begun = d.begun /\ e.deferred = << >>
      /\ e.stash = Kept(d.deferred, d.stash)
      /\ e.evicted = d.evicted \cup
                       (ToSet(d.deferred \o d.stash) \ ToSet(Kept(d.deferred, d.stash)))
    BY <1>1, RequeueFacts
<1>4. /\ Len(e.stash) <= StashCap
      /\ ToSet(d.deferred \o d.stash) = Buffered(d)
      /\ ToSet(e.stash) \subseteq Buffered(d)
  <2>1. /\ Len(Kept(d.deferred, d.stash)) <= StashCap
        /\ ToSet(d.deferred \o d.stash) = ToSet(d.deferred) \cup ToSet(d.stash)
        /\ ToSet(Kept(d.deferred, d.stash)) \subseteq ToSet(d.deferred \o d.stash)
      BY <1>2, KeptFacts
  <2> HIDE DEF e
  <2> QED BY <1>3, <2>1 DEF Buffered
<1>5. Chain(arr, e.stash)
  <2>1. /\ Chain(arr, d.deferred) /\ Chain(arr, d.stash)
        /\ AllAhead(arr, ToSet(d.deferred), ToSet(d.stash))
      BY DEF Sound, Line
  <2> QED BY <1>2, <1>3, <2>1, KeptFacts
<1> HIDE DEF e
<1>6. Buffered(e) \subseteq Buffered(d) /\ ToSet(e.deferred) = {}
  <2>1. ToSet(e.deferred) = {}
      BY <1>3 DEF ToSet
  <2> QED BY <1>4, <2>1 DEF Buffered
<1>7. Line(arr, e)
  <2>1. Chain(arr, e.begun) /\ AllAhead(arr, ToSet(e.begun), Buffered(e))
      BY <1>3, <1>6 DEF Sound, Line, AllAhead
  <2>2. Chain(arr, e.deferred)
      BY <1>3 DEF Chain
  <2>3. AllAhead(arr, ToSet(e.deferred), ToSet(e.stash))
      BY <1>6 DEF AllAhead
  <2> QED BY <1>5, <2>1, <2>2, <2>3 DEF Line
<1>8. InLine(e) \subseteq InLine(d)
    BY <1>3, <1>6 DEF InLine
<1>9. Changes(d, {}, e)
  <2>1. \A m \in Buffered(d) : m \in ToSet(e.stash) \/ m \in e.evicted
      BY <1>3, <1>4
  <2>2. \A m \in InLine(d) : m \in InLine(e) \cup e.evicted
      BY <1>3, <2>1 DEF InLine, Buffered
  <2>3. d.evicted \subseteq e.evicted
      BY <1>3
  <2> QED BY <1>6, <1>8, <2>2, <2>3 DEF Changes
<1>10. Sound(arr, T, e)
    BY <1>3, <1>7, <1>8 DEF Sound
<1> QED BY <1>4, <1>9, <1>10 DEF e

\* An interaction that ends leaves nothing deferred.
LEMMA FinishSound ==
    ASSUME NEW arr, NEW T, NEW d, Sound(arr, T, d)
    PROVE  Outcome(arr, T, d, {}, Finish(d))
<1> DEFINE r == Requeue(d)
           e == Finish(d)
<1>1. /\ Sound(arr, T, r) /\ Changes(d, {}, r) /\ Len(r.stash) <= StashCap
    BY RequeueSound
<1>2. r \in Device /\ r.deferred = << >>
    BY RequeueFacts DEF Sound
<1>3. e = [r EXCEPT !.mode = "drain", !.cur = None, !.left = 0, !.out = None]
    BY DEF Finish
<1> HIDE DEF r, e
<1>4. /\ e \in Device /\ e.mode = "drain" /\ e.out = None
      /\ e.begun = r.begun /\ e.deferred = r.deferred /\ e.stash = r.stash
      /\ e.evicted = r.evicted
  <2> DEFINE no == None
  <2>1. no \in Messages \cup {None} /\ 0 \in Nat
      OBVIOUS
  <2>2. e = [r EXCEPT !.mode = "drain", !.cur = no, !.left = 0, !.out = no]
      BY <1>3
  <2> HIDE DEF no
  <2>3. /\ e \in Device /\ e.mode = "drain" /\ e.out = no
        /\ e.begun = r.begun /\ e.deferred = r.deferred /\ e.stash = r.stash
        /\ e.evicted = r.evicted
      BY <1>2, <2>1, <2>2 DEF Device
  <2> QED BY <2>3 DEF no
<1>5. InLine(e) = InLine(r) /\ Buffered(e) = Buffered(r)
    BY <1>4 DEF InLine, Buffered
<1>6. Sound(arr, T, e) /\ Changes(d, {}, e)
    BY <1>1, <1>4, <1>5 DEF Sound, Line, Changes
<1>7. Control(e)
  <2>1. Len(e.deferred) = 0
      BY <1>2, <1>4
  <2> QED BY <1>1, <1>2, <1>4, <2>1, Capacities DEF Control
<1> QED BY <1>4, <1>6, <1>7 DEF Outcome, e

\* A message in hand that is a confirmation need not go anywhere.
LEMMA Dropped ==
    ASSUME NEW arr, NEW T, NEW d, NEW m, NEW e, m.op = "Status", Outcome(arr, T, d, {}, e)
    PROVE  Outcome(arr, T, d, {m}, e)
<1>1. Changes(d, {m}, e)
    BY DEF Outcome, Changes
<1> QED BY <1>1 DEF Outcome

\* One after the other, the message in hand having been put away first.
LEMMA Composed ==
    ASSUME NEW arr, NEW T, NEW d, NEW H, NEW e, NEW f,
           Changes(d, H, e), e.mode = d.mode, e.out = d.out,
           Outcome(arr, T, e, {}, f)
    PROVE  Outcome(arr, T, d, H, f)
<1>1. Changes(e, {}, f)
    BY DEF Outcome
<1>2. Changes(d, H, f)
  <2>1. InLine(f) \subseteq InLine(d) \cup H /\ Buffered(f) \subseteq Buffered(d) \cup H
      BY <1>1 DEF Changes
  <2>2. d.evicted \subseteq f.evicted
      BY <1>1 DEF Changes
  <2>3. ASSUME NEW m \in InLine(d) \cup H, m.op # "Status"
        PROVE  m \in InLine(f) \cup f.evicted
    <3>1. m \in InLine(e) \/ m \in e.evicted
        BY <2>3 DEF Changes
    <3> QED BY <1>1, <2>3, <3>1 DEF Changes
  <2> QED BY <2>1, <2>2, <2>3 DEF Changes
<1> QED BY <1>2 DEF Outcome

\* The message in hand is put at the end of what was begun, or is deferred.
Begins(d, m) == [d EXCEPT !.begun = Append(@, m)]
Defers(d, m) == [d EXCEPT !.mode = "status", !.deferred = Append(@, m)]

LEMMA Placed ==
    ASSUME NEW d \in Device, NEW m \in Messages
    PROVE  /\ LET e == Begins(d, m)
              IN  /\ e \in Device /\ e.begun = Append(d.begun, m)
                  /\ e.mode = d.mode /\ e.cur = d.cur /\ e.left = d.left /\ e.out = d.out
                  /\ e.deferred = d.deferred /\ e.stash = d.stash /\ e.evicted = d.evicted
           /\ LET e == Defers(d, m)
              IN  /\ e \in Device /\ e.deferred = Append(d.deferred, m)
                  /\ e.mode = "status" /\ e.cur = d.cur /\ e.left = d.left /\ e.out = d.out
                  /\ e.begun = d.begun /\ e.stash = d.stash /\ e.evicted = d.evicted
<1> DEFINE b == Append(d.begun, m)
           c == Append(d.deferred, m)
<1>1. b \in Seq(Messages) /\ c \in Seq(Messages)
    BY DEF Device
<1>2. Begins(d, m) = [d EXCEPT !.begun = b] /\ Defers(d, m) = [d EXCEPT !.mode = "status", !.deferred = c]
    BY DEF Begins, Defers
<1> HIDE DEF b, c
<1>3. LET e == [d EXCEPT !.begun = b]
      IN  /\ e \in Device /\ e.begun = b
          /\ e.mode = d.mode /\ e.cur = d.cur /\ e.left = d.left /\ e.out = d.out
          /\ e.deferred = d.deferred /\ e.stash = d.stash /\ e.evicted = d.evicted
    BY <1>1 DEF Device
<1>4. LET e == [d EXCEPT !.mode = "status", !.deferred = c]
      IN  /\ e \in Device /\ e.deferred = c
          /\ e.mode = "status" /\ e.cur = d.cur /\ e.left = d.left /\ e.out = d.out
          /\ e.begun = d.begun /\ e.stash = d.stash /\ e.evicted = d.evicted
    BY <1>1 DEF Device
<1> QED BY <1>2, <1>3, <1>4 DEF b, c

LEMMA BegunSound ==
    ASSUME NEW arr, NEW T \in SUBSET Messages, NEW d, Sound(arr, T, d), NEW m \in T,
           d.deferred = << >>, Fits(arr, d, m)
    PROVE  Sound(arr, T, Begins(d, m)) /\ Changes(d, {m}, Begins(d, m))
<1> DEFINE e == Begins(d, m)
<1>1. d \in Device /\ d.begun \in Seq(Messages) /\ m \in Messages
    BY DEF Sound, Device
<1>2. /\ e \in Device /\ e.begun = Append(d.begun, m)
      /\ e.deferred = d.deferred /\ e.stash = d.stash /\ e.evicted = d.evicted
    BY <1>1, Placed
<1> HIDE DEF e
<1>3. ToSet(e.begun) = ToSet(d.begun) \cup {m}
    BY <1>1, <1>2, AppendFacts
<1>4. Chain(arr, e.begun)
  <2>1. Chain(arr, d.begun) /\ AllAhead(arr, ToSet(d.begun), {m})
      BY DEF Sound, Line, Fits, AllAhead
  <2> QED BY <1>1, <1>2, <2>1, AppendChain
<1>5. Buffered(e) = Buffered(d) /\ InLine(e) = InLine(d) \cup {m}
    BY <1>2, <1>3 DEF InLine, Buffered
<1>6. Line(arr, e)
  <2>1. Buffered(d) = ToSet(d.stash)
      BY DEF Buffered, ToSet
  <2>2. AllAhead(arr, ToSet(e.begun), Buffered(e))
      BY <1>3, <1>5, <2>1 DEF Sound, Line, Fits, AllAhead
  <2>3. /\ Chain(arr, e.deferred) /\ Chain(arr, e.stash)
        /\ AllAhead(arr, ToSet(e.deferred), ToSet(e.stash))
      BY <1>2 DEF Sound, Line
  <2> QED BY <1>4, <2>2, <2>3 DEF Line
<1>7. Sound(arr, T, e)
    BY <1>2, <1>5, <1>6 DEF Sound
<1>8. Changes(d, {m}, e)
    BY <1>2, <1>5 DEF Changes
<1> QED BY <1>7, <1>8 DEF e

LEMMA DeferredSound ==
    ASSUME NEW arr, NEW T \in SUBSET Messages, NEW d, Sound(arr, T, d), NEW m \in T,
           Fits(arr, d, m)
    PROVE  Sound(arr, T, Defers(d, m)) /\ Changes(d, {m}, Defers(d, m))
<1> DEFINE e == Defers(d, m)
<1>1. d \in Device /\ d.deferred \in Seq(Messages) /\ m \in Messages
    BY DEF Sound, Device
<1>2. /\ e \in Device /\ e.deferred = Append(d.deferred, m)
      /\ e.begun = d.begun /\ e.stash = d.stash /\ e.evicted = d.evicted
    BY <1>1, Placed
<1> HIDE DEF e
<1>3. ToSet(e.deferred) = ToSet(d.deferred) \cup {m}
    BY <1>1, <1>2, AppendFacts
<1>4. Chain(arr, e.deferred)
  <2>1. Chain(arr, d.deferred) /\ AllAhead(arr, ToSet(d.deferred), {m})
      BY DEF Sound, Line, Fits, AllAhead
  <2> QED BY <1>1, <1>2, <2>1, AppendChain
<1>5. Buffered(e) = Buffered(d) \cup {m} /\ InLine(e) = InLine(d) \cup {m}
    BY <1>2, <1>3 DEF InLine, Buffered
<1>6. Line(arr, e)
  <2>1. AllAhead(arr, ToSet(e.begun), Buffered(e))
      BY <1>2, <1>5 DEF Sound, Line, Fits, AllAhead
  <2>2. AllAhead(arr, ToSet(e.deferred), ToSet(e.stash))
      BY <1>2, <1>3 DEF Sound, Line, Fits, AllAhead
  <2>3. Chain(arr, e.begun) /\ Chain(arr, e.stash)
      BY <1>2 DEF Sound, Line
  <2> QED BY <1>4, <2>1, <2>2, <2>3 DEF Line
<1>7. Sound(arr, T, e)
    BY <1>2, <1>5, <1>6 DEF Sound
<1>8. Changes(d, {m}, e)
    BY <1>2, <1>5 DEF Changes
<1> QED BY <1>7, <1>8 DEF e

\* Stash: the message is the last of the line; a full buffer loses its oldest.
LEMMA StashSound ==
    ASSUME NEW arr, NEW T \in SUBSET Messages, NEW d, Sound(arr, T, d), Control(d),
           NEW m \in T, AllAhead(arr, InLine(d), {m}), d.mode = "reply"
    PROVE  LET e == Stash(d, m)
           IN  /\ Outcome(arr, T, d, {m}, e)
               /\ e.mode = d.mode /\ e.out = d.out /\ e.cur = d.cur /\ e.left = d.left
<1> DEFINE full == Len(d.stash) >= StashCap
           old == IF full THEN Tail(d.stash) ELSE d.stash
           b == Append(old, m)
           ev == IF full THEN d.evicted \cup {Head(d.stash)} ELSE d.evicted
           e == [d EXCEPT !.stash = b, !.evicted = ev]
<1>1. d \in Device /\ d.stash \in Seq(Messages) /\ m \in Messages /\ d.evicted \subseteq Messages
    BY DEF Sound, Device
<1>2. full => d.stash # << >>
  <2>1. Len(<< >>) = 0 /\ StashCap > 0 /\ StashCap \in Nat
      BY Capacities
  <2> QED BY <2>1
<1>3. /\ old \in Seq(Messages) /\ Len(old) < StashCap
      /\ ToSet(old) \subseteq ToSet(d.stash)
      /\ \A r \in ToSet(d.stash) : r \in ToSet(old) \/ r \in ev
      /\ Chain(arr, old)
      /\ ev \subseteq Messages /\ d.evicted \subseteq ev
  <2>0. Len(d.stash) \in Nat /\ Len(d.stash) <= StashCap /\ StashCap \in Nat /\ Chain(arr, d.stash)
      BY <1>1, Capacities DEF Control, Sound, Line
  <2>1. CASE full
    <3>1. /\ Tail(d.stash) \in Seq(Messages) /\ Head(d.stash) \in Messages
          /\ Len(Tail(d.stash)) = Len(d.stash) - 1
          /\ ToSet(d.stash) = ToSet(Tail(d.stash)) \cup {Head(d.stash)}
          /\ Chain(arr, Tail(d.stash))
        BY <1>1, <1>2, <2>0, <2>1, TailFacts
    <3>2. old = Tail(d.stash) /\ ev = d.evicted \cup {Head(d.stash)}
        BY <2>1
    <3> HIDE DEF old, ev
    <3> QED BY <1>1, <2>0, <3>1, <3>2
  <2>2. CASE ~full
    <3>1. old = d.stash /\ ev = d.evicted
        BY <2>2
    <3> HIDE DEF old, ev
    <3> QED BY <1>1, <2>0, <2>2, <3>1
  <2> QED BY <2>1, <2>2
<1>4. Stash(d, m) = e
  <2>1. CASE full
      BY <2>1 DEF Stash
  <2>2. CASE ~full
    <3>1. Stash(d, m) = [d EXCEPT !.stash = b]
        BY <2>2 DEF Stash
    <3>2. ev = d.evicted
        BY <2>2
    <3> HIDE DEF b, ev
    <3> QED BY <1>1, <3>1, <3>2 DEF Device
  <2> QED BY <2>1, <2>2
<1> HIDE DEF full, old, ev
<1>5. /\ b \in Seq(Messages) /\ ToSet(b) = ToSet(old) \cup {m} /\ Len(b) = Len(old) + 1
    BY <1>1, <1>3, AppendFacts
<1>6. Chain(arr, b)
  <2>1. AllAhead(arr, ToSet(old), {m})
      BY <1>3 DEF AllAhead, InLine, Buffered
  <2> QED BY <1>1, <1>3, <2>1, AppendChain
<1> HIDE DEF b
<1>7. /\ e \in Device /\ e.stash = b /\ e.evicted = ev
      /\ e.mode = d.mode /\ e.cur = d.cur /\ e.left = d.left /\ e.out = d.out
      /\ e.begun = d.begun /\ e.deferred = d.deferred
    BY <1>1, <1>3, <1>5 DEF Device
<1> HIDE DEF e
<1>8. /\ Buffered(e) \subseteq Buffered(d) \cup {m} /\ InLine(e) \subseteq InLine(d) \cup {m}
      /\ m \in InLine(e)
    BY <1>3, <1>5, <1>7 DEF InLine, Buffered
<1>9. Line(arr, e)
  <2>1. AllAhead(arr, ToSet(e.begun), Buffered(e))
      BY <1>7, <1>8 DEF Sound, Line, AllAhead, InLine
  <2>2. AllAhead(arr, ToSet(e.deferred), ToSet(e.stash))
    <3>1. AllAhead(arr, ToSet(d.deferred), ToSet(d.stash)) /\ AllAhead(arr, ToSet(d.deferred), {m})
        BY DEF Sound, Line, AllAhead, InLine, Buffered
    <3>2. ToSet(e.stash) \subseteq ToSet(d.stash) \cup {m}
        BY <1>3, <1>5, <1>7
    <3> QED BY <1>7, <3>1, <3>2 DEF AllAhead
  <2>3. Chain(arr, e.begun) /\ Chain(arr, e.deferred) /\ Chain(arr, e.stash)
      BY <1>6, <1>7 DEF Sound, Line
  <2> QED BY <2>1, <2>2, <2>3 DEF Line
<1>10. Sound(arr, T, e)
    BY <1>7, <1>8, <1>9 DEF Sound
<1>11. Changes(d, {m}, e)
  <2>1. ASSUME NEW r \in InLine(d) PROVE r \in InLine(e) \cup e.evicted
      BY <1>3, <1>5, <1>7 DEF InLine, Buffered
  <2> QED BY <1>3, <1>7, <1>8, <2>1 DEF Changes
<1>12. Control(e)
  <2>1. Len(e.stash) <= StashCap
    <3>1. Len(old) \in Nat /\ StashCap \in Nat
        BY <1>3, Capacities
    <3> QED BY <1>3, <1>5, <1>7, <3>1
  <2> QED BY <1>7, <2>1 DEF Control
<1> QED BY <1>4, <1>7, <1>10, <1>11, <1>12 DEF Outcome

\* The rest of the state does not matter to the line.
LEMMA SameLine ==
    ASSUME NEW arr, NEW T, NEW d, NEW H, NEW b, NEW e \in Device,
           Sound(arr, T, b), Changes(d, H, b),
           e.begun = b.begun, e.deferred = b.deferred, e.stash = b.stash, e.evicted = b.evicted
    PROVE  /\ Sound(arr, T, e) /\ Changes(d, H, e)
           /\ Buffered(e) = Buffered(b) /\ InLine(e) = InLine(b)
<1>1. Buffered(e) = Buffered(b) /\ InLine(e) = InLine(b)
    BY DEF Buffered, InLine
<1> QED BY <1>1 DEF Sound, Line, Changes

\* What the device may take: besides a read or a subscribe, only confirmations
\* come on its exchange.
Proper(T) ==
    \A m \in T : Chunked(m.op) =>
        /\ Chunked(script.open[m.ex])
        /\ \A r \in T : r.ex = m.ex => r = m \/ r.op = "Status"

LEMMA ServeSound ==
    ASSUME Typed, NEW arr, NEW T \in SUBSET Messages, Proper(T), NEW d, Sound(arr, T, d),
           NEW m \in T, m \notin InLine(d), Fits(arr, d, m),
           d.deferred = << >>, Len(d.stash) <= StashCap, NEW e \in Serve(d, m)
    PROVE  Outcome(arr, T, d, {m}, e)
<1>1. CASE m.op = "Status"
  <2>1. e = Finish(d)
      BY <1>1 DEF Serve
  <2> QED BY <1>1, <2>1, FinishSound, Dropped
<1>2. CASE m.op # "Status"
  <2> DEFINE b == Begins(d, m)
  <2>1. PICK k \in IF Chunked(m.op) THEN 1 .. MaxReplies ELSE {1} : e = Reply(b, m, k - 1, m.n)
      BY <1>2 DEF Serve, Begins
  <2>2. Sound(arr, T, b) /\ Changes(d, {m}, b)
      BY BegunSound
  <2>4. m \in Messages /\ m.n \in Nat /\ d \in Device /\ b \in Device
      BY <2>2 DEF Messages, Sound
  <2>8. b.deferred = << >> /\ b.stash = d.stash /\ m \in ToSet(b.begun)
    <3>1. b.deferred = d.deferred /\ b.stash = d.stash /\ b.begun = Append(d.begun, m)
        BY <2>4, Placed
    <3>2. d.begun \in Seq(Messages)
        BY <2>4 DEF Device
    <3>3. m \in ToSet(Append(d.begun, m))
        BY <2>4, <3>2, AppendFacts
    <3> QED BY <3>1, <3>3
  <2> HIDE DEF b
  <2>3. /\ k - 1 \in Nat
        /\ k - 1 # 0 => Chunked(script.open[m.ex])
    <3>1. CASE Chunked(m.op)
        BY <3>1, Capacities DEF Proper
    <3>2. CASE ~Chunked(m.op)
        BY <3>2
    <3> QED BY <3>1, <3>2
  <2>5. /\ e \in Device /\ e.mode = "reply" /\ e.cur = m
        /\ e.deferred = b.deferred /\ e.stash = b.stash /\ e.begun = b.begun
        /\ e.evicted = b.evicted
        /\ \E op \in Ops, ack \in Nat, last \in BOOLEAN :
              e.out = Message("d", m.ex, op, ack, m.n, last) /\ (~last => k - 1 # 0)
    <3>1. Replies(b, m, k - 1, m.n, e)
        BY <2>1, <2>3, <2>4, ReplyFacts
    <3> QED BY <3>1 DEF Replies
  <2>6. Sound(arr, T, e) /\ Changes(d, {m}, e)
      BY <2>2, <2>5, SameLine
  <2>7. Sends(m, e)
    <3>1. m \notin Buffered(e)
      <4>1. Buffered(e) = Buffered(d)
          BY <2>5, <2>8 DEF Buffered
      <4> QED BY <4>1 DEF InLine
    <3> QED BY <2>3, <2>5, <3>1 DEF Sends
  <2>9. Control(e)
    <3>1. Len(e.deferred) = 0 /\ Len(e.stash) <= StashCap
        BY <2>5, <2>8
    <3> QED BY <2>5, <2>8, <3>1, Capacities DEF Control
  <2> QED BY <2>6, <2>7, <2>9 DEF Outcome
<1> QED BY <1>1, <1>2

LEMMA StatusSound ==
    ASSUME Typed, NEW arr, NEW T \in SUBSET Messages, Proper(T), NEW d, Sound(arr, T, d),
           Control(d), d.mode \in {"reply", "status"}, Chunked(d.cur.op), d.left > 0,
           NEW m \in T, m \notin InLine(d), Fits(arr, d, m),
           d.mode = "reply" => m.ex = d.cur.ex
    PROVE  Outcome(arr, T, d, {m}, Status(d, m))
<1>1. d.cur \in T /\ d.cur \in ToSet(d.begun) /\ d.cur \in InLine(d)
    BY DEF Control, Sound, InLine
<1>2. CASE m.ex # d.cur.ex
  <2> DEFINE e == Defers(d, m)
  <2>1. /\ Sound(arr, T, e) /\ Changes(d, {m}, e)
        /\ e.mode = "status" /\ e.cur = d.cur /\ e.left = d.left /\ e.out = d.out
        /\ Len(e.deferred) = Len(d.deferred) + 1 /\ e.begun = d.begun
        /\ e.stash = d.stash /\ e.evicted = d.evicted
    <3>1. Sound(arr, T, e) /\ Changes(d, {m}, e)
        BY DeferredSound
    <3>2. d \in Device /\ d.deferred \in Seq(Messages) /\ m \in Messages
        BY DEF Sound, Device
    <3>3. /\ e.deferred = Append(d.deferred, m)
          /\ e.mode = "status" /\ e.cur = d.cur /\ e.left = d.left /\ e.out = d.out
          /\ e.begun = d.begun /\ e.stash = d.stash /\ e.evicted = d.evicted
        BY <3>2, Placed
    <3>4. Len(Append(d.deferred, m)) = Len(d.deferred) + 1
        BY <3>2, AppendFacts
    <3> QED BY <3>1, <3>3, <3>4
  <2>3. Status(d, m) = IF Len(e.deferred) >= DeferCap THEN Finish(e) ELSE e
      BY <1>2 DEF Status, Defers
  <2> HIDE DEF e
  <2>2. d.mode = "status" /\ d.out = None
      BY <1>2 DEF Control
  <2>4. CASE Len(e.deferred) >= DeferCap
    <3>1. Outcome(arr, T, e, {}, Finish(e))
        BY <2>1, FinishSound
    <3>2. Outcome(arr, T, d, {m}, Finish(e))
        BY <2>1, <2>2, <3>1, Composed
    <3> QED BY <2>3, <2>4, <3>2
  <2>5. CASE ~(Len(e.deferred) >= DeferCap)
    <3>1. Len(e.deferred) < DeferCap
      <4>1. d.deferred \in Seq(Messages)
          BY DEF Sound, Device
      <4>2. Len(e.deferred) \in Nat /\ DeferCap \in Nat
          BY <2>1, <4>1, Capacities
      <4> QED BY <2>5, <4>2
    <3>2. Control(e)
        BY <1>1, <2>1, <2>2, <3>1 DEF Control
    <3> QED BY <2>1, <2>3, <2>5, <3>2 DEF Outcome
  <2> QED BY <2>4, <2>5
<1>3. CASE m.ex = d.cur.ex
  <2>1. m.op = "Status"
    <3>1. m # d.cur
        BY <1>1
    <3> QED BY <1>1, <1>3, <3>1 DEF Proper
  <2> DEFINE b == Requeue(d)
             e == Reply(b, d.cur, d.left - 1, m.n)
  <2>2. Status(d, m) = e
      BY <1>3, <2>1 DEF Status
  <2>3. /\ Sound(arr, T, b) /\ Changes(d, {}, b) /\ Len(b.stash) <= StashCap
      BY RequeueSound
  <2>4. b \in Device /\ b.begun = d.begun /\ b.deferred = << >>
      BY RequeueFacts DEF Sound
  <2>e. e = Reply(b, d.cur, d.left - 1, m.n)
      OBVIOUS
  <2> HIDE DEF b, e
  <2>5. d.left - 1 \in Nat /\ m.n \in Nat /\ d.cur \in Messages
    <3>1. d.left \in Nat
        BY DEF Sound, Device
    <3> QED BY <1>1, <3>1 DEF Messages
  <2>6. /\ e \in Device /\ e.mode = "reply" /\ e.cur = d.cur
        /\ e.deferred = b.deferred /\ e.stash = b.stash /\ e.begun = b.begun
        /\ e.evicted = b.evicted
        /\ \E op \in Ops, ack \in Nat, last \in BOOLEAN :
              e.out = Message("d", d.cur.ex, op, ack, m.n, last)
    <3>1. Replies(b, d.cur, d.left - 1, m.n, e)
        BY <2>e, <2>4, <2>5, ReplyFacts
    <3> QED BY <3>1 DEF Replies
  <2>7. Sound(arr, T, e) /\ Changes(d, {}, e) /\ Buffered(e) = Buffered(b)
      BY <2>3, <2>6, SameLine
  <2>8. Changes(d, {m}, e)
      BY <2>1, <2>7 DEF Changes
  <2>9. Sends(m, e)
    <3>1. m \notin Buffered(e)
        BY <2>7 DEF Changes, InLine
    <3>2. Chunked(script.open[m.ex])
        BY <1>1, <1>3 DEF Proper
    <3> QED BY <1>3, <2>6, <3>1, <3>2 DEF Sends
  <2>10. Control(e)
    <3>1. Len(e.deferred) = 0
        BY <2>4, <2>6
    <3> QED BY <1>1, <2>3, <2>4, <2>6, <3>1, Capacities DEF Control
  <2> QED BY <2>2, <2>7, <2>8, <2>9, <2>10 DEF Outcome
<1> QED BY <1>2, <1>3

\* reply_reliable was acknowledged.
LEMMA RepliedSound ==
    ASSUME NEW arr, NEW T \in SUBSET Messages, NEW d, Sound(arr, T, d),
           Control(d), d.mode = "reply", NEW e \in Replied(d, None)
    PROVE  Outcome(arr, T, d, {}, e)
<1>1. Outcome(arr, T, d, {}, Finish(d))
    BY FinishSound
<1>2. ASSUME Chunked(d.cur.op), d.left > 0, e = [d EXCEPT !.mode = "status", !.out = None]
      PROVE  Outcome(arr, T, d, {}, e)
  <2>1. d \in Device /\ Changes(d, {}, d)
      BY DEF Sound, Changes
  <2>2. /\ e \in Device /\ e.mode = "status" /\ e.out = None /\ e.cur = d.cur
        /\ e.left = d.left /\ e.begun = d.begun /\ e.deferred = d.deferred /\ e.stash = d.stash
        /\ e.evicted = d.evicted
    <3> DEFINE no == None
    <3>1. no \in Messages \cup {None} /\ e = [d EXCEPT !.mode = "status", !.out = no]
        BY <1>2
    <3> HIDE DEF no
    <3>2. /\ e \in Device /\ e.mode = "status" /\ e.out = no /\ e.cur = d.cur
          /\ e.left = d.left /\ e.begun = d.begun /\ e.deferred = d.deferred /\ e.stash = d.stash
          /\ e.evicted = d.evicted
        BY <2>1, <3>1 DEF Device
    <3> QED BY <3>2 DEF no
  <2>3. Sound(arr, T, e) /\ Changes(d, {}, e)
      BY <2>1, <2>2, SameLine
  <2>4. Control(e)
      BY <1>2, <2>2 DEF Control
  <2> QED BY <2>2, <2>3, <2>4 DEF Outcome
<1>3. d.left \in Nat
    BY DEF Sound, Device
<1>4. CASE ~Chunked(d.cur.op)
  <2>1. e = Finish(d)
      BY <1>4 DEF Replied
  <2> QED BY <1>1, <2>1
<1>5. CASE Chunked(d.cur.op)
  <2>1. e = CASE d.left = 0 -> Finish(d)
            [] d.left > 0 /\ None = None -> [d EXCEPT !.mode = "status", !.out = None]
            [] OTHER -> Status(d, None)
      BY <1>5 DEF Replied
  <2>2. CASE d.left = 0
    <3>1. e = Finish(d)
        BY <2>1, <2>2
    <3> QED BY <1>1, <3>1
  <2>3. CASE d.left > 0
    <3>1. e = [d EXCEPT !.mode = "status", !.out = None]
        BY <2>1, <2>3
    <3> QED BY <1>2, <1>5, <2>3, <3>1
  <2> QED BY <1>3, <2>2, <2>3
<1> QED BY <1>4, <1>5

\* A message is read while a reply waits for its ack.
LEMMA ReplyingSound ==
    ASSUME Typed, NEW arr, NEW T \in SUBSET Messages, Proper(T), NEW d, Sound(arr, T, d),
           Control(d), d.mode = "reply", NEW m \in T, NEW fresh \in BOOLEAN,
           fresh => m \notin InLine(d) /\ AllAhead(arr, InLine(d), {m}),
           fresh /\ m.ex = d.cur.ex => Fits(arr, d, m),
           NEW e \in WhileReplying(d, m, fresh)
    PROVE  Outcome(arr, T, d, IF fresh THEN {m} ELSE {}, e)
<1>1. Changes(d, {}, d)
    BY DEF Changes
<1>2. CASE fresh /\ m.ex = d.cur.ex
  <2>1. e \in Replied(d, m)
      BY <1>2 DEF WhileReplying
  <2>2. m # None
      BY NoneIsNoMessage
  <2>3. CASE ~Chunked(d.cur.op)
    <3>1. e \in Serve(d, m)
        BY <2>1, <2>2, <2>3 DEF Replied
    <3>2. d.deferred = << >> /\ Len(d.stash) <= StashCap
        BY DEF Control
    <3> QED BY <1>2, <3>1, <3>2, ServeSound
  <2>4. CASE Chunked(d.cur.op)
    <3>1. e = CASE d.left = 0 -> Finish(d)
              [] d.left > 0 /\ m = None -> [d EXCEPT !.mode = "status", !.out = None]
              [] OTHER -> Status(d, m)
        BY <2>1, <2>4 DEF Replied
    <3>2. d.left \in Nat
        BY DEF Sound, Device
    <3>3. CASE d.left = 0
      <4>1. e = Finish(d)
          BY <3>1, <3>3
      <4>2. m.op = "Status"
        <5>1. d.cur \in T /\ m # d.cur
            BY <1>2 DEF Control, Sound, InLine
        <5> QED BY <1>2, <2>4, <5>1 DEF Proper
      <4> QED BY <1>2, <4>1, <4>2, FinishSound, Dropped
    <3>4. CASE d.left > 0
      <4>1. e = Status(d, m)
          BY <2>2, <3>1, <3>4
      <4>2. Outcome(arr, T, d, {m}, Status(d, m))
          BY <1>2, <2>4, <3>4, StatusSound
      <4> QED BY <1>2, <4>1, <4>2
    <3> QED BY <3>2, <3>3, <3>4
  <2> QED BY <2>3, <2>4
<1>3. CASE ~(fresh /\ m.ex = d.cur.ex)
  <2> DEFINE f == IF fresh THEN Stash(d, m) ELSE d
             H == IF fresh THEN {m} ELSE {}
  <2>1. e \in Replied(f, None) \/ e = f
      BY <1>3 DEF WhileReplying
  <2>2. /\ Outcome(arr, T, d, H, f)
        /\ f.mode = d.mode /\ f.out = d.out
    <3>1. CASE fresh
      <4>1. /\ Outcome(arr, T, d, {m}, Stash(d, m))
            /\ Stash(d, m).mode = d.mode /\ Stash(d, m).out = d.out
          BY <3>1, StashSound
      <4> QED BY <3>1, <4>1
    <3>2. CASE ~fresh
      <4>1. Outcome(arr, T, d, {}, d)
          BY <1>1 DEF Outcome
      <4> QED BY <3>2, <4>1
    <3> QED BY <3>1, <3>2
  <2> HIDE DEF f, H
  <2>3. CASE e \in Replied(f, None)
    <3>1. Sound(arr, T, f) /\ Control(f) /\ f.mode = "reply" /\ Changes(d, H, f)
        BY <2>2 DEF Outcome
    <3>2. Outcome(arr, T, f, {}, e)
        BY <2>3, <3>1, RepliedSound
    <3>3. Outcome(arr, T, d, H, e)
        BY <2>2, <3>1, <3>2, Composed
    <3> QED BY <3>3 DEF H
  <2>4. CASE e = f
      BY <2>2, <2>4 DEF H
  <2> QED BY <2>1, <2>3, <2>4
<1> QED BY <1>2, <1>3

-----------------------------------------------------------------------------
(* Messages and arrivals                                                   *)

\* The messages of a step that sends m.
Added(e, x, op, to, last, m) ==
    /\ m \in Messages /\ m \notin sent
    /\ m.from = e /\ m.ex = x /\ m.op = op /\ m.to = to /\ m.last = last
    /\ \A r \in From(e) : r.n # m.n
    /\ sent' \in SUBSET Messages /\ IsFiniteSet(sent')
    /\ From(e)' = From(e) \cup {m}
    /\ \A f \in {"c", "d"} : f # e => From(f)' = From(f)
    /\ \A f \in {"c", "d"} : \A r \in From(f)' :
          /\ r.n \in 1 .. Cardinality(From(f)')
          /\ \A s \in From(f)' : s.n = r.n => s = r

\* A message with the next counter is a new one.
LEMMA Grows ==
    ASSUME Typed, Numbered, NEW e \in {"c", "d"}, NEW x \in Nat, NEW op \in Ops,
           NEW ack \in Nat, NEW to \in Nat, NEW last \in BOOLEAN,
           NEW m, m = Message(e, x, op, ack, to, last), sent' = sent \cup {m}
    PROVE  Added(e, x, op, to, last, m)
<1>1. m \in Messages
    BY MessageTyped
<1>2. /\ m.from = e /\ m.ex = x /\ m.op = op /\ m.to = to /\ m.last = last
      /\ m.n = Cardinality(From(e)) + 1
    BY DEF Message
<1>3. ASSUME NEW f \in {"c", "d"} PROVE IsFiniteSet(From(f)) /\ Cardinality(From(f)) \in Nat
  <2>1. From(f) \subseteq sent /\ IsFiniteSet(sent)
      BY DEF Typed, From
  <2>2. IsFiniteSet(From(f))
      BY <2>1, FS_Subset
  <2> QED BY <2>2, FS_CardinalityType
<1>4. \A r \in From(e) : r.n # m.n
  <2>1. \A r \in From(e) : r.n \in 1 .. Cardinality(From(e))
      BY DEF Numbered
  <2> QED BY <1>2, <1>3, <2>1
<1>5. m \notin sent
    BY <1>2, <1>4 DEF From
<1>6. sent' \in SUBSET Messages /\ IsFiniteSet(sent')
  <2>1. IsFiniteSet(sent \cup {m})
      BY FS_AddElement DEF Typed
  <2> QED BY <1>1, <2>1 DEF Typed
<1>7. From(e)' = From(e) \cup {m} /\ \A f \in {"c", "d"} : f # e => From(f)' = From(f)
    BY <1>2 DEF From
<1>8. Cardinality(From(e)') = Cardinality(From(e)) + 1
  <2>1. m \notin From(e)
      BY <1>5 DEF From
  <2>2. Cardinality(From(e) \cup {m}) = Cardinality(From(e)) + 1
      BY <1>3, <2>1, FS_AddElement
  <2> QED BY <1>7, <2>2
<1>9. ASSUME NEW f \in {"c", "d"}, NEW r \in From(f)'
      PROVE  /\ r.n \in 1 .. Cardinality(From(f)')
             /\ \A s \in From(f)' : s.n = r.n => s = r
  <2>1. CASE f # e
    <3>1. From(f)' = From(f)
        BY <1>7, <2>1
    <3> QED BY <1>9, <3>1 DEF Numbered
  <2>2. CASE f = e
    <3>1. \A s \in From(e) : s.n \in 1 .. Cardinality(From(e))
        BY DEF Numbered
    <3>2. r.n \in 1 .. Cardinality(From(e)) + 1
        BY <1>2, <1>3, <1>7, <1>9, <2>2, <3>1
    <3>3. ASSUME NEW s \in From(f)', s.n = r.n PROVE s = r
        BY <1>4, <1>7, <1>9, <2>2, <3>3 DEF Numbered
    <3> QED BY <1>8, <2>2, <3>2, <3>3
  <2> QED BY <2>1, <2>2
<1> QED BY <1>1, <1>2, <1>4, <1>5, <1>6, <1>7, <1>9 DEF Added

\* A message that has not arrived so far is behind all others, and no matter
\* which way round if it opens nothing.
LEMMA Arrival ==
    ASSUME NEW arr \in Seq(Messages), NEW m \in Messages, \A k \in DOMAIN arr : arr[k] # m
    PROVE  /\ \A a, b : a # m /\ b # m /\ Ahead(arr, a, b) => Ahead(Append(arr, m), a, b)
           /\ \A a : a # m => Ahead(Append(arr, m), a, m)
           /\ \A a : a # m => Ahead(arr, a, m) /\ Ahead(arr, m, a)
<1>1. /\ DOMAIN Append(arr, m) = 1 .. Len(arr) + 1 /\ DOMAIN arr = 1 .. Len(arr) /\ Len(arr) \in Nat
      /\ \A i \in 1 .. Len(arr) : Append(arr, m)[i] = arr[i]
      /\ Append(arr, m)[Len(arr) + 1] = m
    OBVIOUS
<1>2. ASSUME NEW a, NEW b, a # m, b # m, Ahead(arr, a, b) PROVE Ahead(Append(arr, m), a, b)
  <2> SUFFICES ASSUME NEW k \in 1 .. Len(arr) + 1, NEW l \in 1 .. Len(arr) + 1,
                      Append(arr, m)[k] = a, Append(arr, m)[l] = b
               PROVE  k < l
      BY <1>1, <1>2 DEF Ahead
  <2>1. k \in 1 .. Len(arr) /\ l \in 1 .. Len(arr)
      BY <1>1, <1>2
  <2> QED BY <1>1, <1>2, <2>1 DEF Ahead
<1>3. ASSUME NEW a, a # m PROVE Ahead(Append(arr, m), a, m)
  <2> SUFFICES ASSUME NEW k \in 1 .. Len(arr) + 1, NEW l \in 1 .. Len(arr) + 1,
                      Append(arr, m)[k] = a, Append(arr, m)[l] = m
               PROVE  k < l
      BY <1>1, <1>3 DEF Ahead
  <2>1. k \in 1 .. Len(arr)
      BY <1>1, <1>3
  <2>2. l = Len(arr) + 1
      BY <1>1
  <2> QED BY <1>1, <2>1, <2>2
<1>4. ASSUME NEW a, a # m PROVE Ahead(arr, a, m) /\ Ahead(arr, m, a)
    BY <1>4 DEF Ahead
<1> QED BY <1>2, <1>3, <1>4

\* A chain of other messages stays one.
LEMMA StillChained ==
    ASSUME NEW arr, NEW arr2, NEW m,
           \A a, b : a # m /\ b # m /\ Ahead(arr, a, b) => Ahead(arr2, a, b)
    PROVE  /\ \A s : Chain(arr, s) /\ m \notin ToSet(s) => Chain(arr2, s)
           /\ \A A, B : AllAhead(arr, A, B) /\ m \notin A /\ m \notin B => AllAhead(arr2, A, B)
<1>1. ASSUME NEW s, Chain(arr, s), m \notin ToSet(s) PROVE Chain(arr2, s)
    BY <1>1 DEF Chain, ToSet
<1>2. ASSUME NEW A, NEW B, AllAhead(arr, A, B), m \notin A, m \notin B PROVE AllAhead(arr2, A, B)
    BY <1>2 DEF AllAhead
<1> QED BY <1>1, <1>2

-----------------------------------------------------------------------------
(* The steps of the device                                                 *)

LEMMA ProperMessages == ASSUME IInv PROVE Proper(From("c"))
<1> SUFFICES ASSUME NEW m \in From("c"), Chunked(m.op)
             PROVE  /\ Chunked(script.open[m.ex])
                    /\ \A r \in From("c") : r.ex = m.ex => r = m \/ r.op = "Status"
    BY DEF Proper
<1>1. Opens(m)
    BY DEF IInv, Opened, Chunked
<1>2. Chunked(script.open[m.ex])
    BY <1>1 DEF Opens
<1>3. ASSUME NEW r \in From("c"), r.ex = m.ex PROVE r = m \/ r.op = "Status"
  <2>1. CASE Opens(r)
      BY <1>1, <1>3, <2>1 DEF IInv, Opened
  <2>2. CASE ~Opens(r)
      BY <1>2, <1>3, <2>2 DEF IInv, Opened, Chunked
  <2> QED BY <2>1, <2>2
<1> QED BY <1>2, <1>3

\* What a step of the device's task has to do with the messages: H is what it
\* has in hand, d the device without it.
DeviceMoves(d, H) ==
    /\ UNCHANGED <<script, pend, ctl>>
    /\ sent' = sent \cup ({dev'.out} \ {None})
    /\ seen' \in [{"c", "d"} -> SUBSET Nat] /\ seen'["c"] = seen["c"]
    /\ \A k \in seen'["d"] : \E m \in From("c") : m.n = k
    /\ {m \in From("c") : m.n \in seen'["d"]} = Taken \cup H
    /\ Outcome(arrived', Taken \cup H, d, H, dev')
    /\ d.mode = dev.mode /\ d.out = dev.out /\ d.evicted = dev.evicted
    /\ InLine(dev) \subseteq InLine(d) \cup H /\ Buffered(d) \subseteq Buffered(dev)
    /\ H \subseteq From("c") /\ \A m \in H : ~Answered(m)
    /\ arrived' \in Seq(Messages)
    /\ \A k \in DOMAIN arrived' : arrived'[k] \in Taken \cup H /\ Opens(arrived'[k])
    /\ \A k, l \in DOMAIN arrived' : arrived'[k] = arrived'[l] => k = l

\* Nothing is sent, or an answer to the message in hand.
LEMMA SendsOrNot ==
    ASSUME IInv, NEW d, NEW H, DeviceMoves(d, H)
    PROVE  \/ sent' = sent /\ (dev'.mode = "reply" => dev'.out \in From("d"))
           \/ \E m \in H : Sends(m, dev') /\ sent' = sent \cup {dev'.out}
<1>1. /\ Control(dev')
      /\ \/ dev'.mode # "reply"
         \/ d.mode = "reply" /\ dev'.out = d.out
         \/ \E m \in H : Sends(m, dev')
    BY DEF DeviceMoves, Outcome
<1>2. sent' = sent \cup ({dev'.out} \ {None}) /\ d.mode = dev.mode /\ d.out = dev.out
    BY DEF DeviceMoves
<1>3. CASE dev'.mode # "reply"
  <2>1. dev'.out = None
      BY <1>1, <1>3 DEF Control
  <2> QED BY <1>2, <1>3, <2>1
<1>4. CASE d.mode = "reply" /\ dev'.out = d.out
  <2>1. dev'.out \in From("d")
      BY <1>2, <1>4 DEF IInv, Queued
  <2> QED BY <1>2, <2>1 DEF From
<1>5. ASSUME NEW m \in H, Sends(m, dev')
      PROVE  sent' = sent \cup {dev'.out}
  <2>1. m \in From("c")
      BY DEF DeviceMoves
  <2>2. m \in Messages /\ m.ex \in Nat /\ m.n \in Nat
    <3>1. m \in Messages
        BY <2>1 DEF IInv, Typed, From
    <3> QED BY <3>1 DEF Messages
  <2>3. dev'.out \in Messages
      BY <1>5, <2>2, MessageTyped DEF Sends, IInv
  <2> QED BY <1>2, <2>3, NoneIsNoMessage
<1> QED BY <1>1, <1>3, <1>4, <1>5

\* The state of the device and what it has taken.
LEMMA StillQueued ==
    ASSUME IInv, NEW d, NEW H, DeviceMoves(d, H),
           From("c")' = From("c"), dev'.mode = "reply" => dev'.out \in From("d")'
    PROVE  /\ Taken' = Taken \cup H /\ dev' \in Device
           /\ Queued' /\ Buffered(dev') \subseteq Buffered(dev) \cup H
<1>1. Taken' = Taken \cup H
    BY DEF DeviceMoves, Taken
<1>2. Sound(arrived', Taken \cup H, dev') /\ Control(dev') /\ Changes(d, H, dev')
    BY DEF DeviceMoves, Outcome
<1>3. dev' \in Device /\ Line(arrived', dev') /\ InLine(dev') \subseteq Taken'
    BY <1>1, <1>2 DEF Sound
<1>4. Buffered(dev') \subseteq Buffered(dev) \cup H
    BY <1>2 DEF DeviceMoves, Changes
<1>5. ASSUME NEW m \in Taken', m.op # "Status" PROVE m \in InLine(dev') \cup dev'.evicted
  <2>1. m \in InLine(d) \cup H \/ m \in d.evicted
      BY <1>1, <1>5 DEF IInv, Queued, DeviceMoves
  <2> QED BY <1>2, <1>5, <2>1 DEF Changes
<1>6. /\ \A k \in DOMAIN arrived' : arrived'[k] \in Taken' /\ Opens(arrived[k])'
      /\ \A k, l \in DOMAIN arrived' : arrived'[k] = arrived'[l] => k = l
    BY <1>1 DEF DeviceMoves, Opens
<1>7. (Control(dev) /\ Line(arrived, dev) /\ InLine(dev) \subseteq Taken)'
    BY <1>2, <1>3 DEF Control, Line, InLine, Buffered, Taken, Chain, AllAhead, ToSet, Ahead, Chunked
<1>8. (\A m \in Taken : m.op = "Status" \/ m \in InLine(dev) \cup dev.evicted)'
    BY <1>5
<1> QED BY <1>1, <1>3, <1>4, <1>6, <1>7, <1>8 DEF Queued

\* A step of the device that sends nothing.
LEMMA QuietStep ==
    ASSUME IInv, NEW d, NEW H, DeviceMoves(d, H), sent' = sent,
           dev'.mode = "reply" => dev'.out \in From("d")
    PROVE  IInv'
<1>1. From("c")' = From("c") /\ From("d")' = From("d")
    BY DEF From
<1>2. /\ Taken' = Taken \cup H /\ dev' \in Device
      /\ Queued' /\ Buffered(dev') \subseteq Buffered(dev) \cup H
    BY <1>1, StillQueued
<1>3. UNCHANGED <<script, pend, ctl>> /\ seen'["c"] = seen["c"]
    BY DEF DeviceMoves
<1>4. Typed'
    BY <1>2, <1>3 DEF IInv, Typed, DeviceMoves, Exchanges
<1>5. Numbered'
    BY <1>1 DEF IInv, Numbered, DeviceMoves
<1>6. Opened'
    BY <1>1, <1>3 DEF IInv, Opened, Opens, Exchanges
<1>7. OpenerFirst'
    BY <1>2, <1>3 DEF IInv, OpenerFirst, Opens
<1>8. Answers'
  <2>1. ASSUME NEW m \in Buffered(dev') PROVE ~Answered(m)
      BY <1>2, <2>1 DEF IInv, Answers, DeviceMoves
  <2>2. \A r \in From("d")' : \E m \in Taken' : m.n = r.to /\ m.ex = r.ex
      BY <1>1, <1>2 DEF IInv, Answers
  <2>3. \A m : Answered(m)' <=> Answered(m)
      BY <1>1 DEF Answered
  <2> QED BY <1>1, <2>1, <2>2, <2>3 DEF IInv, Answers
<1>9. Awaited'
    BY <1>1, <1>3 DEF IInv, Awaited, Answered, Waiting, AnswerIsOurs, Exchanges
<1> QED BY <1>2, <1>4, <1>5, <1>6, <1>7, <1>8, <1>9 DEF IInv

\* A step of the device that sends an answer to the message m in hand.
LEMMA AnsweringStep ==
    ASSUME IInv, NEW d, NEW H, DeviceMoves(d, H), NEW m \in H, Sends(m, dev'),
           sent' = sent \cup {dev'.out}
    PROVE  IInv'
<1> DEFINE r == dev'.out
<1>1. m \in From("c") /\ ~Answered(m)
    BY DEF DeviceMoves
<1>2. m \in Messages /\ m.ex \in Nat /\ m.n \in Nat /\ m \in sent
  <2>1. m \in Messages /\ m \in sent
      BY <1>1 DEF IInv, Typed, From
  <2> QED BY <2>1 DEF Messages
<1>3. PICK op \in Ops, ack \in Nat, last \in BOOLEAN :
         /\ r = Message("d", m.ex, op, ack, m.n, last)
         /\ ~last => Chunked(script.open[m.ex])
    BY DEF Sends
<1>4. dev'.mode = "reply" /\ m \notin Buffered(dev')
    BY DEF Sends
<1> HIDE DEF r
<1>5. /\ r \in Messages /\ r \notin sent
      /\ r.from = "d" /\ r.ex = m.ex /\ r.to = m.n /\ r.last = last
      /\ sent' \in SUBSET Messages /\ IsFiniteSet(sent')
      /\ From("d")' = From("d") \cup {r} /\ From("c")' = From("c")
      /\ \A f \in {"c", "d"} : \A s \in From(f)' :
            /\ s.n \in 1 .. Cardinality(From(f)')
            /\ \A t \in From(f)' : t.n = s.n => t = s
  <2>1. Typed /\ Numbered /\ sent' = sent \cup {r}
      BY DEF IInv, r
  <2>2. "d" \in {"c", "d"}
      OBVIOUS
  <2>3. Added("d", m.ex, op, m.n, last, r)
      BY <1>2, <1>3, <2>1, <2>2, Grows
  <2> QED BY <2>3 DEF Added
<1>6. dev'.out = r
    BY DEF r
<1>7. /\ Taken' = Taken \cup H /\ dev' \in Device
      /\ Queued' /\ Buffered(dev') \subseteq Buffered(dev) \cup H
    BY <1>5, <1>6, StillQueued
<1>8. UNCHANGED <<script, pend, ctl>> /\ seen'["c"] = seen["c"]
    BY DEF DeviceMoves
<1>9. Typed'
    BY <1>5, <1>7, <1>8 DEF IInv, Typed, DeviceMoves, Exchanges
<1>10. Numbered'
    BY <1>5 DEF Numbered, DeviceMoves
<1>11. Opened'
  <2>1. \A s \in From("d")' : ~s.last => Chunked(script.open[s.ex])
      BY <1>3, <1>5 DEF IInv, Opened
  <2> QED BY <1>5, <1>8, <2>1 DEF IInv, Opened, Opens, Exchanges
<1>12. OpenerFirst'
  <2>1. \E o \in Taken' : o.ex = m.ex /\ Opens(o)
    <3>1. CASE Opens(m)
        BY <1>7, <3>1
    <3>2. CASE ~Opens(m)
        BY <1>2, <1>7, <3>2 DEF IInv, OpenerFirst
    <3> QED BY <3>1, <3>2
  <2>2. ASSUME NEW s \in sent', s.from = "d" \/ ~Opens(s)
        PROVE  \E o \in Taken' : o.ex = s.ex /\ Opens(o)
    <3>1. s \in sent \/ s = r
        BY <2>2 DEF r
    <3>2. CASE s \in sent
        BY <1>7, <2>2, <3>2 DEF IInv, OpenerFirst
    <3>3. CASE s = r
        BY <1>5, <2>1, <3>3
    <3> QED BY <3>1, <3>2, <3>3
  <2> QED BY <1>8, <2>2 DEF OpenerFirst, Opens
<1>13. m.n = ctl[m.ex].n
    BY <1>1 DEF IInv, Awaited
<1>14. Answers'
  <2>1. ASSUME NEW s \in From("d")' PROVE \E t \in Taken' : t.n = s.to /\ t.ex = s.ex
    <3>1. CASE s \in From("d")
        BY <1>7, <3>1 DEF IInv, Answers
    <3>2. CASE s = r
        BY <1>5, <1>7, <3>2
    <3> QED BY <1>5, <2>1, <3>1, <3>2
  <2>2. ASSUME NEW t \in Buffered(dev'), NEW s \in From("d")' PROVE s.to # t.n
    <3>1. t \in Taken' /\ t \in From("c") /\ t # m
      <4>1. t \in Taken'
          BY <1>7, <2>2 DEF Queued, InLine
      <4> QED BY <1>4, <1>5, <2>2, <4>1 DEF Taken
    <3>2. ~Answered(t)
        BY <1>7, <2>2 DEF IInv, Answers, DeviceMoves
    <3>3. CASE s \in From("d")
        BY <3>2, <3>3 DEF Answered
    <3>4. CASE s = r
      <4>1. t.n # m.n
          BY <1>1, <3>1 DEF IInv, Numbered
      <4> QED BY <1>5, <3>4, <4>1
    <3> QED BY <1>5, <2>2, <3>3, <3>4
  <2>3. ASSUME NEW s \in From("d")', NEW t \in From("d")', s.to = t.to PROVE s = t
    <3>1. \A u \in From("d") : u.to # m.n
        BY <1>1 DEF Answered
    <3> QED BY <1>5, <2>3, <3>1 DEF IInv, Answers
  <2> QED BY <2>1, <2>2, <2>3 DEF Answers, Answered
<1>15. Awaited'
  <2>1. ASSUME NEW t \in From("c") PROVE t.n = ctl[t.ex].n \/ \E s \in From("d")' : s.to = t.n
      BY <1>5 DEF IInv, Awaited, Answered
  <2>2. ASSUME NEW s \in From("d")', Waiting(s.ex), s.n \notin seen["c"]
        PROVE  s.to = ctl[s.ex].n
    <3>1. CASE s \in From("d")
        BY <2>2, <3>1 DEF IInv, Awaited
    <3>2. CASE s = r
        BY <1>5, <1>13, <3>2
    <3> QED BY <1>5, <2>2, <3>1, <3>2
  <2>3. AnswerIsOurs'
      BY <1>8 DEF IInv, Awaited, AnswerIsOurs, Exchanges
  <2> QED BY <1>5, <1>8, <2>1, <2>2, <2>3 DEF Awaited, Answered, Waiting
<1> QED BY <1>7, <1>9, <1>10, <1>11, <1>12, <1>14, <1>15 DEF IInv

LEMMA DeviceStep ==
    ASSUME IInv, NEW d, NEW H, DeviceMoves(d, H)
    PROVE  IInv'
<1>1. CASE sent' = sent /\ (dev'.mode = "reply" => dev'.out \in From("d"))
    BY <1>1, QuietStep
<1>2. ASSUME NEW m \in H, Sends(m, dev'), sent' = sent \cup {dev'.out} PROVE IInv'
    BY <1>2, AnsweringStep
<1> QED BY <1>1, <1>2, SendsOrNot

\* The device as the invariant has it, for the lemmas on values.
LEMMA AsItIs ==
    ASSUME IInv
    PROVE  /\ dev \in Device /\ Control(dev) /\ Sound(arrived, Taken, dev) /\ Typed
           /\ Taken \in SUBSET Messages /\ Proper(Taken) /\ arrived \in Seq(Messages)
           /\ Taken = {m \in From("c") : m.n \in seen["d"]}
<1>1. dev \in Device /\ Control(dev) /\ Sound(arrived, Taken, dev) /\ Typed /\ arrived \in Seq(Messages)
    BY DEF IInv, Queued, Typed, Sound
<1>2. Taken \subseteq From("c") /\ From("c") \subseteq Messages
    BY DEF IInv, Typed, Taken, From
<1>3. Proper(Taken)
    BY <1>2, ProperMessages DEF Proper
<1> QED BY <1>1, <1>2, <1>3 DEF Taken

\* A step in which nothing arrives.
LEMMA InternalStep ==
    ASSUME IInv, NEW d, NEW H, H \subseteq Taken, \A m \in H : ~Answered(m),
           Outcome(arrived, Taken, d, H, dev'),
           d.mode = dev.mode, d.out = dev.out, d.evicted = dev.evicted,
           InLine(dev) \subseteq InLine(d) \cup H, Buffered(d) \subseteq Buffered(dev),
           UNCHANGED <<script, pend, ctl, seen, arrived>>,
           sent' = sent \cup ({dev'.out} \ {None})
    PROVE  IInv'
<1>1. Taken \cup H = Taken
    OBVIOUS
<1>2. DeviceMoves(d, H)
  <2>1. Outcome(arrived', Taken \cup H, d, H, dev')
      BY <1>1
  <2>2. /\ seen' \in [{"c", "d"} -> SUBSET Nat] /\ seen'["c"] = seen["c"]
        /\ \A k \in seen'["d"] : \E m \in From("c") : m.n = k
        /\ {m \in From("c") : m.n \in seen'["d"]} = Taken \cup H
      BY <1>1 DEF IInv, Typed, Numbered, Taken
  <2>3. /\ arrived' \in Seq(Messages)
        /\ \A k \in DOMAIN arrived' : arrived'[k] \in Taken \cup H /\ Opens(arrived'[k])
        /\ \A k, l \in DOMAIN arrived' : arrived'[k] = arrived'[l] => k = l
      BY <1>1 DEF IInv, Typed, Queued
  <2>4. H \subseteq From("c")
      BY DEF Taken
  <2> QED BY <2>1, <2>2, <2>3, <2>4 DEF DeviceMoves
<1> QED BY <1>2, DeviceStep

LEMMA AckKeeps == ASSUME IInv, DevAck PROVE IInv'
<1>1. dev' \in Replied(dev, None) /\ dev.mode = "reply"
    BY DEF DevAck, DevStep
<1>2. Outcome(arrived, Taken, dev, {}, dev')
    BY <1>1, AsItIs, RepliedSound
<1>3. UNCHANGED <<script, pend, ctl, seen, arrived>> /\ sent' = sent \cup ({dev'.out} \ {None})
    BY DEF DevAck, DevStep
<1> QED BY <1>2, <1>3, InternalStep

LEMMA TimeoutKeeps == ASSUME IInv, DevTimeout PROVE IInv'
<1>1. dev' = Finish(dev)
    BY DEF DevTimeout, DevStep
<1>2. Outcome(arrived, Taken, dev, {}, dev')
    BY <1>1, AsItIs, FinishSound
<1>3. UNCHANGED <<script, pend, ctl, seen, arrived>> /\ sent' = sent \cup ({dev'.out} \ {None})
    BY DEF DevTimeout, DevStep
<1> QED BY <1>2, <1>3, InternalStep

\* The first stashed message is taken out: it fits where it was.
Pops(d) == [d EXCEPT !.stash = Tail(@)]

LEMMA Popped ==
    ASSUME IInv, dev.stash # << >>
    PROVE  LET d == Pops(dev)
               m == Head(dev.stash)
           IN  /\ Sound(arrived, Taken, d) /\ Control(d) /\ Fits(arrived, d, m)
               /\ d.mode = dev.mode /\ d.out = dev.out /\ d.evicted = dev.evicted
               /\ d.cur = dev.cur /\ d.left = dev.left /\ d.deferred = dev.deferred
               /\ m \in Taken /\ m \notin InLine(d) /\ ~Answered(m)
               /\ InLine(dev) \subseteq InLine(d) \cup {m} /\ Buffered(d) \subseteq Buffered(dev)
<1> DEFINE d == Pops(dev)
           m == Head(dev.stash)
           t == Tail(dev.stash)
<1>1. dev \in Device /\ Control(dev) /\ Line(arrived, dev) /\ InLine(dev) \subseteq Taken
    BY DEF IInv, Queued, Typed
<1>2. dev.stash \in Seq(Messages)
    BY <1>1 DEF Device
<1>3. /\ t \in Seq(Messages) /\ Len(t) = Len(dev.stash) - 1
      /\ ToSet(dev.stash) = ToSet(t) \cup {m}
    BY <1>2, TailFacts
<1>4. Chain(arrived, t) /\ AllAhead(arrived, {m}, ToSet(t))
  <2>1. Chain(arrived, dev.stash)
      BY <1>1 DEF Line
  <2> QED BY <1>2, <2>1, TailFacts
<1>5. d = [dev EXCEPT !.stash = t]
    BY DEF Pops
<1> HIDE DEF d, m, t
<1>6. /\ d \in Device /\ d.stash = t
      /\ d.mode = dev.mode /\ d.out = dev.out /\ d.evicted = dev.evicted
      /\ d.cur = dev.cur /\ d.left = dev.left /\ d.deferred = dev.deferred /\ d.begun = dev.begun
    BY <1>1, <1>3, <1>5 DEF Device
<1>7. /\ Buffered(d) \subseteq Buffered(dev) /\ InLine(d) \subseteq InLine(dev)
      /\ InLine(dev) \subseteq InLine(d) \cup {m} /\ m \in Buffered(dev)
    BY <1>3, <1>6 DEF InLine, Buffered
<1>8. Fits(arrived, d, m)
  <2>1. AllAhead(arrived, ToSet(d.begun) \cup ToSet(d.deferred), {m})
      BY <1>1, <1>3, <1>6 DEF Line, AllAhead, Buffered
  <2> QED BY <1>4, <1>6, <2>1 DEF Fits
<1>9. Line(arrived, d)
  <2>1. AllAhead(arrived, ToSet(d.begun), Buffered(d))
      BY <1>1, <1>6, <1>7 DEF Line, AllAhead
  <2>2. AllAhead(arrived, ToSet(d.deferred), ToSet(d.stash))
      BY <1>1, <1>3, <1>6 DEF Line, AllAhead
  <2> QED BY <1>1, <1>4, <1>6, <2>1, <2>2 DEF Line
<1>10. Control(d)
  <2>1. Len(d.stash) <= StashCap
    <3>1. Len(dev.stash) \in Nat /\ Len(dev.stash) <= StashCap /\ StashCap \in Nat
        BY <1>1, <1>2, Capacities DEF Control
    <3> QED BY <1>3, <1>6, <3>1
  <2> QED BY <1>1, <1>6, <2>1 DEF Control
<1>11. m \notin InLine(d)
  <2>1. \A a \in ToSet(d.begun) \cup ToSet(d.deferred) : a # m
      BY <1>8 DEF Fits, AllAhead, Ahead
  <2>2. \A a \in ToSet(d.stash) : a # m
      BY <1>8 DEF Fits, AllAhead, Ahead
  <2> QED BY <2>1, <2>2 DEF InLine, Buffered
<1>12. m \in Taken /\ ~Answered(m)
    BY <1>1, <1>7 DEF InLine, IInv, Answers
<1> QED BY <1>1, <1>6, <1>7, <1>8, <1>9, <1>10, <1>11, <1>12 DEF Sound, d, m

LEMMA PullKeeps == ASSUME IInv, DevPull PROVE IInv'
<1> DEFINE d == Pops(dev)
           m == Head(dev.stash)
<1>1. dev' = Status(d, m) /\ dev.mode = "status" /\ dev.stash # << >>
    BY DEF DevPull, DevStep, Pops
<1>2. /\ Sound(arrived, Taken, d) /\ Control(d) /\ Fits(arrived, d, m)
      /\ d.mode = dev.mode /\ d.out = dev.out /\ d.evicted = dev.evicted
      /\ m \in Taken /\ m \notin InLine(d) /\ ~Answered(m)
      /\ InLine(dev) \subseteq InLine(d) \cup {m} /\ Buffered(d) \subseteq Buffered(dev)
    BY <1>1, Popped
<1> HIDE DEF d, m
<1>3. d.mode = "status" /\ Chunked(d.cur.op) /\ d.left > 0
    BY <1>1, <1>2 DEF Control
<1>4. Outcome(arrived, Taken, d, {m}, dev')
    BY <1>1, <1>2, <1>3, AsItIs, StatusSound
<1>5. UNCHANGED <<script, pend, ctl, seen, arrived>> /\ sent' = sent \cup ({dev'.out} \ {None})
    BY DEF DevPull, DevStep
<1>6. {m} \subseteq Taken /\ \A r \in {m} : ~Answered(r)
    BY <1>2
<1> QED BY <1>2, <1>4, <1>5, <1>6, InternalStep

LEMMA DrainKeeps == ASSUME IInv, Drain PROVE IInv'
<1>0. UNCHANGED <<script, pend, ctl, seen, arrived>> /\ sent' = sent \cup ({dev'.out} \ {None})
    BY DEF Drain, DevStep
<1>1. CASE dev.stash = << >>
  <2>1. dev' = [dev EXCEPT !.mode = "loop"] /\ dev.mode = "drain"
      BY <1>1 DEF Drain, DevStep
  <2>2. /\ dev' \in Device /\ dev'.mode = "loop" /\ dev'.out = dev.out
        /\ dev'.begun = dev.begun /\ dev'.deferred = dev.deferred /\ dev'.stash = dev.stash
        /\ dev'.evicted = dev.evicted
      BY <2>1, AsItIs DEF Device
  <2>3. Sound(arrived, Taken, dev) /\ Changes(dev, {}, dev)
      BY AsItIs DEF Changes
  <2>4. Sound(arrived, Taken, dev') /\ Changes(dev, {}, dev')
      BY <2>2, <2>3, SameLine
  <2>5. Control(dev')
      BY <1>1, <2>1, <2>2, AsItIs DEF Control
  <2>6. Outcome(arrived, Taken, dev, {}, dev')
      BY <2>2, <2>4, <2>5 DEF Outcome
  <2> QED BY <1>0, <2>6, InternalStep
<1>2. CASE dev.stash # << >>
  <2> DEFINE d == Pops(dev)
             m == Head(dev.stash)
  <2>1. dev' \in Serve(d, m) /\ dev.mode = "drain"
      BY <1>2 DEF Drain, DevStep, Pops
  <2>2. /\ Sound(arrived, Taken, d) /\ Control(d) /\ Fits(arrived, d, m)
        /\ d.mode = dev.mode /\ d.out = dev.out /\ d.evicted = dev.evicted
        /\ m \in Taken /\ m \notin InLine(d) /\ ~Answered(m)
        /\ InLine(dev) \subseteq InLine(d) \cup {m} /\ Buffered(d) \subseteq Buffered(dev)
      BY <1>2, Popped
  <2> HIDE DEF d, m
  <2>3. d.deferred = << >> /\ Len(d.stash) <= StashCap
      BY <2>1, <2>2 DEF Control
  <2>4. Outcome(arrived, Taken, d, {m}, dev')
      BY <2>1, <2>2, <2>3, AsItIs, ServeSound
  <2>5. {m} \subseteq Taken /\ \A r \in {m} : ~Answered(r)
      BY <2>2
  <2> QED BY <1>0, <2>2, <2>4, <2>5, InternalStep
<1> QED BY <1>1, <1>2

\* The message read: what it is to the line.
LEMMA Fresh ==
    ASSUME IInv, NEW m \in From("c"), m.n \notin seen["d"]
    PROVE  /\ m \notin Taken /\ m \notin InLine(dev) /\ ~Answered(m)
           /\ \A k \in DOMAIN arrived : arrived[k] # m
           /\ dev.mode \in {"reply", "status"} /\ m.ex = dev.cur.ex => ~Opens(m)
<1>1. m \notin Taken
    BY DEF Taken
<1>2. m \notin InLine(dev) /\ \A k \in DOMAIN arrived : arrived[k] # m
    BY <1>1 DEF IInv, Queued
<1>3. ~Answered(m)
  <2> SUFFICES ASSUME NEW r \in From("d"), r.to = m.n PROVE FALSE
      BY DEF Answered
  <2>1. PICK t \in Taken : t.n = m.n
      BY DEF IInv, Answers
  <2>2. t \in From("c")
      BY <2>1 DEF Taken
  <2>3. t = m
      BY <2>1, <2>2 DEF IInv, Numbered
  <2> QED BY <1>1, <2>1, <2>3
<1>4. ASSUME dev.mode \in {"reply", "status"}, m.ex = dev.cur.ex, Opens(m) PROVE FALSE
  <2>1. dev.cur \in Taken /\ dev.cur \in sent
      BY <1>4 DEF IInv, Queued, Control, InLine, Taken, From
  <2>2. \E o \in Taken : o.ex = m.ex /\ Opens(o)
    <3>1. CASE Opens(dev.cur)
        BY <1>4, <2>1, <3>1
    <3>2. CASE ~Opens(dev.cur)
        BY <1>4, <2>1, <3>2 DEF IInv, OpenerFirst
    <3> QED BY <3>1, <3>2
  <2>3. PICK o \in Taken : o.ex = m.ex /\ Opens(o)
      BY <2>2
  <2>4. o \in From("c")
      BY DEF Taken
  <2>5. o = m
      BY <1>4, <2>3, <2>4 DEF IInv, Opened
  <2> QED BY <1>1, <2>3, <2>5
<1> QED BY <1>1, <1>2, <1>3, <1>4

\* The device with m in hand, and the requests that have arrived with it.
Reads(m) == [dev EXCEPT !.pend = <<m.ex, m.n>>]
Arrives(m) == IF Opens(m) THEN Append(arrived, m) ELSE arrived

LEMMA ReadFacts ==
    ASSUME IInv, NEW m \in From("c")
    PROVE  LET d == Reads(m)
           IN  /\ d \in Device /\ Control(d) /\ Sound(arrived, Taken, d)
               /\ d.mode = dev.mode /\ d.out = dev.out /\ d.evicted = dev.evicted
               /\ d.cur = dev.cur /\ d.left = dev.left /\ d.stash = dev.stash
               /\ InLine(d) = InLine(dev) /\ Buffered(d) = Buffered(dev)
<1> DEFINE p == <<m.ex, m.n>>
           d == [dev EXCEPT !.pend = p]
<1>1. p \in Nat \X Nat
  <2>1. m \in Messages
      BY DEF IInv, Typed, From
  <2> QED BY <2>1 DEF Messages
<1> HIDE DEF p
<1>2. /\ d \in Device
      /\ d.mode = dev.mode /\ d.out = dev.out /\ d.evicted = dev.evicted
      /\ d.cur = dev.cur /\ d.left = dev.left /\ d.deferred = dev.deferred
      /\ d.stash = dev.stash /\ d.begun = dev.begun
    BY <1>1, AsItIs DEF Device
<1>3. Reads(m) = d
    BY DEF Reads, p
<1> HIDE DEF d
<1>4. Sound(arrived, Taken, dev) /\ Changes(dev, {}, dev)
    BY AsItIs DEF Changes
<1>5. Sound(arrived, Taken, d) /\ InLine(d) = InLine(dev) /\ Buffered(d) = Buffered(dev)
    BY <1>2, <1>4, SameLine
<1>6. Control(d)
    BY <1>2, AsItIs DEF Control
<1> QED BY <1>2, <1>3, <1>5, <1>6

\* A message that comes for the first time goes to the end of the line, or
\* opens nothing, and then goes anywhere.
LEMMA Joins ==
    ASSUME IInv, NEW m \in From("c"), m.n \notin seen["d"]
    PROVE  LET d == Reads(m)
               arr == Arrives(m)
           IN  /\ Sound(arr, Taken \cup {m}, d)
               /\ AllAhead(arr, InLine(d), {m})
               /\ d.stash = << >> => Fits(arr, d, m)
               /\ d.mode \in {"reply", "status"} /\ m.ex = d.cur.ex => Fits(arr, d, m)
<1> DEFINE d == Reads(m)
           arr == Arrives(m)
<1>0. m \in Messages /\ arrived \in Seq(Messages)
    BY DEF IInv, Typed, From
<1>1. /\ m \notin Taken /\ m \notin InLine(dev)
      /\ \A k \in DOMAIN arrived : arrived[k] # m
      /\ dev.mode \in {"reply", "status"} /\ m.ex = dev.cur.ex => ~Opens(m)
    BY Fresh
<1>2. /\ d \in Device /\ Sound(arrived, Taken, d)
      /\ d.mode = dev.mode /\ d.cur = dev.cur /\ InLine(d) = InLine(dev)
    BY ReadFacts
<1>3. /\ \A a, b : a # m /\ b # m /\ Ahead(arrived, a, b) => Ahead(arr, a, b)
      /\ \A a : a # m => Ahead(arr, a, m)
      /\ ~Opens(m) => \A a : a # m => Ahead(arr, m, a)
  <2>1. /\ \A a, b : a # m /\ b # m /\ Ahead(arrived, a, b) => Ahead(Append(arrived, m), a, b)
        /\ \A a : a # m => Ahead(Append(arrived, m), a, m)
        /\ \A a : a # m => Ahead(arrived, a, m) /\ Ahead(arrived, m, a)
      BY <1>0, <1>1, Arrival
  <2>2. CASE Opens(m)
    <3>1. arr = Append(arrived, m)
        BY <2>2 DEF Arrives
    <3> QED BY <2>1, <2>2, <3>1
  <2>3. CASE ~Opens(m)
    <3>1. arr = arrived
        BY <2>3 DEF Arrives
    <3> QED BY <2>1, <3>1
  <2> QED BY <2>2, <2>3
<1> HIDE DEF d, arr
<1>4. /\ \A s : Chain(arrived, s) /\ m \notin ToSet(s) => Chain(arr, s)
      /\ \A A, B : AllAhead(arrived, A, B) /\ m \notin A /\ m \notin B => AllAhead(arr, A, B)
    BY <1>3, StillChained
<1>5. /\ m \notin ToSet(d.begun) /\ m \notin ToSet(d.deferred) /\ m \notin ToSet(d.stash)
      /\ m \notin Buffered(d)
    BY <1>1, <1>2 DEF InLine, Buffered
<1>6. Line(arr, d)
    BY <1>2, <1>4, <1>5 DEF Sound, Line
<1>7. Sound(arr, Taken \cup {m}, d)
    BY <1>2, <1>6 DEF Sound
<1>8. AllAhead(arr, InLine(d), {m})
    BY <1>1, <1>2, <1>3 DEF AllAhead
<1>9. AllAhead(arr, ToSet(d.begun) \cup ToSet(d.deferred), {m})
    BY <1>8 DEF AllAhead, InLine, Buffered
<1>10. ASSUME d.stash = << >> PROVE Fits(arr, d, m)
  <2>1. ToSet(d.stash) = {}
      BY <1>10 DEF ToSet
  <2> QED BY <1>9, <2>1 DEF Fits, AllAhead
<1>11. ASSUME ~Opens(m) PROVE Fits(arr, d, m)
  <2>1. AllAhead(arr, {m}, ToSet(d.stash))
      BY <1>3, <1>5, <1>11 DEF AllAhead
  <2> QED BY <1>9, <2>1 DEF Fits
<1> QED BY <1>1, <1>2, <1>7, <1>8, <1>10, <1>11 DEF d, arr

LEMMA ArrivesOnce ==
    ASSUME IInv, NEW m \in From("c"), m.n \notin seen["d"]
    PROVE  LET arr == Arrives(m)
           IN  /\ arr \in Seq(Messages)
               /\ \A k \in DOMAIN arr : arr[k] \in Taken \cup {m} /\ Opens(arr[k])
               /\ \A k, l \in DOMAIN arr : arr[k] = arr[l] => k = l
<1> DEFINE arr == Arrives(m)
<1>1. m \in Messages /\ arrived \in Seq(Messages) /\ \A k \in DOMAIN arrived : arrived[k] # m
    BY Fresh DEF IInv, Typed, From
<1>2. /\ \A k \in DOMAIN arrived : arrived[k] \in Taken /\ Opens(arrived[k])
      /\ \A k, l \in DOMAIN arrived : arrived[k] = arrived[l] => k = l
    BY DEF IInv, Queued
<1>3. CASE ~Opens(m)
    BY <1>1, <1>2, <1>3 DEF Arrives
<1>4. CASE Opens(m)
  <2>1. arr = Append(arrived, m)
      BY <1>4 DEF Arrives
  <2>2. /\ Append(arrived, m) \in Seq(Messages) /\ Len(arrived) \in Nat
        /\ DOMAIN Append(arrived, m) = 1 .. Len(arrived) + 1 /\ DOMAIN arrived = 1 .. Len(arrived)
        /\ \A i \in 1 .. Len(arrived) : Append(arrived, m)[i] = arrived[i]
        /\ Append(arrived, m)[Len(arrived) + 1] = m
      BY <1>1
  <2> HIDE DEF arr
  <2>3. ASSUME NEW k \in DOMAIN arr
        PROVE  \/ k = Len(arrived) + 1 /\ arr[k] = m
               \/ k \in DOMAIN arrived /\ arr[k] = arrived[k]
      BY <2>1, <2>2, <2>3
  <2>4. \A k \in DOMAIN arr : arr[k] \in Taken \cup {m} /\ Opens(arr[k])
    <3> SUFFICES ASSUME NEW k \in DOMAIN arr PROVE arr[k] \in Taken \cup {m} /\ Opens(arr[k])
        OBVIOUS
    <3>1. CASE arr[k] = m
        BY <1>4, <3>1
    <3>2. CASE k \in DOMAIN arrived /\ arr[k] = arrived[k]
        BY <1>2, <3>2
    <3> QED BY <2>3, <3>1, <3>2
  <2>5. \A k, l \in DOMAIN arr : arr[k] = arr[l] => k = l
      BY <1>1, <1>2, <2>3
  <2> QED BY <2>1, <2>2, <2>4, <2>5 DEF arr
<1> QED BY <1>3, <1>4

\* A message the device has taken before changes at most whether a reply has
\* been acknowledged.
LEMMA RepeatKeeps ==
    ASSUME IInv, NEW m \in From("c"), DevReceive(m), m.n \in seen["d"]
    PROVE  IInv'
<1> DEFINE d == Reads(m)
<1>1. /\ UNCHANGED <<script, pend, ctl, arrived>> /\ sent' = sent \cup ({dev'.out} \ {None})
      /\ seen' = [seen EXCEPT !["d"] = @ \cup {m.n}]
    BY DEF DevReceive, DevStep, Deliver
<1>2. /\ d \in Device /\ Control(d) /\ Sound(arrived, Taken, d)
      /\ d.mode = dev.mode /\ d.out = dev.out /\ d.evicted = dev.evicted
      /\ InLine(d) = InLine(dev) /\ Buffered(d) = Buffered(dev)
    BY ReadFacts
<1>3. \/ dev' \in WhileReplying(d, m, FALSE) /\ d.mode = "reply"
      \/ dev' = d
    BY <1>2 DEF DevReceive, DevStep, Reads
<1> HIDE DEF d
<1>4. m \in Taken
    BY DEF Taken
<1>5. Outcome(arrived, Taken, d, {}, dev')
  <2>1. CASE dev' \in WhileReplying(d, m, FALSE) /\ d.mode = "reply"
    <3>1. Outcome(arrived, Taken, d, IF FALSE THEN {m} ELSE {}, dev')
        BY <1>2, <1>4, <2>1, AsItIs, ReplyingSound
    <3> QED BY <3>1
  <2>2. CASE dev' = d
      BY <1>2, <2>2 DEF Outcome, Changes
  <2> QED BY <1>3, <2>1, <2>2
<1>6. seen' = seen
    BY <1>1 DEF IInv, Typed
<1> QED BY <1>1, <1>2, <1>5, <1>6, InternalStep

LEMMA FirstKeeps ==
    ASSUME IInv, NEW m \in From("c"), DevReceive(m), m.n \notin seen["d"]
    PROVE  IInv'
<1> DEFINE d == Reads(m)
           arr == Arrives(m)
           T == Taken \cup {m}
<1>1. /\ UNCHANGED <<script, pend, ctl>> /\ sent' = sent \cup ({dev'.out} \ {None})
      /\ seen' = [seen EXCEPT !["d"] = @ \cup {m.n}] /\ arrived' = arr
      /\ dev.mode \in {"loop", "reply"} \/ (dev.mode = "status" /\ dev.stash = << >>)
    BY DEF DevReceive, DevStep, Deliver, Arrives
<1>2. /\ d \in Device /\ Control(d)
      /\ d.mode = dev.mode /\ d.out = dev.out /\ d.evicted = dev.evicted
      /\ d.stash = dev.stash /\ InLine(d) = InLine(dev) /\ Buffered(d) = Buffered(dev)
    BY ReadFacts
<1>3. /\ Sound(arr, T, d) /\ AllAhead(arr, InLine(d), {m})
      /\ d.stash = << >> => Fits(arr, d, m)
      /\ d.mode \in {"reply", "status"} /\ m.ex = d.cur.ex => Fits(arr, d, m)
    BY Joins
<1>4. \/ dev' \in WhileReplying(d, m, TRUE) /\ d.mode = "reply"
      \/ dev' \in Serve(d, m) /\ d.mode = "loop"
      \/ dev' = Status(d, m) /\ d.mode = "status"
    BY <1>1, <1>2 DEF DevReceive, DevStep, Reads
<1>5. /\ arr \in Seq(Messages)
      /\ \A k \in DOMAIN arr : arr[k] \in T /\ Opens(arr[k])
      /\ \A k, l \in DOMAIN arr : arr[k] = arr[l] => k = l
    BY ArrivesOnce
<1>6. m \notin InLine(d) /\ ~Answered(m)
    BY <1>2, Fresh
<1>7. m \in Messages /\ m.n \in Nat
  <2>1. m \in Messages
      BY DEF IInv, Typed, From
  <2> QED BY <2>1 DEF Messages
<1>8. T \in SUBSET Messages /\ Proper(T)
  <2>1. T \subseteq From("c") /\ From("c") \subseteq Messages
      BY DEF IInv, Typed, Taken, From
  <2> QED BY <2>1, ProperMessages DEF Proper
<1>9. {r \in From("c") : r.n \in seen'["d"]} = T
  <2>1. seen'["d"] = seen["d"] \cup {m.n}
      BY <1>1 DEF IInv, Typed
  <2>2. \A r \in From("c") : r.n = m.n => r = m
      BY DEF IInv, Numbered
  <2> QED BY <2>1, <2>2 DEF Taken
<1>10. /\ seen' \in [{"c", "d"} -> SUBSET Nat] /\ seen'["c"] = seen["c"]
       /\ \A k \in seen'["d"] : \E r \in From("c") : r.n = k
    BY <1>1, <1>7 DEF IInv, Typed, Numbered
<1> HIDE DEF d, arr, T
<1>11. Typed /\ m \in T
    BY DEF IInv, T
<1>12. Outcome(arr, T, d, {m}, dev')
  <2>1. CASE dev' \in WhileReplying(d, m, TRUE) /\ d.mode = "reply"
    <3>1. Outcome(arr, T, d, IF TRUE THEN {m} ELSE {}, dev')
        BY <1>2, <1>3, <1>6, <1>8, <1>11, <2>1, ReplyingSound
    <3> QED BY <3>1
  <2>2. CASE dev' \in Serve(d, m) /\ d.mode = "loop"
    <3>1. d.deferred = << >> /\ d.stash = << >> /\ Len(d.stash) <= StashCap
        BY <1>2, <2>2 DEF Control
    <3> QED BY <1>3, <1>6, <1>8, <1>11, <2>2, <3>1, ServeSound
  <2>3. CASE dev' = Status(d, m) /\ d.mode = "status"
    <3>1. d.stash = << >> /\ Chunked(d.cur.op) /\ d.left > 0
        BY <1>1, <1>2, <2>3 DEF Control
    <3>2. Outcome(arr, T, d, {m}, Status(d, m))
        BY <1>2, <1>3, <1>6, <1>8, <1>11, <2>3, <3>1, StatusSound
    <3> QED BY <2>3, <3>2
  <2> QED BY <1>4, <2>1, <2>2, <2>3
<1>13. DeviceMoves(d, {m})
    BY <1>1, <1>2, <1>5, <1>6, <1>9, <1>10, <1>12 DEF DeviceMoves, T
<1> QED BY <1>13, DeviceStep

LEMMA ReceiveKeeps == ASSUME IInv, NEW m \in sent, DevReceive(m) PROVE IInv'
<1>1. m \in From("c")
    BY DEF DevReceive, From
<1> QED BY <1>1, RepeatKeeps, FirstKeeps

-----------------------------------------------------------------------------
(* The steps of the controller                                             *)

\* What they leave alone.
ControllerOnly ==
    /\ UNCHANGED <<script, dev, arrived>>
    /\ seen' \in [{"c", "d"} -> SUBSET Nat] /\ seen'["d"] = seen["d"]
    /\ seen["c"] \subseteq seen'["c"]
    /\ pend' \in Nat \X Nat

Calls == [st : {"new", "wait", "done", "failed"}, n : Nat, op : Ops \cup {"None"}, right : BOOLEAN]

\* An answer is on an exchange the controller has opened.
LEMMA OnOpen ==
    ASSUME IInv, NEW r \in From("d")
    PROVE  r.ex \in Exchanges /\ ctl[r.ex].st # "new"
<1>1. PICK m \in Taken : m.ex = r.ex
    BY DEF IInv, Answers
<1>2. m \in From("c")
    BY DEF Taken
<1> QED BY <1>1, <1>2 DEF IInv, Opened

\* A step that sends nothing: a call goes on as it was, or ends.
LEMMA CallsEnd ==
    ASSUME IInv, ControllerOnly, sent' = sent, ctl' \in [Exchanges -> Calls],
           \A x \in Exchanges :
              /\ ctl'[x].n = ctl[x].n /\ ctl'[x].op = ctl[x].op /\ ctl'[x].right
              /\ ctl'[x].st = "wait" => ctl[x].st = "wait"
              /\ ctl'[x].st = "new" => ctl[x].st = "new"
    PROVE  IInv'
<1>1. From("c")' = From("c") /\ From("d")' = From("d")
    BY DEF From
<1>2. UNCHANGED <<script, dev, arrived>> /\ Exchanges' = Exchanges
    BY DEF ControllerOnly, Exchanges
<1>3. Taken' = Taken /\ \A m : Answered(m)' <=> Answered(m)
    BY <1>1 DEF ControllerOnly, Taken, Answered
<1>4. \A m \in From("c") : m.ex \in Exchanges
    BY DEF IInv, Opened
<1>5. Typed'
    BY <1>2 DEF IInv, Typed, ControllerOnly, Calls
<1>6. Numbered'
    BY <1>1 DEF IInv, Numbered, ControllerOnly
<1>7. Opened'
    BY <1>1, <1>2 DEF IInv, Opened, Opens
<1>8. OpenerFirst'
    BY <1>2, <1>3 DEF IInv, OpenerFirst, Opens
<1>9. Queued'
    BY <1>1, <1>2, <1>3 DEF IInv, Queued, Opens
<1>10. Answers'
    BY <1>1, <1>2, <1>3 DEF IInv, Answers
<1>11. Awaited'
  <2>1. ASSUME NEW m \in From("c") PROVE m.n = ctl'[m.ex].n \/ Answered(m)
      BY <1>4, <2>1 DEF IInv, Awaited
  <2>2. ASSUME NEW r \in From("d"), ctl'[r.ex].st = "wait", r.n \notin seen'["c"]
        PROVE  r.to = ctl'[r.ex].n
      BY <2>2, OnOpen DEF IInv, Awaited, Waiting, ControllerOnly
  <2>3. AnswerIsOurs'
      BY <1>2 DEF AnswerIsOurs
  <2> QED BY <1>1, <1>3, <2>1, <2>2, <2>3 DEF Awaited, Waiting
<1> QED BY <1>5, <1>6, <1>7, <1>8, <1>9, <1>10, <1>11 DEF IInv

LEMMA CtlTimeoutKeeps == ASSUME IInv, CtlTimeout PROVE IInv'
<1>1. ctl \in [Exchanges -> Calls] /\ \A x \in Exchanges : ctl[x].right
    BY DEF IInv, Typed, Calls, Awaited, AnswerIsOurs
<1>2. ctl' = [x \in Exchanges |-> IF Waiting(x) THEN [ctl[x] EXCEPT !.st = "failed"] ELSE ctl[x]]
    BY DEF CtlTimeout
<1>3. ASSUME NEW x \in Exchanges
      PROVE  /\ ctl'[x] \in Calls
             /\ ctl'[x].n = ctl[x].n /\ ctl'[x].op = ctl[x].op /\ ctl'[x].right = ctl[x].right
             /\ ctl'[x].st \in {ctl[x].st, "failed"}
  <2>1. ctl[x] \in Calls
      BY <1>1
  <2>2. ctl'[x] = ctl[x] \/ ctl'[x] = [ctl[x] EXCEPT !.st = "failed"]
      BY <1>2
  <2>3. CASE ctl'[x] = ctl[x]
      BY <2>1, <2>3
  <2>4. CASE ctl'[x] = [ctl[x] EXCEPT !.st = "failed"]
      BY <2>1, <2>4 DEF Calls
  <2> QED BY <2>2, <2>3, <2>4
<1>4. ctl' \in [Exchanges -> Calls]
  <2>1. \A x \in Exchanges : ctl'[x] \in Calls
      BY <1>3
  <2> QED BY <1>2, <2>1
<1>5. ControllerOnly /\ sent' = sent
    BY DEF CtlTimeout, ControllerOnly, IInv, Typed
<1>6. \A x \in Exchanges :
         /\ ctl'[x].n = ctl[x].n /\ ctl'[x].op = ctl[x].op /\ ctl'[x].right
         /\ ctl'[x].st = "wait" => ctl[x].st = "wait"
         /\ ctl'[x].st = "new" => ctl[x].st = "new"
    BY <1>1, <1>3
<1> QED BY <1>4, <1>5, <1>6, CallsEnd

\* What the controller may send next on exchange x: the request that opens it,
\* or what follows when the device has that.
MayFollow(x, op) ==
    \/ op = script.open[x] /\ ctl[x].st = "new"
    \/ /\ \/ script.open[x] = "Timed" /\ op = "Invoke"
          \/ Chunked(script.open[x]) /\ op = "Status"
       /\ \E o \in Taken : o.ex = x /\ Opens(o)

LEMMA SendKeeps ==
    ASSUME IInv, ControllerOnly, NEW x \in Exchanges, NEW op \in Ops, NEW p, NEW ack \in Nat,
           NEW right \in BOOLEAN, right, CtlSend(x, op, p, ack, right), MayFollow(x, op),
           \A m \in From("c") : m.ex = x => Answered(m),
           \A r \in From("d") : r.ex = x => r.n \in seen'["c"]
    PROVE  IInv'
<1> DEFINE m == Message("c", x, op, ack, 0, TRUE)
           call == [st |-> "wait", n |-> m.n, op |-> op, right |-> right]
<1>1. /\ sent' = sent \cup {m} /\ ctl' = [ctl EXCEPT ![x] = call]
    BY DEF CtlSend
<1>2. x \in Nat /\ Typed /\ Numbered
  <2>1. script.open \in Seq(Requests)
      BY SessionAssumption DEF IInv, Typed
  <2> QED BY <2>1 DEF Exchanges, IInv
<1>3. Added("c", x, op, 0, TRUE, m)
    BY <1>1, <1>2, Grows
<1>4. call.st = "wait" /\ call.n = m.n /\ call.op = op /\ call.right = right
    OBVIOUS
<1> HIDE DEF m
<1>5. /\ m \in Messages /\ m \notin sent /\ m.from = "c" /\ m.ex = x /\ m.op = op
      /\ \A r \in From("c") : r.n # m.n
      /\ sent' \in SUBSET Messages /\ IsFiniteSet(sent')
      /\ From("c")' = From("c") \cup {m} /\ From("d")' = From("d")
    BY <1>3 DEF Added
<1>6. call \in Calls
  <2>1. m.n \in Nat
      BY <1>5 DEF Messages
  <2> QED BY <2>1 DEF Calls
<1> HIDE DEF call
<1>7. /\ ctl' \in [Exchanges -> Calls] /\ ctl'[x] = call
      /\ \A y \in Exchanges : y # x => ctl'[y] = ctl[y]
  <2>1. ctl \in [Exchanges -> Calls]
      BY DEF IInv, Typed, Calls
  <2> QED BY <1>1, <1>6, <2>1
<1>8. UNCHANGED <<script, dev, arrived>> /\ Exchanges' = Exchanges /\ seen'["d"] = seen["d"]
    BY DEF ControllerOnly, Exchanges
<1>9. Taken' = Taken /\ \A r : Answered(r)' <=> Answered(r)
  <2>1. m.n \notin seen["d"]
      BY <1>5 DEF IInv, Numbered
  <2> QED BY <1>5, <1>8, <2>1 DEF Taken, Answered
<1>10. Typed'
    BY <1>5, <1>7, <1>8 DEF IInv, Typed, ControllerOnly, Calls
<1>11. Numbered'
  <2>1. \A f \in {"c", "d"} : \A r \in From(f)' :
            /\ r.n \in 1 .. Cardinality(From(f)')
            /\ \A s \in From(f)' : s.n = r.n => s = r
      BY <1>3 DEF Added
  <2>2. \A k \in seen["d"] : \E r \in From("c")' : r.n = k
      BY <1>5 DEF IInv, Numbered
  <2> QED BY <1>8, <2>1, <2>2 DEF Numbered
<1>12. \A r : Opens(r)' <=> Opens(r)
    BY <1>8 DEF Opens
<1>13. Opened'
  <2>1. ASSUME NEW r \in From("c")'
        PROVE  /\ r.ex \in Exchanges /\ ctl'[r.ex].st # "new"
               /\ \/ Opens(r)
                  \/ script.open[r.ex] = "Timed" /\ r.op = "Invoke"
                  \/ Chunked(script.open[r.ex]) /\ r.op = "Status"
    <3>1. CASE r \in From("c")
        BY <1>4, <1>7, <3>1 DEF IInv, Opened
    <3>2. CASE r = m
        BY <1>4, <1>5, <1>7, <3>2 DEF MayFollow, Opens
    <3> QED BY <1>5, <2>1, <3>1, <3>2
  <2>2. ASSUME NEW r \in From("c"), r.ex = x, Opens(m) PROVE FALSE
    <3>1. ctl[x].st # "new"
        BY <2>2 DEF IInv, Opened
    <3> QED BY <1>5, <2>2, <3>1 DEF MayFollow, Opens, Chunked
  <2>3. ASSUME NEW r \in From("c")', NEW s \in From("c")', r.ex = s.ex, Opens(r), Opens(s)
        PROVE  r = s
      BY <1>5, <2>2, <2>3 DEF IInv, Opened
  <2>4. ASSUME NEW y \in Exchanges, ctl'[y].op = "Timed" PROVE script.open[y] = "Timed"
    <3>1. CASE y = x
        BY <1>4, <1>7, <2>4, <3>1 DEF MayFollow
    <3>2. CASE y # x
        BY <1>7, <2>4, <3>2 DEF IInv, Opened
    <3> QED BY <3>1, <3>2
  <2>5. \A r \in From("d")' : ~r.last => Chunked(script.open[r.ex])
      BY <1>5 DEF IInv, Opened
  <2> QED BY <1>8, <1>12, <2>1, <2>3, <2>4, <2>5 DEF Opened
<1>14. OpenerFirst'
  <2>1. ASSUME NEW r \in sent', r.from = "d" \/ ~Opens(r)
        PROVE  \E o \in Taken : o.ex = r.ex /\ Opens(o)
    <3>1. CASE r \in sent
        BY <2>1, <3>1 DEF IInv, OpenerFirst
    <3>2. CASE r = m
        BY <1>5, <2>1, <3>2 DEF MayFollow, Opens
    <3> QED BY <1>1, <2>1, <3>1, <3>2
  <2> QED BY <1>9, <1>12, <2>1 DEF OpenerFirst
<1>15. Queued'
    BY <1>5, <1>8, <1>9, <1>12 DEF IInv, Queued
<1>16. Answers'
    BY <1>5, <1>8, <1>9 DEF IInv, Answers
<1>17. Awaited'
  <2>1. ASSUME NEW r \in From("c")' PROVE r.n = ctl'[r.ex].n \/ Answered(r)
    <3>1. CASE r = m
        BY <1>4, <1>5, <1>7, <3>1
    <3>2. CASE r \in From("c") /\ r.ex = x
        BY <3>2
    <3>3. CASE r \in From("c") /\ r.ex # x
        BY <1>7, <3>3 DEF IInv, Awaited, Opened
    <3> QED BY <1>5, <2>1, <3>1, <3>2, <3>3
  <2>2. ASSUME NEW r \in From("d"), ctl'[r.ex].st = "wait", r.n \notin seen'["c"]
        PROVE  r.to = ctl'[r.ex].n
    <3>1. r.ex \in Exchanges /\ r.ex # x
        BY <2>2, OnOpen
    <3> QED BY <1>7, <2>2, <3>1 DEF IInv, Awaited, Waiting, ControllerOnly
  <2>3. AnswerIsOurs'
    <3>1. \A y \in Exchanges : ctl'[y].right
        BY <1>4, <1>7 DEF IInv, Awaited, AnswerIsOurs
    <3> QED BY <1>8, <3>1 DEF AnswerIsOurs
  <2> QED BY <1>5, <1>9, <2>1, <2>2, <2>3 DEF Awaited, Waiting
<1> QED BY <1>10, <1>11, <1>13, <1>14, <1>15, <1>16, <1>17 DEF IInv

LEMMA RequestKeeps == ASSUME IInv, NEW x \in Exchanges, Request(x) PROVE IInv'
<1>1. PICK ack \in {0} \cup (IF Pipelining > 1 THEN {pend[2]} ELSE {}) :
         CtlSend(x, script.open[x], pend, ack, TRUE)
    BY DEF Request
<1>2. ctl[x].st = "new" /\ UNCHANGED <<script, seen, dev, arrived>>
    BY DEF Request
<1>3. pend \in Nat \X Nat
    BY DEF IInv, Typed
<1>4. ack \in Nat
    BY <1>3
<1>5. script.open[x] \in Ops
  <2>1. script.open \in Seq(Requests)
      BY SessionAssumption DEF IInv, Typed
  <2>2. script.open[x] \in Requests
      BY <2>1 DEF Exchanges
  <2> QED BY <2>2 DEF Ops
<1>6. ControllerOnly
  <2>1. pend' = Consumed(pend, ack)
      BY <1>1 DEF CtlSend
  <2>2. pend' \in Nat \X Nat
      BY <1>3, <2>1 DEF Consumed, NoAck
  <2> QED BY <1>2, <2>2 DEF ControllerOnly, IInv, Typed
<1>7. /\ \A m \in From("c") : m.ex = x => Answered(m)
      /\ \A r \in From("d") : r.ex = x => r.n \in seen'["c"]
    BY <1>2, OnOpen DEF IInv, Opened
<1>8. MayFollow(x, script.open[x])
    BY <1>2 DEF MayFollow
<1> QED BY <1>1, <1>4, <1>5, <1>6, <1>7, <1>8, SendKeeps

\* A call that takes the message m for its answer: it is the answer to what
\* the call sent last, and there is no other.
LEMMA AcceptKeeps ==
    ASSUME IInv, NEW m \in From("d"), CtlReceive(m), m.n \notin seen["c"], Waiting(m.ex)
    PROVE  IInv'
<1> DEFINE x == m.ex
           p == <<x, m.n>>
           right == ctl[x].right /\ m.to = ctl[x].n
<1>1. CtlAccept(m) /\ UNCHANGED <<script, dev, arrived>> /\ seen' = [seen EXCEPT !["c"] = @ \cup {m.n}]
    BY DEF CtlReceive, Deliver
<1>2. m \in Messages /\ m.n \in Nat /\ m.ex \in Nat /\ m \in sent /\ m.from = "d" /\ m.last \in BOOLEAN
  <2>1. m \in Messages /\ m \in sent /\ m.from = "d"
      BY DEF IInv, Typed, From
  <2> QED BY <2>1 DEF Messages
<1>3. x \in Exchanges
    BY OnOpen
<1>4. m.to = ctl[x].n /\ ctl[x].right /\ \A y \in Exchanges : ctl[y].right
    BY <1>3 DEF IInv, Awaited, AnswerIsOurs
<1>5. right /\ right \in BOOLEAN
    BY <1>4
<1>6. /\ seen' \in [{"c", "d"} -> SUBSET Nat] /\ seen'["d"] = seen["d"]
      /\ seen'["c"] = seen["c"] \cup {m.n}
    BY <1>1, <1>2 DEF IInv, Typed
<1>7. p \in Nat \X Nat
    BY <1>2
<1>8. /\ \A r \in From("c") : r.ex = x => Answered(r)
      /\ \A r \in From("d") : r.ex = x => r.n \in seen'["c"]
  <2>1. ASSUME NEW r \in From("c"), r.ex = x PROVE Answered(r)
      BY <1>4, <2>1 DEF IInv, Awaited, Answered
  <2>2. ASSUME NEW r \in From("d"), r.ex = x, r.n \notin seen["c"] PROVE r = m
    <3>1. r.to = m.to
        BY <1>4, <2>2 DEF IInv, Awaited
    <3> QED BY <3>1 DEF IInv, Answers
  <2> QED BY <1>6, <2>1, <2>2
<1>9. \E o \in Taken : o.ex = x /\ Opens(o)
    BY <1>2 DEF IInv, OpenerFirst
<1>10. \/ ctl[x].op = "Timed" /\ CtlSend(x, "Invoke", p, m.n, right)
       \/ ~m.last /\ CtlSend(x, "Status", p, m.n, right)
       \/ /\ ctl' = [ctl EXCEPT ![x].st = "done", ![x].right = right]
          /\ pend' = p /\ sent' = sent
    BY <1>1, <1>2 DEF CtlAccept
<1> HIDE DEF p, right
<1>11. ASSUME NEW op \in Ops, CtlSend(x, op, p, m.n, right),
              \/ script.open[x] = "Timed" /\ op = "Invoke"
              \/ Chunked(script.open[x]) /\ op = "Status"
       PROVE  IInv'
  <2>1. pend' = Consumed(p, m.n)
      BY <1>11 DEF CtlSend
  <2>2. pend' \in Nat \X Nat
      BY <1>7, <2>1 DEF Consumed, NoAck
  <2>3. ControllerOnly
      BY <1>1, <1>6, <2>2 DEF ControllerOnly
  <2>4. MayFollow(x, op)
      BY <1>9, <1>11 DEF MayFollow
  <2> QED BY <1>2, <1>3, <1>5, <1>8, <1>11, <2>3, <2>4, SendKeeps
<1>12. CASE ctl[x].op = "Timed" /\ CtlSend(x, "Invoke", p, m.n, right)
  <2>1. "Invoke" \in Ops /\ script.open[x] = "Timed"
      BY <1>3, <1>12 DEF Ops, Requests, IInv, Opened
  <2> QED BY <1>11, <1>12, <2>1
<1>13. CASE ~m.last /\ CtlSend(x, "Status", p, m.n, right)
  <2>1. "Status" \in Ops /\ Chunked(script.open[x])
      BY <1>13 DEF Ops, IInv, Opened
  <2> QED BY <1>11, <1>13, <2>1
<1>14. CASE /\ ctl' = [ctl EXCEPT ![x].st = "done", ![x].right = right]
            /\ pend' = p /\ sent' = sent
  <2>1. ControllerOnly
      BY <1>1, <1>6, <1>7, <1>14 DEF ControllerOnly
  <2>2. ctl \in [Exchanges -> Calls]
      BY DEF IInv, Typed, Calls
  <2> DEFINE call == [ctl[x] EXCEPT !.st = "done", !.right = right]
  <2>3. /\ call \in Calls /\ call.st = "done" /\ call.right = right
        /\ call.n = ctl[x].n /\ call.op = ctl[x].op
    <3>1. ctl[x] \in Calls
        BY <1>3, <2>2
    <3> QED BY <1>5, <3>1 DEF Calls
  <2>4. ctl' = [ctl EXCEPT ![x] = call]
      BY <1>3, <1>14, <2>2
  <2> HIDE DEF call
  <2>5. /\ ctl' \in [Exchanges -> Calls] /\ ctl'[x] = call
        /\ \A y \in Exchanges : y # x => ctl'[y] = ctl[y]
      BY <1>3, <2>2, <2>3, <2>4
  <2>6. \A y \in Exchanges :
           /\ ctl'[y].n = ctl[y].n /\ ctl'[y].op = ctl[y].op /\ ctl'[y].right
           /\ ctl'[y].st = "wait" => ctl[y].st = "wait"
           /\ ctl'[y].st = "new" => ctl[y].st = "new"
      BY <1>4, <1>5, <2>3, <2>5
  <2> QED BY <1>14, <2>1, <2>5, <2>6, CallsEnd
<1> QED BY <1>10, <1>12, <1>13, <1>14

LEMMA CtlReceiveKeeps == ASSUME IInv, NEW m \in sent, CtlReceive(m) PROVE IInv'
<1>1. m \in From("d")
    BY DEF CtlReceive, From
<1>2. CASE m.n \notin seen["c"] /\ Waiting(m.ex)
    BY <1>1, <1>2, AcceptKeeps
<1>3. CASE ~(m.n \notin seen["c"] /\ Waiting(m.ex))
  <2>1. /\ pend' = <<m.ex, m.n>> /\ UNCHANGED <<sent, ctl, script, dev, arrived>>
        /\ seen' = [seen EXCEPT !["c"] = @ \cup {m.n}]
      BY <1>3 DEF CtlReceive, Deliver
  <2>2. m.ex \in Nat /\ m.n \in Nat
    <3>1. m \in Messages
        BY DEF IInv, Typed
    <3> QED BY <3>1 DEF Messages
  <2>3. ControllerOnly
      BY <2>1, <2>2 DEF ControllerOnly, IInv, Typed
  <2>4. ctl' \in [Exchanges -> Calls] /\ \A x \in Exchanges : ctl'[x] = ctl[x] /\ ctl'[x].right
      BY <2>1 DEF IInv, Typed, Calls, Awaited, AnswerIsOurs
  <2> QED BY <2>1, <2>3, <2>4, CallsEnd
<1> QED BY <1>2, <1>3

-----------------------------------------------------------------------------
(* The invariant                                                           *)

LEMMA InitHolds == ASSUME Init PROVE IInv
<1>1. From("c") = {} /\ From("d") = {} /\ Taken = {}
    BY DEF Init, From, Taken
<1>2. /\ dev.mode = "loop" /\ dev.out = None /\ dev.begun = << >> /\ dev.deferred = << >>
      /\ dev.stash = << >> /\ dev.evicted = {} /\ dev.cur = None /\ dev.left = 0
      /\ dev.pend = NoAck
    BY DEF Init
<1>3. ToSet(dev.begun) = {} /\ Buffered(dev) = {} /\ InLine(dev) = {}
    BY <1>2 DEF ToSet, Buffered, InLine
<1>4. Typed
  <2>1. dev \in Device
    <3> DEFINE no == None
               p == NoAck
    <3>1. p \in Nat \X Nat
        BY DEF NoAck
    <3>2. dev = [mode |-> "loop", cur |-> no, left |-> 0, out |-> no, deferred |-> << >>,
                 stash |-> << >>, pend |-> p, begun |-> << >>, evicted |-> {}]
        BY DEF Init
    <3>3. \A S : << >> \in Seq(S)
        OBVIOUS
    <3>4. Device = [mode : {"loop", "reply", "status", "drain"}, cur : Messages \cup {no},
                    left : Nat, out : Messages \cup {no}, deferred : Seq(Messages),
                    stash : Seq(Messages), pend : Nat \X Nat, begun : Seq(Messages),
                    evicted : SUBSET Messages]
        BY DEF Device
    <3> HIDE DEF no, p
    <3> QED BY <3>1, <3>2, <3>3, <3>4
  <2>2. ctl \in [Exchanges -> [st : {"new", "wait", "done", "failed"}, n : Nat,
                               op : Ops \cup {"None"}, right : BOOLEAN]]
    <3>1. [st |-> "new", n |-> 0, op |-> "None", right |-> TRUE] \in
              [st : {"new", "wait", "done", "failed"}, n : Nat, op : Ops \cup {"None"}, right : BOOLEAN]
        OBVIOUS
    <3> QED BY <3>1 DEF Init
  <2>3. IsFiniteSet(sent) /\ sent \in SUBSET Messages
      BY FS_EmptySet DEF Init
  <2>4. arrived \in Seq(Messages) /\ seen \in [{"c", "d"} -> SUBSET Nat] /\ pend \in Nat \X Nat
      BY DEF Init, NoAck
  <2> QED BY <2>1, <2>2, <2>3, <2>4 DEF Typed, Init
<1>5. Numbered
    BY <1>1 DEF Numbered, Init
<1>6. Opened
    BY <1>1 DEF Opened, Init
<1>7. OpenerFirst /\ Answers
    BY <1>1, <1>3 DEF OpenerFirst, Answers, Init
<1>8. Awaited
    BY <1>1 DEF Awaited, AnswerIsOurs, Init
<1>9. Queued
  <2>1. Line(arrived, dev)
      BY <1>2, <1>3 DEF Line, Chain, AllAhead, ToSet
  <2>2. Control(dev)
    <3>1. Len(<<>>) = 0
        OBVIOUS
    <3> QED BY <1>2, <3>1, Capacities DEF Control
  <2>3. /\ \A k \in DOMAIN arrived : arrived[k] \in Taken /\ Opens(arrived[k])
        /\ \A k, l \in DOMAIN arrived : arrived[k] = arrived[l] => k = l
    <3>1. arrived = << >>
        BY DEF Init
    <3>2. DOMAIN arrived = {}
        BY <3>1
    <3> QED BY <3>2
  <2>4. /\ InLine(dev) \subseteq Taken
        /\ \A m \in Taken : m.op = "Status" \/ m \in InLine(dev) \cup dev.evicted
        /\ dev.mode = "reply" => dev.out \in From("d")
      BY <1>1, <1>2, <1>3
  <2> QED BY <2>1, <2>2, <2>3, <2>4 DEF Queued
<1> QED BY <1>4, <1>5, <1>6, <1>7, <1>8, <1>9 DEF IInv

LEMMA StepKeeps == ASSUME IInv, [Next]_vars PROVE IInv'
<1>1. CASE \E x \in Exchanges : Request(x)
    BY <1>1, RequestKeeps
<1>2. CASE \E m \in sent : CtlReceive(m) \/ DevReceive(m)
    BY <1>2, CtlReceiveKeeps, ReceiveKeeps
<1>3. CASE CtlTimeout
    BY <1>3, CtlTimeoutKeeps
<1>4. CASE DevTask
    BY <1>4, AckKeeps, TimeoutKeeps, PullKeeps, DrainKeeps DEF DevTask
<1>5. CASE UNCHANGED vars
  <2>1. UNCHANGED <<script, sent, seen, pend, ctl, dev, arrived>>
      BY <1>5 DEF vars
  <2>2. ControllerOnly
      BY <2>1 DEF ControllerOnly, IInv, Typed
  <2>3. ctl' \in [Exchanges -> Calls] /\ \A x \in Exchanges : ctl'[x] = ctl[x] /\ ctl'[x].right
      BY <2>1 DEF IInv, Typed, Calls, Awaited, AnswerIsOurs
  <2> QED BY <2>1, <2>2, <2>3, CallsEnd
<1> QED BY <1>1, <1>2, <1>3, <1>4, <1>5 DEF Next

\* The whole invariant: the line at the device, what was sent and answered, and
\* what the controller waits for.
THEOREM SessionInvariant == Spec => []IInv
BY InitHolds, StepKeeps, PTL DEF Spec

\* A message on its exchange is all that send_reliable looks for, and still it
\* is the answer to the message the call sent last: never a late copy of an
\* earlier answer, however many exchanges share the session.
THEOREM AnswersAreOurs == Spec => []AnswerIsOurs
<1>1. IInv => AnswerIsOurs
    BY DEF IInv, Awaited
<1> QED BY <1>1, SessionInvariant, PTL

\* A request is executed at most once, whether serve_secured takes it from the
\* socket, from the buffer or as a follow-up in reply_reliable.
THEOREM ServedOnce == Spec => []ExecutedOnce
<1>1. ASSUME IInv PROVE ExecutedOnce
  <2> SUFFICES ASSUME NEW i \in DOMAIN dev.begun, NEW j \in DOMAIN dev.begun,
                      dev.begun[i] = dev.begun[j], i # j
               PROVE  FALSE
      BY DEF ExecutedOnce
  <2>1. dev.begun \in Seq(Messages) /\ Chain(arrived, dev.begun)
      BY <1>1 DEF IInv, Typed, Device, Queued, Line
  <2>2. i \in Nat /\ j \in Nat
      BY <2>1
  <2>3. i < j \/ j < i
      BY <2>2
  <2> QED BY <2>1, <2>3 DEF Chain, Ahead
<1> QED BY <1>1, SessionInvariant, PTL

\* The buffers of the session (stash_peer_initiated) and of await_peer_status_ok
\* keep to their bounds, lose no acknowledged request but by overflow, and
\* requests are executed in the order in which they came.
THEOREM BuffersStaySound == Spec => []BuffersSound
<1>1. ASSUME IInv PROVE TypeOK
  <2>1. \A x \in Exchanges : ctl[x].st \in {"new", "wait", "done", "failed"}
      BY <1>1 DEF IInv, Typed
  <2>2. dev.mode \in {"loop", "reply", "status", "drain"}
      BY <1>1 DEF IInv, Typed, Device
  <2> QED BY <1>1, <2>1, <2>2 DEF TypeOK, IInv, Queued, Control
<1>2. ASSUME IInv PROVE AckedIsKept
    BY <1>2 DEF AckedIsKept, IInv, Queued, Taken, InLine, Buffered
<1>3. ASSUME IInv PROVE ServedInOrder
  <2> DEFINE at(s, m) == CHOOSE i \in DOMAIN s : s[i] = m
  <2>1. SUFFICES ASSUME NEW m \in ToSet(arrived) \cap ToSet(dev.begun),
                        NEW r \in ToSet(arrived) \cap ToSet(dev.begun),
                        at(arrived, m) < at(arrived, r)
                 PROVE  at(dev.begun, m) < at(dev.begun, r)
      BY DEF ServedInOrder
  <2>2. ASSUME NEW s, NEW t \in ToSet(s) PROVE at(s, t) \in DOMAIN s /\ s[at(s, t)] = t
      BY <2>2 DEF ToSet
  <2> DEFINE k == at(arrived, m)
             l == at(arrived, r)
             i == at(dev.begun, m)
             j == at(dev.begun, r)
  <2>3. /\ k \in DOMAIN arrived /\ arrived[k] = m /\ l \in DOMAIN arrived /\ arrived[l] = r
        /\ i \in DOMAIN dev.begun /\ dev.begun[i] = m
        /\ j \in DOMAIN dev.begun /\ dev.begun[j] = r
      BY <2>2
  <2>4. k < l
      BY <2>1
  <2> HIDE DEF k, l, i, j
  <2>5. dev.begun \in Seq(Messages) /\ Chain(arrived, dev.begun) /\ arrived \in Seq(Messages)
      BY <1>3 DEF IInv, Typed, Device, Queued, Line
  <2>6. i \in Nat /\ j \in Nat /\ k \in Nat /\ l \in Nat
      BY <2>3, <2>5
  <2>7. i # j
    <3>1. \A a, b \in DOMAIN arrived : arrived[a] = arrived[b] => a = b
        BY <1>3 DEF IInv, Queued
    <3> QED BY <2>3, <2>4, <2>6, <3>1
  <2>8. ~(j < i)
    <3> SUFFICES ASSUME j < i PROVE FALSE
        OBVIOUS
    <3>1. Ahead(arrived, r, m)
        BY <2>3, <2>5 DEF Chain
    <3>2. l < k
        BY <2>3, <3>1 DEF Ahead
    <3> QED BY <2>4, <2>6, <3>2
  <2>9. i < j
      BY <2>6, <2>7, <2>8
  <2> QED BY <2>9 DEF i, j
<1>4. IInv => BuffersSound
    BY <1>1, <1>2, <1>3 DEF BuffersSound
<1> QED BY <1>4, SessionInvariant, PTL
=============================================================================
