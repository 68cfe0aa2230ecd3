------------------------- MODULE WarmSessionProofs --------------------------
(***************************************************************************)
(* Proofs about WarmSession, for any finite set of operations: the lock    *)
(* has one holder and the queue is what it should be, no dead session      *)
(* stays in the slot, nothing is sent a third time or again without a      *)
(* timeout, and who was answered has told of its sessions.                 *)
(*                                                                         *)
(* TypeOK bounds the sessions by two per operation.  That is a counting    *)
(* argument: each session has one owner, and an owner has at most two.     *)
(***************************************************************************)
EXTENDS WarmSession, FiniteSetTheorems, SequenceTheorems, TLAPS

States == {"idle", "done", "failed", "gone", "aborted"} \cup Running
Active == Sending \cup Establishing
Unsent == {"idle", "queued", "establish"}

Typed ==
    /\ op \in [Ops -> [st : States, new : SUBSET Nat]]
    /\ count \in Nat /\ slot \in 0 .. count
    /\ wire \subseteq Ops \X (1 .. count) /\ applied \subseteq wire
    /\ expired \subseteq 1 .. count /\ broken \subseteq 1 .. count

\* The tasks at the Mutex are those that run, each once, and only the first
\* one does more than wait.
QueueSound ==
    /\ queue \in Seq(Ops)
    /\ \A i, j \in DOMAIN queue : queue[i] = queue[j] => i = j
    /\ \A o \in Ops : (\E i \in DOMAIN queue : queue[i] = o) <=> op[o].st \in Running
    /\ \A i \in 2 .. Len(queue) : op[queue[i]].st = "queued"

\* Every session was established by one operation, and by each at most two.
Owned ==
    /\ \A s \in 1 .. count : \E o \in Ops : s \in op[o].new
    /\ \A o \in Ops : op[o].new \subseteq 1 .. count
    /\ \A o, p \in Ops : op[o].new \cap op[p].new # {} => o = p
    /\ \A o \in Ops : op[o].st \in Unsent => op[o].new = {}
    /\ \A o \in Ops : op[o].st \in {"send", "reestablish"} =>
          \A a, b \in op[o].new : a = b
    /\ \A o \in Ops : \A a, b, c \in op[o].new : a < b => c \in {a, b}

\* What an operation has sent, by where it is.
SentOver(o, s) == <<o, s>> \in wire

SentSound ==
    /\ \A o \in Ops : op[o].st \in Unsent => \A s \in Nat : ~SentOver(o, s)
    /\ \A o \in Ops : op[o].st = "send" => \A s \in Nat : SentOver(o, s) => s = slot
    /\ \A o \in Ops : op[o].st = "reestablish" =>
          \A s, t \in Nat : SentOver(o, s) /\ SentOver(o, t) => s = t /\ s \in expired
    /\ \A o \in Ops : op[o].st \in Sending => slot # 0
    /\ \A o \in Ops : \A s, t, u \in Nat :
          SentOver(o, s) /\ SentOver(o, t) /\ s < t =>
             s \in expired /\ (SentOver(o, u) => u \in {s, t})

IInv == Typed /\ QueueSound /\ Owned /\ SentSound /\ DeadIsNotKept /\ NewIsTold

-----------------------------------------------------------------------------
(* The queue.                                                              *)

\* Who is at the lock, and that nobody else is under way.
LEMMA OneActive ==
    ASSUME QueueSound
    PROVE  /\ \A o \in Ops : op[o].st \in Active => queue # << >> /\ queue[1] = o
           /\ \A X : \A o \in Ops :
                 At(o, X) => queue # << >> /\ queue[1] = o /\ op[o].st \in X
<1>1. queue \in Seq(Ops) /\ Len(queue) \in Nat /\ DOMAIN queue = 1 .. Len(queue)
    BY DEF QueueSound
<1>2. ASSUME NEW o \in Ops, op[o].st \in Active PROVE queue # << >> /\ queue[1] = o
  <2>1. PICK i \in DOMAIN queue : queue[i] = o
      BY <1>2 DEF QueueSound, Active, Running
  <2>2. ~(i \in 2 .. Len(queue))
      BY <1>2, <2>1 DEF QueueSound, Active, Sending, Establishing
  <2> QED BY <1>1, <2>1, <2>2
<1>3. ASSUME NEW o \in Ops, NEW X, At(o, X)
      PROVE  queue # << >> /\ queue[1] = o /\ op[o].st \in X
    BY <1>1, <1>3 DEF At, Holder
<1> QED BY <1>2, <1>3

\* A task that ends leaves the queue, from wherever it stands.
LEMMA Leaves ==
    ASSUME QueueSound, Typed, NEW i \in DOMAIN queue, queue' = Without(queue, i),
           NEW r \in States \ Running, op' = [op EXCEPT ![queue[i]].st = r]
    PROVE  QueueSound'
<1>1. queue \in Seq(Ops) /\ Len(queue) \in Nat \ {0} /\ i \in 1 .. Len(queue)
    BY DEF QueueSound
<1> DEFINE n == Len(queue) - 1
<1>2. n \in Nat /\ queue' = [k \in 1 .. n |-> IF k < i THEN queue[k] ELSE queue[k + 1]]
    BY <1>1 DEF Without
<1>3. \A k \in 1 .. n : (IF k < i THEN queue[k] ELSE queue[k + 1]) \in Ops
    BY <1>1, <1>2
<1>4. queue' \in Seq(Ops) /\ Len(queue') = n /\ DOMAIN queue' = 1 .. n
    BY <1>2, <1>3
<1>5. \A k \in 1 .. n : queue'[k] = IF k < i THEN queue[k] ELSE queue[k + 1]
    BY <1>2
<1> HIDE DEF n
<1>6. n + 1 = Len(queue)
    BY <1>1 DEF n
<1>7. \A j, k \in DOMAIN queue' : queue'[j] = queue'[k] => j = k
    BY <1>1, <1>2, <1>4, <1>5, <1>6 DEF QueueSound
<1>8. \A k \in 1 .. n : queue'[k] # queue[i]
    BY <1>1, <1>2, <1>5, <1>6 DEF QueueSound
<1>9. \A j \in 1 .. Len(queue) : j # i => \E k \in 1 .. n : queue'[k] = queue[j]
  <2> SUFFICES ASSUME NEW j \in 1 .. Len(queue), j # i
               PROVE  \E k \in 1 .. n : queue'[k] = queue[j]
      OBVIOUS
  <2>1. CASE j < i
      BY <1>1, <1>2, <1>5, <1>6, <2>1
  <2>2. CASE j > i
    <3>1. j - 1 \in 1 .. n /\ ~(j - 1 < i) /\ (j - 1) + 1 = j
        BY <1>1, <1>2, <1>6, <2>2
    <3> QED BY <1>5, <3>1
  <2> QED BY <1>1, <2>1, <2>2
<1>10. \A o \in Ops : op'[o].st = IF o = queue[i] THEN r ELSE op[o].st
    BY <1>1 DEF Typed
<1>11. \A o \in Ops : (\E k \in DOMAIN queue' : queue'[k] = o) <=> op'[o].st \in Running
  <2> SUFFICES ASSUME NEW o \in Ops
               PROVE  (\E k \in 1 .. n : queue'[k] = o) <=> op'[o].st \in Running
      BY <1>4
  <2>1. CASE o = queue[i]
      BY <1>8, <1>10, <2>1
  <2>2. CASE o # queue[i]
    <3>1. op'[o].st = op[o].st
        BY <1>10, <2>2
    <3>2. (\E k \in 1 .. n : queue'[k] = o) => \E j \in DOMAIN queue : queue[j] = o
        BY <1>1, <1>2, <1>5, <1>6
    <3>3. (\E j \in DOMAIN queue : queue[j] = o) => \E k \in 1 .. n : queue'[k] = o
        BY <1>1, <1>9, <2>2
    <3> QED BY <3>1, <3>2, <3>3 DEF QueueSound
  <2> QED BY <2>1, <2>2
<1>12. \A k \in 2 .. Len(queue') : op'[queue'[k]].st = "queued"
  <2> SUFFICES ASSUME NEW k \in 2 .. n PROVE op'[queue'[k]].st = "queued"
      BY <1>4
  <2>1. PICK j \in 2 .. Len(queue) : queue'[k] = queue[j]
      BY <1>1, <1>2, <1>5, <1>6
  <2>2. op[queue[j]].st = "queued" /\ queue[j] \in Ops /\ queue'[k] # queue[i]
      BY <1>1, <1>2, <1>8, <2>1 DEF QueueSound
  <2> QED BY <1>10, <2>1, <2>2
<1> QED BY <1>4, <1>7, <1>11, <1>12 DEF QueueSound

\* The task that holds the lock goes on.
LEMMA HolderWorks ==
    ASSUME QueueSound, Typed, NEW o \in Ops, At(o, Running), UNCHANGED queue,
           NEW v, v.st \in Active, op' = [op EXCEPT ![o] = v]
    PROVE  QueueSound'
<1>1. queue # << >> /\ queue[1] = o /\ op[o].st \in Running
    BY OneActive
<1>2. queue \in Seq(Ops) /\ 1 \in DOMAIN queue /\ DOMAIN queue = 1 .. Len(queue)
    BY <1>1 DEF QueueSound
<1>3. \A p \in Ops : op'[p] = IF p = o THEN v ELSE op[p]
    BY DEF Typed
<1>4. \A p \in Ops : op'[p].st \in Running <=> op[p].st \in Running
    BY <1>1, <1>3 DEF Running, Active
<1>5. \A i \in 2 .. Len(queue) : queue[i] \in Ops /\ queue[i] # o
    BY <1>1, <1>2 DEF QueueSound
<1>6. \A i \in 2 .. Len(queue) : op'[queue[i]].st = "queued"
    BY <1>3, <1>5 DEF QueueSound
<1> QED BY <1>4, <1>6 DEF QueueSound

\* The task that holds the lock ends: the others move up.
LEMMA HolderReturns ==
    ASSUME QueueSound, Typed, NEW o \in Ops, At(o, Running), queue' = Tail(queue),
           NEW r \in States \ Running, op' = [op EXCEPT ![o].st = r]
    PROVE  QueueSound'
<1>1. queue # << >> /\ queue[1] = o
    BY OneActive
<1>2. queue \in Seq(Ops) /\ 1 \in DOMAIN queue
    BY <1>1 DEF QueueSound
<1>3. Tail(queue) = Without(queue, 1)
  <2>1. /\ Len(queue) \in Nat \ {0}
        /\ Tail(queue) \in Seq(Ops) /\ Len(Tail(queue)) = Len(queue) - 1
        /\ \A k \in 1 .. Len(queue) - 1 : Tail(queue)[k] = queue[k + 1]
      BY <1>1, <1>2
  <2>2. /\ Without(queue, 1) \in Seq(Ops) /\ Len(Without(queue, 1)) = Len(queue) - 1
        /\ \A k \in 1 .. Len(queue) - 1 : Without(queue, 1)[k] = queue[k + 1]
    <3>1. \A k \in 1 .. Len(queue) - 1 : queue[k + 1] \in Ops /\ ~(k < 1)
        BY <1>2, <2>1
    <3> QED BY <2>1, <3>1 DEF Without
  <2> QED BY <2>1, <2>2, SeqEqual
<1> QED BY <1>1, <1>2, <1>3, Leaves

\* A task that is not at the Mutex: it queues up, or stays away.
LEMMA Outside ==
    ASSUME QueueSound, Typed, NEW o \in Ops, NEW r \in States,
           op[o].st \notin Running, op' = [op EXCEPT ![o].st = r],
           \/ r = "queued" /\ queue' = Append(queue, o)
           \/ r \notin Running /\ UNCHANGED queue
    PROVE  QueueSound'
<1>1. queue \in Seq(Ops) /\ Len(queue) \in Nat /\ DOMAIN queue = 1 .. Len(queue)
    BY DEF QueueSound
<1>2. \A i \in 1 .. Len(queue) : queue[i] \in Ops /\ queue[i] # o
    BY <1>1 DEF QueueSound
<1>3. \A p \in Ops : op'[p].st = IF p = o THEN r ELSE op[p].st
    BY DEF Typed
<1>4. CASE r = "queued" /\ queue' = Append(queue, o)
  <2>1. /\ queue' \in Seq(Ops) /\ Len(queue') = Len(queue) + 1
        /\ DOMAIN queue' = 1 .. Len(queue) + 1
        /\ \A i \in 1 .. Len(queue) : queue'[i] = queue[i]
        /\ queue'[Len(queue) + 1] = o
      BY <1>1, <1>4
  <2>2. \A i, j \in DOMAIN queue' : queue'[i] = queue'[j] => i = j
    <3> SUFFICES ASSUME NEW i \in 1 .. Len(queue) + 1, NEW j \in 1 .. Len(queue) + 1,
                        queue'[i] = queue'[j]
                 PROVE  i = j
        BY <2>1
    <3>1. CASE i = Len(queue) + 1 \/ j = Len(queue) + 1
        BY <1>1, <1>2, <2>1, <3>1
    <3>2. CASE i \in 1 .. Len(queue) /\ j \in 1 .. Len(queue)
        BY <1>1, <2>1, <3>2 DEF QueueSound
    <3> QED BY <1>1, <3>1, <3>2
  <2>3. \A p \in Ops : (\E i \in DOMAIN queue' : queue'[i] = p) <=> op'[p].st \in Running
    <3> SUFFICES ASSUME NEW p \in Ops
                 PROVE  (\E i \in 1 .. Len(queue) + 1 : queue'[i] = p) <=> op'[p].st \in Running
        BY <2>1
    <3>1. CASE p = o
        BY <1>1, <1>3, <1>4, <2>1, <3>1 DEF Running
    <3>2. CASE p # o
      <4>1. (\E i \in 1 .. Len(queue) + 1 : queue'[i] = p) <=> \E i \in 1 .. Len(queue) : queue[i] = p
          BY <1>1, <2>1, <3>2
      <4> QED BY <1>1, <1>3, <3>2, <4>1 DEF QueueSound
    <3> QED BY <3>1, <3>2
  <2>4. \A i \in 2 .. Len(queue') : op'[queue'[i]].st = "queued"
    <3> SUFFICES ASSUME NEW i \in 2 .. Len(queue) + 1 PROVE op'[queue'[i]].st = "queued"
        BY <2>1
    <3>1. CASE i = Len(queue) + 1
        BY <1>3, <1>4, <2>1, <3>1
    <3>2. CASE i \in 2 .. Len(queue)
        BY <1>1, <1>2, <1>3, <2>1, <3>2 DEF QueueSound
    <3> QED BY <1>1, <3>1, <3>2
  <2> QED BY <2>1, <2>2, <2>3, <2>4 DEF QueueSound
<1>5. CASE r \notin Running /\ UNCHANGED queue
  <2>1. \A p \in Ops : op'[p].st \in Running <=> op[p].st \in Running
      BY <1>3, <1>5
  <2>2. \A i \in 2 .. Len(queue) : op'[queue[i]].st = "queued"
      BY <1>1, <1>2, <1>3 DEF QueueSound
  <2> QED BY <1>5, <2>1, <2>2 DEF QueueSound
<1> QED BY <1>4, <1>5
-----------------------------------------------------------------------------
(* Sessions and what is sent over them.                                    *)

\* An operation that moves on without a new session or another send.
LEMMA SameSessions ==
    ASSUME Typed, Owned, NEW o \in Ops, NEW r \in States,
           op' = [op EXCEPT ![o].st = r], UNCHANGED count,
           r \in Unsent => op[o].st \in Unsent,
           r \in {"send", "reestablish"} => op[o].st \in Unsent \cup {"send"}
    PROVE  Owned'
<1>1. \A p \in Ops : op'[p].new = op[p].new
    BY DEF Typed
<1>2. \A p \in Ops : op'[p].st = IF p = o THEN r ELSE op[p].st
    BY DEF Typed
<1>3. \A p \in Ops : op'[p].st \in Unsent => op[p].st \in Unsent
    BY <1>2
<1>4. \A p \in Ops : op'[p].st \in {"send", "reestablish"} => \A a, b \in op[p].new : a = b
    BY <1>2 DEF Owned
<1>5. /\ \A s \in 1 .. count : \E p \in Ops : s \in op'[p].new
      /\ \A p \in Ops : op'[p].new \subseteq 1 .. count
      /\ \A p, q \in Ops : op'[p].new \cap op'[q].new # {} => p = q
      /\ \A p \in Ops : \A a, b, c \in op'[p].new : a < b => c \in {a, b}
    BY <1>1 DEF Owned
<1>6. \A p \in Ops : op'[p].st \in Unsent => op'[p].new = {}
    BY <1>1, <1>3 DEF Owned
<1>7. \A p \in Ops : op'[p].st \in {"send", "reestablish"} => \A a, b \in op'[p].new : a = b
    BY <1>1, <1>4
<1> QED BY <1>5, <1>6, <1>7 DEF Owned

\* What an operation sent stays known as it moves on.  Only the holder of the
\* lock has changed the slot, and it does not count on it any more.
LEMMA SameWire ==
    ASSUME Typed, SentSound, NEW o \in Ops, NEW r \in States \ {"send", "resend", "reestablish"},
           op' = [op EXCEPT ![o].st = r], UNCHANGED wire, expired \subseteq expired',
           r \in Unsent => op[o].st \in Unsent,
           slot' = slot \/ \A p \in Ops \ {o} : op[p].st \notin Active
    PROVE  SentSound'
<1>1. \A p \in Ops : op'[p].st = IF p = o THEN r ELSE op[p].st
    BY DEF Typed
<1>2. \A p \in Ops : op'[p].st \in Unsent => op[p].st \in Unsent
    BY <1>1
<1>3. \A p \in Ops : op'[p].st \in Sending \cup {"reestablish"} =>
          op'[p].st = op[p].st /\ slot' = slot
    BY <1>1 DEF Active, Sending, Establishing
<1>4. \A p \in Ops, s \in Nat : SentOver(p, s)' <=> SentOver(p, s)
    BY DEF SentOver
<1> QED BY <1>2, <1>3, <1>4 DEF SentSound, Sending

\* The sessions 1 .. count have owners with at most two each.
LEMMA TwoPerOperation ==
    ASSUME Typed, Owned
    PROVE  count <= 2 * Cardinality(Ops)
<1> DEFINE N == 1 .. count
           f == [s \in N |-> CHOOSE o \in Ops : s \in op[o].new]
           First == {s \in N : \A t \in op[f[s]].new : s <= t}
           Second == N \ First
<1>1. count \in Nat /\ IsFiniteSet(N) /\ Cardinality(N) = count
    BY FS_Interval DEF Typed
<1>2. \A s \in N : f[s] \in Ops /\ s \in op[f[s]].new
    BY DEF Owned
<1>3. \A o \in Ops : op[o].new \subseteq Nat
    BY DEF Typed
<1> HIDE DEF f, N
<1>4. N \subseteq Nat
    BY DEF N
<1>5. ASSUME NEW s \in First, NEW t \in First, f[s] = f[t] PROVE s = t
    BY <1>2, <1>4, <1>5
<1>6. ASSUME NEW s \in Second, NEW t \in Second, f[s] = f[t] PROVE s = t
  <2>1. PICK a \in op[f[s]].new : ~(s <= a)
      BY <1>6
  <2>2. PICK b \in op[f[t]].new : ~(t <= b)
      BY <1>6
  <2>3. /\ f[s] \in Ops /\ s \in Nat /\ t \in Nat /\ a \in Nat /\ b \in Nat
        /\ s \in op[f[s]].new /\ t \in op[f[s]].new /\ b \in op[f[s]].new
      BY <1>2, <1>3, <1>4, <1>6
  <2>4. a < s /\ b < t
      BY <2>1, <2>2, <2>3
  <2>5. t \in {a, s} /\ b \in {a, s}
      BY <2>3, <2>4 DEF Owned
  <2> QED BY <2>3, <2>4, <2>5
<1>7. IsFiniteSet(First) /\ IsFiniteSet(Second)
    BY <1>1, FS_Subset
<1>8. Cardinality(First) <= Cardinality(Ops)
  <2> DEFINE g == [s \in First |-> f[s]]
  <2>1. g \in Injection(First, Ops)
      BY <1>2, <1>5 DEF Injection, IsInjective
  <2> HIDE DEF g
  <2> QED BY <2>1, OpsFinite, FS_Injection
<1>9. Cardinality(Second) <= Cardinality(Ops)
  <2> DEFINE g == [s \in Second |-> f[s]]
  <2>1. g \in Injection(Second, Ops)
      BY <1>2, <1>6 DEF Injection, IsInjective
  <2> HIDE DEF g
  <2> QED BY <2>1, OpsFinite, FS_Injection
<1>10. N = First \cup Second /\ First \cap Second = {}
    OBVIOUS
<1> HIDE DEF First, Second
<1>11. Cardinality(N) = Cardinality(First) + Cardinality(Second) - Cardinality(First \cap Second)
    BY <1>7, <1>10, FS_Union
<1>12. Cardinality(First \cap Second) = 0
    BY <1>10, FS_EmptySet
<1>13. Cardinality(Ops) \in Nat /\ Cardinality(First) \in Nat /\ Cardinality(Second) \in Nat
    BY <1>7, OpsFinite, FS_CardinalityType
<1> QED BY <1>1, <1>8, <1>9, <1>11, <1>12, <1>13
-----------------------------------------------------------------------------
(* One lemma per kind of step.                                             *)

\* The holder returns, with whatever it found out about the slot.
LEMMA ReturnStep ==
    ASSUME IInv, NEW o \in Ops, At(o, Active), NEW r \in {"done", "failed"}, Return(o, r),
           UNCHANGED <<count, wire, applied>>, slot' \in {0, slot},
           expired \subseteq expired', expired' \subseteq 1 .. count,
           broken' \subseteq 1 .. count, slot' \notin expired' \cup broken'
    PROVE  IInv'
<1>1. queue # << >> /\ queue[1] = o /\ op[o].st \in Active /\ At(o, Running)
    BY OneActive DEF IInv, At, Running, Active
<1>2. r \in States \ Running /\ r \notin Unsent /\ r \notin {"send", "resend", "reestablish"}
    BY DEF States, Running, Unsent, Sending, Establishing
<1>3. op' = [op EXCEPT ![o].st = r] /\ queue' = Tail(queue) /\ touched' = touched \cup op[o].new
    BY DEF Return
<1>4. \A p \in Ops : /\ op'[p].st = IF p = o THEN r ELSE op[p].st
                     /\ op'[p].new = op[p].new
    BY <1>3 DEF IInv, Typed
<1>5. Typed'
    BY <1>2, <1>3 DEF IInv, Typed
<1>6. QueueSound'
    BY <1>1, <1>2, <1>3, HolderReturns DEF IInv
<1>7. Owned'
    BY <1>2, <1>3, SameSessions DEF IInv
<1>8. \A p \in Ops \ {o} : op[p].st \notin Active
    BY <1>1, OneActive DEF IInv
<1>9. SentSound'
    BY <1>2, <1>3, <1>8, SameWire DEF IInv
<1>10. NewIsTold'
    BY <1>3, <1>4 DEF IInv, NewIsTold
<1> QED BY <1>5, <1>6, <1>7, <1>9, <1>10 DEF IInv, DeadIsNotKept

\* The first send over a warm session.
LEMMA WarmSendStep ==
    ASSUME IInv, NEW o \in Ops, At(o, {"queued"}), slot # 0, Send(o, slot, "send", {}),
           UNCHANGED <<slot, queue, count, applied, touched, history>>
    PROVE  IInv'
<1>1. queue # << >> /\ queue[1] = o /\ op[o].st = "queued" /\ At(o, Running)
    BY OneActive DEF IInv, At, Running
<1>2. op[o].new = {}
    BY <1>1 DEF IInv, Owned, Unsent
<1> DEFINE v == [st |-> "send", new |-> {}]
<1>3. op' = [op EXCEPT ![o] = v] /\ op' = [op EXCEPT ![o].st = "send"] /\ wire' = wire \cup {<<o, slot>>}
    BY <1>2 DEF Send, IInv, Typed
<1>4. \A p \in Ops : op'[p].st = IF p = o THEN "send" ELSE op[p].st
    BY <1>3 DEF IInv, Typed
<1>5. v.st \in Active /\ "send" \in States
    BY DEF Active, Sending, States, Running
<1>6. Typed'
  <2>1. slot \in 1 .. count
      BY DEF IInv, Typed
  <2> QED BY <1>3, <1>5, <2>1 DEF IInv, Typed, history
<1>7. QueueSound'
    BY <1>1, <1>3, <1>5, HolderWorks DEF IInv
<1>8. Owned'
    BY <1>1, <1>3, <1>5, SameSessions DEF IInv, Unsent
<1>9. SentSound'
  <2>1. \A p \in Ops, s \in Nat : SentOver(p, s)' <=> SentOver(p, s) \/ (p = o /\ s = slot)
      BY <1>3 DEF SentOver
  <2>2. \A s \in Nat : ~SentOver(o, s)
      BY <1>1 DEF IInv, SentSound, Unsent
  <2>3. \A p \in Ops : p # o => op'[p].st = op[p].st /\ \A s \in Nat : SentOver(p, s)' <=> SentOver(p, s)
      BY <1>4, <2>1
  <2>4. op'[o].st = "send" /\ \A s \in Nat : SentOver(o, s)' => s = slot
      BY <1>4, <2>1, <2>2
  <2>5. UNCHANGED <<slot, expired>>
      BY DEF history
  <2> QED BY <2>3, <2>4, <2>5 DEF IInv, SentSound, Unsent, Sending
<1>10. NewIsTold'
    BY <1>3, <1>4 DEF IInv, NewIsTold, Typed
<1> QED BY <1>6, <1>7, <1>8, <1>9, <1>10 DEF IInv, DeadIsNotKept, history

\* A new session, and the first or the repeated send over it.
LEMMA EstablishStep == ASSUME IInv, NEW o \in Ops, Establish(o) PROVE IInv'
<1> DEFINE n == count + 1
           state == IF op[o].st = "establish" THEN "send" ELSE "resend"
           v == [st |-> state, new |-> op[o].new \cup {n}]
<1>1. queue # << >> /\ queue[1] = o /\ op[o].st \in Establishing /\ At(o, Running)
    BY OneActive DEF IInv, Establish, At, Running
<1>2. /\ count' = n /\ slot' = n /\ op' = [op EXCEPT ![o] = v] /\ wire' = wire \cup {<<o, n>>}
      /\ UNCHANGED <<queue, applied, touched, expired, broken>>
    BY DEF Establish, Send, history
<1>3. count \in Nat /\ n \in Nat /\ n # 0 /\ state \in Sending
    BY DEF IInv, Typed, Sending
<1>4. v.st \in Active /\ v \in [st : States, new : SUBSET Nat]
    BY <1>3 DEF Active, States, Running, IInv, Typed
<1>5. \A p \in Ops : /\ op'[p].st = IF p = o THEN state ELSE op[p].st
                     /\ op'[p].new = IF p = o THEN op[o].new \cup {n} ELSE op[p].new
    BY <1>2 DEF IInv, Typed
<1> HIDE DEF state, v
<1>6. Typed'
  <2>1. 1 .. count \subseteq 1 .. n /\ n \in 1 .. n /\ n \in 0 .. n
      BY <1>3
  <2> HIDE DEF n
  <2>2. wire' \subseteq Ops \X (1 .. n) /\ applied' \subseteq wire'
      BY <1>2, <2>1 DEF IInv, Typed
  <2>3. expired' \subseteq 1 .. n /\ broken' \subseteq 1 .. n
      BY <1>2, <2>1 DEF IInv, Typed
  <2>4. op' \in [Ops -> [st : States, new : SUBSET Nat]]
      BY <1>2, <1>4 DEF IInv, Typed
  <2> QED BY <1>2, <1>3, <2>1, <2>2, <2>3, <2>4 DEF Typed
<1>7. QueueSound'
    BY <1>1, <1>2, <1>4, HolderWorks DEF IInv
<1>8. Owned'
  <2>1. \A p \in Ops : op[p].new \subseteq 1 .. count /\ n \notin op[p].new
      BY <1>3 DEF IInv, Owned
  <2>2. 1 .. n = (1 .. count) \cup {n}
      BY <1>3
  <2>3. op[o].st = "establish" => op[o].new = {}
      BY DEF IInv, Owned, Unsent
  <2>4. \A a, b \in op[o].new : a = b
      BY <1>1, <2>3 DEF IInv, Owned, Establishing
  <2> HIDE DEF n
  <2>5. \A s \in 1 .. n : \E p \in Ops : s \in op'[p].new
      BY <1>5, <2>2 DEF IInv, Owned
  <2>6. \A p \in Ops : op'[p].new \subseteq 1 .. n
      BY <1>5, <2>1, <2>2
  <2>7. \A p, q \in Ops : op'[p].new \cap op'[q].new # {} => p = q
      BY <1>5, <2>1 DEF IInv, Owned
  <2>8. \A p \in Ops : op'[p].st \in Unsent => op'[p].new = {}
      BY <1>5, <1>3 DEF IInv, Owned, Unsent, Sending
  <2>9. \A p \in Ops : op'[p].st \in {"send", "reestablish"} => \A a, b \in op'[p].new : a = b
      BY <1>1, <1>5, <2>3 DEF IInv, Owned, state, Establishing
  <2>10. \A p \in Ops : \A a, b, c \in op'[p].new : a < b => c \in {a, b}
    <3> SUFFICES ASSUME NEW p \in Ops, NEW a \in op'[p].new, NEW b \in op'[p].new,
                        NEW c \in op'[p].new, a < b
                 PROVE  c \in {a, b}
        OBVIOUS
    <3>1. CASE p # o
        BY <1>5, <3>1 DEF IInv, Owned
    <3>2. CASE p = o
      <4>1. a \in Nat /\ b \in Nat /\ a # b
          BY <1>3, <1>5, <3>2 DEF IInv, Typed
      <4> QED BY <1>5, <2>4, <3>2, <4>1
    <3> QED BY <3>1, <3>2
  <2> QED BY <1>2, <2>5, <2>6, <2>7, <2>8, <2>9, <2>10 DEF Owned
<1>9. SentSound'
  <2>1. \A p \in Ops, s \in Nat : SentOver(p, s)' <=> SentOver(p, s) \/ (p = o /\ s = n)
      BY <1>2 DEF SentOver
  <2>2. \A p \in Ops, s \in Nat : SentOver(p, s) => s < n
      BY <1>3 DEF IInv, Typed, SentOver
  <2>3. \A s, t \in Nat : SentOver(o, s) /\ SentOver(o, t) => s = t /\ s \in expired
      BY <1>1 DEF IInv, SentSound, Establishing, Unsent
  <2>4. op[o].st = "establish" => \A s \in Nat : ~SentOver(o, s)
      BY DEF IInv, SentSound, Unsent
  <2>5. \A p \in Ops \ {o} : op'[p].st = op[p].st /\ op[p].st \notin Active
      BY <1>1, <1>5, OneActive DEF IInv
  <2> HIDE DEF n
  <2>6. \A p \in Ops : op'[p].st \in Unsent => \A s \in Nat : ~SentOver(p, s)'
      BY <1>3, <1>5, <2>1 DEF IInv, SentSound, Unsent, Sending
  <2>7. \A p \in Ops : op'[p].st = "send" => \A s \in Nat : SentOver(p, s)' => s = n
    <3> SUFFICES ASSUME NEW p \in Ops, op'[p].st = "send", NEW s \in Nat, SentOver(p, s)'
                 PROVE  s = n
        OBVIOUS
    <3>1. p = o
        BY <2>5 DEF Active, Sending
    <3>2. op[o].st = "establish"
        BY <1>5, <3>1 DEF state
    <3> QED BY <2>1, <2>4, <3>1, <3>2
  <2>8. \A p \in Ops : op'[p].st # "reestablish"
      BY <1>3, <1>5, <2>5 DEF Active, Establishing, Sending
  <2>9. \A p \in Ops : \A s, t, u \in Nat :
            SentOver(p, s)' /\ SentOver(p, t)' /\ s < t =>
               s \in expired /\ (SentOver(p, u)' => u \in {s, t})
    <3> SUFFICES ASSUME NEW p \in Ops, NEW s \in Nat, NEW t \in Nat, NEW u \in Nat,
                        SentOver(p, s)', SentOver(p, t)', s < t
                 PROVE  s \in expired /\ (SentOver(p, u)' => u \in {s, t})
        OBVIOUS
    <3>1. CASE p # o
        BY <2>1, <3>1 DEF IInv, SentSound
    <3>2. CASE p = o
      <4>1. SentOver(o, s) /\ t = n
          BY <1>3, <2>1, <2>2, <2>3, <3>2
      <4> QED BY <2>1, <2>3, <3>2, <4>1
    <3> QED BY <3>1, <3>2
  <2> QED BY <1>2, <1>3, <2>6, <2>7, <2>8, <2>9 DEF SentSound
<1>10. DeadIsNotKept'
    BY <1>2, <1>3 DEF IInv, Typed, DeadIsNotKept
<1>11. NewIsTold'
    BY <1>2, <1>3, <1>5 DEF IInv, NewIsTold, Sending
<1> QED BY <1>6, <1>7, <1>8, <1>9, <1>10, <1>11 DEF IInv

\* The first send timed out, and budget is left: the session goes, and the
\* operation will establish another.
LEMMA RetryStep ==
    ASSUME IInv, NEW o \in Ops, At(o, Sending), op[o].st = "send",
           expired' = expired \cup {slot}, slot' = 0,
           op' = [op EXCEPT ![o].st = "reestablish"],
           UNCHANGED <<queue, touched, count, wire, applied, broken, half>>
    PROVE  IInv'
<1>1. queue # << >> /\ queue[1] = o /\ At(o, Running)
    BY OneActive DEF IInv, At, Running
<1> DEFINE v == [op[o] EXCEPT !.st = "reestablish"]
<1>2. op' = [op EXCEPT ![o] = v] /\ v.st \in Active
    BY DEF IInv, Typed, Active, Establishing
<1>3. "reestablish" \in States /\ "reestablish" \notin Unsent
    BY DEF States, Running, Establishing, Unsent
<1>4. slot \in 1 .. count
    BY DEF IInv, Typed, SentSound, Sending
<1>5. Typed'
    BY <1>3, <1>4 DEF IInv, Typed
<1> HIDE DEF v
<1>6. QueueSound'
    BY <1>1, <1>2, HolderWorks DEF IInv
<1>7. Owned'
    BY <1>3, SameSessions DEF IInv
<1>8. SentSound'
  <2>1. \A p \in Ops : op'[p].st = IF p = o THEN "reestablish" ELSE op[p].st
      BY DEF IInv, Typed
  <2>2. \A p \in Ops, s \in Nat : SentOver(p, s)' <=> SentOver(p, s)
      BY DEF SentOver
  <2>3. \A p \in Ops : op'[p].st \in Active => p = o
      BY <1>1, <2>1, OneActive DEF IInv
  <2>4. \A s \in Nat : SentOver(o, s) => s = slot
      BY DEF IInv, SentSound
  <2> QED BY <1>3, <2>1, <2>2, <2>3, <2>4 DEF IInv, SentSound, Active, Sending, Establishing
<1>9. DeadIsNotKept'
    BY <1>4, <1>5 DEF DeadIsNotKept, Typed
<1>10. NewIsTold'
    BY DEF IInv, Typed, NewIsTold
<1> QED BY <1>5, <1>6, <1>7, <1>8, <1>9, <1>10 DEF IInv

\* An operation that holds no session moves on: it queues up, finds the slot
\* empty, is dropped or aborts.
LEMMA QuietStep ==
    ASSUME IInv, NEW o \in Ops, NEW r \in {"queued", "establish", "gone", "aborted"},
           op' = [op EXCEPT ![o].st = r], QueueSound',
           r \in Unsent => op[o].st \in Unsent,
           UNCHANGED <<count, wire, applied, touched, expired, broken>>,
           slot' = slot \/ (slot' = 0 /\ queue = << >>)
    PROVE  IInv'
<1>1. r \in States
    BY DEF States, Running, Establishing
<1>2. \A p \in Ops : /\ op'[p].st = IF p = o THEN r ELSE op[p].st
                     /\ op'[p].new = op[p].new
    BY DEF IInv, Typed
<1>3. Typed' /\ DeadIsNotKept'
    BY <1>1 DEF IInv, Typed, DeadIsNotKept
<1>4. Owned'
    BY <1>1, SameSessions DEF IInv
<1>5. slot' = slot \/ \A p \in Ops \ {o} : op[p].st \notin Active
    BY OneActive DEF IInv
<1>6. SentSound'
    BY <1>1, <1>5, SameWire DEF IInv
<1>7. NewIsTold'
    BY <1>2 DEF IInv, NewIsTold
<1> QED BY <1>3, <1>4, <1>6, <1>7 DEF IInv

-----------------------------------------------------------------------------
\* Every step keeps the invariant.
LEMMA StepKeeps == IInv /\ [Next]_vars => IInv'
<1> SUFFICES ASSUME IInv, [Next]_vars PROVE IInv'
    OBVIOUS
<1> USE DEF history
<1>1. ASSUME NEW o \in Ops, Arrive(o) PROVE IInv'
  <2>1. op[o].st \notin Running /\ "queued" \in States /\ op[o].st \in Unsent
      BY <1>1 DEF Arrive, Running, States, Sending, Establishing, Unsent
  <2>2. QueueSound'
      BY <1>1, <2>1, Outside DEF Arrive, IInv
  <2> QED BY <1>1, <2>1, <2>2, QuietStep DEF Arrive
<1>2. ASSUME NEW o \in Ops, Lock(o) PROVE IInv'
  <2>1. CASE slot # 0
      BY <1>2, <2>1, WarmSendStep DEF Lock
  <2>2. CASE slot = 0
    <3>1. op[o].st = "queued" /\ At(o, Running)
        BY <1>2, OneActive DEF Lock, IInv, At, Running
    <3> DEFINE v == [op[o] EXCEPT !.st = "establish"]
    <3>2. op' = [op EXCEPT ![o].st = "establish"] /\ op' = [op EXCEPT ![o] = v] /\ v.st \in Active
        BY <1>2, <2>2 DEF Lock, IInv, Typed, Active, Establishing
    <3> HIDE DEF v
    <3>3. QueueSound'
        BY <1>2, <3>1, <3>2, HolderWorks DEF Lock, IInv
    <3> QED BY <1>2, <2>2, <3>1, <3>2, <3>3, QuietStep DEF Lock, Unsent
  <2> QED BY <2>1, <2>2
<1>3. ASSUME NEW o \in Ops, EstablishFails(o) PROVE IInv'
  <2>1. At(o, Active)
      BY <1>3 DEF EstablishFails, At, Active
  <2> QED BY <1>3, <2>1, ReturnStep DEF EstablishFails, IInv, Typed, DeadIsNotKept
<1>4. ASSUME NEW o \in Ops, Answer(o) PROVE IInv'
  <2>1. At(o, Active)
      BY <1>4 DEF Answer, At, Active
  <2> QED BY <1>4, <2>1, ReturnStep DEF Answer, IInv, Typed, DeadIsNotKept
<1>5. ASSUME NEW o \in Ops, At(o, Sending)
      PROVE  At(o, Active) /\ slot \in 1 .. count /\ op[o].st \in Sending
    BY <1>5, OneActive DEF At, Active, IInv, Typed, SentSound
<1>6. 0 \notin 1 .. count /\ expired \subseteq 1 .. count /\ broken \subseteq 1 .. count
    BY DEF IInv, Typed
<1>7. ASSUME NEW o \in Ops, SendExpires(o) PROVE IInv'
  <2>1. At(o, Sending) /\ expired' = expired \cup {slot} /\ slot' = 0
        /\ UNCHANGED <<count, wire, applied, broken, half>>
      BY <1>7 DEF SendExpires
  <2>2. CASE Return(o, "failed")
      BY <1>5, <1>6, <2>1, <2>2, ReturnStep
  <2>3. CASE /\ op[o].st = "send" /\ op' = [op EXCEPT ![o].st = "reestablish"]
             /\ UNCHANGED <<queue, touched>>
      BY <2>1, <2>3, RetryStep
  <2> QED BY <1>7, <2>2, <2>3 DEF SendExpires
<1>8. ASSUME NEW o \in Ops, SendBreaks(o) PROVE IInv'
  <2>1. At(o, Sending) /\ broken' = broken \cup {slot} /\ slot' = 0 /\ Return(o, "failed")
        /\ UNCHANGED <<count, wire, applied, expired>>
      BY <1>8 DEF SendBreaks
  <2> QED BY <1>5, <1>6, <2>1, ReturnStep
<1>9. ASSUME NEW o \in Ops, ClientGone(o) PROVE IInv'
  <2>1. "gone" \in States \ Running /\ "gone" \notin Unsent
      BY DEF States, Running, Unsent, Sending, Establishing
  <2>2. PICK i \in DOMAIN queue : queue[i] = o /\ queue' = Without(queue, i)
      BY <1>9 DEF ClientGone
  <2>3. QueueSound'
      BY <1>9, <2>1, <2>2, Leaves DEF ClientGone, IInv
  <2> QED BY <1>9, <2>1, <2>3, QuietStep DEF ClientGone
<1>10. ASSUME NEW o \in Ops, AbortOp(o) PROVE IInv'
  <2>1. op[o].st \notin Running /\ "aborted" \in States \ Running /\ "aborted" \notin Unsent
      BY <1>10 DEF AbortOp, States, Running, Unsent, Sending, Establishing
  <2>2. QueueSound'
      BY <1>10, <2>1, Outside DEF AbortOp, IInv
  <2> QED BY <1>10, <2>1, <2>2, QuietStep DEF AbortOp
<1>11. ASSUME NEW w \in wire, DeviceApplies(w) PROVE IInv'
    BY <1>11 DEF DeviceApplies, IInv, Typed, QueueSound, Owned, SentSound, SentOver,
              DeadIsNotKept, NewIsTold
<1>12. CASE UNCHANGED vars
    BY <1>12 DEF vars, IInv, Typed, QueueSound, Owned, SentSound, SentOver,
              DeadIsNotKept, NewIsTold
<1> QED BY <1>1, <1>2, <1>3, <1>4, <1>7, <1>8, <1>9, <1>10, <1>11, <1>12, EstablishStep
        DEF Next, Progress

\* A daemon starts without a session and without clients.
LEMMA InitHolds == Init => IInv
<1> SUFFICES ASSUME Init PROVE IInv
    OBVIOUS
<1>1. Typed
    BY DEF Init, Typed, States
<1>2. QueueSound
    BY DEF Init, QueueSound, Running, Sending, Establishing
<1>3. Owned
    BY DEF Init, Owned
<1>4. SentSound
    BY DEF Init, SentSound, SentOver, Sending
<1> QED BY <1>1, <1>2, <1>3, <1>4 DEF Init, IInv, DeadIsNotKept, NewIsTold

\* The invariant gives what the run checks.
LEMMA InvariantSuffices == IInv => SlotSound /\ NewIsTold
<1> SUFFICES ASSUME IInv PROVE TypeOK /\ AgainOnlyAfterTimeout
    BY DEF SlotSound, IInv
<1>1. count \in {0} \cup Sessions /\ slot \in {0} \cup Sessions
  <2>1. count <= 2 * Cardinality(Ops) /\ Cardinality(Ops) \in Nat
      BY TwoPerOperation, OpsFinite, FS_CardinalityType DEF IInv
  <2> QED BY <2>1 DEF IInv, Typed, Sessions
<1>2. \A o \in Ops : op[o].st \in States
    BY DEF IInv, Typed
<1>3. \A o \in Holder : op[o].st \in Sending => slot # 0
  <2>1. Holder \subseteq Ops
      BY DEF IInv, QueueSound, Holder
  <2> QED BY <2>1 DEF IInv, SentSound
<1>4. \A o \in Ops : o \in {queue[i] : i \in DOMAIN queue} <=> op[o].st \in Running
    BY DEF IInv, QueueSound
<1>5. TypeOK
    BY <1>1, <1>2, <1>3, <1>4 DEF TypeOK, IInv, QueueSound, States
<1>6. AgainOnlyAfterTimeout
  <2>1. applied \subseteq wire /\ Sessions \subseteq Nat
      BY OpsFinite, FS_CardinalityType DEF IInv, Typed, Sessions
  <2> HIDE DEF Sessions
  <2> QED BY <2>1 DEF IInv, SentSound, SentOver, AgainOnlyAfterTimeout
<1> QED BY <1>5, <1>6

\* The warm slot is sound for any number of clients, whenever they come, time
\* out or leave: see SlotSound.
THEOREM SlotIsSound == Spec => []SlotSound
<1> QED BY InitHolds, StepKeeps, InvariantSuffices, PTL DEF Spec

\* Every operation that was answered has told on_new_session of the sessions it
\* established: see NewIsTold.
THEOREM AnsweredHasTold == Spec => []NewIsTold
<1> QED BY InitHolds, StepKeeps, InvariantSuffices, PTL DEF Spec
=============================================================================
