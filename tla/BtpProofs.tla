----------------------------- MODULE BtpProofs ------------------------------
(***************************************************************************)
(* Proofs about Btp, for any modulus, windows, message lengths and number  *)
(* of messages.                                                            *)
(*                                                                         *)
(* The accounting of a session is a relation between the two ends and what *)
(* is in flight between them.  It is stated of values (a window, the two   *)
(* sessions, the two links) and not of the variables, so that reading a    *)
(* frame and sending the ack for it, one step of the code, can be treated  *)
(* one after the other.                                                    *)
(***************************************************************************)
EXTENDS Btp, TLAPS, SequenceTheorems

Seqs == 0 .. Modulus - 1
Parts == Numbers \X (1 .. MaxSegments)

Sessions ==
    [tx : Seqs, acked : Seqs, unacked : Nat, rx : Seqs, owe : BOOLEAN, segs : Nat,
     buf : Seq(Parts), expected : 0 .. MaxSegments]

-----------------------------------------------------------------------------
(* Sequence numbers, without %                                             *)

LEMMA ModulusPositive == Modulus \in Nat \ {0}
BY BtpAssumption

LEMMA Wrap ==
    /\ \A s \in Seqs, k \in 0 .. Modulus :
          Plus(s, k) = IF s + k < Modulus THEN s + k ELSE s + k - Modulus
    /\ \A s, t \in Seqs : Minus(s, t) = IF s >= t THEN s - t ELSE s - t + Modulus
<1>1. Modulus \in Nat \ {0}
    BY ModulusPositive
<1>2. ASSUME NEW s \in Seqs, NEW k \in 0 .. Modulus
      PROVE  Plus(s, k) = IF s + k < Modulus THEN s + k ELSE s + k - Modulus
  <2>1. CASE s + k < Modulus
      BY <1>1, <2>1 DEF Plus, Seqs
  <2>2. CASE ~(s + k < Modulus)
      BY <1>1, <2>2 DEF Plus, Seqs
  <2> QED BY <2>1, <2>2
<1>3. ASSUME NEW s \in Seqs, NEW t \in Seqs
      PROVE  Minus(s, t) = IF s >= t THEN s - t ELSE s - t + Modulus
  <2>1. CASE s >= t
      BY <1>1, <2>1 DEF Minus, Seqs
  <2>2. CASE ~(s >= t)
      BY <1>1, <2>2 DEF Minus, Seqs
  <2> QED BY <2>1, <2>2
<1> QED BY <1>2, <1>3

\* What the accounting needs of them.
LEMMA SeqArithmetic ==
    /\ \A s \in Seqs, k \in 0 .. Modulus : Plus(s, k) \in Seqs
    /\ \A s, t \in Seqs : Minus(s, t) \in Seqs
    /\ \A s \in Seqs, k \in 0 .. Modulus - 1 :
          Plus(Plus(s, 1), k) = Plus(s, k + 1) /\ Plus(Plus(s, k), 1) = Plus(s, k + 1)
    /\ \A s \in Seqs : Minus(s, s) = 0
<1> USE ModulusPositive, Wrap DEF Seqs
<1>1. \A s \in Seqs, k \in 0 .. Modulus : Plus(s, k) \in Seqs
    OBVIOUS
<1>2. \A s, t \in Seqs : Minus(s, t) \in Seqs
    OBVIOUS
<1>3. ASSUME NEW s \in Seqs, NEW k \in 0 .. Modulus - 1
      PROVE  Plus(Plus(s, 1), k) = Plus(s, k + 1) /\ Plus(Plus(s, k), 1) = Plus(s, k + 1)
  <2>1. 1 \in 0 .. Modulus /\ k \in 0 .. Modulus /\ k + 1 \in 0 .. Modulus
      OBVIOUS
  <2>2. /\ Plus(s, 1) = IF s + 1 < Modulus THEN s + 1 ELSE s + 1 - Modulus
        /\ Plus(s, k) = IF s + k < Modulus THEN s + k ELSE s + k - Modulus
        /\ Plus(s, k + 1) = IF s + (k + 1) < Modulus THEN s + (k + 1) ELSE s + (k + 1) - Modulus
      BY <2>1
  <2>3. Plus(s, 1) \in Seqs /\ Plus(s, k) \in Seqs
      BY <1>1, <2>1
  <2> DEFINE u == Plus(s, 1)
             v == Plus(s, k)
  <2>4. /\ Plus(u, k) = IF u + k < Modulus THEN u + k ELSE u + k - Modulus
        /\ Plus(v, 1) = IF v + 1 < Modulus THEN v + 1 ELSE v + 1 - Modulus
      BY <2>1, <2>3
  <2> QED BY <2>2, <2>3, <2>4
<1>4. \A s \in Seqs : Minus(s, s) = 0
    OBVIOUS
<1> QED BY <1>1, <1>2, <1>3, <1>4

\* What was sent after the last ack: read by the other end, or under way.
LEMMA Outstanding ==
    ASSUME NEW tx \in Seqs, NEW acked \in Seqs, NEW rx \in Seqs, NEW n \in 0 .. Modulus - 1,
           NEW u \in n .. Modulus - 1,
           tx = Plus(rx, n + 1), Minus(tx, Plus(acked, 1)) = u
    PROVE  Minus(rx, acked) = u - n
<1> USE ModulusPositive DEF Seqs
<1>1. 1 \in 0 .. Modulus /\ n + 1 \in 0 .. Modulus
    OBVIOUS
<1>2. /\ tx = IF rx + (n + 1) < Modulus THEN rx + (n + 1) ELSE rx + (n + 1) - Modulus
      /\ Plus(acked, 1) = IF acked + 1 < Modulus THEN acked + 1 ELSE acked + 1 - Modulus
      /\ Plus(acked, 1) \in Seqs
      /\ Minus(rx, acked) = IF rx >= acked THEN rx - acked ELSE rx - acked + Modulus
    BY <1>1, Wrap, SeqArithmetic
<1>3. u = IF tx >= Plus(acked, 1) THEN tx - Plus(acked, 1) ELSE tx - Plus(acked, 1) + Modulus
    BY <1>2, Wrap
<1> DEFINE q == Plus(acked, 1)
           m == Minus(rx, acked)
<1>4. /\ q \in Int /\ m \in Int /\ tx \in Int /\ rx \in Int /\ acked \in Int /\ n \in Int /\ u \in Int
      /\ Modulus \in Int /\ n <= u /\ u < Modulus /\ 0 <= rx /\ rx < Modulus /\ 0 <= acked
      /\ acked < Modulus
    BY <1>2
<1> HIDE DEF q, m, Seqs
<1>5. m = u - n
    BY <1>2, <1>3, <1>4 DEF q, m
<1> QED BY <1>5 DEF m

\* Acknowledging up to ack moves what is outstanding by as much.
LEMMA AckMoves ==
    ASSUME NEW tx \in Seqs, NEW acked \in Seqs, NEW u \in 0 .. Modulus - 1,
           Minus(tx, Plus(acked, 1)) = u, NEW ack \in Seqs, Minus(ack, acked) <= u
    PROVE  /\ Minus(tx, Plus(ack, 1)) = u - Minus(ack, acked)
           /\ \A b \in Seqs : Minus(ack, acked) <= Minus(b, acked) =>
                 Minus(b, ack) = Minus(b, acked) - Minus(ack, acked)
<1> USE ModulusPositive DEF Seqs
<1>1. 1 \in 0 .. Modulus
    OBVIOUS
<1>2. /\ Plus(acked, 1) = IF acked + 1 < Modulus THEN acked + 1 ELSE acked + 1 - Modulus
      /\ Plus(ack, 1) = IF ack + 1 < Modulus THEN ack + 1 ELSE ack + 1 - Modulus
      /\ Plus(acked, 1) \in Seqs /\ Plus(ack, 1) \in Seqs
      /\ Minus(ack, acked) = IF ack >= acked THEN ack - acked ELSE ack - acked + Modulus
    BY <1>1, Wrap, SeqArithmetic
<1>3. /\ u = IF tx >= Plus(acked, 1) THEN tx - Plus(acked, 1) ELSE tx - Plus(acked, 1) + Modulus
      /\ Minus(tx, Plus(ack, 1)) =
           IF tx >= Plus(ack, 1) THEN tx - Plus(ack, 1) ELSE tx - Plus(ack, 1) + Modulus
    BY <1>2, Wrap
<1>4. Minus(tx, Plus(ack, 1)) = u - Minus(ack, acked)
    BY <1>2, <1>3
<1>5. ASSUME NEW b \in Seqs, Minus(ack, acked) <= Minus(b, acked)
      PROVE  Minus(b, ack) = Minus(b, acked) - Minus(ack, acked)
  <2>1. /\ Minus(b, ack) = IF b >= ack THEN b - ack ELSE b - ack + Modulus
        /\ Minus(b, acked) = IF b >= acked THEN b - acked ELSE b - acked + Modulus
      BY Wrap
  <2> QED BY <1>2, <1>5, <2>1
<1> QED BY <1>4, <1>5
-----------------------------------------------------------------------------
(* Sessions and frames                                                     *)

LEMMA Payloads ==
    ASSUME NEW f \in Frame
    PROVE  /\ f.seq \in Seqs /\ f.ack \in 0 .. Modulus /\ (f.ack # NoAck => f.ack \in Seqs)
           /\ f.len \in 0 .. MaxSegments /\ f.beg \in BOOLEAN /\ f.end \in BOOLEAN
           /\ f.payload \in Seq(Parts)
<1>1. /\ f.seq \in 0 .. Modulus - 1 /\ f.ack \in 0 .. Modulus /\ f.len \in 0 .. MaxSegments
      /\ f.beg \in BOOLEAN /\ f.end \in BOOLEAN
      /\ f.payload \in {<< >>} \cup {<<<<i, k>>>> : i \in Numbers, k \in 1 .. MaxSegments}
    BY DEF Frame
<1>2. f.payload \in Seq(Parts)
  <2>1. CASE f.payload = << >>
      BY <2>1, EmptySeq
  <2>2. ASSUME NEW i \in Numbers, NEW k \in 1 .. MaxSegments, f.payload = <<<<i, k>>>>
        PROVE  f.payload \in Seq(Parts)
    <3>1. <<i, k>> \in Parts
        BY DEF Parts
    <3> QED BY <2>2, <3>1
  <2> QED BY <1>1, <2>1, <2>2
<1>3. f.ack # NoAck => f.ack \in Seqs
    BY <1>1, ModulusPositive DEF NoAck, Seqs
<1> QED BY <1>1, <1>2, <1>3 DEF Seqs

\* Sending: what TakePlace does to the fields of a session.
LEMMA PlaceTaken ==
    ASSUME NEW s \in Sessions, NEW c \in BOOLEAN
    PROVE  LET t == TakePlace(s, c) IN
           /\ t \in Sessions
           /\ t.tx = Plus(s.tx, 1) /\ t.unacked = s.unacked + 1
           /\ t.acked = s.acked /\ t.rx = s.rx /\ t.buf = s.buf /\ t.expected = s.expected
           /\ t.segs = IF c THEN 0 ELSE s.segs
<1>1. Plus(s.tx, 1) \in Seqs /\ s.unacked + 1 \in Nat
    BY SeqArithmetic, ModulusPositive DEF Sessions
<1> DEFINE t == TakePlace(s, c)
<1>2. t = [s EXCEPT !.tx = Plus(s.tx, 1), !.unacked = s.unacked + 1,
                    !.owe = IF c THEN FALSE ELSE s.owe, !.segs = IF c THEN 0 ELSE s.segs]
    BY DEF TakePlace
<1> DEFINE o == IF c THEN FALSE ELSE s.owe
           g == IF c THEN 0 ELSE s.segs
           x == Plus(s.tx, 1)
           u == s.unacked + 1
<1>3. o \in BOOLEAN
    BY DEF Sessions
<1>4. g \in Nat
    BY DEF Sessions
<1>5. t = [s EXCEPT !.tx = x, !.unacked = u, !.owe = o, !.segs = g]
    BY <1>2
<1>6. x \in Seqs /\ u \in Nat
    BY <1>1
<1> HIDE DEF t, o, g, x, u
<1>7. t \in Sessions
    BY <1>3, <1>4, <1>5, <1>6 DEF Sessions
<1>8. /\ t.tx = x /\ t.unacked = u /\ t.segs = g
      /\ t.acked = s.acked /\ t.rx = s.rx /\ t.buf = s.buf /\ t.expected = s.expected
    BY <1>5 DEF Sessions
<1> QED BY <1>7, <1>8 DEF t, g, x, u

\* Reading: how an ack counts.
LEMMA NewlyCounts ==
    ASSUME NEW s \in Sessions, NEW f \in Frame
    PROVE  Newly(s, f) \in 0 .. Modulus - 1
<1>1. s.acked \in Seqs /\ (f.ack # NoAck => f.ack \in Seqs)
    BY Payloads DEF Sessions
<1>2. f.ack # NoAck => Minus(f.ack, s.acked) \in Seqs
    BY <1>1, SeqArithmetic
<1> QED BY <1>2, ModulusPositive DEF Newly, Seqs

\* Reading: what Incoming does to the fields of a session.
LEMMA FrameRead ==
    ASSUME NEW s \in Sessions, NEW f \in Frame, Newly(s, f) <= s.unacked
    PROVE  LET t == Incoming(s, f) IN
           /\ t \in Sessions
           /\ t.acked = (IF f.ack = NoAck THEN s.acked ELSE f.ack)
           /\ t.unacked = s.unacked - Newly(s, f)
           /\ t.tx = s.tx /\ t.rx = f.seq
           /\ t.segs = (IF f.payload = << >> THEN s.segs ELSE s.segs + 1)
           /\ t.buf = (IF f.beg \/ s.expected = 0 THEN << >> ELSE s.buf) \o f.payload
           /\ t.expected = (IF f.end THEN 0 ELSE IF f.beg THEN f.len ELSE s.expected)
<1>1. /\ f.seq \in Seqs /\ (f.ack # NoAck => f.ack \in Seqs) /\ f.len \in 0 .. MaxSegments
      /\ f.payload \in Seq(Parts)
    BY Payloads
<1>2. Newly(s, f) \in 0 .. Modulus - 1 /\ s.unacked \in Nat /\ s.segs \in Nat /\ s.acked \in Seqs
      /\ s.buf \in Seq(Parts) /\ s.expected \in 0 .. MaxSegments
    BY NewlyCounts DEF Sessions
<1>3. s.unacked - Newly(s, f) \in Nat
    BY <1>2, ModulusPositive
<1> DEFINE r == [s EXCEPT !.acked = IF f.ack = NoAck THEN s.acked ELSE f.ack,
                          !.unacked = s.unacked - Newly(s, f),
                          !.rx = f.seq, !.owe = TRUE,
                          !.segs = IF f.payload = << >> THEN s.segs ELSE s.segs + 1]
<1>4. Incoming(s, f) = Push(r, f)
    BY DEF Incoming
<1> DEFINE a == IF f.ack = NoAck THEN s.acked ELSE f.ack
           u == s.unacked - Newly(s, f)
           q == f.seq
           g == IF f.payload = << >> THEN s.segs ELSE s.segs + 1
<1>10. a \in Seqs /\ u \in Nat /\ q \in Seqs /\ g \in Nat
    BY <1>1, <1>2, <1>3
<1>11. r = [s EXCEPT !.acked = a, !.unacked = u, !.rx = q, !.owe = TRUE, !.segs = g]
    OBVIOUS
<1> HIDE DEF r, a, u, q, g
<1>12. r \in Sessions
    BY <1>10, <1>11 DEF Sessions
<1>13. /\ r.tx = s.tx /\ r.buf = s.buf /\ r.expected = s.expected
       /\ r.acked = a /\ r.unacked = u /\ r.rx = q /\ r.segs = g
    BY <1>11 DEF Sessions
<1>5. /\ r \in Sessions /\ r.tx = s.tx /\ r.buf = s.buf /\ r.expected = s.expected
      /\ r.acked = (IF f.ack = NoAck THEN s.acked ELSE f.ack)
      /\ r.unacked = s.unacked - Newly(s, f) /\ r.rx = f.seq
      /\ r.segs = IF f.payload = << >> THEN s.segs ELSE s.segs + 1
    BY <1>12, <1>13 DEF a, u, q, g
<1> HIDE DEF r
<1> DEFINE buf == (IF f.beg \/ r.expected = 0 THEN << >> ELSE r.buf) \o f.payload
           expected == IF f.end THEN 0 ELSE IF f.beg THEN f.len ELSE r.expected
<1>6. buf \in Seq(Parts) /\ expected \in 0 .. MaxSegments
  <2>1. (IF f.beg \/ r.expected = 0 THEN << >> ELSE r.buf) \in Seq(Parts)
      BY <1>2, <1>5, EmptySeq
  <2>2. expected \in 0 .. MaxSegments
      BY <1>1, <1>2, <1>5, BtpAssumption
  <2> QED BY <1>1, <2>1, <2>2, ConcatProperties
<1>7. Push(r, f) = [r EXCEPT !.buf = buf, !.expected = expected]
    BY DEF Push
<1>8. buf = (IF f.beg \/ s.expected = 0 THEN << >> ELSE s.buf) \o f.payload
      /\ expected = IF f.end THEN 0 ELSE IF f.beg THEN f.len ELSE s.expected
    BY <1>5
<1> HIDE DEF buf, expected
<1> DEFINE t == Push(r, f)
<1>9. /\ t \in Sessions /\ t.tx = r.tx /\ t.acked = r.acked /\ t.unacked = r.unacked
      /\ t.rx = r.rx /\ t.segs = r.segs /\ t.buf = buf /\ t.expected = expected
    BY <1>5, <1>6, <1>7 DEF Sessions
<1> HIDE DEF t
<1> QED BY <1>4, <1>5, <1>8, <1>9 DEF t
-----------------------------------------------------------------------------
(* The accounting of one direction                                         *)

\* How many frames the ack in f newly acknowledges to a sender that has been
\* acknowledged up to acked.
Acks(acked, f) == IF f.ack = NoAck THEN 0 ELSE Minus(f.ack, acked)

\* A sender with its tx, acked and unacked, the rx and segs of the end it sends
\* to, the frames x under way to that end and the frames y under way back.
Dir(tx, acked, unacked, rx, segs, x, y) ==
    /\ \A i \in 1 .. Len(x) : x[i].seq = Plus(rx, i)
    /\ tx = Plus(rx, Len(x) + 1)
    /\ Minus(tx, Plus(acked, 1)) = unacked
    /\ unacked \in 0 .. Modulus - 1
    /\ segs + Len(x) <= unacked
    /\ \A i \in 1 .. Len(y) : segs + Acks(acked, y[i]) + Len(x) <= unacked
    /\ \A i, j \in 1 .. Len(y) :
          i < j /\ y[j].ack # NoAck => Acks(acked, y[i]) <= Acks(acked, y[j])

Frames == Seq(Frame)

LEMMA AcksCount ==
    ASSUME NEW acked \in Seqs, NEW f \in Frame
    PROVE  Acks(acked, f) \in 0 .. Modulus - 1
<1>1. f.ack # NoAck => f.ack \in Seqs
    BY Payloads
<1>2. f.ack # NoAck => Minus(f.ack, acked) \in Seqs
    BY <1>1, SeqArithmetic
<1> QED BY <1>2, ModulusPositive DEF Acks, Seqs

LEMMA AcksNat ==
    ASSUME NEW acked \in Seqs, NEW y \in Frames
    PROVE  \A i \in 1 .. Len(y) : y[i] \in Frame /\ Acks(acked, y[i]) \in Nat
<1>1. SUFFICES ASSUME NEW i \in 1 .. Len(y) PROVE y[i] \in Frame /\ Acks(acked, y[i]) \in Nat
    OBVIOUS
<1>2. y[i] \in Frame
    BY DEF Frames
<1>3. Acks(acked, y[i]) \in 0 .. Modulus - 1
    BY <1>2, AcksCount
<1> QED BY <1>2, <1>3, ModulusPositive

\* The sender sends a frame, with or without an ack for the other direction.
LEMMA DirSend ==
    ASSUME NEW tx \in Seqs, NEW acked \in Seqs, NEW unacked \in Nat, NEW rx \in Seqs,
           NEW segs \in Nat, NEW x \in Frames, NEW y \in Frames, NEW f \in Frame,
           Dir(tx, acked, unacked, rx, segs, x, y),
           f.seq = tx, unacked + 1 <= Modulus - 1
    PROVE  Dir(Plus(tx, 1), acked, unacked + 1, rx, segs, Append(x, f), y)
<1> DEFINE z == Append(x, f)
<1>1. /\ Len(z) = Len(x) + 1 /\ z[Len(x) + 1] = f
      /\ \A i \in 1 .. Len(x) : z[i] = x[i]
    BY DEF Frames
<1>2. /\ Len(x) \in Nat /\ Len(x) <= unacked
      /\ \A i \in 1 .. Len(y) : Acks(acked, y[i]) \in Nat
  <2>1. Len(x) \in Nat /\ segs + Len(x) <= unacked
      BY DEF Dir, Frames
  <2> QED BY <2>1, AcksNat
<1> HIDE DEF z
<1>3. \A i \in 1 .. Len(z) : z[i].seq = Plus(rx, i)
    BY <1>1, <1>2 DEF Dir
<1>4. Plus(tx, 1) = Plus(rx, Len(z) + 1)
  <2>1. Len(x) + 1 \in 0 .. Modulus - 1
      BY <1>2, ModulusPositive
  <2> QED BY <1>1, <2>1, SeqArithmetic DEF Dir
<1>5. Minus(Plus(tx, 1), Plus(acked, 1)) = unacked + 1
  <2>1. Plus(acked, 1) \in Seqs /\ Plus(tx, 1) \in Seqs
      BY SeqArithmetic, ModulusPositive
  <2>2. Minus(tx, Plus(acked, 1)) = unacked
      BY DEF Dir
  <2> DEFINE q == Plus(acked, 1)
  <2>3. /\ unacked = IF tx >= q THEN tx - q ELSE tx - q + Modulus
        /\ Plus(tx, 1) = IF tx + 1 < Modulus THEN tx + 1 ELSE tx + 1 - Modulus
        /\ Minus(Plus(tx, 1), q) = IF Plus(tx, 1) >= q THEN Plus(tx, 1) - q
                                   ELSE Plus(tx, 1) - q + Modulus
      BY <2>1, <2>2, Wrap, ModulusPositive
  <2> HIDE DEF q
  <2> DEFINE v == Plus(tx, 1)
             m == Minus(v, q)
  <2>4. q \in Seqs /\ v \in Seqs
      BY <2>1 DEF q
  <2>5. m = unacked + 1
    <3>1. /\ unacked = IF tx >= q THEN tx - q ELSE tx - q + Modulus
          /\ v = IF tx + 1 < Modulus THEN tx + 1 ELSE tx + 1 - Modulus
          /\ m = IF v >= q THEN v - q ELSE v - q + Modulus
        BY <2>3
    <3> HIDE DEF v, m
    <3> QED BY <3>1, <2>4, ModulusPositive DEF Seqs
  <2> QED BY <2>5 DEF q
<1>6. /\ segs + Len(z) <= unacked + 1
      /\ \A i \in 1 .. Len(y) : segs + Acks(acked, y[i]) + Len(z) <= unacked + 1
    BY <1>1, <1>2 DEF Dir
<1>7. \A i, j \in 1 .. Len(y) :
          i < j /\ y[j].ack # NoAck => Acks(acked, y[i]) <= Acks(acked, y[j])
    BY DEF Dir
<1>8. unacked + 1 \in 0 .. Modulus - 1
    BY ModulusPositive
<1>9. Dir(Plus(tx, 1), acked, unacked + 1, rx, segs, z, y)
    BY <1>3, <1>4, <1>5, <1>6, <1>7, <1>8 DEF Dir
<1> QED BY <1>9 DEF z

\* The end that is sent to sends a frame back: an ack in it is for everything
\* that end has read.
LEMMA DirAnswer ==
    ASSUME NEW tx \in Seqs, NEW acked \in Seqs, NEW unacked \in Nat, NEW rx \in Seqs,
           NEW segs \in Nat, NEW x \in Frames, NEW y \in Frames, NEW f \in Frame,
           Dir(tx, acked, unacked, rx, segs, x, y),
           NEW left \in Nat,
           \/ f.ack = NoAck /\ left = segs
           \/ f.ack = rx /\ left = 0
    PROVE  Dir(tx, acked, unacked, rx, left, x, Append(y, f))
<1> DEFINE z == Append(y, f)
           N == Len(y)
<1>1. /\ Len(z) = N + 1 /\ z[N + 1] = f
      /\ \A i \in 1 .. N : z[i] = y[i]
    BY DEF Frames
<1>2. /\ Len(x) \in Nat /\ N \in Nat
      /\ \A i \in 1 .. N : Acks(acked, y[i]) \in 0 .. Modulus - 1
      /\ Acks(acked, f) \in 0 .. Modulus - 1
    BY AcksCount DEF Frames
<1>3. /\ \A i \in 1 .. N : segs + Acks(acked, y[i]) + Len(x) <= unacked
      /\ segs + Len(x) <= unacked /\ unacked \in 0 .. Modulus - 1
    BY DEF Dir
<1>4. left <= segs /\ left + Len(x) <= unacked
    BY <1>2, <1>3
<1>5. f.ack # NoAck => Acks(acked, f) = unacked - Len(x) /\ left = 0
  <2>1. SUFFICES ASSUME f.ack # NoAck PROVE Acks(acked, f) = unacked - Len(x) /\ left = 0
      OBVIOUS
  <2>2. f.ack = rx /\ left = 0
      BY <2>1
  <2>3. Len(x) \in 0 .. Modulus - 1 /\ unacked \in Len(x) .. Modulus - 1
      BY <1>2, <1>3, ModulusPositive
  <2>4. Minus(rx, acked) = unacked - Len(x)
      BY <2>3, Outstanding DEF Dir
  <2> QED BY <2>1, <2>2, <2>4 DEF Acks
<1>6. f.ack = NoAck => Acks(acked, f) = 0
    BY DEF Acks
<1> HIDE DEF z, N
<1>7. ASSUME NEW i \in 1 .. Len(z)
      PROVE  left + Acks(acked, z[i]) + Len(x) <= unacked
  <2>1. CASE i \in 1 .. N
      BY <1>1, <1>2, <1>3, <1>4, <2>1
  <2>2. CASE i = N + 1
      BY <1>1, <1>2, <1>3, <1>4, <1>5, <1>6, <2>2
  <2> QED BY <1>1, <1>2, <2>1, <2>2
<1>8. ASSUME NEW i \in 1 .. Len(z), NEW j \in 1 .. Len(z), i < j, z[j].ack # NoAck
      PROVE  Acks(acked, z[i]) <= Acks(acked, z[j])
  <2>1. i \in 1 .. N
      BY <1>1, <1>2, <1>8
  <2>2. CASE j \in 1 .. N
      BY <1>1, <1>8, <2>1, <2>2 DEF Dir, N
  <2>3. CASE j = N + 1
    <3>1. Acks(acked, z[j]) = unacked - Len(x)
        BY <1>1, <1>5, <1>8, <2>3
    <3>2. segs + Acks(acked, y[i]) + Len(x) <= unacked /\ z[i] = y[i]
        BY <1>1, <1>3, <2>1
    <3> QED BY <1>2, <2>1, <3>1, <3>2
  <2> QED BY <1>1, <1>2, <2>2, <2>3
<1>9. Dir(tx, acked, unacked, rx, left, x, z)
    BY <1>4, <1>7, <1>8 DEF Dir
<1> QED BY <1>9 DEF z

\* The end that is sent to reads the first frame; it counts it or not.
LEMMA DirRead ==
    ASSUME NEW tx \in Seqs, NEW acked \in Seqs, NEW unacked \in Nat, NEW rx \in Seqs,
           NEW segs \in Nat, NEW x \in Frames, NEW y \in Frames,
           Dir(tx, acked, unacked, rx, segs, x, y), x # << >>,
           NEW more \in Nat, more <= segs + 1
    PROVE  /\ Head(x).seq = Plus(rx, 1)
           /\ Dir(tx, acked, unacked, Head(x).seq, more, Tail(x), y)
<1> DEFINE z == Tail(x)
           N == Len(x)
<1>1. /\ N \in Nat \ {0} /\ Len(z) = N - 1 /\ Head(x) = x[1]
      /\ \A i \in 1 .. N - 1 : z[i] = x[i + 1]
    BY DEF Frames
<1>2. /\ x[1].seq = Plus(rx, 1) /\ tx = Plus(rx, N + 1) /\ N <= unacked
      /\ unacked \in 0 .. Modulus - 1 /\ segs + N <= unacked
      /\ \A i \in 1 .. N : x[i].seq = Plus(rx, i)
    BY <1>1 DEF Dir
<1>3. \A i \in 1 .. Len(y) : Acks(acked, y[i]) \in Nat
    BY AcksNat
<1> HIDE DEF z, N
<1> DEFINE r == Plus(rx, 1)
<1>4. \A i \in 1 .. Len(z) : z[i].seq = Plus(r, i)
  <2>1. SUFFICES ASSUME NEW i \in 1 .. N - 1 PROVE z[i].seq = Plus(r, i)
      BY <1>1
  <2>2. i \in 0 .. Modulus - 1 /\ i + 1 \in 1 .. N
      BY <1>1, <1>2, ModulusPositive
  <2>3. Plus(r, i) = Plus(rx, i + 1)
      BY <2>2, SeqArithmetic
  <2> QED BY <1>1, <1>2, <2>2, <2>3
<1>5. tx = Plus(r, Len(z) + 1)
  <2>1. N \in 0 .. Modulus - 1 /\ Len(z) + 1 = N
      BY <1>1, <1>2, ModulusPositive
  <2>2. Plus(r, N) = Plus(rx, N + 1)
      BY <2>1, SeqArithmetic
  <2> QED BY <1>2, <2>1, <2>2
<1>6. /\ more + Len(z) <= unacked
      /\ \A i \in 1 .. Len(y) : more + Acks(acked, y[i]) + Len(z) <= unacked
  <2>1. /\ segs + N <= unacked /\ more <= segs + 1 /\ more \in Nat
        /\ \A i \in 1 .. Len(y) : segs + Acks(acked, y[i]) + N <= unacked
      BY <1>2 DEF Dir, N
  <2> QED BY <1>1, <1>3, <2>1
<1>7. Dir(tx, acked, unacked, r, more, z, y)
    BY <1>2, <1>4, <1>5, <1>6 DEF Dir
<1> QED BY <1>1, <1>2, <1>7 DEF z

\* The sender reads the first frame of the other direction, and the ack in it.
LEMMA DirAcked ==
    ASSUME NEW tx \in Seqs, NEW acked \in Seqs, NEW unacked \in Nat, NEW rx \in Seqs,
           NEW segs \in Nat, NEW x \in Frames, NEW y \in Frames,
           Dir(tx, acked, unacked, rx, segs, x, y), y # << >>
    PROVE  LET f == Head(y) IN
           /\ Acks(acked, f) <= unacked
           /\ Dir(tx, IF f.ack = NoAck THEN acked ELSE f.ack, unacked - Acks(acked, f),
                  rx, segs, x, Tail(y))
<1> DEFINE z == Tail(y)
           N == Len(y)
           f == Head(y)
           n == Acks(acked, f)
<1>1. /\ N \in Nat \ {0} /\ Len(z) = N - 1 /\ f = y[1] /\ f \in Frame
      /\ \A i \in 1 .. N - 1 : z[i] = y[i + 1] /\ z[i] \in Frame
    BY DEF Frames
<1>2. /\ Len(x) \in Nat /\ n \in 0 .. Modulus - 1
      /\ \A i \in 1 .. N : Acks(acked, y[i]) \in Nat
    BY <1>1, AcksCount, ModulusPositive DEF Frames
<1>3. /\ segs + n + Len(x) <= unacked
      /\ \A i \in 1 .. N : segs + Acks(acked, y[i]) + Len(x) <= unacked
      /\ \A j \in 1 .. N : 1 < j /\ y[j].ack # NoAck => n <= Acks(acked, y[j])
      /\ \A i, j \in 1 .. N :
            i < j /\ y[j].ack # NoAck => Acks(acked, y[i]) <= Acks(acked, y[j])
      /\ Minus(tx, Plus(acked, 1)) = unacked /\ unacked \in 0 .. Modulus - 1
    BY <1>1 DEF Dir
<1>4. n <= unacked
    BY <1>2, <1>3
<1>5. CASE f.ack = NoAck
  <2>1. n = 0
      BY <1>5 DEF Acks
  <2> HIDE DEF z, N, f, n
  <2>2. \A i \in 1 .. Len(z) : segs + Acks(acked, z[i]) + Len(x) <= unacked
      BY <1>1, <1>3
  <2>3. ASSUME NEW i \in 1 .. Len(z), NEW j \in 1 .. Len(z), i < j, z[j].ack # NoAck
        PROVE  Acks(acked, z[i]) <= Acks(acked, z[j])
    <3>1. i + 1 \in 1 .. N /\ j + 1 \in 1 .. N /\ i + 1 < j + 1 /\ z[i] = y[i + 1] /\ z[j] = y[j + 1]
        BY <1>1, <2>3
    <3> QED BY <1>3, <2>3, <3>1
  <2>4. Dir(tx, acked, unacked, rx, segs, x, z)
      BY <2>2, <2>3 DEF Dir
  <2>5. unacked - n = unacked
      BY <2>1
  <2> QED BY <1>4, <1>5, <2>4, <2>5 DEF z, f, n
<1>6. CASE f.ack # NoAck
  <2> DEFINE a == f.ack
             u == unacked - n
  <2>1. a \in Seqs /\ n = Minus(a, acked) /\ u \in 0 .. Modulus - 1
      BY <1>1, <1>2, <1>3, <1>4, <1>6, Payloads, ModulusPositive DEF Acks
  <2> HIDE DEF z, N, f, n, a, u
  <2>2. /\ Minus(tx, Plus(a, 1)) = unacked - Minus(a, acked)
        /\ \A b \in Seqs : Minus(a, acked) <= Minus(b, acked) =>
              Minus(b, a) = Minus(b, acked) - Minus(a, acked)
      BY <1>2, <1>3, <1>4, <2>1, AckMoves
  <2>3. Minus(tx, Plus(a, 1)) = u
      BY <2>1, <2>2 DEF u
  <2>4. ASSUME NEW i \in 1 .. Len(z)
        PROVE  Acks(a, z[i]) = IF z[i].ack = NoAck THEN 0 ELSE Acks(acked, y[i + 1]) - n
    <3>1. z[i] \in Frame /\ z[i] = y[i + 1] /\ i + 1 \in 1 .. N /\ 1 < i + 1
        BY <1>1
    <3>2. CASE z[i].ack = NoAck
        BY <3>2 DEF Acks
    <3>3. CASE z[i].ack # NoAck
      <4>1. z[i].ack \in Seqs
          BY <3>1, <3>3, Payloads
      <4>2. Acks(acked, y[i + 1]) = Minus(z[i].ack, acked) /\ Acks(a, z[i]) = Minus(z[i].ack, a)
          BY <3>1, <3>3 DEF Acks
      <4>3. n <= Minus(z[i].ack, acked)
          BY <1>3, <3>1, <3>3, <4>2
      <4> QED BY <2>1, <2>2, <3>3, <4>1, <4>2, <4>3
    <3> QED BY <3>2, <3>3
  <2>5. segs + Len(x) <= u
      BY <1>2, <1>3 DEF u
  <2>6. ASSUME NEW i \in 1 .. Len(z)
        PROVE  segs + Acks(a, z[i]) + Len(x) <= u
    <3>1. i + 1 \in 1 .. N
        BY <1>1
    <3>2. segs + Acks(acked, y[i + 1]) + Len(x) <= unacked /\ Acks(acked, y[i + 1]) \in Nat
        BY <1>2, <1>3, <3>1
    <3>3. CASE z[i].ack = NoAck
        BY <1>2, <2>4, <2>5, <3>3
    <3>4. CASE z[i].ack # NoAck
        BY <1>2, <2>4, <3>2, <3>4 DEF u
    <3> QED BY <3>3, <3>4
  <2>7. ASSUME NEW i \in 1 .. Len(z), NEW j \in 1 .. Len(z), i < j, z[j].ack # NoAck
        PROVE  Acks(a, z[i]) <= Acks(a, z[j])
    <3>1. /\ i + 1 \in 1 .. N /\ j + 1 \in 1 .. N /\ i + 1 < j + 1 /\ 1 < j + 1
          /\ z[i] = y[i + 1] /\ z[j] = y[j + 1]
        BY <1>1, <2>7
    <3>2. /\ Acks(acked, y[i + 1]) <= Acks(acked, y[j + 1]) /\ n <= Acks(acked, y[j + 1])
          /\ Acks(acked, y[i + 1]) \in Nat /\ Acks(acked, y[j + 1]) \in Nat
        BY <1>2, <1>3, <2>7, <3>1
    <3>3. Acks(a, z[j]) = Acks(acked, y[j + 1]) - n
        BY <2>4, <2>7
    <3>4. CASE z[i].ack = NoAck
        BY <1>2, <2>4, <3>2, <3>3, <3>4
    <3>5. CASE z[i].ack # NoAck
      <4>1. Acks(a, z[i]) = Acks(acked, y[i + 1]) - n
          BY <2>4, <3>5
      <4> QED BY <1>2, <3>2, <3>3, <4>1
    <3> QED BY <3>4, <3>5
  <2>8. Dir(tx, a, u, rx, segs, x, z)
      BY <2>1, <2>3, <2>5, <2>6, <2>7 DEF Dir
  <2> QED BY <1>4, <1>6, <2>8 DEF z, f, n, a, u
<1> QED BY <1>5, <1>6
-----------------------------------------------------------------------------
(* The stream of one direction                                             *)

\* A position in the stream: d messages are complete, and c parts of the next.
\* Step: the frame f takes a reader from one position to the next.
Step(S, d, c, f, d2, c2) ==
    \/ /\ f.payload = << >> /\ ~f.beg /\ ~f.end
       /\ d2 = d /\ c2 = c
    \/ /\ d < Len(S) /\ c < Len(S[d + 1])
       /\ f.payload = <<<<d + 1, c + 1>>>>
       /\ f.beg = (c = 0) /\ f.end = (c + 1 = Len(S[d + 1]))
       /\ f.len = (IF c = 0 THEN Len(S[d + 1]) ELSE 0)
       /\ d2 = (IF f.end THEN d + 1 ELSE d)
       /\ c2 = (IF f.end THEN 0 ELSE c + 1)

\* Where the sender of the messages S is: all sent, or k parts of the last one.
Writer(S, n, k, d, c) ==
    \/ n = 0 /\ d = Len(S) /\ c = 0
    \/ /\ n > 0 /\ k < n /\ Len(S) > 0 /\ Len(S[Len(S)]) = n
       /\ d = Len(S) - 1 /\ c = k

\* Where the other end is: it has handed over G and holds the c parts in buf.
Reader(S, d, c, buf, expected, G) ==
    /\ d = Len(G) /\ d <= Len(S)
    /\ \/ c = 0 /\ expected = 0
       \/ /\ c > 0 /\ d < Len(S) /\ expected = Len(S[d + 1]) /\ c < expected
          /\ buf = Message(d + 1, c)

\* The frames x under way lead from where the reader is to where the sender is.
Stream(S, n, k, x, buf, expected, G) ==
    \E d, c \in [1 .. Len(x) + 1 -> Nat] :
        /\ \A i \in 1 .. Len(x) : Step(S, d[i], c[i], x[i], d[i + 1], c[i + 1])
        /\ Writer(S, n, k, d[Len(x) + 1], c[Len(x) + 1])
        /\ Reader(S, d[1], c[1], buf, expected, G)

\* The messages of one end.
Sent == {S \in Seq(Seq(Parts)) :
            /\ Len(S) <= MaxMessages["c"] + MaxMessages["p"]
            /\ \A i \in 1 .. Len(S) : \E n \in 1 .. MaxSegments : S[i] = Message(i, n)}

LEMMA MessageIs ==
    ASSUME NEW i \in Nat, NEW n \in Nat
    PROVE  /\ Len(Message(i, n)) = n
           /\ \A k \in 1 .. n : Message(i, n)[k] = <<i, k>>
           /\ Message(i, n) \in Seq(Nat \X Nat)
<1>1. Message(i, n) \in [1 .. n -> Nat \X Nat]
    BY DEF Message
<1>2. Message(i, n) \in Seq(Nat \X Nat)
    BY <1>1, SeqDef
<1>3. DOMAIN Message(i, n) = 1 .. n
    BY DEF Message
<1>4. Len(Message(i, n)) = n
    BY <1>2, <1>3, LenProperties
<1> QED BY <1>2, <1>4 DEF Message

LEMMA OneMore ==
    ASSUME NEW X, NEW m \in Seq(X), NEW l \in Seq(X), NEW p \in X,
           Len(l) = Len(m) + 1, l[Len(m) + 1] = p, \A k \in 1 .. Len(m) : l[k] = m[k]
    PROVE  m \o <<p>> = l
<1>1. m \o <<p>> = Append(m, p)
    BY AppendIsConcat
<1> DEFINE a == Append(m, p)
<1>2. /\ a \in Seq(X) /\ Len(a) = Len(m) + 1 /\ a[Len(m) + 1] = p
      /\ \A k \in 1 .. Len(m) : a[k] = m[k]
    BY AppendProperties
<1>3. Len(m) \in Nat
    OBVIOUS
<1> HIDE DEF a
<1>4. \A k \in 1 .. Len(a) : a[k] = l[k]
    BY <1>2, <1>3
<1>5. a = l
    BY <1>2, <1>4, SeqEqual
<1> QED BY <1>1, <1>5 DEF a

LEMMA MessageGrows ==
    ASSUME NEW i \in Nat, NEW n \in Nat
    PROVE  Message(i, n) \o <<<<i, n + 1>>>> = Message(i, n + 1)
<1> DEFINE X == Nat \X Nat
           m == Message(i, n)
           l == Message(i, n + 1)
           p == <<i, n + 1>>
<1>1. /\ m \in Seq(X) /\ Len(m) = n /\ \A k \in 1 .. n : m[k] = <<i, k>>
      /\ l \in Seq(X) /\ Len(l) = n + 1 /\ \A k \in 1 .. n + 1 : l[k] = <<i, k>>
  <2>1. n + 1 \in Nat
      OBVIOUS
  <2> QED BY <2>1, MessageIs, Zenon
<1>2. p \in X
    OBVIOUS
<1>3. l[n + 1] = p /\ \A k \in 1 .. n : l[k] = m[k]
  <2>1. n + 1 \in 1 .. n + 1 /\ \A k \in 1 .. n : k \in 1 .. n + 1
      OBVIOUS
  <2> QED BY <1>1, <2>1, Zenon
<1> HIDE DEF m, l, p, X
<1>4. m \o <<p>> = l
    BY <1>1, <1>2, <1>3, OneMore
<1> QED BY <1>4 DEF m, l, p

LEMMA SentIs ==
    ASSUME NEW S \in Sent
    PROVE  /\ S \in Seq(Seq(Parts)) /\ Len(S) \in Nat
           /\ \A i \in 1 .. Len(S) : Len(S[i]) \in 1 .. MaxSegments /\ S[i] = Message(i, Len(S[i]))
<1>1. S \in Seq(Seq(Parts)) /\ Len(S) \in Nat
    BY DEF Sent
<1>2. ASSUME NEW i \in 1 .. Len(S)
      PROVE  Len(S[i]) \in 1 .. MaxSegments /\ S[i] = Message(i, Len(S[i]))
  <2>1. PICK n \in 1 .. MaxSegments : S[i] = Message(i, n)
      BY DEF Sent
  <2>2. i \in Nat /\ n \in Nat
      BY <1>1, BtpAssumption
  <2>3. Len(Message(i, n)) = n
      BY <2>2, MessageIs
  <2> QED BY <2>1, <2>3
<1> QED BY <1>1, <1>2

\* The sender takes up the next message.
LEMMA StreamBegin ==
    ASSUME NEW S \in Sent, NEW k, NEW x \in Frames, NEW buf, NEW expected,
           NEW G, Stream(S, 0, k, x, buf, expected, G),
           NEW n \in 1 .. MaxSegments, Len(S) + 1 <= MaxMessages["c"] + MaxMessages["p"]
    PROVE  LET T == Append(S, Message(Len(S) + 1, n)) IN
           T \in Sent /\ Stream(T, n, 0, x, buf, expected, G)
<1> DEFINE m == Message(Len(S) + 1, n)
           T == Append(S, m)
           N == Len(x) + 1
<1>1. /\ S \in Seq(Seq(Parts)) /\ Len(S) \in Nat /\ MaxSegments \in Nat
      /\ \A i \in 1 .. Len(S) : Len(S[i]) \in 1 .. MaxSegments
    BY SentIs, BtpAssumption
<1>2. m \in Seq(Parts) /\ Len(m) = n
  <2>1. Len(S) + 1 \in Numbers
      BY <1>1 DEF Numbers
  <2>2. m \in [1 .. n -> Parts]
      BY <1>1, <2>1 DEF Message, Parts
  <2>3. n \in Nat /\ Len(S) + 1 \in Nat
      BY <1>1
  <2> QED BY <2>2, <2>3, SeqDef, MessageIs
<1>3. m = Message(Len(S) + 1, n)
    OBVIOUS
<1> HIDE DEF m
<1>4. /\ T \in Seq(Seq(Parts)) /\ Len(T) = Len(S) + 1 /\ T[Len(S) + 1] = m
      /\ \A i \in 1 .. Len(S) : T[i] = S[i]
    BY <1>1, <1>2
<1> HIDE DEF T
<1>5. T \in Sent
  <2>1. ASSUME NEW i \in 1 .. Len(T)
        PROVE  \E l \in 1 .. MaxSegments : T[i] = Message(i, l)
    <3>1. CASE i \in 1 .. Len(S)
        BY <1>4, <3>1 DEF Sent
    <3>2. CASE i = Len(S) + 1
        BY <1>3, <1>4, <3>2
    <3> QED BY <1>1, <1>4, <3>1, <3>2
  <2> QED BY <1>1, <1>4, <2>1 DEF Sent
<1>6. PICK d \in [1 .. N -> Nat], c \in [1 .. N -> Nat] :
        /\ \A i \in 1 .. Len(x) : Step(S, d[i], c[i], x[i], d[i + 1], c[i + 1])
        /\ Writer(S, 0, k, d[N], c[N])
        /\ Reader(S, d[1], c[1], buf, expected, G)
    BY DEF Stream
<1>7. Len(x) \in Nat
    BY DEF Frames
<1>8. ASSUME NEW i \in 1 .. Len(x)
      PROVE  Step(T, d[i], c[i], x[i], d[i + 1], c[i + 1])
  <2>1. Step(S, d[i], c[i], x[i], d[i + 1], c[i + 1]) /\ d[i] \in Nat
      BY <1>6, <1>7
  <2>2. d[i] < Len(S) => d[i] + 1 \in 1 .. Len(S) /\ T[d[i] + 1] = S[d[i] + 1] /\ d[i] < Len(T)
      BY <1>1, <1>4, <2>1
  <2> QED BY <2>1, <2>2 DEF Step
<1>9. Writer(T, n, 0, d[N], c[N])
    BY <1>1, <1>2, <1>4, <1>6 DEF Writer
<1>10. Reader(T, d[1], c[1], buf, expected, G)
  <2>1. d[1] \in Nat
      BY <1>7
  <2>2. d[1] < Len(S) => d[1] + 1 \in 1 .. Len(S) /\ T[d[1] + 1] = S[d[1] + 1]
      BY <1>1, <1>4, <2>1
  <2> QED BY <1>1, <1>4, <1>6, <2>1, <2>2 DEF Reader
<1>11. Stream(T, n, 0, x, buf, expected, G)
    BY <1>6, <1>8, <1>9, <1>10 DEF Stream
<1> QED BY <1>5, <1>11 DEF T, m
\* The sender sends a frame that takes a reader from where the sender was to
\* where it is then.
LEMMA StreamGrows ==
    ASSUME NEW S, NEW n, NEW k, NEW x \in Frames, NEW f \in Frame, NEW buf, NEW expected, NEW G,
           Stream(S, n, k, x, buf, expected, G), NEW n2, NEW k2,
           \A d, c \in Nat : Writer(S, n, k, d, c) =>
               \E d2, c2 \in Nat : Step(S, d, c, f, d2, c2) /\ Writer(S, n2, k2, d2, c2)
    PROVE  Stream(S, n2, k2, Append(x, f), buf, expected, G)
<1> DEFINE z == Append(x, f)
           L == Len(x)
           N == Len(x) + 1
<1>1. /\ L \in Nat /\ Len(z) = N /\ z[N] = f /\ \A i \in 1 .. L : z[i] = x[i]
    BY DEF Frames
<1>2. PICK d \in [1 .. N -> Nat], c \in [1 .. N -> Nat] :
        /\ \A i \in 1 .. L : Step(S, d[i], c[i], x[i], d[i + 1], c[i + 1])
        /\ Writer(S, n, k, d[N], c[N])
        /\ Reader(S, d[1], c[1], buf, expected, G)
    BY DEF Stream
<1>3. d[N] \in Nat /\ c[N] \in Nat
    BY <1>1
<1>4. PICK d2 \in Nat, c2 \in Nat : Step(S, d[N], c[N], f, d2, c2) /\ Writer(S, n2, k2, d2, c2)
    BY <1>2, <1>3
<1> DEFINE e == [i \in 1 .. N + 1 |-> IF i = N + 1 THEN d2 ELSE d[i]]
           b == [i \in 1 .. N + 1 |-> IF i = N + 1 THEN c2 ELSE c[i]]
<1> HIDE DEF z
<1>5. /\ e \in [1 .. N + 1 -> Nat] /\ b \in [1 .. N + 1 -> Nat]
      /\ e[N + 1] = d2 /\ b[N + 1] = c2
      /\ \A i \in 1 .. N : e[i] = d[i] /\ b[i] = c[i]
    BY <1>1
<1> HIDE DEF e, b
<1>6. ASSUME NEW i \in 1 .. N
      PROVE  Step(S, e[i], b[i], z[i], e[i + 1], b[i + 1])
  <2>1. CASE i \in 1 .. L
    <3>1. i + 1 \in 1 .. N /\ z[i] = x[i]
        BY <1>1, <2>1
    <3>2. e[i] = d[i] /\ b[i] = c[i] /\ e[i + 1] = d[i + 1] /\ b[i + 1] = c[i + 1]
        BY <1>5, <3>1
    <3> QED BY <1>2, <2>1, <3>1, <3>2
  <2>2. CASE i = N
    <3>1. e[i] = d[N] /\ b[i] = c[N] /\ e[i + 1] = d2 /\ b[i + 1] = c2 /\ z[i] = f
        BY <1>1, <1>5, <2>2
    <3> QED BY <1>4, <3>1
  <2> QED BY <1>1, <2>1, <2>2
<1>7. 1 \in 1 .. N
    BY <1>1
<1>8. Reader(S, e[1], b[1], buf, expected, G)
    BY <1>2, <1>5, <1>7
<1>9. Writer(S, n2, k2, e[N + 1], b[N + 1])
    BY <1>4, <1>5
<1>10. Stream(S, n2, k2, z, buf, expected, G)
    BY <1>1, <1>5, <1>6, <1>8, <1>9 DEF Stream
<1> QED BY <1>10 DEF z

\* A standalone ack.
LEMMA StreamAck ==
    ASSUME NEW S, NEW n, NEW k, NEW x \in Frames, NEW f \in Frame, NEW buf, NEW expected, NEW G,
           Stream(S, n, k, x, buf, expected, G), f.payload = << >>, ~f.beg, ~f.end
    PROVE  Stream(S, n, k, Append(x, f), buf, expected, G)
<1>1. ASSUME NEW d \in Nat, NEW c \in Nat
      PROVE  Step(S, d, c, f, d, c)
    BY DEF Step
<1> QED BY <1>1, StreamGrows

\* A segment.
LEMMA StreamSegment ==
    ASSUME NEW S \in Sent, NEW n \in Nat, NEW k \in Nat, NEW x \in Frames, NEW f \in Frame,
           NEW buf, NEW expected, NEW G,
           Stream(S, n, k, x, buf, expected, G), n > 0, k < n,
           f.payload = <<<<Len(S), k + 1>>>>, f.beg = (k = 0), f.end = (k + 1 = n),
           f.len = (IF k = 0 THEN n ELSE 0)
    PROVE  Stream(S, IF k + 1 = n THEN 0 ELSE n, IF k + 1 = n THEN 0 ELSE k + 1,
                  Append(x, f), buf, expected, G)
<1> DEFINE n2 == IF k + 1 = n THEN 0 ELSE n
           k2 == IF k + 1 = n THEN 0 ELSE k + 1
<1>1. ASSUME NEW d \in Nat, NEW c \in Nat, Writer(S, n, k, d, c)
      PROVE  \E d2, c2 \in Nat : Step(S, d, c, f, d2, c2) /\ Writer(S, n2, k2, d2, c2)
  <2>1. Len(S) \in Nat
      BY SentIs
  <2>2. /\ Len(S) > 0 /\ Len(S[Len(S)]) = n /\ d = Len(S) - 1 /\ c = k
      BY <1>1 DEF Writer
  <2>3. d + 1 = Len(S) /\ d < Len(S)
      BY <2>1, <2>2
  <2> DEFINE d2 == IF k + 1 = n THEN d + 1 ELSE d
             c2 == IF k + 1 = n THEN 0 ELSE c + 1
  <2>4. Step(S, d, c, f, d2, c2)
    <3>1. f.payload = <<<<d + 1, c + 1>>>>
        BY <2>2, <2>3
    <3>2. /\ f.beg = (c = 0) /\ f.end = (c + 1 = Len(S[d + 1]))
          /\ f.len = IF c = 0 THEN Len(S[d + 1]) ELSE 0
        BY <2>2, <2>3
    <3>3. c < Len(S[d + 1])
        BY <2>2, <2>3
    <3>4. d2 = (IF f.end THEN d + 1 ELSE d) /\ c2 = (IF f.end THEN 0 ELSE c + 1)
        OBVIOUS
    <3> QED BY <2>3, <3>1, <3>2, <3>3, <3>4 DEF Step
  <2>5. Writer(S, n2, k2, d2, c2)
    <3>1. CASE k + 1 = n
        BY <2>1, <2>2, <2>3, <3>1 DEF Writer
    <3>2. CASE k + 1 # n
        BY <2>1, <2>2, <2>3, <3>2 DEF Writer
    <3> QED BY <3>1, <3>2
  <2>6. d2 \in Nat /\ c2 \in Nat
      OBVIOUS
  <2> QED BY <2>4, <2>5, <2>6
<1> HIDE DEF n2, k2
<1>2. Stream(S, n2, k2, Append(x, f), buf, expected, G)
    BY <1>1, StreamGrows
<1> QED BY <1>2 DEF n2, k2
\* The buffer and the expected length of a session that reads f (Push).
BufAfter(s, f) == (IF f.beg \/ s.expected = 0 THEN << >> ELSE s.buf) \o f.payload
ExpectedAfter(s, f) == IF f.end THEN 0 ELSE IF f.beg THEN f.len ELSE s.expected

\* What reading a frame at the position of the reader comes to.
ReadsOn(S, s, f, G, d2, c2) ==
    /\ PushVerdict(s, f) # "error"
    /\ PushVerdict(s, f) = "message" => Len(G) < Len(S) /\ BufAfter(s, f) = S[Len(G) + 1]
    /\ Reader(S, d2, c2, BufAfter(s, f), ExpectedAfter(s, f),
              IF PushVerdict(s, f) = "message" THEN Append(G, BufAfter(s, f)) ELSE G)

LEMMA ReadAck ==
    ASSUME NEW S \in Sent, NEW s \in Sessions, NEW f \in Frame, NEW G \in Seq(Seq(Parts)),
           NEW d \in Nat, NEW c \in Nat, Reader(S, d, c, s.buf, s.expected, G),
           f.payload = << >>, ~f.beg, ~f.end
    PROVE  ReadsOn(S, s, f, G, d, c)
<1>1. s.buf \in Seq(Parts) /\ s.expected \in 0 .. MaxSegments
    BY DEF Sessions
<1>2. CASE s.expected = 0
  <2>1. PushVerdict(s, f) = "none"
      BY <1>2 DEF PushVerdict
  <2>2. ExpectedAfter(s, f) = 0
      BY <1>2 DEF ExpectedAfter
  <2>3. c = 0
      BY <1>2 DEF Reader
  <2>4. Reader(S, d, c, BufAfter(s, f), ExpectedAfter(s, f), G)
      BY <2>2, <2>3 DEF Reader
  <2> QED BY <2>1, <2>4 DEF ReadsOn
<1>3. CASE s.expected # 0
  <2>1. s.buf \o f.payload = s.buf
      BY <1>1, ConcatEmptySeq
  <2>2. BufAfter(s, f) = s.buf /\ ExpectedAfter(s, f) = s.expected
      BY <1>3, <2>1 DEF BufAfter, ExpectedAfter
  <2>3. c > 0 /\ d < Len(S) /\ d = Len(G) /\ c < s.expected /\ s.buf = Message(d + 1, c)
      BY <1>3 DEF Reader
  <2>4. d + 1 \in Nat
      OBVIOUS
  <2>5. Len(s.buf) = c
    <3>1. Len(Message(d + 1, c)) = c
        BY <2>4, MessageIs, Zenon
    <3> QED BY <2>3, <3>1
  <2>6. PushVerdict(s, f) = "none"
      BY <1>1, <1>3, <2>1, <2>3, <2>5 DEF PushVerdict
  <2> QED BY <2>2, <2>6 DEF ReadsOn
<1> QED BY <1>2, <1>3

LEMMA ReadSegment ==
    ASSUME NEW S \in Sent, NEW s \in Sessions, NEW f \in Frame, NEW G \in Seq(Seq(Parts)),
           NEW d \in Nat, NEW c \in Nat, Reader(S, d, c, s.buf, s.expected, G),
           d < Len(S), c < Len(S[d + 1]), f.payload = <<<<d + 1, c + 1>>>>,
           f.beg = (c = 0), f.end = (c + 1 = Len(S[d + 1])),
           f.len = (IF c = 0 THEN Len(S[d + 1]) ELSE 0)
    PROVE  ReadsOn(S, s, f, G, IF f.end THEN d + 1 ELSE d, IF f.end THEN 0 ELSE c + 1)
<1> DEFINE n == Len(S[d + 1])
           buf == BufAfter(s, f)
<1>1. /\ d + 1 \in Nat /\ d + 1 \in 1 .. Len(S) /\ n \in 1 .. MaxSegments
      /\ S[d + 1] = Message(d + 1, n) /\ d = Len(G)
  <2>1. d = Len(G) /\ Len(S) \in Nat
      BY SentIs DEF Reader
  <2>2. d + 1 \in 1 .. Len(S)
      BY <2>1
  <2> QED BY <2>1, <2>2, SentIs
<1>2. buf = Message(d + 1, c + 1)
  <2>1. CASE c = 0
    <3>1. f.payload \in Seq(Parts)
        BY Payloads
    <3>2. << >> \o f.payload = f.payload
        BY <3>1, ConcatEmptySeq
    <3>3. Message(d + 1, 0) \o f.payload = Message(d + 1, c + 1)
        BY <1>1, <2>1, MessageGrows
    <3>4. Message(d + 1, 0) = << >>
      <4>1. Message(d + 1, 0) \in Seq(Nat \X Nat) /\ Len(Message(d + 1, 0)) = 0
          BY <1>1, MessageIs
      <4> QED BY <4>1, EmptySeq
    <3> QED BY <2>1, <3>3, <3>4 DEF BufAfter
  <2>2. CASE c # 0
    <3>1. s.buf = Message(d + 1, c) /\ s.expected # 0
        BY <2>2, <1>1 DEF Reader
    <3>2. Message(d + 1, c) \o f.payload = Message(d + 1, c + 1)
        BY <1>1, MessageGrows
    <3>3. buf = s.buf \o f.payload
        BY <2>2, <3>1 DEF BufAfter
    <3> QED BY <3>1, <3>2, <3>3
  <2> QED BY <2>1, <2>2
<1>3. Len(buf) = c + 1
    BY <1>1, <1>2, MessageIs
<1>4. /\ (IF f.beg THEN f.len ELSE s.expected) = n
      /\ buf = (IF f.beg THEN << >> ELSE s.buf) \o f.payload
      /\ ~(f.beg /\ s.expected # 0) /\ ~(~f.beg /\ s.expected = 0)
  <2>1. CASE c = 0
    <3>1. f.beg /\ f.len = n
        BY <2>1
    <3>2. s.expected = 0
        BY <2>1 DEF Reader
    <3> QED BY <3>1, <3>2 DEF BufAfter
  <2>2. CASE c # 0
    <3>1. s.expected = n /\ s.expected # 0
        BY <1>1, <2>2 DEF Reader
    <3> QED BY <2>2, <3>1 DEF BufAfter
  <2> QED BY <2>1, <2>2
<1>5. PushVerdict(s, f) = IF f.end THEN "message" ELSE "none"
  <2>1. ~(n < Len(buf))
      BY <1>1, <1>3
  <2>2. f.end => Len(buf) = n
      BY <1>3
  <2> DEFINE v == (IF f.beg THEN << >> ELSE s.buf) \o f.payload
             w == IF f.beg THEN f.len ELSE s.expected
  <2>3. v = buf /\ w = n
      BY <1>4
  <2>4. PushVerdict(s, f) =
          CASE f.beg /\ s.expected # 0 -> "error"
            [] ~f.beg /\ s.expected = 0 -> IF f.payload = << >> THEN "none" ELSE "error"
            [] OTHER -> IF w < Len(v) THEN "error"
                        ELSE IF ~f.end THEN "none"
                        ELSE IF Len(v) = w THEN "message" ELSE "error"
      BY DEF PushVerdict
  <2> HIDE DEF v, w, n, buf
  <2> QED BY <1>4, <2>1, <2>2, <2>3, <2>4
<1>6. CASE f.end
  <2>1. PushVerdict(s, f) = "message" /\ ExpectedAfter(s, f) = 0
      BY <1>5, <1>6 DEF ExpectedAfter
  <2>2. buf = S[d + 1] /\ Len(G) < Len(S)
      BY <1>1, <1>2, <1>6
  <2>3. buf \in Seq(Parts) /\ Len(Append(G, buf)) = d + 1
    <3>1. buf \in Seq(Parts)
        BY <1>1, <2>2, SentIs
    <3> HIDE DEF buf
    <3> QED BY <1>1, <3>1
  <2>4. Reader(S, d + 1, 0, buf, 0, Append(G, buf))
    <3> HIDE DEF buf, n
    <3> QED BY <1>1, <2>3 DEF Reader
  <2>5. Reader(S, IF f.end THEN d + 1 ELSE d, IF f.end THEN 0 ELSE c + 1, buf,
               ExpectedAfter(s, f), IF PushVerdict(s, f) = "message" THEN Append(G, buf) ELSE G)
      BY <1>6, <2>1, <2>4
  <2> QED BY <1>1, <2>1, <2>2, <2>5 DEF ReadsOn
<1>7. CASE ~f.end
  <2>1. PushVerdict(s, f) = "none" /\ ExpectedAfter(s, f) = n
      BY <1>4, <1>5, <1>7 DEF ExpectedAfter
  <2>2. Reader(S, d, c + 1, buf, n, G)
    <3>1. c + 1 < n /\ c + 1 > 0
      <4>1. c + 1 # Len(S[d + 1])
          BY <1>7
      <4>2. c < n /\ c + 1 # n
          BY <4>1
      <4> HIDE DEF n
      <4> QED BY <1>1, <4>2
    <3> HIDE DEF buf
    <3>2. d = Len(G) /\ d <= Len(S)
        BY DEF Reader
    <3> QED BY <1>2, <3>1, <3>2 DEF Reader
  <2>3. Reader(S, IF f.end THEN d + 1 ELSE d, IF f.end THEN 0 ELSE c + 1, buf,
               ExpectedAfter(s, f), IF PushVerdict(s, f) = "message" THEN Append(G, buf) ELSE G)
      BY <1>7, <2>1, <2>2
  <2> QED BY <2>1, <2>3 DEF ReadsOn
<1> QED BY <1>6, <1>7

\* The reader reads the first frame under way.
LEMMA StreamRead ==
    ASSUME NEW S \in Sent, NEW n, NEW k, NEW x \in Frames, x # << >>,
           NEW s \in Sessions, NEW G \in Seq(Seq(Parts)),
           Stream(S, n, k, x, s.buf, s.expected, G)
    PROVE  LET f == Head(x) IN
           /\ PushVerdict(s, f) # "error"
           /\ PushVerdict(s, f) = "message" => Len(G) < Len(S) /\ BufAfter(s, f) = S[Len(G) + 1]
           /\ Stream(S, n, k, Tail(x), BufAfter(s, f), ExpectedAfter(s, f),
                     IF PushVerdict(s, f) = "message" THEN Append(G, BufAfter(s, f)) ELSE G)
<1> DEFINE f == Head(x)
           z == Tail(x)
           L == Len(x)
           N == Len(x) + 1
           H == IF PushVerdict(s, f) = "message" THEN Append(G, BufAfter(s, f)) ELSE G
<1>1. /\ L \in Nat \ {0} /\ Len(z) = L - 1 /\ f = x[1] /\ f \in Frame
      /\ \A i \in 1 .. L - 1 : z[i] = x[i + 1]
    BY DEF Frames
<1>2. PICK d \in [1 .. N -> Nat], c \in [1 .. N -> Nat] :
        /\ \A i \in 1 .. L : Step(S, d[i], c[i], x[i], d[i + 1], c[i + 1])
        /\ Writer(S, n, k, d[N], c[N])
        /\ Reader(S, d[1], c[1], s.buf, s.expected, G)
    BY DEF Stream
<1>3. Step(S, d[1], c[1], f, d[2], c[2]) /\ d[1] \in Nat /\ c[1] \in Nat
  <2>1. 1 \in 1 .. L /\ 1 \in 1 .. N /\ 1 + 1 = 2
      BY <1>1
  <2>2. Step(S, d[1], c[1], x[1], d[1 + 1], c[1 + 1])
      BY <1>2, <2>1
  <2> QED BY <1>1, <2>1, <2>2
<1> HIDE DEF f, z
<1>4. ReadsOn(S, s, f, G, d[2], c[2])
  <2>1. CASE f.payload = << >> /\ ~f.beg /\ ~f.end /\ d[2] = d[1] /\ c[2] = c[1]
    <3>1. ReadsOn(S, s, f, G, d[1], c[1])
        BY <1>1, <1>2, <1>3, <2>1, ReadAck
    <3> QED BY <2>1, <3>1
  <2>2. CASE ~(f.payload = << >> /\ ~f.beg /\ ~f.end /\ d[2] = d[1] /\ c[2] = c[1])
    <3> DEFINE p == d[1]
               q == c[1]
    <3>1. /\ p < Len(S) /\ q < Len(S[p + 1]) /\ f.payload = <<<<p + 1, q + 1>>>>
          /\ f.beg = (q = 0) /\ f.end = (q + 1 = Len(S[p + 1]))
          /\ f.len = (IF q = 0 THEN Len(S[p + 1]) ELSE 0)
          /\ d[2] = (IF f.end THEN p + 1 ELSE p) /\ c[2] = (IF f.end THEN 0 ELSE q + 1)
        BY <1>3, <2>2 DEF Step
    <3>2. p \in Nat /\ q \in Nat /\ Reader(S, p, q, s.buf, s.expected, G)
        BY <1>2, <1>3
    <3> HIDE DEF p, q
    <3>3. ReadsOn(S, s, f, G, IF f.end THEN p + 1 ELSE p, IF f.end THEN 0 ELSE q + 1)
        BY <1>1, <3>1, <3>2, ReadSegment
    <3> QED BY <3>1, <3>3
  <2> QED BY <2>1, <2>2
<1> DEFINE e == [i \in 1 .. L |-> d[i + 1]]
           b == [i \in 1 .. L |-> c[i + 1]]
<1>5. /\ e \in [1 .. L -> Nat] /\ b \in [1 .. L -> Nat]
      /\ \A i \in 1 .. L : e[i] = d[i + 1] /\ b[i] = c[i + 1]
    BY <1>1
<1> HIDE DEF e, b, H
<1>6. ASSUME NEW i \in 1 .. L - 1
      PROVE  Step(S, e[i], b[i], z[i], e[i + 1], b[i + 1])
  <2>1. i \in 1 .. L /\ i + 1 \in 1 .. L /\ z[i] = x[i + 1]
      BY <1>1
  <2>2. Step(S, d[i + 1], c[i + 1], x[i + 1], d[i + 1 + 1], c[i + 1 + 1])
      BY <1>2, <2>1
  <2> QED BY <1>5, <2>1, <2>2
<1>7. Writer(S, n, k, e[L], b[L]) /\ e[1] = d[2] /\ b[1] = c[2]
    BY <1>1, <1>2, <1>5
<1>8. Reader(S, e[1], b[1], BufAfter(s, f), ExpectedAfter(s, f), H)
    BY <1>4, <1>7 DEF ReadsOn, H
<1>9. Len(z) + 1 = L
    BY <1>1
<1>10. Stream(S, n, k, z, BufAfter(s, f), ExpectedAfter(s, f), H)
  <2>1. \A i \in 1 .. Len(z) : Step(S, e[i], b[i], z[i], e[i + 1], b[i + 1])
      BY <1>1, <1>6
  <2>2. /\ e \in [1 .. Len(z) + 1 -> Nat] /\ b \in [1 .. Len(z) + 1 -> Nat]
        /\ Writer(S, n, k, e[Len(z) + 1], b[Len(z) + 1])
      BY <1>5, <1>7, <1>9
  <2> QED BY <1>8, <2>1, <2>2 DEF Stream
<1> QED BY <1>4, <1>10 DEF ReadsOn, f, z, H
-----------------------------------------------------------------------------
(* Two ends                                                                *)

\* An end s and the other end t, the frames x from s and y from t, window w.
Agree(w, s, t, x, y) ==
    /\ s \in Sessions /\ t \in Sessions /\ x \in Frames /\ y \in Frames
    /\ s.unacked <= w /\ t.unacked <= w
    /\ Dir(s.tx, s.acked, s.unacked, t.rx, t.segs, x, y)
    /\ Dir(t.tx, t.acked, t.unacked, s.rx, s.segs, y, x)

LEMMA SessionFields ==
    ASSUME NEW s \in Sessions
    PROVE  /\ s.tx \in Seqs /\ s.acked \in Seqs /\ s.rx \in Seqs
           /\ s.unacked \in Nat /\ s.segs \in Nat
BY DEF Sessions

LEMMA AgreeIsSymmetric ==
    ASSUME NEW w, NEW s, NEW t, NEW x, NEW y, Agree(w, s, t, x, y)
    PROVE  Agree(w, t, s, y, x)
BY DEF Agree

\* s sends a frame, with an ack or without.
LEMMA AgreeSend ==
    ASSUME NEW w \in 0 .. Modulus - 1, NEW s, NEW t, NEW x, NEW y, Agree(w, s, t, x, y),
           NEW c \in BOOLEAN, NEW f \in Frame, s.unacked < w,
           f.seq = s.tx, f.ack = IF c THEN s.rx ELSE NoAck
    PROVE  Agree(w, TakePlace(s, c), t, Append(x, f), y)
<1> DEFINE r == TakePlace(s, c)
           z == Append(x, f)
<1>1. /\ s \in Sessions /\ t \in Sessions /\ x \in Frames /\ y \in Frames
      /\ Dir(s.tx, s.acked, s.unacked, t.rx, t.segs, x, y)
      /\ Dir(t.tx, t.acked, t.unacked, s.rx, s.segs, y, x)
      /\ t.unacked <= w
    BY DEF Agree
<1>2. /\ s.tx \in Seqs /\ s.acked \in Seqs /\ s.rx \in Seqs /\ s.unacked \in Nat /\ s.segs \in Nat
      /\ t.tx \in Seqs /\ t.acked \in Seqs /\ t.rx \in Seqs /\ t.unacked \in Nat /\ t.segs \in Nat
    BY <1>1, SessionFields
<1>3. /\ r \in Sessions
      /\ r.tx = Plus(s.tx, 1) /\ r.unacked = s.unacked + 1
      /\ r.acked = s.acked /\ r.rx = s.rx /\ r.segs = IF c THEN 0 ELSE s.segs
    BY <1>1, PlaceTaken
<1>4. z \in Frames
    BY <1>1 DEF Frames
<1> HIDE DEF r, z
<1>5. s.unacked + 1 <= Modulus - 1 /\ s.unacked + 1 <= w
    BY <1>2, ModulusPositive
<1>6. Dir(Plus(s.tx, 1), s.acked, s.unacked + 1, t.rx, t.segs, Append(x, f), y)
    BY <1>1, <1>2, <1>5, DirSend
<1>7. Dir(t.tx, t.acked, t.unacked, s.rx, IF c THEN 0 ELSE s.segs, y, Append(x, f))
  <2>1. CASE c
    <3>1. f.ack = s.rx /\ 0 \in Nat
        BY <2>1
    <3>2. Dir(t.tx, t.acked, t.unacked, s.rx, 0, y, Append(x, f))
        BY <1>1, <1>2, <3>1, DirAnswer
    <3> QED BY <2>1, <3>2
  <2>2. CASE ~c
    <3>1. f.ack = NoAck
        BY <2>2
    <3>2. Dir(t.tx, t.acked, t.unacked, s.rx, s.segs, y, Append(x, f))
        BY <1>1, <1>2, <3>1, DirAnswer
    <3> QED BY <2>2, <3>2
  <2> QED BY <2>1, <2>2
<1>8. /\ Dir(r.tx, r.acked, r.unacked, t.rx, t.segs, z, y)
      /\ Dir(t.tx, t.acked, t.unacked, r.rx, r.segs, y, z)
    BY <1>3, <1>6, <1>7 DEF z
<1>9. r.unacked <= w
    BY <1>3, <1>5
<1>10. Agree(w, r, t, z, y)
    BY <1>1, <1>3, <1>4, <1>8, <1>9 DEF Agree
<1> QED BY <1>10 DEF r, z

\* s reads the first frame from t.
LEMMA AgreeRead ==
    ASSUME NEW w \in 0 .. Modulus - 1, NEW s, NEW t, NEW x, NEW y, Agree(w, s, t, x, y), y # << >>
    PROVE  LET f == Head(y) IN
           /\ f \in Frame /\ Newly(s, f) <= s.unacked /\ f.seq = Plus(s.rx, 1)
           /\ Agree(w, Incoming(s, f), t, x, Tail(y))
<1> DEFINE f == Head(y)
           r == Incoming(s, f)
           z == Tail(y)
<1>1. /\ s \in Sessions /\ t \in Sessions /\ x \in Frames /\ y \in Frames
      /\ Dir(s.tx, s.acked, s.unacked, t.rx, t.segs, x, y)
      /\ Dir(t.tx, t.acked, t.unacked, s.rx, s.segs, y, x)
      /\ t.unacked <= w /\ s.unacked <= w
    BY DEF Agree
<1>2. /\ s.tx \in Seqs /\ s.acked \in Seqs /\ s.rx \in Seqs /\ s.unacked \in Nat /\ s.segs \in Nat
      /\ t.tx \in Seqs /\ t.acked \in Seqs /\ t.rx \in Seqs /\ t.unacked \in Nat /\ t.segs \in Nat
    BY <1>1, SessionFields
<1>3. f \in Frame /\ z \in Frames
    BY <1>1 DEF Frames
<1>4. Newly(s, f) = Acks(s.acked, f)
    BY DEF Newly, Acks
<1> DEFINE a == IF f.ack = NoAck THEN s.acked ELSE f.ack
           g == IF f.payload = << >> THEN s.segs ELSE s.segs + 1
<1>5. Newly(s, f) <= s.unacked /\ Dir(s.tx, a, s.unacked - Newly(s, f), t.rx, t.segs, x, z)
  <2>1. Acks(s.acked, f) <= s.unacked /\ Dir(s.tx, a, s.unacked - Acks(s.acked, f), t.rx, t.segs, x, z)
      BY <1>1, <1>2, DirAcked, Zenon
  <2> QED BY <1>4, <2>1, Zenon
<1>6. g \in Nat /\ g <= s.segs + 1
    BY <1>2
<1>7. f.seq = Plus(s.rx, 1) /\ Dir(t.tx, t.acked, t.unacked, f.seq, g, z, x)
  <2> HIDE DEF g
  <2> QED BY <1>1, <1>2, <1>6, DirRead, Zenon
<1>8. /\ r \in Sessions /\ r.acked = a /\ r.unacked = s.unacked - Newly(s, f)
      /\ r.tx = s.tx /\ r.rx = f.seq /\ r.segs = g
    BY <1>1, <1>3, <1>5, FrameRead
<1>9. r.unacked <= w
  <2>1. Newly(s, f) \in Nat
      BY <1>1, <1>3, NewlyCounts, ModulusPositive
  <2> HIDE DEF r, f
  <2> QED BY <1>1, <1>2, <1>8, <2>1
<1> HIDE DEF f, r, z, a, g
<1>10. /\ Dir(r.tx, r.acked, r.unacked, t.rx, t.segs, x, z)
       /\ Dir(t.tx, t.acked, t.unacked, r.rx, r.segs, z, x)
    BY <1>5, <1>7, <1>8
<1>11. Agree(w, r, t, x, z)
    BY <1>1, <1>3, <1>8, <1>9, <1>10 DEF Agree
<1> QED BY <1>3, <1>5, <1>7, <1>11 DEF f, r, z
-----------------------------------------------------------------------------
(* The inductive invariant                                                 *)

Typed ==
    /\ phase \in {"handshake", "open", "closed", "refused", "violated",
                  "timeout_send", "timeout_idle"}
    /\ win \in 0 .. Modulus - 1
    /\ st \in [Ends -> Sessions] /\ link \in [Ends -> Frames]
    /\ out \in [Ends -> [n : 0 .. MaxSegments, k : Nat]]
    /\ sent \in [Ends -> Sent] /\ got \in [Ends -> Seq(Seq(Parts))]
    /\ \A e \in Ends : Len(sent[e]) <= MaxMessages[e]

\* The window is chosen in the handshake.
Fresh == phase = "handshake" => win = 0

Accounted == \A e \in Ends : Agree(win, st[e], st[Other(e)], link[e], link[Other(e)])

Flowing(e) ==
    Stream(sent[e], out[e].n, out[e].k, link[e],
           st[Other(e)].buf, st[Other(e)].expected, got[Other(e)])

IInv ==
    /\ Typed
    /\ Fresh
    /\ Accounted
    /\ \A e \in Ends : Flowing(e)
    /\ NoFalseViolation

LEMMA OtherEnd ==
    ASSUME NEW e \in Ends
    PROVE  Other(e) \in Ends /\ Other(e) # e /\ Other(Other(e)) = e /\ Ends = {e, Other(e)}
BY DEF Ends, Other

LEMMA BothEnds ==
    ASSUME NEW w, NEW s, NEW l, NEW e \in Ends,
           Agree(w, s[e], s[Other(e)], l[e], l[Other(e)])
    PROVE  \A o \in Ends : Agree(w, s[o], s[Other(o)], l[o], l[Other(o)])
<1>1. Agree(w, s[Other(e)], s[e], l[Other(e)], l[e])
    BY AgreeIsSymmetric
<1> QED BY <1>1, OtherEnd

\* A standalone ack and a segment are frames.
LEMMA AckIsFrame ==
    ASSUME NEW s \in Sessions
    PROVE  /\ StandaloneAck(s) \in Frame
           /\ StandaloneAck(s).seq = s.tx /\ StandaloneAck(s).ack = s.rx
           /\ StandaloneAck(s).payload = << >> /\ ~StandaloneAck(s).beg /\ ~StandaloneAck(s).end
<1>1. s.tx \in Seqs /\ s.rx \in Seqs
    BY SessionFields
<1>2. s.tx \in 0 .. Modulus - 1 /\ s.rx \in 0 .. Modulus /\ 0 \in 0 .. MaxSegments
    BY <1>1, ModulusPositive, BtpAssumption DEF Seqs
<1> QED BY <1>2 DEF StandaloneAck, Frame

\* An end sends a frame.
LEMMA Sends ==
    ASSUME Typed, Accounted, NEW e \in Ends, NEW c \in BOOLEAN, NEW f \in Frame,
           HasRoom(st[e]), f.seq = st[e].tx, f.ack = IF c THEN st[e].rx ELSE NoAck,
           st' = [st EXCEPT ![e] = TakePlace(@, c)],
           link' = [link EXCEPT ![e] = Append(@, f)], win' = win
    PROVE  /\ st' \in [Ends -> Sessions] /\ link' \in [Ends -> Frames] /\ Accounted'
           /\ \A o \in Ends : st'[o].buf = st[o].buf /\ st'[o].expected = st[o].expected
<1> DEFINE p == Other(e)
<1>1. p \in Ends /\ p # e
    BY OtherEnd
<1>2. /\ st \in [Ends -> Sessions] /\ link \in [Ends -> Frames] /\ win \in 0 .. Modulus - 1
      /\ Agree(win, st[e], st[p], link[e], link[p]) /\ st[e].unacked < win
    BY DEF Typed, Accounted, HasRoom
<1> HIDE DEF p
<1>3. /\ st'[e] = TakePlace(st[e], c) /\ st'[p] = st[p]
      /\ link'[e] = Append(link[e], f) /\ link'[p] = link[p]
    BY <1>1, <1>2
<1>4. Agree(win, TakePlace(st[e], c), st[p], Append(link[e], f), link[p])
    BY <1>2, AgreeSend
<1>5. Agree(win', st'[e], st'[p], link'[e], link'[p])
    BY <1>3, <1>4
<1>6. Accounted'
    BY <1>5, BothEnds DEF Accounted, p
<1>7. TakePlace(st[e], c) \in Sessions /\ Append(link[e], f) \in Frames
    BY <1>4 DEF Agree
<1>8. st' \in [Ends -> Sessions] /\ link' \in [Ends -> Frames]
    BY <1>2, <1>7
<1>9. TakePlace(st[e], c).buf = st[e].buf /\ TakePlace(st[e], c).expected = st[e].expected
    BY <1>2, PlaceTaken
<1>10. ASSUME NEW o \in Ends
       PROVE  st'[o].buf = st[o].buf /\ st'[o].expected = st[o].expected
  <2>1. CASE o = e
      BY <1>3, <1>9, <2>1
  <2>2. CASE o # e
      BY <1>2, <2>2
  <2> QED BY <2>1, <2>2
<1> QED BY <1>6, <1>8, <1>10

\* What Receive makes of the frame that arrives.
LEMMA Arrives ==
    ASSUME IInv, NEW e \in Ends, link[Other(e)] # << >>
    PROVE  /\ Arrived(e) \in Frame
           /\ Outcome(e) = PushVerdict(st[e], Arrived(e)) /\ Outcome(e) # "error"
           /\ Read(e) \in Sessions
           /\ Read(e).buf = BufAfter(st[e], Arrived(e))
           /\ Read(e).expected = ExpectedAfter(st[e], Arrived(e))
           /\ Agree(win, Read(e), st[Other(e)], link[e], Tail(link[Other(e)]))
           /\ Outcome(e) = "message" =>
                 Len(got[e]) < Len(sent[Other(e)]) /\ Read(e).buf = sent[Other(e)][Len(got[e]) + 1]
           /\ Stream(sent[Other(e)], out[Other(e)].n, out[Other(e)].k, Tail(link[Other(e)]),
                     Read(e).buf, Read(e).expected,
                     IF Outcome(e) = "message" THEN Append(got[e], Read(e).buf) ELSE got[e])
<1> DEFINE p == Other(e)
           f == Head(link[p])
           s == st[e]
<1>1. p \in Ends /\ Other(p) = e
    BY OtherEnd
<1>2. /\ s \in Sessions /\ sent[p] \in Sent /\ got[e] \in Seq(Seq(Parts)) /\ link[p] \in Frames
      /\ win \in 0 .. Modulus - 1
      /\ Agree(win, s, st[p], link[e], link[p])
      /\ Stream(sent[p], out[p].n, out[p].k, link[p], s.buf, s.expected, got[e])
    BY <1>1 DEF IInv, Typed, Accounted, Flowing
<1>3. link[p] # << >>
    OBVIOUS
<1> HIDE DEF p, s
<1>4. /\ f \in Frame /\ Newly(s, f) <= s.unacked /\ f.seq = Plus(s.rx, 1)
      /\ Agree(win, Incoming(s, f), st[p], link[e], Tail(link[p]))
    BY <1>2, <1>3, AgreeRead
<1>5. /\ PushVerdict(s, f) # "error"
      /\ PushVerdict(s, f) = "message" =>
            Len(got[e]) < Len(sent[p]) /\ BufAfter(s, f) = sent[p][Len(got[e]) + 1]
      /\ Stream(sent[p], out[p].n, out[p].k, Tail(link[p]), BufAfter(s, f), ExpectedAfter(s, f),
                IF PushVerdict(s, f) = "message" THEN Append(got[e], BufAfter(s, f)) ELSE got[e])
    BY <1>2, <1>3, StreamRead, Zenon
<1>6. /\ Incoming(s, f) \in Sessions
      /\ Incoming(s, f).buf = BufAfter(s, f) /\ Incoming(s, f).expected = ExpectedAfter(s, f)
    BY <1>2, <1>4, FrameRead, Zenon DEF BufAfter, ExpectedAfter
<1>7. Verdict(s, f) = PushVerdict(s, f)
  <2>1. Newly(s, f) \in Nat /\ s.unacked \in Nat
      BY <1>2, <1>4, NewlyCounts, SessionFields, ModulusPositive
  <2>2. ~(Newly(s, f) > s.unacked \/ f.seq # Plus(s.rx, 1))
      BY <1>4, <2>1
  <2> QED BY <2>2, Zenon DEF Verdict
<1>8. Arrived(e) = f /\ Outcome(e) = Verdict(s, f) /\ Read(e) = Incoming(s, f)
    BY DEF Arrived, Outcome, Read, p, s
<1>9. Outcome(e) = PushVerdict(s, f)
    BY <1>7, <1>8
<1> HIDE DEF f
<1>10. /\ Arrived(e) \in Frame
       /\ Outcome(e) = PushVerdict(s, Arrived(e)) /\ Outcome(e) # "error"
       /\ Read(e) \in Sessions
       /\ Read(e).buf = BufAfter(s, Arrived(e))
       /\ Read(e).expected = ExpectedAfter(s, Arrived(e))
       /\ Agree(win, Read(e), st[p], link[e], Tail(link[p]))
    BY <1>4, <1>5, <1>6, <1>8, <1>9, Zenon
<1>11. Outcome(e) = "message" =>
          Len(got[e]) < Len(sent[p]) /\ Read(e).buf = sent[p][Len(got[e]) + 1]
    BY <1>5, <1>6, <1>8, <1>9, Zenon
<1>12. Stream(sent[p], out[p].n, out[p].k, Tail(link[p]), Read(e).buf, Read(e).expected,
              IF Outcome(e) = "message" THEN Append(got[e], Read(e).buf) ELSE got[e])
    BY <1>5, <1>6, <1>8, <1>9, Zenon
<1> QED BY <1>10, <1>11, <1>12 DEF p, s
\* Reading a frame and then, if c, acknowledging it at once.
LEMMA Receives ==
    ASSUME IInv, NEW e \in Ends, NEW c \in BOOLEAN, c => HasRoom(Read(e)),
           Receive(e, AckIf(c, Read(e))), UNCHANGED <<win, out, sent>>
    PROVE  IInv'
<1> DEFINE p == Other(e)
           r == Read(e)
           a == AckIf(c, r)
           m == IF Outcome(e) = "message" THEN Append(got[e], r.buf) ELSE got[e]
<1>1. p \in Ends /\ p # e /\ Other(p) = e /\ Ends = {e, p}
    BY OtherEnd
<1>2. link[p] # << >>
    BY DEF Receive
<1>3. /\ Outcome(e) # "error" /\ r \in Sessions
      /\ Agree(win, r, st[p], link[e], Tail(link[p]))
      /\ Outcome(e) = "message" =>
            Len(got[e]) < Len(sent[p]) /\ r.buf = sent[p][Len(got[e]) + 1]
      /\ Stream(sent[p], out[p].n, out[p].k, Tail(link[p]), r.buf, r.expected, m)
    BY <1>2, Arrives, Zenon
<1>4. /\ phase' = phase /\ st' = [st EXCEPT ![e] = a[1]]
      /\ link' = [link EXCEPT ![p] = Tail(@), ![e] = @ \o a[2]]
      /\ got' = IF Outcome(e) = "message" THEN [got EXCEPT ![e] = Append(@, r.buf)] ELSE got
    BY <1>3 DEF Receive
<1>5. /\ Typed /\ Fresh /\ Accounted /\ \A o \in Ends : Flowing(o)
      /\ NoFalseViolation
    BY DEF IInv
<1>6. /\ st \in [Ends -> Sessions] /\ link \in [Ends -> Frames] /\ got \in [Ends -> Seq(Seq(Parts))]
      /\ win \in 0 .. Modulus - 1 /\ sent \in [Ends -> Sent]
    BY <1>5 DEF Typed
<1> HIDE DEF p, r
<1>7. /\ Agree(win, a[1], st[p], link[e] \o a[2], Tail(link[p]))
      /\ a[1].buf = r.buf /\ a[1].expected = r.expected
      /\ (a[2] = << >> \/ (/\ a[2] = <<StandaloneAck(r)>>
                           /\ StandaloneAck(r) \in Frame))
      /\ \A S, n, k, buf, expected, G :
            Stream(S, n, k, link[e], buf, expected, G) =>
               Stream(S, n, k, link[e] \o a[2], buf, expected, G)
  <2>1. link[e] \in Frames
      BY <1>6
  <2>2. CASE c
    <3> DEFINE f == StandaloneAck(r)
    <3>1. a[1] = TakePlace(r, TRUE) /\ a[2] = <<f>>
        BY <2>2 DEF AckIf
    <3>2. /\ f \in Frame /\ f.seq = r.tx /\ f.ack = r.rx
          /\ f.payload = << >> /\ ~f.beg /\ ~f.end
        BY <1>3, AckIsFrame, Zenon
    <3> HIDE DEF f, a
    <3>3. r.unacked < win
        BY <2>2 DEF HasRoom, r
    <3>4. link[e] \o <<f>> = Append(link[e], f)
        BY <2>1, <3>2, AppendIsConcat DEF Frames
    <3>5. Agree(win, TakePlace(r, TRUE), st[p], Append(link[e], f), Tail(link[p]))
        BY <1>3, <1>6, <3>2, <3>3, AgreeSend
    <3>6. TakePlace(r, TRUE).buf = r.buf /\ TakePlace(r, TRUE).expected = r.expected
        BY <1>3, PlaceTaken, Zenon
    <3>7. ASSUME NEW S, NEW n, NEW k, NEW buf, NEW expected, NEW G,
                 Stream(S, n, k, link[e], buf, expected, G)
          PROVE  Stream(S, n, k, link[e] \o a[2], buf, expected, G)
      <4>1. Stream(S, n, k, Append(link[e], f), buf, expected, G)
          BY <2>1, <3>2, <3>7, StreamAck, Zenon
      <4> QED BY <3>1, <3>4, <4>1, Zenon
    <3>8. a[2] = <<f>> /\ f \in Frame /\ a[1].buf = r.buf /\ a[1].expected = r.expected
        BY <3>1, <3>2, <3>6, Zenon
    <3>9. Agree(win, a[1], st[p], link[e] \o a[2], Tail(link[p]))
        BY <3>1, <3>4, <3>5, Zenon
    <3> QED BY <3>7, <3>8, <3>9, Zenon DEF f
  <2>3. CASE ~c
    <3>1. a[1] = r /\ a[2] = << >>
        BY <2>3 DEF AckIf
    <3> HIDE DEF a
    <3>2. link[e] \o << >> = link[e]
        BY <2>1, ConcatEmptySeq DEF Frames
    <3>3. link[e] \o a[2] = link[e]
        BY <3>1, <3>2, Zenon
    <3> QED BY <1>3, <3>1, <3>3, Zenon
  <2> QED BY <2>2, <2>3
<1> HIDE DEF a, m
<1>8. /\ st'[e] = a[1] /\ st'[p] = st[p]
      /\ link'[e] = link[e] \o a[2] /\ link'[p] = Tail(link[p])
    BY <1>1, <1>4, <1>6
<1>9. Agree(win', st'[e], st'[p], link'[e], link'[p])
    BY <1>7, <1>8
<1>10. Accounted'
    BY <1>9, BothEnds DEF Accounted, p
<1>11. st' \in [Ends -> Sessions] /\ link' \in [Ends -> Frames]
  <2>1. a[1] \in Sessions /\ link[e] \o a[2] \in Frames /\ Tail(link[p]) \in Frames
      BY <1>7 DEF Agree
  <2> QED BY <1>1, <1>4, <1>6, <2>1
<1>12. got' \in [Ends -> Seq(Seq(Parts))] /\ got'[e] = m /\ got'[p] = got[p]
  <2>1. r.buf \in Seq(Parts)
      BY <1>3 DEF Sessions
  <2>2. CASE Outcome(e) = "message"
    <3>1. got' = [got EXCEPT ![e] = Append(@, r.buf)] /\ m = Append(got[e], r.buf)
        BY <1>4, <2>2 DEF m
    <3>2. Append(got[e], r.buf) \in Seq(Seq(Parts))
        BY <1>6, <2>1
    <3> QED BY <1>1, <1>6, <3>1, <3>2
  <2>3. CASE Outcome(e) # "message"
      BY <1>1, <1>4, <1>6, <2>3 DEF m
  <2> QED BY <2>2, <2>3
<1>13. Typed'
    BY <1>4, <1>5, <1>11, <1>12 DEF Typed
<1>14. Flowing(p)'
    BY <1>1, <1>3, <1>7, <1>8, <1>12 DEF Flowing
<1>15. Flowing(e)'
  <2>1. Stream(sent[e], out[e].n, out[e].k, link[e], st[p].buf, st[p].expected, got[p])
      BY <1>5 DEF Flowing, p
  <2>2. Stream(sent[e], out[e].n, out[e].k, link[e] \o a[2], st[p].buf, st[p].expected, got[p])
      BY <1>7, <2>1
  <2>3. Stream(sent'[e], out'[e].n, out'[e].k, link'[e], st'[p].buf, st'[p].expected, got'[p])
      BY <1>8, <1>12, <2>2
  <2> QED BY <2>3 DEF Flowing, p
<1>16. \A o \in Ends : Flowing(o)'
    BY <1>1, <1>14, <1>15
<1>17. Fresh' /\ NoFalseViolation'
    BY <1>4, <1>5 DEF Fresh, NoFalseViolation
<1> QED BY <1>10, <1>13, <1>16, <1>17 DEF IInv
\* An end sends a standalone ack.
LEMMA AckStep ==
    ASSUME IInv, NEW e \in Ends, HasRoom(st[e]), SendAck(e),
           UNCHANGED <<phase, win, out, sent, got>>
    PROVE  IInv'
<1> DEFINE f == StandaloneAck(st[e])
<1>1. /\ Typed /\ Fresh /\ Accounted /\ (\A o \in Ends : Flowing(o)) /\ NoFalseViolation
    BY DEF IInv
<1>2. st[e] \in Sessions /\ link \in [Ends -> Frames]
    BY <1>1 DEF Typed
<1>3. /\ f \in Frame /\ f.seq = st[e].tx /\ f.ack = st[e].rx
      /\ f.payload = << >> /\ ~f.beg /\ ~f.end
    BY <1>2, AckIsFrame, Zenon
<1>4. st' = [st EXCEPT ![e] = TakePlace(@, TRUE)] /\ link' = [link EXCEPT ![e] = Append(@, f)]
    BY DEF SendAck
<1> HIDE DEF f
<1>5. f.ack = IF TRUE THEN st[e].rx ELSE NoAck
    BY <1>3
<1>6. /\ st' \in [Ends -> Sessions] /\ link' \in [Ends -> Frames] /\ Accounted'
      /\ \A o \in Ends : st'[o].buf = st[o].buf /\ st'[o].expected = st[o].expected
    BY <1>1, <1>3, <1>4, <1>5, Sends
<1>7. Typed'
    BY <1>1, <1>6 DEF Typed
<1>8. ASSUME NEW o \in Ends
      PROVE  Flowing(o)'
  <2>1. Stream(sent[o], out[o].n, out[o].k, link[o],
               st[Other(o)].buf, st[Other(o)].expected, got[Other(o)])
      BY <1>1 DEF Flowing
  <2>2. Stream(sent[o], out[o].n, out[o].k, link'[o],
               st[Other(o)].buf, st[Other(o)].expected, got[Other(o)])
    <3>1. CASE o = e
      <4>1. link'[o] = Append(link[o], f) /\ link[o] \in Frames
          BY <1>2, <1>4, <3>1
      <4>2. Stream(sent[o], out[o].n, out[o].k, Append(link[o], f),
                   st[Other(o)].buf, st[Other(o)].expected, got[Other(o)])
          BY <1>3, <2>1, <4>1, StreamAck, Zenon
      <4> QED BY <4>1, <4>2
    <3>2. CASE o # e
        BY <1>2, <1>4, <2>1, <3>2
    <3> QED BY <3>1, <3>2
  <2>3. Other(o) \in Ends
      BY OtherEnd
  <2>4. st'[Other(o)].buf = st[Other(o)].buf /\ st'[Other(o)].expected = st[Other(o)].expected
      BY <1>6, <2>3
  <2> QED BY <2>2, <2>4 DEF Flowing
<1>9. Fresh' /\ NoFalseViolation'
    BY <1>1 DEF Fresh, NoFalseViolation
<1> QED BY <1>6, <1>7, <1>8, <1>9 DEF IInv

\* An end sends the next segment of its message.
LEMMA SegmentStep ==
    ASSUME IInv, NEW e \in Ends, NEW c \in BOOLEAN, SendSegment(e, c)
    PROVE  IInv'
<1> DEFINE f == Segment(e, c)
           s == st[e]
           S == sent[e]
           n == out[e].n
           k == out[e].k
           p == Other(e)
<1>1. /\ Typed /\ Fresh /\ Accounted /\ (\A o \in Ends : Flowing(o)) /\ NoFalseViolation
    BY DEF IInv
<1>2. /\ s \in Sessions /\ link \in [Ends -> Frames] /\ S \in Sent /\ n \in 0 .. MaxSegments
      /\ k \in Nat /\ out \in [Ends -> [n : 0 .. MaxSegments, k : Nat]] /\ MaxSegments \in Nat
      /\ link[e] \in Frames
    BY <1>1, BtpAssumption DEF Typed
<1>3. /\ n > 0 /\ HasRoom(s) /\ st' = [st EXCEPT ![e] = TakePlace(@, c)]
      /\ link' = [link EXCEPT ![e] = Append(@, f)]
      /\ out' = [out EXCEPT ![e] = IF @.k + 1 = @.n THEN [n |-> 0, k |-> 0]
                                                    ELSE [n |-> @.n, k |-> @.k + 1]]
      /\ UNCHANGED <<phase, win, sent, got>>
    BY DEF SendSegment
<1>4. Stream(S, n, k, link[e], st[p].buf, st[p].expected, got[p])
    BY <1>1 DEF Flowing
<1>5. k < n /\ Len(S) > 0 /\ Len(S[Len(S)]) = n
  <2>1. PICK d \in [1 .. Len(link[e]) + 1 -> Nat], b \in [1 .. Len(link[e]) + 1 -> Nat] :
          Writer(S, n, k, d[Len(link[e]) + 1], b[Len(link[e]) + 1])
      BY <1>4 DEF Stream
  <2> HIDE DEF n, k, S
  <2> QED BY <1>2, <1>3, <2>1 DEF Writer
<1>6. /\ f \in Frame /\ f.seq = s.tx /\ f.ack = (IF c THEN s.rx ELSE NoAck)
      /\ f.payload = <<<<Len(S), k + 1>>>> /\ f.beg = (k = 0) /\ f.end = (k + 1 = n)
      /\ f.len = (IF k = 0 THEN n ELSE 0)
  <2> DEFINE q == s.tx
             a == IF c THEN s.rx ELSE NoAck
             b == k = 0
             d == k + 1 = n
             l == IF k = 0 THEN n ELSE 0
             y == <<<<Len(S), k + 1>>>>
  <2>1. f = [seq |-> q, ack |-> a, beg |-> b, end |-> d, len |-> l, payload |-> y]
      BY DEF Segment
  <2>2. q \in 0 .. Modulus - 1 /\ a \in 0 .. Modulus
    <3>1. s.tx \in Seqs /\ s.rx \in Seqs
        BY <1>2, SessionFields
    <3>2. s.rx \in 0 .. Modulus /\ NoAck \in 0 .. Modulus
        BY <3>1, ModulusPositive DEF Seqs, NoAck
    <3> QED BY <3>1, <3>2 DEF Seqs
  <2>3. b \in BOOLEAN /\ d \in BOOLEAN
      OBVIOUS
  <2>4. l \in 0 .. MaxSegments
      BY <1>2
  <2>5. y \in {<< >>} \cup {<<<<i, j>>>> : i \in Numbers, j \in 1 .. MaxSegments}
    <3>1. Len(S) \in Numbers
      <4>1. Len(S) \in Nat /\ Len(S) <= MaxMessages["c"] + MaxMessages["p"]
          BY <1>2 DEF Sent
      <4>2. MaxMessages["c"] + MaxMessages["p"] \in Nat
          BY BtpAssumption DEF Ends
      <4> QED BY <1>5, <4>1, <4>2 DEF Numbers
    <3>2. k + 1 \in 1 .. MaxSegments
        BY <1>2, <1>5
    <3> QED BY <3>1, <3>2
  <2> HIDE DEF q, a, b, d, l, y
  <2>6. [seq |-> q, ack |-> a, beg |-> b, end |-> d, len |-> l, payload |-> y] \in Frame
      BY <2>2, <2>3, <2>4, <2>5 DEF Frame
  <2>7. /\ f \in Frame /\ f.seq = q /\ f.ack = a /\ f.beg = b /\ f.end = d /\ f.len = l
        /\ f.payload = y
    <3> HIDE DEF f
    <3> QED BY <2>1, <2>6
  <2> QED BY <2>7 DEF q, a, b, d, l, y
<1> HIDE DEF f
<1>7. /\ st' \in [Ends -> Sessions] /\ link' \in [Ends -> Frames] /\ Accounted'
      /\ \A o \in Ends : st'[o].buf = st[o].buf /\ st'[o].expected = st[o].expected
    BY <1>1, <1>3, <1>6, Sends
<1> DEFINE n2 == IF k + 1 = n THEN 0 ELSE n
           k2 == IF k + 1 = n THEN 0 ELSE k + 1
<1>8. /\ out' \in [Ends -> [n : 0 .. MaxSegments, k : Nat]]
      /\ out'[e].n = n2 /\ out'[e].k = k2 /\ \A o \in Ends \ {e} : out'[o] = out[o]
  <2> DEFINE w == IF k + 1 = n THEN [n |-> 0, k |-> 0] ELSE [n |-> n, k |-> k + 1]
  <2>1. out' = [out EXCEPT ![e] = w]
      BY <1>3
  <2>2. w \in [n : 0 .. MaxSegments, k : Nat] /\ w.n = n2 /\ w.k = k2
    <3>1. CASE k + 1 = n
        BY <1>2, <3>1
    <3>2. CASE k + 1 # n
        BY <1>2, <3>2
    <3> QED BY <3>1, <3>2
  <2> HIDE DEF w, n2, k2
  <2> QED BY <1>2, <2>1, <2>2
<1>9. Typed'
    BY <1>1, <1>3, <1>7, <1>8 DEF Typed
<1>10. Stream(S, n2, k2, Append(link[e], f), st[p].buf, st[p].expected, got[p])
  <2>1. n \in Nat
      BY <1>2
  <2> HIDE DEF n, k, S
  <2> QED BY <1>2, <1>3, <1>4, <1>5, <1>6, <2>1, StreamSegment, Zenon
<1> HIDE DEF n2, k2
<1>11. ASSUME NEW o \in Ends
       PROVE  Flowing(o)'
  <2>1. Other(o) \in Ends
      BY OtherEnd
  <2>2. st'[Other(o)].buf = st[Other(o)].buf /\ st'[Other(o)].expected = st[Other(o)].expected
      BY <1>7, <2>1
  <2>3. CASE o = e
    <3>1. link'[e] = Append(link[e], f)
        BY <1>2, <1>3
    <3> QED BY <1>3, <1>8, <1>10, <2>2, <2>3, <3>1 DEF Flowing
  <2>4. CASE o # e
    <3>1. link'[o] = link[o] /\ out'[o] = out[o]
        BY <1>2, <1>3, <1>8, <2>4
    <3>2. Flowing(o)
        BY <1>1
    <3> QED BY <1>3, <2>2, <3>1, <3>2 DEF Flowing
  <2> QED BY <2>3, <2>4
<1>12. Fresh' /\ NoFalseViolation'
    BY <1>1, <1>3 DEF Fresh, NoFalseViolation
<1> QED BY <1>7, <1>9, <1>11, <1>12 DEF IInv
\* An end takes up a message.
LEMMA BeginStep ==
    ASSUME IInv, NEW e \in Ends, Begin(e)
    PROVE  IInv'
<1> DEFINE S == sent[e]
           p == Other(e)
<1>1. /\ Typed /\ Fresh /\ Accounted /\ (\A o \in Ends : Flowing(o)) /\ NoFalseViolation
    BY DEF IInv
<1>2. PICK n \in 1 .. MaxSegments :
        /\ out' = [out EXCEPT ![e] = [n |-> n, k |-> 0]]
        /\ sent' = [sent EXCEPT ![e] = Append(@, Message(Len(@) + 1, n))]
    BY DEF Begin
<1>3. out[e].n = 0 /\ Len(S) < MaxMessages[e] /\ UNCHANGED <<phase, win, st, link, got>>
    BY DEF Begin
<1>4. /\ S \in Sent /\ link[e] \in Frames /\ MaxSegments \in Nat
      /\ out \in [Ends -> [n : 0 .. MaxSegments, k : Nat]] /\ sent \in [Ends -> Sent]
    BY <1>1, BtpAssumption DEF Typed
<1>5. Len(S) \in Nat
    BY <1>4, SentIs
<1>6. /\ Len(S) + 1 <= MaxMessages["c"] + MaxMessages["p"] /\ Len(S) + 1 <= MaxMessages[e]
    BY <1>3, <1>5, BtpAssumption DEF Ends
<1>7. Stream(S, 0, out[e].k, link[e], st[p].buf, st[p].expected, got[p])
    BY <1>1, <1>3 DEF Flowing
<1> DEFINE T == Append(S, Message(Len(S) + 1, n))
<1>8. T \in Sent /\ Stream(T, n, 0, link[e], st[p].buf, st[p].expected, got[p])
    BY <1>4, <1>6, <1>7, StreamBegin, Zenon
<1>9. Len(T) = Len(S) + 1
  <2>1. S \in Seq(Seq(Parts))
      BY <1>4 DEF Sent
  <2>2. Len(T) = Len(S) + 1
      BY <2>1
  <2> QED BY <2>2
<1>10. sent' = [sent EXCEPT ![e] = T]
    BY <1>2
<1> HIDE DEF T
<1>11. /\ sent' \in [Ends -> Sent] /\ sent'[e] = T /\ \A o \in Ends \ {e} : sent'[o] = sent[o]
    BY <1>4, <1>8, <1>10
<1>12. /\ out' \in [Ends -> [n : 0 .. MaxSegments, k : Nat]]
       /\ out'[e].n = n /\ out'[e].k = 0 /\ \A o \in Ends \ {e} : out'[o] = out[o]
    BY <1>2, <1>4
<1>13. \A o \in Ends : Len(sent'[o]) <= MaxMessages[o]
    BY <1>1, <1>6, <1>9, <1>11 DEF Typed
<1>14. Typed'
    BY <1>1, <1>3, <1>11, <1>12, <1>13 DEF Typed
<1>15. ASSUME NEW o \in Ends
       PROVE  Flowing(o)'
  <2>1. CASE o = e
      BY <1>3, <1>8, <1>11, <1>12, <2>1 DEF Flowing
  <2>2. CASE o # e
    <3>1. sent'[o] = sent[o] /\ out'[o] = out[o]
        BY <1>11, <1>12, <2>2
    <3> QED BY <1>1, <1>3, <3>1 DEF Flowing
  <2> QED BY <2>1, <2>2
<1>16. Accounted' /\ Fresh' /\ NoFalseViolation'
    BY <1>1, <1>3 DEF Accounted, Fresh, NoFalseViolation
<1> QED BY <1>14, <1>15, <1>16 DEF IInv

\* The handshake.
LEMMA ConnectStep ==
    ASSUME IInv, Connect
    PROVE  IInv'
<1>1. /\ Typed /\ Fresh /\ Accounted /\ (\A o \in Ends : Flowing(o)) /\ NoFalseViolation
    BY DEF IInv
<1>2. PICK ok \in BOOLEAN, w \in Windows :
        phase' = (IF ok /\ w # 0 THEN "open" ELSE "refused") /\ win' = w
    BY DEF Connect
<1>3. win = 0 /\ UNCHANGED <<st, out, link, sent, got>>
    BY <1>1 DEF Connect, Fresh
<1>4. win' \in 0 .. Modulus - 1
    BY <1>2, BtpAssumption
<1>5. Typed' /\ Fresh' /\ NoFalseViolation'
    BY <1>1, <1>2, <1>3, <1>4 DEF Typed, Fresh, NoFalseViolation
<1>6. Accounted'
  <2>1. ASSUME NEW e \in Ends
        PROVE  Agree(win', st[e], st[Other(e)], link[e], link[Other(e)])
    <3>1. Agree(0, st[e], st[Other(e)], link[e], link[Other(e)])
        BY <1>1, <1>3 DEF Accounted
    <3>2. st[e].unacked \in Nat /\ st[Other(e)].unacked \in Nat
        BY <3>1, SessionFields DEF Agree
    <3>3. st[e].unacked <= win' /\ st[Other(e)].unacked <= win'
        BY <1>4, <3>1, <3>2, ModulusPositive DEF Agree
    <3> QED BY <3>1, <3>3 DEF Agree
  <2> QED BY <1>3, <2>1 DEF Accounted
<1>7. \A e \in Ends : Flowing(e)'
    BY <1>1, <1>3 DEF Flowing
<1> QED BY <1>5, <1>6, <1>7 DEF IInv

\* A step that leaves the two ends and the link alone and does not end the
\* session for a violation.
LEMMA QuietStep ==
    ASSUME IInv, UNCHANGED <<win, st, out, link, sent, got>>,
           phase' \in {phase, "closed", "timeout_send", "timeout_idle"}
    PROVE  IInv'
<1>1. /\ Typed /\ Fresh /\ Accounted /\ (\A o \in Ends : Flowing(o)) /\ NoFalseViolation
    BY DEF IInv
<1>2. Typed' /\ Fresh' /\ NoFalseViolation'
    BY <1>1 DEF Typed, Fresh, NoFalseViolation
<1>3. Accounted' /\ \A e \in Ends : Flowing(e)'
    BY <1>1 DEF Accounted, Flowing
<1> QED BY <1>2, <1>3 DEF IInv

LEMMA InitHolds == Init => IInv
<1> SUFFICES ASSUME Init PROVE IInv
    OBVIOUS
<1> USE ModulusPositive
<1>1. /\ 0 \in Seqs /\ Modulus - 1 \in Seqs /\ 1 % Modulus \in Seqs /\ << >> \in Seq(Parts)
      /\ 0 \in 0 .. MaxSegments /\ MaxSegments \in Nat
  <2>1. 1 % Modulus \in 0 .. Modulus - 1
      OBVIOUS
  <2> QED BY <2>1, BtpAssumption, EmptySeq DEF Seqs
<1> DEFINE a == NewSession(0, Modulus - 1, 0)
           b == NewSession(1 % Modulus, 0, Modulus - 1)
<1>2. /\ a \in Sessions /\ b \in Sessions
      /\ a.tx = 0 /\ a.acked = Modulus - 1 /\ a.unacked = 0 /\ a.rx = 0 /\ a.segs = 0
      /\ a.expected = 0
      /\ b.tx = 1 % Modulus /\ b.acked = 0 /\ b.unacked = 0 /\ b.rx = Modulus - 1 /\ b.segs = 0
      /\ b.expected = 0
    BY <1>1 DEF NewSession, Sessions
<1> HIDE DEF a, b
<1>3. st = [e \in Ends |-> IF e = "c" THEN a ELSE b]
    BY DEF Init, a, b
<1>4. << >> \in Frames /\ Len(<< >>) = 0
    BY EmptySeq DEF Frames
<1>5. /\ st["c"] = a /\ st["p"] = b /\ st \in [Ends -> Sessions]
      /\ link["c"] = << >> /\ link["p"] = << >>
    BY <1>2, <1>3 DEF Init, Ends
<1>6. Dir(0, Modulus - 1, 0, Modulus - 1, 0, << >>, << >>)
  <2>1. Plus(Modulus - 1, 1) = 0
      BY <1>1, Wrap DEF Seqs
  <2>2. Minus(0, 0) = 0
      BY <1>1, SeqArithmetic
  <2>3. 0 = Plus(Modulus - 1, 0 + 1) /\ Minus(0, Plus(Modulus - 1, 1)) = 0 /\ 0 \in 0 .. Modulus - 1
      BY <2>1, <2>2
  <2> QED BY <1>4, <2>3 DEF Dir
<1>7. Dir(1 % Modulus, 0, 0, 0, 0, << >>, << >>)
  <2>1. Plus(0, 0 + 1) = 1 % Modulus /\ Plus(0, 1) = 1 % Modulus
      BY DEF Plus
  <2>2. Minus(1 % Modulus, 1 % Modulus) = 0
      BY <1>1, SeqArithmetic
  <2>3. 1 % Modulus = Plus(0, 0 + 1) /\ Minus(1 % Modulus, Plus(0, 1)) = 0 /\ 0 \in 0 .. Modulus - 1
      BY <2>1, <2>2
  <2> HIDE DEF Dir
  <2> QED BY <1>4, <2>3 DEF Dir
<1>8. Agree(0, a, b, << >>, << >>)
  <2>1. /\ Dir(a.tx, a.acked, a.unacked, b.rx, b.segs, << >>, << >>)
        /\ Dir(b.tx, b.acked, b.unacked, a.rx, a.segs, << >>, << >>)
      BY <1>2, <1>6, <1>7
  <2> QED BY <1>2, <1>4, <2>1 DEF Agree
<1>9. Accounted
  <2>1. Agree(win, st["c"], st[Other("c")], link["c"], link[Other("c")])
      BY <1>5, <1>8 DEF Init, Other
  <2>2. "c" \in Ends
      BY DEF Ends
  <2> QED BY <2>1, <2>2, BothEnds DEF Accounted
<1>10. << >> \in Sent /\ << >> \in Seq(Seq(Parts))
  <2>1. << >> \in Seq(Seq(Parts))
      BY EmptySeq
  <2>2. 0 <= MaxMessages["c"] + MaxMessages["p"]
      BY BtpAssumption DEF Ends
  <2> QED BY <1>4, <2>1, <2>2 DEF Sent
<1>11. Typed
  <2>1. \A e \in Ends : Len(sent[e]) <= MaxMessages[e]
      BY <1>4, BtpAssumption DEF Init
  <2>2. sent \in [Ends -> Sent] /\ got \in [Ends -> Seq(Seq(Parts))] /\ link \in [Ends -> Frames]
      BY <1>4, <1>10 DEF Init
  <2>3. out \in [Ends -> [n : 0 .. MaxSegments, k : Nat]]
      BY <1>1 DEF Init
  <2>4. win \in 0 .. Modulus - 1 /\ phase = "handshake"
      BY DEF Init
  <2> QED BY <1>5, <2>1, <2>2, <2>3, <2>4 DEF Typed
<1>12. ASSUME NEW e \in Ends
       PROVE  Flowing(e)
  <2> DEFINE d == [i \in 1 .. 1 |-> 0]
             s == st[Other(e)]
  <2>1. /\ sent[e] = << >> /\ link[e] = << >> /\ got[Other(e)] = << >> /\ out[e].n = 0
        /\ s.expected = 0
    <3>1. Other(e) \in Ends
        BY OtherEnd
    <3>2. s = a \/ s = b
        BY <1>3, <3>1
    <3> QED BY <1>2, <3>1, <3>2 DEF Init
  <2>2. d \in [1 .. 0 + 1 -> Nat] /\ d[1] = 0 /\ d[0 + 1] = 0
      OBVIOUS
  <2> HIDE DEF d, s
  <2>3. Writer(<< >>, 0, out[e].k, d[0 + 1], d[0 + 1])
      BY <1>4, <2>2 DEF Writer
  <2>4. Reader(<< >>, d[1], d[1], s.buf, 0, << >>)
      BY <1>4, <2>2 DEF Reader
  <2>5. Stream(<< >>, 0, out[e].k, << >>, s.buf, 0, << >>)
      BY <1>4, <2>2, <2>3, <2>4 DEF Stream
  <2> QED BY <2>1, <2>5 DEF Flowing, s
<1>13. Fresh /\ NoFalseViolation
    BY DEF Init, Fresh, NoFalseViolation
<1> QED BY <1>9, <1>11, <1>12, <1>13 DEF IInv
\* The three uses of Receive: what the code sends after a frame is an ack or
\* nothing, and an ack only where there is room.
LEMMA RecvStep ==
    ASSUME IInv, RecvIdle \/ RecvFull \/ PeerRecv
    PROVE  IInv'
<1>1. "c" \in Ends /\ "p" \in Ends
    BY DEF Ends
<1>2. UNCHANGED <<win, out, sent>>
    BY DEF RecvIdle, RecvFull, PeerRecv
<1>3. CASE PeerRecv
  <2>1. Receive("p", AckIf(FALSE, Read("p")))
      BY <1>3 DEF PeerRecv
  <2> QED BY <1>1, <1>2, <2>1, Receives
<1> DEFINE r == Read("c")
           q == r.owe /\ r.segs >= (IF win < 2 THEN 1 ELSE win \div 2) /\ HasRoom(r)
<1>4. q \in BOOLEAN /\ (q => HasRoom(r)) /\ ProactiveAck(r) = AckIf(q, r)
    BY DEF ProactiveAck
<1>5. CASE RecvIdle
  <2>1. Receive("c", IF Outcome("c") = "message" THEN AckIf(FALSE, r) ELSE ProactiveAck(r))
      BY <1>5 DEF RecvIdle
  <2>2. CASE Outcome("c") = "message"
    <3>1. Receive("c", AckIf(FALSE, r))
        BY <2>1, <2>2
    <3> QED BY <1>1, <1>2, <3>1, Receives
  <2>3. CASE Outcome("c") # "message"
    <3>1. Receive("c", AckIf(q, r))
        BY <1>4, <2>1, <2>3
    <3> HIDE DEF q
    <3> QED BY <1>1, <1>2, <1>4, <3>1, Receives
  <2> QED BY <2>2, <2>3
<1>6. CASE RecvFull
  <2>1. Receive("c", IF Outcome("c") = "message" THEN AckIf(HasRoom(r), r) ELSE ProactiveAck(r))
      BY <1>6 DEF RecvFull
  <2>2. CASE Outcome("c") = "message"
    <3> DEFINE h == HasRoom(r)
    <3>1. Receive("c", AckIf(h, r)) /\ h \in BOOLEAN /\ (h => HasRoom(r))
        BY <2>1, <2>2 DEF HasRoom
    <3> HIDE DEF h
    <3> QED BY <1>1, <1>2, <3>1, Receives
  <2>3. CASE Outcome("c") # "message"
    <3>1. Receive("c", AckIf(q, r))
        BY <1>4, <2>1, <2>3
    <3> HIDE DEF q
    <3> QED BY <1>1, <1>2, <1>4, <3>1, Receives
  <2> QED BY <2>2, <2>3
<1> QED BY <1>3, <1>5, <1>6

LEMMA NextKeeps ==
    ASSUME IInv, [Next]_vars
    PROVE  IInv'
<1>1. "c" \in Ends /\ "p" \in Ends
    BY DEF Ends
<1>2. CASE Connect
    BY <1>2, ConnectStep
<1>3. CASE RecvIdle \/ RecvFull \/ PeerRecv
    BY <1>3, RecvStep
<1>4. CASE SendMessage \/ PeerMessage
    BY <1>1, <1>4, BeginStep DEF SendMessage, PeerMessage
<1>5. CASE SendNext
  <2> DEFINE c == st["c"].owe /\ out["c"].k = 0
  <2>1. c \in BOOLEAN /\ SendSegment("c", c)
      BY <1>5 DEF SendNext
  <2> HIDE DEF c
  <2> QED BY <1>1, <2>1, SegmentStep
<1>6. CASE PeerSegment
  <2>1. SendSegment("p", st["p"].owe)
      BY <1>6 DEF PeerSegment
  <2>2. st["p"].owe \in BOOLEAN
      BY <1>1 DEF IInv, Typed, Sessions
  <2> QED BY <1>1, <2>1, <2>2, SegmentStep
<1>7. CASE WindowTimeout
    BY <1>7, QuietStep DEF WindowTimeout
<1>8. CASE KeepaliveTick
  <2>1. UNCHANGED <<win, out, sent, got>>
      BY <1>8 DEF KeepaliveTick
  <2>2. CASE phase' = "timeout_idle" /\ UNCHANGED <<st, link>>
      BY <2>1, <2>2, QuietStep
  <2>3. CASE HasRoom(st["c"]) /\ SendAck("c") /\ UNCHANGED phase
      BY <1>1, <2>1, <2>3, AckStep
  <2> QED BY <1>8, <2>2, <2>3 DEF KeepaliveTick
<1>9. CASE TimePasses
    BY <1>9, QuietStep DEF TimePasses
<1>10. CASE Lost
    BY <1>10, QuietStep DEF Lost
<1>11. CASE PeerAck
    BY <1>1, <1>11, AckStep DEF PeerAck
<1>12. CASE UNCHANGED vars
    BY <1>12, QuietStep DEF vars
<1> QED BY <1>2, <1>3, <1>4, <1>5, <1>6, <1>7, <1>8, <1>9, <1>10, <1>11, <1>12
        DEF Next, Central, Peripheral

LEMMA InvariantHolds == Spec => []IInv
<1>1. Init => IInv
    BY InitHolds
<1>2. IInv /\ [Next]_vars => IInv'
    BY NextKeeps
<1> QED BY <1>1, <1>2, PTL DEF Spec
-----------------------------------------------------------------------------
(* Theorems                                                                *)

\* For any modulus, windows and messages: the window bounds what is
\* unacknowledged, the numbers of the two ends agree through what is in flight,
\* however often they wrap, and process_incoming never takes a conforming end
\* for one that does not conform.
THEOREM FlowStaysSound == Spec => []FlowSound
<1>1. ASSUME IInv PROVE FlowSound
  <2>1. Typed /\ Accounted /\ NoFalseViolation
      BY <1>1 DEF IInv
  <2>2. ASSUME NEW e \in Ends
        PROVE  /\ st[e] \in Sessions /\ st[Other(e)] \in Sessions
               /\ link[e] \in Frames /\ link[Other(e)] \in Frames
               /\ st[e].unacked <= win /\ st[Other(e)].unacked <= win
               /\ Dir(st[e].tx, st[e].acked, st[e].unacked, st[Other(e)].rx, st[Other(e)].segs,
                      link[e], link[Other(e)])
               /\ Dir(st[Other(e)].tx, st[Other(e)].acked, st[Other(e)].unacked, st[e].rx,
                      st[e].segs, link[Other(e)], link[e])
      BY <2>1 DEF Accounted, Agree
  <2>3. TypeOK
    <3>1. ASSUME NEW e \in Ends
          PROVE  /\ {st[e].tx, st[e].acked, st[e].rx} \subseteq 0 .. Modulus - 1
                 /\ st[e].unacked \in 0 .. win /\ st[e].segs \in 0 .. win
                 /\ st[e].expected \in 0 .. MaxSegments
                 /\ \A i \in DOMAIN link[e] : link[e][i] \in Frame
      <4> DEFINE s == st[e]
                 t == st[Other(e)]
      <4>1. /\ s.tx \in Seqs /\ s.acked \in Seqs /\ s.rx \in Seqs
            /\ s.unacked \in Nat /\ s.segs \in Nat /\ t.unacked \in Nat
          BY <2>2, SessionFields
      <4>2. s.segs + Len(link[Other(e)]) <= t.unacked /\ t.unacked <= win /\ s.unacked <= win
          BY <2>2 DEF Dir
      <4>3. Len(link[Other(e)]) \in Nat /\ win \in Nat
          BY <2>1, <2>2, ModulusPositive DEF Typed, Frames
      <4>4. s.expected \in 0 .. MaxSegments
          BY <2>2 DEF Sessions
      <4>5. \A i \in DOMAIN link[e] : link[e][i] \in Frame
          BY <2>2 DEF Frames
      <4> HIDE DEF s, t
      <4>6. s.unacked \in 0 .. win /\ s.segs \in 0 .. win
          BY <4>1, <4>2, <4>3
      <4>7. {s.tx, s.acked, s.rx} \subseteq 0 .. Modulus - 1
          BY <4>1 DEF Seqs
      <4> QED BY <4>4, <4>5, <4>6, <4>7 DEF s
    <3>2. phase \in {"handshake", "open", "closed", "refused", "violated",
                     "timeout_send", "timeout_idle"}
        BY <2>1 DEF Typed
    <3> QED BY <3>1, <3>2 DEF TypeOK
  <2>4. SeqAgree
    <3>1. ASSUME NEW e \in Ends
          PROVE  LET o == Other(e)
                     got_(i) == IF link[o][i].ack = NoAck THEN 0
                                ELSE Minus(link[o][i].ack, st[e].acked)
                 IN  /\ \A i \in DOMAIN link[e] : link[e][i].seq = Plus(st[o].rx, i)
                     /\ st[e].tx = Plus(st[o].rx, Len(link[e]) + 1)
                     /\ Minus(st[e].tx, Plus(st[e].acked, 1)) = st[e].unacked
                     /\ Len(link[e]) <= st[e].unacked
                     /\ \A i \in DOMAIN link[o] : got_(i) <= st[e].unacked - Len(link[e])
                     /\ \A i, j \in DOMAIN link[o] :
                            i < j /\ link[o][j].ack # NoAck => got_(i) <= got_(j)
      <4> DEFINE s == st[e]
                 t == st[Other(e)]
                 x == link[e]
                 y == link[Other(e)]
                 g(i) == IF y[i].ack = NoAck THEN 0 ELSE Minus(y[i].ack, s.acked)
      <4>1. \A i : g(i) = Acks(s.acked, y[i])
          BY DEF Acks
      <4>2. /\ s \in Sessions /\ t \in Sessions /\ x \in Frames /\ y \in Frames
            /\ Dir(s.tx, s.acked, s.unacked, t.rx, t.segs, x, y)
          BY <2>2
      <4> HIDE DEF s, t, x, y
      <4>3. DOMAIN x = 1 .. Len(x) /\ DOMAIN y = 1 .. Len(y) /\ Len(x) \in Nat
          BY <4>2 DEF Frames
      <4>4. s.unacked \in Nat /\ t.segs \in Nat /\ s.acked \in Seqs
          BY <4>2, SessionFields
      <4>5. \A i \in 1 .. Len(y) : Acks(s.acked, y[i]) \in Nat
          BY <4>2, <4>4, AcksNat
      <4>6. /\ \A i \in DOMAIN x : x[i].seq = Plus(t.rx, i)
            /\ s.tx = Plus(t.rx, Len(x) + 1)
            /\ Minus(s.tx, Plus(s.acked, 1)) = s.unacked
          BY <4>2, <4>3 DEF Dir
      <4>7. /\ Len(x) <= s.unacked
            /\ \A i \in DOMAIN y : Acks(s.acked, y[i]) <= s.unacked - Len(x)
        <5>1. /\ t.segs + Len(x) <= s.unacked
              /\ \A i \in 1 .. Len(y) : t.segs + Acks(s.acked, y[i]) + Len(x) <= s.unacked
            BY <4>2 DEF Dir
        <5> QED BY <4>3, <4>4, <4>5, <5>1
      <4>8. \A i, j \in DOMAIN y :
               i < j /\ y[j].ack # NoAck => Acks(s.acked, y[i]) <= Acks(s.acked, y[j])
          BY <4>2, <4>3 DEF Dir
      <4> HIDE DEF g
      <4>9. /\ \A i \in DOMAIN y : g(i) <= s.unacked - Len(x)
            /\ \A i, j \in DOMAIN y : i < j /\ y[j].ack # NoAck => g(i) <= g(j)
          BY <4>1, <4>7, <4>8, Zenon
      <4> QED BY <4>6, <4>7, <4>9, Zenon DEF s, t, x, y, g
    <3> QED BY <3>1, Zenon DEF SeqAgree
  <2> QED BY <2>1, <2>3, <2>4 DEF FlowSound
<1> QED BY <1>1, InvariantHolds, PTL
\* The phases as the pipe sees them.
PipeState(ph) == CASE ph = "handshake" -> "new" [] ph = "open" -> "up" [] OTHER -> "broken"

LEMMA PipeStates ==
    /\ PipeState("handshake") = "new" /\ PipeState("open") = "up"
    /\ \A ph \in {"closed", "refused", "violated", "timeout_send", "timeout_idle"} :
          PipeState(ph) = "broken"
BY DEF PipeState

\* The actions of Pipe, with the variables of Btp for its own.
LEMMA PipeActions ==
    /\ ReliablePipe!Init <=> /\ sent = [e \in Ends |-> << >>]
                             /\ got = [e \in Ends |-> << >>]
                             /\ PipeState(phase) = "new"
    /\ (/\ PipeState(phase) = "new" /\ PipeState(phase)' = "up"
        /\ UNCHANGED <<sent, got>>) => ReliablePipe!Next
    /\ (/\ PipeState(phase) # "broken" /\ PipeState(phase)' = "broken"
        /\ UNCHANGED <<sent, got>>) => ReliablePipe!Next
    /\ \A e \in Ends :
          (/\ PipeState(phase) = "up"
           /\ \E msg \in Messages : sent' = [sent EXCEPT ![e] = Append(@, msg)]
           /\ UNCHANGED got /\ PipeState(phase)' = PipeState(phase)) => ReliablePipe!Next
    /\ \A e \in Ends :
          (/\ PipeState(phase) = "up" /\ Len(got[e]) < Len(sent[Other(e)])
           /\ got' = [got EXCEPT ![e] = Append(@, sent[Other(e)][Len(@) + 1])]
           /\ UNCHANGED sent /\ PipeState(phase)' = PipeState(phase)) => ReliablePipe!Next
<1>1. ReliablePipe!Init <=> /\ sent = [e \in Ends |-> << >>]
                            /\ got = [e \in Ends |-> << >>]
                            /\ PipeState(phase) = "new"
    BY DEF ReliablePipe!Init, PipeState
<1>2. (/\ PipeState(phase) = "new" /\ PipeState(phase)' = "up"
       /\ UNCHANGED <<sent, got>>) => ReliablePipe!Next
    BY DEF ReliablePipe!Next, ReliablePipe!Open, PipeState
<1>3. (/\ PipeState(phase) # "broken" /\ PipeState(phase)' = "broken"
       /\ UNCHANGED <<sent, got>>) => ReliablePipe!Next
    BY DEF ReliablePipe!Next, ReliablePipe!Break, PipeState
<1>4. ASSUME NEW e \in Ends, PipeState(phase) = "up",
             \E msg \in Messages : sent' = [sent EXCEPT ![e] = Append(@, msg)],
             UNCHANGED got, PipeState(phase)' = PipeState(phase)
      PROVE  ReliablePipe!Next
  <2>1. PipeState(phase) = "up" /\ UNCHANGED <<got, PipeState(phase)>>
      BY <1>4
  <2>2. ReliablePipe!Put(e)
      BY <1>4, <2>1, Zenon DEF ReliablePipe!Put, PipeState
  <2> QED BY <2>2 DEF ReliablePipe!Next
<1>5. ASSUME NEW e \in Ends, PipeState(phase) = "up", Len(got[e]) < Len(sent[Other(e)]),
             got' = [got EXCEPT ![e] = Append(@, sent[Other(e)][Len(@) + 1])],
             UNCHANGED sent, PipeState(phase)' = PipeState(phase)
      PROVE  ReliablePipe!Next
    BY <1>5 DEF ReliablePipe!Next, ReliablePipe!Take, PipeState
<1> QED BY <1>1, <1>2, <1>3, <1>4, <1>5
\* The messages a session hands over are the ones the other end began to send.
LEMMA TakeStep ==
    ASSUME IInv, phase = "open", NEW e \in Ends, NEW after, Receive(e, after), UNCHANGED sent
    PROVE  ReliablePipe!Next \/ UNCHANGED <<sent, got, phase>>
<1>1. link[Other(e)] # << >>
    BY DEF Receive
<1>2. /\ Outcome(e) # "error"
      /\ Outcome(e) = "message" =>
            Len(got[e]) < Len(sent[Other(e)]) /\ Read(e).buf = sent[Other(e)][Len(got[e]) + 1]
    BY <1>1, Arrives, Zenon
<1>3. UNCHANGED phase /\ got' = IF Outcome(e) = "message" THEN [got EXCEPT ![e] = Append(@, Read(e).buf)]
                                ELSE got
    BY <1>2 DEF Receive
<1>4. CASE Outcome(e) = "message"
  <2>1. got' = [got EXCEPT ![e] = Append(@, sent[Other(e)][Len(@) + 1])]
      BY <1>2, <1>3, <1>4
  <2>2. PipeState(phase) = "up" /\ PipeState(phase)' = PipeState(phase)
      BY <1>3, PipeStates DEF PipeState
  <2> QED BY <1>2, <1>4, <2>1, <2>2, PipeActions, Zenon
<1>5. CASE Outcome(e) # "message"
    BY <1>3, <1>5
<1> QED BY <1>4, <1>5

LEMMA PutStep ==
    ASSUME IInv, NEW e \in Ends, Begin(e)
    PROVE  ReliablePipe!Next
<1>1. PICK n \in 1 .. MaxSegments : sent' = [sent EXCEPT ![e] = Append(@, Message(Len(@) + 1, n))]
    BY DEF Begin
<1>2. Len(sent[e]) + 1 \in Numbers
  <2>1. Len(sent[e]) \in Nat /\ Len(sent[e]) < MaxMessages[e]
      BY SentIs DEF IInv, Typed, Begin
  <2> QED BY <2>1, BtpAssumption DEF Numbers, Ends
<1>3. Message(Len(sent[e]) + 1, n) \in Messages
    BY <1>2 DEF Messages
<1>4. \E msg \in Messages : sent' = [sent EXCEPT ![e] = Append(@, msg)]
    BY <1>1, <1>3, Zenon
<1>5. PipeState(phase) = "up" /\ PipeState(phase)' = PipeState(phase) /\ UNCHANGED got
    BY PipeStates DEF PipeState, Begin
<1> QED BY <1>4, <1>5, PipeActions, Zenon

\* A session is the pipe of Pipe: whole messages, once, in order, in both
\* directions, and nothing after it has broken.
THEOREM ImplementsPipe == Spec => PipeSpec
<1>1. Init => ReliablePipe!Init
    BY PipeActions, PipeStates DEF Init
<1>2. ASSUME IInv, [Next]_vars
      PROVE  [ReliablePipe!Next]_(ReliablePipe!pipeVars)
  <2>1. SUFFICES ReliablePipe!Next \/ UNCHANGED <<sent, got, phase>>
      BY DEF ReliablePipe!pipeVars
  <2>2. "c" \in Ends /\ "p" \in Ends
      BY DEF Ends
  <2>3. ASSUME phase \in {"handshake", "open"}, UNCHANGED <<sent, got>>,
               phase' \in {"closed", "refused", "timeout_send", "timeout_idle"}
        PROVE  ReliablePipe!Next
    <3>1. PipeState(phase) # "broken" /\ PipeState(phase') = "broken"
        BY <2>3, PipeStates
    <3>2. PipeState(phase)' = "broken"
        BY <3>1 DEF PipeState
    <3> QED BY <2>3, <3>1, <3>2, PipeActions
  <2>4. CASE Connect
    <3>1. phase = "handshake" /\ UNCHANGED <<sent, got>> /\ phase' \in {"open", "refused"}
        BY <2>4 DEF Connect
    <3>2. CASE phase' = "open"
      <4>1. PipeState(phase) = "new" /\ PipeState(phase)' = "up"
          BY <3>1, <3>2 DEF PipeState
      <4> QED BY <3>1, <4>1, PipeActions
    <3>3. CASE phase' = "refused"
        BY <2>3, <3>1, <3>3
    <3> QED BY <3>1, <3>2, <3>3
  <2>5. CASE RecvIdle
    <3>1. /\ phase = "open" /\ UNCHANGED sent
          /\ Receive("c", IF Outcome("c") = "message" THEN AckIf(FALSE, Read("c")) ELSE ProactiveAck(Read("c")))
        BY <2>5 DEF RecvIdle, Idle
    <3> QED BY <1>2, <2>2, <3>1, TakeStep
  <2>6. CASE RecvFull
    <3>1. /\ phase = "open" /\ UNCHANGED sent
          /\ Receive("c", IF Outcome("c") = "message" THEN AckIf(HasRoom(Read("c")), Read("c"))
                          ELSE ProactiveAck(Read("c")))
        BY <2>6 DEF RecvFull, WindowFull
    <3> QED BY <1>2, <2>2, <3>1, TakeStep
  <2>7. CASE PeerRecv
    <3>1. phase = "open" /\ UNCHANGED sent /\ Receive("p", AckIf(FALSE, Read("p")))
        BY <2>7 DEF PeerRecv
    <3> QED BY <1>2, <2>2, <3>1, TakeStep
  <2>8. CASE SendMessage \/ PeerMessage
      BY <1>2, <2>2, <2>8, PutStep DEF SendMessage, PeerMessage
  <2>9. CASE SendNext \/ PeerSegment \/ PeerAck \/ TimePasses
      BY <2>9 DEF SendNext, PeerSegment, PeerAck, TimePasses, SendSegment
  <2>10. CASE WindowTimeout \/ Lost
      BY <2>3, <2>10 DEF WindowTimeout, WindowFull, Lost
  <2>11. CASE KeepaliveTick
    <3>1. UNCHANGED <<sent, got>> /\ phase = "open"
        BY <2>11 DEF KeepaliveTick, Idle
    <3>2. CASE phase' = "timeout_idle"
        BY <2>3, <3>1, <3>2
    <3>3. CASE UNCHANGED phase
        BY <3>1, <3>3
    <3> QED BY <2>11, <3>2, <3>3 DEF KeepaliveTick
  <2>12. CASE UNCHANGED vars
      BY <2>12 DEF vars
  <2> QED BY <1>2, <2>4, <2>5, <2>6, <2>7, <2>8, <2>9, <2>10, <2>11, <2>12
          DEF Next, Central, Peripheral
<1> QED BY <1>1, <1>2, InvariantHolds, PTL DEF Spec, PipeSpec, ReliablePipe!Spec
=============================================================================
