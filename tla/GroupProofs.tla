---------------------------- MODULE GroupProofs -----------------------------
(***************************************************************************)
(* Proofs about groups: the counter of group commands (Groupcast), and     *)
(* what provision, grant and remove leave on the nodes (GroupProvision).   *)
(*                                                                         *)
(* Groupcast, for any epoch, modulus and width of the window that leave    *)
(* room for MaxOps operations within half of the range: the counters wrap, *)
(* so no order of numbers describes them.  Unrolled from the ceiling the   *)
(* file held at first (`base'), they are ordinary numbers: every counter   *)
(* in use lies within a stretch that is shorter than half of the range, in *)
(* which being newer is being larger.                                      *)
(*                                                                         *)
(* GroupProvision, for any nodes, groups, key sets and processes: what a   *)
(* command read from a node is still there when it writes back, because    *)
(* only the process whose session is the node's current one is served.     *)
(***************************************************************************)
EXTENDS Groupcast, GroupProvision, TLAPS

\* Room: how far the counters can get from base.
Reach == 2 * Epoch * MaxOps + Gdc

\* c as a number from base on.
Unroll(base, c) == IF c < base THEN c + Modulus ELSE c

\* c is a counter that k counts after base may be in use: before the wrap it
\* has g/gdc to start from, after it the way to the wrap was counted.
SenderLive(base, k, c) ==
    /\ c \in Counter
    /\ IF c < base THEN Modulus <= base + k /\ c + Modulus <= base + Gdc + k
                   ELSE c <= Larger(base, Gdc) + k

-----------------------------------------------------------------------------
(* Arithmetic                                                              *)

\* What the assumptions say of the constants, in the form the lemmas use.
LEMMA ConstantsFit ==
    /\ Epoch \in Nat \ {0} /\ Modulus \in Nat \ {0} /\ Gdc \in Nat /\ MaxOps \in Nat
    /\ Width \in Nat \ {0} /\ Reach \in Nat /\ Modulus \div 2 \in Nat
    /\ 2 * (Modulus \div 2) <= Modulus
    /\ Reach + Width < Modulus \div 2
    /\ Gdc <= Reach
<1>1. /\ Epoch \in Nat \ {0} /\ Modulus \in Nat /\ Gdc \in Nat /\ MaxOps \in Nat
      /\ Width \in Nat \ {0}
    BY GroupcastAssumption, WidthAssumption
<1>2. 2 * Epoch * MaxOps \in Nat
    BY <1>1
<1>3. Reach \in Nat /\ Gdc <= Reach
    BY <1>1, <1>2 DEF Reach
<1>4. Reach + Width < Modulus \div 2
    BY GroupcastAssumption DEF Reach
<1>5. Modulus # 0
    BY <1>1, <1>3, <1>4
<1>6. Modulus \div 2 \in Nat /\ 2 * (Modulus \div 2) <= Modulus
    BY <1>1
<1> QED BY <1>1, <1>3, <1>4, <1>5, <1>6

\* A counter unrolls to a natural number.
LEMMA UnrolledNat == \A base, c \in Counter : Unroll(base, c) \in Nat
BY ConstantsFit DEF Unroll, Counter

\* The wrap, without %.
LEMMA Wrap ==
    /\ \A c \in Counter, n \in 0 .. Modulus - 1 :
          Plus(c, n) = IF c + n < Modulus THEN c + n ELSE c + n - Modulus
    /\ \A c, d \in Counter : AheadOf(c, d) = IF c >= d THEN c - d ELSE c - d + Modulus
<1>1. Modulus \in Nat \ {0}
    BY ConstantsFit
<1>2. ASSUME NEW c \in Counter, NEW n \in 0 .. Modulus - 1
      PROVE  Plus(c, n) = IF c + n < Modulus THEN c + n ELSE c + n - Modulus
  <2>1. CASE c + n < Modulus
      BY <1>1, <2>1 DEF Plus, Counter
  <2>2. CASE ~(c + n < Modulus)
      BY <1>1, <2>2 DEF Plus, Counter
  <2> QED BY <2>1, <2>2
<1>3. ASSUME NEW c \in Counter, NEW d \in Counter
      PROVE  AheadOf(c, d) = IF c >= d THEN c - d ELSE c - d + Modulus
  <2>1. CASE c >= d
      BY <1>1, <2>1 DEF AheadOf, Counter
  <2>2. CASE ~(c >= d)
      BY <1>1, <2>2 DEF AheadOf, Counter
  <2> QED BY <2>1, <2>2
<1> QED BY <1>2, <1>3

\* Counters in use lie close together, so the half-range order is the order of
\* the numbers they unroll to, and the window is not reached from the far side.
LEMMA Order ==
    ASSUME NEW base \in Counter, NEW k \in Nat, k + Gdc <= Reach,
           NEW c, SenderLive(base, k, c), NEW d, SenderLive(base, k, d)
    PROVE  /\ Unroll(base, c) \in Nat /\ Unroll(base, d) \in Nat
           /\ Unroll(base, c) = Unroll(base, d) <=> c = d
           /\ IsNewer(c, d) <=> Unroll(base, c) > Unroll(base, d)
           /\ Unroll(base, c) >= Unroll(base, d) =>
                 AheadOf(c, d) = Unroll(base, c) - Unroll(base, d)
           /\ AheadOf(c, d) \in 0 .. Width =>
                 AheadOf(c, d) = Unroll(base, c) - Unroll(base, d)
<1> USE ConstantsFit DEF Counter
<1>1. c \in Counter /\ d \in Counter
    BY DEF SenderLive
<1>2. /\ Unroll(base, c) \in base .. base + Reach
      /\ Unroll(base, d) \in base .. base + Reach
    BY <1>1 DEF SenderLive, Unroll, Larger
<1>3. AheadOf(c, d) = IF Unroll(base, c) >= Unroll(base, d)
                      THEN Unroll(base, c) - Unroll(base, d)
                      ELSE Unroll(base, c) - Unroll(base, d) + Modulus
  <2>1. AheadOf(c, d) = IF c >= d THEN c - d ELSE c - d + Modulus
      BY <1>1, Wrap
  <2>2. CASE c < base /\ d < base
      BY <1>1, <2>1, <2>2 DEF Unroll
  <2>3. CASE c < base /\ ~(d < base)
      BY <1>1, <1>2, <2>1, <2>3 DEF Unroll
  <2>4. CASE ~(c < base) /\ d < base
      BY <1>1, <1>2, <2>1, <2>4 DEF Unroll
  <2>5. CASE ~(c < base) /\ ~(d < base)
      BY <1>1, <2>1, <2>5 DEF Unroll
  <2> QED BY <2>2, <2>3, <2>4, <2>5
<1>4. Unroll(base, c) = Unroll(base, d) <=> c = d
    BY <1>1 DEF Unroll
<1> QED BY <1>2, <1>3, <1>4 DEF IsNewer

\* A counter at most as far as one in use may be in use.
LEMMA Below ==
    ASSUME NEW base \in Counter, NEW k \in Nat, NEW j \in Nat, k <= j,
           NEW c, SenderLive(base, k, c), NEW d \in Counter, Unroll(base, d) <= Unroll(base, c)
    PROVE  SenderLive(base, j, d)
<1> USE ConstantsFit DEF Counter
<1> QED BY DEF SenderLive, Unroll, Larger

\* Adding what is counted moves a counter by just that.
LEMMA Move ==
    ASSUME NEW base \in Counter, NEW k \in Nat, NEW m \in Nat, k + m + Gdc <= Reach,
           NEW c, SenderLive(base, k, c), NEW n \in 0 .. m
    PROVE  /\ SenderLive(base, k + m, Plus(c, n))
           /\ Unroll(base, Plus(c, n)) = Unroll(base, c) + n
<1> USE ConstantsFit DEF Counter
<1>1. c \in Counter /\ n \in 0 .. Modulus - 1
    BY DEF SenderLive
<1>2. Plus(c, n) = IF c + n < Modulus THEN c + n ELSE c + n - Modulus
    BY <1>1, Wrap
<1>3. Unroll(base, c) \in base .. base + Gdc + k
    BY <1>1 DEF SenderLive, Unroll, Larger
<1>4. CASE c + n < Modulus
  <2>1. Plus(c, n) = c + n
      BY <1>2, <1>4
  <2>2. CASE c < base
      BY <1>1, <1>3, <1>4, <2>1, <2>2 DEF SenderLive, Unroll, Larger
  <2>3. CASE ~(c < base)
      BY <1>1, <1>3, <1>4, <2>1, <2>3 DEF SenderLive, Unroll, Larger
  <2> QED BY <2>2, <2>3
<1>5. CASE ~(c + n < Modulus)
  <2>1. Plus(c, n) = c + n - Modulus
      BY <1>2, <1>5
  <2>2. ~(c < base) /\ c + n - Modulus < base
      BY <1>1, <1>3, <1>5 DEF SenderLive, Unroll
  <2> QED BY <1>1, <1>3, <1>5, <2>1, <2>2 DEF SenderLive, Unroll, Larger
<1> QED BY <1>4, <1>5

\* The larger one of the file and g/gdc is not behind the file, in whatever
\* way the file has wrapped.
LEMMA Skip ==
    ASSUME NEW base \in Counter, NEW k \in Nat, k + Gdc <= Reach,
           NEW c, SenderLive(base, k, c)
    PROVE  /\ SenderLive(base, k, Larger(c, Gdc))
           /\ Unroll(base, Larger(c, Gdc)) >= Unroll(base, c)
<1> USE ConstantsFit DEF Counter
<1>1. c \in Counter /\ Gdc \in Counter
    BY DEF SenderLive
<1>2. CASE c < base
    BY <1>1, <1>2 DEF SenderLive, Unroll, Larger
<1>3. CASE ~(c < base)
    BY <1>1, <1>3 DEF SenderLive, Unroll, Larger
<1> QED BY <1>2, <1>3

\* One more operation is two more epochs, and there is room for it.
LEMMA Count ==
    ASSUME NEW n \in 0 .. MaxOps
    PROVE  /\ 2 * Epoch * n \in Nat /\ 2 * Epoch * n + Gdc <= Reach
           /\ n < MaxOps => /\ 2 * Epoch * (n + 1) = 2 * Epoch * n + 2 * Epoch
                            /\ 2 * Epoch * n + 2 * Epoch + Gdc <= Reach
<1>1. Epoch \in Nat \ {0} /\ Gdc \in Nat /\ MaxOps \in Nat /\ n \in Nat /\ n <= MaxOps
    BY ConstantsFit
<1>2. 2 * Epoch * n \in Nat /\ 2 * Epoch * n <= 2 * Epoch * MaxOps
    BY <1>1
<1>3. 2 * Epoch * (n + 1) = 2 * Epoch * n + 2 * Epoch
    BY <1>1
<1>4. n < MaxOps => 2 * Epoch * (n + 1) <= 2 * Epoch * MaxOps
    BY <1>1
<1>5. 2 * Epoch * MaxOps \in Nat
    BY <1>1
<1> HIDE DEF Reach
<1> QED BY <1>1, <1>2, <1>3, <1>4, <1>5 DEF Reach
-----------------------------------------------------------------------------
(* The inductive invariant, relative to base.                              *)

\* What the operations so far can have used up.
Used == 2 * Epoch * ops

Senders == [next : Counter, ceiling : Counter]

Typed ==
    /\ file \in Counter /\ disk \in Counter
    /\ sender \in [Procs -> Senders \cup {None}]
    /\ last \in Counter \cup {None} /\ torn \in BOOLEAN
    /\ net \subseteq Counter \X Egress /\ applied \subseteq Counter
    /\ ops \in 0 .. MaxOps
    /\ guard # None => guard \in Guard
    /\ last = None => net = {} /\ applied = {}

\* The lock: one process at a time has a sender.
OneSender == \A p, q \in Procs : sender[p] # None /\ sender[q] # None => p = q

\* Every counter anybody holds is in use; a sender is within an epoch of the
\* ceiling, which is the one in the file.
InUse(base) ==
    /\ SenderLive(base, Used, file) /\ SenderLive(base, Used, disk)
    /\ Unroll(base, disk) <= Unroll(base, file)
    /\ \A p \in Procs : sender[p] # None =>
          /\ SenderLive(base, Used, sender[p].next) /\ sender[p].ceiling = file
          /\ Unroll(base, sender[p].next) <= Unroll(base, file)
          /\ Unroll(base, file) <= Unroll(base, sender[p].next) + Epoch
    /\ last # None => SenderLive(base, Used, last)
    /\ \A d \in net : SenderLive(base, Used, d[1])
    /\ \A c \in applied : SenderLive(base, Used, c)

\* Unless a loss of power undid too much, the counter handed out last is ahead
\* of all that was sent and behind all that will be.
LastIsNewest(base) ==
    ~torn /\ last # None =>
        /\ Unroll(base, last) < Unroll(base, file) + Epoch
        /\ file # disk => Unroll(base, last) < Unroll(base, file)
        /\ \A p \in Procs : sender[p] # None =>
              Unroll(base, last) < Unroll(base, sender[p].next)
        /\ \A d \in net : Unroll(base, d[1]) <= Unroll(base, last)
        /\ \A c \in applied : Unroll(base, c) <= Unroll(base, last)

\* The device's window knows what it applied.
GuardKnows(base) ==
    /\ guard = None => applied = {}
    /\ guard # None =>
          /\ guard.max \in applied
          /\ \A c \in applied : Unroll(base, c) <= Unroll(base, guard.max)
          /\ \A c \in applied :
                LET behind == Unroll(base, guard.max) - Unroll(base, c)
                IN  behind \in 1 .. Width => behind - 1 \in guard.window

Inv(base) == Typed /\ OneSender /\ InUse(base) /\ LastIsNewest(base) /\ GuardKnows(base)

IInv == \E base \in Counter : Inv(base)

\* There is room for the operations so far, and for the next one.
LEMMA Room ==
    ASSUME Typed
    PROVE  /\ Used \in Nat /\ Used + Gdc <= Reach
           /\ ops < MaxOps /\ ops' = ops + 1 =>
                 /\ Used' = Used + 2 * Epoch /\ Used' \in Nat
                 /\ Used + 2 * Epoch + Gdc <= Reach
                 /\ ops' \in 0 .. MaxOps
<1>1. ops \in 0 .. MaxOps /\ MaxOps \in Nat /\ Epoch \in Nat
    BY ConstantsFit DEF Typed
<1>2. Used \in Nat /\ Used + Gdc <= Reach
    BY <1>1, Count DEF Used
<1>3. ASSUME ops < MaxOps, ops' = ops + 1
      PROVE  /\ Used' = Used + 2 * Epoch
             /\ Used + 2 * Epoch + Gdc <= Reach
             /\ ops' \in 0 .. MaxOps
    BY <1>1, <1>3, Count DEF Used
<1>4. Used \in Nat /\ Epoch \in Nat => Used + 2 * Epoch \in Nat
    OBVIOUS
<1> QED BY <1>1, <1>2, <1>3, <1>4

\* A counter in use stays so.
LEMMA StaysLive ==
    ASSUME NEW base \in Counter, NEW k \in Nat, NEW j \in Nat, k <= j,
           NEW c, SenderLive(base, k, c)
    PROVE  SenderLive(base, j, c)
<1>1. c \in Counter /\ Unroll(base, c) <= Unroll(base, c)
    BY ConstantsFit DEF SenderLive, Unroll, Counter
<1> QED BY <1>1, Below

-----------------------------------------------------------------------------
(* The steps                                                               *)

\* load and jump: a new ceiling is persisted, and the sender starts below it,
\* past all that was handed out.
LEMMA ReserveStep ==
    ASSUME NEW base \in Counter, Inv(base), NEW p \in Procs, ~Locked(p), ops < MaxOps,
           NEW nx, NEW ce,
           SenderLive(base, Used', nx), SenderLive(base, Used', ce),
           Unroll(base, ce) = Unroll(base, nx) + Epoch,
           Unroll(base, file) <= Unroll(base, nx),
           ~torn /\ last # None => Unroll(base, last) < Unroll(base, nx),
           file' = ce, disk' = disk, ops' = ops + 1,
           sender' = [sender EXCEPT ![p] = [next |-> nx, ceiling |-> ce]],
           UNCHANGED <<last, power, net, device>>
    PROVE  Inv(base)'
<1>1. /\ Used \in Nat /\ Used' \in Nat /\ Used <= Used' /\ ops' \in 0 .. MaxOps
      /\ Epoch \in Nat \ {0}
    BY Room, ConstantsFit DEF Inv
<1>2. \A c : SenderLive(base, Used, c) => SenderLive(base, Used', c)
    BY <1>1, StaysLive
<1>3. nx \in Counter /\ ce \in Counter
    BY DEF SenderLive
<1>4. UNCHANGED <<last, torn, net, guard, applied>>
    BY DEF power, device
<1>5. \A q \in Procs : sender'[q] = IF q = p THEN [next |-> nx, ceiling |-> ce] ELSE sender[q]
    BY DEF Inv, Typed
<1>6. \A q \in Procs \ {p} : sender'[q] = None
    BY <1>5 DEF Locked
<1>7. Typed'
  <2>1. [next |-> nx, ceiling |-> ce] \in Senders
      BY <1>3 DEF Senders
  <2>2. sender' \in [Procs -> Senders \cup {None}]
      BY <2>1 DEF Inv, Typed
  <2>3. file' \in Counter /\ disk' \in Counter
      BY <1>3 DEF Inv, Typed
  <2> QED BY <1>1, <1>4, <2>2, <2>3 DEF Inv, Typed
<1>8. OneSender'
    BY <1>6 DEF OneSender
<1>9. /\ Unroll(base, nx) \in Nat /\ Unroll(base, file) \in Nat /\ Unroll(base, disk) \in Nat
      /\ last # None => Unroll(base, last) \in Nat
    BY <1>3, ConstantsFit DEF Unroll, Counter, Inv, Typed
<1>10. InUse(base)'
  <2>1. SenderLive(base, Used', file') /\ SenderLive(base, Used', disk')
      BY <1>2 DEF Inv, InUse
  <2>2. Unroll(base, disk') <= Unroll(base, file')
      BY <1>1, <1>9 DEF Inv, InUse
  <2>3. \A q \in Procs : sender'[q] # None =>
          /\ SenderLive(base, Used', sender'[q].next) /\ sender'[q].ceiling = file'
          /\ Unroll(base, sender'[q].next) <= Unroll(base, file')
          /\ Unroll(base, file') <= Unroll(base, sender'[q].next) + Epoch
      BY <1>1, <1>5, <1>6, <1>9
  <2>4. /\ last' # None => SenderLive(base, Used', last')
        /\ \A d \in net' : SenderLive(base, Used', d[1])
        /\ \A c \in applied' : SenderLive(base, Used', c)
      BY <1>2, <1>4 DEF Inv, InUse
  <2> QED BY <2>1, <2>2, <2>3, <2>4 DEF InUse
<1>11. LastIsNewest(base)'
  <2> SUFFICES ASSUME ~torn', last' # None
               PROVE  /\ Unroll(base, last') < Unroll(base, file') + Epoch
                      /\ Unroll(base, last') < Unroll(base, file')
                      /\ \A q \in Procs : sender'[q] # None =>
                            Unroll(base, last') < Unroll(base, sender'[q].next)
                      /\ \A d \in net' : Unroll(base, d[1]) <= Unroll(base, last')
                      /\ \A c \in applied' : Unroll(base, c) <= Unroll(base, last')
      BY DEF LastIsNewest
  <2>1. ~torn /\ last # None /\ Unroll(base, last) < Unroll(base, nx)
      BY <1>4
  <2>2. \A q \in Procs : sender'[q] # None => Unroll(base, last') < Unroll(base, sender'[q].next)
      BY <1>4, <1>5, <1>6, <2>1
  <2>3. Unroll(base, last') < Unroll(base, file')
      BY <1>1, <1>4, <1>9, <2>1
  <2>4. Unroll(base, last') < Unroll(base, file') + Epoch
      BY <1>1, <1>4, <1>9, <2>1
  <2> QED BY <1>4, <2>1, <2>2, <2>3, <2>4 DEF Inv, LastIsNewest
<1>12. GuardKnows(base)'
    BY <1>4 DEF Inv, GuardKnows
<1> QED BY <1>7, <1>8, <1>10, <1>11, <1>12 DEF Inv

\* load starts one epoch past the larger one of the file and g/gdc.
LEMMA LoadStep ==
    ASSUME NEW base \in Counter, Inv(base), NEW p \in Procs, Load(p)
    PROVE  Inv(base)'
<1> DEFINE L == Larger(file, Gdc)
           nx == Plus(L, Epoch)
           ce == Plus(nx, Epoch)
<1>1. /\ sender[p] = None /\ ops < MaxOps /\ ~Locked(p)
      /\ file' = ce /\ disk' = disk /\ ops' = ops + 1
      /\ sender' = [sender EXCEPT ![p] = [next |-> nx, ceiling |-> ce]]
      /\ UNCHANGED <<last, power, net, device>>
    BY DEF Load, Persist
<1>2. /\ Used \in Nat /\ Used' = Used + 2 * Epoch /\ Used + 2 * Epoch + Gdc <= Reach
      /\ Epoch \in Nat \ {0} /\ Gdc \in Nat /\ Reach \in Nat
    BY <1>1, Room, ConstantsFit DEF Inv
<1>3. SenderLive(base, Used, L) /\ Unroll(base, L) >= Unroll(base, file)
    BY <1>2, Skip DEF Inv, InUse
<1> HIDE DEF L
<1>4. SenderLive(base, Used + Epoch, nx) /\ Unroll(base, nx) = Unroll(base, L) + Epoch
    BY <1>2, <1>3, Move
<1> HIDE DEF nx
<1>5. SenderLive(base, (Used + Epoch) + Epoch, ce) /\ Unroll(base, ce) = Unroll(base, nx) + Epoch
    BY <1>2, <1>4, Move
<1> HIDE DEF ce
<1>6. SenderLive(base, Used', nx) /\ SenderLive(base, Used', ce)
    BY <1>2, <1>4, <1>5, StaysLive
<1>7. /\ Unroll(base, file) \in Nat /\ Unroll(base, L) \in Nat
      /\ last # None => Unroll(base, last) \in Nat
    BY <1>3, ConstantsFit DEF Unroll, SenderLive, Counter, Inv, Typed
<1>8. Unroll(base, file) <= Unroll(base, nx)
    BY <1>2, <1>3, <1>4, <1>7
<1>9. ~torn /\ last # None => Unroll(base, last) < Unroll(base, nx)
    BY <1>2, <1>3, <1>4, <1>7 DEF Inv, LastIsNewest
<1> QED BY <1>1, <1>5, <1>6, <1>8, <1>9, ReserveStep

\* jump starts one epoch past the ceiling.
LEMMA JumpStep ==
    ASSUME NEW base \in Counter, Inv(base), NEW p \in Procs, Jump(p)
    PROVE  Inv(base)'
<1> DEFINE nx == Plus(file, Epoch)
           ce == Plus(nx, Epoch)
<1>1. sender[p] # None /\ sender[p].ceiling = file
    BY DEF Jump, Inv, InUse
<1>2. /\ ops < MaxOps /\ file' = ce /\ disk' = disk /\ ops' = ops + 1
      /\ sender' = [sender EXCEPT ![p] = [next |-> nx, ceiling |-> ce]]
      /\ UNCHANGED <<last, power, net, device>>
    BY <1>1 DEF Jump, Persist
<1>3. ~Locked(p)
    BY <1>1 DEF Locked, Inv, OneSender
<1>4. /\ Used \in Nat /\ Used' = Used + 2 * Epoch /\ Used + 2 * Epoch + Gdc <= Reach
      /\ Epoch \in Nat \ {0} /\ Gdc \in Nat /\ Reach \in Nat
    BY <1>2, Room, ConstantsFit DEF Inv
<1>5. SenderLive(base, Used + Epoch, nx) /\ Unroll(base, nx) = Unroll(base, file) + Epoch
  <2>1. SenderLive(base, Used, file) /\ Used + Epoch + Gdc <= Reach /\ Epoch \in 0 .. Epoch
      BY <1>4 DEF Inv, InUse
  <2> QED BY <1>4, <2>1, Move
<1> HIDE DEF nx
<1>6. SenderLive(base, (Used + Epoch) + Epoch, ce) /\ Unroll(base, ce) = Unroll(base, nx) + Epoch
    BY <1>4, <1>5, Move
<1> HIDE DEF ce
<1>7. SenderLive(base, Used', nx) /\ SenderLive(base, Used', ce)
    BY <1>4, <1>5, <1>6, StaysLive
<1>8. /\ Unroll(base, file) \in Nat
      /\ last # None => Unroll(base, last) \in Nat
    BY ConstantsFit DEF Unroll, SenderLive, Counter, Inv, Typed
<1>9. Unroll(base, file) <= Unroll(base, nx)
    BY <1>4, <1>5, <1>8
<1>10. ~torn /\ last # None => Unroll(base, last) < Unroll(base, nx)
    BY <1>4, <1>5, <1>8 DEF Inv, LastIsNewest
<1> QED BY <1>2, <1>3, <1>6, <1>7, <1>9, <1>10, ReserveStep

\* send_invoke: the counter is behind the ceiling that is in the file by then.
LEMMA SendStep ==
    ASSUME NEW base \in Counter, Inv(base), NEW p \in Procs, NEW up \in SUBSET Egress,
           Send(p, up)
    PROVE  /\ Inv(base)'
           /\ last # None /\ ~torn => IsNewer(last', last)
<1> DEFINE nx == sender[p].next
           n2 == Plus(nx, 1)
<1>1. /\ sender[p] # None /\ sender[p] \in Senders /\ sender[p].ceiling = file
      /\ nx \in Counter /\ SenderLive(base, Used, nx)
      /\ Unroll(base, nx) <= Unroll(base, file)
      /\ Unroll(base, file) <= Unroll(base, nx) + Epoch
    BY DEF Send, Inv, InUse, Typed, Senders
<1>2. /\ ops < MaxOps /\ ops' = ops + 1 /\ last' = nx
      /\ net' = net \cup {<<nx, e>> : e \in up}
      /\ UNCHANGED <<torn, guard, applied>>
    BY DEF Send, power, device
<1>3. /\ Used \in Nat /\ Used' = Used + 2 * Epoch /\ Used + 2 * Epoch + Gdc <= Reach
      /\ Used' \in Nat /\ ops' \in 0 .. MaxOps
      /\ Epoch \in Nat \ {0} /\ Gdc \in Nat /\ Reach \in Nat
    BY <1>2, Room, ConstantsFit DEF Inv
<1>4. \A c : SenderLive(base, Used, c) => SenderLive(base, Used', c)
    BY <1>3, StaysLive
<1>5. SenderLive(base, Used', n2) /\ Unroll(base, n2) = Unroll(base, nx) + 1
  <2>1. 1 \in 0 .. Epoch /\ Used + Epoch + Gdc <= Reach
      BY <1>3
  <2>2. SenderLive(base, Used + Epoch, n2) /\ Unroll(base, n2) = Unroll(base, nx) + 1
      BY <1>1, <1>3, <2>1, Move
  <2> QED BY <1>3, <2>2, StaysLive
<1>6. /\ Unroll(base, nx) \in Nat /\ Unroll(base, file) \in Nat /\ Unroll(base, disk) \in Nat
      /\ last # None => Unroll(base, last) \in Nat
    BY <1>1, ConstantsFit DEF Unroll, Counter, Inv, Typed
<1>7. /\ SenderLive(base, Used', file') /\ disk' = disk
      /\ Unroll(base, file) <= Unroll(base, file')
      /\ Unroll(base, nx) < Unroll(base, file')
      /\ Unroll(base, file') <= Unroll(base, nx) + Epoch
      /\ sender' = [sender EXCEPT ![p] = [next |-> n2, ceiling |-> file']]
  <2>1. CASE nx = file
    <3> DEFINE ce == Plus(file, Epoch)
    <3>1. SenderLive(base, Used', ce) /\ Unroll(base, ce) = Unroll(base, file) + Epoch
      <4>1. SenderLive(base, Used, file) /\ Epoch \in 0 .. Epoch /\ Used + Epoch + Gdc <= Reach
          BY <1>3 DEF Inv, InUse
      <4>2. SenderLive(base, Used + Epoch, ce) /\ Unroll(base, ce) = Unroll(base, file) + Epoch
          BY <1>3, <4>1, Move
      <4> QED BY <1>3, <4>2, StaysLive
    <3>2. ce # file
        BY <1>3, <1>6, <3>1
    <3>3. CeilingFor(sender[p]) = ce
        BY <1>1, <2>1 DEF CeilingFor
    <3> HIDE DEF ce
    <3>4. file' = ce /\ disk' = disk
        BY <1>1, <3>2, <3>3 DEF Send, Persist
    <3> QED BY <1>1, <1>3, <1>6, <2>1, <3>1, <3>3, <3>4 DEF Send
  <2>2. CASE nx # file
    <3>1. CeilingFor(sender[p]) = file
        BY <1>1, <2>2 DEF CeilingFor
    <3>2. file' = file /\ disk' = disk
        BY <1>1, <3>1 DEF Send
    <3>3. Unroll(base, nx) # Unroll(base, file)
        BY <1>1, <2>2, ConstantsFit DEF Unroll, Counter, Inv, Typed
    <3>4. SenderLive(base, Used', file')
        BY <1>4, <3>2 DEF Inv, InUse
    <3> QED BY <1>1, <1>6, <3>1, <3>2, <3>3, <3>4 DEF Send
  <2> QED BY <2>1, <2>2
<1>8. \A q \in Procs : sender'[q] = IF q = p THEN [next |-> n2, ceiling |-> file'] ELSE sender[q]
    BY <1>7 DEF Inv, Typed
<1>9. \A q \in Procs \ {p} : sender'[q] = None
    BY <1>1, <1>8 DEF Inv, OneSender
<1>10. \A d \in net' : d \in net \/ d[1] = nx
    BY <1>2
<1> HIDE DEF n2
<1>11. Typed'
  <2>1. [next |-> n2, ceiling |-> file'] \in Senders
      BY <1>5, <1>7 DEF Senders, SenderLive
  <2>2. sender' \in [Procs -> Senders \cup {None}]
      BY <1>7, <2>1 DEF Inv, Typed
  <2>3. file' \in Counter /\ disk' \in Counter
      BY <1>7 DEF SenderLive, Inv, Typed
  <2>4. net' \subseteq Counter \X Egress
      BY <1>1, <1>2 DEF Inv, Typed
  <2>5. last' \in Counter /\ last' # None
      BY <1>1, <1>2, NoneIsNothing
  <2>6. torn' \in BOOLEAN
      BY <1>2 DEF Inv, Typed
  <2> QED BY <1>2, <1>3, <2>2, <2>3, <2>4, <2>5, <2>6 DEF Inv, Typed
<1>12. OneSender'
    BY <1>9 DEF OneSender
<1>13. InUse(base)'
  <2>1. Unroll(base, disk') <= Unroll(base, file') /\ SenderLive(base, Used', disk')
      BY <1>4, <1>6, <1>7, <1>11, ConstantsFit DEF Inv, InUse, Typed, Unroll, Counter
  <2>2. Unroll(base, file') \in Nat
    <3>1. file' \in Counter
        BY <1>7 DEF SenderLive
    <3> QED BY <3>1, UnrolledNat
  <2>3. \A q \in Procs : sender'[q] # None =>
          /\ SenderLive(base, Used', sender'[q].next) /\ sender'[q].ceiling = file'
          /\ Unroll(base, sender'[q].next) <= Unroll(base, file')
          /\ Unroll(base, file') <= Unroll(base, sender'[q].next) + Epoch
      BY <1>3, <1>5, <1>6, <1>7, <1>8, <1>9, <2>2
  <2>4. /\ SenderLive(base, Used', last')
        /\ \A d \in net' : SenderLive(base, Used', d[1])
        /\ \A c \in applied' : SenderLive(base, Used', c)
      BY <1>1, <1>2, <1>4, <1>10 DEF Inv, InUse
  <2> QED BY <1>7, <2>1, <2>3, <2>4 DEF InUse
<1>14. ~torn /\ last # None => Unroll(base, last) < Unroll(base, nx)
    BY <1>1 DEF Inv, LastIsNewest
<1>15. LastIsNewest(base)'
  <2> SUFFICES ASSUME ~torn'
               PROVE  /\ Unroll(base, last') < Unroll(base, file') + Epoch
                      /\ Unroll(base, last') < Unroll(base, file')
                      /\ \A q \in Procs : sender'[q] # None =>
                            Unroll(base, last') < Unroll(base, sender'[q].next)
                      /\ \A d \in net' : Unroll(base, d[1]) <= Unroll(base, last')
                      /\ \A c \in applied' : Unroll(base, c) <= Unroll(base, last')
      BY DEF LastIsNewest
  <2>1. Unroll(base, file') \in Nat
    <3>1. file' \in Counter
        BY <1>7 DEF SenderLive
    <3> QED BY <3>1, UnrolledNat
  <2>2. Unroll(base, last') < Unroll(base, file') /\ Unroll(base, last') < Unroll(base, file') + Epoch
      BY <1>2, <1>3, <1>6, <1>7, <2>1
  <2>3. \A q \in Procs : sender'[q] # None => Unroll(base, last') < Unroll(base, sender'[q].next)
      BY <1>2, <1>5, <1>6, <1>8, <1>9
  <2>4. CASE last = None
    <3>1. net = {} /\ applied = {}
        BY <2>4 DEF Inv, Typed
    <3>2. \A d \in net' : d[1] = nx
        BY <1>10, <3>1
    <3> QED BY <1>2, <1>6, <2>2, <2>3, <3>1, <3>2
  <2>5. CASE last # None
    <3>1. Unroll(base, last) < Unroll(base, nx)
        BY <1>2, <1>14, <2>5
    <3>2. \A d \in net : Unroll(base, d[1]) \in Nat /\ Unroll(base, d[1]) <= Unroll(base, last)
        BY <1>2, <2>5, ConstantsFit DEF Inv, LastIsNewest, InUse, SenderLive, Unroll, Counter
    <3>3. \A c \in applied : Unroll(base, c) \in Nat /\ Unroll(base, c) <= Unroll(base, last)
        BY <1>2, <2>5, ConstantsFit DEF Inv, LastIsNewest, InUse, SenderLive, Unroll, Counter
    <3>4. \A d \in net' : Unroll(base, d[1]) <= Unroll(base, last')
        BY <1>2, <1>6, <1>10, <2>5, <3>1, <3>2
    <3>5. \A c \in applied' : Unroll(base, c) <= Unroll(base, last')
        BY <1>2, <1>6, <2>5, <3>1, <3>3
    <3> QED BY <2>2, <2>3, <3>4, <3>5
  <2> QED BY <2>4, <2>5
<1>16. GuardKnows(base)'
    BY <1>2 DEF Inv, GuardKnows
<1>17. last # None /\ ~torn => IsNewer(last', last)
  <2> SUFFICES ASSUME last # None, ~torn PROVE IsNewer(nx, last)
      BY <1>2
  <2>1. SenderLive(base, Used, last) /\ Used + Gdc <= Reach
      BY Room DEF Inv, InUse
  <2> QED BY <1>1, <1>3, <1>6, <1>14, <2>1, Order
<1> QED BY <1>11, <1>12, <1>13, <1>15, <1>16, <1>17 DEF Inv

\* A process ends, the file system commits a rename, power is lost, the device
\* forgets.
LEMMA QuietSteps ==
    ASSUME NEW base \in Counter, Inv(base),
           Commits \/ PowerCut \/ Forget \/ UNCHANGED vars \/ \E p \in Procs : Exit(p)
    PROVE  Inv(base)'
<1> USE DEF power, device
<1>1. Used \in Nat /\ Used + Gdc <= Reach /\ Epoch \in Nat \ {0}
    BY Room, ConstantsFit DEF Inv
<1>2. ASSUME NEW p \in Procs, Exit(p) PROVE Inv(base)'
  <2>1. \A q \in Procs : sender'[q] # None => sender'[q] = sender[q] /\ sender[q] # None
      BY <1>2 DEF Exit, Inv, Typed
  <2>2. Typed' /\ OneSender'
      BY <1>2, <2>1 DEF Exit, Inv, Typed, OneSender
  <2>3. Used' = Used /\ UNCHANGED <<file, disk, last, torn, net, guard, applied>>
      BY <1>2 DEF Exit, Used
  <2>4. InUse(base)' /\ LastIsNewest(base)' /\ GuardKnows(base)'
      BY <2>1, <2>3 DEF Inv, InUse, LastIsNewest, GuardKnows
  <2> QED BY <2>2, <2>4 DEF Inv
<1>3. CASE Commits
  <2>1. /\ Used' = Used /\ disk' = file
        /\ UNCHANGED <<file, sender, last, torn, net, guard, applied, ops>>
      BY <1>3 DEF Commits, Used
  <2>2. Typed' /\ OneSender'
      BY <2>1 DEF Inv, Typed, OneSender
  <2>3. Unroll(base, file) <= Unroll(base, file)
      BY ConstantsFit DEF Inv, Typed, Unroll, Counter
  <2>4. InUse(base)' /\ LastIsNewest(base)' /\ GuardKnows(base)'
      BY <2>1, <2>3 DEF Inv, InUse, LastIsNewest, GuardKnows
  <2> QED BY <2>2, <2>4 DEF Inv
<1>4. CASE PowerCut
  <2>1. /\ Used' = Used /\ file' = disk /\ sender' = [p \in Procs |-> None]
        /\ torn' = (torn \/ AheadOf(file, disk) > Epoch)
        /\ UNCHANGED <<disk, last, net, guard, applied, ops>>
      BY <1>4 DEF PowerCut, Used
  <2>2. \A q \in Procs : sender'[q] = None
      BY <2>1
  <2>3. torn' \in BOOLEAN /\ (~torn' => ~torn /\ ~(AheadOf(file, disk) > Epoch))
      BY <2>1 DEF Inv, Typed
  <2>4. Typed' /\ OneSender'
      BY <2>1, <2>2, <2>3 DEF Inv, Typed, OneSender
  <2>5. /\ Unroll(base, disk) \in Nat /\ Unroll(base, file) \in Nat
        /\ last # None => Unroll(base, last) \in Nat
      BY ConstantsFit DEF Inv, Typed, Unroll, Counter
  <2>6. InUse(base)' /\ GuardKnows(base)'
      BY <2>1, <2>2, <2>5 DEF Inv, InUse, GuardKnows
  <2>7. AheadOf(file, disk) = Unroll(base, file) - Unroll(base, disk)
      BY <1>1, Order DEF Inv, InUse
  <2>8. ~torn' /\ last # None => Unroll(base, last) < Unroll(base, disk) + Epoch
    <3> SUFFICES ASSUME ~torn', last # None
                 PROVE  Unroll(base, last) < Unroll(base, disk) + Epoch
        OBVIOUS
    <3>1. CASE file = disk
        BY <2>3, <3>1 DEF Inv, LastIsNewest
    <3>2. CASE file # disk
      <4>1. Unroll(base, last) < Unroll(base, file)
          BY <2>3, <3>2 DEF Inv, LastIsNewest
      <4> QED BY <1>1, <2>3, <2>5, <2>7, <4>1
    <3> QED BY <3>1, <3>2
  <2>9. LastIsNewest(base)'
      BY <2>1, <2>2, <2>3, <2>8 DEF Inv, LastIsNewest
  <2> QED BY <2>4, <2>6, <2>9 DEF Inv
<1>5. CASE Forget
  <2>1. /\ Used' = Used /\ guard' = None /\ applied' = {}
        /\ UNCHANGED <<file, disk, sender, last, torn, net, ops>>
      BY <1>5 DEF Forget, Used
  <2> QED BY <2>1 DEF Inv, Typed, OneSender, InUse, LastIsNewest, GuardKnows
<1>6. CASE UNCHANGED vars
  <2>1. /\ Used' = Used
        /\ UNCHANGED <<file, disk, sender, last, torn, net, ops, guard, applied>>
      BY <1>6 DEF vars, Used
  <2> QED BY <2>1 DEF Inv, Typed, OneSender, InUse, LastIsNewest, GuardKnows
<1> QED BY <1>2, <1>3, <1>4, <1>5, <1>6

\* Shifting the window moves every bit by delta and sets the one of the old max.
LEMMA ShiftFacts ==
    ASSUME NEW bits \in SUBSET (0 .. Width - 1), NEW delta \in Nat \ {0}
    PROVE  /\ Shift(bits, delta) \in SUBSET (0 .. Width - 1)
           /\ delta < Width => delta - 1 \in Shift(bits, delta)
           /\ \A b \in bits : b + delta < Width => b + delta \in Shift(bits, delta)
<1>1. Width \in Nat \ {0}
    BY WidthAssumption
<1>2. CASE delta >= Width
  <2>1. Shift(bits, delta) = {}
      BY <1>2 DEF Shift
  <2> QED BY <1>1, <1>2, <2>1
<1>3. CASE ~(delta >= Width)
  <2>1. Shift(bits, delta) = {b \in delta .. Width - 1 : b - delta \in bits} \cup {delta - 1}
      BY <1>3 DEF Shift
  <2>2. \A b \in bits : b + delta < Width =>
            b + delta \in delta .. Width - 1 /\ (b + delta) - delta = b
      BY <1>1
  <2> QED BY <1>1, <1>3, <2>1, <2>2
<1> QED BY <1>2, <1>3

\* What the replay guard answers, in unrolled counters.
LEMMA Answers ==
    ASSUME NEW base \in Counter, Inv(base), guard # None, NEW c, SenderLive(base, Used, c)
    PROVE  LET u == Unroll(base, c)
               m == Unroll(base, guard.max)
           IN  /\ u \in Nat /\ m \in Nat /\ (u = m <=> c = guard.max)
               /\ IsNewer(c, guard.max) <=> u > m
               /\ u >= m => AheadOf(c, guard.max) = u - m
               /\ m >= u => AheadOf(guard.max, c) = m - u
               /\ AheadOf(guard.max, c) \in 0 .. Width => AheadOf(guard.max, c) = m - u
<1>1. Used \in Nat /\ Used + Gdc <= Reach
    BY Room DEF Inv
<1>2. SenderLive(base, Used, guard.max)
    BY DEF Inv, GuardKnows, InUse
<1> QED BY <1>1, <1>2, Order

\* The device: one lemma for what becomes of the guard and of what it has
\* applied.
LEMMA ReceiveStep ==
    ASSUME NEW base \in Counter, Inv(base), NEW d \in net, Receive(d)
    PROVE  Inv(base)'
<1> DEFINE c == d[1]
           u == Unroll(base, c)
           m == Unroll(base, guard.max)
<1>1. /\ net' = net \ {d} /\ UNCHANGED <<file, disk, sender, last, ops, torn>> /\ Used' = Used
    BY DEF Receive, power, Used
<1>2. c \in Counter /\ SenderLive(base, Used, c) /\ last # None /\ u \in Nat
    BY UnrolledNat DEF Inv, Typed, InUse
<1>3. Width \in Nat \ {0}
    BY ConstantsFit
<1>4. ~torn /\ last # None => u <= Unroll(base, last)
    BY DEF Inv, LastIsNewest
<1> HIDE DEF c
<1>5. applied' \subseteq applied \cup {c}
    BY DEF Receive, device, c
<1>6. \A x \in applied : x \in Counter /\ Unroll(base, x) \in Nat
    BY UnrolledNat DEF Inv, Typed
<1>7. (guard' # None => guard' \in Guard) /\ GuardKnows(base)'
  <2>1. CASE /\ guard = None
             /\ guard' = [max |-> c, window |-> {}] /\ applied' = {c}
    <3>1. guard' \in Guard
        BY <1>2, <2>1 DEF Guard
    <3>2. guard' # None
        BY <3>1, NoneIsNothing
    <3>3. \A x \in applied' : Unroll(base, x) = Unroll(base, guard'.max)
        BY <2>1
    <3>4. guard'.max \in applied' /\ Unroll(base, guard'.max) \in Nat
        BY <1>2, <2>1
    <3> QED BY <1>3, <3>1, <3>2, <3>3, <3>4 DEF GuardKnows
  <2>2. ASSUME guard # None
        PROVE  /\ guard \in Guard /\ guard.max \in applied
               /\ guard.window \in SUBSET (0 .. Width - 1) /\ guard.max \in Counter
               /\ u \in Nat /\ m \in Nat /\ (u = m <=> c = guard.max)
               /\ IsNewer(c, guard.max) <=> u > m
               /\ u >= m => AheadOf(c, guard.max) = u - m
               /\ m >= u => AheadOf(guard.max, c) = m - u
               /\ AheadOf(guard.max, c) \in 0 .. Width => AheadOf(guard.max, c) = m - u
      BY <1>2, <2>2, Answers DEF Inv, Typed, Guard, GuardKnows
  <2>3. CASE /\ guard # None /\ IsNewer(c, guard.max)
             /\ guard' = Advance(c)
             /\ applied' = {c} \cup (IF AheadOf(c, guard.max) >= Width THEN {} ELSE applied)
    <3> DEFINE delta == u - m
    <3>1. delta \in Nat \ {0} /\ AheadOf(c, guard.max) = delta /\ m + delta = u
        BY <2>2, <2>3
    <3> HIDE DEF delta, u, m
    <3>2. guard' = [max |-> c, window |-> Shift(guard.window, delta)]
        BY <2>3, <3>1 DEF Advance
    <3>3. guard' \in Guard /\ guard' # None
      <4>1. Shift(guard.window, delta) \in SUBSET (0 .. Width - 1)
          BY <2>2, <2>3, <3>1, ShiftFacts
      <4>2. guard' \in Guard
          BY <1>2, <3>2, <4>1 DEF Guard
      <4> QED BY <4>2, NoneIsNothing
    <3>4. guard'.max = c /\ guard'.window = Shift(guard.window, delta) /\ c \in applied'
        BY <2>3, <3>2
    <3>5. \A x \in applied : Unroll(base, x) <= m
        BY <2>3 DEF Inv, GuardKnows, m
    <3>6. \A x \in applied : m - Unroll(base, x) \in 1 .. Width =>
              (m - Unroll(base, x)) - 1 \in guard.window
        BY <2>3 DEF Inv, GuardKnows, m
    <3>7. \A x \in applied' : Unroll(base, x) <= u
        BY <1>2, <1>5, <1>6, <2>2, <2>3, <3>1, <3>5 DEF u
    <3>8. ASSUME NEW x \in applied', u - Unroll(base, x) \in 1 .. Width
          PROVE  (u - Unroll(base, x)) - 1 \in Shift(guard.window, delta)
      <4>1. x \in applied /\ delta < Width
        <5>1. x # c
            BY <1>2, <3>8 DEF u
        <5> QED BY <1>3, <2>3, <3>1, <5>1
      <4> DEFINE v == Unroll(base, x)
      <4>2. v \in Nat /\ v <= m /\ m \in Nat /\ u \in Nat
          BY <1>2, <1>6, <2>2, <2>3, <3>5, <4>1
      <4> HIDE DEF v
      <4>3. CASE v = m
        <5>1. (u - v) - 1 = delta - 1
            BY <3>1, <4>2, <4>3
        <5> QED BY <2>2, <2>3, <3>1, <4>1, <5>1, ShiftFacts DEF v
      <4>4. CASE v # m
        <5> DEFINE b == (m - v) - 1
        <5>1. m - v \in 1 .. Width /\ b + delta = (u - v) - 1 /\ b + delta < Width
            BY <1>3, <3>1, <3>8, <4>2, <4>4 DEF v
        <5>2. b \in guard.window
            BY <3>6, <4>1, <5>1 DEF v
        <5> HIDE DEF b
        <5>3. b + delta \in Shift(guard.window, delta)
            BY <2>2, <2>3, <3>1, <5>1, <5>2, ShiftFacts
        <5> QED BY <5>1, <5>3 DEF v
      <4> QED BY <4>3, <4>4
    <3> QED BY <3>3, <3>4, <3>7, <3>8 DEF GuardKnows, u
  <2>4. CASE /\ guard # None /\ ~IsNewer(c, guard.max) /\ Accepts(c)
             /\ guard' = [guard EXCEPT !.window = @ \cup {AheadOf(guard.max, c) - 1}]
             /\ applied' = applied \cup {c}
    <3>1. AheadOf(guard.max, c) \in 1 .. Width
        BY <2>4 DEF Accepts
    <3>2. AheadOf(guard.max, c) = m - u
        BY <1>3, <2>2, <2>4, <3>1
    <3> DEFINE n == AheadOf(guard.max, c)
    <3> HIDE DEF u, m, n
    <3>3. n \in 1 .. Width /\ n = m - u /\ n - 1 \in 0 .. Width - 1
        BY <1>3, <3>1, <3>2 DEF n
    <3>4. guard' = [max |-> guard.max, window |-> guard.window \cup {n - 1}]
        BY <2>2, <2>4 DEF Guard, n
    <3>5. guard' \in Guard /\ guard' # None
        BY <2>2, <2>4, <3>3, <3>4, NoneIsNothing DEF Guard
    <3>6. guard'.max = guard.max /\ guard'.window = guard.window \cup {n - 1}
        BY <3>4
    <3>7. \A x \in applied' : Unroll(base, x) <= m
        BY <1>2, <2>2, <2>4, <3>3 DEF Inv, GuardKnows, m, u
    <3>8. \A x \in applied' : m - Unroll(base, x) \in 1 .. Width =>
              (m - Unroll(base, x)) - 1 \in guard.window \cup {n - 1}
        BY <2>4, <3>3 DEF Inv, GuardKnows, m, u
    <3> QED BY <2>2, <2>4, <3>5, <3>6, <3>7, <3>8 DEF GuardKnows, m
  <2>5. CASE UNCHANGED device
      BY <2>5 DEF device, Inv, Typed, GuardKnows
  <2> QED BY <2>1, <2>3, <2>4, <2>5 DEF Receive, c
<1>8. Typed'
    BY <1>1, <1>2, <1>5, <1>7 DEF Inv, Typed
<1>9. OneSender' /\ InUse(base)'
    BY <1>1, <1>2, <1>5 DEF Inv, OneSender, InUse
<1>10. LastIsNewest(base)'
    BY <1>1, <1>4, <1>5 DEF Inv, LastIsNewest
<1> QED BY <1>7, <1>8, <1>9, <1>10 DEF Inv

-----------------------------------------------------------------------------
\* Every step keeps the invariant, and one that hands out a counter hands out a
\* newer one.
LEMMA StepKeeps ==
    ASSUME NEW base \in Counter, Inv(base), [Next]_vars
    PROVE  /\ Inv(base)'
           /\ HandsOut /\ last # None /\ ~torn => IsNewer(last', last)
<1>1. Inv(base)'
    BY LoadStep, JumpStep, SendStep, QuietSteps, ReceiveStep DEF Next
<1>2. HandsOut /\ last # None /\ ~torn => IsNewer(last', last)
    BY SendStep DEF HandsOut
<1> QED BY <1>1, <1>2

\* base is the ceiling the file holds at first.
LEMMA InitHolds == Init => IInv
<1> SUFFICES ASSUME Init PROVE file \in Counter /\ Inv(file)
    BY DEF IInv
<1> USE ConstantsFit
<1>1. file \in Counter /\ disk = file
    BY GroupcastAssumption DEF Init, Counter
<1>2. Used = 0 /\ 0 \in 0 .. MaxOps
    BY DEF Init, Used
<1>3. SenderLive(file, 0, file) /\ Unroll(file, file) <= Unroll(file, file)
    BY <1>1 DEF SenderLive, Unroll, Larger, Counter
<1>4. Typed /\ OneSender
    BY <1>1, <1>2 DEF Init, Typed, OneSender
<1>5. InUse(file) /\ LastIsNewest(file) /\ GuardKnows(file)
    BY <1>1, <1>2, <1>3 DEF Init, InUse, LastIsNewest, GuardKnows
<1> QED BY <1>1, <1>4, <1>5 DEF Inv

\* Each step, with the base it was proved for.
LEMMA NextKeeps ==
    IInv /\ [Next]_vars => IInv' /\ (HandsOut /\ last # None /\ ~torn => IsNewer(last', last))
<1> SUFFICES ASSUME IInv, [Next]_vars
             PROVE  IInv' /\ (HandsOut /\ last # None /\ ~torn => IsNewer(last', last))
    OBVIOUS
<1>1. PICK base \in Counter : Inv(base)
    BY DEF IInv
<1>2. Inv(base)' /\ (HandsOut /\ last # None /\ ~torn => IsNewer(last', last))
    BY <1>1, StepKeeps
<1>3. IInv'
    BY <1>2 DEF IInv, Counter
<1> QED BY <1>2, <1>3

\* What the run checks follows.
LEMMA InvariantSuffices == IInv => GuardSound /\ AppliedOnce
<1> SUFFICES ASSUME IInv PROVE GuardSound /\ AppliedOnce
    OBVIOUS
<1>1. PICK base \in Counter : Inv(base)
    BY DEF IInv
<1>2. Used \in Nat /\ Used + Gdc <= Reach /\ Epoch \in Nat
    BY <1>1, Room, ConstantsFit DEF Inv
<1>3. TypeOK
  <2>1. ASSUME NEW p \in Procs, sender[p] # None
        PROVE  AheadOf(sender[p].ceiling, sender[p].next) \in 0 .. Epoch
    <3>1. /\ SenderLive(base, Used, file) /\ SenderLive(base, Used, sender[p].next)
          /\ sender[p].ceiling = file
          /\ Unroll(base, sender[p].next) <= Unroll(base, file)
          /\ Unroll(base, file) <= Unroll(base, sender[p].next) + Epoch
        BY <1>1, <2>1 DEF Inv, InUse
    <3>2. /\ Unroll(base, file) \in Nat /\ Unroll(base, sender[p].next) \in Nat
          /\ AheadOf(file, sender[p].next) = Unroll(base, file) - Unroll(base, sender[p].next)
        BY <1>2, <3>1, Order
    <3> QED BY <1>2, <3>1, <3>2
  <2> QED BY <1>1, <2>1 DEF Inv, Typed, TypeOK
<1>4. NewestIsAccepted
  <2> SUFFICES ASSUME last # None, ~torn, last \notin applied, guard # None
               PROVE  IsNewer(last, guard.max)
      BY DEF NewestIsAccepted, Accepts
  <2>1. SenderLive(base, Used, last) /\ guard.max # last /\ Unroll(base, guard.max) <= Unroll(base, last)
      BY <1>1 DEF Inv, InUse, LastIsNewest, GuardKnows
  <2> QED BY <1>1, <2>1, Answers
<1>5. AppliedOnce
  <2> SUFFICES ASSUME NEW c \in applied PROVE ~Accepts(c)
      BY DEF AppliedOnce
  <2>1. guard # None /\ SenderLive(base, Used, c) /\ Unroll(base, c) <= Unroll(base, guard.max)
      BY <1>1 DEF Inv, InUse, GuardKnows
  <2>2. ~IsNewer(c, guard.max)
      BY <1>1, <2>1, Answers
  <2>3. AheadOf(guard.max, c) \in 1 .. Width => AheadOf(guard.max, c) - 1 \in guard.window
    <3>1. AheadOf(guard.max, c) = Unroll(base, guard.max) - Unroll(base, c)
        BY <1>1, <2>1, Answers
    <3> QED BY <1>1, <2>1, <3>1 DEF Inv, GuardKnows
  <2> QED BY <2>1, <2>2, <2>3 DEF Accepts
<1> QED BY <1>3, <1>4, <1>5 DEF GuardSound

\* No controller process, whenever it is started, bumped, killed or caught by
\* the wrap, makes a device take its newest command for a replay: see GuardSound.
THEOREM NewestGetsThrough == Spec => []GuardSound
<1>1. IInv /\ [Next]_vars => IInv'
    BY NextKeeps
<1> QED BY <1>1, InitHolds, InvariantSuffices, PTL DEF Spec

\* A command that reached the device is not applied again while the window
\* remembers it, a torn counter file included: see AppliedOnce.
THEOREM NotAppliedAgain == Spec => []AppliedOnce
<1>1. IInv /\ [Next]_vars => IInv'
    BY NextKeeps
<1> QED BY <1>1, InitHolds, InvariantSuffices, PTL DEF Spec

\* Each counter handed out is newer than the one before, whoever hands it out:
\* see CounterAlwaysNewer.
THEOREM NextIsNewer == Spec => CounterAlwaysNewer
<1>1. IInv /\ [Next]_vars => IInv'
    BY NextKeeps
<1>2. IInv /\ [Next]_vars => [HandsOut /\ last # None /\ ~torn => IsNewer(last', last)]_vars
    BY NextKeeps
<1> QED BY <1>1, <1>2, InitHolds, PTL DEF Spec, CounterAlwaysNewer
-----------------------------------------------------------------------------
(* Provisioning: what a command finished stays                             *)

\* The shape of a device and of a command; what the fields hold is left open.
IsDevice(d) ==
    d = [keysets |-> d.keysets, map |-> d.map, members |-> d.members, others |-> d.others,
         acl |-> d.acl]

IsCommand(c) ==
    c = [kind |-> c.kind, g |-> c.g, k |-> c.k, rebind |-> c.rebind, key |-> c.key,
         list |-> c.list, todo |-> c.todo, copy |-> c.copy, again |-> c.again, pc |-> c.pc,
         alone |-> c.alone, book |-> c.book, had |-> c.had]

StepsOf(kind) ==
    CASE kind = "provision" -> {"keyset", "mapread", "mapwrite", "addgroup", "aclread", "aclwrite"}
      [] kind = "grant"     -> {"aclread", "aclwrite"}
      [] kind = "remove"    -> {"aclread", "aclwrite", "rmgroup", "mapread", "mapwrite", "rmkey"}
      [] OTHER              -> {}

Resting == {"store", "establish", "done"}

CommandSound(c) ==
    /\ IsCommand(c)
    /\ c.kind \in {"provision", "grant", "remove"}
    /\ c.g \in Groups
    /\ c.todo \in Seq(Nodes)
    /\ c.pc \in Resting \cup StepsOf(c.kind)
    /\ c.pc # "done" /\ ~(c.pc = "store" /\ c.kind = "remove") => c.todo # <<>>

\* What a command may rely on before its next request, as long as its session is
\* the node's current one: the lists it read are still those of the node, and what
\* its earlier requests did is still there.
Ready(c, d, noRoom) ==
    /\ c.pc = "mapwrite" => c.copy = d.map
    /\ c.pc = "aclwrite" => c.copy = d.acl
    /\ c.pc = "rmkey" => d.map = WithoutGroup(c.copy, c.g) /\ Unused(c) # {}
    /\ c.kind = "provision" /\ c.pc \in {"addgroup", "aclread", "aclwrite"} => Mapped(d, c.g)
    /\ c.kind = "provision" /\ c.pc \in {"aclread", "aclwrite"} => c.g \in d.members \/ noRoom

Full(p) == <<Node(p), cmd[p].g>> \in crowded

ProvisionTyped ==
    /\ dev = [n \in Nodes |-> dev[n]] /\ \A n \in Nodes : IsDevice(dev[n])
    /\ sess = [n \in Nodes |-> sess[n]]
    /\ cmd = [p \in Processes |-> cmd[p]]
    /\ \A p \in Processes : cmd[p] # Nothing => CommandSound(cmd[p])
    /\ settled \subseteq Nodes \X Groups

SessionsReady ==
    \A p \in Processes : AtNode(p) /\ Live(p) => Ready(cmd[p], dev[Node(p)], Full(p))

ProvisionInv == ProvisionTyped /\ SessionsReady /\ ProvisionedStays

\* The command is at step n of end.
At(c, n, end) == StepNo(c) = n /\ Len(Steps[c.kind]) = end

\* Where a step stands in the order of its command.
LEMMA StepNumbers ==
    ASSUME NEW c
    PROVE  /\ c.kind = "provision" =>
                  /\ c.pc = "keyset" => At(c, 1, 6)
                  /\ c.pc = "mapread" => At(c, 2, 6)
                  /\ c.pc = "mapwrite" => At(c, 3, 6)
                  /\ c.pc = "addgroup" => At(c, 4, 6)
                  /\ c.pc = "aclread" => At(c, 5, 6)
                  /\ c.pc = "aclwrite" => At(c, 6, 6)
           /\ c.kind = "grant" =>
                  /\ c.pc = "aclread" => At(c, 1, 2)
                  /\ c.pc = "aclwrite" => At(c, 2, 2)
           /\ c.kind = "remove" =>
                  /\ c.pc = "aclread" => At(c, 1, 6)
                  /\ c.pc = "aclwrite" => At(c, 2, 6)
                  /\ c.pc = "rmgroup" => At(c, 3, 6)
                  /\ c.pc = "mapread" => At(c, 4, 6)
                  /\ c.pc = "mapwrite" => At(c, 5, 6)
                  /\ c.pc = "rmkey" => At(c, 6, 6)
<1>1. CASE c.kind = "provision"
  <2>1. Steps[c.kind] = <<"keyset", "mapread", "mapwrite", "addgroup", "aclread", "aclwrite">>
    BY <1>1 DEF Steps
  <2> QED BY <1>1, <2>1 DEF At, StepNo
<1>2. CASE c.kind = "grant"
  <2>1. Steps[c.kind] = <<"aclread", "aclwrite">>
    BY <1>2 DEF Steps
  <2> QED BY <1>2, <2>1 DEF At, StepNo
<1>3. CASE c.kind = "remove"
  <2>1. Steps[c.kind] = <<"aclread", "aclwrite", "rmgroup", "mapread", "mapwrite", "rmkey">>
    BY <1>3 DEF Steps
  <2> QED BY <1>3, <2>1 DEF At, StepNo
<1> QED BY <1>1, <1>2, <1>3

Skips(c, i) == Skipped([c EXCEPT !.pc = Steps[c.kind][i]])

IsNext(c, i) == NextNo(c) = i

\* The next step is the first one that is not skipped.
LEMMA NextIs ==
    ASSUME NEW c, NEW i \in Nat,
           StepNo(c) \in Nat, Len(Steps[c.kind]) \in Nat,
           StepNo(c) < i, i <= Len(Steps[c.kind]) + 1,
           \A j \in StepNo(c) + 1 .. i - 1 : Skips(c, j),
           i = Len(Steps[c.kind]) + 1 \/ ~Skips(c, i)
    PROVE  IsNext(c, i)
<1> DEFINE end == Len(Steps[c.kind]) + 1
           First(x) == /\ \A j \in StepNo(c) + 1 .. x - 1 : Skips(c, j)
                       /\ x = end \/ ~Skips(c, x)
<1>1. NextNo(c) = CHOOSE x \in StepNo(c) + 1 .. end : First(x)
  BY DEF NextNo, Skips
<1>2. i \in StepNo(c) + 1 .. end /\ First(i)
  OBVIOUS
<1>3. NextNo(c) \in StepNo(c) + 1 .. end /\ First(NextNo(c))
  <2> HIDE DEF First
  <2> QED BY <1>1, <1>2
<1> DEFINE x == NextNo(c)
<1>4. x \in Nat /\ x <= end
  BY <1>3
<1>5. ~(x < i)
  <2> SUFFICES ASSUME x < i PROVE FALSE
    OBVIOUS
  <2>1. x \in StepNo(c) + 1 .. i - 1 /\ x # end
    BY <1>3
  <2> HIDE DEF x, end
  <2>2. Skips(c, x) /\ ~Skips(c, x)
    BY <1>2, <1>3, <2>1 DEF x
  <2> QED BY <2>2
<1>6. ~(i < x)
  <2> SUFFICES ASSUME i < x PROVE FALSE
    OBVIOUS
  <2>1. i \in StepNo(c) + 1 .. x - 1 /\ i # end
    BY <1>3
  <2> HIDE DEF x, end
  <2>2. Skips(c, i) /\ ~Skips(c, i)
    BY <1>2, <1>3, <2>1 DEF x
  <2> QED BY <2>2
<1> QED BY <1>4, <1>5, <1>6 DEF IsNext

\* No step is skipped, one is, or two are.
Onward(c, n, end) ==
    /\ n = end \/ ~Skips(c, n + 1) => IsNext(c, n + 1)
    /\ n < end /\ Skips(c, n + 1) /\ (n + 1 = end \/ ~Skips(c, n + 2)) => IsNext(c, n + 2)
    /\ n + 2 = end /\ Skips(c, n + 1) /\ Skips(c, n + 2) => IsNext(c, n + 3)

LEMMA NextAfter ==
    ASSUME NEW c, NEW n \in Nat, NEW end \in Nat, At(c, n, end), n <= end
    PROVE  Onward(c, n, end)
<1>1. \A i \in Nat : /\ n < i /\ i <= end + 1 /\ (i = end + 1 \/ ~Skips(c, i))
                     /\ \A j \in n + 1 .. i - 1 : Skips(c, j)
                     => IsNext(c, i)
  BY NextIs DEF At
<1>2. /\ \A j \in n + 1 .. (n + 1) - 1 : FALSE
      /\ \A j \in n + 1 .. (n + 2) - 1 : j = n + 1
      /\ \A j \in n + 1 .. (n + 3) - 1 : j = n + 1 \/ j = n + 2
  OBVIOUS
<1>3. n = end \/ ~Skips(c, n + 1) => IsNext(c, n + 1)
  BY <1>1, <1>2
<1>4. n < end /\ Skips(c, n + 1) /\ (n + 1 = end \/ ~Skips(c, n + 2)) => IsNext(c, n + 2)
  BY <1>1, <1>2
<1>5. n + 2 = end /\ Skips(c, n + 1) /\ Skips(c, n + 2) => IsNext(c, n + 3)
  BY <1>1, <1>2
<1> QED BY <1>3, <1>4, <1>5 DEF Onward

LEMMA NextOfSix ==
    ASSUME NEW c
    PROVE  /\ At(c, 1, 6) => IF Skips(c, 2) THEN ~Skips(c, 3) => IsNext(c, 3) ELSE IsNext(c, 2)
           /\ At(c, 2, 6) /\ ~Skips(c, 3) => IsNext(c, 3)
           /\ At(c, 3, 6) /\ ~Skips(c, 4) => IsNext(c, 4)
           /\ At(c, 4, 6) => IF ~Skips(c, 5) THEN IsNext(c, 5)
                             ELSE IF Skips(c, 6) THEN IsNext(c, 7) ELSE IsNext(c, 6)
           /\ At(c, 5, 6) => IF Skips(c, 6) THEN IsNext(c, 7) ELSE IsNext(c, 6)
           /\ At(c, 6, 6) => IsNext(c, 7)
<1>1. \A n \in 1 .. 6 : At(c, n, 6) => Onward(c, n, 6)
  BY NextAfter
<1>2. /\ At(c, 1, 6) => Onward(c, 1, 6)
      /\ At(c, 2, 6) => Onward(c, 2, 6)
      /\ At(c, 3, 6) => Onward(c, 3, 6)
      /\ At(c, 4, 6) => Onward(c, 4, 6)
      /\ At(c, 5, 6) => Onward(c, 5, 6)
      /\ At(c, 6, 6) => Onward(c, 6, 6)
  BY <1>1
<1> QED BY <1>2 DEF Onward

LEMMA NextOfTwo ==
    ASSUME NEW c
    PROVE  /\ At(c, 1, 2) => IsNext(c, 2) \/ IsNext(c, 3)
           /\ At(c, 2, 2) => IsNext(c, 3)
<1>1. (At(c, 1, 2) => Onward(c, 1, 2)) /\ (At(c, 2, 2) => Onward(c, 2, 2))
  BY NextAfter
<1> QED BY <1>1 DEF Onward

LEMMA SkipsAre ==
    ASSUME NEW c, NEW i, IsCommand(c)
    PROVE  LET x == Steps[c.kind][i]
           IN  Skips(c, i) <=> \/ x = "aclwrite" /\ NewAcl(c) = c.copy
                               \/ x = "mapwrite" /\ c.kind = "remove" /\ WithoutGroup(c.copy, c.g) = c.copy
                               \/ x = "rmkey" /\ Unused(c) = {}
<1> DEFINE x == Steps[c.kind][i]
           d == [c EXCEPT !.pc = x]
<1> HIDE DEF x
<1>1. d.pc = x /\ d.kind = c.kind /\ d.copy = c.copy /\ d.g = c.g
  BY DEF IsCommand
<1> HIDE DEF d
<1>2. NewAcl(d) = NewAcl(c) /\ Unused(d) = Unused(c)
  BY <1>1 DEF NewAcl, Unused
<1>3. Skips(c, i) <=> Skipped(d)
  BY DEF Skips, d, x
<1> QED BY <1>1, <1>2, <1>3 DEF Skipped, x

\* x is the next request.
Follows(c, x) == ~IsLast(c) /\ Steps[c.kind][NextNo(c)] = x

LEMMA ProvisionOrder ==
    ASSUME NEW c, IsCommand(c), c.kind = "provision"
    PROVE  /\ c.pc = "keyset" => Follows(c, "mapread")
           /\ c.pc = "mapread" => Follows(c, "mapwrite")
           /\ c.pc = "mapwrite" => Follows(c, "addgroup")
           /\ c.pc = "addgroup" => Follows(c, "aclread")
           /\ c.pc = "aclread" => Follows(c, "aclwrite") \/ (IsLast(c) /\ NewAcl(c) = c.copy)
           /\ c.pc = "aclwrite" => IsLast(c)
<1>1. Steps[c.kind] = <<"keyset", "mapread", "mapwrite", "addgroup", "aclread", "aclwrite">>
  BY DEF Steps
<1>2. /\ ~Skips(c, 2) /\ ~Skips(c, 3) /\ ~Skips(c, 4) /\ ~Skips(c, 5)
      /\ Skips(c, 6) <=> NewAcl(c) = c.copy
  BY <1>1, SkipsAre
<1> QED BY <1>1, <1>2, NextOfSix, StepNumbers DEF Follows, IsLast, IsNext

LEMMA GrantOrder ==
    ASSUME NEW c, IsCommand(c), c.kind = "grant"
    PROVE  /\ c.pc = "aclread" => Follows(c, "aclwrite") \/ IsLast(c)
           /\ c.pc = "aclwrite" => IsLast(c)
<1>1. Steps[c.kind] = <<"aclread", "aclwrite">>
  BY DEF Steps
<1> QED BY <1>1, NextOfTwo, StepNumbers DEF Follows, IsLast, IsNext

LEMMA RemoveOrder ==
    ASSUME NEW c, IsCommand(c), c.kind = "remove"
    PROVE  /\ c.pc = "aclread" => Follows(c, "aclwrite") \/ Follows(c, "rmgroup")
           /\ c.pc = "aclwrite" => Follows(c, "rmgroup")
           /\ c.pc = "rmgroup" => Follows(c, "mapread")
           /\ c.pc = "mapread" =>
                  \/ Follows(c, "mapwrite") \/ IsLast(c)
                  \/ Follows(c, "rmkey") /\ WithoutGroup(c.copy, c.g) = c.copy /\ Unused(c) # {}
           /\ c.pc = "mapwrite" => (Follows(c, "rmkey") /\ Unused(c) # {}) \/ IsLast(c)
           /\ c.pc = "rmkey" => IsLast(c)
<1>1. Steps[c.kind] = <<"aclread", "aclwrite", "rmgroup", "mapread", "mapwrite", "rmkey">>
  BY DEF Steps
<1>2. /\ ~Skips(c, 3) /\ ~Skips(c, 4)
      /\ Skips(c, 5) <=> WithoutGroup(c.copy, c.g) = c.copy
      /\ Skips(c, 6) <=> Unused(c) = {}
  BY <1>1, SkipsAre
<1> QED BY <1>1, <1>2, NextOfSix, StepNumbers DEF Follows, IsLast, IsNext

-----------------------------------------------------------------------------
(* What a request leaves alone                                             *)

Keeps(d, e, h) ==
    /\ Mapped(d, h) => Mapped(e, h)
    /\ Permits(d, h) => Permits(e, h)
    /\ h \in d.members => h \in e.members

\* From d to e no group but the one the command removes lost anything.
Spares(c, d, e) ==
    /\ IsDevice(e) /\ Administered(e)
    /\ \A h : (c.kind = "remove" => h # c.g) => Keeps(d, e, h)

LEMMA NothingSpares ==
    ASSUME NEW c, NEW d, IsDevice(d), Administered(d)
    PROVE  Spares(c, d, d)
  BY DEF Spares, Keeps

LEMMA KeySetWriteSpares ==
    ASSUME NEW c, NEW d, IsDevice(d), Administered(d), NEW k, NEW key
    PROVE  Spares(c, d, KeySetWrite(d, k, key).dev)
<1> DEFINE ks == [i \in DOMAIN d.keysets \cup {k} |-> IF i = k THEN key ELSE d.keysets[i]]
           e == [d EXCEPT !.keysets = ks]
<1>1. KeySetWrite(d, k, key).dev = e \/ KeySetWrite(d, k, key).dev = d
  BY DEF KeySetWrite, Done, Refused
<1>2. DOMAIN d.keysets \subseteq DOMAIN ks
  OBVIOUS
<1> HIDE DEF ks
<1>3. IsDevice(e) /\ e.keysets = ks /\ e.map = d.map /\ e.members = d.members /\ e.acl = d.acl
  BY DEF IsDevice
<1> HIDE DEF e
<1>4. Spares(c, d, e)
  BY <1>2, <1>3 DEF Spares, Keeps, Mapped, Permits, Administered
<1> QED BY <1>1, <1>4, NothingSpares

LEMMA WriteGroupKeyMapSpares ==
    ASSUME NEW c, NEW d, IsDevice(d), Administered(d), NEW rows,
           \A h, k : (c.kind = "remove" => h # c.g) /\ <<h, k>> \in d.map =>
                         \E l : <<h, l>> \in rows
    PROVE  Spares(c, d, WriteGroupKeyMap(d, rows).dev)
<1> DEFINE e == [d EXCEPT !.map = rows]
<1>1. \/ WriteGroupKeyMap(d, rows).dev = d
      \/ WriteGroupKeyMap(d, rows).dev = e /\ \A r \in rows : r[2] \in DOMAIN d.keysets
  BY DEF WriteGroupKeyMap, Done, Refused
<1>2. IsDevice(e) /\ e.keysets = d.keysets /\ e.map = rows /\ e.members = d.members /\ e.acl = d.acl
  BY DEF IsDevice
<1> HIDE DEF e
<1>3. ASSUME \A r \in rows : r[2] \in DOMAIN d.keysets
      PROVE  Spares(c, d, e)
  <2>1. \A h, l : <<h, l>> \in rows => l \in DOMAIN d.keysets
    BY <1>3
  <2>2. ASSUME NEW h, c.kind = "remove" => h # c.g, Mapped(d, h)
        PROVE  Mapped(e, h)
    BY <1>2, <2>1, <2>2 DEF Mapped
  <2> QED BY <1>2, <2>2 DEF Spares, Keeps, Permits, Administered
<1> QED BY <1>1, <1>3, NothingSpares

LEMMA MergeMapKeeps ==
    ASSUME NEW rows, NEW g, NEW k
    PROVE  /\ <<g, k>> \in MergeMap(rows, g, k)
           /\ \A h, l : <<h, l>> \in rows => \E j : <<h, j>> \in MergeMap(rows, g, k)
<1>1. <<g, k>> \in MergeMap(rows, g, k)
  BY DEF MergeMap
<1>2. ASSUME NEW h, NEW l, <<h, l>> \in rows
      PROVE  \E j : <<h, j>> \in MergeMap(rows, g, k)
  <2>1. CASE h = g
    BY <1>1, <2>1
  <2>2. CASE h # g
    <3> DEFINE old == CHOOSE r \in RowsOf(rows, g) : TRUE
    <3>1. RowsOf(rows, g) # {} => old[1] = g
      BY DEF RowsOf
    <3>2. MergeMap(rows, g, k) = (IF RowsOf(rows, g) = {} THEN rows ELSE rows \ {old}) \cup {<<g, k>>}
      BY DEF MergeMap
    <3> HIDE DEF old
    <3>3. <<h, l>>[1] = h
      OBVIOUS
    <3> QED BY <1>2, <2>2, <3>1, <3>2, <3>3
  <2> QED BY <2>1, <2>2
<1> QED BY <1>1, <1>2

LEMMA KeySetRemoveSpares ==
    ASSUME NEW c, NEW d, IsDevice(d), Administered(d), NEW k,
           \A r \in d.map : r[2] # k
    PROVE  Spares(c, d, KeySetRemove(d, k).dev)
<1> DEFINE ks == [i \in DOMAIN d.keysets \ {k} |-> d.keysets[i]]
           rows == {r \in d.map : r[2] # k}
           e == [d EXCEPT !.keysets = ks, !.map = rows]
<1>1. KeySetRemove(d, k).dev = e \/ KeySetRemove(d, k).dev = d
  BY DEF KeySetRemove, Done, Refused
<1>2. rows = d.map /\ DOMAIN ks = DOMAIN d.keysets \ {k}
  OBVIOUS
<1> HIDE DEF ks, rows
<1>3. IsDevice(e) /\ e.keysets = ks /\ e.map = rows /\ e.members = d.members /\ e.acl = d.acl
  <2> DEFINE T == [keysets : {d.keysets, ks}, map : {d.map, rows}, members : {d.members},
                   others : {d.others}, acl : {d.acl}]
  <2>1. d \in T
    BY DEF IsDevice
  <2>2. e \in T
    BY <2>1
  <2>3. \A x \in T : IsDevice(x)
    BY DEF IsDevice
  <2>4. e.keysets = ks /\ e.map = rows
    BY <2>1
  <2>5. e.members = d.members /\ e.acl = d.acl
    BY <2>2
  <2> QED BY <2>2, <2>3, <2>4, <2>5
<1> HIDE DEF e
<1>4. \A h, l : <<h, l>> \in d.map => l # k
  <2>1. \A h, l : <<h, l>>[2] = l
    OBVIOUS
  <2> QED BY <2>1
<1>5. Spares(c, d, e)
  BY <1>2, <1>3, <1>4 DEF Spares, Keeps, Mapped, Permits, Administered
<1> QED BY <1>1, <1>5, NothingSpares

LEMMA AddGroupSpares ==
    ASSUME NEW c, NEW d, IsDevice(d), Administered(d), NEW g
    PROVE  /\ Spares(c, d, AddGroup(d, g).dev)
           /\ g \in AddGroup(d, g).dev.members \/ ~HasRoom(d, g)
           /\ Mapped(d, g) => Mapped(AddGroup(d, g).dev, g)
<1> DEFINE m == d.members \cup {g}
           e == [d EXCEPT !.members = m]
<1>1. AddGroup(d, g).dev = IF HasRoom(d, g) THEN e ELSE d
  BY DEF AddGroup, Done, Refused
<1>2. d.members \subseteq m /\ g \in m
  OBVIOUS
<1> HIDE DEF m
<1>3. IsDevice(e) /\ e.keysets = d.keysets /\ e.map = d.map /\ e.members = m /\ e.acl = d.acl
  BY DEF IsDevice
<1> HIDE DEF e
<1>4. Spares(c, d, e) /\ (Mapped(d, g) => Mapped(e, g))
  BY <1>2, <1>3 DEF Spares, Keeps, Mapped, Permits, Administered
<1> QED BY <1>1, <1>2, <1>3, <1>4, NothingSpares

LEMMA RemoveGroupSpares ==
    ASSUME NEW c, NEW d, IsDevice(d), Administered(d), c.kind = "remove"
    PROVE  Spares(c, d, RemoveGroup(d, c.g).dev)
<1> DEFINE m == d.members \ {c.g}
           e == [d EXCEPT !.members = m]
<1>1. RemoveGroup(d, c.g).dev = e
  BY DEF RemoveGroup, Done
<1>2. \A h : h # c.g /\ h \in d.members => h \in m
  OBVIOUS
<1> HIDE DEF m
<1>3. IsDevice(e) /\ e.keysets = d.keysets /\ e.map = d.map /\ e.members = m /\ e.acl = d.acl
  BY DEF IsDevice
<1> HIDE DEF e
<1>4. Spares(c, d, e)
  BY <1>2, <1>3 DEF Spares, Keeps, Mapped, Permits, Administered
<1> QED BY <1>1, <1>4

\* An entry that lets a group in.
LetsIn(e, h) == e.auth = "group" /\ e.subject = h /\ e.privilege >= Operate

LEMMA WriteAclSpares ==
    ASSUME NEW c, NEW d, IsDevice(d), Administered(d), NEW acl, AdminEntry \in acl,
           \A h : (c.kind = "remove" => h # c.g) => \A x \in d.acl : LetsIn(x, h) => x \in acl
    PROVE  Spares(c, d, WriteAcl(d, acl).dev)
<1> DEFINE e == [d EXCEPT !.acl = acl]
<1>1. WriteAcl(d, acl).dev = e \/ WriteAcl(d, acl).dev = d
  BY DEF WriteAcl, Done, Refused
<1>2. IsDevice(e) /\ e.keysets = d.keysets /\ e.map = d.map /\ e.members = d.members /\ e.acl = acl
  BY DEF IsDevice
<1> HIDE DEF e
<1>3. \A h : (c.kind = "remove" => h # c.g) /\ Permits(d, h) => Permits(e, h)
  BY <1>2 DEF Permits, LetsIn
<1>4. Spares(c, d, e)
  BY <1>2, <1>3 DEF Spares, Keeps, Mapped, Administered
<1> QED BY <1>1, <1>4, NothingSpares

LEMMA NewAclKeeps ==
    ASSUME NEW c, AdminEntry \in c.copy
    PROVE  /\ AdminEntry \in NewAcl(c)
           /\ \A h : (c.kind = "remove" => h # c.g) => \A x \in c.copy : LetsIn(x, h) => x \in NewAcl(c)
           /\ c.kind # "remove" => \E x \in NewAcl(c) : LetsIn(x, c.g)
<1>1. CASE c.kind = "remove"
  <2>1. AdminEntry.auth = "case"
    BY DEF AdminEntry
  <2>2. NewAcl(c) = {e \in c.copy : ~(e.auth = "group" /\ e.subject = c.g)}
    BY <1>1 DEF NewAcl, WithoutGroupEntry
  <2> QED BY <1>1, <2>1, <2>2 DEF LetsIn
<1>2. CASE c.kind # "remove"
  <2>1. NewAcl(c) = IF Granted(c.copy, c.g) THEN c.copy ELSE c.copy \cup {GroupEntry(c.g, Operate)}
    BY <1>2 DEF NewAcl, MergeAcl
  <2>2. LetsIn(GroupEntry(c.g, Operate), c.g)
    BY DEF LetsIn, GroupEntry, Operate
  <2> QED BY <1>2, <2>1, <2>2 DEF LetsIn, Granted
<1> QED BY <1>1, <1>2

-----------------------------------------------------------------------------
(* The request of a step, and the next one                                 *)

\* A process whose session is the node's current one, before its request.
AtWork(p) ==
    /\ p \in Processes /\ CommandSound(cmd[p]) /\ cmd[p].pc \in StepsOf(cmd[p].kind)
    /\ IsDevice(dev[Node(p)]) /\ Administered(dev[Node(p)])
    /\ Ready(cmd[p], dev[Node(p)], Full(p))

LEMMA ServedIs ==
    ASSUME NEW p, cmd[p].pc \in StepsOf(cmd[p].kind), cmd[p].kind \in {"provision", "grant", "remove"}
    PROVE  LET c == cmd[p]
               d == dev[Node(p)]
           IN  /\ c.pc = "keyset" => Served(p) = KeySetWrite(d, c.k, c.key)
               /\ c.pc = "mapread" => Served(p) = Done(d)
               /\ c.pc = "mapwrite" /\ c.kind = "provision"
                      => Served(p) = WriteGroupKeyMap(d, MergeMap(c.copy, c.g, c.k))
               /\ c.pc = "mapwrite" /\ c.kind = "remove"
                      => Served(p) = WriteGroupKeyMap(d, WithoutGroup(c.copy, c.g))
               /\ c.pc = "addgroup" => Served(p) = AddGroup(d, c.g)
               /\ c.pc = "rmgroup" => Served(p) = RemoveGroup(d, c.g)
               /\ c.pc = "aclread" => Served(p) = Done(d)
               /\ c.pc = "aclwrite" => Served(p) = WriteAcl(d, NewAcl(c))
               /\ c.pc = "rmkey" => Served(p) = KeySetRemove(d, CHOOSE k \in Unused(c) : TRUE)
  BY DEF Served

LEMMA ServedSpares ==
    ASSUME NEW p, AtWork(p)
    PROVE  Spares(cmd[p], dev[Node(p)], Served(p).dev)
<1> DEFINE c == cmd[p]
           d == dev[Node(p)]
<1>0. /\ IsDevice(d) /\ Administered(d) /\ Ready(c, d, Full(p))
      /\ c.pc \in StepsOf(c.kind) /\ c.kind \in {"provision", "grant", "remove"}
  BY DEF AtWork, CommandSound
<1>1. CASE c.pc \in {"mapread", "aclread"}
  <2>1. Served(p) = Done(d)
    BY <1>0, <1>1, ServedIs
  <2>2. Served(p).dev = d
    BY <2>1 DEF Done
  <2> QED BY <1>0, <2>2, NothingSpares
<1>2. CASE c.pc = "keyset"
  <2>1. Served(p) = KeySetWrite(d, c.k, c.key)
    BY <1>0, <1>2, ServedIs
  <2> HIDE DEF c, d
  <2> QED BY <1>0, <2>1, KeySetWriteSpares DEF c, d
<1>3. CASE c.pc = "mapwrite" /\ c.kind = "provision"
  <2>1. Served(p) = WriteGroupKeyMap(d, MergeMap(c.copy, c.g, c.k))
    BY <1>0, <1>3, ServedIs
  <2>2. c.copy = d.map
    BY <1>0, <1>3 DEF Ready
  <2> HIDE DEF c, d
  <2> DEFINE rows == MergeMap(c.copy, c.g, c.k)
  <2>3. \A h, k : <<h, k>> \in d.map => \E l : <<h, l>> \in rows
    BY <2>2, MergeMapKeeps
  <2> HIDE DEF rows
  <2>4. Spares(c, d, WriteGroupKeyMap(d, rows).dev)
    BY <1>0, <2>3, WriteGroupKeyMapSpares
  <2> QED BY <2>1, <2>4 DEF c, d, rows
<1>4. CASE c.pc = "mapwrite" /\ c.kind = "remove"
  <2>1. Served(p) = WriteGroupKeyMap(d, WithoutGroup(c.copy, c.g))
    BY <1>0, <1>4, ServedIs
  <2>2. c.copy = d.map
    BY <1>0, <1>4 DEF Ready
  <2> HIDE DEF c, d
  <2> DEFINE rows == WithoutGroup(c.copy, c.g)
  <2>3. \A h, k : h # c.g /\ <<h, k>> \in d.map => <<h, k>> \in rows
    BY <2>2 DEF WithoutGroup, RowsOf
  <2> HIDE DEF rows
  <2>4. Spares(c, d, WriteGroupKeyMap(d, rows).dev)
    BY <1>0, <1>4, <2>3, WriteGroupKeyMapSpares
  <2> QED BY <2>1, <2>4 DEF c, d, rows
<1>5. CASE c.pc = "addgroup"
  <2>1. Served(p) = AddGroup(d, c.g)
    BY <1>0, <1>5, ServedIs
  <2> HIDE DEF c, d
  <2> QED BY <1>0, <2>1, AddGroupSpares DEF c, d
<1>6. CASE c.pc = "rmgroup"
  <2>1. Served(p) = RemoveGroup(d, c.g) /\ c.kind = "remove"
    BY <1>0, <1>6, ServedIs DEF StepsOf
  <2> HIDE DEF c, d
  <2> QED BY <1>0, <2>1, RemoveGroupSpares DEF c, d
<1>7. CASE c.pc = "aclwrite"
  <2>1. Served(p) = WriteAcl(d, NewAcl(c))
    BY <1>0, <1>7, ServedIs
  <2>2. c.copy = d.acl
    BY <1>0, <1>7 DEF Ready
  <2> HIDE DEF c, d
  <2>3. AdminEntry \in c.copy
    BY <1>0, <2>2 DEF Administered
  <2> DEFINE acl == NewAcl(c)
  <2>4. /\ AdminEntry \in acl
        /\ \A h : (c.kind = "remove" => h # c.g) => \A x \in d.acl : LetsIn(x, h) => x \in acl
    BY <2>2, <2>3, NewAclKeeps
  <2> HIDE DEF acl
  <2>5. Spares(c, d, WriteAcl(d, acl).dev)
    BY <1>0, <2>4, WriteAclSpares
  <2> QED BY <2>1, <2>5 DEF c, d, acl
<1>8. CASE c.pc = "rmkey"
  <2> DEFINE k == CHOOSE x \in Unused(c) : TRUE
  <2>1. Served(p) = KeySetRemove(d, k)
    BY <1>0, <1>8, ServedIs
  <2>2. d.map = WithoutGroup(c.copy, c.g) /\ Unused(c) # {}
    BY <1>0, <1>8 DEF Ready
  <2> HIDE DEF c, d
  <2>3. k \in Unused(c)
    BY <2>2
  <2> HIDE DEF k
  <2>4. \A r \in d.map : r[2] # k
    BY <2>2, <2>3 DEF Unused
  <2>5. Spares(c, d, KeySetRemove(d, k).dev)
    BY <1>0, <2>4, KeySetRemoveSpares
  <2> QED BY <2>1, <2>5 DEF c, d
<1> QED BY <1>0, <1>1, <1>2, <1>3, <1>4, <1>5, <1>6, <1>7, <1>8 DEF StepsOf

ReadyFor(x, c, d, noRoom) ==
    /\ x = "mapwrite" => c.copy = d.map
    /\ x = "aclwrite" => c.copy = d.acl
    /\ x = "rmkey" => d.map = WithoutGroup(c.copy, c.g) /\ Unused(c) # {}
    /\ c.kind = "provision" /\ x \in {"addgroup", "aclread", "aclwrite"} => Mapped(d, c.g)
    /\ c.kind = "provision" /\ x \in {"aclread", "aclwrite"} => c.g \in d.members \/ noRoom

Settles(c, d, noRoom) ==
    Mapped(d, c.g) /\ Permits(d, c.g) /\ (c.g \in d.members \/ noRoom)

\* The command goes on to a request it is ready for, or is done with the node.
Moves(c, d, noRoom) ==
    \/ IsLast(c) /\ (c.kind = "provision" => Settles(c, d, noRoom))
    \/ \E x \in StepsOf(c.kind) : Follows(c, x) /\ ReadyFor(x, c, d, noRoom)

\* The answer to AddGroup, if that was the request.
RoomNow(p) == IF cmd[p].pc = "addgroup" THEN ~HasRoom(dev[Node(p)], cmd[p].g) ELSE Full(p)

Informed(p) == [cmd[p] EXCEPT !.copy = Copied(p)]

LEMMA InformedIs ==
    ASSUME NEW p, IsCommand(cmd[p])
    PROVE  LET c == Informed(p)
               b == cmd[p]
           IN  /\ IsCommand(c) /\ c.kind = b.kind /\ c.g = b.g /\ c.k = b.k /\ c.todo = b.todo /\ c.pc = b.pc
               /\ b.pc = "mapread" => c.copy = dev[Node(p)].map
               /\ b.pc = "aclread" => c.copy = dev[Node(p)].acl
               /\ b.pc \notin {"mapread", "aclread"} => c.copy = b.copy
<1> DEFINE c == Informed(p)
           v == Copied(p)
<1>1. /\ cmd[p].pc = "mapread" => v = dev[Node(p)].map
      /\ cmd[p].pc = "aclread" => v = dev[Node(p)].acl
      /\ cmd[p].pc \notin {"mapread", "aclread"} => v = cmd[p].copy
  BY DEF Copied
<1>2. c = [cmd[p] EXCEPT !.copy = v]
  BY DEF Informed
<1> HIDE DEF v, c
<1>3. IsCommand(c)
  BY <1>2 DEF IsCommand
<1>4. /\ c.kind = cmd[p].kind /\ c.g = cmd[p].g /\ c.k = cmd[p].k /\ c.todo = cmd[p].todo
      /\ c.pc = cmd[p].pc /\ c.copy = v
  BY <1>2 DEF IsCommand
<1> QED BY <1>1, <1>3, <1>4 DEF c

LEMMA WriteGroupKeyMapOk ==
    ASSUME NEW d, IsDevice(d), NEW rows, WriteGroupKeyMap(d, rows).ok
    PROVE  LET e == WriteGroupKeyMap(d, rows).dev
           IN  /\ e.map = rows
               /\ \A g, k : <<g, k>> \in rows => Mapped(e, g)
<1> DEFINE e == [d EXCEPT !.map = rows]
<1>1. WriteGroupKeyMap(d, rows).dev = e /\ \A r \in rows : r[2] \in DOMAIN d.keysets
  BY DEF WriteGroupKeyMap, Done, Refused
<1>2. e.keysets = d.keysets /\ e.map = rows
  BY DEF IsDevice
<1> HIDE DEF e
<1>3. \A g, k : <<g, k>> \in rows => k \in DOMAIN d.keysets
  BY <1>1
<1> QED BY <1>1, <1>2, <1>3 DEF Mapped

LEMMA WriteAclOk ==
    ASSUME NEW d, IsDevice(d), NEW acl, WriteAcl(d, acl).ok
    PROVE  WriteAcl(d, acl).dev.acl = acl
<1>1. WriteAcl(d, acl).dev = [d EXCEPT !.acl = acl]
  BY DEF WriteAcl, Done, Refused
<1> QED BY <1>1 DEF IsDevice

LEMMA ProvisionMoves ==
    ASSUME NEW p, AtWork(p), Served(p).ok, cmd[p].kind = "provision"
    PROVE  Moves(Informed(p), Served(p).dev, RoomNow(p))
<1> DEFINE c == Informed(p)
           b == cmd[p]
           d == dev[Node(p)]
           e == Served(p).dev
           r == RoomNow(p)
<1>0. /\ IsDevice(d) /\ Administered(d) /\ Ready(b, d, Full(p)) /\ IsCommand(b)
      /\ b.pc \in StepsOf(b.kind) /\ b.kind \in {"provision", "grant", "remove"}
  BY DEF AtWork, CommandSound
<1>1. /\ IsCommand(c) /\ c.kind = "provision" /\ c.g = b.g /\ c.k = b.k /\ c.pc = b.pc
      /\ b.pc = "mapread" => c.copy = d.map
      /\ b.pc = "aclread" => c.copy = d.acl
      /\ b.pc \notin {"mapread", "aclread"} => c.copy = b.copy
  BY <1>0, InformedIs
<1>2. b.pc \in StepsOf("provision")
  BY <1>0
<1>3. Spares(b, d, e)
  BY ServedSpares
<1>4. /\ c.pc = "keyset" => Follows(c, "mapread")
      /\ c.pc = "mapread" => Follows(c, "mapwrite")
      /\ c.pc = "mapwrite" => Follows(c, "addgroup")
      /\ c.pc = "addgroup" => Follows(c, "aclread")
      /\ c.pc = "aclread" => Follows(c, "aclwrite") \/ (IsLast(c) /\ NewAcl(c) = c.copy)
      /\ c.pc = "aclwrite" => IsLast(c)
  BY <1>1, ProvisionOrder
<1>5. b.pc \in {"mapread", "aclread"} => e = d
  <2>1. b.pc \in {"mapread", "aclread"} => Served(p) = Done(d)
    BY <1>0, ServedIs
  <2> QED BY <2>1 DEF Done
<1>6. b.pc # "addgroup" => r = Full(p)
  BY DEF RoomNow
<1>7. CASE b.pc = "keyset"
  <2> HIDE DEF c, b, d, e, r
  <2>1. Follows(c, "mapread") /\ ReadyFor("mapread", c, e, r)
    BY <1>1, <1>4, <1>7 DEF ReadyFor
  <2> QED BY <1>1, <2>1 DEF Moves, StepsOf, c, e, r
<1>8. CASE b.pc = "mapread"
  <2> HIDE DEF c, b, d, e, r
  <2>1. Follows(c, "mapwrite") /\ ReadyFor("mapwrite", c, e, r)
    BY <1>1, <1>4, <1>5, <1>8 DEF ReadyFor
  <2> QED BY <1>1, <2>1 DEF Moves, StepsOf, c, e, r
<1>9. CASE b.pc = "mapwrite"
  <2> DEFINE rows == MergeMap(b.copy, b.g, b.k)
  <2>1. Served(p) = WriteGroupKeyMap(d, rows)
    BY <1>0, <1>9, ServedIs
  <2>2. <<b.g, b.k>> \in rows
    BY MergeMapKeeps
  <2> HIDE DEF rows
  <2>3. Mapped(e, b.g)
    BY <1>0, <2>1, <2>2, WriteGroupKeyMapOk
  <2> HIDE DEF c, b, d, e, r
  <2>4. Follows(c, "addgroup") /\ ReadyFor("addgroup", c, e, r)
    BY <1>1, <1>4, <1>9, <2>3 DEF ReadyFor
  <2> QED BY <1>1, <2>4 DEF Moves, StepsOf, c, e, r
<1>10. CASE b.pc = "addgroup"
  <2>1. Served(p) = AddGroup(d, b.g)
    BY <1>0, <1>10, ServedIs
  <2>2. Mapped(d, b.g)
    BY <1>0, <1>10 DEF Ready
  <2>3. Mapped(e, b.g) /\ (b.g \in e.members \/ ~HasRoom(d, b.g))
    BY <1>0, <2>1, <2>2, AddGroupSpares
  <2>4. b.g \in e.members \/ r
    BY <1>10, <2>3 DEF RoomNow
  <2> HIDE DEF c, b, d, e, r
  <2>5. Follows(c, "aclread") /\ ReadyFor("aclread", c, e, r)
    BY <1>1, <1>4, <1>10, <2>3, <2>4 DEF ReadyFor
  <2> QED BY <1>1, <2>5 DEF Moves, StepsOf, c, e, r
<1>11. CASE b.pc = "aclread"
  <2>1. Mapped(e, b.g) /\ (b.g \in e.members \/ r)
    BY <1>0, <1>5, <1>6, <1>11 DEF Ready
  <2> HIDE DEF c, b, d, e, r
  <2>2. CASE Follows(c, "aclwrite")
    <3>1. ReadyFor("aclwrite", c, e, r)
      BY <1>1, <1>5, <1>11, <2>1 DEF ReadyFor
    <3> QED BY <1>1, <2>2, <3>1 DEF Moves, StepsOf, c, e, r
  <2>3. CASE IsLast(c) /\ NewAcl(c) = c.copy
    <3>1. AdminEntry \in c.copy
      BY <1>0, <1>1, <1>11 DEF Administered
    <3>2. \E x \in d.acl : LetsIn(x, c.g)
      BY <1>1, <1>11, <2>3, <3>1, NewAclKeeps
    <3>3. Permits(e, c.g)
      BY <1>5, <1>11, <3>2 DEF Permits, LetsIn
    <3> QED BY <1>1, <2>1, <2>3, <3>3 DEF Moves, Settles, c, e, r
  <2> QED BY <1>1, <1>4, <1>11, <2>2, <2>3
<1>12. CASE b.pc = "aclwrite"
  <2>1. Mapped(d, b.g) /\ (b.g \in d.members \/ r) /\ b.copy = d.acl
    BY <1>0, <1>6, <1>12 DEF Ready
  <2>2. Mapped(e, b.g) /\ (b.g \in e.members \/ r)
    BY <1>3, <2>1 DEF Spares, Keeps
  <2>3. Served(p) = WriteAcl(d, NewAcl(b))
    BY <1>0, <1>12, ServedIs
  <2>4. AdminEntry \in b.copy
    BY <1>0, <2>1 DEF Administered
  <2>5. \E x \in NewAcl(b) : LetsIn(x, b.g)
    BY <2>4, NewAclKeeps
  <2>6. e.acl = NewAcl(b)
    BY <1>0, <2>3, WriteAclOk
  <2> HIDE DEF c, b, d, e, r
  <2>7. Permits(e, b.g)
    BY <2>5, <2>6 DEF Permits, LetsIn
  <2> QED BY <1>1, <1>4, <1>12, <2>2, <2>7 DEF Moves, Settles, c, e, r
<1> QED BY <1>2, <1>7, <1>8, <1>9, <1>10, <1>11, <1>12 DEF StepsOf

LEMMA GrantMoves ==
    ASSUME NEW p, AtWork(p), Served(p).ok, cmd[p].kind = "grant"
    PROVE  Moves(Informed(p), Served(p).dev, RoomNow(p))
<1> DEFINE c == Informed(p)
           b == cmd[p]
           d == dev[Node(p)]
           e == Served(p).dev
           r == RoomNow(p)
<1>0. IsCommand(b) /\ b.pc \in StepsOf(b.kind) /\ b.kind \in {"provision", "grant", "remove"}
  BY DEF AtWork, CommandSound
<1>1. /\ IsCommand(c) /\ c.kind = "grant" /\ c.pc = b.pc
      /\ b.pc = "aclread" => c.copy = d.acl
  BY <1>0, InformedIs
<1>2. b.pc \in {"aclread", "aclwrite"}
  BY <1>0 DEF StepsOf
<1>3. b.pc = "aclread" => e = d
  <2>1. b.pc = "aclread" => Served(p) = Done(d)
    BY <1>0, ServedIs
  <2> QED BY <2>1 DEF Done
<1>4. IsLast(c) \/ (Follows(c, "aclwrite") /\ b.pc = "aclread")
  BY <1>1, <1>2, GrantOrder
<1> HIDE DEF c, b, d, e, r
<1>5. b.pc = "aclread" => ReadyFor("aclwrite", c, e, r)
  BY <1>1, <1>3 DEF ReadyFor
<1> QED BY <1>1, <1>4, <1>5 DEF Moves, StepsOf, c, e, r

LEMMA RemoveMoves ==
    ASSUME NEW p, AtWork(p), Served(p).ok, cmd[p].kind = "remove"
    PROVE  Moves(Informed(p), Served(p).dev, RoomNow(p))
<1> DEFINE c == Informed(p)
           b == cmd[p]
           d == dev[Node(p)]
           e == Served(p).dev
           r == RoomNow(p)
<1>0. /\ IsDevice(d) /\ IsCommand(b)
      /\ b.pc \in StepsOf(b.kind) /\ b.kind \in {"provision", "grant", "remove"}
  BY DEF AtWork, CommandSound
<1>1. /\ IsCommand(c) /\ c.kind = "remove" /\ c.g = b.g /\ c.pc = b.pc
      /\ b.pc = "mapread" => c.copy = d.map
      /\ b.pc = "aclread" => c.copy = d.acl
      /\ b.pc \notin {"mapread", "aclread"} => c.copy = b.copy
  BY <1>0, InformedIs
<1>2. b.pc \in StepsOf("remove")
  BY <1>0
<1>3. b.pc \in {"mapread", "aclread"} => e = d
  <2>1. b.pc \in {"mapread", "aclread"} => Served(p) = Done(d)
    BY <1>0, ServedIs
  <2> QED BY <2>1 DEF Done
<1>4. b.pc = "mapwrite" => e.map = WithoutGroup(b.copy, b.g)
  <2>1. b.pc = "mapwrite" => Served(p) = WriteGroupKeyMap(d, WithoutGroup(b.copy, b.g))
    BY <1>0, ServedIs
  <2> QED BY <1>0, <2>1, WriteGroupKeyMapOk
<1> HIDE DEF c, b, d, e, r
<1>5. /\ c.pc = "aclread" => Follows(c, "aclwrite") \/ Follows(c, "rmgroup")
      /\ c.pc = "aclwrite" => Follows(c, "rmgroup")
      /\ c.pc = "rmgroup" => Follows(c, "mapread")
      /\ c.pc = "mapread" =>
             \/ Follows(c, "mapwrite") \/ IsLast(c)
             \/ Follows(c, "rmkey") /\ WithoutGroup(c.copy, c.g) = c.copy /\ Unused(c) # {}
      /\ c.pc = "mapwrite" => (Follows(c, "rmkey") /\ Unused(c) # {}) \/ IsLast(c)
      /\ c.pc = "rmkey" => IsLast(c)
  BY <1>1, RemoveOrder
<1>6. ReadyFor("rmgroup", c, e, r) /\ ReadyFor("mapread", c, e, r)
  BY <1>1 DEF ReadyFor
<1>7. /\ c.pc = "aclread" => ReadyFor("aclwrite", c, e, r)
      /\ c.pc = "mapread" => ReadyFor("mapwrite", c, e, r)
      /\ c.pc = "mapread" /\ WithoutGroup(c.copy, c.g) = c.copy /\ Unused(c) # {}
             => ReadyFor("rmkey", c, e, r)
      /\ c.pc = "mapwrite" /\ Unused(c) # {} => ReadyFor("rmkey", c, e, r)
  BY <1>1, <1>3, <1>4 DEF ReadyFor
<1>8. StepsOf("remove") = {"aclread", "aclwrite", "rmgroup", "mapread", "mapwrite", "rmkey"}
  BY DEF StepsOf
<1>9. \/ IsLast(c)
      \/ \E x \in StepsOf("remove") : Follows(c, x) /\ ReadyFor(x, c, e, r)
  BY <1>1, <1>2, <1>5, <1>6, <1>7, <1>8
<1> QED BY <1>1, <1>9 DEF Moves, c, e, r

LEMMA StepMoves ==
    ASSUME NEW p, AtWork(p), Served(p).ok
    PROVE  Moves(Informed(p), Served(p).dev, RoomNow(p))
<1>1. cmd[p].kind \in {"provision", "grant", "remove"}
  BY DEF AtWork, CommandSound
<1> QED BY <1>1, ProvisionMoves, GrantMoves, RemoveMoves

LEMMA GoesTo ==
    ASSUME NEW c, CommandSound(c), NEW x, x \in Resting \cup StepsOf(c.kind),
           c.todo # <<>> \/ x = "done"
    PROVE  /\ CommandSound([c EXCEPT !.pc = x])
           /\ [c EXCEPT !.pc = x].pc = x
           /\ [c EXCEPT !.pc = x].g = c.g /\ [c EXCEPT !.pc = x].todo = c.todo
           /\ \A d, noRoom : ReadyFor(x, c, d, noRoom) => Ready([c EXCEPT !.pc = x], d, noRoom)
<1> DEFINE b == [c EXCEPT !.pc = x]
<1>1. IsCommand(c)
  BY DEF CommandSound
<1>2. IsCommand(b)
  BY <1>1 DEF IsCommand
<1>3. b.pc = x /\ b.kind = c.kind /\ b.g = c.g /\ b.todo = c.todo /\ b.copy = c.copy
  BY <1>1 DEF IsCommand
<1> HIDE DEF b
<1>4. CommandSound(b)
  BY <1>2, <1>3 DEF CommandSound
<1>5. Unused(b) = Unused(c)
  BY <1>3 DEF Unused
<1>6. \A d, noRoom : ReadyFor(x, c, d, noRoom) => Ready(b, d, noRoom)
  BY <1>3, <1>5 DEF ReadyFor, Ready
<1> QED BY <1>3, <1>4, <1>6 DEF b

\* Done with the node: the next one, or the end.
LEMMA LastAdvances ==
    ASSUME NEW c, CommandSound(c), IsLast(c), c.todo # <<>>
    PROVE  CommandSound(Advanced(c)) /\ Advanced(c).pc \in Resting
<1> DEFINE x == IF Len(c.todo) > 1 THEN "establish" ELSE IF c.kind = "remove" THEN "store" ELSE "done"
           t == Tail(c.todo)
           none == {}
           b == [c EXCEPT !.todo = t, !.copy = none, !.again = FALSE, !.pc = x]
<1>1. Advanced(c) = b
  BY DEF Advanced
<1>2. x \in Resting /\ (x = "establish" => Len(c.todo) > 1) /\ (x = "store" => c.kind = "remove")
  BY DEF Resting, CommandSound
<1>3. t \in Seq(Nodes) /\ (Len(c.todo) > 1 => t # <<>>) /\ Len(c.todo) \in Nat
  <2>1. c.todo \in Seq(Nodes) /\ c.todo # <<>>
    BY DEF CommandSound
  <2>2. t \in Seq(Nodes) /\ Len(t) = Len(c.todo) - 1 /\ Len(c.todo) \in Nat
    BY <2>1
  <2>3. Len(<<>>) = 0
    OBVIOUS
  <2> HIDE DEF t
  <2>4. Len(c.todo) > 1 => t # <<>>
    BY <2>2, <2>3
  <2> QED BY <2>2, <2>4
<1> HIDE DEF x, t, none
<1>4. IsCommand(c)
  BY DEF CommandSound
<1>5. IsCommand(b)
  <2> DEFINE T == [kind : {c.kind}, g : {c.g}, k : {c.k}, rebind : {c.rebind}, key : {c.key},
                   list : {c.list}, todo : {c.todo, t}, copy : {c.copy, none},
                   again : {c.again, FALSE}, pc : {c.pc, x}, alone : {c.alone}, book : {c.book},
                   had : {c.had}]
  <2>1. c \in T
    BY <1>4 DEF IsCommand
  <2>2. b \in T
    BY <2>1
  <2>3. \A y \in T : IsCommand(y)
    BY DEF IsCommand
  <2> QED BY <2>2, <2>3
<1>6. b.kind = c.kind /\ b.g = c.g /\ b.todo = t /\ b.pc = x
  BY <1>4 DEF IsCommand
<1> HIDE DEF b
<1>7. CommandSound(b)
  BY <1>2, <1>3, <1>5, <1>6 DEF CommandSound, Resting
<1> QED BY <1>1, <1>2, <1>6, <1>7

LEMMA StepAdvances ==
    ASSUME NEW p, AtWork(p), Served(p).ok
    PROVE  LET b == Advanced(Informed(p))
               e == Served(p).dev
           IN  /\ CommandSound(b)
               /\ ~IsLast(Informed(p)) =>
                      b.todo = cmd[p].todo /\ b.g = cmd[p].g /\ Ready(b, e, RoomNow(p))
               /\ IsLast(Informed(p)) =>
                      /\ b.pc \in Resting
                      /\ cmd[p].kind = "provision" => Settles(cmd[p], e, RoomNow(p))
<1> DEFINE c == Informed(p)
           e == Served(p).dev
           r == RoomNow(p)
<1>1. IsCommand(cmd[p]) /\ CommandSound(cmd[p]) /\ cmd[p].pc \in StepsOf(cmd[p].kind)
  BY DEF AtWork, CommandSound
<1>2. IsCommand(c) /\ c.kind = cmd[p].kind /\ c.g = cmd[p].g /\ c.todo = cmd[p].todo /\ c.pc = cmd[p].pc
  BY <1>1, InformedIs
<1>3. Moves(c, e, r)
  BY StepMoves
<1> HIDE DEF c, e, r
<1>4. CommandSound(c)
  BY <1>1, <1>2 DEF CommandSound
<1>5. c.pc \notin Resting
  BY <1>1, <1>2 DEF CommandSound, StepsOf, Resting
<1>6. c.todo # <<>>
  BY <1>4, <1>5 DEF CommandSound, Resting
<1>7. CASE IsLast(c)
  <2>1. ~\E x : Follows(c, x)
    BY <1>7 DEF Follows
  <2>2. c.kind = "provision" => Settles(c, e, r)
    BY <1>3, <2>1 DEF Moves
  <2>3. cmd[p].kind = "provision" => Settles(cmd[p], e, r)
    BY <1>2, <2>2 DEF Settles
  <2> QED BY <1>4, <1>6, <1>7, <2>3, LastAdvances DEF c, e, r
<1>8. CASE ~IsLast(c)
  <2>1. PICK x \in StepsOf(c.kind) : Follows(c, x) /\ ReadyFor(x, c, e, r)
    BY <1>3, <1>8 DEF Moves
  <2>2. Advanced(c) = [c EXCEPT !.pc = x]
    BY <1>8, <2>1 DEF Advanced, Follows
  <2>3. /\ CommandSound([c EXCEPT !.pc = x])
        /\ [c EXCEPT !.pc = x].g = c.g /\ [c EXCEPT !.pc = x].todo = c.todo
        /\ Ready([c EXCEPT !.pc = x], e, r)
    BY <1>4, <1>6, <2>1, GoesTo
  <2> QED BY <1>2, <1>8, <2>2, <2>3 DEF c, e, r
<1> QED BY <1>7, <1>8

-----------------------------------------------------------------------------
(* One step of one process                                                 *)

\* What p does shows only on nodes whose current session is p's.
Apart(p) ==
    /\ \A q \in Processes : q # p => cmd'[q] = cmd[q] /\ \A m \in Nodes : sess'[m] = q => sess[m] = q
    /\ \A m \in Nodes : sess[m] # p =>
           dev'[m] = dev[m] /\ \A h : <<m, h>> \in crowded' <=> <<m, h>> \in crowded

LEMMA NodeIs ==
    ASSUME NEW p \in Processes, ProvisionTyped, AtNode(p)
    PROVE  /\ cmd[p] # Nothing /\ CommandSound(cmd[p]) /\ cmd[p].pc \in StepsOf(cmd[p].kind)
           /\ cmd[p].todo # <<>> /\ Node(p) \in Nodes
<1>1. cmd[p] # Nothing /\ CommandSound(cmd[p]) /\ cmd[p].pc \notin Resting
  BY DEF AtNode, ProvisionTyped, Resting
<1>2. cmd[p].pc \in StepsOf(cmd[p].kind) /\ cmd[p].todo \in Seq(Nodes) /\ cmd[p].todo # <<>>
  BY <1>1 DEF CommandSound, Resting
<1> QED BY <1>1, <1>2 DEF Node

LEMMA LiveIsAtWork ==
    ASSUME NEW p \in Processes, ProvisionInv, AtNode(p), Live(p)
    PROVE  AtWork(p)
<1>1. CommandSound(cmd[p]) /\ cmd[p].pc \in StepsOf(cmd[p].kind) /\ Node(p) \in Nodes
  BY NodeIs DEF ProvisionInv
<1> QED BY <1>1 DEF ProvisionInv, ProvisionTyped, ProvisionedStays, SessionsReady, AtWork

\* The other processes do not notice.
LEMMA OthersReady ==
    ASSUME NEW p \in Processes, NEW q \in Processes, q # p,
           ProvisionTyped, SessionsReady, Apart(p), (AtNode(q) /\ Live(q))'
    PROVE  Ready(cmd[q], dev[Node(q)], Full(q))'
<1>1. cmd'[q] = cmd[q]
  BY DEF Apart
<1>2. AtNode(q) /\ Node(q)' = Node(q)
  BY <1>1 DEF AtNode, Node
<1>3. Node(q) \in Nodes
  BY <1>2, NodeIs
<1>4. Live(q)
  BY <1>2, <1>3 DEF Live, Apart
<1>5. sess[Node(q)] # p
  BY <1>4 DEF Live
<1>6. dev'[Node(q)] = dev[Node(q)] /\ (Full(q)' <=> Full(q))
  BY <1>1, <1>2, <1>3, <1>5 DEF Apart, Full
<1>7. Ready(cmd[q], dev[Node(q)], Full(q))
  BY <1>2, <1>4 DEF SessionsReady
<1> QED BY <1>1, <1>2, <1>6, <1>7 DEF Ready

\* A command may be in state b: between two nodes, or before a request that relies
\* on nothing.
AtEase(b) ==
    b # Nothing => CommandSound(b) /\ (b.pc \in Resting \/ \A d, noRoom : Ready(b, d, noRoom))

\* A step that changes no node.
LEMMA QuietKeeps ==
    ASSUME ProvisionInv, NEW p \in Processes, NEW b, AtEase(b),
           cmd' = [cmd EXCEPT ![p] = b],
           sess' = [n \in Nodes |-> sess'[n]],
           \A q \in Processes : q # p => \A m \in Nodes : sess'[m] = q => sess[m] = q,
           dev' = dev, crowded' = crowded, settled' \subseteq settled
    PROVE  ProvisionInv'
<1>1. ProvisionTyped /\ SessionsReady /\ ProvisionedStays
  BY DEF ProvisionInv
<1>2. cmd' = [q \in Processes |-> cmd'[q]] /\ cmd'[p] = b /\ \A q \in Processes : q # p => cmd'[q] = cmd[q]
  BY <1>1 DEF ProvisionTyped
<1>3. ProvisionTyped'
  BY <1>1, <1>2 DEF ProvisionTyped, AtEase
<1>4. Apart(p)
  BY <1>2 DEF Apart
<1>5. SessionsReady'
  <2> SUFFICES ASSUME NEW q \in Processes', (AtNode(q) /\ Live(q))'
               PROVE  Ready(cmd[q], dev[Node(q)], Full(q))'
    BY DEF SessionsReady
  <2>1. CASE q # p
    BY <1>1, <1>4, <2>1, OthersReady
  <2>2. CASE q = p
    <3>1. b # Nothing /\ b.pc \notin Resting
      BY <1>2, <2>2 DEF AtNode, Resting
    <3>2. \A d, noRoom : Ready(b, d, noRoom)
      BY <3>1 DEF AtEase
    <3> QED BY <1>2, <2>2, <3>2
  <2> QED BY <2>1, <2>2
<1>6. ProvisionedStays'
  BY <1>1 DEF ProvisionedStays
<1> QED BY <1>3, <1>5, <1>6 DEF ProvisionInv

\* The pair is as the property wants it, on a device d.
Stands(ng, d, full) ==
    Mapped(d, ng[2]) /\ Permits(d, ng[2]) /\ (ng[2] \in d.members \/ ng \in full)

\* A step in which the node serves the request of p.
LEMMA ServiceKeeps ==
    ASSUME ProvisionInv, NEW p \in Processes, NEW b, NEW e, AtNode(p), Live(p),
           dev' = [dev EXCEPT ![Node(p)] = e], IsDevice(e), Administered(e),
           cmd' = [cmd EXCEPT ![p] = b],
           sess' = [n \in Nodes |-> sess'[n]],
           \A q \in Processes : q # p => \A m \in Nodes : sess'[m] = q => sess[m] = q,
           \/ AtEase(b)
           \/ CommandSound(b) /\ b.todo = cmd[p].todo /\ Ready(b, e, <<Node(p), b.g>> \in crowded'),
           \A m \in Nodes : \A h : m # Node(p) => (<<m, h>> \in crowded' <=> <<m, h>> \in crowded),
           settled' \subseteq Nodes \X Groups,
           \A ng \in settled' : IF ng[1] = Node(p) THEN Stands(ng, e, crowded') ELSE ng \in settled
    PROVE  ProvisionInv'
<1> DEFINE n == Node(p)
<1>1. ProvisionTyped /\ SessionsReady /\ ProvisionedStays /\ n \in Nodes /\ sess[n] = p
  BY NodeIs DEF ProvisionInv, Live
<1>2. cmd' = [q \in Processes |-> cmd'[q]] /\ cmd'[p] = b /\ \A q \in Processes : q # p => cmd'[q] = cmd[q]
  BY <1>1 DEF ProvisionTyped
<1>3. /\ dev' = [m \in Nodes |-> dev'[m]] /\ dev'[n] = e
      /\ \A m \in Nodes : m # n => dev'[m] = dev[m]
  BY <1>1 DEF ProvisionTyped
<1>4. CommandSound(b) \/ b = Nothing
  BY DEF AtEase
<1>5. ProvisionTyped'
  BY <1>1, <1>2, <1>3, <1>4 DEF ProvisionTyped
<1>6. Apart(p)
  BY <1>1, <1>2, <1>3 DEF Apart
<1>7. SessionsReady'
  <2> SUFFICES ASSUME NEW q \in Processes', (AtNode(q) /\ Live(q))'
               PROVE  Ready(cmd[q], dev[Node(q)], Full(q))'
    BY DEF SessionsReady
  <2>1. CASE q # p
    BY <1>1, <1>6, <2>1, OthersReady
  <2>2. CASE q = p
    <3>1. b # Nothing /\ b.pc \notin Resting
      BY <1>2, <2>2 DEF AtNode, Resting
    <3>2. CASE \A d, noRoom : Ready(b, d, noRoom)
      BY <1>2, <2>2, <3>2
    <3>3. CASE b.todo = cmd[p].todo /\ Ready(b, e, <<n, b.g>> \in crowded')
      <4>1. Node(p)' = n
        BY <1>2, <3>3 DEF Node
      <4>2. Full(p)' <=> <<n, b.g>> \in crowded'
        BY <1>2, <4>1 DEF Full
      <4> QED BY <1>2, <1>3, <2>2, <3>3, <4>1, <4>2 DEF Ready
    <3> QED BY <3>1, <3>2, <3>3 DEF AtEase
  <2> QED BY <2>1, <2>2
<1>8. ProvisionedStays'
  <2>1. \A m \in Nodes : Administered(dev'[m])
    BY <1>1, <1>3 DEF ProvisionedStays
  <2>2. ASSUME NEW ng \in settled'
        PROVE  Stands(ng, dev'[ng[1]], crowded')
    <3>1. CASE ng[1] = n
      BY <1>3, <2>2, <3>1
    <3>2. CASE ng[1] # n
      <4>1. ng \in settled /\ ng[1] \in Nodes /\ ng = <<ng[1], ng[2]>>
        BY <1>1, <3>2 DEF ProvisionTyped
      <4>2. Stands(ng, dev[ng[1]], crowded)
        BY <1>1, <4>1 DEF ProvisionedStays, Stands
      <4>3. ng \in crowded' <=> ng \in crowded
        BY <3>2, <4>1
      <4>4. dev'[ng[1]] = dev[ng[1]]
        BY <1>3, <3>2, <4>1
      <4> QED BY <4>2, <4>3, <4>4 DEF Stands
    <3> QED BY <3>1, <3>2
  <2> QED BY <2>1, <2>2 DEF ProvisionedStays, Stands
<1> QED BY <1>5, <1>7, <1>8 DEF ProvisionInv

-----------------------------------------------------------------------------
(* The actions                                                             *)

LEMMA CloseIs ==
    ASSUME ProvisionTyped, NEW p \in Processes,
           Close(p) \/ sess' = sess \/ sess' = [sess EXCEPT ![Node(p)] = Nothing]
    PROVE  /\ sess' = [n \in Nodes |-> sess'[n]]
           /\ \A q \in Processes : q # p => \A m \in Nodes : sess'[m] = q => sess[m] = q
<1>1. sess = [n \in Nodes |-> sess[n]] /\ Nothing \notin Processes
  BY GroupProvisionAssumption DEF ProvisionTyped
<1> QED BY <1>1 DEF Close

LEMMA FailureKeeps ==
    ASSUME ProvisionInv, NEW p \in Processes, Fails(p),
           Close(p) \/ sess' = sess \/ sess' = [sess EXCEPT ![Node(p)] = Nothing],
           dev' = dev, crowded' = crowded, settled' \subseteq settled
    PROVE  ProvisionInv'
<1>1. AtEase(Nothing) /\ cmd' = [cmd EXCEPT ![p] = Nothing]
  BY DEF AtEase, Fails
<1>2. /\ sess' = [n \in Nodes |-> sess'[n]]
      /\ \A q \in Processes : q # p => \A m \in Nodes : sess'[m] = q => sess[m] = q
  BY CloseIs DEF ProvisionInv
<1> QED BY <1>1, <1>2, QuietKeeps

LEMMA GotoKeeps ==
    ASSUME ProvisionInv, NEW p \in Processes, NEW x, cmd[p] # Nothing,
           x \in Resting \cup StepsOf(cmd[p].kind), cmd[p].todo # <<>> \/ x = "done",
           x \in Resting \/ \A d, noRoom : ReadyFor(x, cmd[p], d, noRoom),
           Goto(p, x),
           sess' = [n \in Nodes |-> sess'[n]],
           \A q \in Processes : q # p => \A m \in Nodes : sess'[m] = q => sess[m] = q,
           dev' = dev, crowded' = crowded, settled' = settled
    PROVE  ProvisionInv'
<1> DEFINE b == [cmd[p] EXCEPT !.pc = x]
<1>1. CommandSound(cmd[p])
  BY DEF ProvisionInv, ProvisionTyped
<1>2. /\ CommandSound(b) /\ b.pc = x
      /\ \A d, noRoom : ReadyFor(x, cmd[p], d, noRoom) => Ready(b, d, noRoom)
  BY <1>1, GoesTo
<1>3. cmd' = [cmd EXCEPT ![p] = b]
  BY DEF Goto
<1> HIDE DEF b
<1>4. AtEase(b)
  BY <1>2 DEF AtEase
<1> QED BY <1>3, <1>4, QuietKeeps

LEMMA StoreActions ==
    ASSUME ProvisionInv, NEW p \in Processes,
           StoreProvision(p) \/ StoreRemove(p) \/ StoreLocked(p) \/ Return(p)
    PROVE  ProvisionInv'
<1>0. sess' = sess /\ dev' = dev /\ crowded' = crowded /\ settled' = settled
  BY DEF StoreProvision, StoreRemove, StoreLocked, Return
<1>1. CASE Fails(p)
  BY <1>0, <1>1, FailureKeeps
<1>2. ASSUME cmd[p] # Nothing, Goto(p, "establish"), cmd[p].todo # <<>>
      PROVE  ProvisionInv'
  <2>1. "establish" \in Resting
    BY DEF Resting
  <2>2. /\ sess' = [n \in Nodes |-> sess'[n]]
        /\ \A q \in Processes : q # p => \A m \in Nodes : sess'[m] = q => sess[m] = q
    BY <1>0, CloseIs DEF ProvisionInv
  <2> QED BY <1>0, <1>2, <2>1, <2>2, GotoKeeps
<1>3. ASSUME cmd[p] # Nothing, Goto(p, "done")
      PROVE  ProvisionInv'
  <2>1. "done" \in Resting
    BY DEF Resting
  <2>2. /\ sess' = [n \in Nodes |-> sess'[n]]
        /\ \A q \in Processes : q # p => \A m \in Nodes : sess'[m] = q => sess[m] = q
    BY <1>0, CloseIs DEF ProvisionInv
  <2> QED BY <1>0, <1>3, <2>1, <2>2, GotoKeeps
<1>4. CASE StoreProvision(p)
  <2>1. cmd[p] # Nothing /\ cmd[p].pc = "store" /\ cmd[p].kind = "provision"
    BY <1>4 DEF StoreProvision
  <2>2. cmd[p].todo # <<>>
    BY <2>1 DEF ProvisionInv, ProvisionTyped, CommandSound
  <2>3. Goto(p, "establish") \/ Fails(p)
    BY <1>4 DEF StoreProvision
  <2> QED BY <1>1, <1>2, <2>1, <2>2, <2>3
<1>5. CASE StoreRemove(p)
  <2>1. cmd[p] # Nothing /\ (Goto(p, "done") \/ Fails(p))
    BY <1>5 DEF StoreRemove
  <2> QED BY <1>1, <1>3, <2>1
<1> QED BY <1>1, <1>4, <1>5 DEF StoreLocked, Return

LEMMA EstablishStep ==
    ASSUME ProvisionInv, NEW p \in Processes, Establish(p)
    PROVE  ProvisionInv'
<1> DEFINE x == Steps[cmd[p].kind][1]
<1>1. cmd[p] # Nothing /\ cmd[p].pc = "establish" /\ Goto(p, x)
  BY DEF Establish
<1>2. CommandSound(cmd[p])
  BY <1>1 DEF ProvisionInv, ProvisionTyped
<1>3. cmd[p].todo # <<>> /\ cmd[p].kind \in {"provision", "grant", "remove"}
  BY <1>1, <1>2 DEF CommandSound
<1>4. x = IF cmd[p].kind = "provision" THEN "keyset" ELSE "aclread"
  BY <1>3 DEF Steps
<1>5. Node(p) \in Nodes
  BY <1>2, <1>3 DEF Node, CommandSound
<1>6. /\ sess' = [n \in Nodes |-> sess'[n]]
      /\ \A q \in Processes : q # p => \A m \in Nodes : sess'[m] = q => sess[m] = q
  <2>1. sess = [n \in Nodes |-> sess[n]]
    BY DEF ProvisionInv, ProvisionTyped
  <2>2. sess' = [sess EXCEPT ![Node(p)] = p] \/ sess' = sess
    BY DEF Establish
  <2> QED BY <1>5, <2>1, <2>2
<1> HIDE DEF x
<1>7. x \in StepsOf(cmd[p].kind)
  BY <1>3, <1>4 DEF StepsOf
<1>8. \A d, noRoom : ReadyFor(x, cmd[p], d, noRoom)
  BY <1>4 DEF ReadyFor
<1>9. dev' = dev /\ crowded' = crowded /\ settled' = settled
  BY DEF Establish
<1> QED BY <1>1, <1>3, <1>6, <1>7, <1>8, <1>9, GotoKeeps

LEMMA RefusalSteps ==
    ASSUME ProvisionInv, NEW p \in Processes,
           StepRefused(p) \/ Unreadable(p) \/ EstablishFails(p)
    PROVE  ProvisionInv'
<1>1. /\ Fails(p) /\ (Close(p) \/ sess' = sess \/ sess' = [sess EXCEPT ![Node(p)] = Nothing])
      /\ dev' = dev /\ crowded' = crowded /\ settled' = settled
  BY DEF StepRefused, Unreadable, EstablishFails
<1> QED BY <1>1, FailureKeeps

\* What is settled after a request that spared the others.
LEMMA SettledStands ==
    ASSUME ProvisionInv, NEW p \in Processes, AtNode(p), NEW e, NEW final,
           Spares(cmd[p], dev[Node(p)], e), Note(p, final),
           final /\ cmd[p].kind = "provision" => Settles(cmd[p], e, <<Node(p), cmd[p].g>> \in crowded'),
           \A h : <<Node(p), h>> \in crowded => <<Node(p), h>> \in crowded' \/ h \in e.members
    PROVE  /\ settled' \subseteq Nodes \X Groups
           /\ \A ng \in settled' : IF ng[1] = Node(p) THEN Stands(ng, e, crowded') ELSE ng \in settled
<1> DEFINE n == Node(p)
           c == cmd[p]
           new == <<n, c.g>>
<1>1. n \in Nodes /\ c.g \in Groups
  BY NodeIs DEF ProvisionInv, CommandSound
<1>2. settled \subseteq Nodes \X Groups
  BY DEF ProvisionInv, ProvisionTyped
<1>3. \/ settled' = settled \cup {new} /\ final /\ c.kind = "provision"
      \/ settled' = settled \ {new} /\ c.kind = "remove"
      \/ settled' = settled /\ c.kind # "remove"
  BY DEF Note
<1>4. new[1] = n /\ new[2] = c.g /\ new \in Nodes \X Groups
  BY <1>1
<1>5. ASSUME NEW ng \in settled, ng[1] = n, c.kind = "remove" => ng # new
      PROVE  Stands(ng, e, crowded')
  <2>1. ng = <<n, ng[2]>>
    BY <1>2, <1>5
  <2>2. c.kind = "remove" => ng[2] # c.g
    BY <1>5, <2>1
  <2>3. Stands(ng, dev[n], crowded)
    BY <1>5 DEF ProvisionInv, ProvisionedStays, Stands
  <2>4. Keeps(dev[n], e, ng[2])
    BY <2>2 DEF Spares
  <2>5. ng \in crowded => ng \in crowded' \/ ng[2] \in e.members
    BY <2>1
  <2> QED BY <2>3, <2>4, <2>5 DEF Stands, Keeps
<1>6. final /\ c.kind = "provision" => Stands(new, e, crowded')
  BY <1>4 DEF Stands, Settles
<1> HIDE DEF n, new, c
<1>7. settled' \subseteq Nodes \X Groups
  BY <1>2, <1>3, <1>4
<1>8. \A ng \in settled' : IF ng[1] = n THEN Stands(ng, e, crowded') ELSE ng \in settled
  BY <1>3, <1>4, <1>5, <1>6
<1> QED BY <1>7, <1>8 DEF n

LEMMA RoomNoted ==
    ASSUME NEW p, NoteRoom(p)
    PROVE  /\ <<Node(p), cmd[p].g>> \in crowded' <=> RoomNow(p)
           /\ \A m, h : <<m, h>> # <<Node(p), cmd[p].g>> => (<<m, h>> \in crowded' <=> <<m, h>> \in crowded)
<1> DEFINE ng == <<Node(p), cmd[p].g>>
<1>1. crowded' = IF cmd[p].pc # "addgroup" THEN crowded
                 ELSE IF HasRoom(dev[Node(p)], cmd[p].g) THEN crowded \ {ng} ELSE crowded \cup {ng}
  BY DEF NoteRoom
<1>2. RoomNow(p) <=> IF cmd[p].pc = "addgroup" THEN ~HasRoom(dev[Node(p)], cmd[p].g) ELSE ng \in crowded
  BY DEF RoomNow, Full
<1> HIDE DEF ng
<1>3. ng \in crowded' <=> RoomNow(p)
  BY <1>1, <1>2
<1>4. \A m, h : <<m, h>> # ng => (<<m, h>> \in crowded' <=> <<m, h>> \in crowded)
  BY <1>1
<1> QED BY <1>3, <1>4 DEF ng

LEMMA AnsweredStep ==
    ASSUME ProvisionInv, NEW p \in Processes, Step(p)
    PROVE  ProvisionInv'
<1> DEFINE n == Node(p)
           e == Served(p).dev
           c == Informed(p)
           b == Advanced(c)
           new == <<n, cmd[p].g>>
<1>1. AtNode(p) /\ Live(p) /\ Served(p).ok /\ NoteRoom(p) /\ dev' = [dev EXCEPT ![n] = e]
  BY DEF Step
<1>2. /\ cmd' = [cmd EXCEPT ![p] = b] /\ Note(p, IsLast(c))
      /\ Close(p) \/ sess' = sess
  BY DEF Step, Informed
<1>3. AtWork(p)
  BY <1>1, LiveIsAtWork
<1>4. Spares(cmd[p], dev[n], e)
  BY <1>3, ServedSpares
<1>5. /\ new \in crowded' <=> RoomNow(p)
      /\ \A m, h : <<m, h>> # new => (<<m, h>> \in crowded' <=> <<m, h>> \in crowded)
  BY <1>1, RoomNoted
<1>6. /\ CommandSound(b)
      /\ ~IsLast(c) => b.todo = cmd[p].todo /\ b.g = cmd[p].g /\ Ready(b, e, RoomNow(p))
      /\ IsLast(c) => /\ b.pc \in Resting
                      /\ cmd[p].kind = "provision" => Settles(cmd[p], e, RoomNow(p))
  BY <1>1, <1>3, StepAdvances
<1>7. new \in crowded => new \in crowded' \/ cmd[p].g \in e.members
  <2>1. CASE cmd[p].pc = "addgroup"
    <3>1. IsDevice(dev[n]) /\ Administered(dev[n]) /\ cmd[p].pc \in StepsOf(cmd[p].kind)
          /\ cmd[p].kind \in {"provision", "grant", "remove"}
      BY <1>3 DEF AtWork, CommandSound
    <3>2. e = AddGroup(dev[n], cmd[p].g).dev
      BY <2>1, <3>1, ServedIs
    <3>3. cmd[p].g \in e.members \/ ~HasRoom(dev[n], cmd[p].g)
      BY <3>1, <3>2, AddGroupSpares
    <3> QED BY <1>5, <2>1, <3>3 DEF RoomNow
  <2>2. CASE cmd[p].pc # "addgroup"
    BY <1>5, <2>2 DEF RoomNow, Full
  <2> QED BY <2>1, <2>2
<1>8. \A h : <<n, h>> \in crowded => <<n, h>> \in crowded' \/ h \in e.members
  <2> SUFFICES ASSUME NEW h, <<n, h>> \in crowded PROVE <<n, h>> \in crowded' \/ h \in e.members
    OBVIOUS
  <2>1. CASE h = cmd[p].g
    BY <1>7, <2>1
  <2>2. CASE h # cmd[p].g
    <3>1. <<n, h>> # new
      BY <2>2
    <3> HIDE DEF new, n
    <3> QED BY <1>5, <3>1
  <2> QED BY <2>1, <2>2
<1>9. IsLast(c) /\ cmd[p].kind = "provision" => Settles(cmd[p], e, new \in crowded')
  BY <1>5, <1>6 DEF Settles
<1>10. /\ settled' \subseteq Nodes \X Groups
       /\ \A ng \in settled' : IF ng[1] = n THEN Stands(ng, e, crowded') ELSE ng \in settled
  <2> HIDE DEF e, c, b
  <2> QED BY <1>1, <1>2, <1>4, <1>8, <1>9, SettledStands
<1>11. /\ sess' = [m \in Nodes |-> sess'[m]]
       /\ \A q \in Processes : q # p => \A m \in Nodes : sess'[m] = q => sess[m] = q
  BY <1>2, CloseIs DEF ProvisionInv
<1>12. \A m \in Nodes : \A h : m # n => (<<m, h>> \in crowded' <=> <<m, h>> \in crowded)
  <2>1. \A m, h : m # n => <<m, h>> # new
    OBVIOUS
  <2> HIDE DEF new, n
  <2> QED BY <1>5, <2>1
<1>13. \/ AtEase(b)
       \/ CommandSound(b) /\ b.todo = cmd[p].todo /\ Ready(b, e, <<n, b.g>> \in crowded')
  <2>1. CASE IsLast(c)
    BY <1>6, <2>1 DEF AtEase
  <2>2. CASE ~IsLast(c)
    <3>1. b.g = cmd[p].g /\ Ready(b, e, RoomNow(p)) /\ b.todo = cmd[p].todo /\ CommandSound(b)
      BY <1>6, <2>2
    <3> HIDE DEF b, e, n, c
    <3>2. <<n, b.g>> \in crowded' <=> RoomNow(p)
      BY <1>5, <3>1
    <3>3. Ready(b, e, <<n, b.g>> \in crowded')
      BY <3>1, <3>2 DEF Ready
    <3> QED BY <3>1, <3>3
  <2> QED BY <2>1, <2>2
<1>14. IsDevice(e) /\ Administered(e)
  BY <1>4 DEF Spares
<1> HIDE DEF e, c, b
<1> QED BY <1>1, <1>2, <1>10, <1>11, <1>12, <1>13, <1>14, ServiceKeeps

\* matd starts over with the node.
LEMMA AgainSound ==
    ASSUME NEW c, CommandSound(c), c.todo # <<>>
    PROVE  AtEase([c EXCEPT !.pc = "establish", !.again = TRUE, !.copy = {}])
<1> DEFINE none == {}
           b == [c EXCEPT !.pc = "establish", !.again = TRUE, !.copy = none]
<1> HIDE DEF none
<1>1. IsCommand(c)
  BY DEF CommandSound
<1>2. IsCommand(b)
  <2> DEFINE T == [kind : {c.kind}, g : {c.g}, k : {c.k}, rebind : {c.rebind}, key : {c.key},
                   list : {c.list}, todo : {c.todo}, copy : {c.copy, none},
                   again : {c.again, TRUE}, pc : {c.pc, "establish"}, alone : {c.alone},
                   book : {c.book}, had : {c.had}]
  <2>1. c \in T
    BY <1>1 DEF IsCommand
  <2>2. b \in T
    BY <2>1
  <2>3. \A y \in T : IsCommand(y)
    BY DEF IsCommand
  <2> QED BY <2>2, <2>3
<1>3. b.kind = c.kind /\ b.g = c.g /\ b.todo = c.todo /\ b.pc = "establish"
  BY <1>1 DEF IsCommand
<1> HIDE DEF b
<1>4. CommandSound(b)
  BY <1>2, <1>3 DEF CommandSound, Resting
<1>5. AtEase(b)
  BY <1>3, <1>4 DEF AtEase, Resting
<1> QED BY <1>5 DEF b, none

LEMMA TimeoutStep ==
    ASSUME ProvisionInv, NEW p \in Processes, StepTimesOut(p)
    PROVE  ProvisionInv'
<1>1. AtNode(p) /\ Note(p, FALSE) /\ crowded' = crowded
  BY DEF StepTimesOut
<1>2. CommandSound(cmd[p]) /\ cmd[p].todo # <<>> /\ Node(p) \in Nodes
  BY <1>1, NodeIs DEF ProvisionInv
<1>3. PICK b : /\ AtEase(b) /\ cmd' = [cmd EXCEPT ![p] = b]
               /\ Close(p) \/ sess' = sess
  <2>1. CASE Fails(p) /\ Close(p)
    BY <2>1 DEF Fails, AtEase
  <2>2. CASE /\ cmd' = [cmd EXCEPT ![p].pc = "establish", ![p].again = TRUE, ![p].copy = {}]
             /\ sess' = sess
    <3> DEFINE a == [cmd[p] EXCEPT !.pc = "establish", !.again = TRUE, !.copy = {}]
    <3>1. cmd' = [cmd EXCEPT ![p] = a]
      BY <2>2
    <3>2. AtEase(a)
      BY <1>2, AgainSound, Zenon
    <3> HIDE DEF a
    <3> QED BY <2>2, <3>1, <3>2
  <2> QED BY <2>1, <2>2 DEF StepTimesOut
<1>4. /\ sess' = [m \in Nodes |-> sess'[m]]
      /\ \A q \in Processes : q # p => \A m \in Nodes : sess'[m] = q => sess[m] = q
  BY <1>3, CloseIs DEF ProvisionInv
<1>5. CASE ~Live(p)
  <2>1. dev' = dev
    BY <1>5 DEF StepTimesOut
  <2>2. settled' \subseteq settled
    BY <1>1 DEF Note
  <2> QED BY <1>1, <1>3, <1>4, <2>1, <2>2, QuietKeeps
<1>6. CASE Live(p)
  <2> DEFINE n == Node(p)
  <2>1. AtWork(p)
    BY <1>1, <1>6, LiveIsAtWork
  <2>2. PICK e : dev' = [dev EXCEPT ![n] = e] /\ Spares(cmd[p], dev[n], e)
    <3>1. CASE dev' = dev
      <4>1. dev' = [dev EXCEPT ![n] = dev[n]]
        BY <3>1 DEF ProvisionInv, ProvisionTyped
      <4>2. Spares(cmd[p], dev[n], dev[n])
        BY <2>1, NothingSpares DEF AtWork
      <4> QED BY <4>1, <4>2
    <3>2. CASE dev' = [dev EXCEPT ![n] = Served(p).dev]
      BY <2>1, <3>2, ServedSpares
    <3> QED BY <1>6, <3>1, <3>2 DEF StepTimesOut
  <2>3. IsDevice(e) /\ Administered(e)
    BY <2>2 DEF Spares
  <2>4. /\ settled' \subseteq Nodes \X Groups
        /\ \A ng \in settled' : IF ng[1] = n THEN Stands(ng, e, crowded') ELSE ng \in settled
    BY <1>1, <2>2, SettledStands
  <2> QED BY <1>1, <1>3, <1>4, <1>6, <2>2, <2>3, <2>4, ServiceKeeps
<1> QED BY <1>5, <1>6

LEMMA NotAlone ==
    ASSUME NEW c, CommandSound(c)
    PROVE  LET b == [c EXCEPT !.alone = FALSE]
           IN  /\ CommandSound(b) /\ b.pc = c.pc /\ b.todo = c.todo /\ b.g = c.g
               /\ \A d, noRoom : Ready(c, d, noRoom) => Ready(b, d, noRoom)
<1> DEFINE b == [c EXCEPT !.alone = FALSE]
<1>1. IsCommand(c)
  BY DEF CommandSound
<1>2. IsCommand(b)
  <2> DEFINE T == [kind : {c.kind}, g : {c.g}, k : {c.k}, rebind : {c.rebind}, key : {c.key},
                   list : {c.list}, todo : {c.todo}, copy : {c.copy}, again : {c.again},
                   pc : {c.pc}, alone : {c.alone, FALSE}, book : {c.book}, had : {c.had}]
  <2>1. c \in T
    BY <1>1 DEF IsCommand
  <2>2. b \in T
    BY <2>1
  <2>3. \A y \in T : IsCommand(y)
    BY DEF IsCommand
  <2> QED BY <2>2, <2>3
<1>3. b.pc = c.pc /\ b.kind = c.kind /\ b.g = c.g /\ b.todo = c.todo /\ b.copy = c.copy
  BY <1>1 DEF IsCommand
<1> HIDE DEF b
<1>4. CommandSound(b)
  BY <1>2, <1>3 DEF CommandSound
<1>5. Unused(b) = Unused(c)
  BY <1>3 DEF Unused
<1>6. \A d, noRoom : Ready(c, d, noRoom) => Ready(b, d, noRoom)
  BY <1>3, <1>5 DEF Ready
<1> QED BY <1>3, <1>4, <1>6 DEF b

LEMMA StartStep ==
    ASSUME ProvisionInv, NEW p \in Processes, NEW kind \in {"provision", "grant", "remove"},
           NEW g \in Groups, NEW k, NEW rebind, NEW list \in Lists, Start(p, kind, g, k, rebind, list)
    PROVE  ProvisionInv'
<1> DEFINE x == IF kind = "provision" THEN "store" ELSE "establish"
           lone == \A r \in Processes \ {p} : cmd[r] = Nothing
           book == ByTheBook(g, k, list)
           had == [n \in Nodes |-> Received(n)]
           none == {}
           key == started + 1
           b == [kind |-> kind, g |-> g, k |-> k, rebind |-> rebind, key |-> key,
                 list |-> list, todo |-> list, copy |-> none, again |-> FALSE, pc |-> x,
                 alone |-> lone, book |-> book, had |-> had]
<1>1. cmd' = [q \in Processes |->
                  IF q = p THEN b ELSE IF cmd[q] = Nothing THEN Nothing ELSE [cmd[q] EXCEPT !.alone = FALSE]]
  BY DEF Start
<1>2. dev' = dev /\ sess' = sess /\ settled' = settled /\ crowded' = crowded
  BY DEF Start
<1>3. list \in Seq(Nodes) /\ list # <<>>
  BY GroupProvisionAssumption
<1>4. x \in {"store", "establish"} /\ (x = "store" => kind # "remove")
  OBVIOUS
<1> HIDE DEF x, lone, book, had, none, key
<1>5. CommandSound(b) /\ b.pc = x
  <2>1. IsCommand(b)
    BY DEF IsCommand
  <2>2. b.kind = kind /\ b.g = g /\ b.todo = list /\ b.pc = x
    OBVIOUS
  <2> HIDE DEF b
  <2> QED BY <1>3, <1>4, <2>1, <2>2 DEF CommandSound, Resting
<1> HIDE DEF b
<1>6. cmd' = [q \in Processes |-> cmd'[q]] /\ cmd'[p] = b
  BY <1>1
<1>7. ASSUME NEW q \in Processes, q # p, cmd'[q] # Nothing
      PROVE  /\ cmd[q] # Nothing /\ CommandSound(cmd'[q])
             /\ cmd'[q].pc = cmd[q].pc /\ cmd'[q].todo = cmd[q].todo /\ cmd'[q].g = cmd[q].g
             /\ \A d, noRoom : Ready(cmd[q], d, noRoom) => Ready(cmd'[q], d, noRoom)
  <2>1. cmd[q] # Nothing /\ cmd'[q] = [cmd[q] EXCEPT !.alone = FALSE]
    BY <1>1, <1>7
  <2>2. CommandSound(cmd[q])
    BY <2>1 DEF ProvisionInv, ProvisionTyped
  <2> QED BY <2>1, <2>2, NotAlone
<1>8. ProvisionTyped'
  BY <1>2, <1>5, <1>6, <1>7 DEF ProvisionInv, ProvisionTyped
<1>9. SessionsReady'
  <2> SUFFICES ASSUME NEW q \in Processes', (AtNode(q) /\ Live(q))'
               PROVE  Ready(cmd[q], dev[Node(q)], Full(q))'
    BY DEF SessionsReady
  <2>1. q # p
    BY <1>4, <1>5, <1>6 DEF AtNode
  <2>2. cmd'[q] # Nothing
    BY DEF AtNode
  <2>3. AtNode(q) /\ Node(q)' = Node(q) /\ Live(q)
    BY <1>2, <1>7, <2>1, <2>2 DEF AtNode, Node, Live
  <2>4. Ready(cmd[q], dev[Node(q)], Full(q))
    BY <2>3 DEF ProvisionInv, SessionsReady
  <2>5. Full(q)' = Full(q)
    BY <1>2, <1>7, <2>1, <2>2, <2>3 DEF Full
  <2>6. Ready(cmd'[q], dev[Node(q)], Full(q))
    BY <1>7, <2>1, <2>2, <2>4
  <2> QED BY <1>2, <2>3, <2>5, <2>6
<1>10. ProvisionedStays'
  BY <1>2 DEF ProvisionInv, ProvisionedStays
<1> QED BY <1>8, <1>9, <1>10 DEF ProvisionInv

LEMMA InitReady == ProvisionInit => ProvisionInv
<1> SUFFICES ASSUME ProvisionInit PROVE ProvisionInv
  OBVIOUS
<1>1. dev \in [Nodes -> Device] /\ \A n \in Nodes : Administered(dev[n])
  BY WorldsAssumption DEF ProvisionInit
<1>2. \A d \in Device : IsDevice(d)
  BY DEF Device, IsDevice
<1>3. /\ sess = [n \in Nodes |-> Nothing] /\ cmd = [p \in Processes |-> Nothing]
      /\ settled = {ng \in Nodes \X Groups : Provisioned(dev[ng[1]], ng[2])}
  BY DEF ProvisionInit
<1>4. ProvisionTyped
  BY <1>1, <1>2, <1>3 DEF ProvisionTyped
<1>5. SessionsReady
  BY <1>3 DEF SessionsReady, AtNode
<1>6. ProvisionedStays
  BY <1>1, <1>3 DEF ProvisionedStays, Provisioned
<1> QED BY <1>4, <1>5, <1>6 DEF ProvisionInv

LEMMA ProvisionNextKeeps == ProvisionInv /\ [ProvisionNext]_provisionVars => ProvisionInv'
<1> SUFFICES ASSUME ProvisionInv, [ProvisionNext]_provisionVars PROVE ProvisionInv'
  OBVIOUS
<1>1. CASE UNCHANGED provisionVars
  <2>1. dev' = dev /\ sess' = sess /\ cmd' = cmd /\ settled' = settled /\ crowded' = crowded
    BY <1>1 DEF provisionVars
  <2>2. ProvisionTyped'
    BY <2>1 DEF ProvisionInv, ProvisionTyped
  <2>3. SessionsReady'
    BY <2>1 DEF ProvisionInv, SessionsReady, AtNode, Live, Node, Full
  <2>4. ProvisionedStays'
    BY <2>1 DEF ProvisionInv, ProvisionedStays
  <2> QED BY <2>2, <2>3, <2>4 DEF ProvisionInv
<1>2. CASE ProvisionNext
  <2>1. PICK p \in Processes :
            \/ \E g \in Groups, k \in Keysets, rebind \in BOOLEAN, list \in Lists :
                   Start(p, "provision", g, k, rebind, list)
            \/ \E kind \in {"grant", "remove"}, g \in Groups, list \in Lists :
                   Start(p, kind, g, Nothing, FALSE, list)
            \/ StoreProvision(p) \/ StoreRemove(p) \/ StoreLocked(p) \/ Return(p)
            \/ Establish(p) \/ EstablishFails(p)
            \/ Step(p) \/ StepRefused(p) \/ StepTimesOut(p) \/ Unreadable(p)
    BY <1>2 DEF ProvisionNext
  <2>2. CASE \E g \in Groups, k \in Keysets, rebind \in BOOLEAN, list \in Lists :
                 Start(p, "provision", g, k, rebind, list)
    BY <2>2, StartStep
  <2>3. CASE \E kind \in {"grant", "remove"}, g \in Groups, list \in Lists :
                 Start(p, kind, g, Nothing, FALSE, list)
    BY <2>3, StartStep
  <2>4. CASE StoreProvision(p) \/ StoreRemove(p) \/ StoreLocked(p) \/ Return(p)
    BY <2>4, StoreActions
  <2>5. CASE Establish(p)
    BY <2>5, EstablishStep
  <2>6. CASE Step(p)
    BY <2>6, AnsweredStep
  <2>7. CASE StepRefused(p) \/ Unreadable(p) \/ EstablishFails(p)
    BY <2>7, RefusalSteps
  <2>8. CASE StepTimesOut(p)
    BY <2>8, TimeoutStep
  <2> QED BY <2>1, <2>2, <2>3, <2>4, <2>5, <2>6, <2>7, <2>8
<1> QED BY <1>1, <1>2

\* What one provision finished on a node no other command undoes unless it removes
\* that group, and no node loses its administrator: for any number of nodes,
\* groups, key sets and processes, whatever requests and answers are lost, and
\* wherever a command takes over the session of another (provision_node,
\* remove_group_node, ensure_group_acl).
THEOREM ProvisionedStaysProved == ProvisionSpec => []ProvisionedStays
<1>1. ProvisionInv => ProvisionedStays
  BY DEF ProvisionInv
<1> QED BY <1>1, InitReady, ProvisionNextKeeps, PTL DEF ProvisionSpec
=============================================================================
