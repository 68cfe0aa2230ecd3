--------------------------- MODULE ExchangeProofs ---------------------------
(***************************************************************************)
(* Proofs about the messages of an unsecured exchange: the replay window   *)
(* itself (RxWindow), and a handshake that runs over it (Exchange).        *)
(*                                                                         *)
(* The handshake needs three inductive invariants.  Base: the initiator    *)
(* has copies of one current request in flight, and a last response only   *)
(* exists once that request was verified.  AcceptInv: what the responder's *)
(* window has seen it has accepted, or it was an ack; so an ack of it is   *)
(* an ack of something accepted.  FirstInv: during the first attempt the   *)
(* last response has a counter of its own, which the initiator only knows  *)
(* if it took the response.  The last two hold while nothing is older than *)
(* the window: a datagram that is too old is acknowledged like a           *)
(* duplicate.                                                              *)
(***************************************************************************)
EXTENDS Exchange, RxWindow, TLAPS

-----------------------------------------------------------------------------
(* The replay window *)

\* Shifting keeps the bitmap inside its width and moves every bit by delta; the
\* bit of the old max is set unless delta reaches the width.
LEMMA ShiftFacts ==
    ASSUME NEW bits \in SUBSET (0 .. Width - 1), NEW delta \in Nat \ {0}
    PROVE  /\ Shift(bits, delta) \in SUBSET (0 .. Width - 1)
           /\ \A b \in Shift(bits, delta) :
                 b = delta - 1 \/ (b >= delta /\ b - delta \in bits)
           /\ delta < Width => delta - 1 \in Shift(bits, delta)
           /\ \A b \in bits : b + delta < Width => b + delta \in Shift(bits, delta)
  <1>1. Width \in Nat \ {0}
    BY WidthAssumption
  <1>2. CASE delta >= Width
    <2>1. Shift(bits, delta) = {}
      BY <1>2 DEF Shift
    <2> QED
      BY <1>1, <1>2, <2>1
  <1>3. CASE ~(delta >= Width)
    <2>1. Shift(bits, delta) = {b \in delta .. Width - 1 : b - delta \in bits} \cup {delta - 1}
      BY <1>3 DEF Shift
    <2>2. delta - 1 \in 0 .. Width - 1
      BY <1>1, <1>3
    <2>3. ASSUME NEW b \in bits, b + delta < Width
          PROVE  b + delta \in Shift(bits, delta)
      <3>1. b + delta \in delta .. Width - 1 /\ (b + delta) - delta = b
        BY <1>1, <2>3
      <3> QED
        BY <2>1, <3>1
    <2> QED
      BY <1>1, <2>1, <2>2, <2>3
  <1> QED
    BY <1>2, <1>3

\* check_and_commit of a fresh counter leaves a window.
LEMMA CommitTyped ==
    ASSUME NEW w \in RxWindow, NEW c \in Nat, Fresh(w, c)
    PROVE  Commit(w, c) \in RxWindow
  <1>1. Width \in Nat \ {0} /\ w.max \in Nat /\ w.bitmap \in SUBSET (0 .. Width - 1)
    BY WidthAssumption DEF RxWindow
  <1>2. CASE w.empty
    <2>1. Commit(w, c) = [max |-> c, bitmap |-> {}, empty |-> FALSE]
      BY <1>2 DEF Commit
    <2> QED
      BY <2>1 DEF RxWindow
  <1>3. CASE ~w.empty /\ c > w.max
    <2>1. c - w.max \in Nat \ {0}
      BY <1>1, <1>3
    <2>2. Shift(w.bitmap, c - w.max) \in SUBSET (0 .. Width - 1)
      BY <1>1, <2>1, ShiftFacts
    <2>3. Commit(w, c) = [max |-> c, bitmap |-> Shift(w.bitmap, c - w.max), empty |-> FALSE]
      BY <1>3 DEF Commit
    <2> QED
      BY <2>2, <2>3 DEF RxWindow
  <1>4. CASE ~w.empty /\ ~(c > w.max)
    <2>1. w.max - c - 1 \in 0 .. Width - 1
      BY <1>1, <1>4 DEF Fresh
    <2>2. Commit(w, c) = [max |-> w.max, bitmap |-> w.bitmap \cup {w.max - c - 1},
                          empty |-> FALSE]
      BY <1>4 DEF Commit
    <2> QED
      BY <1>1, <2>1, <2>2 DEF RxWindow
  <1> QED
    BY <1>2, <1>3, <1>4

\* The type invariant: a shift or a late commit never sets a bit outside the
\* bitmap.
LEMMA TypeStep ==
    ASSUME WindowTypeOK, [WindowNext]_windowVars
    PROVE  WindowTypeOK'
  <1>1. Width \in Nat \ {0} /\ Counters \subseteq Nat
    BY WidthAssumption, CountersAssumption
  <1>2. CASE UNCHANGED windowVars
    BY <1>2 DEF WindowTypeOK, windowVars
  <1>3. ASSUME NEW c \in Counters, CheckAndCommit(c)
        PROVE  WindowTypeOK'
    <2>1. c \in Nat /\ win \in RxWindow /\ times \in [Counters -> Nat]
      BY <1>1 DEF WindowTypeOK
    <2>2. times' \in [Counters -> Nat]
      BY <1>3, <2>1 DEF CheckAndCommit
    <2>3. win' = Commit(win, c) /\ Fresh(win, c)
      BY <1>3 DEF CheckAndCommit
    <2>4. win' \in RxWindow
      BY <2>1, <2>3, CommitTyped
    <2> QED
      BY <2>2, <2>4 DEF WindowTypeOK
  <1> QED
    BY <1>2, <1>3 DEF WindowNext

\* The bitmap stays exact: one case per branch of check_and_commit.
LEMMA ExactStep ==
    ASSUME WindowTypeOK, WindowExact, [WindowNext]_windowVars
    PROVE  WindowExact'
  <1>1. Width \in Nat \ {0} /\ Counters \subseteq Nat
    BY WidthAssumption, CountersAssumption
  <1>2. CASE UNCHANGED windowVars
    BY <1>2 DEF WindowExact, Seen, windowVars
  <1>3. ASSUME NEW c \in Counters, CheckAndCommit(c)
        PROVE  WindowExact'
    <2>1. c \in Nat /\ win \in RxWindow /\ times \in [Counters -> Nat]
      BY <1>1 DEF WindowTypeOK
    <2>2. Seen' = Seen \cup {c}
      BY <1>3, <2>1 DEF CheckAndCommit, Seen
    <2>3. win' = Commit(win, c) /\ Fresh(win, c)
      BY <1>3 DEF CheckAndCommit
    <2>4. Seen \subseteq Nat
      BY <1>1 DEF Seen
    <2>5. CASE win.empty
      <3>1. win' = [max |-> c, bitmap |-> {}, empty |-> FALSE]
        BY <2>3, <2>5 DEF Commit
      <3>2. Seen' = {c}
        BY <2>2, <2>5 DEF WindowExact
      <3> QED
        BY <2>1, <3>1, <3>2 DEF WindowExact
    <2>6. CASE ~win.empty /\ c > win.max
      <3> DEFINE delta == c - win.max
      <3>1. /\ win'.max = c
            /\ win'.bitmap = Shift(win.bitmap, delta)
            /\ win'.empty = FALSE
        BY <2>3, <2>6 DEF Commit
      <3>2. win.bitmap \in SUBSET (0 .. Width - 1) /\ delta \in Nat \ {0} /\ win.max \in Nat
        BY <2>1, <2>6 DEF RxWindow
      <3> HIDE DEF delta
      <3>3. /\ \A b \in Shift(win.bitmap, delta) :
                  b = delta - 1 \/ (b >= delta /\ b - delta \in win.bitmap)
            /\ delta < Width => delta - 1 \in Shift(win.bitmap, delta)
            /\ \A b \in win.bitmap : b + delta < Width => b + delta \in Shift(win.bitmap, delta)
            /\ Shift(win.bitmap, delta) \in SUBSET (0 .. Width - 1)
        BY <3>2, ShiftFacts
      <3>4. c = win.max + delta
        BY <2>1, <3>2 DEF delta
      <3>5. ASSUME NEW b \in Shift(win.bitmap, delta)
            PROVE  c - 1 - b \in Seen'
        <4>1. b \in Nat
          BY <1>1, <3>3
        <4>2. CASE b = delta - 1
          BY <2>2, <2>6, <3>2, <3>4, <4>2 DEF WindowExact
        <4>3. CASE b >= delta /\ b - delta \in win.bitmap
          <5>1. win.max - 1 - (b - delta) \in Seen
            BY <4>3 DEF WindowExact
          <5> QED
            BY <2>2, <3>2, <3>4, <4>1, <5>1
        <4> QED
          BY <3>3, <4>2, <4>3
      <3>6. ASSUME NEW d \in Seen', d < c, c - d < Width
            PROVE  c - d - 1 \in Shift(win.bitmap, delta)
        <4>1. d \in Seen /\ d \in Nat /\ d <= win.max
          BY <2>1, <2>2, <2>4, <3>6 DEF WindowExact
        <4>2. CASE d = win.max
          BY <1>1, <3>2, <3>3, <3>4, <3>6, <4>2
        <4>3. CASE d # win.max
          <5>1. d < win.max /\ win.max - d < Width
            BY <1>1, <3>2, <3>4, <3>6, <4>1, <4>3
          <5>2. win.max - d - 1 \in win.bitmap
            BY <4>1, <5>1 DEF WindowExact
          <5>3. (win.max - d - 1) + delta = c - d - 1 /\ c - d - 1 < Width
            BY <1>1, <3>2, <3>4, <3>6, <4>1
          <5> QED
            BY <3>3, <5>2, <5>3
        <4> QED
          BY <4>2, <4>3
      <3>7. \A d \in Seen' : d <= c
        <4> SUFFICES ASSUME NEW d \in Seen'
                     PROVE  d <= c
          OBVIOUS
        <4>1. d = c \/ d \in Seen
          BY <2>2
        <4>2. CASE d \in Seen
          <5>1. d \in Nat /\ d <= win.max
            BY <2>4, <4>2 DEF WindowExact
          <5> QED
            BY <2>1, <2>6, <3>2, <5>1
        <4> QED
          BY <2>1, <4>1, <4>2
      <3> QED
        BY <2>2, <3>1, <3>5, <3>6, <3>7 DEF WindowExact
    <2>7. CASE ~win.empty /\ ~(c > win.max)
      <3>1. /\ win'.max = win.max
            /\ win'.bitmap = win.bitmap \cup {win.max - c - 1}
            /\ win'.empty = FALSE
        BY <2>3, <2>7 DEF Commit
      <3>2. win.max \in Nat /\ c < win.max
        BY <2>1, <2>3, <2>7 DEF Fresh, RxWindow
      <3>3. win.max - 1 - (win.max - c - 1) = c
        BY <2>1, <3>2
      <3> QED
        BY <2>1, <2>2, <2>7, <3>1, <3>2, <3>3 DEF WindowExact
    <2> QED
      BY <2>5, <2>6, <2>7
  <1> QED
    BY <1>2, <1>3 DEF WindowNext

\* What an exact bitmap means for the verdict of check_and_commit.
LEMMA ExactVerdicts ==
    ASSUME WindowTypeOK, WindowExact
    PROVE  VerdictsRight
  <1>1. Width \in Nat \ {0} /\ Counters \subseteq Nat
    BY WidthAssumption, CountersAssumption
  <1>2. /\ win.max \in Nat
        /\ win.bitmap \in SUBSET (0 .. Width - 1)
        /\ win.empty \in BOOLEAN
    BY DEF WindowTypeOK, RxWindow
  <1>3. ASSUME NEW c \in Counters, c \notin Seen, win.empty \/ c >= win.max - Width
        PROVE  Fresh(win, c)
    <2>1. c \in Nat
      BY <1>1
    <2>2. CASE win.empty \/ c > win.max
      BY <2>2 DEF Fresh
    <2>3. CASE ~win.empty /\ ~(c > win.max)
      <3>1. c < win.max /\ win.max - c <= Width
        BY <1>1, <1>2, <1>3, <2>1, <2>3 DEF WindowExact
      <3>2. win.max - 1 - (win.max - c - 1) = c
        BY <1>2, <2>1
      <3>3. win.max - c - 1 \notin win.bitmap
        BY <1>3, <3>2 DEF WindowExact
      <3> QED
        BY <3>1, <3>3 DEF Fresh
    <2> QED
      BY <2>2, <2>3
  <1>4. ASSUME NEW c \in Seen, win.max - c # Width
        PROVE  ~Fresh(win, c)
    <2>1. c \in Nat /\ ~win.empty /\ c <= win.max
      BY <1>1 DEF WindowExact, Seen
    <2>2. c < win.max /\ win.max - c < Width => win.max - c - 1 \in win.bitmap
      BY <1>4 DEF WindowExact
    <2> QED
      BY <1>1, <1>2, <1>4, <2>1, <2>2 DEF Fresh
  <1> QED
    BY <1>3, <1>4 DEF VerdictsRight, NewIsAccepted, DuplicateIsRejected

\* The window of counter.rs, whatever its width and whatever arrives: the bitmap
\* is exact, a new counter inside the window is always accepted, and a
\* duplicate is always rejected, unless it lies exactly Width behind max.
THEOREM WindowSound ==
    WindowSpec => [](WindowTypeOK /\ WindowExact /\ VerdictsRight)
  <1>1. WindowInit => WindowTypeOK /\ WindowExact
    BY WidthAssumption, CountersAssumption
       DEF WindowInit, NewWindow, WindowTypeOK, WindowExact, RxWindow, Seen
  <1>2. WindowTypeOK /\ WindowExact /\ [WindowNext]_windowVars => (WindowTypeOK /\ WindowExact)'
    BY TypeStep, ExactStep
  <1>3. WindowTypeOK /\ WindowExact => VerdictsRight
    BY ExactVerdicts
  <1> QED
    BY <1>1, <1>2, <1>3, PTL DEF WindowSpec

\* The bitmap of RxWindow tells exactly which of the last Width - 1 counters
\* check_and_commit has accepted, whatever the order they came in.
THEOREM BitmapExact == WindowSpec => []WindowExact
    BY WindowSound, PTL
-----------------------------------------------------------------------------
(* The inductive invariants of Exchange *)

InitiatorState ==
    [pc : {"send", "recv", "established", "failed"}, k : 1 .. Rounds, n : 0 .. MaxAdopts,
     tx : Nat, cur : Datagram, tries : 0 .. MaxRetries, win : RxWindow]

ResponderState ==
    [pc : {"idle", "send", "recv", "final"}, k : 1 .. Rounds, n : 0 .. MaxAdopts,
     tx : Nat, cur : Datagram, tries : 0 .. MaxRetries, win : RxWindow,
     peer : Nat, ok : BOOLEAN]

Types ==
    /\ kind \in Handshakes
    /\ ini \in InitiatorState /\ rsp \in ResponderState
    /\ net \in SUBSET Datagram
    /\ dups \in 0 .. MaxDups
    /\ heard \in SUBSET Nat
    /\ verified \in SUBSET (1 .. MaxAdopts)
    /\ installed \in SUBSET (1 .. MaxAdopts)
    /\ abandoned \in SUBSET (1 .. MaxAdopts)

\* What the initiator has in flight: of its current request, copies only.
FromInitiator(m) ==
    /\ m.op = "ack" => ~m.needs
    /\ m.op # "ack" => m.ack = 0
    /\ m.op = "req" => m.k <= ini.k /\ (m.k = ini.k => m.n = ini.n /\ m.ctr = ini.cur.ctr)

\* The last response exists only once the request it answers was accepted.
FromResponder(m) ==
    m.op = "rsp" /\ m.k = Rounds =>
        /\ ini.k = Rounds /\ ini.n \in verified /\ ini.cur.ctr \in heard
        /\ m.n = ini.n /\ m.ack = ini.cur.ctr

InFlight ==
    /\ ini.cur.from = "i" /\ ini.cur.op = "req" /\ ini.cur.needs /\ ini.cur.ack = 0
    /\ ini.cur.k = ini.k /\ ini.cur.n = ini.n
    /\ Busy => /\ rsp.n >= 1 /\ rsp.tx >= 1
               /\ rsp.cur.from = "r" /\ rsp.cur.ctr >= 1 /\ FromResponder(rsp.cur)
    /\ \A m \in net : m.from = "i" => FromInitiator(m)
    /\ \A m \in net : m.from = "r" => FromResponder(m)

Base == Types /\ InFlight /\ EstablishedIsVerified

\* The counters a window has accepted and still remembers.
SeenBy(w) ==
    {c \in Nat : ~w.empty /\ (c = w.max \/ (c < w.max /\ w.max - c - 1 \in w.bitmap))}

\* As long as the initiator has not used more counters than the window is wide,
\* every acknowledgement it can receive is of something the device accepted.
Acknowledged ==
    /\ ini.cur.ctr \in 1 .. ini.tx - 1
    /\ \A m \in net : m.from = "i" => m.ctr \in 1 .. ini.tx - 1
    /\ \A m \in net : m.from = "i" /\ IsAck(m) => m.ctr # ini.cur.ctr
    /\ \A l, m \in net : l.from = "i" /\ m.from = "i" /\ l.ctr = m.ctr => (IsAck(l) <=> IsAck(m))
    /\ \A m \in net : m.from = "r" => m.ack \in heard
    /\ Busy => rsp.cur.ack \in heard
    /\ Busy => \A c \in SeenBy(rsp.win) :
                  /\ c < ini.tx
                  /\ \/ c \in heard
                     \/ /\ c # ini.cur.ctr
                        /\ \A m \in net : m.from = "i" /\ m.ctr = c => IsAck(m)

NotTooOld == ini.pc # "failed" /\ ini.tx <= Width + 2

AcceptInv == NotTooOld => Acknowledged /\ AdvanceMeansAccepted

\* Nothing of the first attempt is older than the initiator's window.
FirstInWindow ==
    rsp.n = 1 /\ Waiting(ini.pc) => \A m \in net : m.from = "r" => ini.win.max - m.ctr <= Width

NotStarted ==
    /\ rsp.pc = "idle"
    /\ \A m \in net : m.from # "r"
    /\ \A m \in net : m.ack = 0
    /\ SeenBy(ini.win) = {}
    /\ installed = {}

\* During the first attempt the last response has a counter of its own, and the
\* initiator knows that counter only if it took the response.
FirstAttempt ==
    /\ \A m \in net : m.from = "r" => m.ctr < rsp.tx
    /\ \A m \in net : m.from = "i" => m.ack < rsp.tx
    /\ \A c \in SeenBy(ini.win) : c < rsp.tx
    /\ rsp.cur.ctr < rsp.tx
    /\ \A m \in net : m.from = "r" /\ m.ctr = rsp.cur.ctr => m = rsp.cur
    /\ rsp.ok => rsp.cur.op = "rsp" /\ rsp.cur.k = Rounds /\ rsp.cur.n = rsp.n
    /\ rsp.ok /\ (\/ rsp.cur.ctr \in SeenBy(ini.win)
                  \/ \E m \in net : m.from = "i" /\ m.ack = rsp.cur.ctr)
            => ini.pc = "established" /\ ini.n = 1

FirstInv ==
    /\ rsp.n = 0 => NotStarted
    /\ rsp.n = 1 /\ Busy => FirstAttempt
    /\ FirstAttemptShared
-----------------------------------------------------------------------------
(* What a window remembers *)

\* Accepting a counter adds that counter and no other.
LEMMA CommitSeen ==
    ASSUME NEW w \in RxWindow, NEW c \in Nat, Fresh(w, c)
    PROVE  SeenBy(Commit(w, c)) \subseteq SeenBy(w) \cup {c}
  <1>1. Width \in Nat \ {0} /\ w.max \in Nat /\ w.bitmap \in SUBSET (0 .. Width - 1)
    BY WidthAssumption DEF RxWindow
  <1> SUFFICES ASSUME NEW d \in SeenBy(Commit(w, c)), d # c
               PROVE  d \in SeenBy(w)
    OBVIOUS
  <1>2. d \in Nat
    BY DEF SeenBy
  <1>3. CASE w.empty
    <2>1. Commit(w, c).max = c /\ Commit(w, c).bitmap = {}
      BY <1>3 DEF Commit
    <2> QED
      BY <2>1 DEF SeenBy
  <1>4. CASE ~w.empty /\ c > w.max
    <2> DEFINE delta == c - w.max
    <2>1. Commit(w, c).max = c /\ Commit(w, c).bitmap = Shift(w.bitmap, delta)
      BY <1>4 DEF Commit
    <2>2. delta \in Nat \ {0} /\ c = w.max + delta
      BY <1>1, <1>4
    <2> HIDE DEF delta
    <2>3. d < c /\ c - d - 1 \in Shift(w.bitmap, delta)
      BY <2>1 DEF SeenBy
    <2>4. c - d - 1 = delta - 1 \/ (c - d - 1 >= delta /\ (c - d - 1) - delta \in w.bitmap)
      BY <1>1, <2>2, <2>3, ShiftFacts
    <2>5. d = w.max \/ (d < w.max /\ w.max - d - 1 \in w.bitmap)
      <3>1. (c - d - 1) - delta = w.max - d - 1
        BY <1>1, <1>2, <2>2
      <3> QED
        BY <1>1, <1>2, <2>2, <2>4, <3>1
    <2> QED
      BY <1>2, <1>4, <2>5 DEF SeenBy
  <1>5. CASE ~w.empty /\ ~(c > w.max)
    <2>1. /\ Commit(w, c).max = w.max
          /\ Commit(w, c).bitmap = w.bitmap \cup {w.max - c - 1}
      BY <1>5 DEF Commit
    <2>2. d = w.max \/ (d < w.max /\ w.max - d - 1 \in w.bitmap \cup {w.max - c - 1})
      BY <2>1 DEF SeenBy
    <2>3. w.max - d - 1 # w.max - c - 1
      BY <1>1, <1>2
    <2> QED
      BY <1>2, <1>5, <2>2, <2>3 DEF SeenBy
  <1> QED
    BY <1>3, <1>4, <1>5

\* A counter that is refused though it is not older than the window was seen.
LEMMA StaleSeen ==
    ASSUME NEW w \in RxWindow, NEW c \in Nat, ~Fresh(w, c), w.max - c <= Width
    PROVE  c \in SeenBy(w)
  BY WidthAssumption DEF RxWindow, Fresh, SeenBy

LEMMA NewWindowSeen == SeenBy(NewWindow) = {} /\ NewWindow \in RxWindow
  BY DEF SeenBy, NewWindow, RxWindow
-----------------------------------------------------------------------------
(* Facts about the parts of a step *)

LEMMA KindFacts ==
    ASSUME Types
    PROVE  /\ Rounds \in {2, 3}
           /\ MaxRetries \in Nat /\ MaxDups \in Nat /\ MaxAdopts \in Nat
  BY ExchangeAssumption DEF Types, Rounds, MaxRetries, MaxDups, MaxAdopts

SameKind ==
    /\ Rounds' = Rounds /\ MaxRetries' = MaxRetries
    /\ MaxDups' = MaxDups /\ MaxAdopts' = MaxAdopts /\ Datagram' = Datagram
    /\ InitiatorState' = InitiatorState /\ ResponderState' = ResponderState

LEMMA KindStays == ASSUME kind' = kind PROVE SameKind
  <1>1. /\ Rounds' = Rounds /\ MaxRetries' = MaxRetries
        /\ MaxDups' = MaxDups /\ MaxAdopts' = MaxAdopts
    BY DEF Rounds, MaxRetries, MaxDups, MaxAdopts
  <1>2. Datagram' = Datagram
    BY <1>1 DEF Datagram
  <1>3. InitiatorState' = InitiatorState /\ ResponderState' = ResponderState
    BY <1>1, <1>2 DEF InitiatorState, ResponderState
  <1> QED
    BY <1>1, <1>2, <1>3 DEF SameKind

\* The network delivers what is in flight, and nothing else.
LEMMA DeliverFacts ==
    ASSUME Types, NEW m, NEW sent, NEW pc, Deliver(m, sent, pc)
    PROVE  net' \subseteq net \cup sent /\ dups' \in 0 .. MaxDups
  BY KindFacts DEF Deliver, Readable, Types

\* a acknowledges m, with the counter tx of its sender.
AckOf(a, from, tx, m) ==
    /\ a \in Datagram /\ a.from = from /\ a.ctr = tx /\ ~a.needs /\ a.ack = m.ctr
    /\ a.op = "ack" /\ a.k = 0

LEMMA AcksFacts ==
    ASSUME Types, NEW m \in Datagram, NEW from \in {"i", "r"}, NEW side, side.tx \in Nat
    PROVE  /\ AfterAck(side, m) \in Nat /\ AfterAck(side, m) >= side.tx
           /\ \A a \in Acks(side, from, m) :
                 /\ AckOf(a, from, side.tx, m)
                 /\ m.needs /\ AfterAck(side, m) = side.tx + 1
  <1>1. AfterAck(side, m) \in Nat /\ AfterAck(side, m) >= side.tx
    BY DEF AfterAck
  <1>2. ASSUME NEW a \in Acks(side, from, m)
        PROVE  AckOf(a, from, side.tx, m) /\ m.needs /\ AfterAck(side, m) = side.tx + 1
    <2>1. m.needs /\ a = StandaloneAck(from, side.tx, m.ctr)
      BY <1>2 DEF Acks
    <2>2. m.ctr \in Nat /\ 0 \in 0 .. Rounds /\ 0 \in 0 .. MaxAdopts
      BY KindFacts DEF Datagram
    <2> QED
      BY <2>1, <2>2 DEF StandaloneAck, AckOf, Datagram, AfterAck
  <1> QED
    BY <1>1, <1>2

LEMMA DatagramFacts ==
    ASSUME NEW m \in Datagram
    PROVE  /\ m.ctr \in Nat /\ m.ack \in Nat /\ m.k \in 0 .. Rounds /\ m.n \in 0 .. MaxAdopts
           /\ m.from \in {"i", "r"} /\ m.op \in {"ack", "req", "rsp", "fail"}
           /\ m.needs \in BOOLEAN
  BY DEF Datagram

\* The ends after screening a fresh datagram.
LEMMA InitiatorScreened ==
    ASSUME Types, NEW m \in Datagram, Fresh(ini.win, m.ctr)
    PROVE  /\ Screened(ini, m) \in InitiatorState
           /\ Screened(ini, m).win = Commit(ini.win, m.ctr)
           /\ Screened(ini, m).tx = AfterAck(ini, m)
           /\ Screened(ini, m).pc = ini.pc /\ Screened(ini, m).k = ini.k
           /\ Screened(ini, m).n = ini.n /\ Screened(ini, m).cur = ini.cur
           /\ Screened(ini, m).tries = ini.tries
  <1> DEFINE w == Commit(ini.win, m.ctr)
             t == AfterAck(ini, m)
  <1>1. ini \in InitiatorState /\ ini.win \in RxWindow /\ ini.tx \in Nat /\ m.ctr \in Nat
    BY DEF Types, InitiatorState, Datagram
  <1>2. w \in RxWindow /\ t \in Nat
    BY <1>1, CommitTyped, AcksFacts
  <1>3. Screened(ini, m) = [ini EXCEPT !.win = w, !.tx = t]
    BY DEF Screened
  <1> HIDE DEF w, t
  <1>4. /\ Screened(ini, m) \in InitiatorState
        /\ Screened(ini, m).win = w /\ Screened(ini, m).tx = t
        /\ Screened(ini, m).pc = ini.pc /\ Screened(ini, m).k = ini.k
        /\ Screened(ini, m).n = ini.n /\ Screened(ini, m).cur = ini.cur
        /\ Screened(ini, m).tries = ini.tries
    BY <1>1, <1>2, <1>3 DEF InitiatorState
  <1> QED
    BY <1>4 DEF w, t

LEMMA ResponderScreened ==
    ASSUME Types, NEW m \in Datagram, Fresh(rsp.win, m.ctr)
    PROVE  /\ Screened(rsp, m) \in ResponderState
           /\ Screened(rsp, m).win = Commit(rsp.win, m.ctr)
           /\ Screened(rsp, m).tx = AfterAck(rsp, m)
           /\ Screened(rsp, m).pc = rsp.pc /\ Screened(rsp, m).k = rsp.k
           /\ Screened(rsp, m).n = rsp.n /\ Screened(rsp, m).cur = rsp.cur
           /\ Screened(rsp, m).tries = rsp.tries /\ Screened(rsp, m).ok = rsp.ok
  <1> DEFINE w == Commit(rsp.win, m.ctr)
             t == AfterAck(rsp, m)
  <1>1. rsp \in ResponderState /\ rsp.win \in RxWindow /\ rsp.tx \in Nat /\ m.ctr \in Nat
    BY DEF Types, ResponderState, Datagram
  <1>2. w \in RxWindow /\ t \in Nat
    BY <1>1, CommitTyped, AcksFacts
  <1>3. Screened(rsp, m) = [rsp EXCEPT !.win = w, !.tx = t]
    BY DEF Screened
  <1> HIDE DEF w, t
  <1>4. /\ Screened(rsp, m) \in ResponderState
        /\ Screened(rsp, m).win = w /\ Screened(rsp, m).tx = t
        /\ Screened(rsp, m).pc = rsp.pc /\ Screened(rsp, m).k = rsp.k
        /\ Screened(rsp, m).n = rsp.n /\ Screened(rsp, m).cur = rsp.cur
        /\ Screened(rsp, m).tries = rsp.tries /\ Screened(rsp, m).ok = rsp.ok
    BY <1>1, <1>2, <1>3 DEF ResponderState
  <1> QED
    BY <1>4 DEF w, t

\* An acknowledgement uses up a counter at most.
LEMMA ResponderAfterAck ==
    ASSUME Types, NEW m \in Datagram
    PROVE  /\ rsp.tx \in Nat /\ AfterAck(rsp, m) \in Nat /\ AfterAck(rsp, m) >= rsp.tx
           /\ \A a \in Acks(rsp, "r", m) :
                 /\ AckOf(a, "r", rsp.tx, m)
                 /\ m.needs /\ AfterAck(rsp, m) = rsp.tx + 1
  <1>1. rsp.tx \in Nat
    BY DEF Types, ResponderState
  <1> QED
    BY <1>1, AcksFacts

LEMMA InitiatorAfterAck ==
    ASSUME Types, NEW m \in Datagram
    PROVE  /\ ini.tx \in Nat /\ AfterAck(ini, m) \in Nat /\ AfterAck(ini, m) >= ini.tx
           /\ \A a \in Acks(ini, "i", m) :
                 /\ AckOf(a, "i", ini.tx, m)
                 /\ m.needs /\ AfterAck(ini, m) = ini.tx + 1
  <1>1. ini.tx \in Nat
    BY DEF Types, InitiatorState
  <1> QED
    BY <1>1, AcksFacts
-----------------------------------------------------------------------------
(* What each action does, with the datagrams it may put on the network *)

\* A step of the initiator, one of the responder, that sends at most new.
InitiatorMoves(new) ==
    /\ kind' = kind /\ rsp' = rsp /\ heard' = heard /\ verified' = verified
    /\ installed' = installed /\ abandoned' = abandoned
    /\ net' \subseteq net \cup new /\ dups' \in 0 .. MaxDups

ResponderMoves(new) ==
    /\ kind' = kind /\ ini' = ini
    /\ net' \subseteq net \cup new /\ dups' \in 0 .. MaxDups

\* The initiator acknowledges a duplicate.
LEMMA DoesInitiatorDuplicate ==
    ASSUME Types, NEW m \in net, InitiatorDuplicate(m)
    PROVE  /\ InitiatorMoves(Acks(ini, "i", m))
           /\ Waiting(ini.pc) /\ m.from = "r" /\ ~Fresh(ini.win, m.ctr) /\ m \in Datagram
           /\ ini' \in InitiatorState
           /\ ini'.pc = ini.pc /\ ini'.k = ini.k /\ ini'.n = ini.n /\ ini'.cur = ini.cur
           /\ ini'.win = ini.win /\ ini'.tx = AfterAck(ini, m)
  <1>1. /\ Waiting(ini.pc) /\ m.from = "r" /\ ~Fresh(ini.win, m.ctr)
        /\ Deliver(m, Acks(ini, "i", m), ini.pc)
        /\ ini' = [ini EXCEPT !.tx = AfterAck(ini, m)]
        /\ rsp' = rsp /\ kind' = kind /\ heard' = heard /\ verified' = verified
        /\ installed' = installed /\ abandoned' = abandoned
    BY DEF InitiatorDuplicate, history
  <1>2. m \in Datagram /\ ini \in InitiatorState /\ ini.tx \in Nat
    BY DEF Types, InitiatorState
  <1>3. AfterAck(ini, m) \in Nat
    BY <1>2, AcksFacts
  <1>4. InitiatorMoves(Acks(ini, "i", m))
    BY <1>1, DeliverFacts DEF InitiatorMoves
  <1> QED
    BY <1>1, <1>2, <1>3, <1>4 DEF InitiatorState

\* The initiator takes an ack, and stops retransmitting if it is the right one.
LEMMA DoesInitiatorAcked ==
    ASSUME Types, NEW m \in net, InitiatorAcked(m)
    PROVE  /\ InitiatorMoves({})
           /\ Waiting(ini.pc) /\ m.from = "r" /\ IsAck(m) /\ Fresh(ini.win, m.ctr)
           /\ m \in Datagram
           /\ ini' \in InitiatorState
           /\ ini'.k = ini.k /\ ini'.n = ini.n /\ ini'.cur = ini.cur
           /\ ini'.pc = (IF m.ack = ini.cur.ctr THEN "recv" ELSE ini.pc)
           /\ ini'.win = Commit(ini.win, m.ctr) /\ ini'.tx = AfterAck(ini, m)
  <1> DEFINE s == Screened(ini, m)
  <1>1. /\ Waiting(ini.pc) /\ m.from = "r" /\ IsAck(m) /\ Fresh(ini.win, m.ctr)
        /\ Deliver(m, {}, ini.pc)
        /\ ini' = [s EXCEPT !.pc = IF m.ack = ini.cur.ctr THEN "recv" ELSE @]
        /\ rsp' = rsp /\ kind' = kind /\ heard' = heard /\ verified' = verified
        /\ installed' = installed /\ abandoned' = abandoned
    BY DEF InitiatorAcked, history
  <1>2. m \in Datagram
    BY DEF Types
  <1>3. /\ s \in InitiatorState /\ s.win = Commit(ini.win, m.ctr) /\ s.tx = AfterAck(ini, m)
        /\ s.pc = ini.pc /\ s.k = ini.k /\ s.n = ini.n /\ s.cur = ini.cur
    BY <1>1, <1>2, InitiatorScreened
  <1>4. InitiatorMoves({})
    BY <1>1, DeliverFacts DEF InitiatorMoves
  <1> HIDE DEF s
  <1> QED
    BY <1>1, <1>2, <1>3, <1>4 DEF InitiatorState

\* A message that is no ack ends the wait: the initiator fails (perhaps with an
\* abort), has a session, or sends its next request.
Ends(m, pc) ==
    /\ ini' \in InitiatorState
    /\ ini'.pc = pc /\ ini'.k = ini.k /\ ini'.n = ini.n /\ ini'.cur = ini.cur
    /\ ini'.win = Commit(ini.win, m.ctr) /\ ini'.tx = AfterAck(ini, m)

Abort(x) == x \in Datagram /\ x.from = "i" /\ x.op = "fail" /\ x.ack = 0

Proceeds(m, x) ==
    /\ x \in Datagram /\ x.from = "i" /\ x.op = "req" /\ x.needs /\ x.ack = 0
    /\ x.k = ini.k + 1 /\ x.n = m.n /\ x.ctr = AfterAck(ini, m)
    /\ ini' \in InitiatorState
    /\ ini'.pc = "send" /\ ini'.k = ini.k + 1 /\ ini'.n = m.n /\ ini'.cur = x
    /\ ini'.win = Commit(ini.win, m.ctr) /\ ini'.tx = AfterAck(ini, m) + 1

LEMMA DoesInitiatorResponse ==
    ASSUME Types, NEW m \in net, InitiatorResponse(m)
    PROVE  /\ Waiting(ini.pc) /\ m.from = "r" /\ ~IsAck(m) /\ Fresh(ini.win, m.ctr)
           /\ m \in Datagram
           /\ \/ /\ ~Acceptable(m) \/ m.k < Rounds
                 /\ Ends(m, "failed")
                 /\ \E x : Abort(x) /\ InitiatorMoves(Acks(ini, "i", m) \cup {x})
              \/ /\ Acceptable(m) /\ m.k = Rounds
                 /\ Ends(m, "established")
                 /\ InitiatorMoves(Acks(ini, "i", m))
              \/ /\ Acceptable(m) /\ m.k < Rounds
                 /\ \E x : Proceeds(m, x) /\ InitiatorMoves(Acks(ini, "i", m) \cup {x})
  <1> DEFINE s == Screened(ini, m)
             next == Build("i", s.tx, 0, "req", ini.k + 1, m.n)
             abort == Build("i", s.tx, 0, "fail", 0, 0)
  <1>1. /\ Waiting(ini.pc) /\ m.from = "r" /\ ~IsAck(m) /\ Fresh(ini.win, m.ctr)
        /\ rsp' = rsp /\ kind' = kind /\ heard' = heard /\ verified' = verified
        /\ installed' = installed /\ abandoned' = abandoned
    BY DEF InitiatorResponse, history
  <1>2. m \in Datagram /\ m.n \in 0 .. MaxAdopts /\ Rounds \in {2, 3} /\ MaxAdopts \in Nat
        /\ MaxRetries \in Nat /\ ini.k \in 1 .. Rounds
    BY KindFacts DEF Types, Datagram, InitiatorState
  <1>3. /\ s \in InitiatorState /\ s.win = Commit(ini.win, m.ctr) /\ s.tx = AfterAck(ini, m)
        /\ s.pc = ini.pc /\ s.k = ini.k /\ s.n = ini.n /\ s.cur = ini.cur /\ s.tx \in Nat
    BY <1>1, <1>2, InitiatorScreened DEF InitiatorState
  <1>4. \A new, pc : Deliver(m, new, pc) => InitiatorMoves(new)
    BY <1>1, DeliverFacts DEF InitiatorMoves
  <1>5. Abort(abort)
    <2>1. 0 \in 0 .. Rounds /\ 0 \in 0 .. MaxAdopts /\ s.tx \in Nat
      BY <1>2, <1>3
    <2> HIDE DEF s
    <2> QED
      BY <2>1 DEF Build, Datagram, Abort
  <1>6. CASE /\ ~Acceptable(m)
             /\ Deliver(m, Acks(ini, "i", m), "failed")
             /\ ini' = [s EXCEPT !.pc = "failed"]
    <2> HIDE DEF s, abort
    <2>1. Ends(m, "failed")
      BY <1>3, <1>6 DEF Ends, InitiatorState
    <2>2. InitiatorMoves(Acks(ini, "i", m))
      BY <1>4, <1>6
    <2>3. InitiatorMoves(Acks(ini, "i", m) \cup {abort})
      BY <2>2 DEF InitiatorMoves
    <2> QED
      BY <1>1, <1>2, <1>5, <1>6, <2>1, <2>3
  <1>7. CASE /\ Acceptable(m) /\ m.k = Rounds
             /\ Deliver(m, Acks(ini, "i", m), "established")
             /\ ini' = [s EXCEPT !.pc = "established"]
    <2> HIDE DEF s
    <2>1. Ends(m, "established")
      BY <1>3, <1>7 DEF Ends, InitiatorState
    <2>2. InitiatorMoves(Acks(ini, "i", m))
      BY <1>4, <1>7
    <2> QED
      BY <1>1, <1>2, <1>7, <2>1, <2>2
  <1>8. CASE /\ Acceptable(m) /\ m.k < Rounds
             /\ Deliver(m, Acks(ini, "i", m) \cup {next}, "send")
             /\ ini' = [s EXCEPT !.pc = "send", !.k = @ + 1, !.n = m.n, !.tx = @ + 1,
                                 !.cur = next, !.tries = 0]
    <2>1. m.k = ini.k
      BY <1>8 DEF Acceptable
    <2>2. ini.k + 1 \in 1 .. Rounds /\ ini.k + 1 \in 0 .. Rounds
      BY <1>2, <1>8, <2>1
    <2> HIDE DEF s
    <2>3. /\ next \in Datagram /\ next.from = "i" /\ next.ctr = s.tx /\ next.needs = TRUE
          /\ next.ack = 0 /\ next.op = "req" /\ next.k = ini.k + 1 /\ next.n = m.n
      BY <1>2, <1>3, <2>2 DEF Build, Datagram
    <2> HIDE DEF next
    <2>4. /\ ini' \in InitiatorState
          /\ ini'.pc = "send" /\ ini'.k = ini.k + 1 /\ ini'.n = m.n /\ ini'.cur = next
          /\ ini'.win = s.win /\ ini'.tx = s.tx + 1
      <3>1. ini' = [s EXCEPT !.pc = "send", !.k = ini.k + 1, !.n = m.n, !.tx = s.tx + 1,
                             !.cur = next, !.tries = 0]
        BY <1>3, <1>8
      <3>2. s.tx + 1 \in Nat /\ 0 \in 0 .. MaxRetries
        BY <1>2, <1>3
      <3> QED
        BY <1>2, <1>3, <2>2, <2>3, <3>1, <3>2 DEF InitiatorState
    <2>5. Proceeds(m, next)
      BY <1>3, <2>3, <2>4 DEF Proceeds
    <2>6. InitiatorMoves(Acks(ini, "i", m) \cup {next})
      BY <1>4, <1>8
    <2> QED
      BY <1>1, <1>2, <1>8, <2>5, <2>6
  <1>9. CASE /\ Acceptable(m) /\ m.k < Rounds
             /\ Deliver(m, Acks(ini, "i", m) \cup (IF Rounds = 3 THEN {abort} ELSE {}), "failed")
             /\ ini' = [s EXCEPT !.pc = "failed"]
    <2> HIDE DEF s, abort
    <2>1. Ends(m, "failed")
      BY <1>3, <1>9 DEF Ends, InitiatorState
    <2>2. InitiatorMoves(Acks(ini, "i", m) \cup (IF Rounds = 3 THEN {abort} ELSE {}))
      BY <1>4, <1>9
    <2>3. InitiatorMoves(Acks(ini, "i", m) \cup {abort})
      BY <2>2 DEF InitiatorMoves
    <2> QED
      BY <1>1, <1>2, <1>5, <1>9, <2>1, <2>3
  <1> QED
    BY <1>6, <1>7, <1>8, <1>9 DEF InitiatorResponse

\* A retransmission sends the current request again; a time-out ends the exchange.
LEMMA DoesInitiatorTimers ==
    ASSUME Types, InitiatorRetransmit \/ InitiatorTimeout
    PROVE  /\ InitiatorMoves({ini.cur})
           /\ ini' \in InitiatorState
           /\ ini'.k = ini.k /\ ini'.n = ini.n /\ ini'.cur = ini.cur
           /\ ini'.win = ini.win /\ ini'.tx = ini.tx
           /\ Waiting(ini.pc) /\ ini'.pc \in {ini.pc, "failed"}
  <1>1. /\ ini \in InitiatorState /\ ini.tries \in 0 .. MaxRetries /\ MaxRetries \in Nat
        /\ dups \in 0 .. MaxDups
    BY KindFacts DEF Types, InitiatorState
  <1>2. CASE InitiatorRetransmit
    <2>1. /\ ini' = [ini EXCEPT !.tries = ini.tries + 1] /\ ini.tries + 1 \in 0 .. MaxRetries
          /\ ini.pc = "send"
      BY <1>1, <1>2 DEF InitiatorRetransmit
    <2>2. InitiatorMoves({ini.cur})
      BY <1>1, <1>2 DEF InitiatorRetransmit, InitiatorMoves, history
    <2> QED
      BY <1>1, <2>1, <2>2 DEF InitiatorState, Waiting
  <1>3. CASE InitiatorTimeout
    <2>1. InitiatorMoves({ini.cur})
      BY <1>1, <1>3 DEF InitiatorTimeout, InitiatorMoves, Readable, history
    <2> QED
      BY <1>1, <1>3, <2>1 DEF InitiatorTimeout, InitiatorState, Waiting
  <1> QED
    BY <1>2, <1>3

\* The responder acknowledges a duplicate.
LEMMA DoesResponderDuplicate ==
    ASSUME Types, NEW m \in net, ResponderDuplicate(m)
    PROVE  /\ ResponderMoves(Acks(rsp, "r", m))
           /\ Busy /\ m.from = "i" /\ ~Fresh(rsp.win, m.ctr) /\ m \in Datagram
           /\ rsp' \in ResponderState
           /\ rsp'.pc = rsp.pc /\ rsp'.n = rsp.n /\ rsp'.cur = rsp.cur /\ rsp'.ok = rsp.ok
           /\ rsp'.win = rsp.win /\ rsp'.tx = AfterAck(rsp, m)
           /\ heard' = heard /\ verified' = verified
           /\ installed' = installed /\ abandoned' = abandoned
  <1>1. /\ Busy /\ m.from = "i" /\ ~Fresh(rsp.win, m.ctr)
        /\ Deliver(m, Acks(rsp, "r", m), ini.pc)
        /\ rsp' = [rsp EXCEPT !.tx = AfterAck(rsp, m)]
        /\ ini' = ini /\ kind' = kind /\ heard' = heard /\ verified' = verified
        /\ installed' = installed /\ abandoned' = abandoned
    BY DEF ResponderDuplicate, history
  <1>2. m \in Datagram /\ rsp \in ResponderState /\ rsp.tx \in Nat
    BY DEF Types, ResponderState
  <1>3. AfterAck(rsp, m) \in Nat
    BY <1>2, AcksFacts
  <1>4. ResponderMoves(Acks(rsp, "r", m))
    BY <1>1, DeliverFacts DEF ResponderMoves
  <1> QED
    BY <1>1, <1>2, <1>3, <1>4 DEF ResponderState

\* The responder takes a standalone ack between two requests.
LEMMA DoesResponderAcked ==
    ASSUME Types, NEW m \in net, ResponderAcked(m)
    PROVE  /\ ResponderMoves({})
           /\ rsp.pc \in {"send", "recv"} /\ m.from = "i" /\ IsAck(m)
           /\ Fresh(rsp.win, m.ctr) /\ m \in Datagram
           /\ rsp' \in ResponderState
           /\ rsp'.pc \in {"send", "recv"}
           /\ rsp'.n = rsp.n /\ rsp'.cur = rsp.cur /\ rsp'.ok = rsp.ok
           /\ rsp'.win = Commit(rsp.win, m.ctr) /\ rsp'.tx = AfterAck(rsp, m)
           /\ heard' = heard /\ verified' = verified
           /\ installed' = installed /\ abandoned' = abandoned
  <1> DEFINE s == Screened(rsp, m)
  <1>1. /\ rsp.pc \in {"send", "recv"} /\ m.from = "i" /\ IsAck(m) /\ Fresh(rsp.win, m.ctr)
        /\ Deliver(m, {}, ini.pc)
        /\ rsp' = [s EXCEPT !.peer = m.ctr, !.pc = IF m.ack = rsp.cur.ctr THEN "recv" ELSE @]
        /\ ini' = ini /\ kind' = kind /\ heard' = heard /\ verified' = verified
        /\ installed' = installed /\ abandoned' = abandoned
    BY DEF ResponderAcked, history
  <1>2. m \in Datagram /\ m.ctr \in Nat
    BY DEF Types, Datagram
  <1>3. /\ s \in ResponderState /\ s.win = Commit(rsp.win, m.ctr) /\ s.tx = AfterAck(rsp, m)
        /\ s.pc = rsp.pc /\ s.n = rsp.n /\ s.cur = rsp.cur /\ s.ok = rsp.ok
    BY <1>1, <1>2, ResponderScreened
  <1>4. ResponderMoves({})
    BY <1>1, DeliverFacts DEF ResponderMoves
  <1> HIDE DEF s
  <1> QED
    BY <1>1, <1>2, <1>3, <1>4 DEF ResponderState

\* The ack of the last reply ends the handshake; anything else is only acknowledged.
LEMMA DoesResponderFinal ==
    ASSUME Types, NEW m \in net, ResponderFinal(m)
    PROVE  /\ ResponderMoves(Acks(rsp, "r", m))
           /\ rsp.pc = "final" /\ m.from = "i" /\ Fresh(rsp.win, m.ctr) /\ m \in Datagram
           /\ rsp' \in ResponderState
           /\ rsp'.n = rsp.n /\ rsp'.cur = rsp.cur /\ rsp'.ok = rsp.ok
           /\ rsp'.win = Commit(rsp.win, m.ctr) /\ rsp'.tx = AfterAck(rsp, m)
           /\ verified' = verified
           /\ \/ /\ m.ack = rsp.cur.ctr /\ rsp'.pc = "idle" /\ heard' = heard
                 /\ installed' = installed \cup (IF rsp.ok THEN {rsp.n} ELSE {})
                 /\ abandoned' = abandoned \cup (IF rsp.ok THEN {} ELSE {rsp.n})
              \/ /\ m.ack # rsp.cur.ctr /\ rsp'.pc = "final" /\ heard' = heard \cup {m.ctr}
                 /\ installed' = installed /\ abandoned' = abandoned
  <1> DEFINE s == Screened(rsp, m)
  <1>1. /\ rsp.pc = "final" /\ m.from = "i" /\ Fresh(rsp.win, m.ctr)
        /\ Deliver(m, Acks(rsp, "r", m), ini.pc)
        /\ rsp' = [s EXCEPT !.peer = m.ctr, !.pc = IF m.ack = rsp.cur.ctr THEN "idle" ELSE @]
        /\ ini' = ini /\ kind' = kind /\ verified' = verified
    BY DEF ResponderFinal, Finish
  <1>2. m \in Datagram /\ m.ctr \in Nat
    BY DEF Types, Datagram
  <1>3. /\ s \in ResponderState /\ s.win = Commit(rsp.win, m.ctr) /\ s.tx = AfterAck(rsp, m)
        /\ s.pc = rsp.pc /\ s.n = rsp.n /\ s.cur = rsp.cur /\ s.ok = rsp.ok
    BY <1>1, <1>2, ResponderScreened
  <1>4. ResponderMoves(Acks(rsp, "r", m))
    BY <1>1, DeliverFacts DEF ResponderMoves
  <1>5. \/ /\ m.ack = rsp.cur.ctr /\ heard' = heard
           /\ installed' = installed \cup (IF rsp.ok THEN {rsp.n} ELSE {})
           /\ abandoned' = abandoned \cup (IF rsp.ok THEN {} ELSE {rsp.n})
        \/ /\ m.ack # rsp.cur.ctr /\ heard' = heard \cup {m.ctr}
           /\ installed' = installed /\ abandoned' = abandoned
    BY DEF ResponderFinal, Finish
  <1> HIDE DEF s
  <1>6. /\ rsp' \in ResponderState
        /\ rsp'.n = rsp.n /\ rsp'.cur = rsp.cur /\ rsp'.ok = rsp.ok
        /\ rsp'.win = Commit(rsp.win, m.ctr) /\ rsp'.tx = AfterAck(rsp, m)
        /\ rsp'.pc = (IF m.ack = rsp.cur.ctr THEN "idle" ELSE "final")
    BY <1>1, <1>2, <1>3 DEF ResponderState
  <1> QED
    BY <1>1, <1>2, <1>4, <1>5, <1>6

\* A retransmission sends the last reply again; a time-out gives the attempt up.
LEMMA DoesResponderTimers ==
    ASSUME Types, ResponderTimers
    PROVE  /\ ResponderMoves({rsp.cur})
           /\ Busy
           /\ rsp' \in ResponderState
           /\ rsp'.pc \in {rsp.pc, "idle"}
           /\ rsp'.n = rsp.n /\ rsp'.cur = rsp.cur /\ rsp'.ok = rsp.ok
           /\ rsp'.win = rsp.win /\ rsp'.tx = rsp.tx
           /\ heard' = heard /\ verified' = verified /\ installed' = installed
           /\ abandoned' \subseteq abandoned \cup {rsp.n}
  <1>1. /\ rsp \in ResponderState /\ rsp.tries \in 0 .. MaxRetries /\ MaxRetries \in Nat
        /\ dups \in 0 .. MaxDups
    BY KindFacts DEF Types, ResponderState
  <1>2. CASE ResponderRetransmit
    <2>1. /\ rsp' = [rsp EXCEPT !.tries = rsp.tries + 1] /\ rsp.tries + 1 \in 0 .. MaxRetries
          /\ Busy
      BY <1>1, <1>2 DEF ResponderRetransmit, Busy
    <2>2. /\ ResponderMoves({rsp.cur}) /\ heard' = heard /\ verified' = verified
          /\ installed' = installed /\ abandoned' = abandoned
      BY <1>1, <1>2 DEF ResponderRetransmit, ResponderMoves, Readable, history
    <2> QED
      BY <1>1, <2>1, <2>2 DEF ResponderState
  <1>3. CASE ResponderTimeout
    <2>1. /\ ResponderMoves({rsp.cur}) /\ heard' = heard /\ verified' = verified
          /\ installed' = installed /\ abandoned' \subseteq abandoned \cup {rsp.n}
      BY <1>1, <1>3 DEF ResponderTimeout, ResponderMoves, Finish
    <2>2. Busy /\ rsp' = [rsp EXCEPT !.pc = "idle"]
      BY <1>3 DEF ResponderTimeout, Busy
    <2> QED
      BY <1>1, <2>1, <2>2 DEF ResponderState
  <1> QED
    BY <1>2, <1>3 DEF ResponderTimers

\* The reply to m, from the state r with the acknowledgements acks.
Replies(r, m, acks) ==
    /\ ResponderMoves(acks \cup {rsp'.cur})
    /\ rsp' \in ResponderState
    /\ rsp'.pc \in {"send", "final"} /\ rsp'.n = r.n /\ rsp'.win = r.win /\ rsp'.tx = r.tx + 1
    /\ rsp'.cur \in Datagram
    /\ rsp'.cur.from = "r" /\ rsp'.cur.ctr = r.tx /\ rsp'.cur.ack = m.ctr /\ rsp'.cur.n = r.n
    /\ rsp'.cur.op = "rsp" => Expected(r, m) /\ rsp'.cur.k = m.k
    /\ rsp'.cur.op # "ack"
    /\ rsp'.ok => rsp'.cur.op = "rsp" /\ m.k = Rounds
    /\ rsp'.cur.op = "rsp" /\ m.k = Rounds => r.n \in verified'
    /\ heard' = heard \cup {m.ctr}
    /\ verified \subseteq verified' /\ verified' \subseteq verified \cup {r.n}
    /\ installed' = installed /\ abandoned' = abandoned

LEMMA ReplyFacts ==
    ASSUME Types, NEW m \in net, NEW r \in ResponderState, r.peer = m.ctr,
           NEW op \in {"rsp", "fail"}, op = "rsp" => m.k = r.k
    PROVE  /\ Reply(r, m, op) \in ResponderState
           /\ Reply(r, m, op).pc \in {"send", "final"}
           /\ Reply(r, m, op).n = r.n /\ Reply(r, m, op).win = r.win
           /\ Reply(r, m, op).tx = r.tx + 1
           /\ Reply(r, m, op).ok = (op = "rsp" /\ m.k = Rounds)
           /\ Reply(r, m, op).cur \in Datagram
           /\ Reply(r, m, op).cur.from = "r" /\ Reply(r, m, op).cur.ctr = r.tx
           /\ Reply(r, m, op).cur.ack = m.ctr /\ Reply(r, m, op).cur.n = r.n
           /\ Reply(r, m, op).cur.op = op
           /\ op = "rsp" => Reply(r, m, op).cur.k = m.k
  <1> DEFINE d == Build("r", r.tx, r.peer, op, IF op = "rsp" THEN m.k ELSE 0, r.n)
             last == op = "rsp" /\ m.k = Rounds
             more == op = "rsp" /\ m.k < Rounds
             k == IF more THEN r.k + 1 ELSE r.k
             pc == IF more THEN "send" ELSE "final"
  <1>1. /\ r.tx \in Nat /\ r.n \in 0 .. MaxAdopts /\ r.k \in 1 .. Rounds /\ m.k \in 0 .. Rounds
        /\ m.ctr \in Nat /\ Rounds \in {2, 3} /\ MaxRetries \in Nat /\ MaxAdopts \in Nat
    BY KindFacts DEF Types, ResponderState, Datagram
  <1>2. /\ d \in Datagram /\ d.from = "r" /\ d.ctr = r.tx /\ d.ack = m.ctr /\ d.n = r.n
        /\ d.op = op /\ (op = "rsp" => d.k = m.k)
    <2>1. (IF op = "rsp" THEN m.k ELSE 0) \in 0 .. Rounds
      BY <1>1
    <2> QED
      BY <1>1, <2>1 DEF Build, Datagram
  <1>3. k \in 1 .. Rounds /\ pc \in {"send", "final"} /\ last \in BOOLEAN
    BY <1>1
  <1>4. Reply(r, m, op) = [r EXCEPT !.cur = d, !.tx = r.tx + 1, !.tries = 0, !.pc = pc,
                                    !.ok = last, !.k = k]
    BY DEF Reply
  <1>5. r.tx + 1 \in Nat /\ 0 \in 0 .. MaxRetries
    BY <1>1
  <1> HIDE DEF d, pc, k
  <1>6. /\ Reply(r, m, op) \in ResponderState
        /\ Reply(r, m, op).pc = pc /\ Reply(r, m, op).n = r.n /\ Reply(r, m, op).win = r.win
        /\ Reply(r, m, op).tx = r.tx + 1 /\ Reply(r, m, op).ok = last
        /\ Reply(r, m, op).cur = d
    <2> HIDE DEF last
    <2> QED
      BY <1>2, <1>3, <1>4, <1>5 DEF ResponderState
  <1> QED
    BY <1>2, <1>3, <1>6

LEMMA DoesRespond ==
    ASSUME Types, NEW m \in net, NEW r \in ResponderState, r.peer = m.ctr,
           NEW acks, Respond(r, m, acks)
    PROVE  Replies(r, m, acks)
  <1>1. PICK q \in OnMessage(r, m) :
           /\ rsp' = q
           /\ Deliver(m, acks \cup {q.cur}, ini.pc)
           /\ heard' = heard \cup {m.ctr}
           /\ verified' = verified \cup (IF q.ok THEN {q.n} ELSE {})
           /\ kind' = kind /\ ini' = ini /\ installed' = installed /\ abandoned' = abandoned
    BY DEF Respond
  <1>2. ResponderMoves(acks \cup {q.cur})
    BY <1>1, DeliverFacts DEF ResponderMoves
  <1>3. PICK op \in {"rsp", "fail"} : q = Reply(r, m, op) /\ (op = "rsp" => Expected(r, m))
    BY <1>1 DEF OnMessage
  <1>4. op = "rsp" => m.k = r.k
    BY <1>3 DEF Expected
  <1>5. /\ q \in ResponderState /\ q.pc \in {"send", "final"}
        /\ q.n = r.n /\ q.win = r.win /\ q.tx = r.tx + 1 /\ q.ok = (op = "rsp" /\ m.k = Rounds)
        /\ q.cur \in Datagram /\ q.cur.from = "r" /\ q.cur.ctr = r.tx /\ q.cur.ack = m.ctr
        /\ q.cur.n = r.n /\ q.cur.op = op /\ (op = "rsp" => q.cur.k = m.k)
    BY <1>3, <1>4, ReplyFacts
  <1>6. /\ verified \subseteq verified' /\ verified' \subseteq verified \cup {r.n}
        /\ (op = "rsp" /\ m.k = Rounds => r.n \in verified')
    BY <1>1, <1>5
  <1> QED
    BY <1>1, <1>2, <1>3, <1>5, <1>6 DEF Replies

\* A request of the attempt under way is screened, acknowledged and answered.
LEMMA DoesResponderRequest ==
    ASSUME Types, NEW m \in net, ResponderRequest(m)
    PROVE  /\ rsp.pc \in {"send", "recv"} /\ m.from = "i" /\ ~IsAck(m)
           /\ Fresh(rsp.win, m.ctr) /\ m \in Datagram
           /\ \E r : /\ r.n = rsp.n /\ r.tx = AfterAck(rsp, m)
                     /\ r.win = Commit(rsp.win, m.ctr)
                     /\ Replies(r, m, Acks(rsp, "r", m))
  <1> DEFINE s == Screened(rsp, m)
             r == [s EXCEPT !.peer = m.ctr]
  <1>1. /\ rsp.pc \in {"send", "recv"} /\ m.from = "i" /\ ~IsAck(m) /\ Fresh(rsp.win, m.ctr)
        /\ Respond(r, m, Acks(rsp, "r", m))
    BY DEF ResponderRequest
  <1>2. m \in Datagram /\ m.ctr \in Nat
    BY DEF Types, Datagram
  <1>3. /\ s \in ResponderState /\ s.win = Commit(rsp.win, m.ctr) /\ s.tx = AfterAck(rsp, m)
        /\ s.n = rsp.n
    BY <1>1, <1>2, ResponderScreened
  <1>4. /\ r \in ResponderState /\ r.peer = m.ctr /\ r.n = rsp.n
        /\ r.tx = s.tx /\ r.win = s.win
    <2> HIDE DEF s
    <2> QED
      BY <1>2, <1>3 DEF ResponderState
  <1>5. Replies(r, m, Acks(rsp, "r", m))
    <2> HIDE DEF r
    <2> QED
      BY <1>1, <1>4, DoesRespond
  <1> QED
    BY <1>1, <1>2, <1>3, <1>4, <1>5

\* An opener starts the next attempt, with a new window and a new counter.
LEMMA DoesResponderAdopt ==
    ASSUME Types, NEW m \in net, NEW start \in TxStarts, ResponderAdopt(m, start)
    PROVE  /\ rsp.pc = "idle" /\ m.from = "i" /\ m.op = "req" /\ m \in Datagram
           /\ start \in Nat \ {0}
           /\ \E r : /\ r.n = rsp.n + 1 /\ r.tx = start /\ r.win = Commit(NewWindow, m.ctr)
                     /\ Replies(r, m, {})
  <1> DEFINE w == Commit(NewWindow, m.ctr)
             r == [rsp EXCEPT !.k = 1, !.n = @ + 1, !.tx = start, !.peer = m.ctr, !.win = w]
  <1>1. /\ rsp.pc = "idle" /\ rsp.n < MaxAdopts /\ m.from = "i" /\ m.op = "req"
        /\ Respond(r, m, {})
    BY DEF ResponderAdopt, IsOpener
  <1>2. m \in Datagram /\ m.ctr \in Nat /\ start \in Nat \ {0}
    BY ExchangeAssumption DEF Types, Datagram
  <1>3. w \in RxWindow
    <2>1. Fresh(NewWindow, m.ctr)
      BY DEF Fresh, NewWindow
    <2> QED
      BY <1>2, <2>1, NewWindowSeen, CommitTyped
  <1>4. /\ rsp \in ResponderState /\ rsp.n + 1 \in 0 .. MaxAdopts /\ 1 \in 1 .. Rounds
    BY <1>1, KindFacts DEF Types, ResponderState
  <1>5. /\ r \in ResponderState /\ r.peer = m.ctr /\ r.n = rsp.n + 1
        /\ r.tx = start /\ r.win = w
    <2> HIDE DEF w
    <2> QED
      BY <1>2, <1>3, <1>4 DEF ResponderState
  <1>6. Replies(r, m, {})
    <2> HIDE DEF r
    <2> QED
      BY <1>1, <1>5, DoesRespond
  <1> QED
    BY <1>1, <1>2, <1>5, <1>6
-----------------------------------------------------------------------------
(* The types, what is in flight, and EstablishedSound *)

\* A step of the initiator that keeps its request.
LEMMA BaseInitiator ==
    ASSUME Base, NEW new, InitiatorMoves(new),
           ini' \in InitiatorState,
           ini'.k = ini.k, ini'.n = ini.n, ini'.cur = ini.cur,
           ini'.pc = "established" => ini.n \in verified,
           \A x \in new : x \in Datagram /\ x.from = "i" /\ FromInitiator(x)
    PROVE  Base'
  <1>1. SameKind
    BY KindStays DEF InitiatorMoves
  <1>2. Types'
    BY <1>1 DEF Base, Types, InitiatorMoves, SameKind
  <1>3. \A m : (FromInitiator(m) <=> FromInitiator(m)') /\ (FromResponder(m) <=> FromResponder(m)')
    BY <1>1 DEF FromInitiator, FromResponder, InitiatorMoves, SameKind
  <1>4. InFlight'
    BY <1>3 DEF Base, InFlight, InitiatorMoves, Busy
  <1>5. EstablishedIsVerified'
    BY DEF EstablishedIsVerified, InitiatorMoves
  <1> QED
    BY <1>2, <1>4, <1>5 DEF Base

\* Acks are always in order, and so is the request itself.
LEMMA AcksFromInitiator ==
    ASSUME Base, NEW m \in Datagram, NEW a \in Acks(ini, "i", m)
    PROVE  a \in Datagram /\ a.from = "i" /\ FromInitiator(a)
  <1>1. ini.tx \in Nat
    BY DEF Base, Types, InitiatorState
  <1>2. AckOf(a, "i", ini.tx, m)
    BY <1>1, AcksFacts DEF Base
  <1> QED
    BY <1>2 DEF AckOf, FromInitiator

LEMMA CurrentFromInitiator ==
    ASSUME Base
    PROVE  ini.cur \in Datagram /\ ini.cur.from = "i" /\ FromInitiator(ini.cur)
  <1>1. ini.cur \in Datagram /\ ini.k \in Nat
    BY KindFacts DEF Base, Types, InitiatorState
  <1> QED
    BY <1>1 DEF Base, InFlight, FromInitiator

\* The next request: what was in flight is of an earlier round, and no last
\* response exists.
LEMMA BaseProceeds ==
    ASSUME Base, NEW m \in Datagram, NEW x, Proceeds(m, x), Acceptable(m), m.k < Rounds,
           InitiatorMoves(Acks(ini, "i", m) \cup {x})
    PROVE  Base'
  <1>1. SameKind
    BY KindStays DEF InitiatorMoves
  <1>2. m.k = ini.k /\ Rounds \in {2, 3} /\ ini.k \in 1 .. Rounds /\ ini.k < Rounds
    BY KindFacts DEF Acceptable, Base, Types, InitiatorState
  <1>3. \A y \in Acks(ini, "i", m) \cup {x} : y \in Datagram /\ y.from = "i"
    BY AcksFromInitiator DEF Proceeds
  <1>4. ini' \in InitiatorState
    BY DEF Proceeds
  <1>5. Types'
    BY <1>1, <1>3, <1>4 DEF Base, Types, InitiatorMoves, SameKind
  <1>6. \A y \in Datagram : FromInitiator(y) => FromInitiator(y)'
    <2> SUFFICES ASSUME NEW y \in Datagram, FromInitiator(y)
                 PROVE  FromInitiator(y)'
      OBVIOUS
    <2>1. y.k \in 0 .. Rounds /\ ini'.k = ini.k + 1
      BY DEF Datagram, Proceeds
    <2> QED
      BY <1>2, <2>1 DEF FromInitiator
  <1>7. FromInitiator(x)'
    <2>1. /\ x.op = "req" /\ x.ack = 0 /\ x.k = ini.k + 1 /\ x.n = m.n
          /\ ini'.k = ini.k + 1 /\ ini'.n = m.n /\ ini'.cur = x
      BY DEF Proceeds
    <2> QED
      BY <1>2, <2>1 DEF FromInitiator
  <1>8. \A y : FromResponder(y) => FromResponder(y)'
    BY <1>1, <1>2 DEF FromResponder, SameKind
  <1>9. InFlight'
    <2>1. /\ ini'.cur.from = "i" /\ ini'.cur.op = "req" /\ ini'.cur.needs /\ ini'.cur.ack = 0
          /\ ini'.cur.k = ini'.k /\ ini'.cur.n = ini'.n
      BY DEF Proceeds
    <2>2. \A y \in net' : y.from = "i" => FromInitiator(y)'
      <3> SUFFICES ASSUME NEW y \in net', y.from = "i"
                   PROVE  FromInitiator(y)'
        OBVIOUS
      <3>1. y \in net \/ y \in Acks(ini, "i", m) \/ y = x
        BY DEF InitiatorMoves
      <3>2. y \in net => y \in Datagram /\ FromInitiator(y)
        BY DEF Base, InFlight, Types
      <3> QED
        BY <1>6, <1>7, <3>1, <3>2, AcksFromInitiator
    <2>3. \A y \in net' : y.from = "r" => FromResponder(y)'
      BY <1>3, <1>8 DEF Base, InFlight, InitiatorMoves
    <2>4. Busy' => /\ rsp'.n >= 1 /\ rsp'.tx >= 1
                   /\ rsp'.cur.from = "r" /\ rsp'.cur.ctr >= 1 /\ FromResponder(rsp.cur)'
      BY <1>8 DEF Base, InFlight, InitiatorMoves, Busy
    <2> QED
      BY <2>1, <2>2, <2>3, <2>4 DEF InFlight
  <1> QED
    BY <1>5, <1>9 DEF Base, EstablishedIsVerified, Proceeds

\* A step of the responder that keeps its reply.
LEMMA BaseResponder ==
    ASSUME Base, NEW new, ResponderMoves(new),
           rsp' \in ResponderState, Busy,
           rsp'.n = rsp.n, rsp'.cur = rsp.cur, rsp'.tx >= rsp.tx,
           heard \subseteq heard', heard' \in SUBSET Nat, verified' = verified,
           installed' \subseteq installed \cup {rsp.n},
           abandoned' \subseteq abandoned \cup {rsp.n},
           \A x \in new : x \in Datagram /\ x.from = "r" /\ FromResponder(x)
    PROVE  Base'
  <1>1. SameKind
    BY KindStays DEF ResponderMoves
  <1>2. rsp.n \in 1 .. MaxAdopts
    BY KindFacts DEF Base, InFlight, Types, ResponderState
  <1>3. Types'
    BY <1>1, <1>2 DEF Base, Types, ResponderMoves, SameKind
  <1>4. \A m : (FromInitiator(m) => FromInitiator(m)') /\ (FromResponder(m) => FromResponder(m)')
    BY <1>1 DEF FromInitiator, FromResponder, ResponderMoves, SameKind
  <1>5. InFlight'
    <2>1. rsp'.tx >= 1
      BY DEF Base, InFlight, Types, ResponderState
    <2> QED
      BY <1>4, <2>1 DEF Base, InFlight, ResponderMoves, Busy
  <1> QED
    BY <1>3, <1>5 DEF Base, EstablishedIsVerified, ResponderMoves

LEMMA AcksFromResponder ==
    ASSUME Base, NEW m \in Datagram, NEW a \in Acks(rsp, "r", m)
    PROVE  a \in Datagram /\ a.from = "r" /\ FromResponder(a)
  <1>1. rsp.tx \in Nat
    BY DEF Base, Types, ResponderState
  <1>2. AckOf(a, "r", rsp.tx, m)
    BY <1>1, AcksFacts DEF Base
  <1> QED
    BY <1>2 DEF AckOf, FromResponder

\* A reply: the last one answers the initiator's current request, of this attempt.
LEMMA BaseReplies ==
    ASSUME Base, NEW m \in net, m.from = "i", NEW r, NEW acks, Replies(r, m, acks),
           r.n >= 1, r.tx >= 1,
           \A x \in acks : x \in Datagram /\ x.from = "r" /\ FromResponder(x)
    PROVE  Base'
  <1>1. SameKind
    BY KindStays DEF Replies, ResponderMoves
  <1>2. /\ Rounds \in {2, 3} /\ MaxAdopts \in Nat /\ m \in Datagram /\ m.ctr \in Nat
        /\ ini.k \in 1 .. Rounds
    BY KindFacts DEF Base, Types, Datagram, InitiatorState
  <1>3. r.n \in 1 .. MaxAdopts
    <2>1. rsp' \in ResponderState /\ rsp'.n = r.n
      BY DEF Replies
    <2> QED
      BY <1>2, <2>1 DEF ResponderState
  <1>4. Types'
    BY <1>1, <1>2, <1>3 DEF Base, Types, Replies, ResponderMoves, SameKind
  <1>5. \A y : (FromInitiator(y) => FromInitiator(y)') /\ (FromResponder(y) => FromResponder(y)')
    BY <1>1 DEF FromInitiator, FromResponder, Replies, ResponderMoves, SameKind
  <1>6. FromResponder(rsp.cur)'
    <2> SUFFICES ASSUME rsp'.cur.op = "rsp", rsp'.cur.k = Rounds
                 PROVE  /\ ini'.k = Rounds /\ ini'.n \in verified' /\ ini'.cur.ctr \in heard'
                        /\ rsp'.cur.n = ini'.n /\ rsp'.cur.ack = ini'.cur.ctr
      BY <1>1 DEF FromResponder, SameKind
    <2>1. /\ m.op = "req" /\ m.k = Rounds /\ m.n = r.n /\ r.n \in verified'
          /\ rsp'.cur.n = r.n /\ rsp'.cur.ack = m.ctr /\ m.ctr \in heard' /\ ini' = ini
      BY DEF Replies, Expected, ResponderMoves
    <2>2. FromInitiator(m)
      BY DEF Base, InFlight
    <2>3. m.k = ini.k /\ m.n = ini.n /\ m.ctr = ini.cur.ctr
      BY <1>2, <2>1, <2>2 DEF FromInitiator
    <2> QED
      BY <2>1, <2>3
  <1>7. InFlight'
    <2>1. Busy' => /\ rsp'.n >= 1 /\ rsp'.tx >= 1
                   /\ rsp'.cur.from = "r" /\ rsp'.cur.ctr >= 1 /\ FromResponder(rsp.cur)'
      <3>1. rsp'.tx = r.tx + 1 /\ rsp'.cur.ctr = r.tx /\ rsp'.tx \in Nat /\ r.tx \in Nat
        BY DEF Replies, ResponderState, Datagram
      <3> QED
        BY <1>6, <3>1 DEF Replies
    <2>2. \A y \in net' : y.from = "i" => FromInitiator(y)'
      BY <1>5 DEF Base, InFlight, Replies, ResponderMoves
    <2>3. \A y \in net' : y.from = "r" => FromResponder(y)'
      BY <1>5, <1>6 DEF Base, InFlight, Replies, ResponderMoves
    <2>4. ini' = ini
      BY DEF Replies, ResponderMoves
    <2> QED
      BY <2>1, <2>2, <2>3, <2>4 DEF Base, InFlight
  <1> QED
    BY <1>4, <1>7 DEF Base, EstablishedIsVerified, Replies, ResponderMoves

\* Nobody but these moves.
LEMMA BaseStep ==
    ASSUME Base, [Next]_vars
    PROVE  Base'
  <1> USE DEF Base
  <1>1. ASSUME NEW m \in net, InitiatorDuplicate(m)
        PROVE  Base'
    <2>1. /\ InitiatorMoves(Acks(ini, "i", m)) /\ m \in Datagram /\ ini' \in InitiatorState
          /\ ini'.pc = ini.pc /\ ini'.k = ini.k /\ ini'.n = ini.n /\ ini'.cur = ini.cur
      BY <1>1, DoesInitiatorDuplicate
    <2>2. \A x \in Acks(ini, "i", m) : x \in Datagram /\ x.from = "i" /\ FromInitiator(x)
      BY <2>1, AcksFromInitiator
    <2> QED
      BY <2>1, <2>2, BaseInitiator DEF EstablishedIsVerified
  <1>2. ASSUME NEW m \in net, InitiatorAcked(m)
        PROVE  Base'
    <2>1. /\ InitiatorMoves({}) /\ ini' \in InitiatorState
          /\ ini'.pc \in {"recv", ini.pc}
          /\ ini'.k = ini.k /\ ini'.n = ini.n /\ ini'.cur = ini.cur
      BY <1>2, DoesInitiatorAcked
    <2> QED
      BY <2>1, BaseInitiator DEF EstablishedIsVerified
  <1>3. ASSUME NEW m \in net, InitiatorResponse(m)
        PROVE  Base'
    <2>1. m \in Datagram /\ m.from = "r"
      BY <1>3, DoesInitiatorResponse
    <2>2. \A x \in Acks(ini, "i", m) : x \in Datagram /\ x.from = "i" /\ FromInitiator(x)
      BY <2>1, AcksFromInitiator
    <2>3. ASSUME NEW x, Abort(x), Ends(m, "failed"), InitiatorMoves(Acks(ini, "i", m) \cup {x})
          PROVE  Base'
      <3>1. x \in Datagram /\ x.from = "i" /\ FromInitiator(x)
        BY <2>3 DEF Abort, FromInitiator
      <3>2. \A y \in Acks(ini, "i", m) \cup {x} : y \in Datagram /\ y.from = "i" /\ FromInitiator(y)
        BY <2>2, <3>1
      <3> QED
        BY <2>3, <3>2, BaseInitiator DEF Ends
    <2>4. ASSUME Acceptable(m), m.k = Rounds, Ends(m, "established"),
                 InitiatorMoves(Acks(ini, "i", m))
          PROVE  Base'
      <3>1. FromResponder(m) /\ m.op = "rsp"
        BY <2>1, <2>4 DEF InFlight, Acceptable
      <3>2. ini.n \in verified
        BY <2>4, <3>1 DEF FromResponder
      <3> QED
        BY <2>2, <2>4, <3>2, BaseInitiator DEF Ends
    <2>5. ASSUME NEW x, Acceptable(m), m.k < Rounds, Proceeds(m, x),
                 InitiatorMoves(Acks(ini, "i", m) \cup {x})
          PROVE  Base'
      BY <2>1, <2>5, BaseProceeds
    <2> QED
      BY <1>3, <2>3, <2>4, <2>5, DoesInitiatorResponse
  <1>4. ASSUME InitiatorRetransmit \/ InitiatorTimeout
        PROVE  Base'
    <2>1. /\ InitiatorMoves({ini.cur}) /\ ini' \in InitiatorState
          /\ ini'.k = ini.k /\ ini'.n = ini.n /\ ini'.cur = ini.cur
          /\ ini'.pc \in {ini.pc, "failed"}
      BY <1>4, DoesInitiatorTimers
    <2> QED
      BY <2>1, CurrentFromInitiator, BaseInitiator DEF EstablishedIsVerified
  <1>5. ASSUME NEW m \in net, NEW start \in TxStarts, ResponderAdopt(m, start)
        PROVE  Base'
    <2>1. PICK r : /\ r.n = rsp.n + 1 /\ r.tx = start /\ Replies(r, m, {})
                   /\ m.from = "i" /\ start \in Nat \ {0}
      BY <1>5, DoesResponderAdopt
    <2>2. r.n >= 1 /\ r.tx >= 1
      BY <2>1, KindFacts DEF Types, ResponderState
    <2> QED
      BY <2>1, <2>2, BaseReplies
  <1>6. ASSUME NEW m \in net, ResponderDuplicate(m)
        PROVE  Base'
    <2>1. /\ ResponderMoves(Acks(rsp, "r", m)) /\ Busy /\ m \in Datagram
          /\ rsp' \in ResponderState /\ rsp'.n = rsp.n /\ rsp'.cur = rsp.cur
          /\ heard' = heard /\ verified' = verified
          /\ installed' = installed /\ abandoned' = abandoned
      BY <1>6, DoesResponderDuplicate
    <2>2. \A x \in Acks(rsp, "r", m) : x \in Datagram /\ x.from = "r" /\ FromResponder(x)
      BY <2>1, AcksFromResponder
    <2>3. heard \subseteq heard' /\ heard' \in SUBSET Nat
      BY <2>1 DEF Types
    <2>4. rsp'.tx >= rsp.tx
      BY <1>6, <2>1, DoesResponderDuplicate, ResponderAfterAck
    <2> QED
      BY <2>1, <2>2, <2>3, <2>4, BaseResponder
  <1>7. ASSUME NEW m \in net, ResponderRequest(m)
        PROVE  Base'
    <2>1. /\ m \in Datagram /\ m.from = "i" /\ Busy
      BY <1>7, DoesResponderRequest DEF Busy
    <2>2. PICK r : /\ r.n = rsp.n /\ r.tx = AfterAck(rsp, m)
                   /\ Replies(r, m, Acks(rsp, "r", m))
      BY <1>7, DoesResponderRequest
    <2>3. \A x \in Acks(rsp, "r", m) : x \in Datagram /\ x.from = "r" /\ FromResponder(x)
      BY <2>1, AcksFromResponder
    <2>4. r.n >= 1 /\ r.tx >= 1
      BY <2>1, <2>2, ResponderAfterAck DEF InFlight, Types, ResponderState
    <2> QED
      BY <2>1, <2>2, <2>3, <2>4, BaseReplies
  <1>8. ASSUME NEW m \in net, ResponderAcked(m)
        PROVE  Base'
    <2>1. /\ ResponderMoves({}) /\ Busy
          /\ rsp' \in ResponderState /\ rsp'.n = rsp.n /\ rsp'.cur = rsp.cur
          /\ heard' = heard /\ verified' = verified
          /\ installed' = installed /\ abandoned' = abandoned
      BY <1>8, DoesResponderAcked DEF Busy
    <2>2. heard \subseteq heard' /\ heard' \in SUBSET Nat
      BY <2>1 DEF Types
    <2>3. rsp'.tx >= rsp.tx
      BY <1>8, DoesResponderAcked, ResponderAfterAck
    <2> QED
      BY <2>1, <2>2, <2>3, BaseResponder
  <1>9. ASSUME NEW m \in net, ResponderFinal(m)
        PROVE  Base'
    <2>1. /\ ResponderMoves(Acks(rsp, "r", m)) /\ Busy /\ m \in Datagram
          /\ rsp' \in ResponderState /\ rsp'.n = rsp.n /\ rsp'.cur = rsp.cur
          /\ heard' \in {heard, heard \cup {m.ctr}} /\ verified' = verified
          /\ installed' \subseteq installed \cup {rsp.n}
          /\ abandoned' \subseteq abandoned \cup {rsp.n}
      BY <1>9, DoesResponderFinal DEF Busy
    <2>2. \A x \in Acks(rsp, "r", m) : x \in Datagram /\ x.from = "r" /\ FromResponder(x)
      BY <2>1, AcksFromResponder
    <2>3. heard \subseteq heard' /\ heard' \in SUBSET Nat
      BY <2>1, DatagramFacts DEF Types
    <2>4. rsp'.tx >= rsp.tx
      BY <1>9, DoesResponderFinal, ResponderAfterAck
    <2> QED
      BY <2>1, <2>2, <2>3, <2>4, BaseResponder
  <1>10. ASSUME ResponderTimers
         PROVE  Base'
    <2>1. /\ ResponderMoves({rsp.cur}) /\ Busy
          /\ rsp' \in ResponderState /\ rsp'.n = rsp.n /\ rsp'.cur = rsp.cur
          /\ heard' = heard /\ verified' = verified /\ installed' = installed
          /\ abandoned' \subseteq abandoned \cup {rsp.n}
      BY <1>10, DoesResponderTimers
    <2>2. rsp.cur \in Datagram /\ rsp.cur.from = "r" /\ FromResponder(rsp.cur)
      BY <2>1 DEF InFlight, Types, ResponderState
    <2>3. heard \subseteq heard' /\ heard' \in SUBSET Nat
      BY <2>1 DEF Types
    <2>4. rsp'.tx >= rsp.tx
      BY <1>10, DoesResponderTimers DEF Types, ResponderState
    <2> QED
      BY <2>1, <2>2, <2>3, <2>4, BaseResponder
  <1>11. CASE UNCHANGED vars
    <2>1. SameKind
      BY <1>11, KindStays DEF vars
    <2>2. Types'
      BY <1>11, <2>1 DEF vars, Types, SameKind
    <2>3. \A m : (FromInitiator(m) => FromInitiator(m)') /\ (FromResponder(m) => FromResponder(m)')
      BY <1>11, <2>1 DEF vars, FromInitiator, FromResponder, SameKind
    <2>4. InFlight'
      BY <1>11, <2>3 DEF vars, InFlight, Busy
    <2> QED
      BY <1>11, <2>2, <2>4 DEF vars, EstablishedIsVerified
  <1> QED
    BY <1>1, <1>2, <1>3, <1>4, <1>5, <1>6, <1>7, <1>8, <1>9, <1>10, <1>11
       DEF Next, Initiator, Responder

LEMMA BaseInit == Init => Base
  <1> SUFFICES ASSUME Init PROVE Base
    OBVIOUS
  <1> DEFINE first == Build("i", 1, 0, "req", 1, 0)
  <1>1. /\ kind \in Handshakes
        /\ ini = [pc |-> "send", k |-> 1, n |-> 0, tx |-> 2, cur |-> first, tries |-> 0,
                  win |-> NewWindow]
        /\ rsp = [pc |-> "idle", k |-> 1, n |-> 0, tx |-> 1, cur |-> first, tries |-> 0,
                  win |-> NewWindow, peer |-> 0, ok |-> FALSE]
        /\ net = {first} /\ dups = 0
        /\ heard = {} /\ verified = {} /\ installed = {} /\ abandoned = {}
    BY DEF Init
  <1>2. Rounds \in {2, 3} /\ MaxRetries \in Nat /\ MaxDups \in Nat /\ MaxAdopts \in Nat
    BY <1>1, ExchangeAssumption DEF Rounds, MaxRetries, MaxDups, MaxAdopts
  <1>3. /\ 0 \in 0 .. MaxAdopts /\ 1 \in 1 .. Rounds /\ 1 \in 0 .. Rounds
        /\ 0 \in 0 .. MaxRetries /\ 0 \in 0 .. MaxDups
    BY <1>2
  <1>4. /\ first \in Datagram /\ first.from = "i" /\ first.ctr = 1 /\ first.needs
        /\ first.ack = 0 /\ first.op = "req" /\ first.k = 1 /\ first.n = 0
    BY <1>3 DEF Build, Datagram
  <1> HIDE DEF first
  <1>5. ini \in InitiatorState /\ rsp \in ResponderState
    BY <1>1, <1>3, <1>4, NewWindowSeen DEF InitiatorState, ResponderState
  <1>6. Types
    BY <1>1, <1>3, <1>4, <1>5 DEF Types
  <1>7. InFlight
    BY <1>1, <1>3, <1>4 DEF InFlight, FromInitiator, Busy
  <1> QED
    BY <1>1, <1>6, <1>7 DEF Base, EstablishedIsVerified

\* The types of both ends and of what is in flight; and the controller has a
\* session only if the device verified its last request in the attempt the keys
\* come from.  Whatever is lost, repeated or reordered, and whatever the widths,
\* budgets and starting counters.
THEOREM EstablishedSoundProved == Spec => []EstablishedSound
  <1>1. Init => Base
    BY BaseInit
  <1>2. Base /\ [Next]_vars => Base'
    BY BaseStep
  <1>3. Base => EstablishedSound
    <2> SUFFICES ASSUME Base PROVE EstablishedSound
      OBVIOUS
    <2>1. /\ ini \in InitiatorState /\ rsp \in ResponderState /\ net \in SUBSET Datagram
          /\ dups \in 0 .. MaxDups
          /\ verified \cup installed \cup abandoned \subseteq 1 .. MaxAdopts
      BY DEF Base, Types
    <2>2. TypeOK
      BY <2>1 DEF TypeOK, InitiatorState, ResponderState
    <2> QED
      BY <2>2 DEF Base, EstablishedSound
  <1> QED
    BY <1>1, <1>2, <1>3, PTL DEF Spec
-----------------------------------------------------------------------------
(* AdvanceMeansAccepted, up to the width of the window *)

\* A step of the initiator that keeps its request.
LEMMA AcceptInitiator ==
    ASSUME Base, AcceptInv, NEW new, InitiatorMoves(new),
           ini' \in InitiatorState, ini.pc # "failed", ini'.cur = ini.cur, ini'.tx >= ini.tx,
           \A x \in new :
               /\ x.from = "i"
               /\ x = ini.cur \/ (IsAck(x) /\ x.ctr = ini.tx /\ ini'.tx = ini.tx + 1),
           Acknowledged /\ AdvanceMeansAccepted /\ ini'.pc \in {"recv", "established"}
               => ini.cur.ctr \in heard
    PROVE  AcceptInv'
  <1> SUFFICES ASSUME NotTooOld'
               PROVE  Acknowledged' /\ AdvanceMeansAccepted'
    BY DEF AcceptInv
  <1>1. /\ ini.tx \in Nat /\ ini'.tx \in Nat /\ Width \in Nat /\ net \subseteq Datagram
        /\ ini.cur \in Datagram /\ heard \subseteq Nat
    BY WidthAssumption DEF Base, Types, InitiatorState
  <1>2. NotTooOld
    BY <1>1 DEF NotTooOld
  <1>3. Acknowledged /\ AdvanceMeansAccepted
    BY <1>2 DEF AcceptInv
  <1>4. ini.cur.ctr \in 1 .. ini.tx - 1 /\ ~IsAck(ini.cur) /\ ini.cur.from = "i"
    BY <1>3 DEF Acknowledged, Base, InFlight, IsAck
  <1>5. \A x \in net' :
           \/ x \in net
           \/ x = ini.cur
           \/ x.from = "i" /\ IsAck(x) /\ x.ctr = ini.tx /\ ini'.tx = ini.tx + 1
    BY DEF InitiatorMoves
  <1>6. rsp' = rsp /\ heard' = heard
    BY DEF InitiatorMoves
  <1>7. \A c \in SeenBy(rsp.win) : c \in Nat
    BY DEF SeenBy
  <1>8. \A x \in net' : x.from = "i" => x.ctr \in 1 .. ini'.tx - 1
    <2> SUFFICES ASSUME NEW x \in net', x.from = "i"
                 PROVE  x.ctr \in 1 .. ini'.tx - 1
      OBVIOUS
    <2>1. x \in net => x.ctr \in 1 .. ini.tx - 1
      BY <1>3 DEF Acknowledged
    <2> QED
      BY <1>1, <1>4, <1>5, <2>1
  <1>9. \A x \in net' : x.from = "i" /\ IsAck(x) => x.ctr # ini.cur.ctr
    <2> SUFFICES ASSUME NEW x \in net', x.from = "i", IsAck(x)
                 PROVE  x.ctr # ini.cur.ctr
      OBVIOUS
    <2>1. x \in net => x.ctr # ini.cur.ctr
      BY <1>3 DEF Acknowledged
    <2> QED
      BY <1>1, <1>4, <1>5, <2>1
  <1>10. \A x, y \in net' : x.from = "i" /\ y.from = "i" /\ x.ctr = y.ctr => (IsAck(x) <=> IsAck(y))
    <2> SUFFICES ASSUME NEW x \in net', NEW y \in net', x.from = "i", y.from = "i",
                        x.ctr = y.ctr, IsAck(x), ~IsAck(y)
                 PROVE  FALSE
      OBVIOUS
    <2>1. y \in net \/ y = ini.cur
      BY <1>5
    <2>2. y \in net => y.ctr \in 1 .. ini.tx - 1
      BY <1>3 DEF Acknowledged
    <2>3. CASE x \in net
      <3>1. x.ctr # ini.cur.ctr /\ (y \in net => (IsAck(x) <=> IsAck(y)))
        BY <1>3, <2>3 DEF Acknowledged
      <3> QED
        BY <2>1, <3>1
    <2>4. CASE x.ctr = ini.tx
      <3>1. y.ctr \in 1 .. ini.tx - 1
        BY <1>4, <2>1, <2>2
      <3>2. y.ctr = ini.tx
        BY <2>4
      <3> QED
        BY <1>1, <3>1, <3>2
    <2> QED
      BY <1>4, <1>5, <2>3, <2>4
  <1>11. \A x \in net' : x.from = "r" => x.ack \in heard'
    BY <1>3, <1>4, <1>5, <1>6 DEF Acknowledged
  <1>12. ASSUME Busy', NEW c \in SeenBy(rsp'.win)
         PROVE  /\ c < ini'.tx
                /\ \/ c \in heard'
                   \/ /\ c # ini'.cur.ctr
                      /\ \A x \in net' : x.from = "i" /\ x.ctr = c => IsAck(x)
    <2>1. /\ c < ini.tx
          /\ \/ c \in heard
             \/ /\ c # ini.cur.ctr
                /\ \A x \in net : x.from = "i" /\ x.ctr = c => IsAck(x)
      BY <1>3, <1>6, <1>12 DEF Acknowledged, Busy
    <2>2. c \in Nat
      BY <1>6, <1>7, <1>12
    <2> QED
      BY <1>1, <1>5, <1>6, <2>1, <2>2
  <1>13. Busy' => rsp'.cur.ack \in heard'
    BY <1>3, <1>6 DEF Acknowledged, Busy
  <1>14. ini'.cur.ctr \in 1 .. ini'.tx - 1
    BY <1>1, <1>4
  <1>15. Acknowledged'
    BY <1>8, <1>9, <1>10, <1>11, <1>12, <1>13, <1>14 DEF Acknowledged
  <1>16. AdvanceMeansAccepted'
    BY <1>3, <1>6 DEF AdvanceMeansAccepted
  <1> QED
    BY <1>15, <1>16

\* The next request has a counter of its own.
LEMMA AcceptProceeds ==
    ASSUME Base, AcceptInv, NEW m \in Datagram, NEW x, Proceeds(m, x), ini.pc # "failed",
           InitiatorMoves(Acks(ini, "i", m) \cup {x})
    PROVE  AcceptInv'
  <1> SUFFICES ASSUME NotTooOld'
               PROVE  Acknowledged' /\ AdvanceMeansAccepted'
    BY DEF AcceptInv
  <1>1. /\ ini.tx \in Nat /\ Width \in Nat
        /\ AfterAck(ini, m) \in Nat /\ AfterAck(ini, m) >= ini.tx
        /\ \A a \in Acks(ini, "i", m) :
              AckOf(a, "i", ini.tx, m) /\ AfterAck(ini, m) = ini.tx + 1
    BY WidthAssumption, InitiatorAfterAck DEF Base
  <1>2. /\ ini'.pc = "send" /\ ini'.tx = AfterAck(ini, m) + 1 /\ ini'.cur = x
        /\ x.ctr = AfterAck(ini, m) /\ x.from = "i" /\ ~IsAck(x)
    BY DEF Proceeds, IsAck
  <1>3. NotTooOld
    BY <1>1, <1>2 DEF NotTooOld
  <1>4. Acknowledged
    BY <1>3 DEF AcceptInv
  <1>5. ini.tx >= 1
    BY <1>1, <1>4 DEF Acknowledged
  <1>6. \A y \in net' :
           \/ y \in net
           \/ y = x
           \/ y.from = "i" /\ IsAck(y) /\ y.ctr = ini.tx /\ x.ctr = ini.tx + 1
    BY <1>1, <1>2 DEF InitiatorMoves, AckOf, IsAck
  <1>7. rsp' = rsp /\ heard' = heard
    BY DEF InitiatorMoves
  <1>8. \A y \in net : y.from = "i" => y.ctr \in 1 .. ini.tx - 1
    BY <1>4 DEF Acknowledged
  <1>9. \A y \in net' : y.from = "i" => y.ctr \in 1 .. ini'.tx - 1
    BY <1>1, <1>2, <1>5, <1>6, <1>8
  <1>10. \A y \in net' : y.from = "i" /\ IsAck(y) => y.ctr # ini'.cur.ctr
    BY <1>1, <1>2, <1>6, <1>8
  <1>11. \A y, z \in net' : y.from = "i" /\ z.from = "i" /\ y.ctr = z.ctr => (IsAck(y) <=> IsAck(z))
    <2> SUFFICES ASSUME NEW y \in net', NEW z \in net', y.from = "i", z.from = "i",
                        y.ctr = z.ctr, IsAck(y), ~IsAck(z)
                 PROVE  FALSE
      OBVIOUS
    <2>1. z \in net
      BY <1>2, <1>6, <1>10
    <2>2. y \in net
      BY <1>1, <1>2, <1>6, <1>8, <2>1
    <2> QED
      BY <1>4, <2>1, <2>2 DEF Acknowledged
  <1>12. \A y \in net' : y.from = "r" => y.ack \in heard'
    BY <1>2, <1>4, <1>6, <1>7 DEF Acknowledged
  <1>13. ASSUME Busy', NEW c \in SeenBy(rsp'.win)
         PROVE  /\ c < ini'.tx
                /\ \/ c \in heard'
                   \/ /\ c # ini'.cur.ctr
                      /\ \A y \in net' : y.from = "i" /\ y.ctr = c => IsAck(y)
    <2>1. /\ c < ini.tx
          /\ \/ c \in heard
             \/ \A y \in net : y.from = "i" /\ y.ctr = c => IsAck(y)
      BY <1>4, <1>7, <1>13 DEF Acknowledged, Busy
    <2>2. c \in Nat
      BY <1>13 DEF SeenBy
    <2> QED
      BY <1>1, <1>2, <1>6, <1>7, <2>1, <2>2
  <1>14. Busy' => rsp'.cur.ack \in heard'
    BY <1>4, <1>7 DEF Acknowledged, Busy
  <1>15. ini'.cur.ctr \in 1 .. ini'.tx - 1
    BY <1>1, <1>2, <1>5
  <1>16. Acknowledged'
    BY <1>9, <1>10, <1>11, <1>12, <1>13, <1>14, <1>15 DEF Acknowledged
  <1>17. AdvanceMeansAccepted'
    BY <1>2 DEF AdvanceMeansAccepted
  <1> QED
    BY <1>16, <1>17

\* A step of the responder: what it acknowledges it has accepted, and what its
\* window has seen it has accepted or was an ack.
LEMMA AcceptResponder ==
    ASSUME Base, AcceptInv, NEW new, ResponderMoves(new), heard \subseteq heard',
           \A x \in new : x.from = "r" /\ (NotTooOld /\ Acknowledged => x.ack \in heard'),
           Busy' /\ NotTooOld /\ Acknowledged => rsp'.cur.ack \in heard',
           Busy' => \A c \in SeenBy(rsp'.win) :
                       \/ Busy /\ c \in SeenBy(rsp.win)
                       \/ \E m \in net : m.from = "i" /\ m.ctr = c /\ (c \in heard' \/ IsAck(m))
    PROVE  AcceptInv'
  <1>1. ini' = ini /\ net' \subseteq net \cup new
    BY DEF ResponderMoves
  <1> SUFFICES ASSUME NotTooOld
               PROVE  Acknowledged' /\ AdvanceMeansAccepted'
    BY <1>1 DEF AcceptInv, NotTooOld
  <1>2. Acknowledged /\ AdvanceMeansAccepted
    BY DEF AcceptInv
  <1>3. AdvanceMeansAccepted'
    BY <1>1, <1>2 DEF AdvanceMeansAccepted
  <1>4. \A x \in net' : x.from = "i" => x \in net
    BY <1>1
  <1>5. \A x \in net' : x.from = "r" => x.ack \in heard'
    BY <1>1, <1>2 DEF Acknowledged
  <1>6. ASSUME Busy', NEW c \in SeenBy(rsp'.win)
        PROVE  /\ c < ini.tx
               /\ \/ c \in heard'
                  \/ /\ c # ini.cur.ctr
                     /\ \A x \in net' : x.from = "i" /\ x.ctr = c => IsAck(x)
    <2>1. CASE Busy /\ c \in SeenBy(rsp.win)
      <3>1. /\ c < ini.tx
            /\ \/ c \in heard
               \/ /\ c # ini.cur.ctr
                  /\ \A x \in net : x.from = "i" /\ x.ctr = c => IsAck(x)
        BY <1>2, <2>1 DEF Acknowledged
      <3> QED
        BY <1>4, <3>1
    <2>2. ASSUME NEW m \in net, m.from = "i", m.ctr = c, c \in heard' \/ IsAck(m)
          PROVE  /\ c < ini.tx
                 /\ \/ c \in heard'
                    \/ /\ c # ini.cur.ctr
                       /\ \A x \in net' : x.from = "i" /\ x.ctr = c => IsAck(x)
      <3>1. ini.tx \in Nat
        BY DEF Base, Types, InitiatorState
      <3>2. /\ m.ctr \in 1 .. ini.tx - 1
            /\ (IsAck(m) => m.ctr # ini.cur.ctr)
            /\ \A x \in net : x.from = "i" /\ x.ctr = m.ctr => (IsAck(x) <=> IsAck(m))
        BY <1>2, <2>2 DEF Acknowledged
      <3>3. c < ini.tx
        BY <2>2, <3>1, <3>2
      <3> QED
        BY <1>4, <2>2, <3>2, <3>3
    <2> QED
      BY <1>6, <2>1, <2>2
  <1>7. /\ ini'.cur.ctr \in 1 .. ini'.tx - 1
        /\ \A x \in net' : x.from = "i" => x.ctr \in 1 .. ini'.tx - 1
        /\ \A x \in net' : x.from = "i" /\ IsAck(x) => x.ctr # ini'.cur.ctr
        /\ \A x, y \in net' : x.from = "i" /\ y.from = "i" /\ x.ctr = y.ctr => (IsAck(x) <=> IsAck(y))
    BY <1>1, <1>2, <1>4 DEF Acknowledged
  <1>8. Acknowledged'
    BY <1>1, <1>2, <1>5, <1>6, <1>7 DEF Acknowledged
  <1> QED
    BY <1>3, <1>8

\* Within the width of the window a duplicate is a duplicate.
LEMMA DuplicateWasHeard ==
    ASSUME Base, NotTooOld, Acknowledged, Busy, NEW m \in net, m.from = "i", m.needs,
           ~Fresh(rsp.win, m.ctr)
    PROVE  m.ctr \in heard
  <1>1. /\ ini.tx \in Nat /\ Width \in Nat /\ rsp.win \in RxWindow /\ rsp.win.max \in Nat
        /\ m.ctr \in 1 .. ini.tx - 1
    BY WidthAssumption DEF Base, Types, InitiatorState, ResponderState, RxWindow, Acknowledged
  <1>2. rsp.win.max \in SeenBy(rsp.win)
    BY <1>1 DEF Fresh, SeenBy
  <1>3. rsp.win.max < ini.tx
    BY <1>2 DEF Acknowledged
  <1>4. rsp.win.max - m.ctr <= Width /\ m.ctr \in Nat
    BY <1>1, <1>3 DEF NotTooOld
  <1>5. m.ctr \in SeenBy(rsp.win)
    BY <1>1, <1>4, StaleSeen
  <1>6. ~IsAck(m)
    BY DEF Base, InFlight, FromInitiator, IsAck
  <1> QED
    BY <1>5, <1>6 DEF Acknowledged

\* A window that takes m has seen m besides what it had seen.
LEMMA ResponderSees ==
    ASSUME Base, NEW m \in net, Fresh(rsp.win, m.ctr)
    PROVE  \A c \in SeenBy(Commit(rsp.win, m.ctr)) : c \in SeenBy(rsp.win) \/ c = m.ctr
  <1>1. rsp.win \in RxWindow /\ m.ctr \in Nat
    BY DEF Base, Types, ResponderState, Datagram
  <1> QED
    BY <1>1, CommitSeen

LEMMA AcceptStep ==
    ASSUME Base, AcceptInv, [Next]_vars
    PROVE  AcceptInv'
  <1>0. Types
    BY DEF Base
  <1>1. ASSUME NEW m \in net, InitiatorDuplicate(m)
        PROVE  AcceptInv'
    <2>1. /\ InitiatorMoves(Acks(ini, "i", m)) /\ m \in Datagram /\ ini' \in InitiatorState
          /\ ini'.pc = ini.pc /\ ini'.cur = ini.cur /\ ini'.tx = AfterAck(ini, m)
          /\ Waiting(ini.pc)
      BY <1>0, <1>1, DoesInitiatorDuplicate
    <2>2. /\ ini'.tx >= ini.tx
          /\ \A x \in Acks(ini, "i", m) :
                x.from = "i" /\ IsAck(x) /\ x.ctr = ini.tx /\ ini'.tx = ini.tx + 1
      BY <1>0, <2>1, InitiatorAfterAck DEF AckOf, IsAck
    <2>3. ini.pc # "failed"
      BY <2>1 DEF Waiting
    <2> QED
      BY <2>1, <2>2, <2>3, AcceptInitiator DEF AdvanceMeansAccepted
  <1>2. ASSUME NEW m \in net, InitiatorAcked(m)
        PROVE  AcceptInv'
    <2>1. /\ InitiatorMoves({}) /\ m \in Datagram /\ ini' \in InitiatorState /\ m.from = "r"
          /\ ini'.cur = ini.cur /\ ini'.tx = AfterAck(ini, m) /\ Waiting(ini.pc)
          /\ ini'.pc = (IF m.ack = ini.cur.ctr THEN "recv" ELSE ini.pc)
      BY <1>0, <1>2, DoesInitiatorAcked
    <2>2. ini'.tx >= ini.tx
      BY <1>0, <2>1, InitiatorAfterAck
    <2>3. ini.pc # "failed"
      BY <2>1 DEF Waiting
    <2>4. Acknowledged /\ AdvanceMeansAccepted /\ ini'.pc \in {"recv", "established"}
              => ini.cur.ctr \in heard
      BY <2>1 DEF Acknowledged, AdvanceMeansAccepted
    <2> QED
      BY <2>1, <2>2, <2>3, <2>4, AcceptInitiator
  <1>3. ASSUME NEW m \in net, InitiatorResponse(m)
        PROVE  AcceptInv'
    <2>1. m \in Datagram /\ m.from = "r" /\ Waiting(ini.pc)
      BY <1>0, <1>3, DoesInitiatorResponse
    <2>2. ini.pc # "failed"
      BY <2>1 DEF Waiting
    <2>3. CASE Ends(m, "failed")
      BY <2>3 DEF Ends, AcceptInv, NotTooOld
    <2>4. ASSUME Acceptable(m), m.k = Rounds, Ends(m, "established"),
                 InitiatorMoves(Acks(ini, "i", m))
          PROVE  AcceptInv'
      <3>1. /\ ini' \in InitiatorState /\ ini'.cur = ini.cur /\ ini'.tx = AfterAck(ini, m)
        BY <2>4 DEF Ends
      <3>2. /\ ini'.tx >= ini.tx
            /\ \A x \in Acks(ini, "i", m) :
                  x.from = "i" /\ IsAck(x) /\ x.ctr = ini.tx /\ ini'.tx = ini.tx + 1
        BY <1>0, <2>1, <3>1, InitiatorAfterAck DEF AckOf, IsAck
      <3>3. FromResponder(m) /\ m.op = "rsp"
        BY <2>1, <2>4 DEF Base, InFlight, Acceptable
      <3>4. ini.cur.ctr \in heard
        BY <2>4, <3>3 DEF FromResponder
      <3> QED
        BY <2>2, <2>4, <3>1, <3>2, <3>4, AcceptInitiator
    <2>5. ASSUME NEW x, Proceeds(m, x), InitiatorMoves(Acks(ini, "i", m) \cup {x})
          PROVE  AcceptInv'
      BY <2>1, <2>2, <2>5, AcceptProceeds
    <2> QED
      BY <1>0, <1>3, <2>3, <2>4, <2>5, DoesInitiatorResponse
  <1>4. ASSUME InitiatorRetransmit \/ InitiatorTimeout
        PROVE  AcceptInv'
    <2>1. /\ InitiatorMoves({ini.cur}) /\ ini' \in InitiatorState
          /\ ini'.cur = ini.cur /\ ini'.tx = ini.tx /\ Waiting(ini.pc)
          /\ ini'.pc \in {ini.pc, "failed"}
      BY <1>0, <1>4, DoesInitiatorTimers
    <2>2. ini.pc # "failed" /\ ini'.tx >= ini.tx /\ ini.cur.from = "i"
      BY <2>1 DEF Waiting, Base, InFlight, Types, InitiatorState
    <2> QED
      BY <2>1, <2>2, AcceptInitiator DEF AdvanceMeansAccepted
  <1>5. ASSUME NEW m \in net, NEW start \in TxStarts, ResponderAdopt(m, start)
        PROVE  AcceptInv'
    <2>1. PICK r : /\ r.win = Commit(NewWindow, m.ctr) /\ Replies(r, m, {})
                   /\ m.from = "i" /\ m \in Datagram
      BY <1>0, <1>5, DoesResponderAdopt
    <2>2. /\ ResponderMoves({rsp'.cur}) /\ rsp'.win = r.win /\ heard' = heard \cup {m.ctr}
          /\ rsp'.cur.from = "r" /\ rsp'.cur.ack = m.ctr
      BY <2>1 DEF Replies
    <2>3. \A c \in SeenBy(rsp'.win) : c = m.ctr
      <3>1. Fresh(NewWindow, m.ctr) /\ m.ctr \in Nat
        BY <2>1, DatagramFacts DEF Fresh, NewWindow
      <3> QED
        BY <2>1, <2>2, <3>1, NewWindowSeen, CommitSeen
    <2> QED
      BY <2>1, <2>2, <2>3, AcceptResponder
  <1>6. ASSUME NEW m \in net, ResponderDuplicate(m)
        PROVE  AcceptInv'
    <2>1. /\ ResponderMoves(Acks(rsp, "r", m)) /\ Busy /\ m \in Datagram
          /\ rsp'.pc = rsp.pc /\ rsp'.cur = rsp.cur /\ rsp'.win = rsp.win
          /\ heard' = heard /\ m.from = "i" /\ ~Fresh(rsp.win, m.ctr)
      BY <1>0, <1>6, DoesResponderDuplicate
    <2>2. \A x \in Acks(rsp, "r", m) : x.from = "r" /\ x.ack = m.ctr /\ m.needs
      BY <1>0, <2>1, ResponderAfterAck DEF AckOf
    <2>3. NotTooOld /\ Acknowledged /\ m.needs => m.ctr \in heard
      BY <2>1, DuplicateWasHeard
    <2>4. Acknowledged => rsp'.cur.ack \in heard'
      BY <2>1 DEF Acknowledged
    <2> QED
      BY <2>1, <2>2, <2>3, <2>4, AcceptResponder
  <1>7. ASSUME NEW m \in net, ResponderRequest(m)
        PROVE  AcceptInv'
    <2>1. /\ m \in Datagram /\ m.from = "i" /\ Busy /\ Fresh(rsp.win, m.ctr)
      BY <1>0, <1>7, DoesResponderRequest DEF Busy
    <2>2. PICK r : r.win = Commit(rsp.win, m.ctr) /\ Replies(r, m, Acks(rsp, "r", m))
      BY <1>0, <1>7, DoesResponderRequest
    <2>3. /\ ResponderMoves(Acks(rsp, "r", m) \cup {rsp'.cur}) /\ rsp'.win = r.win
          /\ heard' = heard \cup {m.ctr} /\ rsp'.cur.from = "r" /\ rsp'.cur.ack = m.ctr
      BY <2>2 DEF Replies
    <2>4. \A x \in Acks(rsp, "r", m) : x.from = "r" /\ x.ack = m.ctr
      BY <1>0, <2>1, ResponderAfterAck DEF AckOf
    <2>5. \A c \in SeenBy(rsp'.win) : c \in SeenBy(rsp.win) \/ c = m.ctr
      BY <2>1, <2>2, <2>3, ResponderSees
    <2> QED
      BY <2>1, <2>3, <2>4, <2>5, AcceptResponder
  <1>8. ASSUME NEW m \in net, ResponderAcked(m)
        PROVE  AcceptInv'
    <2>1. /\ ResponderMoves({}) /\ Busy /\ m.from = "i" /\ IsAck(m) /\ Fresh(rsp.win, m.ctr)
          /\ rsp'.cur = rsp.cur /\ rsp'.win = Commit(rsp.win, m.ctr) /\ heard' = heard
      BY <1>0, <1>8, DoesResponderAcked DEF Busy
    <2>2. \A c \in SeenBy(rsp'.win) : c \in SeenBy(rsp.win) \/ c = m.ctr
      BY <2>1, ResponderSees
    <2>3. Acknowledged => rsp'.cur.ack \in heard'
      BY <2>1 DEF Acknowledged
    <2> QED
      BY <2>1, <2>2, <2>3, AcceptResponder
  <1>9. ASSUME NEW m \in net, ResponderFinal(m)
        PROVE  AcceptInv'
    <2>1. /\ ResponderMoves(Acks(rsp, "r", m)) /\ Busy /\ m \in Datagram /\ m.from = "i"
          /\ Fresh(rsp.win, m.ctr)
          /\ rsp'.cur = rsp.cur /\ rsp'.win = Commit(rsp.win, m.ctr)
          /\ \/ m.ack = rsp.cur.ctr /\ rsp'.pc = "idle" /\ heard' = heard
             \/ m.ack # rsp.cur.ctr /\ rsp'.pc = "final" /\ heard' = heard \cup {m.ctr}
      BY <1>0, <1>9, DoesResponderFinal DEF Busy
    <2>2. \A x \in Acks(rsp, "r", m) : x.from = "r" /\ x.ack = m.ctr /\ m.needs
      BY <1>0, <2>1, ResponderAfterAck DEF AckOf
    <2>3. m.needs => m.ctr \in heard'
      <3> SUFFICES ASSUME m.needs PROVE m.ctr \in heard'
        OBVIOUS
      <3>1. m.ack = 0
        BY <2>1 DEF Base, InFlight, FromInitiator
      <3>2. rsp.cur.ctr >= 1
        BY <2>1 DEF Base, InFlight
      <3>3. m.ack # rsp.cur.ctr
        BY <3>1, <3>2
      <3> QED
        BY <2>1, <3>3
    <2>4. \A c \in SeenBy(rsp'.win) : c \in SeenBy(rsp.win) \/ c = m.ctr
      BY <2>1, ResponderSees
    <2>5. Acknowledged => rsp'.cur.ack \in heard'
      BY <2>1 DEF Acknowledged
    <2>6. Busy' => m.ctr \in heard'
      BY <2>1 DEF Busy
    <2>7. heard \subseteq heard'
      BY <2>1
    <2> QED
      BY <2>1, <2>2, <2>3, <2>4, <2>5, <2>6, <2>7, AcceptResponder
  <1>10. ASSUME ResponderTimers
         PROVE  AcceptInv'
    <2>1. /\ ResponderMoves({rsp.cur}) /\ Busy
          /\ rsp'.cur = rsp.cur /\ rsp'.win = rsp.win /\ heard' = heard
      BY <1>0, <1>10, DoesResponderTimers
    <2>2. rsp.cur.from = "r" /\ (Acknowledged => rsp.cur.ack \in heard)
      BY <2>1 DEF Acknowledged, Base, InFlight
    <2> QED
      BY <2>1, <2>2, AcceptResponder
  <1>11. CASE UNCHANGED vars
    BY <1>11 DEF vars, AcceptInv, NotTooOld, Acknowledged, AdvanceMeansAccepted, Busy
  <1> QED
    BY <1>1, <1>2, <1>3, <1>4, <1>5, <1>6, <1>7, <1>8, <1>9, <1>10, <1>11
       DEF Next, Initiator, Responder

LEMMA AcceptInit == Init => AcceptInv
  <1> SUFFICES ASSUME Init PROVE AcceptInv
    OBVIOUS
  <1> DEFINE first == Build("i", 1, 0, "req", 1, 0)
  <1>1. /\ ini.cur = first /\ ini.tx = 2 /\ ini.pc = "send" /\ rsp.pc = "idle" /\ net = {first}
    BY DEF Init
  <1>2. first.from = "i" /\ first.ctr = 1 /\ first.op = "req"
    BY DEF Build
  <1> HIDE DEF first
  <1> QED
    BY <1>1, <1>2 DEF AcceptInv, Acknowledged, AdvanceMeansAccepted, Busy, IsAck

\* When the initiator stops retransmitting, its request has been accepted by the
\* device, as long as it has used no more counters than the device's window is
\* wide (Width + 1; a handshake without duplicates needs six): beyond that the
\* device acknowledges as a duplicate what is merely too old.
THEOREM AdvanceMeansAcceptedProved ==
    Spec => [](ini.tx <= Width + 2 => AdvanceMeansAccepted)
  <1>1. Init => Base /\ AcceptInv
    BY BaseInit, AcceptInit
  <1>2. Base /\ AcceptInv /\ [Next]_vars => (Base /\ AcceptInv)'
    BY BaseStep, AcceptStep
  <1>3. AcceptInv => (ini.tx <= Width + 2 => AdvanceMeansAccepted)
    BY DEF AcceptInv, NotTooOld, AdvanceMeansAccepted
  <1> QED
    BY <1>1, <1>2, <1>3, PTL DEF Spec
-----------------------------------------------------------------------------
(* FirstAttemptShared, as long as nothing is older than the window *)

\* The initiator has read a datagram with counter c.
Reads(c) ==
    /\ rsp.n # 0
    /\ rsp.n = 1 /\ Busy =>
           /\ c < rsp.tx
           /\ rsp.ok /\ c = rsp.cur.ctr => ini'.pc = "established" /\ ini'.n = 1

\* A step of a waiting initiator that has read the counters in read.
LEMMA FirstInitiator ==
    ASSUME Base, FirstInv, NEW new, InitiatorMoves(new), Waiting(ini.pc),
           NEW read,
           \A x \in new : x.from = "i" /\ (x.ack = 0 \/ x.ack \in read),
           SeenBy(ini'.win) \subseteq SeenBy(ini.win) \cup read,
           \A c \in read : Reads(c)
    PROVE  FirstInv'
  <1>1. /\ rsp' = rsp /\ installed' = installed /\ kind' = kind /\ net' \subseteq net \cup new
    BY DEF InitiatorMoves
  <1>2. ini.pc # "established" /\ SameKind
    BY <1>1, KindStays DEF Waiting
  <1>3. 1 \notin installed
    BY <1>2 DEF FirstInv, FirstAttemptShared
  <1>4. rsp.n = 0 => NotStarted'
    BY <1>1 DEF FirstInv, NotStarted, Reads
  <1>5. ASSUME rsp.n = 1, Busy
        PROVE  FirstAttempt'
    <2>0. \A c \in read : /\ c < rsp.tx
                          /\ rsp.ok /\ c = rsp.cur.ctr
                                 => ini'.pc = "established" /\ ini'.n = 1
      BY <1>5 DEF Reads
    <2>1. FirstAttempt
      BY <1>5 DEF FirstInv
    <2>2. rsp.tx \in Nat /\ rsp.tx >= 1 /\ rsp.cur.ctr >= 1
      BY <1>5 DEF Base, InFlight, Types, ResponderState
    <2>3. \A x \in net' : x.from = "r" => x \in net
      BY <1>1
    <2>4. \A x \in net' : x.from = "i" => x.ack < rsp.tx
      <3>1. \A x \in net : x.from = "i" => x.ack < rsp.tx
        BY <2>1 DEF FirstAttempt
      <3>2. \A x \in new : x.ack < rsp.tx
        BY <2>0, <2>2
      <3> QED
        BY <1>1, <3>1, <3>2
    <2>5. \A c \in SeenBy(ini'.win) : c < rsp.tx
      BY <2>0, <2>1 DEF FirstAttempt
    <2>6. ASSUME rsp.ok, \/ rsp.cur.ctr \in SeenBy(ini'.win)
                         \/ \E x \in net' : x.from = "i" /\ x.ack = rsp.cur.ctr
          PROVE  ini'.pc = "established" /\ ini'.n = 1
      <3>1. /\ rsp.cur.ctr \notin SeenBy(ini.win)
            /\ ~\E x \in net : x.from = "i" /\ x.ack = rsp.cur.ctr
        BY <1>2, <2>1, <2>6 DEF FirstAttempt
      <3>2. rsp.cur.ctr \in read
        BY <1>1, <2>2, <2>6, <3>1
      <3> QED
        BY <2>0, <2>6, <3>2
    <2> QED
      BY <1>1, <1>2, <2>1, <2>3, <2>4, <2>5, <2>6 DEF FirstAttempt, SameKind
  <1> QED
    BY <1>1, <1>3, <1>4, <1>5 DEF FirstInv, FirstAttemptShared, Busy

\* A step of the responder within an attempt that keeps its reply.
LEMMA FirstResponder ==
    ASSUME Base, FirstInv, NEW new, ResponderMoves(new), Busy,
           rsp' \in ResponderState,
           rsp'.n = rsp.n, rsp'.cur = rsp.cur, rsp'.ok = rsp.ok, rsp'.tx >= rsp.tx,
           \A x \in new :
               x.from = "r" /\ (x = rsp.cur \/ (x.ctr = rsp.tx /\ rsp'.tx = rsp.tx + 1)),
           1 \in installed' => 1 \in installed \/ (ini.pc = "established" /\ ini.n = 1)
    PROVE  FirstInv'
  <1>1. ini' = ini /\ kind' = kind /\ net' \subseteq net \cup new
    BY DEF ResponderMoves
  <1>2. SameKind /\ rsp.n >= 1 /\ rsp.n \in Nat
    BY <1>1, KindStays, KindFacts DEF Base, InFlight, Types, ResponderState
  <1>3. FirstAttemptShared'
    BY <1>1 DEF FirstInv, FirstAttemptShared
  <1>4. ASSUME rsp.n = 1
        PROVE  FirstAttempt'
    <2>1. FirstAttempt
      BY <1>4 DEF FirstInv
    <2>2. /\ rsp.tx \in Nat /\ rsp'.tx \in Nat /\ rsp.cur.ctr \in Nat /\ rsp.cur.ctr < rsp.tx
          /\ net \subseteq Datagram
      BY <2>1 DEF Base, Types, ResponderState, Datagram, FirstAttempt
    <2>3. \A x \in net' : x.from = "i" => x \in net
      BY <1>1
    <2>4. \A x \in net' : x.from = "r" => x.ctr < rsp'.tx
      <3> SUFFICES ASSUME NEW x \in net', x.from = "r"
                   PROVE  x.ctr < rsp'.tx
        OBVIOUS
      <3>1. x \in net => x.ctr \in Nat /\ x.ctr < rsp.tx
        BY <2>1, <2>2, DatagramFacts DEF FirstAttempt
      <3> QED
        BY <1>1, <2>2, <3>1
    <2>5. \A x \in net' : x.from = "r" /\ x.ctr = rsp.cur.ctr => x = rsp.cur
      <3> SUFFICES ASSUME NEW x \in net', x.from = "r", x.ctr = rsp.cur.ctr
                   PROVE  x = rsp.cur
        OBVIOUS
      <3>1. x \in net => x = rsp.cur
        BY <2>1 DEF FirstAttempt
      <3> QED
        BY <1>1, <2>2, <3>1
    <2>6. /\ \A x \in net' : x.from = "i" => x.ack < rsp'.tx
          /\ \A c \in SeenBy(ini.win) : c < rsp'.tx
      <3>1. \A x \in net' : x.from = "i" => x.ack \in Nat /\ x.ack < rsp.tx
        BY <2>1, <2>2, <2>3, DatagramFacts DEF FirstAttempt
      <3>2. \A c \in SeenBy(ini.win) : c \in Nat /\ c < rsp.tx
        BY <2>1 DEF FirstAttempt, SeenBy
      <3> QED
        BY <2>2, <3>1, <3>2
    <2>7. rsp'.cur.ctr < rsp'.tx
      BY <2>2
    <2>8. /\ rsp'.ok => rsp'.cur.op = "rsp" /\ rsp'.cur.k = Rounds' /\ rsp'.cur.n = rsp'.n
          /\ rsp'.ok /\ (\/ rsp'.cur.ctr \in SeenBy(ini'.win)
                         \/ \E x \in net' : x.from = "i" /\ x.ack = rsp'.cur.ctr)
                => ini'.pc = "established" /\ ini'.n = 1
      BY <1>1, <1>2, <2>1, <2>3 DEF FirstAttempt, SameKind
    <2> QED
      BY <1>1, <2>4, <2>5, <2>6, <2>7, <2>8 DEF FirstAttempt
  <1> QED
    BY <1>2, <1>3, <1>4 DEF FirstInv

\* A reply of the first attempt has a counter no one has seen yet.
LEMMA FirstReplies ==
    ASSUME Base, FirstInv, NEW m \in net, NEW r, NEW acks, Replies(r, m, acks),
           r.tx \in Nat \ {0}, r.n >= 1,
           \A x \in acks : x.from = "r" /\ x.ctr \in Nat /\ x.ctr < r.tx,
           r.n = 1 => rsp.n = 0 \/ (rsp.n = 1 /\ Busy /\ rsp.tx <= r.tx)
    PROVE  FirstInv'
  <1>1. /\ ini' = ini /\ kind' = kind /\ net' \subseteq net \cup acks \cup {rsp'.cur}
        /\ installed' = installed /\ rsp'.n = r.n /\ rsp'.tx = r.tx + 1
        /\ rsp'.cur.ctr = r.tx /\ rsp'.cur.from = "r" /\ rsp'.cur.n = r.n
        /\ rsp'.ok => rsp'.cur.op = "rsp" /\ rsp'.cur.k = m.k /\ m.k = Rounds
    BY DEF Replies, ResponderMoves
  <1>2. SameKind
    BY <1>1, KindStays
  <1>3. FirstAttemptShared'
    BY <1>1 DEF FirstInv, FirstAttemptShared
  <1>4. ASSUME r.n = 1
        PROVE  FirstAttempt'
    <2>1. /\ \A x \in net : x.from = "r" => x.ctr < r.tx
          /\ \A x \in net : x.from = "i" => x.ack < r.tx
          /\ \A c \in SeenBy(ini.win) : c < r.tx
      <3>1. CASE rsp.n = 0
        BY <3>1 DEF FirstInv, NotStarted
      <3>2. CASE rsp.n = 1 /\ Busy /\ rsp.tx <= r.tx
        <4>1. FirstAttempt /\ rsp.tx \in Nat /\ net \subseteq Datagram
          BY <3>2 DEF FirstInv, Base, Types, ResponderState
        <4>2. \A c \in SeenBy(ini.win) : c \in Nat
          BY DEF SeenBy
        <4>3. \A x \in net : x.ctr \in Nat /\ x.ack \in Nat
          BY <4>1, DatagramFacts
        <4> QED
          BY <3>2, <4>1, <4>2, <4>3 DEF FirstAttempt
      <3> QED
        BY <1>4, <3>1, <3>2
    <2>2. net \subseteq Datagram /\ (\A x \in net : x.ctr \in Nat /\ x.ack \in Nat)
      BY DatagramFacts DEF Base, Types
    <2>3. \A c \in SeenBy(ini.win) : c \in Nat
      BY DEF SeenBy
    <2>4. \A x \in net' : x.from = "i" => x \in net
      BY <1>1
    <2>5. \A x \in net' : x.from = "r" => x = rsp'.cur \/ (x.ctr \in Nat /\ x.ctr < r.tx)
      BY <1>1, <2>1, <2>2
    <2>6. /\ \A x \in net' : x.from = "r" => x.ctr < rsp'.tx
          /\ \A x \in net' : x.from = "r" /\ x.ctr = rsp'.cur.ctr => x = rsp'.cur
      BY <1>1, <2>5
    <2>7. /\ \A x \in net' : x.from = "i" => x.ack < rsp'.tx /\ x.ack # rsp'.cur.ctr
          /\ \A c \in SeenBy(ini'.win) : c < rsp'.tx /\ c # rsp'.cur.ctr
      BY <1>1, <2>1, <2>2, <2>3, <2>4
    <2>8. rsp'.cur.ctr < rsp'.tx
      BY <1>1
    <2>9. rsp'.ok => rsp'.cur.op = "rsp" /\ rsp'.cur.k = Rounds' /\ rsp'.cur.n = rsp'.n
      BY <1>1, <1>2 DEF SameKind
    <2> QED
      BY <2>6, <2>7, <2>8, <2>9 DEF FirstAttempt
  <1> QED
    BY <1>1, <1>3, <1>4 DEF FirstInv

\* The initiator acknowledges the counter of the last response of the first
\* attempt only if it takes the response.
LEMMA FirstRead ==
    ASSUME Base, FirstInv, NEW m \in net, m.from = "r"
    PROVE  /\ rsp.n # 0
           /\ rsp.n = 1 /\ Busy => /\ m.ctr < rsp.tx
                                   /\ rsp.ok /\ m.ctr = rsp.cur.ctr => m = rsp.cur
           /\ rsp.n = 1 /\ Busy /\ rsp.ok => rsp.cur.op = "rsp" /\ rsp.cur.k = Rounds /\ rsp.cur.n = 1
  BY DEF FirstInv, NotStarted, FirstAttempt

LEMMA InitiatorSees ==
    ASSUME Base, NEW m \in net, Fresh(ini.win, m.ctr)
    PROVE  SeenBy(Commit(ini.win, m.ctr)) \subseteq SeenBy(ini.win) \cup {m.ctr}
  <1>1. ini.win \in RxWindow /\ m.ctr \in Nat
    BY DEF Base, Types, InitiatorState, Datagram
  <1> QED
    BY <1>1, CommitSeen

LEMMA FirstStep ==
    ASSUME Base, FirstInv, FirstInWindow, [Next]_vars
    PROVE  FirstInv'
  <1>0. Types
    BY DEF Base
  <1>1. ASSUME NEW m \in net, InitiatorDuplicate(m)
        PROVE  FirstInv'
    <2>1. /\ InitiatorMoves(Acks(ini, "i", m)) /\ m \in Datagram /\ Waiting(ini.pc)
          /\ ini'.win = ini.win /\ m.from = "r" /\ ~Fresh(ini.win, m.ctr)
      BY <1>0, <1>1, DoesInitiatorDuplicate
    <2>2. \A x \in Acks(ini, "i", m) : x.from = "i" /\ x.ack = m.ctr
      BY <1>0, <2>1, InitiatorAfterAck DEF AckOf
    <2>3. m.ctr \in Nat /\ ini.win \in RxWindow
      BY <2>1, DatagramFacts DEF Base, Types, InitiatorState
    <2>4. ASSUME rsp.n = 1, Busy, rsp.ok
          PROVE  m.ctr # rsp.cur.ctr
      <3>1. ini.win.max - m.ctr <= Width
        BY <2>1, <2>4 DEF FirstInWindow
      <3>2. m.ctr \in SeenBy(ini.win)
        BY <2>1, <2>3, <3>1, StaleSeen
      <3>3. ini.pc # "established"
        BY <2>1 DEF Waiting
      <3> QED
        BY <2>4, <3>2, <3>3 DEF FirstInv, FirstAttempt
    <2>5. SeenBy(ini'.win) \subseteq SeenBy(ini.win) \cup {m.ctr}
      BY <2>1
    <2>6. Reads(m.ctr)
      BY <2>1, <2>4, FirstRead DEF Reads
    <2> QED
      BY <2>1, <2>2, <2>5, <2>6, FirstInitiator
  <1>2. ASSUME NEW m \in net, InitiatorAcked(m)
        PROVE  FirstInv'
    <2>1. /\ InitiatorMoves({}) /\ m \in Datagram /\ Waiting(ini.pc) /\ m.from = "r" /\ IsAck(m)
          /\ ini'.win = Commit(ini.win, m.ctr) /\ Fresh(ini.win, m.ctr)
      BY <1>0, <1>2, DoesInitiatorAcked
    <2>2. SeenBy(ini'.win) \subseteq SeenBy(ini.win) \cup {m.ctr}
      BY <2>1, InitiatorSees
    <2>3. Reads(m.ctr)
      BY <2>1, FirstRead DEF IsAck, Reads
    <2> DEFINE none == {}
    <2>4. /\ InitiatorMoves(none)
          /\ \A x \in none : x.from = "i" /\ (x.ack = 0 \/ x.ack \in {m.ctr})
          /\ \A c \in {m.ctr} : Reads(c)
      BY <2>1, <2>3
    <2> HIDE DEF none
    <2> QED
      BY <2>1, <2>2, <2>4, FirstInitiator
  <1>3. ASSUME NEW m \in net, InitiatorResponse(m)
        PROVE  FirstInv'
    <2>1. /\ m \in Datagram /\ m.from = "r" /\ Waiting(ini.pc) /\ Fresh(ini.win, m.ctr)
      BY <1>0, <1>3, DoesInitiatorResponse
    <2>2. \A x \in Acks(ini, "i", m) : x.from = "i" /\ x.ack = m.ctr
      BY <1>0, <2>1, InitiatorAfterAck DEF AckOf
    <2>3. rsp.n # 0 /\ (rsp.n = 1 /\ Busy => m.ctr < rsp.tx)
      BY <2>1, FirstRead
    <2>4. ASSUME ini'.win = Commit(ini.win, m.ctr)
          PROVE  SeenBy(ini'.win) \subseteq SeenBy(ini.win) \cup {m.ctr}
      BY <2>1, <2>4, InitiatorSees
    <2>5. ASSUME rsp.n = 1, Busy, rsp.ok, m.ctr = rsp.cur.ctr
          PROVE  Acceptable(m) /\ m.k = Rounds /\ ini.n = 1
      <3>1. m = rsp.cur /\ m.op = "rsp" /\ m.k = Rounds /\ m.n = 1
        BY <2>1, <2>5, FirstRead
      <3>2. ini.k = Rounds /\ m.n = ini.n /\ m.ack = ini.cur.ctr
        BY <2>1, <3>1 DEF Base, InFlight, FromResponder
      <3> QED
        BY <3>1, <3>2 DEF Acceptable, NotAcked
    <2>6. m.k \in 0 .. Rounds /\ Rounds \in Nat
      BY <1>0, <2>1, DatagramFacts, KindFacts
    <2>7. ASSUME ~Acceptable(m) \/ m.k < Rounds, NEW x, x.from = "i", x.ack = 0,
                 ini'.win = Commit(ini.win, m.ctr), InitiatorMoves(Acks(ini, "i", m) \cup {x})
          PROVE  FirstInv'
      <3>1. Reads(m.ctr)
        BY <2>3, <2>5, <2>6, <2>7 DEF Reads
      <3>2. \A y \in Acks(ini, "i", m) \cup {x} : y.from = "i" /\ (y.ack = 0 \/ y.ack \in {m.ctr})
        BY <2>2, <2>7
      <3> QED
        BY <2>1, <2>4, <2>7, <3>1, <3>2, FirstInitiator
    <2>8. ASSUME Ends(m, "established"), InitiatorMoves(Acks(ini, "i", m))
          PROVE  FirstInv'
      <3>1. ini'.pc = "established" /\ ini'.n = ini.n /\ ini'.win = Commit(ini.win, m.ctr)
        BY <2>8 DEF Ends
      <3>2. Reads(m.ctr)
        BY <2>3, <2>5, <3>1 DEF Reads
      <3> QED
        BY <2>1, <2>2, <2>4, <2>8, <3>1, <3>2, FirstInitiator
    <2> QED
      BY <1>0, <1>3, <2>7, <2>8, DoesInitiatorResponse DEF Ends, Proceeds, Abort
  <1>4. ASSUME InitiatorRetransmit \/ InitiatorTimeout
        PROVE  FirstInv'
    <2>1. /\ InitiatorMoves({ini.cur}) /\ ini'.win = ini.win /\ Waiting(ini.pc)
          /\ ini.cur.from = "i" /\ ini.cur.ack = 0
      BY <1>0, <1>4, DoesInitiatorTimers DEF Base, InFlight
    <2> DEFINE none == {}
    <2>2. /\ \A x \in {ini.cur} : x.from = "i" /\ (x.ack = 0 \/ x.ack \in none)
          /\ SeenBy(ini'.win) \subseteq SeenBy(ini.win) \cup none
          /\ \A c \in none : Reads(c)
      BY <2>1
    <2> HIDE DEF none
    <2> QED
      BY <2>1, <2>2, FirstInitiator
  <1>5. ASSUME NEW m \in net, NEW start \in TxStarts, ResponderAdopt(m, start)
        PROVE  FirstInv'
    <2>1. PICK r : /\ r.n = rsp.n + 1 /\ r.tx = start /\ Replies(r, m, {})
                   /\ start \in Nat \ {0}
      BY <1>0, <1>5, DoesResponderAdopt
    <2>2. r.n >= 1 /\ (r.n = 1 => rsp.n = 0)
      BY <1>0, <2>1, KindFacts DEF Types, ResponderState
    <2> QED
      BY <2>1, <2>2, FirstReplies
  <1>6. ASSUME NEW m \in net, ResponderDuplicate(m)
        PROVE  FirstInv'
    <2>1. /\ ResponderMoves(Acks(rsp, "r", m)) /\ Busy /\ m \in Datagram
          /\ rsp' \in ResponderState /\ rsp'.n = rsp.n /\ rsp'.cur = rsp.cur /\ rsp'.ok = rsp.ok
          /\ rsp'.tx = AfterAck(rsp, m) /\ installed' = installed
      BY <1>0, <1>6, DoesResponderDuplicate
    <2>2. /\ rsp'.tx >= rsp.tx
          /\ \A x \in Acks(rsp, "r", m) :
                x.from = "r" /\ x.ctr = rsp.tx /\ rsp'.tx = rsp.tx + 1
      BY <1>0, <2>1, ResponderAfterAck DEF AckOf
    <2> QED
      BY <2>1, <2>2, FirstResponder
  <1>7. ASSUME NEW m \in net, ResponderRequest(m)
        PROVE  FirstInv'
    <2>1. m \in Datagram /\ Busy
      BY <1>0, <1>7, DoesResponderRequest DEF Busy
    <2>2. PICK r : /\ r.n = rsp.n /\ r.tx = AfterAck(rsp, m)
                   /\ Replies(r, m, Acks(rsp, "r", m))
      BY <1>0, <1>7, DoesResponderRequest
    <2>3. /\ r.tx \in Nat /\ rsp.tx \in Nat /\ r.tx >= rsp.tx /\ rsp.tx >= 1 /\ r.n >= 1
          /\ \A x \in Acks(rsp, "r", m) : x.from = "r" /\ x.ctr = rsp.tx /\ r.tx = rsp.tx + 1
      BY <1>0, <2>1, <2>2, ResponderAfterAck DEF AckOf, Base, InFlight
    <2>4. /\ r.tx \in Nat \ {0} /\ (r.n = 1 => rsp.n = 1 /\ Busy /\ rsp.tx <= r.tx)
          /\ \A x \in Acks(rsp, "r", m) : x.from = "r" /\ x.ctr \in Nat /\ x.ctr < r.tx
      BY <2>1, <2>2, <2>3
    <2> QED
      BY <2>2, <2>3, <2>4, FirstReplies
  <1>8. ASSUME NEW m \in net, ResponderAcked(m)
        PROVE  FirstInv'
    <2>1. /\ ResponderMoves({}) /\ Busy /\ m \in Datagram
          /\ rsp' \in ResponderState /\ rsp'.n = rsp.n /\ rsp'.cur = rsp.cur /\ rsp'.ok = rsp.ok
          /\ rsp'.tx = AfterAck(rsp, m) /\ installed' = installed
      BY <1>0, <1>8, DoesResponderAcked DEF Busy
    <2>2. rsp'.tx >= rsp.tx
      BY <1>0, <2>1, ResponderAfterAck
    <2> QED
      BY <2>1, <2>2, FirstResponder
  <1>9. ASSUME NEW m \in net, ResponderFinal(m)
        PROVE  FirstInv'
    <2>1. /\ ResponderMoves(Acks(rsp, "r", m)) /\ Busy /\ m \in Datagram /\ m.from = "i"
          /\ rsp' \in ResponderState /\ rsp'.n = rsp.n /\ rsp'.cur = rsp.cur /\ rsp'.ok = rsp.ok
          /\ rsp'.tx = AfterAck(rsp, m)
          /\ \/ /\ m.ack = rsp.cur.ctr
                /\ installed' = installed \cup (IF rsp.ok THEN {rsp.n} ELSE {})
             \/ installed' = installed
      BY <1>0, <1>9, DoesResponderFinal DEF Busy
    <2>2. /\ rsp'.tx >= rsp.tx
          /\ \A x \in Acks(rsp, "r", m) :
                x.from = "r" /\ x.ctr = rsp.tx /\ rsp'.tx = rsp.tx + 1
      BY <1>0, <2>1, ResponderAfterAck DEF AckOf
    <2>3. 1 \in installed' => 1 \in installed \/ (ini.pc = "established" /\ ini.n = 1)
      <3> SUFFICES ASSUME rsp.ok, rsp.n = 1, m.ack = rsp.cur.ctr
                   PROVE  ini.pc = "established" /\ ini.n = 1
        BY <2>1
      <3>1. FirstAttempt
        BY <2>1 DEF FirstInv
      <3> QED
        BY <2>1, <3>1 DEF FirstAttempt
    <2> QED
      BY <2>1, <2>2, <2>3, FirstResponder
  <1>10. ASSUME ResponderTimers
         PROVE  FirstInv'
    <2>1. /\ ResponderMoves({rsp.cur}) /\ Busy
          /\ rsp' \in ResponderState /\ rsp'.n = rsp.n /\ rsp'.cur = rsp.cur /\ rsp'.ok = rsp.ok
          /\ rsp'.tx = rsp.tx /\ installed' = installed
      BY <1>0, <1>10, DoesResponderTimers
    <2>2. rsp.cur.from = "r" /\ rsp'.tx >= rsp.tx
      BY <2>1 DEF Base, InFlight, Types, ResponderState
    <2> QED
      BY <2>1, <2>2, FirstResponder
  <1>11. CASE UNCHANGED vars
    <2>1. SameKind
      BY <1>11, KindStays DEF vars
    <2> QED
      BY <1>11, <2>1 DEF vars, FirstInv, NotStarted, FirstAttempt, FirstAttemptShared, Busy, SameKind
  <1> QED
    BY <1>1, <1>2, <1>3, <1>4, <1>5, <1>6, <1>7, <1>8, <1>9, <1>10, <1>11
       DEF Next, Initiator, Responder

LEMMA FirstInit == Init => FirstInv
  <1> SUFFICES ASSUME Init PROVE FirstInv
    OBVIOUS
  <1> DEFINE first == Build("i", 1, 0, "req", 1, 0)
  <1>1. /\ ini.win = NewWindow /\ rsp.pc = "idle" /\ net = {first} /\ installed = {}
    BY DEF Init
  <1>2. first.from = "i" /\ first.ack = 0
    BY DEF Build
  <1> HIDE DEF first
  <1> QED
    BY <1>1, <1>2, NewWindowSeen DEF FirstInv, NotStarted, FirstAttemptShared, Busy

\* The session of the attempt that opened the exchange is installed only when the
\* controller has it too, in every behaviour in which no datagram of the first
\* attempt reaches the initiator when its counter has already left the window.
THEOREM FirstAttemptSharedProved ==
    Spec /\ []FirstInWindow => []FirstAttemptShared
  <1>1. Init => Base /\ FirstInv
    BY BaseInit, FirstInit
  <1>2. Base /\ FirstInv /\ FirstInWindow /\ [Next]_vars => (Base /\ FirstInv)'
    BY BaseStep, FirstStep
  <1>3. FirstInv => FirstAttemptShared
    BY DEF FirstInv
  <1> QED
    BY <1>1, <1>2, <1>3, PTL DEF Spec
=============================================================================
