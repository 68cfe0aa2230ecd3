----------------------------- MODULE Groupcast ------------------------------
(***************************************************************************)
(* Groupcast: the persisted group counter of the controller                *)
(* (mat-controller/src/group.rs, mat-native/src/group.rs) against the      *)
(* replay guard of a device (mat-device/src/net/group_rx.rs).              *)
(*                                                                         *)
(* Several processes (matd and one-shot commands) share one counter file,  *)
(* under a lock held for as long as a process has a sender.  The file      *)
(* holds a ceiling; a process starts one epoch past the larger of the file *)
(* and chip-tool's counter and persists a new ceiling before it uses any   *)
(* value below it.  A datagram goes out once per egress, with the same     *)
(* counter, and is never retransmitted; a device applies it unless its     *)
(* replay guard knows the counter.  Counters are u32 and wrap; the guard   *)
(* compares them in a half-range sense.                                    *)
(*                                                                         *)
(* Keys, group mapping and membership decide whether a datagram reaches    *)
(* the guard at all and are left out, and so is the table of up to 64      *)
(* sources: the guard is the entry of this controller, and an eviction by  *)
(* other sources looks like a restart of the device.                       *)
(***************************************************************************)
EXTENDS ReplayWindow, FiniteSets

CONSTANTS
    Procs,      \* processes that may hold a sender
    Egress,     \* interfaces a datagram is sent on
    Epoch,      \* COUNTER_EPOCH
    Modulus,    \* 2^32 in the code
    Gdc,        \* chip-tool's g/gdc, which mat only reads
    Files,      \* ceilings the counter file may hold at the start
    None,
    MaxOps,     \* bound: loads, jumps and counters handed out
    PowerCuts   \* bound: losses of power

ASSUME GroupcastAssumption ==
    /\ Epoch \in Nat \ {0} /\ Modulus \in Nat /\ Gdc \in Nat
    /\ MaxOps \in Nat /\ PowerCuts \in Nat
    /\ Files \subseteq 0 .. Modulus - 1
    /\ 2 * Epoch * MaxOps + Gdc + Width < Modulus \div 2

VARIABLES
    file,      \* the ceiling in the counter file
    disk,      \* the ceiling a loss of power leaves
    sender,    \* sender[p]: None, or the PersistedGroupCounter of p's GroupSender
    last,      \* history: the counter handed out last, or None
    ops,       \* loads, jumps and counters handed out so far
    cuts,      \* losses of power so far
    torn,      \* history: a loss of power undid more than one epoch
    net,       \* datagrams in flight: <<counter, egress>>
    guard,     \* the device's replay window for this controller, or None
    applied    \* history: counters accepted since the window was last emptied

vars == <<file, disk, sender, last, ops, cuts, torn, net, guard, applied>>

Counter == 0 .. Modulus - 1
Guard == [max : Counter, window : SUBSET (0 .. Width - 1)]

ASSUME NoneIsNothing == None \notin Counter /\ None \notin Guard

\* wrapping_add, and how far c is ahead of d.
Plus(c, n) == (c + n) % Modulus
AheadOf(c, d) == (c - d) % Modulus
IsNewer(c, d) == c # d /\ AheadOf(c, d) < Modulus \div 2

Larger(c, d) == IF c > d THEN c ELSE d

Init ==
    /\ file \in Files /\ disk = file
    /\ sender = [p \in Procs |-> None]
    /\ last = None /\ ops = 0 /\ cuts = 0 /\ torn = FALSE
    /\ net = {} /\ guard = None /\ applied = {}
-----------------------------------------------------------------------------
(* The counter *)

device == <<guard, applied>>
power == <<cuts, torn>>

\* take_lock: the lock lives as long as the counter of a process.
Locked(p) == \E q \in Procs \ {p} : sender[q] # None

\* persist, which may fail and then leaves the old ceiling.
Persist(c) == file' = c /\ disk' = disk

\* Mutant: the start is not moved past the file.
LoadAtCeiling(p) ==
    /\ sender[p] = None /\ ops < MaxOps /\ ~Locked(p)
    /\ LET start == Larger(file, Gdc)
       IN  /\ Persist(Plus(start, Epoch))
           /\ sender' = [sender EXCEPT ![p] = [next |-> start, ceiling |-> Plus(start, Epoch)]]
    /\ ops' = ops + 1
    /\ UNCHANGED <<last, power, net, device>>

\* load: one epoch past what the file and g/gdc say, ceiling persisted first.
Load(p) ==
    /\ sender[p] = None /\ ops < MaxOps /\ ~Locked(p)
    /\ LET start == Plus(Larger(file, Gdc), Epoch)
       IN  /\ Persist(Plus(start, Epoch))
           /\ sender' = [sender EXCEPT ![p] = [next |-> start, ceiling |-> Plus(start, Epoch)]]
    /\ ops' = ops + 1
    /\ UNCHANGED <<last, power, net, device>>

\* next: at the ceiling the next epoch is persisted first.
CeilingFor(s) == IF s.next = s.ceiling THEN Plus(s.ceiling, Epoch) ELSE s.ceiling

\* send_invoke: one counter, one datagram on each egress that works, perhaps on
\* none; the counter is used up.  If next cannot persist, nothing changes.
Send(p, up) ==
    /\ sender[p] # None /\ ops < MaxOps
    /\ LET s == sender[p]
       IN  /\ IF CeilingFor(s) # s.ceiling THEN Persist(CeilingFor(s)) ELSE UNCHANGED <<file, disk>>
           /\ sender' = [sender EXCEPT ![p] = [next |-> Plus(s.next, 1), ceiling |-> CeilingFor(s)]]
           /\ last' = s.next /\ ops' = ops + 1
           /\ net' = net \cup {<<s.next, e>> : e \in up}
    /\ UNCHANGED <<power, device>>

\* jump (mat group bump): one restart's worth forward, persisted first.
Jump(p) ==
    /\ sender[p] # None /\ ops < MaxOps
    /\ LET to == Plus(sender[p].ceiling, Epoch)
       IN  /\ Persist(Plus(to, Epoch))
           /\ sender' = [sender EXCEPT ![p] = [next |-> to, ceiling |-> Plus(to, Epoch)]]
    /\ ops' = ops + 1
    /\ UNCHANGED <<last, power, net, device>>

\* The process ends or dies: the lock goes with it.
Exit(p) ==
    /\ sender[p] # None
    /\ sender' = [sender EXCEPT ![p] = None]
    /\ UNCHANGED <<file, disk, last, ops, power, net, device>>

\* The file system commits the rename some time later; atomic_replace syncs the
\* file but not its directory.
Commits ==
    /\ disk # file
    /\ disk' = file
    /\ UNCHANGED <<file, sender, last, ops, power, net, device>>

PowerCut ==
    /\ cuts < PowerCuts
    /\ cuts' = cuts + 1
    /\ torn' = (torn \/ AheadOf(file, disk) > Epoch)
    /\ file' = disk
    /\ sender' = [p \in Procs |-> None]
    /\ UNCHANGED <<disk, last, ops, net, device>>
-----------------------------------------------------------------------------
(* The device *)

\* Mutant: compared as plain numbers.
AcceptsAsNumbers(c) ==
    \/ guard = None
    \/ c > guard.max
    \/ /\ guard.max - c \in 1 .. Width
       /\ guard.max - c - 1 \notin guard.window

\* What ReplayWindow::accept answers.
Accepts(c) ==
    \/ guard = None
    \/ IsNewer(c, guard.max)
    \/ /\ AheadOf(guard.max, c) \in 1 .. Width
       /\ AheadOf(guard.max, c) - 1 \notin guard.window

\* Mutant: the bitmap is not shifted.
AcceptNoShift(c) ==
    LET ahead == AheadOf(c, guard.max)
    IN  [max |-> c, window |-> IF ahead >= Width THEN {} ELSE guard.window \cup {ahead - 1}]

\* A newer counter shifts the window; a jump of Width or more empties it.
Advance(c) ==
    LET ahead == AheadOf(c, guard.max)
    IN  [max |-> c, window |-> Shift(guard.window, ahead)]

\* classify_group_datagram: unknown source, newer counter, or late one.
Receive(d) ==
    LET c == d[1]
    IN  /\ d \in net
        /\ net' = net \ {d}
        /\ \/ /\ guard = None
              /\ guard' = [max |-> c, window |-> {}] /\ applied' = {c}
           \/ /\ guard # None /\ IsNewer(c, guard.max)
              /\ guard' = Advance(c)
              /\ applied' = {c} \cup (IF AheadOf(c, guard.max) >= Width THEN {} ELSE applied)
           \/ /\ guard # None /\ ~IsNewer(c, guard.max) /\ Accepts(c)
              /\ guard' = [guard EXCEPT !.window = @ \cup {AheadOf(guard.max, c) - 1}]
              /\ applied' = applied \cup {c}
           \/ ~Accepts(c) /\ UNCHANGED device
        /\ UNCHANGED <<file, disk, sender, last, ops, power>>

\* The device restarts, or its table evicts this source.
Forget ==
    /\ guard # None
    /\ guard' = None /\ applied' = {}
    /\ UNCHANGED <<file, disk, sender, last, ops, power, net>>
-----------------------------------------------------------------------------
Next ==
    \/ \E p \in Procs : Load(p) \/ Jump(p) \/ Exit(p) \/ \E up \in SUBSET Egress : Send(p, up)
    \/ Commits
    \/ PowerCut
    \/ \E d \in net : Receive(d)
    \/ Forget

Spec == Init /\ [][Next]_vars
-----------------------------------------------------------------------------
\* Counters are u32, and a sender never runs past what it persisted.
TypeOK ==
    /\ {file, disk} \subseteq Counter
    /\ \A p \in Procs : sender[p] # None =>
          AheadOf(sender[p].ceiling, sender[p].next) \in 0 .. Epoch
    /\ last \in Counter \cup {None} /\ torn \in BOOLEAN
    /\ net \subseteq Counter \X Egress
    /\ guard # None => guard \in Guard

HandsOut == \E p \in Procs, up \in SUBSET Egress : Send(p, up)

\* "it persists ahead of use ... and boot-jumps past both its own file and
\* chip-tool's g/gdc" (group.rs): whoever sends next, after whatever exits, jumps
\* and wraps, uses a counter that is newer than the last one.  load skips an
\* epoch, so this survives a loss of power that undoes one extension of the
\* ceiling, but not one that undoes a load or a bump.
CounterAlwaysNewer ==
    [][HandsOut /\ last # None /\ ~torn => IsNewer(last', last)]_vars

\* A device never takes the newest command of the controller for a replay,
\* whatever arrived before, across restarts, bumps, the wrap and a loss of power
\* that undoes one epoch.
NewestIsAccepted ==
    last # None /\ ~torn /\ last \notin applied => Accepts(last)

\* With the types of the counter file, its users and the replay guard.
GuardSound == TypeOK /\ NewestIsAccepted

\* Every egress carries the same datagram; while the window remembers it, it is
\* applied once.
AppliedOnce ==
    \A c \in applied : ~Accepts(c)

\* The claim quoted at CounterAlwaysNewer, when the crash is a loss of power.
CrashNeverReuses ==
    [][HandsOut /\ last # None => IsNewer(last', last)]_vars
=============================================================================
