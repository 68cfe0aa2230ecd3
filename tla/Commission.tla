---------------------------- MODULE Commission ----------------------------
(***************************************************************************)
(* `mat commission' and `mat unpair' from the ledger they read at their    *)
(* start to the ledger they replace at their end, over the routes a        *)
(* commission plans and the steps of each, against devices that keep one   *)
(* session, one fail-safe and a fabric table.                              *)
(*                                                                         *)
(* A command has a serial number; the credentials AddNOC installs are      *)
(* named by the commission that sent them and idOf gives the node id in    *)
(* them.  Every step that asks the device for something may be refused,    *)
(* may not arrive, or may be carried out and its answer lost.  Whether a   *)
(* device has its window open is not tracked: PASE may be refused.         *)
(* Commands are without --alias, in a store without aliases.toml.          *)
(***************************************************************************)
EXTENDS NodeLedger, Sequences, FiniteSets

CONSTANTS
    Procs,        \* processes that run commands
    Devices,
    None,
    ExplicitIds,  \* ids given with --node
    MaxCommands,  \* bound on commands started
    MaxRacing,    \* commands after these start when no other runs
    MaxCrashes    \* bound on processes that die in a command

ASSUME ExplicitAssumption == ExplicitIds \subseteq Ids
ASSUME BoundsNat == MaxCommands \in Nat /\ MaxRacing \in Nat /\ MaxCrashes \in Nat

Legacy == 0                     \* credentials from before the first command
Serials == 0..MaxCommands

\* A session: the commission it is for, and the entry it was set up with.
Sessions == [c : Serials, entry : Serials \cup {None}]

ASSUME NoneIsNothing == None \notin Serials /\ None \notin Sessions

VARIABLES
    pc,          \* where a process is in its command
    kind,        \* "commission", "unpair" or "forced" (unpair --force)
    id, auto,    \* node id of the command; it was handed out
    snap,        \* the ledger as the command read it
    fd,          \* the inode the command writes to
    flow,        \* serial, device, steps to do on this route, routes left
    dev,         \* devices
    count, crashes,
    idOf,        \* history: node id in the credentials of a commission
    overlapped,  \* history: two commands have run at the same time
    issued,      \* history: ids that were ever in the ledger
    recorded,    \* history: ids commissions recorded and no unpair took out
    confirmed,   \* history: ids a CommissioningComplete confirmed
    halved       \* history: ids a device gave up in an unpair that then failed

cmdVars == <<pc, kind, id, auto, snap, fd, flow>>
history == <<idOf, overlapped, issued, recorded, confirmed, halved>>
vars == <<fileVars, cmdVars, dev, count, crashes, history>>

Running(p) == pc[p] # "idle"

NoFlow == [c |-> Legacy, d |-> None, todo |-> <<>>, plan |-> <<>>]

-----------------------------------------------------------------------------
(* Devices: an abstraction of DeviceCommissioning.                         *)

NewDevice(entries) ==
    [entries |-> entries, unconf |-> None, fs |-> "off", by |-> None, sess |-> None]

\* rollback_uncommitted_fabric
RolledBack(d) == [d EXCEPT !.entries = @ \ {d.unconf}, !.unconf = None]

Armed(d, c) ==
    [(IF d.fs = "live" THEN d ELSE RolledBack(d)) EXCEPT !.fs = "live", !.by = c]

Installed(d, c) == [d EXCEPT !.entries = @ \cup {c}, !.unconf = c]

Completed(d) == [d EXCEPT !.fs = "off", !.by = None, !.unconf = None]

Carrying(d, n) == {c \in dev[d].entries : idOf[c] = n}

\* Which of several entries with the id a CASE finds is left open: it is the
\* first in the device's table, in the order AddNOC put them there.
WithoutFabric(d, e) == [dev[d] EXCEPT !.entries = @ \ {e}, !.sess = None]

-----------------------------------------------------------------------------
(* Commands.                                                               *)

\* Stores: none yet, or one from before the high-water mark with a node.
Init ==
    /\ content \in [Inodes -> {Blank, [nodes |-> {1}, next |-> 0]}]
    /\ disk \in Inodes \cup {NoFile} /\ tmp = NoFile
    /\ \A i \in Inodes : content[i] # Blank <=> i = disk
    /\ pc = [p \in Procs |-> "idle"] /\ kind = [p \in Procs |-> "commission"]
    /\ id = [p \in Procs |-> 0] /\ auto = [p \in Procs |-> FALSE]
    /\ snap = [p \in Procs |-> EmptyLedger] /\ fd = [p \in Procs |-> NoFile]
    /\ flow = [p \in Procs |-> NoFlow]
    /\ \E owner \in Devices :
         dev = [d \in Devices |->
                  NewDevice(IF disk # NoFile /\ d = owner THEN {Legacy} ELSE {})]
    /\ count = 0 /\ crashes = 0
    /\ idOf = [c \in Serials |-> IF c = Legacy THEN 1 ELSE 0]
    /\ overlapped = FALSE
    /\ issued = LoadLedger.nodes /\ recorded = issued /\ confirmed = issued
    /\ halved = {}

Goto(p, l) == pc' = [pc EXCEPT ![p] = l]

Ends(p) ==
    /\ Goto(p, "idle")
    /\ kind' = [kind EXCEPT ![p] = "commission"]
    /\ id' = [id EXCEPT ![p] = 0] /\ auto' = [auto EXCEPT ![p] = FALSE]
    /\ snap' = [snap EXCEPT ![p] = EmptyLedger] /\ fd' = [fd EXCEPT ![p] = NoFile]
    /\ flow' = [flow EXCEPT ![p] = NoFlow]

Starts(p, k, n, a, d) ==
    /\ ~Running(p) /\ count < MaxCommands
    /\ count < MaxRacing \/ \A q \in Procs : ~Running(q)
    /\ count' = count + 1
    /\ kind' = [kind EXCEPT ![p] = k]
    /\ id' = [id EXCEPT ![p] = n] /\ auto' = [auto EXCEPT ![p] = a]
    /\ snap' = [snap EXCEPT ![p] = LoadLedger]
    /\ flow' = [flow EXCEPT ![p] = [NoFlow EXCEPT !.c = count', !.d = d]]
    /\ idOf' = [idOf EXCEPT ![count'] = IF k = "commission" THEN n ELSE 0]
    /\ overlapped' = (overlapped \/ \E q \in Procs : Running(q))
    /\ UNCHANGED <<fileVars, fd, dev, crashes, issued, recorded, confirmed, halved>>

\* The id is settled here and enters the ledger with the success.
StartCommission(p, d) ==
    /\ Readable
    /\ \/ NextNodeId(LoadLedger) \in Ids /\ Starts(p, "commission", NextNodeId(LoadLedger), TRUE, d)
       \/ \E n \in ExplicitIds : Starts(p, "commission", n, FALSE, d)
    /\ Goto(p, "discover")

\* require_node
StartUnpair(p, n) ==
    /\ Readable /\ n \in LoadLedger.nodes
    /\ \E k \in {"unpair", "forced"} : Starts(p, k, n, FALSE, None)
    /\ Goto(p, "remove")

-----------------------------------------------------------------------------
(* A commission: discovery, the plan and the steps of a route.             *)

Transports == {"auto", "onnetwork", "ble"}

\* The QR code carries the discriminator BLE needs; the manual code does not
\* and resolves to an address during discovery.  A BLE route that cannot run (no
\* dataset, no BLE in the build) ends the command: no route.
PlanRoutes(code, transport, found, ble) ==
    IF transport = "ble" \/ (~found /\ transport = "auto")
    THEN IF code = "qr" /\ ble THEN <<"ble">> ELSE <<>>
    ELSE IF ~found THEN <<>>
    ELSE IF code = "manual" THEN <<"addr">>
    ELSE IF transport = "auto" /\ ble THEN <<"net", "ble">> ELSE <<"net">>

\* "attest" stands for SetRegulatoryConfig, whose failure is only logged, and the
\* requests from the attestation to AddTrustedRootCertificate, "dataset" for
\* AddOrUpdateThreadNetwork, "join" for ConnectNetwork.  "case" and "find" are
\* tried several times: they fail when the last try has.
Credential == <<"pase", "arm", "attest", "noc">>
Operational == <<"case", "complete">>

OnNetwork == Credential \o Operational
BleThread == Credential \o <<"dataset", "rearm", "join", "find">> \o Operational

StepsOf(r) ==
    CASE r = "net"  -> <<"resolve">> \o OnNetwork
      [] r = "addr" -> OnNetwork
      [] r = "ble"  -> <<"scan">> \o BleThread

Discover(p) ==
    /\ pc[p] = "discover"
    /\ \E code \in {"qr", "manual"}, t \in Transports, found, ble \in BOOLEAN :
         LET plan == PlanRoutes(code, t, found, ble) IN
         /\ plan # <<>>
         /\ flow' = [flow EXCEPT ![p].todo = StepsOf(Head(plan)), ![p].plan = Tail(plan)]
    /\ Goto(p, "route")
    /\ UNCHANGED <<fileVars, kind, id, auto, snap, fd, dev, count, crashes, history>>

At(p, s) == pc[p] = "route" /\ Head(flow[p].todo) = s

Advance(p) == [flow EXCEPT ![p].todo = Tail(@)]
Proceeds(p) ==
    /\ flow' = Advance(p)
    /\ UNCHANGED <<fileVars, pc, kind, id, auto, snap, fd, count, crashes>>

HasSession(p) ==
    LET s == dev[flow[p].d].sess IN
    s # None /\ s.c = flow[p].c /\ s.entry \in dev[flow[p].d].entries \cup {None}

\* What a request does to the device of the command, if it is carried out; e is
\* the entry a session is for.
Effect(p, s, e) ==
    LET d == dev[flow[p].d]
        c == flow[p].c
    IN  CASE s \in {"pase", "case"} -> [d EXCEPT !.sess = [c |-> c, entry |-> e]]
          [] s \in {"arm", "rearm"} -> Armed(d, c)
          [] s = "noc" -> Installed(d, c)
          [] s = "complete" -> Completed(d)
          [] OTHER -> d

CarriedOut(p, s) ==
    /\ s \notin {"pase", "case"} => HasSession(p)
    /\ s \in {"attest", "noc"} => dev[flow[p].d].fs = "live"
    /\ \E e \in IF s = "case" THEN Carrying(flow[p].d, id[p]) ELSE {None} :
         dev' = [dev EXCEPT ![flow[p].d] = Effect(p, s, e)]
    /\ confirmed' = IF s = "complete" THEN confirmed \cup {id[p]} ELSE confirmed
    /\ UNCHANGED <<idOf, overlapped, issued, recorded, halved>>

Requests == {"pase", "arm", "attest", "noc", "dataset", "rearm", "join", "case"}

Ask(p) ==
    /\ \E s \in Requests : At(p, s) /\ CarriedOut(p, s)
    /\ Proceeds(p)

\* The device is found over mDNS, by its discriminator.
Resolve(p) ==
    /\ At(p, "resolve")
    /\ Proceeds(p) /\ UNCHANGED <<dev, history>>

\* The device is found over BLE.
Scan(p) ==
    /\ At(p, "scan")
    /\ Proceeds(p) /\ UNCHANGED <<dev, history>>

\* After the Thread join any device that advertises the node id answers.
Find(p) ==
    /\ At(p, "find")
    /\ \E d \in {e \in Devices : Carrying(e, id[p]) # {}} :
         flow' = [flow EXCEPT ![p].todo = Tail(@), ![p].d = d]
    /\ UNCHANGED <<fileVars, pc, kind, id, auto, snap, fd, count, crashes, dev, history>>

Complete(p) ==
    /\ At(p, "complete")
    /\ CarriedOut(p, "complete")
    /\ Goto(p, "create")
    /\ UNCHANGED <<fileVars, kind, id, auto, snap, fd, flow, count, crashes>>

\* Mutant: any time-out sends the command to its next route.
AnyTimeoutIsDeadEnd(s, timeout) == timeout

\* Nobody answers: "no usable address" and Discovery(_) of the first step of the
\* route, Pase(Exchange(Timeout)) of the second.  Other errors of these steps, a
\* socket that cannot be bound or a refusal, end the command.
IsDeadEnd(s, timeout) == timeout /\ s \in {"resolve", "pase"}

\* run_plan: on to the next route after a dead end, or the command fails.
StepFails(p, s, timeout) ==
    IF IsDeadEnd(s, timeout) /\ flow[p].plan # <<>>
    THEN /\ flow' = [flow EXCEPT ![p].todo = StepsOf(Head(flow[p].plan)), ![p].plan = Tail(@)]
         /\ UNCHANGED <<pc, kind, id, auto, snap, fd>>
    ELSE Ends(p)

\* Not delivered and timed out; or refused, or an error on this side.
Refused(p) ==
    /\ pc[p] = "route"
    /\ \E timeout \in BOOLEAN : StepFails(p, Head(flow[p].todo), timeout)
    /\ UNCHANGED <<fileVars, dev, count, crashes, history>>

\* Carried out, and the answer does not arrive.
AnswerLost(p) ==
    /\ \E s \in Requests \cup {"complete"} :
         At(p, s) /\ CarriedOut(p, s) /\ StepFails(p, s, TRUE)
    /\ UNCHANGED <<fileVars, count, crashes>>

DiscoveryFails(p) ==
    /\ pc[p] = "discover"
    /\ Ends(p)
    /\ UNCHANGED <<fileVars, dev, count, crashes, history>>

-----------------------------------------------------------------------------
(* An unpair.  The ledger is read once more before the device is asked.    *)

Unpaired(p) == Readable /\ id[p] \in LoadLedger.nodes

RemoveFabric(p) ==
    /\ pc[p] = "remove" /\ Unpaired(p)
    /\ \E d \in Devices, answered \in BOOLEAN :
         /\ \E e \in Carrying(d, id[p]) : dev' = [dev EXCEPT ![d] = WithoutFabric(d, e)]
         /\ IF answered \/ kind[p] = "forced"
            THEN /\ Goto(p, "create")
                 /\ UNCHANGED <<kind, id, auto, snap, fd, flow>>
            ELSE Ends(p)
         /\ halved' = halved \cup {id[p]}
    /\ UNCHANGED <<fileVars, count, crashes, idOf, overlapped, issued, recorded, confirmed>>

\* The device does not answer or refuses: --force goes on, with a ledger that
\* still has the node; a local failure ends the command in any case.
Unreachable(p) ==
    /\ pc[p] = "remove"
    /\ \/ /\ kind[p] = "forced" /\ Unpaired(p) /\ Goto(p, "create")
          /\ UNCHANGED <<kind, id, auto, snap, fd, flow>>
       \/ Ends(p)
    /\ UNCHANGED <<fileVars, dev, count, crashes, history>>

-----------------------------------------------------------------------------
(* The end of both: save_ledger with the ledger of the start.              *)

Outcome(p) ==
    IF kind[p] = "commission" THEN UpsertNode(snap[p], id[p]) ELSE RemoveNode(snap[p], id[p])

Create(p) ==
    /\ pc[p] = "create"
    /\ \E i \in Inodes :
         /\ \A q \in Procs : fd[q] = i => tmp = i
         /\ CreateTmp(i)
         /\ fd' = [fd EXCEPT ![p] = i]
    /\ Goto(p, "write")
    /\ UNCHANGED <<kind, id, auto, snap, flow, dev, count, crashes, history>>

Write(p) ==
    /\ pc[p] = "write"
    /\ WriteTmp(fd[p], Outcome(p))
    /\ Goto(p, "rename")
    /\ UNCHANGED <<kind, id, auto, snap, fd, flow, dev, count, crashes, history>>

Rename(p) ==
    /\ pc[p] = "rename"
    /\ RenameTmp
    /\ IF kind[p] = "commission"
       THEN /\ issued' = issued \cup {id[p]} /\ recorded' = recorded \cup {id[p]}
            /\ halved' = halved \ {id[p]}
       ELSE /\ recorded' = recorded \ {id[p]} /\ halved' = halved \ {id[p]}
            /\ UNCHANGED issued
    /\ Ends(p)
    /\ UNCHANGED <<dev, count, crashes, idOf, overlapped, confirmed>>

\* The temporary file went away under the name of another process.
RenameFails(p) ==
    /\ pc[p] = "rename" /\ tmp = NoFile
    /\ Ends(p)
    /\ UNCHANGED <<fileVars, dev, count, crashes, history>>

-----------------------------------------------------------------------------
Crash(p) ==
    /\ Running(p) /\ crashes < MaxCrashes
    /\ crashes' = crashes + 1
    /\ Ends(p)
    /\ UNCHANGED <<fileVars, dev, count, history>>

\* The fail-safe runs out; the sweep may be late, up to the next ArmFailSafe.
FailSafeLapses(d) ==
    /\ dev[d].fs = "live"
    /\ dev' = [dev EXCEPT ![d].fs = "past"]
    /\ UNCHANGED <<fileVars, cmdVars, count, crashes, history>>

FailSafeSwept(d) ==
    /\ dev[d].fs = "past"
    /\ dev' = [dev EXCEPT ![d] = [RolledBack(@) EXCEPT !.fs = "off", !.by = None]]
    /\ UNCHANGED <<fileVars, cmdVars, count, crashes, history>>

Route(p) ==
    \/ Discover(p) \/ DiscoveryFails(p) \/ Resolve(p) \/ Scan(p) \/ Ask(p)
    \/ Find(p) \/ Complete(p) \/ Refused(p) \/ AnswerLost(p)

Save(p) == Create(p) \/ Write(p) \/ Rename(p) \/ RenameFails(p)

Next ==
    \/ \E p \in Procs :
         \/ \E d \in Devices : StartCommission(p, d)
         \/ \E n \in Ids : StartUnpair(p, n)
         \/ Route(p) \/ RemoveFabric(p) \/ Unreachable(p) \/ Save(p) \/ Crash(p)
    \/ \E d \in Devices : FailSafeLapses(d) \/ FailSafeSwept(d)

Spec == Init /\ [][Next]_vars

-----------------------------------------------------------------------------
(* Properties.                                                             *)

Labels == {"idle", "discover", "route", "remove", "create", "write", "rename"}

TypeOK ==
    /\ FileTypeOK
    /\ pc \in [Procs -> Labels] /\ kind \in [Procs -> {"commission", "unpair", "forced"}]
    /\ id \in [Procs -> 0..MaxId] /\ auto \in [Procs -> BOOLEAN]
    /\ snap \in [Procs -> Ledgers] /\ fd \in [Procs -> Inodes \cup {NoFile}]
    /\ count \in 0..MaxCommands /\ crashes \in 0..MaxCrashes
    /\ idOf \in [Serials -> 0..MaxId] /\ overlapped \in BOOLEAN
    /\ issued \subseteq Ids /\ recorded \subseteq issued
    /\ confirmed \subseteq Ids /\ halved \subseteq Ids

Alone == ~overlapped
Carried == {n \in Ids : \E d \in Devices : Carrying(d, n) # {}}

\* While commands run one after the other, an id that is handed out is above
\* every id that was ever in the ledger, those that were unpaired included:
\* after a crash at any point and in a store without a high-water mark.
HandedOutIsNew ==
    Alone => \A p \in Procs : Running(p) /\ auto[p] => \A n \in issued : n < id[p]

\* With the types: the ledger names no node that was not confirmed, whatever
\* races.  While commands run one after the other it can be read after a crash
\* at any point (write_atomic), loses no node that was recorded, and a node it
\* has is on the fabric, unless an unpair failed after the device had gone
\* (NothingHalfRemoved below).
LedgerSound ==
    /\ TypeOK
    /\ Readable => LoadLedger.nodes \subseteq confirmed
    /\ Alone => /\ Readable
                /\ LoadLedger.nodes = recorded
                /\ recorded \subseteq Carried \cup halved

\* A commission that falls back to BLE has left nothing on the device: it did
\* not arm the fail-safe and installed no credentials on its first route, as
\* is_dead_end has it ("no irreversible state is left on the device").
FallbackIsClean ==
    \A p \in Procs :
        At(p, "scan") \/ At(p, "pase") \/ At(p, "arm") =>
            /\ dev[flow[p].d].by # flow[p].c
            /\ flow[p].c \notin dev[flow[p].d].entries

\* "always hands out an id above every id ever issued" (docs/commands.md): an id
\* that is handed out was not confirmed on a device before.
NeverConfirmedBefore ==
    [][\A p \in Procs : pc[p] = "idle" /\ pc'[p] = "discover" /\ auto'[p]
           => id'[p] \notin confirmed]_vars

\* "the ledger is left untouched - nothing ends up half removed": an unpair
\* without --force that fails has left the device on the fabric
\* (docs/commands.md).
NothingHalfRemoved ==
    [][\A p \in Procs : pc[p] = "remove" /\ kind[p] = "unpair" /\ pc'[p] = "idle"
           => Carried' = Carried]_vars

\* "the existing file is intact if the process dies half-way" (fsatomic.rs).
AlwaysReadable == Readable
=============================================================================
