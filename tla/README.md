# Verification project for mat

`mat` is a Matter controller (the `mat` command and the `matd` daemon) together
with a small Matter device stack (`mat-device`, used by `matv`). This directory
models the parts of it whose correctness depends on interleavings, failures and
arithmetic edges, checks the models with TLC and proves the most important
results with TLAPS. `PROJECT.json` lists the components, runs, mutants,
source map, hazards and theorems in machine-readable form; paths below are
relative to `src/crates/` (`docs/` to `src/`).

Contents: [inventory](#1-inventory), [plan](#2-plan),
[modules and code](#3-modules-and-the-code-they-model),
[runs](#4-runs), [bounds](#5-bounds), [fairness](#6-fairness),
[proofs](#7-proofs), [disagreements](#8-disagreements-between-code-and-documentation),
[not modelled](#9-what-is-not-modelled).

## 1. Inventory

| component | state it keeps | operations | interacts with |
|---|---|---|---|
| IPK rotation (`mat-native/src/rotate_ipk.rs`, `commission.rs`, `mat-controller/src/group_settings.rs`) | the slots `ipk-epoch`, `-next`, `-prev` and the key set `k/0` of the store; on each device the epochs of key set 0 | rotate, resume, catch-up, abort, resolve the epoch for a commission | store transactions under a lock; CASE and KeySetWrite to one node after another |
| device commissioning (`mat-device/src/core/commissioning/`, `fabric_store.rs`, `access_control.rs`) | fail-safe deadline, staged CSR and root, rollback marker, fabric table and its file, per-fabric rows and their files | ArmFailSafe, CSRRequest, AddTrustedRoot, AddNOC, CommissioningComplete, RemoveFabric, open / revoke a window | called by the device runtime; the fabric index is the key shared with sessions, ACL and groups |
| device runtime (`mat-device/src/net/runtime/`) | the one current session, the window and its deadline, mDNS adverts | one `select!` loop over datagrams and three timers | handshakes replace the session; command handlers are awaited in the loop |
| replay windows (`mat-controller/src/counter.rs`, `mat-device/src/net/group_rx.rs`) | newest counter and a 32-bit bitmap | `check_and_commit` / `accept` | decides what every exchange, session and group receives |
| unsecured exchange (`mat-controller/src/exchange.rs`, `pase.rs`, `case/`, `mat-device/src/net/{pase,case}.rs`) | retry count, current message, peer counter, window | send, retransmit, acknowledge, adopt, final reply | both ends of PASE and CASE, over UDP |
| groupcast (`mat-controller/src/group.rs`, `mat-native/src/group.rs`, `mat-device/src/net/group_rx.rs`) | counter file (a ceiling), counter of a running process, per-source window on the device | load, next, jump (`mat group bump`), send on every egress, receive | `matd` and one-shot commands share the file under a lock |
| secured session (`mat-controller/src/session/`) | session counters, exchange ids, stash of peer-initiated messages | reliable request, chunked reads, subscription, status responses | everything after the handshake |
| BTP (`mat-controller/src/btp.rs`, `ble.rs`) | sequence numbers, credit, reassembly buffer | fragment, acknowledge, keep alive | carries PASE over BLE |
| warm sessions (`matd/src/native.rs`, `server/`) | one session slot per node, abort flags | run on the warm session, re-establish and resend once, drop on disconnect | clients of the daemon's socket |
| subscriptions (`matd/src/subscription/`, `mat-device/src/net/subscription.rs`, `net/runtime/subscribe.rs`) | health and back-off per node, event numbers; on the device one subscription, dirty set, event log | establish, pump, back off, be touched; report, age, expire | secured session on both sides |
| group provisioning (`mat-native/src/{runner,ops}.rs`, `mat-controller/src/group_settings.rs`, `mat-device/src/core/group_*.rs`, `access_control.rs`) | three linked lists of groups, bindings and key sets in the store; on each device key sets, key map, memberships, ACL | provision, grant, remove | store transactions under a lock; several requests to one node after another; `mat` and `matd` at once |
| controller store (`mat-controller/src/kvs.rs`, `kvs/fs_util.rs`) | the chip-tool key-value file | locked read-modify-write, atomic replacement | IPK rotation, group settings, commission |
| device stores (`mat-device/src/core/group_*.rs`, `net/store.rs`) | key sets, key map, memberships, ACL | write, remove, purge a fabric | commissioning, group reception |
| commission and ledger (`mat/src/commands/{commission,unpair}.rs`, `mat-native/src/commission.rs`, `mat-controller/src/commissioning/`, `mat-core/src/{store,fsatomic}.rs`) | `nodes.json` with its high-water mark; per command the ledger it read, the node id, the routes left | commission over the network, with a fallback to BLE; unpair, with `--force` | devices under a fail-safe; other commands through the file, without a lock |
| the rest | aliases, DNS-SD, data model of the device, CLI, codecs and cryptography, identifier tables | see section 9 | |

**What is hard here.**

- Several processes share files (`matd` and any number of `mat` commands). The
  store lock covers one transaction, not one command, so a value read at the
  start of a command can be stale when it is used.
- A rotation touches many devices and is not atomic; it can stop after any step.
- The device is single-tasked, and its timers are only looked at between
  handlers. A handler may await an acknowledgement for seconds.
- UDP loses, repeats and reorders; a duplicate is acknowledged and dropped, so
  a message wrongly taken for a duplicate is lost with an acknowledgement.
- The device adopts any opener it reads, so an old copy of one starts another
  handshake in an exchange the controller still considers its own.
- Index and counter arithmetic wraps: `u8` fabric indices, `u8` BTP sequence
  numbers, `u32` group counters.
- A save may fail and the device go on with what it has in memory.
- A device keeps one session. Whoever establishes the next one takes the place
  of the one before, subscriptions and half-finished commands included.
- An operation of the daemon is a future that is dropped where it stands when
  its client leaves.
- A commission is some fifteen requests under the device's fail-safe, any of
  which may be carried out and its answer lost, and what it has achieved is
  written to the ledger only at the very end.
- Lists on a device (key map, ACL) are replaced as a whole: read, merged and
  written back in separate requests.

**What makes each component correct.** IPK rotation: however commands are
interrupted, no node of the fabric is left without a key the controller can
still produce, and the store itself never becomes unreadable. Commissioning: a
failed attempt leaves nothing behind and takes nothing of a confirmed fabric
with it. Runtime: what the loop must do on its own is done, and no session acts
for a fabric it did not authenticate to. Replay windows: no false duplicate, and
no accepted duplicate. Exchange: the two ends agree on whether there is a
session. Groupcast: a counter is never used twice, across processes, crashes
and the wrap. Secured session: an answer is the answer to what was asked, a
request is executed once, and what was acknowledged is not lost. BTP: a reliable
pipe, and no wait without end. Warm session: no dead session is kept, no
operation is sent a third time. Subscription: listeners see every event once
and the cache catches up with the device. Group provisioning: the store stays a
table, and no command undoes what another one finished. Commission and ledger: a
node id is not handed out twice, the ledger survives a crash and names the nodes
of the fabric, and a second route meets an untouched device.

The hazards this leads to are listed, each at its line, under `hazards` of
`PROJECT.json`, with the properties that would catch them going wrong.

## 2. Plan

Built, in this order: IpkRotation, DeviceCommissioning, ReplayWindow and
RxWindow, Exchange, Groupcast; then Pipe and Btp, SecureSession, WarmSession,
DeviceSubscription / SubHealth / Subscription, GroupTable / GroupSettings /
GroupDevice / GroupProvision, NodeLedger and Commission.

How they are composed: Exchange and Groupcast use ReplayWindow's operators.
Pipe is what the code above a reliable transport relies on, and Btp implements
it. WarmSession builds on what SecureSession shows (ExecutedOnce), Subscription
on what Exchange and SecureSession show (a message arrives once or the session
fails). Subscription is the device's side (DeviceSubscription) and the daemon's
(SubHealth) put together; GroupProvision is the store (GroupSettings) and the
nodes (GroupDevice) put together, and its store implements GroupTable.
Commission runs commands over the file of NodeLedger against an abstraction of
DeviceCommissioning.

Next:

1. **Fabric** - the distribution step of IpkRotation run against the key set
   handler of GroupDevice and the fail-safe of DeviceCommissioning.
2. **DnsCache** - the operational cache with its time-outs.

Further abstract specifications worth stating: a *rotation register* (a key that
changes in one step, with the previous one accepted) implemented by serial
IpkRotation; a *strictly increasing counter* implemented by Groupcast without
power loss.

Every safety invariant of the runs is proved except three of GroupProvision
(section 7). StoreWellFormed and the refinement TableSpec need an induction along
the linked lists; the other two rest on them.

## 3. Modules and the code they model

Every definition that models code has its file and lines in `map`.
Definitions marked "Mutant" in a comment are deliberately wrong variants of a
neighbouring definition, used by nothing in the specifications: each
property is shown to fail when its variant replaces the original.

### IpkRotation

The store is `current`, `next`, `prev` (the three epoch slots) and `k0` (slot 0
of the key set CASE uses). `accept[n]` is the set of epochs device `n` tries on
a Sigma1. Each process of `Procs` is one command with its program counter:
`Start` (credentials read), `Resolve` / `Adopt` (`resolve_ipk_epoch`),
`ReadNext` and `BeginIpkRotation` (resume the pending key or draw and persist a
new one), `ReadPrev` and `ReadPending` (catch-up), then per node `Establish`,
`KeySetWrite`, `Verify` or `NodeFails`, and at the end `CommitIpkRotation` or
`Report`. `AbortIpkRotation` and `CommissionNode` (the part of a commission that fixes a
node's first key) complete it. Every store access is its own step, because
the lock is released between them. `Crash` is a killed process or a failed
transaction at any step. `Concurrent = FALSE` restricts the operator to one command at a
time, which is the usage the documentation assumes; the race runs lift that.

An epoch key stands for the operational key derived from it, which is
injective for a fixed fabric. `missed[n]` is a history variable: how many
commits happened since `n` last proved that it holds the current key.

### DeviceCommissioning

One device. `fab`/`fabDisk` and `rows`/`rowsDisk` are the fabric table and the
per-fabric rows, in memory and in their files; the ACL, group key and group
membership stores all purge and save alike, so one `rows` stands for any of
them. `busy` is TRUE from the moment a `select!` branch fires until its handler
is done; `EnterSelect` evaluates the timers again, and `wait` records whether
`fail_safe_deadline()` returned one *at that moment*. Deadlines are `live` or
`past`. Each command is one action that contains everything the handler and the
runtime do afterwards (save, purge, advertise, drop the session, close the
window). `SaveFails` and `Restart` may happen at any save and at any moment.
`marker` is an option, as `uncommitted_fabric_index` is: index 0, which AddNOC
hands out after the wrap, is not "no marker". A device starts without a fabric
or with one that was confirmed in an earlier run, at any index (`BootTables`),
and the window it boots with follows from that (`BootWindow`). AddNOC is
followed up to and including the first index after the wrap; a second entry
under index 0, which the code would then add, is not representable in a table by
index and is cut off by a named guard. `confirmed` and `seen` are history
variables.

### ReplayWindow, RxWindow

ReplayWindow holds the operators `Fresh` and `Commit` (what
`check_and_commit` answers and what it leaves); the bitmap is the set of its
one bits. RxWindow feeds one window with counters in any order and counts how
often each was accepted. Exchange uses the same operators at both ends;
Groupcast uses the shift, with the half-range comparison of `group_rx.rs`.

### Exchange

One handshake. `ini` is the controller's `establish()` with its
`UnsecuredExchange`, `rsp` the device's `drive_established()` with its
`ResponderExchange`; `net` is the set of datagrams in flight. Receiving is split
by what the code does with the datagram: duplicate (acknowledged again),
standalone ack, real message, and, in `reply_final`, only the ack of what was
sent. `kind` is the handshake a behaviour is about, one of `Handshakes`: its
rounds (3 for PASE, 2 for CASE) and its budgets of retransmissions, duplicates
and attempts. The difference between PASE and CASE (an abort StatusReport, the
opener opcodes, when a missing piggybacked ack is an error, refused credentials)
follows from the rounds. Cryptography is reduced to what it
binds: a response carries the number of the attempt that made it, and the last
request is only valid for the attempt it was computed for. Loss is a
datagram never received. Retransmission of the same datagram adds
nothing to the set `net`; a copy that arrives in addition is counted by `dups`.

### Groupcast

`file` is the ceiling in the counter file as processes see it, `disk` what a
loss of power would leave: `atomic_replace` syncs the file's contents but not
the directory, so the rename becomes durable (`Commits`) some time later.
`sender[p]` is the counter a process holds together with the lock. `Send`
includes the failure to reach any egress (`up = {}`), which uses the counter up.
`guard` is the device's window for this controller; `Forget` is a restart of the
device or an eviction by other sources.

### Pipe, Btp

Pipe is the promise of `ReliableChannel`: whole messages, once and in order,
until it breaks for good. Btp is the actor `run_session` with the loop of
`send_message` inside it; a frame takes a sequence number and a place in the
window whether it is a segment or a standalone ack. `st[e]` is the
`SessionState` of an end, `link[e]` what it has written and the other has not
read. The peripheral is external and stands for any conforming one: it may send
an ack or a segment whenever its window allows. `stale` is what the keepalive
computes from `last_ack_progress`, `overdue` whether a frame really has waited
that long. The refinement maps the session's phase to the pipe's state; the
pipe's `sent` and `got` are the messages at the two interfaces, and its set of
messages is `Messages`, the numbers of those the two ends send.

### SecureSession

A client (`session/client.rs`) and the device's `serve_secured` over a network
that keeps every message forever and delivers it whenever it likes. The device
has four modes: its receive loop, a reply that awaits its ack, a chunked report
that awaits a StatusResponse, and the drain of what arrived meanwhile. `stash`
is the buffer of peer-initiated messages inside the session, `deferred` the one
of the serving task; `Requeue` returns one to the other. Requests are not
interpreted: what matters is which exchange they belong to, what they
acknowledge, and how many messages the answer has. `arrived` and the fields
`begun` and `evicted` of the device are history.

### WarmSession

`queue` is the tokio mutex of the slot, holder first. An operation goes through
`queued`, `establish`, `send`, `reestablish`, `resend`; each may succeed, time
out, break or lose its client. `ClientGone` drops the future where it stands and
`AbortOp` is the clean-up that follows later, with its `try_lock`; `Without` is
the queue of the mutex when a waiter or the holder drops out of it. `wire` is what
the device may still execute, `applied` what it did.

### DeviceSubscription, SubHealth, Subscription

DeviceSubscription has the operators of the device: event log, the one
subscription with its dirty mark and event cursor, priming and reporting. Events
are numbered one after the other and the log drops the oldest first, so it is
the interval `oldest .. next - 1`.
SubHealth has those of the record matd shares between the server's operations
and the node's loop. Subscription puts them together with the loop of
`pump.rs` (establish, prime, pump, lost, back off), the supervisor that starts
it and stops it in three steps (`Unsubscribe` aborts, `LoopDropped` is the loop
reaching an await and with it the end of the join, `Forget` drops the record; in
between the loop runs on and may write to it), direct operations (which take the device's only session), the
pairing and unpairing of the node, and a wire with one message in flight.
Each `select!` of the loop is a choice between its branches; where the loop checks
several reasons to end one after the other, the guards follow that order.
`heard`, `primed`, `told` and `owed` are history variables: what listeners were
sent, and the touched signals that have not caused a wake yet.

### GroupTable, GroupSettings, GroupDevice, GroupProvision

GroupSettings models the linked lists as the store has them: heads, lengths and
the `next` of every record, walked by count. GroupTable is what `mat group list`
shows: a sequence of groups, a sequence of bindings, a key per key set; the
refinement maps a list to the walk through it. GroupDevice has the handlers of a
node; its key map and its ACL are sets, for nothing reads the order of their
entries. GroupProvision runs commands: `cmd[p].pc` is the request a process waits
for, `copy` the list it has read and is about to write back. `Live` says whether
the process's session is still the node's. A step whose request would change
nothing is skipped in the same step as the answer before it, as in the code.
`alone`, `book` and `had` are history, fixed when a command starts: whether
anything else ran, whether the rules of `docs/commands.md` were followed, and
what the nodes applied before. A session that could not be established may all the
same have replaced the node's current one, for the device installs its side first
(`EstablishFails`). `settled` records what was provisioned and not
removed since, `crowded` the memberships whose last AddGroup met a full table,
an answer nobody reads.

### NodeLedger, Commission

NodeLedger is `nodes.json` and its replacement: `content` of each inode, `disk`
and `tmp` the inodes the two names stand for. A process that has opened
`nodes.tmp` goes on writing to the inode it has, wherever its name has gone, and
`File::create` truncates what another process is writing. A new or truncated file
is `Blank`; two processes that write to one inode overlay each other's bytes, and
the outcome is `Torn`, which cannot be read. Commission runs
commands: a process reads the ledger (`snap`), settles the node id, discovers,
plans its routes (`PlanRoutes`) and goes through the steps of a route
(`flow.todo`); at the end it replaces the ledger by its own copy of the start
with one node more or less (`Create`, `Write`, `Rename`). `Ask` is a request that
is carried out and answered, `AnswerLost` one whose answer does not arrive,
`Refused` one that was not carried out; `StepFails` decides between the next
route and the end of the command (`is_dead_end`, `run_plan`): only a time-out of
the discovery or of PASE is a dead end (`IsDeadEnd`), every other error ends the
command. `Crash` is a process
that dies at any step. A device keeps the credentials on it, the rollback
marker, the fail-safe and the one session; credentials are named by the
command that installed them, because two commands may install the same node id.
Which of two such entries a CASE session or RemoveFabric meets is left open: the
code takes the first in its table, and the model has no table order.
Requests without a modelled effect are merged where no other lies between them
("attest"). Left out: whether the commissioning window is open (PASE may always be
refused), restarts of the device (DeviceCommissioning has them), aliases, and
a rename undone by a loss of power. `idOf`, `overlapped`, `issued`, `recorded`,
`confirmed` and `halved` are history variables.

## 4. Runs

| run | about |
|---|---|
| `ipk_serial` | One command at a time, over any subset of nodes, with three crashes or node failures anywhere. The store never splits (StoreConsistent); a node that took part in every commit accepts the current key and one that missed one is still in reach of `--catch-up` (NoNodeStranded); every key a node is handed is in the store at that moment (WrittenKeysPersisted); the inductive invariant RotationInv of the proofs; and an operator who keeps re-running the command gets a pending rotation resolved (PendingResolved). |
| `ipk_race` | Two commands at any interleaving: a pending key is never replaced by another (PendingKeyKept), since `begin_ipk_rotation` refuses. |
| `dc_loop` | Two fabrics, one failed save, one restart, any order of commands, handshakes, timers: the two notions of an open window agree, a confirmed fabric is never rolled back, no session acts for the next occupant of its index, no occupant inherits rows as long as saves work, and the loop closes a lapsed window by itself. |
| `rxw_exact` | All orders and repetitions of eleven counters over a window of three: the bitmap is exact (WindowExact), nothing new inside the window is refused and no duplicate is accepted, except at one offset (VerdictsRight). |
| `ex_mrp` | CASE and PASE in one run, with loss, late datagrams, retransmission or duplicates, refused credentials, the abort and a second attempt: an installed session of the first attempt is shared (FirstAttemptShared), an established one was verified by the device (EstablishedSound), the controller advances only past requests the device accepted (AdvanceMeansAccepted); and whatever the network and the controller do, the device is free for the next handshake eventually (SlotFreed). |
| `grp_wrap` | Two processes, two egresses, the wrap, one loss of power: counters move forward, the newest command is never taken for a replay, none is applied twice while the window remembers it. |
| `btp_flow` | Messages in both directions over small windows and sequence numbers that wrap: no conforming peripheral is taken for a violator and the accounting of the two ends agrees through what is in flight (FlowSound), Btp implements Pipe (PipeSpec), and `send_message` does not wait for good once the peripheral has no more messages, whether it still acknowledges or has fallen silent, and with both windows full (SendEnds). |
| `session` | Up to four exchanges at a time, repeats of any message: an answer is for the message sent last (AnswerIsOurs), requests are executed once (ExecutedOnce), in order, and not lost between the two buffers (BuffersSound); what the device set aside is served (HeldIsServed). |
| `warm_ops` | Three operations on one node, every failure and every departure of a client: a dead session is not kept and an operation is only repeated after a time-out (SlotSound), a new session is reported to the subscription (NewIsTold), every operation ends (EachIsAnswered). |
| `sub_loop` | matd against one device: an event reaches the listeners once and none is skipped while the log still had it (EventsExact); the health record (HealthSound); an operation whose report was lost in the change of session is found out about (BlindWindowRecovered); and the cache ends with the device's value (Converges). |
| `gp_ops` | mat and matd provision, grant and remove, and a command that failed at one of its nodes is run again: the lists are lists and agree (StoreWellFormed) and implement the table (TableSpec); what one provision finished no other command undoes (a membership is missing only where AddGroup met a full table), and no node loses its administrator (ProvisionedStays); a provision that reports success delivers (ProvisionDelivers), a remove takes one group only (RemoveSparesOthers). |
| `commission` | Commissions and unpairs of two devices, two commands at a time, answers lost, fail-safes that lapse, one crash: while commands run one after the other an id that is handed out is above every id that ever was in the ledger (HandedOutIsNew), and the ledger can be read and has exactly the nodes recorded, each of them on the fabric unless an unpair failed after the device had removed it (section 8); racing or not, it never names a node no device confirmed (LedgerSound). A command that falls back to BLE has left neither a fail-safe nor credentials (FallbackIsClean). |

The properties named `...Sound` are conjunctions of a type invariant and the
invariants that belong with it: WindowsSound (DeviceCommissioning),
EstablishedSound (Exchange), GuardSound (Groupcast), FlowSound (Btp),
BuffersSound (SecureSession), SlotSound (WarmSession), HealthSound
(Subscription), LedgerSound (Commission). `RotationInv` of IpkRotation contains StoreConsistent and
WrittenKeysPersisted.

Deadlock is checked in the `ipk` and `dc` runs and in `sub_loop`. The others may
stop: a window that has seen everything, a handshake or a session that is over,
a bound that is used up.

## 5. Bounds

- `ipk_serial`: 2 nodes, 4 keys (three rotations, so one node can miss two
  commits and `prev` is overwritten once), 3 faults. A node relates only to the
  command that visits it and to the commit, and the second node is there to be
  left out. No symmetry, because of the liveness property.
- `ipk_race`: 2 commands, 1 node, 4 keys, 1 fault: both commands may draw a key
  and a third is left.
- `dc_loop`: 2 identities and indices 0..2, 1 failed save, 1 restart, from an
  empty table or from one confirmed fabric at index 1 or 2, so that `max + 1`
  reaches the end of the range and wraps. A fabric is confirmed while the other
  is added, removed or rolled back, and an index is handed out again. The table
  capacity (5 in the code) is not what limits an instance of two.
- `rxw_exact`: width 3 and counters 0..10, more than three widths, so that each shift
  distance occurs below, at and beyond the width. `MCEdges` is for the code's
  width of 32: the counters around both edges.
- `ex_mrp`: CASE with retry budget 1 and two attempts, responder counters that
  start below or far above those of the other attempt (only the order matters to
  the window); PASE with no retransmission but two duplicates, one attempt.
- `grp_wrap`: epoch 2, counters modulo 64, window 3, 6 loads, jumps and sends. `GroupcastAssumption` keeps the total distance below half the
  range, as it is for 2^32 and any realistic number of commands; files start
  near the wrap and near 0. `Gdc` is small: chip-tool's counter is compared as a
  plain number, and the models assume it stays well below half the range.
- `btp_flow`: sequence numbers modulo 3, windows 1 and 2 (2 is the largest the
  modulus allows; 0 is refused), up to three segments, two messages of the
  central and one of the peripheral: nine frames and their acks, so that every
  number is used several times.
- `session`: four scripts that each bring the device into another mode while
  requests wait, buffers of 2 and 2 (32 and 32 in the code), and as many requests
  as overflow them.
- `warm_ops`: three operations, one that holds, one that waits and one that comes
  late. A slot sees at most six sessions.
- `sub_loop`: an attribute of two values, three event numbers, a log of two and
  one event per report (so that the log overflows and a report is cut), two
  starts of the device, two disturbances among stimuli, operations, touched
  signals, restarts, losses and early time-outs. With three disturbances the
  same properties hold (2,458,117 states, beyond what a routine check affords).
- `gp_ops`: two groups and two key sets (shared or not), two nodes, mat and matd,
  commands that name two nodes altogether, one loss. The start states are fresh
  nodes, a node with a crowded group table and a weak ACL entry, and nodes that
  have been provisioned, so that a history of three commands is covered.
  `MaxKeys` is the code's 1; `GroupCap` 2 and `AclCap` 3 are small so that they
  are reached; ids are modulo 65536 as in the code. After a loss, once
  nothing runs, the daemon starts commands over two more nodes (`MaxAgain`): a
  provision that stopped at its second node, with the key already rotated in the
  store and on the first, is run again over both. With the daemon alone, four nodes
  and two losses, ProvisionDelivers holds as well (989,616 states). Groups and key sets are
  symmetric; nodes and processes are not.
- `commission`: two processes, two devices, three commands, of which the third
  starts alone (`MaxRacing` 2), one crash; ids 1..4 and `--node 2`; three inodes,
  one more than can be held open. Three commands are a commission, its unpair
  and the commission that must not get the id again, or a race of two and what a
  third finds; the store starts empty or with one node and no high-water mark.

## 6. Fairness

- IpkRotation `RotationFairSpec`: weak fairness of each command's steps (every await
  has a timeout, so a started command goes on) and strong fairness of the
  operator's re-run of a pending rotation over all nodes. The latter is an
  assumption about the operator, not the code: PendingResolved says that
  re-running suffices. Faults are bounded, that is, they stop.
- DeviceCommissioning `FairSpec`: weak fairness of `EnterSelect` (every await in
  a handler is bounded by the MRP retry budget or a receive timeout) and strong
  fairness of the two timer branches: `select!` polls its branches in random
  order, so a branch that is ready each time the loop comes by is taken
  eventually even if datagrams never stop.
- Exchange `FairSpec`: weak fairness of the responder's timers only. Nothing is
  assumed of the network or of the controller.
- Btp `FairSpec`: weak fairness of the central's own steps (a write, a read of a
  frame that is there) and of the time-out of the wait while nothing is on its way
  (`Silence`): `timeout(ACK_TIMEOUT, recv())` starts again with every frame, so
  that it is certain only when none arrives. Nothing is assumed of the peripheral,
  but its messages are bounded, that is, they stop. That the layer above takes the
  messages out of `in_tx` is assumed: that send has no time-out.
- SecureSession `FairSpec`: weak fairness of the device's time-out and of its
  serving task. Nothing is assumed of the network or of the controller.
- WarmSession `FairSpec`: weak fairness of the progress of each operation; every
  await in it is bounded by the caller's deadline or by MRP, and the mutex is
  fair.
- Subscription `FairSpec`: weak fairness of the device's task, of the loop, of the
  operations, of the supervisor and of a message that can no longer be answered
  being given up. Disturbances are bounded, that is, they stop.

## 7. Proofs

The eight modules `...Proofs` are checked by TLAPS, for all values of the
constants that satisfy the assumptions named in the modules. FabricProofs is about
IpkRotation and DeviceCommissioning, ExchangeProofs about RxWindow and Exchange,
GroupProofs about Groupcast and GroupProvision, each of the others about the
module it is named after. The assumptions say
that bounds and sizes are natural numbers, that `None` (`Nothing`, `NoEpoch`) is
none of the values it
stands beside, that group 0 and key set 0 are not for groups
(`GroupProvisionAssumption`) and that nodes start out commissioned, with the entry
of their administrator (`WorldsAssumption`), and, where counters wrap, that a run
stays within half of their
range (`GroupcastAssumption`) or that a window fits its modulus
(`BtpAssumption`); the code guarantees the last and 2^32 the one before.

- **TypeCorrect** (`RotationSpec => []RotationTypeOK`, racing commands included).
  `RotationTypeOK` is
  not inductive: a key written to a device must be a key and not `NoEpoch`, which
  depends on where the command is. `RunTyped` adds that.
- **PendingKeyStable** (`RotationSpec => PendingKeyKept`, racing commands included): any
  number of commands, nodes and faults.
- **RotationSafe**: with commands one at a time (`~Concurrent`), `RotationSpec` implies
  always StoreConsistent, NoNodeStranded and WrittenKeysPersisted. None of them is
  inductive: that a commit strands nobody rests on what the running command
  believes. `RotationInv` therefore also says that at most one command runs (OneAtATime), that the epoch it
  resolved is still the current one (StoreKnown), that the keys it
  opens and verifies with are `k0` and `next`, or `prev` and `k0`, depending on
  the command (LoopKeys), and that every node it is done with holds the new key
  unless a failure was noted (VerifiedHoldTarget). Each step of Next preserves
  it, one proof step per action; the last two conjuncts are exactly what the
  commit uses. StoreKnown is what a race breaks (section 8).
- **SerialInvariant** (`~Concurrent`, `RotationSpec => []RotationInv`) is that invariant itself,
  which `ipk_serial` also checks.
- **WindowSound** and **BitmapExact**: for every width and every set of counters the bitmap is exact
  (WindowExact), no new counter inside the window is refused and no duplicate is
  accepted, except at offset Width (VerdictsRight). WindowExact is inductive together with the
  type invariant; the proof has one case per branch of `check_and_commit`, and
  ShiftFacts says what the shift does to each bit.
- **IdsAreNew** (`Spec => []HandedOutIsNew`): any number of processes, devices,
  commands and crashes. HandedOutIsNew speaks of ids that ever were in the
  ledger, and an id enters the ledger when a file that was written steps earlier
  gets its name. The invariant of the proof follows it there (Serial): as long as
  no command has overlapped another, at most one runs, its copy of the ledger is the one on
  disk, whose mark is above every id issued so far, and the temporary file is its
  own and holds what it is about to record once it is written. MaxExists shows that a finite set of ids
  has a largest one, which the mark is computed from. Steps that touch neither the
  file nor the ledger of a command are treated together (QuietSteps).

- **LedgerStaysSound** and **FallbackStaysClean** (Commission): any number of
  processes, devices, routes and crashes. Both are about a device and the
  command at work on it, so the invariant (`DInv`, on top of the one above)
  follows a command along its route: the steps left are the end of a route, and
  a command that still has to arm the fail-safe or to install credentials has
  done so on no device (OnRoute, with Untouched); CommissioningComplete goes over
  a session with credentials for the command's id (OverCase); no file and no
  copy of the ledger has an id that was not confirmed (OnlyConfirmed); and,
  while commands do not overlap, every recorded id is on a device beyond the
  reach of a rollback, unless an unpair stopped half-way (OnFabric). Numbered
  keeps the names of the commands apart, on devices too.
- **WindowsNeverDrift**, **ConfirmedStays**, **SessionsStayApart**,
  **RowsStayApart** (DeviceCommissioning): every number of identities, table
  size, index range, restarts and failed saves. The last three are inductive only
  together: that a session does not act for the next occupant of its index rests
  on what is left for a session whose fabric has gone (GoneIsPowerless: no rows,
  so it cannot call anything), that no occupant finds rows on what the files held
  at the last restart (SavedIsClean), and that a rollback spares what was
  confirmed on identities being new when they are installed (Known). MaxIndex
  and its corollaries say that `max + 1` is a free index or the wrap.
  An attempt at this proof on an earlier form of the model, in which 0
  stood for "no marker", failed at the wrap, where 0 is an index; the run had
  started from an empty table only and never came there.
- **SlotIsSound** and **AnsweredHasTold** (WarmSession): any finite set of
  operations. The queue of the mutex holds the operations that run, each once, and
  all but the first only wait (QueueSound); each session was established by one
  operation and each operation establishes at most two (Owned), from which
  TwoPerOperation counts the sessions; what an operation has on the wire is
  determined by how far it has come (SentSound). AgainOnlyAfterTimeout and the
  bound in TypeOK follow.
- **NewestGetsThrough**, **NotAppliedAgain** and the action property
  **NextIsNewer** (Groupcast): every epoch, width, range and set of processes.
  Counters that wrap have no order; the proof unrolls them from the ceiling the
  file held at first (`base`), where everything in use lies within less than half
  of the range and newer is larger. The invariant then orders, as plain numbers,
  what was applied, sent and handed out, the ceilings in the file and on the
  disk, and a loss of power by the epoch that the next load skips.
- **FlowStaysSound** and the refinement **ImplementsPipe** (Btp): every modulus,
  window, message length and number of messages. The accounting of one direction
  is a relation between a writer, what is in flight and a reader (`Dir`), stated of
  values and not of variables because the code reads a frame and answers it in
  one step; Agree joins the two directions, whose acks travel with the other's
  segments. For the refinement, Stream says that the frames in flight are the
  next segments of the message that is being sent, from the reader's
  reassembly position to the writer's: this is what makes a completed buffer
  the next message of the pipe. Stream speaks of positions along the link and
  quantifies over functions into Nat, so TLC evaluates its consequences
  (FlowSound, PipeSpec) and not the invariant itself.
- **AnswersAreOurs**, **ServedOnce** and **BuffersStaySound** (SecureSession), all
  from **SessionInvariant** (`Spec => []IInv`): every script, number of exchanges
  at a time, length of a report and capacity of the two buffers, and any number of
  losses, repetitions and reorderings. None of the three is inductive. On the
  device's side the invariant speaks of one line of messages: those begun, then those deferred, then
  those stashed (Line). No message is in it twice, and those that opened an
  exchange are in it as they arrived (Ahead, Chain). The operators of the device
  are proved on values first (ServeSound, StatusSound, ReplyingSound and so on: Outcome),
  because one step of the code chains several of them; each adds at the end,
  takes out, or moves a border between two parts. One of them, a message that comes
  on the exchange of the current reply, is served ahead of the stash: that this
  keeps the order rests on OpenerFirst, by which such a message opens nothing. On
  the controller's side, a message is answered at most once (Answers), the device
  holds back only what it has not answered, and the controller sends the next
  message on an exchange only when all before it are answered (Awaited): an answer
  it has not seen is then for the message sent last, which is AnswerIsOurs at the
  next acceptance. `IInv` is finite on the
  instance of `session`, where TLC confirms it (298,995 states) before anything is
  proved; no run repeats that.
- **EstablishedSoundProved**, **AdvanceMeansAcceptedProved** and
  **FirstAttemptSharedProved** (Exchange): every handshake, number of
  retransmissions, duplicates and late adoptions. The first holds without a
  condition: a final report is only ever in flight once the device has verified
  the credentials of that attempt (InFlight). The other two need the windows
  to be wide enough, for a message that is too old is acknowledged as if it were a
  duplicate. AdvanceMeansAccepted is therefore proved while the
  initiator has used no more counters than the device's window is wide
  (`ini.tx <= Width + 2`; a handshake without duplicates needs six): every
  acknowledgement is then of a counter the device accepted (Acknowledged).
  FirstAttemptShared is proved of behaviours in which no datagram of the first
  attempt reaches the initiator after its counter has left the window
  (`[]FirstInWindow`, which TLC finds to be an invariant of the instance of
  `ex_mrp`): the last response then has a counter of its own, and the initiator
  knows it only if it took the response (FirstAttempt). Without the condition it
  is InstalledIsShared of section 8. What a window remembers is stated once, in
  SeenBy and CommitSeen.
- **EventsExactProved**, **HealthSoundProved** and **BlindWindowRecoveredProved**
  (Subscription), all from **SubscriptionInvariant**: every capacity of the log and
  of a report, every number of events, restarts and disturbances. Who knows how far the
  events have come is spread over the device's cursor, its log, the message in
  flight, the part of a report the loop has taken in and the number in the health
  record; `IInv` relates all five to what the listeners were given (WireSound,
  MinSound, Events), and says what is left of a node that was unpaired (Unpaired,
  Gone). `Stopped` says that the record is forgotten only when the loop has been
  dropped: without the join, nothing would keep the loop from writing to it again. The operators of the device are proved on values first. Most steps of the
  daemon leave the news alone, and DaemonStepKeeps treats those together.
- **ProvisionedStaysProved** (GroupProvision): any number of nodes, processes,
  commands, lost requests and lost answers. A command reads a list, merges it and
  replaces it in two requests, so that its write would undo what another command
  wrote in between. That this does not happen rests on the device having
  one session: whoever establishes the next one ends that of the others. `Ready`
  says what a command may rely on as long as its session is the node's current
  one: at the write of a list its copy is the node's list; at the removal of a key
  set the map is already without the group and nothing refers to the set; a
  provision past the write of the map is still mapped, and past AddGroup a member
  unless the table was full. A command without the session is served nothing
  (Apart, OthersReady); ProvisionOrder, GrantOrder and RemoveOrder say which
  request follows which, skipped ones included; and each handler leaves the other
  groups as they are (Spares). `ProvisionInv` is this, the types and
  ProvisionedStays itself; TLC confirms it on the instance of `gp_ops`
  (1,401,232 states).

Only model-checked:

- the liveness properties (PendingResolved, LapsedWindowCloses, SlotFreed,
  SendEnds, HeldIsServed, EachIsAnswered, Converges): liveness under fairness is
  outside what the prover handles;
- of GroupProvision, StoreWellFormed and the refinement TableSpec: the lists are
  walked by recursion over their length, and what a recursive definition computes
  for every input needs an induction the provers cannot instantiate;
- ProvisionDelivers and RemoveSparesOthers of GroupProvision: both compare the
  nodes with the key and the bindings in the controller's store, that is, with
  what the same walk returns.

## 8. Disagreements between code and documentation

Found while modelling. Those with a definition are in the modules and are
checked by no run; adding one to the named configuration, with the change given,
reproduces its counterexample.

**With a definition.**

- LapsedFailSafeSwept (DeviceCommissioning, `dc_loop`, as a PROPERTY):
  `mat-device/src/net/runtime/window.rs:228`, `fail_safe_deadline()` is `None`
  once the deadline has passed. If it passes while a handler runs, the next
  `select!` has no such timer and the fabric stays until the next ArmFailSafe.
  Line 220 says the branch fires on its own.
- NeverConfirmedBefore (Commission, as a PROPERTY): `docs/commands.md:302` has `commission`
  hand out an id above every id ever issued. If the answer to
  CommissioningComplete is lost, or the process dies before the ledger is saved
  (`mat/src/commands/commission.rs:37`), a device has the id and the ledger does
  not, and the next commission hands it out again.
- NothingHalfRemoved (Commission, as a PROPERTY): `docs/commands.md:291` says of
  an unpair without `--force` that fails that "the ledger is left untouched" and
  "nothing ends up half removed". If the device carries out RemoveFabric and
  its answer is lost, the command fails (`mat/src/commands/unpair.rs:46`) and the
  ledger keeps a node that is no longer on the fabric; running it again cannot
  reach the device, and only `--force` removes the entry. LedgerSound therefore
  excepts such nodes (`halved`).
- AckOpensGate (Btp, `btp_flow`, as a PROPERTY): the comment at
  `mat-controller/src/btp.rs:502` has the gate open at once when a frame has
  acknowledged something. The proactive ack that is sent on the spot takes a place
  itself, and the gate may stay shut. As each frame also starts the time-out again
  (line 480), a peripheral that keeps sending messages can keep `send_message`
  waiting, against line 499, by which the time-out always ends it.
- AlwaysReadable (Commission): `mat-core/src/fsatomic.rs:13` gives the temporary
  file a fixed name. A second command truncates the file the first one has written
  and is about to rename, and if it dies there the ledger is empty; line 11 says
  the existing file stays intact.
- PendingLeavesNodesReachable (IpkRotation, `ipk_race`):
  `mat-native/src/rotate_ipk.rs:267`, `rotate()` uses the epoch resolved before
  the pending slot is read, and neither begin nor commit compares it with the
  current slot. If another rotation commits in between, this one distributes
  {old, new} with an old key that is no longer current, and ends pending with a
  node that does not accept the current key. `docs/commands.md:204` promises
  "every node still accepts it".
- AtMostOnce (RxWindow, with `Width = 32` and `MCEdges`):
  `mat-controller/src/counter.rs:55`, a jump of exactly 32 clears the bitmap
  although the old maximum is still inside the window; its duplicate is accepted
  once more.
- InstalledIsShared (Exchange, with one duplicate in the CASE handshake of
  `MCHandshakes`): `mat-controller/src/exchange.rs:643`, a second
  attempt with a lower random counter; the controller acknowledges the final
  StatusReport but drops it as too old, and the device installs a session alone.
- CrashNeverReuses (Groupcast): `mat-controller/src/kvs/fs_util.rs:44`, no sync of
  the directory; after a loss of power the counters of the last load are handed
  out again, against `group.rs:19`. `grp_wrap` shows the limit: the epoch that
  `load` skips covers the loss of one extension.
- NoHalfExchange (WarmSession): `matd/src/native.rs:172`, a client leaves while
  another operation waits; the lock is handed over, `try_lock` fails and the next
  operation runs on the session that was left in mid-exchange. The other way
  round, a waiter that leaves finds the lock free once the holder is done and
  closes a healthy session. The comment above `drop_session` excludes both.
- NoMutualWait (Btp): `mat-controller/src/btp.rs:497`
  names a peer that does not conform as the case in which both ends wait with a
  full window; a conforming one can be in it as well.
- IdleTimeoutIsDue (Btp): `btp.rs:421` compares with `last_ack_progress`, which is
  not renewed when a frame is sent after an idle time, so that the session may be
  closed for a frame sent a moment ago.
- NoZombieFabric (DeviceCommissioning): a second AddNOC in one fail-safe window
  overwrites the rollback marker (`core/commissioning/noc.rs:152`, against the
  comment at 150), with two identities; and a restart between AddNOC and
  CommissioningComplete loses it (`core/commissioning/mod.rs:349` against
  `general_commissioning.rs:34`), with one identity and one restart.
- AdvertsMatchTable: ArmFailSafe(0) rolls the fabric back but leaves its mDNS
  advert (`general_commissioning.rs:39` against `noc.rs:268`).
- RowsBelongToOccupant: a failed save of the purged rows and a restart bring
  them back for the next occupant of the index (`core/access_control.rs:253`
  against `core/commissioning/mod.rs:325`). A restart between the save of the
  fabric table and those of the rows (`core/commissioning/noc.rs:243`) leaves the
  same files as the failed save.
- IndexZeroReserved: `max + 1` wraps to 0, which is reserved
  (`core/fabric_store.rs:136` against 125); needs three identities and
  `IndexModulus = 3`.
- PaseOnlyBeforeDeadline: when a datagram and the window's deadline are both
  ready, `select!` may take the datagram and admit a PASE
  (`net/runtime/window.rs:69` against 66).
- FailureIsShared (Exchange): the ack of the final StatusReport is lost; the
  controller is established while the device reports a failure
  (`net/pase.rs:191` against `net/runtime/mod.rs:569`).

**Without a definition.**

- `mat-controller/src/session/mod.rs:137` says the wait of `reply_reliable` and
  `send_reliable` is over when `last_peer_ack` equals the counter sent;
  `send_reliable` does not look at it. AnswerIsOurs shows that it need not.
- `matd/src/native.rs:115` says the callback is called for each new session; it
  is not when the operation's future is dropped between the establishment and
  its end. NewIsTold is therefore about operations that were answered.
- `matd/src/subscription/health.rs:16` says every transition that is logged is
  written to the registry as well; a loop that leaves because it was touched
  stays `established` until it is established again.
- `mat-native/src/ops.rs:411` says a provision fails with the step that failed.
  AddGroup of a full group table answers RESOURCE_EXHAUSTED in its response
  data, which `invoke` (`mat-controller/src/session/client.rs:98`) does not read:
  the provision reports success and the node does not apply the group. This is
  why ProvisionDelivers speaks of nodes that have room and ProvisionedStays
  excepts a membership whose AddGroup met a full table.
- `docs/commands.md:1029` says that a duplicate-bind error leaves the
  controller's key rotated; the provision is one transaction and an error leaves
  the store as it was.
- A `group remove` that is interrupted between the write of the key map and
  KeySetRemove leaves a key set that no re-run removes: the row that named it is
  gone. It occupies the only slot a fabric has (`MAX_GROUP_KEYS_PER_FABRIC` is 1),
  so that the next provision with another key set id is refused.
- Provisioning a group with a second key set id adds a second binding after the
  first, so that the controller goes on sending with the first key
  (`read_group_credentials` takes the first row) while the node has the second.
  `docs/commands.md` asks to keep the id; ByTheBook is that rule.
- Two provisions of one group at the same time can leave the controller and a
  node with different keys: the store is locked for its transaction only.
  ProvisionDelivers is therefore about a command that runs alone.
- Key map ids are one more than the largest one and wrap after 65535 rebinds of a
  group that is never removed; a new row then takes the id of an old one.

## 9. What is not modelled

- Inside modelled components: what commands print, certificate and attestation
  checks, UpdateFabricLabel and SetRegulatoryConfig (no modelled state changes),
  mDNS bring-up retries, the branches of the exchange for a reliable transport,
  group keys and membership in Groupcast (they decide whether a datagram reaches
  the replay window at all; GroupProvision has them), the table of 64 group sources (an eviction looks like a
  restart), and the wrap of an unsecured message counter.
- IpkRotation: a device that answers KeySetWrite although its own save failed
  (`mat-device/src/core/group_key_management.rs:182` only warns) and then restarts.
  DeviceCommissioning: the saves of one removal are one step; a restart between
  them has the effect of a failed save, which is modelled.
- Two commands racing through the adopt branch of `resolve_ipk_epoch` are part
  of IpkRotation, but StoreConsistent is checked for commands one at a time
  only.
- SecureSession: CloseSession, the branch for a reliable transport, the wrap of
  message counters, the contents of reads and reports, the end of a session that
  RemoveFabric brings about (`mat-device/src/net/runtime/serve.rs:84`;
  DeviceCommissioning has it) and requests that cannot be decoded, which get no
  answer (`serve.rs:241`). The counters seen are an exact set here; the bitmap and
  its edge are in RxWindow. Btp and Pipe: the discovery of the device, the GATT
  plumbing, and the truncation of a message to `MAX_DATAGRAM` by its reader
  (`mat-controller/src/transport.rs:148`).
- WarmSession: the socket's wire format, `status`, `reload`, listen streams, the
  daemon's own lock. Subscription: the order of answering a report and handing it
  to the loop (the code answers first; in between only an operation that returns
  looks at the record, and only an abort ends the wait), delays, jitter, stagger and the urgent regime
  of the back-off (a wait may end at any time), deadlines of reports, more than one
  attribute path.
- GroupProvision: group names, endpoints, the list of fabrics `g/gfl`, the second
  and third slot of a key set, RemoveAllGroups, AddGroupIfIdentifying,
  KeySetRead, appends to the ACL, ACL targets and CATs. A response to a command
  is one answer: chunking and MRP are in SecureSession.
- Commission: see section 3. Certificates, attestation and the order of the
  requests merged into one step.
- DNS-SD, the device's data model, alias files: sequential, or wire
  format and sockets; candidates at most.
- CLI parsing and output, codecs, cryptography, generated identifier tables: no
  state of their own. The models rely on what the cryptography binds, which is
  stated where it is used.
