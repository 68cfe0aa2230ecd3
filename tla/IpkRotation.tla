---------------------------- MODULE IpkRotation ----------------------------
(***************************************************************************)
(* `mat fabric rotate-ipk`: rotation of a fabric's IPK (key set 0).        *)
(*                                                                         *)
(* The controller keeps three slots in its key-value store (ipk-epoch,     *)
(* ipk-epoch-next, ipk-epoch-prev) and the operational key set f/<idx>/k/0.*)
(* Each run of the command is a process that reads the store, distributes  *)
(* {old, new} to the nodes one at a time (CASE with the old key,           *)
(* KeySetWrite, CASE with the new key) and commits only when every listed  *)
(* node succeeded.  A process may die between any two steps, a node step   *)
(* may fail or time out anywhere, and the store's lock is held for one     *)
(* transaction at a time, so two commands may interleave.                  *)
(*                                                                         *)
(* An epoch key stands for the operational key derived from it: the        *)
(* derivation is injective for a given fabric.                             *)
(***************************************************************************)
EXTENDS Naturals, FiniteSets

CONSTANTS
    Nodes,        \* devices that are, or may become, members of the fabric
    Epochs,       \* epoch keys the CSPRNG can produce; bounds the rotations
    Default,      \* the chip-tool default epoch a fresh fabric starts with
    Procs,        \* concurrent `mat` processes
    NoEpoch,      \* an absent key of the store
    Concurrent,   \* TRUE: a command may start while another one runs
    SubsetRuns,   \* TRUE: the operator may pass --nodes <subset>
    MaxFaults     \* bound on node failures and process crashes

ASSUME DefaultIsEpoch == Default \in Epochs
ASSUME NoEpochAssumption == NoEpoch \notin Epochs
ASSUME MaxFaultsNat == MaxFaults \in Nat
ASSUME FlagsBoolean == Concurrent \in BOOLEAN /\ SubsetRuns \in BOOLEAN

VARIABLES
    current, next, prev,  \* the three ipk-epoch slots of the store
    k0,           \* slot 0 of f/<idx>/k/0, the key CASE uses by default
    used,         \* epochs drawn so far (a 128-bit CSPRNG does not repeat)
    ledger,       \* commissioned nodes
    accept,       \* IPK epochs each device tries when it answers Sigma1
    missed,       \* history: commits since the node last proved the current key
    pc, mode, list, todo, failed, at,   \* per process: control and node loop
    cur,          \* per process: the epoch resolved as current when it started
    wr, vf,       \* per process: epochs that open the write / verify CASE
    faults

storeVars == <<current, next, prev, k0>>
nodeVars == <<ledger, accept, missed>>
procVars == <<mode, list, cur, wr, vf>>
rotationVars == <<storeVars, nodeVars, procVars, used, pc, todo, failed, at, faults>>

Modes == {"rotate", "catchup", "commission"}
Labels == {"idle", "resolve", "adopt", "read", "readpending", "begin",
           "pick", "write", "verify"}
MaybeEpoch == Epochs \cup {NoEpoch}
Quiet == \A p \in Procs : pc[p] = "idle"

RotationTypeOK ==
    /\ current \in MaybeEpoch /\ next \in MaybeEpoch /\ prev \in MaybeEpoch
    /\ k0 \in Epochs
    /\ used \subseteq Epochs
    /\ ledger \subseteq Nodes
    /\ accept \in [Nodes -> SUBSET Epochs]
    /\ missed \in [Nodes -> Nat]
    /\ pc \in [Procs -> Labels]
    /\ mode \in [Procs -> Modes]
    /\ list \in [Procs -> SUBSET Nodes]
    /\ todo \in [Procs -> SUBSET Nodes]
    /\ failed \in [Procs -> BOOLEAN]
    /\ at \in [Procs -> Nodes \cup {NoEpoch}]
    /\ cur \in [Procs -> MaybeEpoch]
    /\ wr \in [Procs -> MaybeEpoch]
    /\ vf \in [Procs -> MaybeEpoch]
    /\ faults \in 0..MaxFaults

RotationInit ==
    /\ current \in {NoEpoch, Default} /\ next = NoEpoch /\ prev = NoEpoch
    /\ k0 = Default
    /\ used = {Default}
    /\ ledger \in SUBSET Nodes
    /\ accept = [n \in Nodes |-> IF n \in ledger THEN {Default} ELSE {}]
    /\ missed = [n \in Nodes |-> 0]
    /\ pc = [p \in Procs |-> "idle"]
    /\ mode = [p \in Procs |-> "rotate"]
    /\ list = [p \in Procs |-> {}]
    /\ todo = [p \in Procs |-> {}]
    /\ failed = [p \in Procs |-> FALSE]
    /\ at = [p \in Procs |-> NoEpoch]
    /\ cur = [p \in Procs |-> NoEpoch]
    /\ wr = [p \in Procs |-> NoEpoch]
    /\ vf = [p \in Procs |-> NoEpoch]
    /\ faults = 0

Goto(p, l) == pc' = [pc EXCEPT ![p] = l]
Exit(p) == Goto(p, "idle")

-----------------------------------------------------------------------------
(* Starting a command, and finding the current epoch.                      *)

NodeLists == IF SubsetRuns THEN SUBSET ledger ELSE {ledger}

Start(p, m, L) ==
    /\ pc[p] = "idle"
    /\ Concurrent \/ Quiet
    /\ Goto(p, "resolve")
    /\ mode' = [mode EXCEPT ![p] = m]
    /\ list' = [list EXCEPT ![p] = L]
    /\ todo' = [todo EXCEPT ![p] = L]
    /\ failed' = [failed EXCEPT ![p] = FALSE]
    /\ cur' = [cur EXCEPT ![p] = k0]    \* load_fabric_credentials reads k/0
    /\ wr' = [wr EXCEPT ![p] = NoEpoch]
    /\ vf' = [vf EXCEPT ![p] = NoEpoch]
    /\ at' = [at EXCEPT ![p] = NoEpoch]
    /\ UNCHANGED <<storeVars, nodeVars, used, faults>>

Run(p) ==
    \/ \E m \in {"rotate", "catchup"}, L \in NodeLists : Start(p, m, L)
    \/ \E n \in Nodes \ ledger : Start(p, "commission", {n})

\* The persisted epoch must derive the operational key read before; a store
\* without one adopts the default when that is what the key set holds.
Resolve(p) ==
    /\ pc[p] = "resolve"
    /\ \/ current = cur[p] /\ Goto(p, "read")
       \/ current = NoEpoch /\ cur[p] = Default /\ Goto(p, "adopt")
       \/ current # cur[p] /\ ~(current = NoEpoch /\ cur[p] = Default) /\ Exit(p)
    /\ UNCHANGED <<storeVars, nodeVars, procVars, used, todo, failed, at, faults>>

Adopt(p) ==
    /\ pc[p] = "adopt"
    /\ current' = Default
    /\ cur' = [cur EXCEPT ![p] = Default]
    /\ Goto(p, "read")
    /\ UNCHANGED <<next, prev, k0, nodeVars, mode, list, wr, vf, used, todo,
                   failed, at, faults>>

-----------------------------------------------------------------------------
(* rotate: resume the pending epoch or begin a new one; catch_up: the      *)
(* previous epoch opens the write session, a pending rotation refuses.     *)

ReadNext(p) ==
    /\ pc[p] = "read" /\ mode[p] = "rotate"
    /\ wr' = [wr EXCEPT ![p] = cur[p]]
    /\ \/ /\ next # NoEpoch
          /\ vf' = [vf EXCEPT ![p] = next]
          /\ Goto(p, "pick")
          /\ UNCHANGED used
       \/ /\ next = NoEpoch
          /\ \E e \in Epochs \ used :
                /\ vf' = [vf EXCEPT ![p] = e]
                /\ used' = used \cup {e}
          /\ Goto(p, "begin")
       \/ \* bound: the keys of the instance are used up
          /\ next = NoEpoch /\ Epochs \subseteq used
          /\ Exit(p)
          /\ UNCHANGED <<vf, used>>
    /\ UNCHANGED <<storeVars, nodeVars, mode, list, cur, todo, failed, at, faults>>

\* Mutant: a pending key is overwritten.
BeginOverwrites(p) ==
    /\ pc[p] = "begin"
    /\ next' = vf[p]
    /\ Goto(p, "pick")
    /\ UNCHANGED <<current, prev, k0, nodeVars, procVars, used, todo, failed,
                   at, faults>>

BeginIpkRotation(p) ==
    /\ pc[p] = "begin"
    /\ \/ next \in {NoEpoch, vf[p]} /\ next' = vf[p] /\ Goto(p, "pick")
       \/ next \notin {NoEpoch, vf[p]} /\ next' = next /\ Exit(p)
    /\ UNCHANGED <<current, prev, k0, nodeVars, procVars, used, todo, failed,
                   at, faults>>

ReadPrev(p) ==
    /\ pc[p] = "read" /\ mode[p] = "catchup"
    /\ \/ /\ prev # NoEpoch
          /\ wr' = [wr EXCEPT ![p] = prev]
          /\ vf' = [vf EXCEPT ![p] = cur[p]]
          /\ Goto(p, "readpending")
       \/ prev = NoEpoch /\ Exit(p) /\ UNCHANGED <<wr, vf>>
    /\ UNCHANGED <<storeVars, nodeVars, mode, list, cur, used, todo, failed,
                   at, faults>>

ReadPending(p) ==
    /\ pc[p] = "readpending"
    /\ Goto(p, IF next = NoEpoch THEN "pick" ELSE "idle")
    /\ UNCHANGED <<storeVars, nodeVars, procVars, used, todo, failed, at, faults>>

-----------------------------------------------------------------------------
(* distribute / one_node, for one node of the list at a time.              *)

Establish(p, n) ==
    /\ pc[p] = "pick" /\ n \in todo[p]
    /\ wr[p] \in accept[n]
    /\ at' = [at EXCEPT ![p] = n]
    /\ Goto(p, "write")
    /\ UNCHANGED <<storeVars, nodeVars, procVars, used, todo, failed, faults>>

\* Mutant: only the new epoch is sent.
KeySetWriteNewOnly(p) ==
    /\ pc[p] = "write"
    /\ accept' = [accept EXCEPT ![at[p]] = {vf[p]}]
    /\ Goto(p, "verify")
    /\ UNCHANGED <<storeVars, ledger, missed, procVars, used, todo, failed, at, faults>>
\* upsert_keyset_epochs replaces every epoch of the device's key set 0.
KeySetWrite(p) ==
    /\ pc[p] = "write"
    /\ accept' = [accept EXCEPT ![at[p]] = {wr[p], vf[p]}]
    /\ Goto(p, "verify")
    /\ UNCHANGED <<storeVars, ledger, missed, procVars, used, todo, failed, at, faults>>

Verify(p) ==
    /\ pc[p] = "verify"
    /\ vf[p] \in accept[at[p]]
    /\ todo' = [todo EXCEPT ![p] = @ \ {at[p]}]
    /\ missed' = IF vf[p] = current THEN [missed EXCEPT ![at[p]] = 0] ELSE missed
    /\ Goto(p, "pick")
    /\ UNCHANGED <<storeVars, ledger, accept, procVars, used, failed, at, faults>>

\* establish refused, KeySetWrite refused or its answer lost, verify refused,
\* or the per-node timeout: the loop goes on with the next node.
NodeFails(p, n) ==
    /\ \/ pc[p] = "pick" /\ n \in todo[p]
       \/ pc[p] \in {"write", "verify"} /\ n = at[p]
    /\ \/ /\ pc[p] = "pick" /\ wr[p] \notin accept[n]
          /\ UNCHANGED faults
       \/ /\ pc[p] = "verify" /\ vf[p] \notin accept[n]
          /\ UNCHANGED faults
       \/ /\ faults < MaxFaults
          /\ faults' = faults + 1
    /\ todo' = [todo EXCEPT ![p] = @ \ {n}]
    /\ failed' = [failed EXCEPT ![p] = TRUE]
    /\ Goto(p, "pick")
    /\ UNCHANGED <<storeVars, nodeVars, procVars, used, at>>

-----------------------------------------------------------------------------
(* The end of a command.                                                   *)

\* Mutants: failed nodes do not hold the commit back; the pending slot is not removed.
CommitDespiteFailures(p) ==
    /\ pc[p] = "pick" /\ todo[p] = {} /\ mode[p] = "rotate"
    /\ k0' = vf[p] /\ current' = vf[p] /\ prev' = cur[p] /\ next' = NoEpoch
    /\ missed' = [n \in Nodes |->
                     IF n \notin ledger \/ n \in list[p] THEN 0 ELSE missed[n] + 1]
    /\ Exit(p)
    /\ UNCHANGED <<ledger, accept, procVars, used, todo, failed, at, faults>>
CommitKeepsPending(p) ==
    /\ pc[p] = "pick" /\ todo[p] = {} /\ ~failed[p] /\ mode[p] = "rotate"
    /\ k0' = vf[p] /\ current' = vf[p] /\ prev' = cur[p]
    /\ missed' = [n \in Nodes |->
                     IF n \notin ledger \/ n \in list[p] THEN 0 ELSE missed[n] + 1]
    /\ Exit(p)
    /\ UNCHANGED <<next, ledger, accept, procVars, used, todo, failed, at, faults>>

\* One store transaction: refused unless the pending epoch is still ours.
CommitIpkRotation(p) ==
    /\ pc[p] = "pick" /\ todo[p] = {} /\ ~failed[p] /\ mode[p] = "rotate"
    /\ \/ /\ next = vf[p]
          /\ k0' = vf[p] /\ current' = vf[p] /\ prev' = cur[p] /\ next' = NoEpoch
          /\ missed' = [n \in Nodes |->
                          IF n \notin ledger \/ n \in list[p] THEN 0
                                                              ELSE missed[n] + 1]
       \/ next # vf[p] /\ UNCHANGED <<storeVars, missed>>
    /\ Exit(p)
    /\ UNCHANGED <<ledger, accept, procVars, used, todo, failed, at, faults>>

\* pending, caught_up or catch_up_incomplete: nothing is written.
Report(p) ==
    /\ pc[p] = "pick" /\ todo[p] = {} /\ (failed[p] \/ mode[p] = "catchup")
    /\ Exit(p)
    /\ UNCHANGED <<storeVars, nodeVars, procVars, used, todo, failed, at, faults>>

\* abort_only: drops the pending epoch and reads nothing else.
AbortIpkRotation ==
    /\ Concurrent \/ Quiet
    /\ next # NoEpoch
    /\ next' = NoEpoch
    /\ UNCHANGED <<current, prev, k0, nodeVars, procVars, used, pc, todo,
                   failed, at, faults>>

\* commission: the epoch resolved at the start is the one AddNOC installs.
CommissionNode(p) ==
    /\ pc[p] = "read" /\ mode[p] = "commission"
    /\ accept' = [n \in Nodes |-> IF n \in list[p] THEN {cur[p]} ELSE accept[n]]
    /\ missed' = [n \in Nodes |-> IF n \in list[p] THEN 0 ELSE missed[n]]
    /\ ledger' = ledger \cup list[p]
    /\ Exit(p)
    /\ UNCHANGED <<storeVars, procVars, used, todo, failed, at, faults>>

\* The process is killed, or a store transaction fails (locked, I/O error).
Crash(p) ==
    /\ pc[p] # "idle"
    /\ faults < MaxFaults
    /\ faults' = faults + 1
    /\ Exit(p)
    /\ UNCHANGED <<storeVars, nodeVars, procVars, used, todo, failed, at>>

-----------------------------------------------------------------------------
Step(p) ==
    \/ Resolve(p) \/ Adopt(p) \/ ReadNext(p) \/ BeginIpkRotation(p)
    \/ ReadPrev(p) \/ ReadPending(p)
    \/ \E n \in Nodes : Establish(p, n) \/ NodeFails(p, n)
    \/ KeySetWrite(p) \/ Verify(p)
    \/ CommitIpkRotation(p) \/ Report(p) \/ CommissionNode(p)

RotationNext == AbortIpkRotation \/ \E p \in Procs : Run(p) \/ Step(p) \/ Crash(p)

RotationSpec == RotationInit /\ [][RotationNext]_rotationVars

\* A started command runs on; an operator whose rotation is pending keeps
\* re-running it (SF: other commands may be started in between).
RerunRotate(p) == next # NoEpoch /\ Start(p, "rotate", ledger)
RotationFairSpec ==
    /\ RotationSpec
    /\ \A p \in Procs : WF_rotationVars(Step(p)) /\ SF_rotationVars(RerunRotate(p))
-----------------------------------------------------------------------------
(* Properties.                                                             *)

\* The store never splits: the epoch slot and the operational key set, which
\* resolve_ipk_epoch compares and which only a commit rewrites, stay the same
\* key whatever step a command is interrupted at.
StoreConsistent == k0 = IF current = NoEpoch THEN Default ELSE current

\* A node that took part in every commit accepts the controller's current key,
\* and a node left out of one commit is still in reach of --catch-up: it
\* accepts the current or the previous key.  This is the claim that a rotation
\* may be interrupted, retried or aborted at any point and strands no node.
NoNodeStranded ==
    \A n \in ledger :
        /\ missed[n] = 0 => k0 \in accept[n]
        /\ missed[n] = 1 => {k0, prev} \cap accept[n] # {}

\* While a rotation is pending its key never changes: a re-run after a crash,
\* or a second command that races the first, resumes the key persisted before
\* any node was touched, so no third key is born (begin_ipk_rotation).
PendingKeyKept == [][next # NoEpoch /\ next' # NoEpoch => next' = next]_rotationVars

\* No node is handed a key that the store could not reproduce after a crash:
\* what a command writes to a node is persisted in a slot at that moment.
WrittenKeysPersisted ==
    \A p \in Procs : pc[p] = "write" =>
        {wr[p], vf[p]} \subseteq {k0, next, prev}

\* An operator who keeps re-running the command over all nodes gets a pending
\* rotation committed (or aborts it), once the faults stop, unless a node was
\* left out of a commit and needs --catch-up first.
PendingResolved ==
    (next # NoEpoch) ~> (next = NoEpoch \/ \E n \in ledger : missed[n] > 0)

\* docs/commands.md says of a rotation that ends pending: the controller still
\* uses the old IPK and every node still accepts it.
PendingLeavesNodesReachable ==
    \A p \in Procs :
        (pc[p] = "pick" /\ mode[p] = "rotate" /\ todo[p] = {} /\ failed[p]) =>
            \A n \in list[p] : k0 \in accept[n]

-----------------------------------------------------------------------------
(* The inductive invariant behind StoreConsistent and NoNodeStranded when  *)
(* commands run one at a time: what a running command knows of the store   *)
(* is still true, and the nodes it has finished with hold the new key.     *)

InLoop(p) == pc[p] \in {"pick", "write", "verify"}

OneAtATime == \A p, q \in Procs : pc[p] # "idle" /\ pc[q] # "idle" => p = q

StoreKnown ==
    \A p \in Procs :
        /\ pc[p] # "idle" => cur[p] = k0
        /\ pc[p] = "adopt" => current = NoEpoch
        /\ pc[p] \notin {"idle", "resolve", "adopt"} => current = k0

LoopKeys ==
    \A p \in Procs :
        /\ pc[p] = "begin" => mode[p] = "rotate" /\ vf[p] \in Epochs
        /\ pc[p] = "readpending" => mode[p] = "catchup"
        /\ InLoop(p) => mode[p] \in {"rotate", "catchup"}
        /\ (pc[p] = "begin" \/ InLoop(p)) /\ mode[p] = "rotate" => wr[p] = k0
        /\ InLoop(p) /\ mode[p] = "rotate" => vf[p] = next /\ next # NoEpoch
        /\ (pc[p] = "readpending" \/ InLoop(p)) /\ mode[p] = "catchup" =>
              wr[p] = prev /\ prev # NoEpoch /\ vf[p] = k0
        /\ pc[p] \in {"write", "verify"} => at[p] \in Nodes

VerifiedHoldTarget ==
    \A p \in Procs :
        /\ pc[p] # "idle" /\ ~InLoop(p) => todo[p] = list[p]
        /\ InLoop(p) /\ mode[p] = "rotate" /\ ~failed[p] =>
              \A n \in list[p] \ todo[p] : vf[p] \in accept[n]

RotationInv ==
    /\ RotationTypeOK /\ StoreConsistent /\ NoNodeStranded
    /\ OneAtATime /\ StoreKnown /\ LoopKeys /\ VerifiedHoldTarget
=============================================================================
