------------------------- MODULE CommissionProofs -------------------------
(***************************************************************************)
(* Proofs about Commission, for any processes, devices, ids and bounds.    *)
(* IInv adds to HandedOutIsNew what makes it inductive: while no two       *)
(* commands have overlapped, the ledger on disk is the one the running     *)
(* command read, its temporary file is its own, and the mark lies above    *)
(* every id ever recorded.  DInv, on top of it, follows the routes and the *)
(* devices, for LedgerSound and FallbackIsClean.                           *)
(***************************************************************************)
EXTENDS Commission, TLAPS, WellFoundedInduction, SequenceTheorems

\* A set of node ids has its maximum: the least of its bounds.
LEMMA MaxExists ==
    ASSUME NEW S \in SUBSET Ids, S # {}
    PROVE  Max(S) \in S /\ \A n \in S : n <= Max(S)
<1> DEFINE Bounds == {b \in Nat : \A n \in S : n <= b}
<1>1. MaxId \in Bounds
    BY MaxIdNat DEF Ids
<1>2. PICK b \in Bounds : \A c \in Bounds : ~(<<c, b>> \in OpToRel(<, Nat))
    BY <1>1, WFMin, NatLessThanWellFounded, Zenon
<1>3. \A c \in Bounds : ~(c < b)
    BY <1>2 DEF OpToRel
<1>4. b \in S
  <2> SUFFICES ASSUME b \notin S PROVE FALSE
      OBVIOUS
  <2>1. \A n \in S : n \in Nat /\ n >= 1 /\ n <= b - 1
      BY DEF Ids
  <2>2. b - 1 \in Bounds
      BY <2>1
  <2> QED BY <1>3, <2>2
<1>5. \E x \in S : \A y \in S : x >= y
    BY <1>4 DEF Ids
<1>6. Max(S) \in S /\ \A y \in S : Max(S) >= y
    BY <1>5 DEF Max
<1> QED BY <1>6 DEF Ids

\* The mark lies above every id of the ledger and inside the types.
LEMMA AfterAllBounds ==
    ASSUME NEW S \in SUBSET Ids
    PROVE  /\ AfterAll(S) \in 1..(MaxId + 1)
           /\ \A n \in S : n < AfterAll(S)
<1>1. CASE S = {}
    BY <1>1, MaxIdNat DEF AfterAll
<1>2. CASE S # {}
  <2>1. Max(S) \in Ids /\ \A n \in S : n \in Ids /\ n <= Max(S)
      BY <1>2, MaxExists
  <2>2. AfterAll(S) = Max(S) + 1
      BY <1>2 DEF AfterAll
  <2> QED BY <2>1, <2>2, MaxIdNat DEF Ids
<1> QED BY <1>1, <1>2

\* What load_ledger returns is a ledger whose mark is above its nodes.
LEMMA LoadedLedger ==
    ASSUME FileTypeOK, Readable
    PROVE  LoadLedger \in Ledgers /\ NextNodeId(LoadLedger) = LoadLedger.next
<1>1. CASE disk = NoFile
    BY <1>1, MaxIdNat DEF LoadLedger, EmptyLedger, Ledgers, NextNodeId, Larger, AfterAll
<1>2. CASE disk # NoFile
  <2> DEFINE l == content[disk]
  <2>1. l \in Ledgers
      BY <1>2 DEF FileTypeOK, Readable
  <2>2. /\ l.nodes \in SUBSET Ids /\ l.next \in 0..(MaxId + 1)
        /\ l = [nodes |-> l.nodes, next |-> l.next]
      BY <2>1 DEF Ledgers
  <2> DEFINE m == Larger(l.next, AfterAll(l.nodes))
  <2>3. AfterAll(l.nodes) \in 1..(MaxId + 1)
      BY <2>2, AfterAllBounds
  <2>4. m \in 0..(MaxId + 1) /\ m >= AfterAll(l.nodes)
      BY <2>2, <2>3, MaxIdNat DEF Larger
  <2>5. LoadLedger = [nodes |-> l.nodes, next |-> m]
      BY <1>2, <2>1, <2>2 DEF LoadLedger, Ledgers
  <2> QED BY <2>2, <2>3, <2>4, <2>5 DEF Ledgers, NextNodeId, Larger
<1> QED BY <1>1, <1>2

-----------------------------------------------------------------------------
(* The part of TypeOK about the files and the commands.                    *)

CmdTypeOK ==
    /\ FileTypeOK
    /\ pc \in [Procs -> Labels] /\ kind \in [Procs -> {"commission", "unpair", "forced"}]
    /\ id \in [Procs -> 0..MaxId] /\ auto \in [Procs -> BOOLEAN]
    /\ snap \in [Procs -> Ledgers] /\ fd \in [Procs -> Inodes \cup {NoFile}]
    /\ overlapped \in BOOLEAN
    /\ issued \subseteq Ids

\* A running command has an id, and a file once it has opened one.
RunTyped ==
    \A p \in Procs :
        /\ Running(p) => id[p] \in Ids
        /\ pc[p] \in {"write", "rename"} => fd[p] \in Inodes

\* What commands that run one after the other know: the ledger on disk is the
\* one they read, the temporary file is theirs, and the mark is above every id
\* that was ever recorded.
Serial ==
    /\ Readable
    /\ \A p, q \in Procs : Running(p) /\ Running(q) => p = q
    /\ tmp # NoFile => tmp # disk
    /\ \A n \in issued : n < LoadLedger.next
    /\ \A p \in Procs :
         /\ Running(p) => snap[p] = LoadLedger
         /\ Running(p) /\ auto[p] => \A n \in issued : n < id[p]
         /\ pc[p] \in {"write", "rename"} => tmp = fd[p]
         /\ pc[p] = "write" => content[fd[p]] = Blank
         /\ pc[p] = "rename" => content[fd[p]] = Outcome(p)

IInv == CmdTypeOK /\ RunTyped /\ (Alone => Serial)

-----------------------------------------------------------------------------
(* Most steps leave the files alone and either go on or end a command.     *)

GoesOn(p) ==
    /\ pc[p] \in {"discover", "route", "remove"}
    /\ \/ pc' = pc
       \/ \E l \in {"route", "create"} : pc' = [pc EXCEPT ![p] = l]
    /\ UNCHANGED <<kind, id, auto, snap, fd>>

Quiet ==
    /\ UNCHANGED <<fileVars, issued, overlapped>>
    /\ \/ UNCHANGED <<pc, kind, id, auto, snap, fd>>
       \/ \E p \in Procs : GoesOn(p) \/ Ends(p)

\* The steps on a route, on a device and of a process that dies are quiet.
LEMMA QuietSteps ==
    /\ \A p \in Procs :
         Route(p) \/ RemoveFabric(p) \/ Unreachable(p) \/ RenameFails(p) \/ Crash(p) => Quiet
    /\ \A d \in Devices : FailSafeLapses(d) \/ FailSafeSwept(d) => Quiet
<1> USE DEF Quiet, GoesOn, history
<1>1. ASSUME NEW p \in Procs, Discover(p) PROVE Quiet
    BY <1>1 DEF Discover, Goto
<1>2. ASSUME NEW p \in Procs, DiscoveryFails(p) PROVE Quiet
    BY <1>2 DEF DiscoveryFails
<1>3. ASSUME NEW p \in Procs, Resolve(p) \/ Scan(p) PROVE Quiet
    BY <1>3 DEF Resolve, Scan, Proceeds
<1>4. ASSUME NEW p \in Procs, Ask(p) PROVE Quiet
    BY <1>4 DEF Ask, Proceeds, CarriedOut
<1>5. ASSUME NEW p \in Procs, Find(p) PROVE Quiet
    BY <1>5 DEF Find
<1>6. ASSUME NEW p \in Procs, Complete(p) PROVE Quiet
    BY <1>6 DEF Complete, CarriedOut, Goto, At
<1>7. ASSUME NEW p \in Procs, Refused(p) PROVE Quiet
    BY <1>7 DEF Refused, StepFails
<1>8. ASSUME NEW p \in Procs, AnswerLost(p) PROVE Quiet
    BY <1>8 DEF AnswerLost, StepFails, CarriedOut
<1>9. ASSUME NEW p \in Procs, RemoveFabric(p) PROVE Quiet
    BY <1>9 DEF RemoveFabric, Goto
<1>10. ASSUME NEW p \in Procs, Unreachable(p) PROVE Quiet
    BY <1>10 DEF Unreachable, Goto
<1>11. ASSUME NEW p \in Procs, RenameFails(p) PROVE Quiet
    BY <1>11 DEF RenameFails
<1>12. ASSUME NEW p \in Procs, Crash(p) PROVE Quiet
    BY <1>12 DEF Crash
<1>13. ASSUME NEW d \in Devices, FailSafeLapses(d) \/ FailSafeSwept(d) PROVE Quiet
    BY <1>13 DEF FailSafeLapses, FailSafeSwept, cmdVars
<1> QED BY <1>1, <1>2, <1>3, <1>4, <1>5, <1>6, <1>7, <1>8, <1>9, <1>10, <1>11, <1>12, <1>13
        DEF Route

-----------------------------------------------------------------------------
(* The invariant.                                                          *)

\* What a command writes is a ledger, and its mark does not fall back.
LEMMA OutcomeLedger ==
    ASSUME NEW p \in Procs, snap[p] \in Ledgers, id[p] \in Ids
    PROVE  /\ Outcome(p) \in Ledgers
           /\ Outcome(p).next >= snap[p].next
           /\ kind[p] = "commission" => Outcome(p).next > id[p]
<1> DEFINE l == snap[p]
<1>1. /\ l.nodes \in SUBSET Ids /\ l.next \in 0..(MaxId + 1)
      /\ l = [nodes |-> l.nodes, next |-> l.next]
    BY DEF Ledgers
<1>2. CASE kind[p] = "commission"
  <2>1. Outcome(p) = [nodes |-> l.nodes \cup {id[p]}, next |-> Larger(l.next, id[p] + 1)]
      BY <1>2 DEF Outcome, UpsertNode
  <2>2. id[p] \in Nat /\ id[p] + 1 \in 0..(MaxId + 1)
      BY MaxIdNat DEF Ids
  <2>3. /\ Larger(l.next, id[p] + 1) \in 0..(MaxId + 1)
        /\ Larger(l.next, id[p] + 1) >= l.next /\ Larger(l.next, id[p] + 1) > id[p]
      BY <1>1, <2>2, MaxIdNat DEF Larger
  <2> QED BY <1>1, <1>2, <2>1, <2>3 DEF Ledgers
<1>3. CASE kind[p] # "commission"
  <2>1. Outcome(p) = [nodes |-> l.nodes \ {id[p]}, next |-> l.next]
      BY <1>1, <1>3 DEF Outcome, RemoveNode, Ledgers
  <2> QED BY <1>1, <1>3, <2>1 DEF Ledgers
<1> QED BY <1>2, <1>3

\* Quiet steps keep the invariant.
LEMMA QuietKeeps == ASSUME IInv, Quiet PROVE IInv'
<1> USE DEF IInv, CmdTypeOK, FileTypeOK, RunTyped, Labels, Running
<1>1. CASE UNCHANGED <<pc, kind, id, auto, snap, fd>>
    BY <1>1 DEF Quiet, fileVars, Alone, Serial, Readable, LoadLedger, Outcome
<1>2. ASSUME NEW p \in Procs, GoesOn(p) PROVE IInv'
  <2>1. CmdTypeOK' /\ RunTyped'
      BY <1>2 DEF Quiet, fileVars, GoesOn
  <2>2. ASSUME Alone PROVE Serial'
      BY <1>2, <2>2 DEF Quiet, fileVars, GoesOn, Alone, Serial, Readable, LoadLedger, Outcome
  <2> QED BY <2>1, <2>2 DEF Quiet, Alone
<1>3. ASSUME NEW p \in Procs, Ends(p) PROVE IInv'
  <2>0. EmptyLedger \in Ledgers
      BY MaxIdNat DEF EmptyLedger, Ledgers
  <2>1. CmdTypeOK' /\ RunTyped'
    <3>1. /\ pc' = [pc EXCEPT ![p] = "idle"] /\ kind' = [kind EXCEPT ![p] = "commission"]
          /\ id' = [id EXCEPT ![p] = 0] /\ auto' = [auto EXCEPT ![p] = FALSE]
          /\ snap' = [snap EXCEPT ![p] = EmptyLedger] /\ fd' = [fd EXCEPT ![p] = NoFile]
          /\ UNCHANGED <<content, disk, tmp, issued, overlapped>>
        BY <1>3 DEF Ends, Goto, Quiet, fileVars
    <3>2. 0 \in 0..MaxId
        BY MaxIdNat
    <3> QED BY <3>1, <3>2, <2>0
  <2>2. ASSUME Alone PROVE Serial'
      BY <1>3, <2>2 DEF Quiet, fileVars, Ends, Goto, Alone, Serial, Readable, LoadLedger, Outcome
  <2> QED BY <2>1, <2>2 DEF Quiet, Alone
<1> QED BY <1>1, <1>2, <1>3 DEF Quiet

\* A command reads the ledger and, without --node, takes the mark as its id.
LEMMA StartKeeps ==
    ASSUME IInv, NEW p \in Procs, NEW k \in {"commission", "unpair", "forced"}, NEW n \in Ids,
           NEW a \in BOOLEAN, NEW d, NEW l \in {"discover", "remove"},
           Readable, Starts(p, k, n, a, d), Goto(p, l),
           a => n = NextNodeId(LoadLedger)
    PROVE  IInv'
<1> USE DEF IInv
<1>0. UNCHANGED <<content, disk, tmp, fd, issued>> /\ pc[p] = "idle"
    BY DEF Starts, fileVars, Running
<1>1. LoadLedger \in Ledgers /\ NextNodeId(LoadLedger) = LoadLedger.next
    BY LoadedLedger DEF CmdTypeOK
<1>2. /\ pc' = [pc EXCEPT ![p] = l] /\ kind' = [kind EXCEPT ![p] = k]
      /\ id' = [id EXCEPT ![p] = n] /\ auto' = [auto EXCEPT ![p] = a]
      /\ snap' = [snap EXCEPT ![p] = LoadLedger]
      /\ overlapped' = (overlapped \/ \E q \in Procs : Running(q))
    BY DEF Starts, Goto
<1>3. CmdTypeOK' /\ RunTyped'
    BY <1>0, <1>1, <1>2, MaxIdNat DEF CmdTypeOK, FileTypeOK, RunTyped, Running, Labels, Ids
<1>4. ASSUME ~overlapped' PROVE Serial'
  <2>1. ~overlapped /\ \A q \in Procs : pc[q] = "idle"
      BY <1>2, <1>4 DEF Running
  <2>2. Serial
      BY <2>1 DEF Alone
  <2>3. LoadLedger' = LoadLedger /\ Readable'
      BY <1>0 DEF LoadLedger, Readable
  <2>4. \A q \in Procs : q # p => pc'[q] = "idle"
      BY <1>2, <2>1 DEF CmdTypeOK
  <2>5. pc'[p] = l /\ id'[p] = n /\ auto'[p] = a /\ snap'[p] = LoadLedger
      BY <1>2 DEF CmdTypeOK
  <2> QED BY <1>0, <1>1, <2>2, <2>3, <2>4, <2>5 DEF Serial, Running
<1> QED BY <1>3, <1>4 DEF Alone

\* The temporary file is not the ledger while nobody else runs.
LEMMA CreateKeeps == ASSUME IInv, NEW p \in Procs, Create(p) PROVE IInv'
<1> USE DEF IInv
<1>1. PICK i \in Inodes : CreateTmp(i) /\ fd' = [fd EXCEPT ![p] = i]
    BY DEF Create
<1>2. /\ content' = [content EXCEPT ![i] = Blank] /\ tmp' = i /\ disk' = disk
      /\ IF tmp = NoFile THEN i # disk ELSE i = tmp
    BY <1>1 DEF CreateTmp
<1>3. /\ pc[p] = "create" /\ pc' = [pc EXCEPT ![p] = "write"]
      /\ UNCHANGED <<kind, id, auto, snap, issued, overlapped>>
    BY DEF Create, Goto, history
<1>4. CmdTypeOK' /\ RunTyped'
    BY <1>1, <1>2, <1>3 DEF CmdTypeOK, FileTypeOK, RunTyped, Running, Labels
<1>5. ASSUME Alone PROVE Serial'
  <2>1. Serial
      BY <1>5
  <2>2. i # disk
      BY <1>2, <2>1 DEF Serial
  <2>3. LoadLedger' = LoadLedger /\ Readable'
      BY <1>2, <2>1, <2>2 DEF LoadLedger, Readable, Serial, CmdTypeOK, FileTypeOK
  <2>4. \A q \in Procs : q # p => pc[q] = "idle" /\ pc'[q] = "idle"
      BY <1>3, <2>1 DEF Serial, Running, CmdTypeOK
  <2>5. pc'[p] = "write" /\ fd'[p] = tmp' /\ content'[fd'[p]] = Blank
      BY <1>1, <1>2, <1>3 DEF CmdTypeOK, FileTypeOK
  <2> QED BY <1>2, <1>3, <2>1, <2>2, <2>3, <2>4, <2>5 DEF Serial, Running
<1> QED BY <1>3, <1>4, <1>5 DEF Alone

\* The ledger of the command goes to the temporary file.
LEMMA WriteKeeps == ASSUME IInv, NEW p \in Procs, Write(p) PROVE IInv'
<1> USE DEF IInv
<1>1. /\ pc[p] = "write" /\ pc' = [pc EXCEPT ![p] = "rename"]
      /\ \/ content' = [content EXCEPT ![fd[p]] = Outcome(p)]
         \/ content[fd[p]] # Blank /\ content' = [content EXCEPT ![fd[p]] = Torn]
      /\ UNCHANGED <<disk, tmp, kind, id, auto, snap, fd, issued, overlapped>>
    BY DEF Write, WriteTmp, Goto, history
<1>2. fd[p] \in Inodes /\ id[p] \in Ids /\ snap[p] \in Ledgers
    BY <1>1 DEF RunTyped, Running, CmdTypeOK
<1>3. CmdTypeOK' /\ RunTyped'
    BY <1>1, <1>2, OutcomeLedger DEF CmdTypeOK, FileTypeOK, RunTyped, Running, Labels
<1>4. ASSUME Alone PROVE Serial'
  <2>1. Serial
      BY <1>4
  <2>2. fd[p] = tmp /\ fd[p] # disk
      BY <1>1, <1>2, <2>1, NoFileIsNoInode DEF Serial
  <2>3. LoadLedger' = LoadLedger /\ Readable'
      BY <1>1, <2>1, <2>2 DEF LoadLedger, Readable, Serial, CmdTypeOK, FileTypeOK
  <2>4. \A q \in Procs : q # p => pc[q] = "idle" /\ pc'[q] = "idle"
      BY <1>1, <2>1 DEF Serial, Running, CmdTypeOK
  <2>5. pc'[p] = "rename" /\ Outcome(p)' = Outcome(p) /\ content'[fd[p]] = Outcome(p)
      BY <1>1, <1>2, <2>1 DEF Serial, CmdTypeOK, FileTypeOK, Outcome
  <2> QED BY <1>1, <2>1, <2>2, <2>3, <2>4, <2>5 DEF Serial, Running
<1> QED BY <1>1, <1>3, <1>4 DEF Alone

\* The new ledger: its mark is above the id that is now recorded.
LEMMA RenameKeeps == ASSUME IInv, NEW p \in Procs, Rename(p) PROVE IInv'
<1> USE DEF IInv
<1>1. /\ pc[p] = "rename" /\ tmp # NoFile
      /\ disk' = tmp /\ tmp' = NoFile /\ content' = content /\ overlapped' = overlapped
      /\ issued' = IF kind[p] = "commission" THEN issued \cup {id[p]} ELSE issued
    BY DEF Rename, RenameTmp
<1>2. /\ pc' = [pc EXCEPT ![p] = "idle"] /\ kind' = [kind EXCEPT ![p] = "commission"]
      /\ id' = [id EXCEPT ![p] = 0] /\ auto' = [auto EXCEPT ![p] = FALSE]
      /\ snap' = [snap EXCEPT ![p] = EmptyLedger] /\ fd' = [fd EXCEPT ![p] = NoFile]
    BY DEF Rename, Ends, Goto
<1>3. id[p] \in Ids /\ snap[p] \in Ledgers /\ EmptyLedger \in Ledgers
    BY <1>1, MaxIdNat DEF RunTyped, Running, CmdTypeOK, EmptyLedger, Ledgers
<1>4. CmdTypeOK' /\ RunTyped'
    BY <1>1, <1>2, <1>3, MaxIdNat DEF CmdTypeOK, FileTypeOK, RunTyped, Running, Labels
<1>5. ASSUME Alone PROVE Serial'
  <2>1. Serial
      BY <1>5
  <2>2. content'[disk'] = Outcome(p) /\ disk' # NoFile /\ disk' \in Inodes
      BY <1>1, <2>1 DEF Serial, CmdTypeOK, FileTypeOK
  <2>3. /\ Outcome(p) \in Ledgers /\ Outcome(p).next >= snap[p].next
        /\ kind[p] = "commission" => Outcome(p).next > id[p]
      BY <1>3, OutcomeLedger
  <2>4. Readable'
      BY <2>2, <2>3, TornIsNoLedger DEF Readable
  <2>5. \A n \in issued' : n < Outcome(p).next
    <3>1. \A n \in issued : n < snap[p].next
        BY <1>1, <2>1 DEF Serial, Running
    <3>2. snap[p].next \in Int /\ Outcome(p).next \in Int /\ \A n \in issued : n \in Int
        BY <1>3, <2>3 DEF Ledgers, CmdTypeOK, Ids
    <3> QED BY <1>1, <2>3, <3>1, <3>2
  <2>6. LoadLedger'.next = Larger(Outcome(p).next, AfterAll(Outcome(p).nodes))
      BY <2>2, <2>3 DEF LoadLedger, Ledgers
  <2>7. \A n \in issued' : n < LoadLedger'.next
    <3>1. Outcome(p).next \in Int /\ AfterAll(Outcome(p).nodes) \in Int
        BY <2>3, AfterAllBounds DEF Ledgers
    <3>2. \A n \in issued' : n \in Int
        BY <1>4 DEF CmdTypeOK, Ids
    <3> QED BY <2>5, <2>6, <3>1, <3>2 DEF Larger
  <2>8. \A q \in Procs : pc'[q] = "idle"
      BY <1>1, <1>2, <2>1 DEF Serial, Running, CmdTypeOK
  <2> QED BY <1>1, <2>4, <2>7, <2>8 DEF Serial, Running
<1> QED BY <1>1, <1>4, <1>5 DEF Alone

\* Every step keeps the invariant.
LEMMA StepKeeps == IInv /\ [Next]_vars => IInv'
<1> SUFFICES ASSUME IInv, [Next]_vars PROVE IInv'
    OBVIOUS
<1>1. ASSUME NEW p \in Procs, NEW d \in Devices, StartCommission(p, d) PROVE IInv'
  <2>1. CASE /\ NextNodeId(LoadLedger) \in Ids
             /\ Starts(p, "commission", NextNodeId(LoadLedger), TRUE, d)
      BY <1>1, <2>1, StartKeeps DEF StartCommission
  <2>2. ASSUME NEW n \in ExplicitIds, Starts(p, "commission", n, FALSE, d) PROVE IInv'
      BY <1>1, <2>2, StartKeeps, ExplicitAssumption DEF StartCommission
  <2> QED BY <1>1, <2>1, <2>2 DEF StartCommission
<1>2. ASSUME NEW p \in Procs, NEW n \in Ids, StartUnpair(p, n) PROVE IInv'
    BY <1>2, StartKeeps DEF StartUnpair
<1>3. ASSUME NEW p \in Procs, Save(p) PROVE IInv'
    BY <1>3, CreateKeeps, WriteKeeps, RenameKeeps, QuietSteps, QuietKeeps DEF Save
<1>4. CASE Quiet
    BY <1>4, QuietKeeps
<1>5. CASE UNCHANGED vars
    BY <1>5, QuietKeeps DEF vars, cmdVars, history, Quiet
<1> QED BY <1>1, <1>2, <1>3, <1>4, <1>5, QuietSteps DEF Next

\* Initially nothing runs and the store is new or from before the mark.
LEMMA InitHolds == Init => IInv
<1> SUFFICES ASSUME Init PROVE IInv
    OBVIOUS
<1>1. [nodes |-> {1}, next |-> 0] \in Ledgers /\ EmptyLedger \in Ledgers
    BY MaxIdNat DEF Ledgers, EmptyLedger, Ids
<1>2. FileTypeOK
    BY <1>1 DEF Init, FileTypeOK
<1>3. Readable
    BY <1>1, TornIsNoLedger DEF Init, Readable
<1>4. LoadLedger \in Ledgers /\ NextNodeId(LoadLedger) = LoadLedger.next
    BY <1>2, <1>3, LoadedLedger
<1>5. issued = LoadLedger.nodes
    BY DEF Init
<1>6. CmdTypeOK /\ RunTyped
  <2>1. issued \subseteq Ids
      BY <1>4, <1>5 DEF Ledgers
  <2>2. 0 \in 0..MaxId
      BY MaxIdNat
  <2> QED BY <1>1, <1>2, <2>1, <2>2 DEF Init, CmdTypeOK, RunTyped, Running, Labels
<1>7. \A n \in issued : n < LoadLedger.next
  <2>1. \A n \in issued : n < AfterAll(LoadLedger.nodes)
      BY <1>4, <1>5, AfterAllBounds DEF Ledgers
  <2>2. LoadLedger.next = Larger(LoadLedger.next, AfterAll(LoadLedger.nodes))
      BY <1>4 DEF NextNodeId
  <2>3. LoadLedger.next \in Int /\ AfterAll(LoadLedger.nodes) \in Int /\ \A n \in issued : n \in Int
      BY <1>4, <1>5, AfterAllBounds DEF Ledgers, Ids
  <2> QED BY <2>1, <2>2, <2>3 DEF Larger
<1>8. Serial
    BY <1>3, <1>7 DEF Init, Serial, Running
<1> QED BY <1>6, <1>8 DEF IInv

\* While commands run one after the other, an id `mat commission' hands out is
\* above every id the ledger ever held: for any number of commands, crashes,
\* devices and ids, from a new store or one without a high-water mark.
THEOREM IdsAreNew == Spec => []HandedOutIsNew
<1>1. IInv => HandedOutIsNew
    BY DEF IInv, Serial, HandedOutIsNew
<1> QED BY <1>1, InitHolds, StepKeeps, PTL DEF Spec

-----------------------------------------------------------------------------
(* The devices and the routes.  DInv is what IInv lacks for the rest of    *)
(* the properties: what the steps left on a route still owe, whose traces  *)
(* are on a device, and where the ids in the ledger come from.             *)

Steps == Requests \cup {"resolve", "scan", "find", "complete"}
Routes == {"net", "addr", "ble"}

\* The steps after the fail-safe is armed.
Late == {"attest", "noc", "dataset", "rearm", "join", "find", "case", "complete"}

Has(todo, s) == \E i \in 1..Len(todo) : todo[i] = s

\* The end of a route: it arms the fail-safe once and installs credentials
\* once, it has both to do before it has armed the fail-safe, and it ends with
\* CASE and CommissioningComplete.
RouteEnd(todo) ==
    /\ todo \in Seq(Steps) /\ Len(todo) > 0 /\ todo[Len(todo)] = "complete"
    /\ \A i, j \in 1..Len(todo) :
         i < j => /\ todo[i] \in Late \cup {"arm"} => todo[j] \in Late
                  /\ todo[i] = "noc" => todo[j] # "noc"
                  /\ todo[i] # "complete"
                  /\ j = i + 1 /\ todo[j] = "complete" => todo[i] = "case"
    /\ todo[1] \notin Late => Has(todo, "arm") /\ Has(todo, "noc")

Flows == [c : Serials, d : Devices \cup {None}, todo : Seq(Steps), plan : Seq(Routes)]
DeviceStates ==
    [entries : SUBSET Serials, unconf : Serials \cup {None}, fs : {"off", "live", "past"},
     by : Serials \cup {None}, sess : Sessions \cup {None}]

RestTyped ==
    /\ count \in 0..MaxCommands /\ crashes \in 0..MaxCrashes
    /\ idOf \in [Serials -> 0..MaxId]
    /\ recorded \subseteq issued /\ confirmed \subseteq Ids /\ halved \subseteq Ids
    /\ flow \in [Procs -> Flows] /\ dev \in [Devices -> DeviceStates]

\* Serial numbers are given out in order, and each to one command.
Numbered ==
    /\ \A p \in Procs : Running(p) => flow[p].c \in 1..count
    /\ \A p, q \in Procs : Running(p) /\ Running(q) /\ flow[p].c = flow[q].c => p = q
    /\ \A d \in Devices :
         /\ \A c \in dev[d].entries : c <= count
         /\ dev[d].by # None => dev[d].by <= count
         /\ dev[d].sess # None =>
              dev[d].sess.c <= count /\ (dev[d].sess.entry # None => dev[d].sess.entry <= count)

\* A command has armed no fail-safe and installed no credentials that it still
\* has to arm and to install.
Untouched(p, todo) ==
    \A d \in Devices :
        /\ Has(todo, "arm") => dev[d].by # flow[p].c
        /\ Has(todo, "noc") => flow[p].c \notin dev[d].entries

OnRoute(p) ==
    /\ pc[p] \in {"discover", "route"} => flow[p].d \in Devices /\ kind[p] = "commission"
    /\ pc[p] = "remove" => kind[p] # "commission"
    /\ pc[p] = "discover" => Untouched(p, <<"arm", "noc">>)
    /\ pc[p] = "route" => RouteEnd(flow[p].todo) /\ Untouched(p, flow[p].todo)

\* CommissioningComplete goes over a session with credentials for the id.
OverCase(p) ==
    At(p, "complete") =>
        LET s == dev[flow[p].d].sess
        IN  s # None /\ s.c = flow[p].c => s.entry \in Serials /\ idOf[s.entry] = id[p]

\* Commands that will record an id.
Saving(p) == pc[p] \in {"create", "write", "rename"} /\ kind[p] = "commission"

\* No file and no command has an id in its ledger that was not confirmed.
OnlyConfirmed ==
    /\ \A i \in Inodes : content[i] \in Ledgers => content[i].nodes \subseteq confirmed
    /\ \A p \in Procs : snap[p].nodes \subseteq confirmed
    /\ \A p \in Procs : Saving(p) => id[p] \in confirmed

\* Some device has credentials with this id that no rollback will take.
Kept(n) ==
    \E d \in Devices : \E c \in dev[d].entries : idOf[c] = n /\ c # dev[d].unconf

OnFabric ==
    /\ LoadLedger.nodes = recorded
    /\ \A n \in recorded \ halved : Kept(n)
    /\ \A p \in Procs : Saving(p) => Kept(id[p])

DInv ==
    /\ RestTyped /\ Numbered
    /\ \A p \in Procs : OnRoute(p) /\ OverCase(p)
    /\ OnlyConfirmed /\ (Alone => OnFabric)
-----------------------------------------------------------------------------
(* Routes                                                                  *)

\* What a route is made of.
LEMMA RouteParts ==
    /\ Credential \in Seq(Steps) /\ Len(Credential) = 4
    /\ Credential[1] = "pase" /\ Credential[2] = "arm" /\ Credential[3] = "attest"
    /\ Credential[4] = "noc"
    /\ Operational \in Seq(Steps) /\ Len(Operational) = 2
    /\ Operational[1] = "case" /\ Operational[2] = "complete"
BY DEF Credential, Operational, Steps, Requests

LEMMA OnNetworkSteps ==
    /\ OnNetwork \in Seq(Steps) /\ Len(OnNetwork) = 6
    /\ \A i \in 1..4 : OnNetwork[i] = Credential[i]
    /\ OnNetwork[5] = "case" /\ OnNetwork[6] = "complete"
<1>1. /\ OnNetwork \in Seq(Steps) /\ Len(OnNetwork) = Len(Credential) + Len(Operational)
      /\ \A i \in 1 .. Len(Credential) + Len(Operational) :
           OnNetwork[i] = IF i <= Len(Credential) THEN Credential[i]
                          ELSE Operational[i - Len(Credential)]
    BY RouteParts, ConcatProperties DEF OnNetwork
<1> QED BY <1>1, RouteParts

LEMMA BleThreadSteps ==
    /\ BleThread \in Seq(Steps) /\ Len(BleThread) = 10
    /\ \A i \in 1..4 : BleThread[i] = Credential[i]
    /\ BleThread[5] = "dataset" /\ BleThread[6] = "rearm" /\ BleThread[7] = "join"
    /\ BleThread[8] = "find" /\ BleThread[9] = "case" /\ BleThread[10] = "complete"
<1> DEFINE thread == <<"dataset", "rearm", "join", "find">>
<1>1. /\ thread \in Seq(Steps) /\ Len(thread) = 4
      /\ thread[1] = "dataset" /\ thread[2] = "rearm" /\ thread[3] = "join" /\ thread[4] = "find"
    BY DEF Steps, Requests
<1> HIDE DEF thread
<1> DEFINE rest == thread \o Operational
<1>2. /\ rest \in Seq(Steps) /\ Len(rest) = Len(thread) + Len(Operational)
      /\ \A i \in 1 .. Len(thread) + Len(Operational) :
           rest[i] = IF i <= Len(thread) THEN thread[i] ELSE Operational[i - Len(thread)]
    BY <1>1, RouteParts, ConcatProperties
<1>3. BleThread = Credential \o rest
    BY RouteParts, <1>1, ConcatAssociative DEF BleThread, thread
<1> HIDE DEF rest
<1>4. /\ BleThread \in Seq(Steps) /\ Len(BleThread) = Len(Credential) + Len(rest)
      /\ \A i \in 1 .. Len(Credential) + Len(rest) :
           BleThread[i] = IF i <= Len(Credential) THEN Credential[i]
                          ELSE rest[i - Len(Credential)]
  <2>1. Credential \in Seq(Steps) /\ rest \in Seq(Steps)
      BY <1>2, RouteParts
  <2> QED BY <1>3, <2>1, ConcatProperties
<1>5. Len(rest) = 6 /\ rest[1] = "dataset" /\ rest[2] = "rearm" /\ rest[3] = "join"
      /\ rest[4] = "find" /\ rest[5] = "case" /\ rest[6] = "complete"
    BY <1>1, <1>2, RouteParts
<1>6. /\ Len(BleThread) = 10 /\ \A i \in 1..4 : BleThread[i] = Credential[i]
      /\ BleThread[5] = rest[1] /\ BleThread[6] = rest[2] /\ BleThread[7] = rest[3]
      /\ BleThread[8] = rest[4] /\ BleThread[9] = rest[5] /\ BleThread[10] = rest[6]
    BY <1>4, <1>5, RouteParts
<1> QED BY <1>4, <1>5, <1>6

\* A route that starts with PASE may have a step before that finds the device.
LEMMA Prepended ==
    ASSUME NEW s \in {"resolve", "scan"}, NEW t, RouteEnd(t), t[1] = "pase"
    PROVE  RouteEnd(<<s>> \o t)
<1> DEFINE u == <<s>> \o t
<1>1. t \in Seq(Steps) /\ Len(t) \in Nat /\ Len(t) > 0
    BY DEF RouteEnd
<1>2. <<s>> \in Seq(Steps) /\ Len(<<s>>) = 1 /\ <<s>>[1] = s
    BY DEF Steps, Requests
<1>3. /\ u \in Seq(Steps) /\ Len(u) = Len(t) + 1 /\ u[1] = s
      /\ \A i \in 2 .. Len(t) + 1 : u[i] = t[i - 1]
  <2>1. /\ u \in Seq(Steps) /\ Len(u) = Len(<<s>>) + Len(t)
        /\ \A i \in 1 .. Len(<<s>>) + Len(t) :
             u[i] = IF i <= Len(<<s>>) THEN <<s>>[i] ELSE t[i - Len(<<s>>)]
      BY <1>1, <1>2, ConcatProperties
  <2> QED BY <1>1, <1>2, <2>1
<1> HIDE DEF u
<1>4. \A i \in 1 .. Len(t) : u[i + 1] = t[i]
    BY <1>1, <1>3
<1>5. ASSUME NEW i \in 1 .. Len(u), NEW j \in 1 .. Len(u), i < j
      PROVE  /\ u[i] \in Late \cup {"arm"} => u[j] \in Late
             /\ u[i] = "noc" => u[j] # "noc"
             /\ u[i] # "complete"
             /\ j = i + 1 /\ u[j] = "complete" => u[i] = "case"
  <2>1. CASE i = 1
      BY <1>1, <1>3, <1>5, <2>1 DEF Late
  <2>2. CASE i # 1
    <3>1. /\ i - 1 \in 1 .. Len(t) /\ j - 1 \in 1 .. Len(t) /\ i - 1 < j - 1
          /\ u[i] = t[i - 1] /\ u[j] = t[j - 1]
        BY <1>1, <1>3, <1>5, <2>2
    <3> QED BY <3>1, <1>5 DEF RouteEnd
  <2> QED BY <2>1, <2>2
<1>6. Has(t, "arm") /\ Has(t, "noc")
    BY DEF RouteEnd, Late
<1>7. Has(u, "arm") /\ Has(u, "noc")
  <2>1. PICK i \in 1 .. Len(t), j \in 1 .. Len(t) : t[i] = "arm" /\ t[j] = "noc"
      BY <1>6 DEF Has
  <2>2. i + 1 \in 1 .. Len(u) /\ j + 1 \in 1 .. Len(u) /\ u[i + 1] = t[i] /\ u[j + 1] = t[j]
      BY <1>1, <1>3, <1>4
  <2> QED BY <2>1, <2>2 DEF Has
<1>8. u[Len(u)] = "complete"
    BY <1>1, <1>3 DEF RouteEnd
<1> QED BY <1>1, <1>3, <1>5, <1>7, <1>8 DEF RouteEnd, u

\* Every route is one.
LEMMA RoutesEnd ==
    ASSUME NEW r \in Routes
    PROVE  RouteEnd(StepsOf(r)) /\ StepsOf(r)[1] \notin Late
<1>1. RouteEnd(OnNetwork) /\ OnNetwork[1] = "pase"
    BY OnNetworkSteps, RouteParts DEF RouteEnd, Has, Late
<1>2. RouteEnd(BleThread) /\ BleThread[1] = "pase"
    BY BleThreadSteps, RouteParts DEF RouteEnd, Has, Late
<1>3. RouteEnd(<<"resolve">> \o OnNetwork) /\ RouteEnd(<<"scan">> \o BleThread)
    BY <1>1, <1>2, Prepended
<1>4. ASSUME NEW s, NEW t, t \in Seq(Steps), s \in Steps PROVE (<<s>> \o t)[1] = s
  <2>1. <<s>> \in Seq(Steps) /\ Len(<<s>>) = 1 /\ <<s>>[1] = s /\ Len(t) \in Nat
      BY <1>4
  <2> QED BY <1>4, <2>1, ConcatProperties
<1>5. (<<"resolve">> \o OnNetwork)[1] = "resolve" /\ (<<"scan">> \o BleThread)[1] = "scan"
    BY <1>4, OnNetworkSteps, BleThreadSteps DEF Steps, Requests
<1> QED BY <1>1, <1>2, <1>3, <1>5 DEF StepsOf, Routes, Late

\* What is left of a route after a step.
LEMMA AfterStep ==
    ASSUME NEW t, RouteEnd(t), Head(t) # "complete"
    PROVE  /\ RouteEnd(Tail(t)) /\ Tail(t) \in Seq(Steps)
           /\ \A s : Has(Tail(t), s) => Has(t, s)
           /\ Head(t) \in Late \cup {"arm"} => ~Has(Tail(t), "arm")
           /\ Head(t) = "noc" => ~Has(Tail(t), "noc")
           /\ Head(Tail(t)) = "complete" => Head(t) = "case"
<1>1. t \in Seq(Steps) /\ Len(t) \in Nat /\ Len(t) > 0 /\ Head(t) = t[1] /\ t # <<>>
    BY DEF RouteEnd
<1>2. Len(t) > 1
    BY <1>1 DEF RouteEnd
<1> DEFINE u == Tail(t)
<1>3. /\ u \in Seq(Steps) /\ Len(u) = Len(t) - 1
      /\ \A i \in 1 .. Len(t) - 1 : u[i] = t[i + 1]
    BY <1>1, HeadTailProperties
<1> HIDE DEF u
<1>4. Head(u) = u[1] /\ u[1] = t[2]
    BY <1>2, <1>3
<1>5. ASSUME NEW i \in 1 .. Len(u), NEW j \in 1 .. Len(u), i < j
      PROVE  /\ u[i] \in Late \cup {"arm"} => u[j] \in Late
             /\ u[i] = "noc" => u[j] # "noc"
             /\ u[i] # "complete"
             /\ j = i + 1 /\ u[j] = "complete" => u[i] = "case"
  <2>1. /\ i + 1 \in 1 .. Len(t) /\ j + 1 \in 1 .. Len(t) /\ i + 1 < j + 1
        /\ u[i] = t[i + 1] /\ u[j] = t[j + 1]
      BY <1>1, <1>3, <1>5
  <2> QED BY <2>1, <1>5 DEF RouteEnd
<1>6. ASSUME NEW s, Has(u, s) PROVE \E i \in 2 .. Len(t) : t[i] = s
  <2>1. PICK i \in 1 .. Len(u) : u[i] = s
      BY <1>6 DEF Has
  <2>2. i + 1 \in 2 .. Len(t) /\ t[i + 1] = s
      BY <1>1, <1>3, <2>1
  <2> QED BY <2>2
<1>7. ASSUME NEW i \in 2 .. Len(t)
      PROVE  /\ t[1] \in Late \cup {"arm"} => t[i] \in Late
             /\ t[1] = "noc" => t[i] # "noc"
  <2>1. 1 \in 1 .. Len(t) /\ i \in 1 .. Len(t) /\ 1 < i
      BY <1>1, <1>2
  <2> QED BY <2>1 DEF RouteEnd
<1>8. t[2] = "complete" => t[1] = "case"
  <2>1. 1 \in 1 .. Len(t) /\ 2 \in 1 .. Len(t) /\ 1 < 2 /\ 2 = 1 + 1
      BY <1>1, <1>2
  <2> QED BY <2>1 DEF RouteEnd
<1>9. u[Len(u)] = "complete"
    BY <1>1, <1>2, <1>3 DEF RouteEnd
<1>10. u[1] \notin Late => Has(u, "arm") /\ Has(u, "noc")
  <2> SUFFICES ASSUME u[1] \notin Late PROVE Has(u, "arm") /\ Has(u, "noc")
      OBVIOUS
  <2>1. t[1] \notin Late /\ t[1] # "arm"
      BY <1>2, <1>4, <1>7
  <2>2. PICK i \in 1 .. Len(t), j \in 1 .. Len(t) : t[i] = "arm" /\ t[j] = "noc"
      BY <2>1 DEF RouteEnd, Has
  <2>3. i # 1 /\ j # 1
      BY <2>1, <2>2 DEF Late
  <2>4. i - 1 \in 1 .. Len(u) /\ j - 1 \in 1 .. Len(u) /\ u[i - 1] = t[i] /\ u[j - 1] = t[j]
      BY <1>1, <1>3, <2>3
  <2> QED BY <2>2, <2>4 DEF Has
<1>11. RouteEnd(u)
  <2>1. Len(u) > 0
      BY <1>1, <1>2, <1>3
  <2> QED BY <1>3, <1>5, <1>9, <1>10, <2>1 DEF RouteEnd
<1>12. ASSUME NEW s, Has(u, s) PROVE Has(t, s)
  <2>1. PICK i \in 2 .. Len(t) : t[i] = s
      BY <1>6, <1>12
  <2>2. i \in 1 .. Len(t)
      BY <1>1
  <2> QED BY <2>1, <2>2 DEF Has
<1>13. Head(t) \in Late \cup {"arm"} => ~Has(u, "arm")
    BY <1>1, <1>6, <1>7 DEF Late
<1>14. Head(t) = "noc" => ~Has(u, "noc")
    BY <1>1, <1>6, <1>7
<1> QED BY <1>1, <1>3, <1>4, <1>8, <1>11, <1>12, <1>13, <1>14 DEF u

-----------------------------------------------------------------------------
(* Devices                                                                 *)

\* What step s of command c may do to the devices: it leaves its mark on them
\* only as the step that does so, and takes no entry that is confirmed.
Marks(c, s) ==
    /\ dev' \in [Devices -> DeviceStates]
    /\ \A d \in Devices :
         /\ \A w \in dev'[d].entries : w \in dev[d].entries \/ (s = "noc" /\ w = c)
         /\ dev'[d].by \in {dev[d].by, None} \/ (s \in {"arm", "rearm"} /\ dev'[d].by = c)
         /\ \/ dev'[d].sess = dev[d].sess
            \/ /\ s \in {"pase", "case"} /\ dev'[d].sess # None /\ dev'[d].sess.c = c
               /\ dev'[d].sess.entry \in dev[d].entries \cup {None}
         /\ \A w \in dev[d].entries :
              w # dev[d].unconf =>
                  w \in dev'[d].entries /\ (w # dev'[d].unconf \/ (s = "noc" /\ w = c))

\* Rolling back takes the unconfirmed entry only.
LEMMA RollbackSpares ==
    ASSUME NEW d \in DeviceStates
    PROVE  /\ RolledBack(d) \in DeviceStates
           /\ RolledBack(d).entries = d.entries \ {d.unconf} /\ RolledBack(d).unconf = None
           /\ RolledBack(d).by = d.by /\ RolledBack(d).sess = d.sess /\ RolledBack(d).fs = d.fs
BY DEF RolledBack, DeviceStates

\* The requests of a commission.
LEMMA CarriedOutMarks ==
    ASSUME RestTyped, NEW p \in Procs, flow[p].d \in Devices,
           NEW s \in Requests \cup {"complete"}, CarriedOut(p, s)
    PROVE  Marks(flow[p].c, s)
<1> DEFINE d == dev[flow[p].d]
           c == flow[p].c
<1>1. d \in DeviceStates /\ c \in Serials /\ dev \in [Devices -> DeviceStates]
    BY DEF RestTyped, Flows
<1>2. \A w \in d.entries : w \in Serials /\ w # None
    BY <1>1, NoneIsNothing DEF DeviceStates
<1>3. PICK r \in IF s = "case" THEN Carrying(flow[p].d, id[p]) ELSE {None} :
        dev' = [dev EXCEPT ![flow[p].d] = Effect(p, s, r)]
    BY DEF CarriedOut
<1>4. SUFFICES
        LET e == Effect(p, s, r) IN
        /\ e \in DeviceStates
        /\ \A w \in e.entries : w \in d.entries \/ (s = "noc" /\ w = c)
        /\ e.by \in {d.by, None} \/ (s \in {"arm", "rearm"} /\ e.by = c)
        /\ \/ e.sess = d.sess
           \/ /\ s \in {"pase", "case"} /\ e.sess # None /\ e.sess.c = c
              /\ e.sess.entry \in d.entries \cup {None}
        /\ \A w \in d.entries :
              w # d.unconf => w \in e.entries /\ (w # e.unconf \/ (s = "noc" /\ w = c))
    BY <1>1, <1>2, <1>3 DEF Marks
<1> USE DEF Requests
<1>5. ASSUME NEW e \in Serials \cup {None}
      PROVE  LET x == [c |-> c, entry |-> e]
             IN  x \in Sessions /\ x # None /\ x.c = c /\ x.entry = e
    BY <1>1, <1>5, NoneIsNothing DEF Sessions
<1>6. CASE s \in {"pase", "case"}
  <2>1. r \in d.entries \cup {None} /\ r \in Serials \cup {None}
      BY <1>1, <1>3, <1>6 DEF Carrying, DeviceStates
  <2>2. Effect(p, s, r) = [d EXCEPT !.sess = [c |-> c, entry |-> r]]
      BY <1>6 DEF Effect
  <2> HIDE DEF d, c
  <2> QED BY <1>1, <1>2, <1>5, <1>6, <2>1, <2>2 DEF DeviceStates
<1>7. CASE s \in {"arm", "rearm"}
  <2>1. Effect(p, s, r) = Armed(d, c)
      BY <1>7 DEF Effect
  <2>2. CASE d.fs = "live"
      BY <1>1, <1>2, <1>7, <2>1, <2>2 DEF Armed, DeviceStates
  <2>3. CASE d.fs # "live"
    <3> DEFINE b == RolledBack(d)
    <3>1. /\ b \in DeviceStates /\ b.entries = d.entries \ {d.unconf} /\ b.unconf = None
          /\ b.by = d.by /\ b.sess = d.sess
        BY <1>1, RollbackSpares
    <3>2. Effect(p, s, r) = [b EXCEPT !.fs = "live", !.by = c]
        BY <2>1, <2>3 DEF Armed
    <3> HIDE DEF b
    <3> QED BY <1>1, <1>2, <1>7, <3>1, <3>2 DEF DeviceStates
  <2> QED BY <2>2, <2>3
<1>8. CASE s = "noc"
    BY <1>1, <1>2, <1>8 DEF Effect, Installed, DeviceStates
<1>10. CASE s = "complete"
    BY <1>1, <1>2, <1>10 DEF Effect, Completed, DeviceStates
<1>11. CASE s \in {"attest", "dataset", "join"}
    BY <1>1, <1>2, <1>11 DEF Effect, DeviceStates
<1> QED BY <1>6, <1>7, <1>8, <1>10, <1>11

\* The fail-safe timer, which is no step of a command.
LEMMA TimerMarks ==
    ASSUME RestTyped, NEW d \in Devices, FailSafeLapses(d) \/ FailSafeSwept(d)
    PROVE  Marks(Legacy, "none")
<1> DEFINE x == dev[d]
<1>1. x \in DeviceStates /\ dev \in [Devices -> DeviceStates]
    BY DEF RestTyped
<1>2. \A w \in x.entries : w \in Serials /\ w # None
    BY <1>1, NoneIsNothing DEF DeviceStates
<1>3. CASE FailSafeLapses(d)
    BY <1>1, <1>2, <1>3 DEF FailSafeLapses, Marks, DeviceStates
<1>4. CASE FailSafeSwept(d)
  <2> DEFINE b == RolledBack(x)
             e == [b EXCEPT !.fs = "off", !.by = None]
  <2>1. /\ b \in DeviceStates /\ b.entries = x.entries \ {x.unconf} /\ b.unconf = None
        /\ b.by = x.by /\ b.sess = x.sess
      BY <1>1, RollbackSpares
  <2>2. dev' = [dev EXCEPT ![d] = e]
      BY <1>4 DEF FailSafeSwept
  <2> HIDE DEF b
  <2>3. /\ e \in DeviceStates /\ e.entries = x.entries \ {x.unconf} /\ e.unconf = None
        /\ e.by = None /\ e.sess = x.sess
      BY <2>1 DEF DeviceStates
  <2> HIDE DEF e
  <2> QED BY <1>1, <1>2, <2>2, <2>3 DEF Marks
<1> QED BY <1>3, <1>4

LEMMA NothingMarks == ASSUME RestTyped, UNCHANGED dev PROVE Marks(Legacy, "none")
BY NoneIsNothing DEF RestTyped, Marks

\* An id that is kept stays so.
LEMMA KeptStays ==
    ASSUME NEW c, NEW s, Marks(c, s), s = "noc" => \A d \in Devices : c \notin dev[d].entries,
           UNCHANGED idOf, NEW n, Kept(n)
    PROVE  Kept(n)'
BY DEF Kept, Marks

\* A command that takes no part in the step, and one that does.
Stays(q, c, s) ==
    /\ pc'[q] = pc[q] /\ kind'[q] = kind[q] /\ id'[q] = id[q] /\ snap'[q] = snap[q]
    /\ flow'[q] = flow[q]
    /\ Running(q) => flow[q].c # c \/ s = "none"

Moves(q) ==
    /\ pc'[q] # "idle" => pc[q] # "idle" /\ flow'[q].c = flow[q].c
    /\ snap'[q].nodes \subseteq confirmed
    /\ OnRoute(q)' /\ OverCase(q)'
    /\ Saving(q)' => id'[q] \in confirmed' /\ (Alone => Kept(id[q])' /\ id'[q] = id[q])

\* The steps that leave the files and the histories of the ledger alone: it is
\* enough to look at the command that moves (those in P; none, or one).
LEMMA MovesKeep ==
    ASSUME IInv, DInv, NEW c, NEW s, Marks(c, s), c \in 0..count,
           s = "noc" => \A d \in Devices : c \notin dev[d].entries,
           UNCHANGED <<fileVars, count, idOf, overlapped, issued, recorded, halved>>,
           crashes' \in 0..MaxCrashes, confirmed \subseteq confirmed', confirmed' \subseteq Ids,
           flow' \in [Procs -> Flows], NEW P \in SUBSET Procs,
           \A q \in Procs \ P : Stays(q, c, s), \A q \in P : Moves(q)
    PROVE  DInv'
<1> USE DEF DInv, Stays, Moves
<1>1. RestTyped'
    BY DEF RestTyped, Marks
<1>2. Numbered'
  <2>1. count \in Nat /\ \A d \in Devices : dev[d].entries \subseteq Nat
      BY BoundsNat DEF RestTyped, DeviceStates, Serials
  <2>2. \A d \in Devices : \A w \in dev'[d].entries : w <= count
      BY <2>1 DEF Numbered, Marks
  <2>3. \A d \in Devices : dev'[d].by # None => dev'[d].by <= count
      BY <2>1 DEF Numbered, Marks
  <2>4. ASSUME NEW d \in Devices, dev'[d].sess # None
        PROVE  /\ dev'[d].sess.c <= count
               /\ dev'[d].sess.entry # None => dev'[d].sess.entry <= count
      BY <2>1, <2>4 DEF Numbered, Marks
  <2>5. \A q \in Procs : pc'[q] # "idle" => pc[q] # "idle" /\ flow'[q].c = flow[q].c
      OBVIOUS
  <2> QED BY <2>2, <2>3, <2>4, <2>5 DEF Numbered, Running
<1>3. ASSUME NEW q \in Procs PROVE OnRoute(q)' /\ OverCase(q)'
  <2>1. CASE q \in P
      BY <2>1
  <2>2. CASE q \notin P
    <3>1. /\ pc'[q] = pc[q] /\ kind'[q] = kind[q] /\ id'[q] = id[q] /\ flow'[q] = flow[q]
          /\ pc[q] # "idle" => flow[q].c # c \/ s = "none"
        BY <2>2 DEF Running
    <3>2. pc[q] # "idle" => flow[q].c \in Serials /\ flow[q].c # None
        BY NoneIsNothing DEF RestTyped, Flows
    <3>3. OnRoute(q) /\ OverCase(q)
        OBVIOUS
    <3>4. ASSUME NEW todo, Untouched(q, todo), pc[q] # "idle" PROVE Untouched(q, todo)'
        BY <3>1, <3>2, <3>4 DEF Untouched, Marks
    <3>5. OnRoute(q)'
        BY <3>1, <3>3, <3>4 DEF OnRoute
    <3>6. ASSUME At(q, "complete")' PROVE OverCase(q)'
      <4>1. At(q, "complete") /\ pc[q] = "route" /\ flow[q].d \in Devices
          BY <3>1, <3>3, <3>6 DEF At, OnRoute
      <4>2. dev'[flow[q].d].sess # None /\ dev'[flow[q].d].sess.c = flow[q].c
              => dev'[flow[q].d].sess = dev[flow[q].d].sess
          BY <3>1, <4>1 DEF Marks
      <4> QED BY <3>1, <3>3, <4>1, <4>2 DEF OverCase
    <3> QED BY <3>5, <3>6 DEF OverCase
  <2> QED BY <2>1, <2>2
<1>4. OnlyConfirmed'
    BY DEF OnlyConfirmed, fileVars, Saving
<1>5. ASSUME Alone' PROVE OnFabric'
  <2>1. OnFabric /\ Alone
      BY <1>5 DEF Alone
  <2>2. LoadLedger' = LoadLedger
      BY DEF LoadLedger, fileVars
  <2>3. \A n : Kept(n) => Kept(n)'
      BY KeptStays
  <2> QED BY <2>1, <2>2, <2>3 DEF OnFabric, Saving
<1> QED BY <1>1, <1>2, <1>3, <1>4, <1>5

\* A command that ends.
LEMMA EndKeeps ==
    ASSUME IInv, DInv, NEW p \in Procs, Ends(p), NEW c, NEW s, Marks(c, s), c \in 0..count,
           s = "none" \/ (Running(p) /\ c = flow[p].c),
           s = "noc" => \A d \in Devices : c \notin dev[d].entries,
           UNCHANGED <<fileVars, count, idOf, overlapped, issued, recorded, halved>>,
           crashes' \in 0..MaxCrashes, confirmed \subseteq confirmed', confirmed' \subseteq Ids
    PROVE  DInv'
<1>1. NoFlow \in Flows
    BY BoundsNat, EmptySeq DEF NoFlow, Flows, Legacy, Serials
<1>2. /\ pc' = [pc EXCEPT ![p] = "idle"] /\ kind' = [kind EXCEPT ![p] = "commission"]
      /\ id' = [id EXCEPT ![p] = 0] /\ snap' = [snap EXCEPT ![p] = EmptyLedger]
      /\ flow' = [flow EXCEPT ![p] = NoFlow]
    BY DEF Ends, Goto
<1>3. flow' \in [Procs -> Flows]
    BY <1>1, <1>2 DEF DInv, RestTyped
<1>4. \A q \in Procs \ {p} : Stays(q, c, s)
    BY <1>2 DEF IInv, CmdTypeOK, DInv, RestTyped, Numbered, Stays
<1>5. pc'[p] = "idle" /\ snap'[p] = EmptyLedger
    BY <1>2 DEF IInv, CmdTypeOK
<1>6. {p} \in SUBSET Procs /\ \A q \in {p} : Moves(q)
    BY <1>5 DEF EmptyLedger, OnRoute, OverCase, At, Saving, Moves
<1> QED BY <1>3, <1>4, <1>6, MovesKeep

\* A commission that goes on with a route.
LEMMA GoOnKeeps ==
    ASSUME IInv, DInv, NEW p \in Procs, pc[p] \in {"discover", "route"},
           pc' = [pc EXCEPT ![p] = "route"], UNCHANGED <<kind, id, snap>>,
           NEW s, Marks(flow[p].c, s),
           s = "noc" => \A d \in Devices : flow[p].c \notin dev[d].entries,
           UNCHANGED <<fileVars, count, crashes, idOf, overlapped, issued, recorded, halved>>,
           confirmed' = confirmed,
           NEW f \in Flows, flow' = [flow EXCEPT ![p] = f], f.c = flow[p].c, f.d \in Devices,
           RouteEnd(f.todo),
           \A d \in Devices :
               /\ Has(f.todo, "arm") => dev'[d].by # f.c
               /\ Has(f.todo, "noc") => f.c \notin dev'[d].entries,
           Head(f.todo) = "complete" =>
               LET x == dev'[f.d].sess
               IN  x # None /\ x.c = f.c => x.entry \in Serials /\ idOf[x.entry] = id[p]
    PROVE  DInv'
<1>1. flow' \in [Procs -> Flows] /\ flow'[p] = f /\ pc'[p] = "route"
    BY DEF DInv, RestTyped, IInv, CmdTypeOK
<1>2. kind[p] = "commission" /\ flow[p].c \in 0..count /\ pc[p] # "idle"
    BY BoundsNat DEF DInv, OnRoute, Numbered, Running, RestTyped
<1>3. \A q \in Procs \ {p} : Stays(q, flow[p].c, s)
    BY <1>2 DEF IInv, CmdTypeOK, DInv, RestTyped, Numbered, Running, Stays
<1>4. snap'[p].nodes \subseteq confirmed /\ confirmed \subseteq Ids /\ crashes \in 0..MaxCrashes
    BY DEF DInv, OnlyConfirmed, RestTyped
<1>5. OnRoute(p)' /\ OverCase(p)' /\ ~Saving(p)'
    BY <1>1, <1>2 DEF OnRoute, OverCase, At, Saving, Untouched
<1>6. {p} \in SUBSET Procs /\ \A q \in {p} : Moves(q)
    BY <1>1, <1>2, <1>4, <1>5 DEF Moves
<1> QED BY <1>1, <1>2, <1>3, <1>4, <1>6, MovesKeep

\* What is known of a command on a route.
LEMMA OnRouteFacts ==
    ASSUME IInv, DInv, NEW p \in Procs, pc[p] = "route"
    PROVE  /\ flow[p] \in Flows /\ flow[p].c \in Serials /\ flow[p].c \in 0..count /\ flow[p].c # None
           /\ flow[p].d \in Devices /\ id[p] \in Ids
           /\ RouteEnd(flow[p].todo) /\ Untouched(p, flow[p].todo)
           /\ flow[p].plan \in Seq(Routes)
BY BoundsNat, NoneIsNothing
   DEF IInv, RunTyped, DInv, RestTyped, Numbered, OnRoute, Running, Flows, Serials

\* Before the fail-safe is armed, and while the credentials are still to be
\* installed, there is nothing of the command on a device.
LEMMA Owed ==
    ASSUME NEW p \in Procs, RouteEnd(flow[p].todo), Untouched(p, flow[p].todo),
           NEW d \in Devices
    PROVE  /\ Head(flow[p].todo) \notin Late =>
                dev[d].by # flow[p].c /\ flow[p].c \notin dev[d].entries
           /\ Head(flow[p].todo) = "noc" => flow[p].c \notin dev[d].entries
<1> DEFINE t == flow[p].todo
<1>1. t \in Seq(Steps) /\ Len(t) > 0 /\ Len(t) \in Nat /\ Head(t) = t[1]
    BY DEF RouteEnd
<1>2. t[1] \notin Late => Has(t, "arm") /\ Has(t, "noc")
    BY DEF RouteEnd
<1>3. t[1] = "noc" => Has(t, "noc")
    BY <1>1 DEF Has
<1> QED BY <1>1, <1>2, <1>3 DEF Untouched

\* The next step of a route: what is left of it is owed as before.
LEMMA AdvanceOwes ==
    ASSUME IInv, DInv, NEW p \in Procs, pc[p] = "route", NEW s, s = Head(flow[p].todo) \/ s = "none",
           Head(flow[p].todo) # "complete", Marks(flow[p].c, s)
    PROVE  /\ RouteEnd(Tail(flow[p].todo)) /\ Tail(flow[p].todo) \in Seq(Steps)
           /\ \A d \in Devices :
               /\ Has(Tail(flow[p].todo), "arm") => dev'[d].by # flow[p].c
               /\ Has(Tail(flow[p].todo), "noc") => flow[p].c \notin dev'[d].entries
           /\ Head(Tail(flow[p].todo)) = "complete" => Head(flow[p].todo) = "case"
<1> DEFINE t == flow[p].todo
<1>1. /\ flow[p].c # None /\ RouteEnd(t) /\ Untouched(p, t)
    BY OnRouteFacts
<1> HIDE DEF t
<1>2. /\ RouteEnd(Tail(t)) /\ Tail(t) \in Seq(Steps)
      /\ Has(Tail(t), "arm") => Has(t, "arm")
      /\ Has(Tail(t), "noc") => Has(t, "noc")
      /\ Head(t) \in Late \cup {"arm"} => ~Has(Tail(t), "arm")
      /\ Head(t) = "noc" => ~Has(Tail(t), "noc")
      /\ Head(Tail(t)) = "complete" => Head(t) = "case"
    BY <1>1, AfterStep DEF t
<1>3. ASSUME NEW d \in Devices, Has(Tail(t), "arm") PROVE dev'[d].by # flow[p].c
  <2>1. dev[d].by # flow[p].c
      BY <1>1, <1>2, <1>3 DEF Untouched
  <2>2. s \notin {"arm", "rearm"}
      BY <1>2, <1>3 DEF Late, t
  <2> QED BY <1>1, <2>1, <2>2 DEF Marks
<1>4. ASSUME NEW d \in Devices, Has(Tail(t), "noc") PROVE flow[p].c \notin dev'[d].entries
  <2>1. flow[p].c \notin dev[d].entries
      BY <1>1, <1>2, <1>4 DEF Untouched
  <2>2. s # "noc"
      BY <1>2, <1>4 DEF t
  <2> QED BY <2>1, <2>2 DEF Marks
<1> QED BY <1>2, <1>3, <1>4 DEF t

\* A commission starts a route that is planned: it has touched nothing yet.
LEMMA RouteStartKeeps ==
    ASSUME IInv, DInv, NEW p \in Procs, pc[p] \in {"discover", "route"},
           pc[p] = "route" => Head(flow[p].todo) \notin Late,
           pc' = [pc EXCEPT ![p] = "route"], UNCHANGED <<kind, id, snap>>,
           NEW s \in {"pase", "none"}, Marks(flow[p].c, s),
           UNCHANGED <<fileVars, count, crashes, idOf, overlapped, issued, recorded, halved>>,
           confirmed' = confirmed,
           NEW plan \in Seq(Routes), plan # <<>>,
           flow' = [flow EXCEPT ![p] = [@ EXCEPT !.todo = StepsOf(Head(plan)), !.plan = Tail(plan)]]
    PROVE  DInv'
<1> DEFINE t == StepsOf(Head(plan))
           f == [flow[p] EXCEPT !.todo = t, !.plan = Tail(plan)]
<1>1. Head(plan) \in Routes /\ Tail(plan) \in Seq(Routes)
    BY HeadTailProperties
<1>2. RouteEnd(t) /\ t[1] \notin Late
    BY <1>1, RoutesEnd
<1>3. t \in Seq(Steps) /\ Head(t) # "complete"
    BY <1>2 DEF RouteEnd, Late
<1>4. /\ flow[p] \in Flows /\ flow[p].c \in Serials /\ flow[p].c # None /\ flow[p].d \in Devices
    BY NoneIsNothing DEF DInv, RestTyped, OnRoute, Flows
<1>5. \A d \in Devices : dev[d].by # flow[p].c /\ flow[p].c \notin dev[d].entries
  <2>1. CASE pc[p] = "discover"
    <3>1. Untouched(p, <<"arm", "noc">>)
        BY <2>1 DEF DInv, OnRoute
    <3>2. Has(<<"arm", "noc">>, "arm") /\ Has(<<"arm", "noc">>, "noc")
      <4>1. /\ Len(<<"arm", "noc">>) = 2
            /\ <<"arm", "noc">>[1] = "arm" /\ <<"arm", "noc">>[2] = "noc"
          OBVIOUS
      <4>2. 1 \in 1..2 /\ 2 \in 1..2
          OBVIOUS
      <4> QED BY <4>1, <4>2 DEF Has
    <3> QED BY <3>1, <3>2 DEF Untouched
  <2>2. CASE pc[p] = "route"
      BY <2>2, OnRouteFacts, Owed
  <2> QED BY <2>1, <2>2
<1>6. \A d \in Devices : dev'[d].by # flow[p].c /\ flow[p].c \notin dev'[d].entries
    BY <1>4, <1>5 DEF Marks
<1> HIDE DEF t
<1>7. f \in Flows /\ f.c = flow[p].c /\ f.d = flow[p].d /\ f.todo = t
    BY <1>1, <1>3, <1>4 DEF Flows
<1>8. flow' = [flow EXCEPT ![p] = f]
    BY DEF t
<1>9. /\ f.d \in Devices /\ RouteEnd(f.todo) /\ Head(f.todo) # "complete" /\ s # "noc"
      /\ \A d \in Devices :
           /\ Has(f.todo, "arm") => dev'[d].by # f.c
           /\ Has(f.todo, "noc") => f.c \notin dev'[d].entries
    BY <1>2, <1>3, <1>4, <1>6, <1>7
<1> HIDE DEF f
<1> QED BY <1>7, <1>8, <1>9, GoOnKeeps

\* What is planned is a sequence of routes.
LEMMA PlanTyped ==
    ASSUME NEW code, NEW t, NEW found, NEW ble
    PROVE  PlanRoutes(code, t, found, ble) \in Seq(Routes)
<1>1. /\ <<>> \in Seq(Routes) /\ <<"ble">> \in Seq(Routes) /\ <<"addr">> \in Seq(Routes)
      /\ <<"net">> \in Seq(Routes) /\ <<"net", "ble">> \in Seq(Routes)
    BY DEF Routes
<1> QED BY <1>1 DEF PlanRoutes

LEMMA DiscoverKeeps == ASSUME IInv, DInv, NEW p \in Procs, Discover(p) PROVE DInv'
<1>1. PICK code \in {"qr", "manual"}, t \in Transports, found \in BOOLEAN, ble \in BOOLEAN :
        LET plan == PlanRoutes(code, t, found, ble) IN
        /\ plan # <<>>
        /\ flow' = [flow EXCEPT ![p].todo = StepsOf(Head(plan)), ![p].plan = Tail(plan)]
    BY DEF Discover
<1> DEFINE plan == PlanRoutes(code, t, found, ble)
<1>2. plan \in Seq(Routes) /\ plan # <<>>
    BY <1>1, PlanTyped
<1> HIDE DEF plan
<1>3. flow' = [flow EXCEPT ![p] = [@ EXCEPT !.todo = StepsOf(Head(plan)), !.plan = Tail(plan)]]
    BY <1>1 DEF plan, DInv, RestTyped
<1>4. /\ pc[p] = "discover" /\ pc' = [pc EXCEPT ![p] = "route"] /\ UNCHANGED <<kind, id, snap>>
      /\ UNCHANGED <<fileVars, count, crashes, idOf, overlapped, issued, recorded, halved>>
      /\ confirmed' = confirmed /\ dev' = dev
    BY DEF Discover, Goto, history
<1>5. Marks(flow[p].c, "none")
    BY <1>4, NothingMarks DEF DInv, Marks
<1> QED BY <1>2, <1>3, <1>4, <1>5, RouteStartKeeps

\* run_plan after a step that failed, carried out or not.
LEMMA StepFailsKeeps ==
    ASSUME IInv, DInv, NEW p \in Procs, pc[p] = "route",
           NEW timeout, StepFails(p, Head(flow[p].todo), timeout),
           NEW s, s = Head(flow[p].todo) \/ s = "none", Marks(flow[p].c, s),
           UNCHANGED <<fileVars, count, crashes, idOf, overlapped, issued, recorded, halved>>,
           confirmed' = IF s = "complete" THEN confirmed \cup {id[p]} ELSE confirmed
    PROVE  DInv'
<1>1. /\ flow[p] \in Flows /\ flow[p].c \in 0..count /\ flow[p].c \in Serials
      /\ RouteEnd(flow[p].todo) /\ Untouched(p, flow[p].todo)
      /\ flow[p].plan \in Seq(Routes) /\ id[p] \in Ids
    BY OnRouteFacts
<1>2. s = "noc" => \A d \in Devices : flow[p].c \notin dev[d].entries
    BY <1>1, Owed
<1>3. CASE Ends(p)
  <2>1. Running(p) /\ crashes' \in 0..MaxCrashes /\ confirmed \subseteq confirmed' /\ confirmed' \subseteq Ids
      BY <1>1 DEF Running, DInv, RestTyped
  <2> QED BY <1>1, <1>2, <1>3, <2>1, EndKeeps
<1>4. CASE ~Ends(p)
  <2> DEFINE plan == flow[p].plan
  <2>1. /\ Head(flow[p].todo) \in {"resolve", "pase"} /\ plan # <<>>
        /\ flow' = [flow EXCEPT ![p].todo = StepsOf(Head(plan)), ![p].plan = Tail(@)]
        /\ UNCHANGED <<pc, kind, id, snap>>
      BY <1>4 DEF StepFails, IsDeadEnd
  <2>2. flow' = [flow EXCEPT ![p] = [@ EXCEPT !.todo = StepsOf(Head(plan)), !.plan = Tail(plan)]]
      BY <1>1, <2>1 DEF DInv, RestTyped
  <2>3. pc' = [pc EXCEPT ![p] = "route"]
      BY <2>1 DEF IInv, CmdTypeOK
  <2>4. Head(flow[p].todo) \notin Late /\ s # "complete"
      BY <2>1 DEF Late
  <2>5. Marks(flow[p].c, IF s = "pase" THEN "pase" ELSE "none")
      BY <2>1 DEF Marks
  <2> HIDE DEF plan
  <2> QED BY <1>1, <2>1, <2>2, <2>3, <2>4, <2>5, RouteStartKeeps DEF plan
<1> QED BY <1>3, <1>4

\* The route after a step, with device d.
Onward(f, d) == [c |-> f.c, d |-> d, todo |-> Tail(f.todo), plan |-> f.plan]

LEMMA Rewritten ==
    ASSUME NEW f \in Flows, NEW t, NEW d
    PROVE  /\ [f EXCEPT !.todo = t] = [c |-> f.c, d |-> f.d, todo |-> t, plan |-> f.plan]
           /\ [f EXCEPT !.todo = t, !.d = d] = [c |-> f.c, d |-> d, todo |-> t, plan |-> f.plan]
<1>1. [f EXCEPT !.todo = t] = [c |-> f.c, d |-> f.d, todo |-> t, plan |-> f.plan]
    BY DEF Flows
<1>2. [f EXCEPT !.todo = t, !.d = d] = [c |-> f.c, d |-> d, todo |-> t, plan |-> f.plan]
  <2> DEFINE h == [f EXCEPT !.todo = t, !.d = d]
  <2>1. h \in [c : {f.c}, d : {f.d, d}, todo : {f.todo, t}, plan : {f.plan}] /\ h.d = d /\ h.todo = t
      BY DEF Flows
  <2> HIDE DEF h
  <2>2. h = [c |-> h.c, d |-> h.d, todo |-> h.todo, plan |-> h.plan]
      BY <2>1
  <2>3. h.c = f.c /\ h.plan = f.plan
      BY <2>1
  <2> QED BY <2>1, <2>2, <2>3 DEF h
<1> QED BY <1>1, <1>2

\* A step of a route that succeeds; Find may turn to another device.
LEMMA AdvanceKeeps ==
    ASSUME IInv, DInv, NEW p \in Procs, pc[p] = "route", Head(flow[p].todo) # "complete",
           NEW s, s = Head(flow[p].todo) \/ s = "none", Marks(flow[p].c, s),
           UNCHANGED <<fileVars, pc, kind, id, snap, count, crashes, idOf, overlapped, issued,
                       recorded, confirmed, halved>>,
           NEW d \in Devices,
           flow' = [flow EXCEPT ![p] = Onward(flow[p], d)],
           Head(flow[p].todo) = "case" =>
               LET x == dev'[d].sess
               IN  x # None /\ x.c = flow[p].c => x.entry \in Serials /\ idOf[x.entry] = id[p]
    PROVE  DInv'
<1> DEFINE f == Onward(flow[p], d)
<1>1. /\ flow[p] \in Flows /\ RouteEnd(flow[p].todo) /\ Untouched(p, flow[p].todo)
    BY OnRouteFacts
<1>2. /\ RouteEnd(Tail(flow[p].todo)) /\ Tail(flow[p].todo) \in Seq(Steps)
      /\ \A e \in Devices :
          /\ Has(Tail(flow[p].todo), "arm") => dev'[e].by # flow[p].c
          /\ Has(Tail(flow[p].todo), "noc") => flow[p].c \notin dev'[e].entries
      /\ Head(Tail(flow[p].todo)) = "complete" => Head(flow[p].todo) = "case"
    BY AdvanceOwes
<1>3. f \in Flows /\ f.c = flow[p].c /\ f.d = d /\ f.todo = Tail(flow[p].todo)
    BY <1>1, <1>2 DEF Flows, Onward
<1>4. flow' = [flow EXCEPT ![p] = f] /\ pc' = [pc EXCEPT ![p] = "route"]
    BY DEF IInv, CmdTypeOK
<1>5. s = "noc" => \A e \in Devices : flow[p].c \notin dev[e].entries
    BY <1>1, Owed
<1> HIDE DEF f
<1>6. /\ f.d \in Devices /\ RouteEnd(f.todo)
      /\ \A e \in Devices :
          /\ Has(f.todo, "arm") => dev'[e].by # f.c
          /\ Has(f.todo, "noc") => f.c \notin dev'[e].entries
      /\ Head(f.todo) = "complete" =>
           LET x == dev'[f.d].sess
           IN  x # None /\ x.c = f.c => x.entry \in Serials /\ idOf[x.entry] = id[p]
    BY <1>2, <1>3
<1> QED BY <1>3, <1>4, <1>5, <1>6, GoOnKeeps

\* Every step of a route.
LEMMA RouteKeeps == ASSUME IInv, DInv, NEW p \in Procs, Route(p) PROVE DInv'
<1>0. /\ flow \in [Procs -> Flows] /\ dev \in [Devices -> DeviceStates] /\ RestTyped
      /\ crashes \in 0..MaxCrashes /\ confirmed \subseteq Ids /\ count \in Nat
    BY BoundsNat DEF DInv, RestTyped
<1>1. ASSUME pc[p] = "route"
      PROVE  /\ flow[p].d \in Devices /\ flow[p] \in Flows
             /\ Advance(p) = [flow EXCEPT ![p] = Onward(flow[p], flow[p].d)]
  <2>1. flow[p] \in Flows /\ flow[p].d \in Devices
      BY <1>1, OnRouteFacts
  <2>2. [flow[p] EXCEPT !.todo = Tail(@)] = Onward(flow[p], flow[p].d)
      BY <2>1, Rewritten DEF Onward
  <2> QED BY <1>0, <2>1, <2>2 DEF Advance
<1>2. CASE Discover(p)
    BY <1>2, DiscoverKeeps
<1>3. CASE DiscoveryFails(p)
  <2>1. /\ Ends(p)
        /\ UNCHANGED <<fileVars, dev, count, crashes, idOf, overlapped, issued, recorded,
                       confirmed, halved>>
      BY <1>3 DEF DiscoveryFails, history
  <2>2. Marks(Legacy, "none") /\ Legacy \in 0..count
      BY <1>0, <2>1, NothingMarks DEF Legacy
  <2> QED BY <1>0, <2>1, <2>2, EndKeeps
<1>4. CASE Resolve(p) \/ Scan(p)
  <2>1. /\ pc[p] = "route" /\ Head(flow[p].todo) \in {"resolve", "scan"} /\ flow' = Advance(p)
        /\ UNCHANGED <<fileVars, pc, kind, id, snap, count, crashes, idOf, overlapped, issued,
                       recorded, confirmed, halved>>
        /\ dev' = dev
      BY <1>4 DEF Resolve, Scan, At, Proceeds, history
  <2>2. Marks(flow[p].c, "none")
      BY <1>0, <2>1, NothingMarks DEF Marks
  <2>3. /\ Head(flow[p].todo) # "complete" /\ Head(flow[p].todo) # "case" /\ flow[p].d \in Devices
        /\ flow' = [flow EXCEPT ![p] = Onward(flow[p], flow[p].d)]
      BY <1>1, <2>1
  <2> QED BY <2>1, <2>2, <2>3, AdvanceKeeps
<1>5. CASE Ask(p)
  <2>1. PICK s \in Requests : At(p, s) /\ CarriedOut(p, s)
      BY <1>5 DEF Ask
  <2>2. /\ pc[p] = "route" /\ Head(flow[p].todo) = s /\ flow' = Advance(p)
        /\ UNCHANGED <<fileVars, pc, kind, id, snap, count, crashes, idOf, overlapped, issued,
                       recorded, halved>>
        /\ s # "complete" /\ confirmed' = confirmed
      BY <1>5, <2>1 DEF Ask, At, Proceeds, CarriedOut, Requests
  <2>3. flow[p].d \in Devices /\ Marks(flow[p].c, s)
      BY <1>0, <1>1, <2>1, <2>2, CarriedOutMarks
  <2>4. s = "case" => LET x == dev'[flow[p].d].sess IN x.entry \in Serials /\ idOf[x.entry] = id[p]
    <3> SUFFICES ASSUME s = "case"
                 PROVE  /\ dev'[flow[p].d].sess.entry \in Serials
                        /\ idOf[dev'[flow[p].d].sess.entry] = id[p]
        OBVIOUS
    <3>1. PICK r \in Carrying(flow[p].d, id[p]) : dev' = [dev EXCEPT ![flow[p].d] = Effect(p, s, r)]
        BY <2>1 DEF CarriedOut
    <3>2. r \in Serials /\ idOf[r] = id[p]
        BY <1>0, <2>3 DEF Carrying, DeviceStates
    <3>3. dev'[flow[p].d] = [dev[flow[p].d] EXCEPT !.sess = [c |-> flow[p].c, entry |-> r]]
        BY <1>0, <2>3, <3>1 DEF Effect
    <3>4. dev'[flow[p].d].sess.entry = r
        BY <1>0, <2>3, <3>3 DEF DeviceStates
    <3> QED BY <3>2, <3>4
  <2>5. flow' = [flow EXCEPT ![p] = Onward(flow[p], flow[p].d)]
      BY <1>1, <2>2
  <2> QED BY <2>2, <2>3, <2>4, <2>5, AdvanceKeeps
<1>6. CASE Find(p)
  <2>1. PICK d \in Devices : flow' = [flow EXCEPT ![p].todo = Tail(@), ![p].d = d]
      BY <1>6 DEF Find
  <2>2. /\ pc[p] = "route" /\ Head(flow[p].todo) = "find"
        /\ UNCHANGED <<fileVars, pc, kind, id, snap, count, crashes, idOf, overlapped, issued,
                       recorded, confirmed, halved>>
        /\ dev' = dev
      BY <1>6 DEF Find, At, history
  <2>3. Marks(flow[p].c, "none")
      BY <1>0, <2>2, NothingMarks DEF Marks
  <2>4. flow' = [flow EXCEPT ![p] = Onward(flow[p], d)]
    <3>1. [flow[p] EXCEPT !.todo = Tail(@), !.d = d] = Onward(flow[p], d)
        BY <1>1, <2>2, Rewritten DEF Onward
    <3>2. \A q \in Procs : flow'[q] = IF q = p THEN [flow[p] EXCEPT !.todo = Tail(@), !.d = d]
                                       ELSE flow[q]
        BY <1>0, <2>1
    <3>3. flow' = [q \in Procs |-> flow'[q]]
        BY <1>0, <2>1
    <3> QED BY <1>0, <3>1, <3>2, <3>3
  <2> QED BY <2>2, <2>3, <2>4, AdvanceKeeps
<1>7. CASE Refused(p)
  <2>1. PICK timeout \in BOOLEAN : StepFails(p, Head(flow[p].todo), timeout)
      BY <1>7 DEF Refused
  <2>2. /\ pc[p] = "route" /\ dev' = dev /\ confirmed' = confirmed
        /\ UNCHANGED <<fileVars, count, crashes, idOf, overlapped, issued, recorded, halved>>
      BY <1>7 DEF Refused, history
  <2>3. Marks(flow[p].c, "none")
      BY <1>0, <2>2, NothingMarks DEF Marks
  <2> QED BY <2>1, <2>2, <2>3, StepFailsKeeps
<1>8. CASE AnswerLost(p)
  <2>1. PICK s \in Requests \cup {"complete"} :
          At(p, s) /\ CarriedOut(p, s) /\ StepFails(p, s, TRUE)
      BY <1>8 DEF AnswerLost
  <2>2. /\ pc[p] = "route" /\ s = Head(flow[p].todo)
        /\ UNCHANGED <<fileVars, count, crashes, idOf, overlapped, issued, recorded, halved>>
        /\ confirmed' = IF s = "complete" THEN confirmed \cup {id[p]} ELSE confirmed
      BY <1>8, <2>1 DEF AnswerLost, At, CarriedOut
  <2>3. Marks(flow[p].c, s)
      BY <1>0, <1>1, <2>1, <2>2, CarriedOutMarks
  <2> QED BY <2>1, <2>2, <2>3, StepFailsKeeps
<1>9. CASE Complete(p)
  <2>1. /\ pc[p] = "route" /\ CarriedOut(p, "complete") /\ Head(flow[p].todo) = "complete"
        /\ pc' = [pc EXCEPT ![p] = "create"]
        /\ UNCHANGED <<fileVars, kind, id, auto, snap, fd, flow, count, crashes, idOf, overlapped,
                       issued, recorded, halved>>
        /\ confirmed' = confirmed \cup {id[p]}
      BY <1>9 DEF Complete, At, Goto, CarriedOut
  <2>2. Marks(flow[p].c, "complete")
      BY <1>0, <1>1, <2>1, CarriedOutMarks
  <2>3. /\ flow[p].d \in Devices /\ flow[p].c \in 0..count /\ id[p] \in Ids
      BY <2>1, OnRouteFacts
  <2>4. Kept(id[p])'
    <3> DEFINE d == flow[p].d
               x == dev[d].sess
    <3>1. x # None /\ x.c = flow[p].c /\ x.entry \in dev[d].entries \cup {None}
        BY <2>1 DEF CarriedOut, HasSession
    <3>2. x.entry \in Serials /\ idOf[x.entry] = id[p]
        BY <2>1, <3>1 DEF DInv, OverCase, At
    <3>3. x.entry # None /\ x.entry \in dev[d].entries
        BY <3>1, <3>2, NoneIsNothing
    <3>4. dev'[d].entries = dev[d].entries /\ dev'[d].unconf = None
        BY <1>0, <2>1, <2>3 DEF CarriedOut, Effect, Completed, DeviceStates
    <3> QED BY <2>1, <2>3, <3>2, <3>3, <3>4 DEF Kept
  <2>5. \A q \in Procs \ {p} : Stays(q, flow[p].c, "complete")
      BY <2>1 DEF IInv, CmdTypeOK, DInv, Numbered, Running, Stays
  <2>6. {p} \in SUBSET Procs /\ \A q \in {p} : Moves(q)
    <3>1. pc'[p] = "create" /\ snap[p].nodes \subseteq confirmed
        BY <2>1 DEF IInv, CmdTypeOK, DInv, OnlyConfirmed
    <3> QED BY <2>1, <2>4, <3>1 DEF Moves, OnRoute, OverCase, At
  <2>7. /\ confirmed \subseteq confirmed' /\ confirmed' \subseteq Ids /\ flow' \in [Procs -> Flows]
        /\ crashes' \in 0..MaxCrashes
      BY <1>0, <2>1, <2>3
  <2> QED BY <2>1, <2>2, <2>3, <2>5, <2>6, <2>7, MovesKeep
<1> QED BY <1>2, <1>3, <1>4, <1>5, <1>6, <1>7, <1>8, <1>9 DEF Route

-----------------------------------------------------------------------------
(* Unpair, and what does not depend on the devices.                        *)

\* An unpair that goes on without the device, or fails.
LEMMA UnreachableKeeps == ASSUME IInv, DInv, NEW p \in Procs, Unreachable(p) PROVE DInv'
<1>0. /\ RestTyped /\ flow \in [Procs -> Flows] /\ crashes \in 0..MaxCrashes
      /\ confirmed \subseteq Ids /\ count \in Nat
    BY BoundsNat DEF DInv, RestTyped
<1>1. /\ pc[p] = "remove" /\ dev' = dev
      /\ UNCHANGED <<fileVars, count, crashes, idOf, overlapped, issued, recorded, confirmed, halved>>
    BY DEF Unreachable, history
<1>2. Marks(Legacy, "none") /\ Legacy \in 0..count
    BY <1>0, <1>1, NothingMarks DEF Legacy
<1>3. CASE Ends(p)
    BY <1>0, <1>1, <1>2, <1>3, EndKeeps
<1>4. CASE pc' = [pc EXCEPT ![p] = "create"] /\ UNCHANGED <<kind, id, auto, snap, fd, flow>>
  <2>1. \A q \in Procs \ {p} : Stays(q, Legacy, "none")
      BY <1>4 DEF IInv, CmdTypeOK, Stays
  <2>2. /\ pc'[p] = "create" /\ snap[p].nodes \subseteq confirmed /\ kind[p] # "commission"
      BY <1>1, <1>4 DEF IInv, CmdTypeOK, DInv, OnlyConfirmed, OnRoute
  <2>3. {p} \in SUBSET Procs /\ \A q \in {p} : Moves(q)
      BY <1>1, <1>4, <2>2 DEF Moves, OnRoute, OverCase, At, Saving
  <2> QED BY <1>0, <1>1, <1>2, <1>4, <2>1, <2>3, MovesKeep
<1> QED BY <1>3, <1>4 DEF Unreachable, Goto

\* RemoveFabric takes an entry with the id of the command, and no other id.
LEMMA RemoveKeeps == ASSUME IInv, DInv, NEW p \in Procs, RemoveFabric(p) PROVE DInv'
<1>0. PICK d \in Devices :
        /\ \E m \in Carrying(d, id[p]) : dev' = [dev EXCEPT ![d] = WithoutFabric(d, m)]
        /\ \/ pc' = [pc EXCEPT ![p] = "create"] /\ UNCHANGED <<kind, id, auto, snap, fd, flow>>
           \/ Ends(p)
    BY DEF RemoveFabric, Goto
<1>1. PICK m \in Carrying(d, id[p]) : dev' = [dev EXCEPT ![d] = WithoutFabric(d, m)]
    BY <1>0
<1>2. /\ pc[p] = "remove" /\ halved' = halved \cup {id[p]}
      /\ UNCHANGED <<fileVars, count, crashes, idOf, overlapped, issued, recorded, confirmed>>
    BY DEF RemoveFabric
<1>3. /\ dev \in [Devices -> DeviceStates] /\ flow \in [Procs -> Flows] /\ id[p] \in Ids
      /\ kind[p] # "commission"
    BY <1>2 DEF DInv, RestTyped, OnRoute, IInv, RunTyped, Running
<1>4. m \in dev[d].entries /\ idOf[m] = id[p]
    BY DEF Carrying
<1>5. /\ dev' \in [Devices -> DeviceStates]
      /\ \A e \in Devices :
           /\ dev'[e].entries = IF e = d THEN dev[d].entries \ {m} ELSE dev[e].entries
           /\ dev'[e].by = dev[e].by /\ dev'[e].unconf = dev[e].unconf
           /\ dev'[e].sess = dev[e].sess \/ dev'[e].sess = None
  <2>1. dev[d] \in DeviceStates
      BY <1>3
  <2>2. /\ WithoutFabric(d, m) \in DeviceStates
        /\ WithoutFabric(d, m).entries = dev[d].entries \ {m}
        /\ WithoutFabric(d, m).by = dev[d].by /\ WithoutFabric(d, m).unconf = dev[d].unconf
        /\ WithoutFabric(d, m).sess = None
      BY <2>1 DEF WithoutFabric, DeviceStates
  <2> QED BY <1>1, <1>3, <2>2
<1>6. NoFlow \in Flows
    BY BoundsNat, EmptySeq DEF NoFlow, Flows, Legacy, Serials
<1>7. /\ \A q \in Procs \ {p} :
           /\ pc'[q] = pc[q] /\ kind'[q] = kind[q] /\ id'[q] = id[q] /\ snap'[q] = snap[q]
           /\ flow'[q] = flow[q]
      /\ pc'[p] \in {"create", "idle"}
      /\ pc'[p] = "create" => kind'[p] = kind[p] /\ flow'[p] = flow[p]
      /\ snap'[p] = snap[p] \/ snap'[p] = EmptyLedger
      /\ flow' \in [Procs -> Flows]
    BY <1>0, <1>3, <1>6 DEF Ends, Goto, IInv, CmdTypeOK
<1>8. RestTyped'
    BY <1>2, <1>3, <1>5, <1>7 DEF DInv, RestTyped
<1>9. Numbered'
    BY <1>2, <1>5, <1>7 DEF DInv, Numbered, Running
<1>10. ASSUME NEW q \in Procs PROVE OnRoute(q)' /\ OverCase(q)'
  <2>1. CASE q = p
      BY <1>7, <2>1 DEF OnRoute, OverCase, At
  <2>2. CASE q # p
    <3>1. OnRoute(q) /\ OverCase(q)
        BY DEF DInv
    <3>2. ASSUME NEW t, Untouched(q, t) PROVE Untouched(q, t)'
        BY <1>5, <1>7, <2>2, <3>2 DEF Untouched
    <3>3. OnRoute(q)'
        BY <1>7, <2>2, <3>1, <3>2 DEF OnRoute
    <3>4. OverCase(q)'
        BY <1>2, <1>5, <1>7, <2>2, <3>1 DEF OnRoute, OverCase, At
    <3> QED BY <3>3, <3>4
  <2> QED BY <2>1, <2>2
<1>11. OnlyConfirmed'
    BY <1>2, <1>3, <1>7 DEF DInv, OnlyConfirmed, fileVars, Saving, EmptyLedger
<1>12. ASSUME Alone' PROVE OnFabric'
  <2>1. OnFabric /\ Serial
      BY <1>2, <1>12 DEF Alone, DInv, IInv
  <2>2. LoadLedger' = LoadLedger
      BY <1>2 DEF LoadLedger, fileVars
  <2>3. ASSUME NEW n, n # id[p], Kept(n) PROVE Kept(n)'
      BY <1>2, <1>4, <1>5, <2>3 DEF Kept
  <2>4. \A q \in Procs : ~Saving(q)'
      BY <1>2, <1>3, <1>7, <2>1 DEF Serial, Running, Saving
  <2> QED BY <1>2, <2>1, <2>2, <2>3, <2>4 DEF OnFabric
<1> QED BY <1>8, <1>9, <1>10, <1>11, <1>12 DEF DInv

\* Steps that only touch the devices, and steps of a process that dies.
LEMMA OtherKeeps ==
    ASSUME IInv, DInv,
           \/ \E d \in Devices : FailSafeLapses(d) \/ FailSafeSwept(d)
           \/ \E p \in Procs : Crash(p) \/ RenameFails(p)
           \/ UNCHANGED vars
    PROVE  DInv'
<1>0. /\ RestTyped /\ flow \in [Procs -> Flows] /\ crashes \in 0..MaxCrashes
      /\ confirmed \subseteq Ids /\ count \in Nat /\ Legacy \in 0..count
    BY BoundsNat DEF DInv, RestTyped, Legacy
<1>1. ASSUME UNCHANGED <<fileVars, cmdVars, count, crashes, history>>, Marks(Legacy, "none")
      PROVE  DInv'
  <2>1. \A q \in Procs \ {} : Stays(q, Legacy, "none")
      BY <1>1 DEF Stays, cmdVars
  <2>2. {} \in SUBSET Procs /\ \A q \in {} : Moves(q)
      OBVIOUS
  <2> QED BY <1>0, <1>1, <2>1, <2>2, MovesKeep DEF cmdVars, history
<1>2. ASSUME NEW d \in Devices, FailSafeLapses(d) \/ FailSafeSwept(d) PROVE DInv'
    BY <1>0, <1>1, <1>2, TimerMarks DEF FailSafeLapses, FailSafeSwept
<1>3. ASSUME NEW p \in Procs, Crash(p) \/ RenameFails(p) PROVE DInv'
  <2>1. /\ Ends(p) /\ dev' = dev /\ confirmed' = confirmed
        /\ UNCHANGED <<fileVars, count, idOf, overlapped, issued, recorded, halved>>
      BY <1>3 DEF Crash, RenameFails, history
  <2>2. crashes' \in 0..MaxCrashes
      BY <1>0, <1>3, BoundsNat DEF Crash, RenameFails
  <2>3. Marks(Legacy, "none")
      BY <1>0, <2>1, NothingMarks
  <2> QED BY <1>0, <2>1, <2>2, <2>3, EndKeeps
<1>4. CASE UNCHANGED vars
    BY <1>0, <1>1, <1>4, NothingMarks DEF vars
<1> QED BY <1>2, <1>3, <1>4

\* A ledger that can be read names confirmed nodes only.
LEMMA LoadedConfirmed == ASSUME IInv, DInv, Readable PROVE LoadLedger.nodes \subseteq confirmed
<1>1. CASE disk = NoFile
    BY <1>1 DEF LoadLedger, EmptyLedger
<1>2. CASE disk # NoFile
  <2>1. disk \in Inodes /\ content[disk] \in Ledgers /\ content[disk].nodes \subseteq confirmed
      BY <1>2 DEF IInv, CmdTypeOK, FileTypeOK, DInv, OnlyConfirmed, Readable
  <2>2. LoadLedger.nodes = content[disk].nodes
      BY <1>2, <2>1 DEF LoadLedger, Ledgers
  <2> QED BY <2>1, <2>2
<1> QED BY <1>1, <1>2

\* A command starts: with a serial number that is on no device yet.
LEMMA StartKeepsDevices ==
    ASSUME IInv, DInv, NEW p \in Procs, NEW k \in {"commission", "unpair", "forced"}, NEW n \in Ids,
           NEW a \in BOOLEAN, NEW d, NEW l \in {"discover", "remove"},
           Readable, Starts(p, k, n, a, d), Goto(p, l),
           l = "discover" => d \in Devices /\ k = "commission",
           l = "remove" => d = None /\ k # "commission"
    PROVE  DInv'
<1> DEFINE f == [NoFlow EXCEPT !.c = count + 1, !.d = d]
<1>1. /\ pc[p] = "idle" /\ count < MaxCommands /\ count' = count + 1
      /\ pc' = [pc EXCEPT ![p] = l] /\ kind' = [kind EXCEPT ![p] = k] /\ id' = [id EXCEPT ![p] = n]
      /\ snap' = [snap EXCEPT ![p] = LoadLedger] /\ flow' = [flow EXCEPT ![p] = f]
      /\ idOf' = [idOf EXCEPT ![count + 1] = IF k = "commission" THEN n ELSE 0]
      /\ overlapped' = (overlapped \/ \E q \in Procs : Running(q))
      /\ UNCHANGED <<content, disk, tmp, fd, dev, crashes, issued, recorded, confirmed, halved>>
    BY DEF Starts, Goto, Running, fileVars
<1>2. /\ count \in Nat /\ count + 1 \in Serials /\ count + 1 \in 0..MaxCommands
      /\ flow \in [Procs -> Flows] /\ dev \in [Devices -> DeviceStates]
      /\ idOf \in [Serials -> 0..MaxId]
    BY <1>1, BoundsNat DEF DInv, RestTyped, Serials
<1>3. f \in Flows /\ f.c = count + 1 /\ f.d = d
  <2> DEFINE g == NoFlow
  <2>1. g \in Flows
      BY BoundsNat, EmptySeq DEF NoFlow, Flows, Legacy, Serials
  <2>2. d \in Devices \cup {None}
      OBVIOUS
  <2> HIDE DEF g
  <2> QED BY <1>2, <2>1, <2>2 DEF Flows, g
<1> HIDE DEF f
<1>4. /\ \A q \in Procs \ {p} :
           /\ pc'[q] = pc[q] /\ kind'[q] = kind[q] /\ id'[q] = id[q] /\ snap'[q] = snap[q]
           /\ flow'[q] = flow[q]
      /\ pc'[p] = l /\ kind'[p] = k /\ id'[p] = n /\ snap'[p] = LoadLedger /\ flow'[p] = f
    BY <1>1, <1>2 DEF IInv, CmdTypeOK
<1>5. ASSUME NEW e \in Devices
      PROVE  /\ \A w \in dev[e].entries : w \in Serials /\ w <= count /\ w # count + 1
             /\ dev[e].by # count + 1
             /\ dev[e].sess # None =>
                  /\ dev[e].sess.c \in Serials /\ dev[e].sess.c <= count
                  /\ dev[e].sess.entry # None => dev[e].sess.entry <= count
  <2>1. dev[e] \in DeviceStates /\ Serials \subseteq Nat /\ count + 1 # None
      BY <1>2, BoundsNat, NoneIsNothing DEF Serials
  <2>2. \A w \in dev[e].entries : w \in Serials /\ w <= count
      BY <2>1 DEF DInv, Numbered, DeviceStates
  <2>3. dev[e].by # None => dev[e].by \in Nat /\ dev[e].by <= count
      BY <2>1 DEF DInv, Numbered, DeviceStates
  <2>4. dev[e].sess # None =>
          /\ dev[e].sess.c \in Serials /\ dev[e].sess.c <= count
          /\ dev[e].sess.entry # None => dev[e].sess.entry <= count
      BY <2>1 DEF DInv, Numbered, DeviceStates, Sessions
  <2> QED BY <1>2, <2>1, <2>2, <2>3, <2>4
<1>6. RestTyped'
  <2>1. idOf' \in [Serials -> 0..MaxId]
      BY <1>1, <1>2, MaxIdNat DEF Ids
  <2>2. flow' \in [Procs -> Flows]
      BY <1>1, <1>2, <1>3
  <2> QED BY <1>1, <1>2, <2>1, <2>2 DEF DInv, RestTyped
<1>7. Numbered'
  <2>1. \A q \in Procs \ {p} : pc'[q] # "idle" => flow'[q].c \in 1..count
      BY <1>4 DEF DInv, Numbered, Running
  <2>2. flow'[p].c = count + 1
      BY <1>3, <1>4
  <2>3. \A q \in Procs : pc'[q] # "idle" => flow'[q].c \in 1..(count + 1)
      BY <1>2, <2>1, <2>2
  <2>4. ASSUME NEW q \in Procs, NEW r \in Procs, pc'[q] # "idle", pc'[r] # "idle",
               flow'[q].c = flow'[r].c
        PROVE  q = r
    <3>1. q = p <=> r = p
        BY <1>2, <2>1, <2>2, <2>4
    <3> QED BY <1>4, <2>4, <3>1 DEF DInv, Numbered, Running
  <2>5. \A e \in Devices :
          /\ \A w \in dev[e].entries : w <= count + 1
          /\ dev[e].by # None => dev[e].by <= count + 1
          /\ dev[e].sess # None =>
               /\ dev[e].sess.c <= count + 1
               /\ dev[e].sess.entry # None => dev[e].sess.entry <= count + 1
    <3>1. \A e \in Devices :
            /\ dev[e].entries \subseteq Nat
            /\ dev[e].by # None => dev[e].by \in Nat
            /\ dev[e].sess # None =>
                 dev[e].sess.c \in Nat /\ (dev[e].sess.entry # None => dev[e].sess.entry \in Nat)
        BY <1>2, BoundsNat DEF DeviceStates, Sessions, Serials
    <3> QED BY <1>2, <3>1 DEF DInv, Numbered
  <2> QED BY <1>1, <2>3, <2>4, <2>5 DEF Numbered, Running
<1>8. ASSUME NEW w \in Serials, w <= count PROVE idOf'[w] = idOf[w]
    BY <1>1, <1>2, <1>8 DEF Serials
<1>9. ASSUME NEW q \in Procs PROVE OnRoute(q)' /\ OverCase(q)'
  <2>1. CASE q = p
    <3>1. Untouched(p, <<"arm", "noc">>)'
        BY <1>1, <1>3, <1>4, <1>5 DEF Untouched
    <3> QED BY <1>3, <1>4, <2>1, <3>1 DEF OnRoute, OverCase, At
  <2>2. CASE q # p
    <3>1. OnRoute(q) /\ OverCase(q) /\ pc'[q] = pc[q] /\ kind'[q] = kind[q] /\ id'[q] = id[q]
          /\ flow'[q] = flow[q] /\ dev' = dev
        BY <1>1, <1>4, <2>2 DEF DInv
    <3>2. OnRoute(q)'
        BY <3>1 DEF OnRoute, Untouched
    <3>3. ASSUME At(q, "complete")' PROVE OverCase(q)'
      <4>1. At(q, "complete") /\ flow[q].d \in Devices
          BY <3>1, <3>3 DEF At, OnRoute
      <4> DEFINE x == dev[flow[q].d].sess
      <4>2. ASSUME x # None, x.c = flow[q].c PROVE x.entry \in Serials /\ idOf'[x.entry] = id'[q]
        <5>1. x.entry \in Serials /\ idOf[x.entry] = id[q]
            BY <3>1, <4>1, <4>2 DEF OverCase
        <5>2. x.entry # None /\ x.entry <= count
            BY <1>5, <4>1, <4>2, <5>1, NoneIsNothing
        <5> QED BY <1>8, <3>1, <5>1, <5>2
      <4> QED BY <3>1, <4>2 DEF OverCase
    <3> QED BY <3>2, <3>3 DEF OverCase
  <2> QED BY <2>1, <2>2
<1>10. OnlyConfirmed'
    BY <1>1, <1>4, LoadedConfirmed DEF DInv, OnlyConfirmed, Saving
<1>11. ASSUME Alone' PROVE OnFabric'
  <2>1. OnFabric /\ Alone
      BY <1>1, <1>11 DEF Alone, DInv
  <2>2. LoadLedger' = LoadLedger
      BY <1>1 DEF LoadLedger
  <2>3. ASSUME NEW m, Kept(m) PROVE Kept(m)'
    <3>1. PICK e \in Devices : \E w \in dev[e].entries : idOf[w] = m /\ w # dev[e].unconf
        BY <2>3 DEF Kept
    <3>2. PICK w \in dev[e].entries : idOf[w] = m /\ w # dev[e].unconf
        BY <3>1
    <3>3. idOf'[w] = m
        BY <1>5, <1>8, <3>2
    <3> QED BY <1>1, <3>2, <3>3 DEF Kept
  <2>4. \A q \in Procs : Saving(q)' => Saving(q) /\ id'[q] = id[q]
      BY <1>4 DEF Saving
  <2> QED BY <1>1, <2>1, <2>2, <2>3, <2>4 DEF OnFabric
<1> QED BY <1>6, <1>7, <1>9, <1>10, <1>11 DEF DInv

-----------------------------------------------------------------------------
(* Saving                                                                  *)

\* Steps on the files: where the commands are on their routes does not change.
LEMMA FileStepRoutes ==
    ASSUME IInv, DInv, NEW p \in Procs, pc[p] \in {"create", "write", "rename"},
           UNCHANGED <<dev, count, idOf>>,
           \A q \in Procs \ {p} :
               /\ pc'[q] = pc[q] /\ kind'[q] = kind[q] /\ id'[q] = id[q] /\ flow'[q] = flow[q],
           pc'[p] \in {"write", "rename", "idle"}, pc'[p] # "idle" => flow'[p] = flow[p]
    PROVE  Numbered' /\ \A q \in Procs : OnRoute(q)' /\ OverCase(q)'
<1>1. Numbered'
    BY DEF DInv, Numbered, Running
<1>2. ASSUME NEW q \in Procs PROVE OnRoute(q)' /\ OverCase(q)'
  <2>1. CASE q = p
      BY <2>1 DEF OnRoute, OverCase, At
  <2>2. CASE q # p
    <3>1. OnRoute(q) /\ OverCase(q)
        BY DEF DInv
    <3>2. OnRoute(q)'
        BY <2>2, <3>1 DEF OnRoute, Untouched
    <3>3. OverCase(q)'
        BY <2>2, <3>1 DEF OverCase, At
    <3> QED BY <3>2, <3>3
  <2> QED BY <2>1, <2>2
<1> QED BY <1>1, <1>2

\* Creating and writing the temporary file.
LEMMA TmpKeeps == ASSUME IInv, IInv', DInv, NEW p \in Procs, Create(p) \/ Write(p) PROVE DInv'
<1>1. /\ pc[p] \in {"create", "write"} /\ pc' \in {[pc EXCEPT ![p] = "write"], [pc EXCEPT ![p] = "rename"]}
      /\ UNCHANGED <<kind, id, snap, flow, dev, count, crashes, idOf, overlapped, issued, recorded,
                     confirmed, halved>>
    BY DEF Create, Write, Goto, history
<1>2. RestTyped'
    BY <1>1 DEF DInv, RestTyped
<1>3. /\ \A q \in Procs \ {p} : pc'[q] = pc[q]
      /\ pc'[p] \in {"write", "rename"}
    BY <1>1 DEF IInv, CmdTypeOK
<1>4. Numbered' /\ \A q \in Procs : OnRoute(q)' /\ OverCase(q)'
    BY <1>1, <1>3, FileStepRoutes
<1>5. \A q \in Procs : Saving(q)' => Saving(q)
    BY <1>1, <1>3 DEF Saving
<1>6. OnlyConfirmed'
  <2>1. CASE Create(p)
    <3>1. PICK i \in Inodes : content' = [content EXCEPT ![i] = Blank]
        BY <2>1 DEF Create, CreateTmp
    <3> QED BY <1>1, <1>5, <3>1, TornIsNoLedger DEF DInv, OnlyConfirmed, IInv, CmdTypeOK, FileTypeOK
  <2>2. CASE Write(p)
    <3>1. /\ pc[p] = "write"
          /\ content' \in {[content EXCEPT ![fd[p]] = Outcome(p)], [content EXCEPT ![fd[p]] = Torn]}
        BY <2>2 DEF Write, WriteTmp
    <3>2. id[p] \in Ids /\ snap[p] \in Ledgers /\ snap[p].nodes \subseteq confirmed
        BY <3>1 DEF IInv, RunTyped, Running, CmdTypeOK, DInv, OnlyConfirmed
    <3>3. kind[p] = "commission" => id[p] \in confirmed
        BY <3>1 DEF DInv, OnlyConfirmed, Saving
    <3>4. Outcome(p).nodes \subseteq confirmed
        BY <3>2, <3>3 DEF Outcome, UpsertNode, RemoveNode, Ledgers
    <3>5. \A i \in Inodes : content'[i] \in {content[i], Outcome(p), Torn}
        BY <3>1 DEF IInv, CmdTypeOK, FileTypeOK
    <3> QED BY <1>1, <1>5, <3>4, <3>5, TornIsNoLedger DEF DInv, OnlyConfirmed
  <2> QED BY <2>1, <2>2
<1>7. ASSUME Alone' PROVE OnFabric'
  <2>1. OnFabric /\ Serial /\ Serial'
      BY <1>1, <1>7 DEF Alone, DInv, IInv
  <2>2. LoadLedger' = LoadLedger
    <3>1. Running(p) /\ pc'[p] # "idle"
        BY <1>1, <1>3 DEF Running
    <3>2. snap[p] = LoadLedger /\ snap'[p] = LoadLedger'
        BY <2>1, <3>1 DEF Serial, Running
    <3> QED BY <1>1, <3>2
  <2>3. \A n : Kept(n)' <=> Kept(n)
      BY <1>1 DEF Kept
  <2> QED BY <1>1, <1>5, <2>1, <2>2, <2>3 DEF OnFabric
<1> QED BY <1>2, <1>4, <1>6, <1>7 DEF DInv

\* The rename: the ids of the ledger are those that were recorded.
LEMMA RenameKeepsDevices == ASSUME IInv, IInv', DInv, NEW p \in Procs, Rename(p) PROVE DInv'
<1>1. /\ pc[p] = "rename" /\ tmp # NoFile /\ disk' = tmp /\ content' = content
      /\ recorded' = IF kind[p] = "commission" THEN recorded \cup {id[p]} ELSE recorded \ {id[p]}
      /\ issued' = IF kind[p] = "commission" THEN issued \cup {id[p]} ELSE issued
      /\ halved' = halved \ {id[p]}
      /\ UNCHANGED <<dev, count, crashes, idOf, overlapped, confirmed>>
    BY DEF Rename, RenameTmp
<1>2. /\ pc' = [pc EXCEPT ![p] = "idle"] /\ kind' = [kind EXCEPT ![p] = "commission"]
      /\ id' = [id EXCEPT ![p] = 0] /\ snap' = [snap EXCEPT ![p] = EmptyLedger]
      /\ flow' = [flow EXCEPT ![p] = NoFlow]
    BY DEF Rename, Ends, Goto
<1>3. id[p] \in Ids /\ snap[p] \in Ledgers /\ fd[p] \in Inodes
    BY <1>1 DEF IInv, RunTyped, Running, CmdTypeOK
<1>4. RestTyped'
  <2>1. NoFlow \in Flows
      BY BoundsNat, EmptySeq DEF NoFlow, Flows, Legacy, Serials
  <2> QED BY <1>1, <1>2, <1>3, <2>1 DEF DInv, RestTyped
<1>5. /\ \A q \in Procs \ {p} :
           /\ pc'[q] = pc[q] /\ kind'[q] = kind[q] /\ id'[q] = id[q] /\ flow'[q] = flow[q]
           /\ snap'[q] = snap[q]
      /\ pc'[p] = "idle" /\ snap'[p] = EmptyLedger
    BY <1>2 DEF IInv, CmdTypeOK, DInv, RestTyped
<1>6. Numbered' /\ \A q \in Procs : OnRoute(q)' /\ OverCase(q)'
    BY <1>1, <1>5, FileStepRoutes
<1>7. OnlyConfirmed'
    BY <1>1, <1>5 DEF DInv, OnlyConfirmed, Saving, EmptyLedger
<1>8. ASSUME Alone' PROVE OnFabric'
  <2>1. OnFabric /\ Serial
      BY <1>1, <1>8 DEF Alone, DInv, IInv
  <2>2. snap[p] = LoadLedger /\ tmp = fd[p] /\ content[fd[p]] = Outcome(p)
      BY <1>1, <2>1 DEF Serial, Running
  <2>3. Outcome(p) \in Ledgers
      BY <1>3, OutcomeLedger
  <2>4. LoadLedger'.nodes = Outcome(p).nodes
    <3>1. content'[disk'] = Outcome(p) /\ disk' # NoFile
        BY <1>1, <2>2
    <3> QED BY <2>3, <3>1 DEF LoadLedger, Ledgers
  <2>5. Outcome(p).nodes = recorded'
      BY <1>1, <1>3, <2>1, <2>2 DEF Outcome, UpsertNode, RemoveNode, Ledgers, OnFabric
  <2>6. \A n : Kept(n)' <=> Kept(n)
      BY <1>1 DEF Kept
  <2>7. kind[p] = "commission" => Kept(id[p])
      BY <1>1, <2>1 DEF OnFabric, Saving
  <2>8. \A q \in Procs : ~Saving(q)'
      BY <1>1, <1>5, <2>1 DEF Serial, Running, Saving
  <2> QED BY <1>1, <2>1, <2>4, <2>5, <2>6, <2>7, <2>8 DEF OnFabric
<1> QED BY <1>4, <1>6, <1>7, <1>8 DEF DInv

\* Every step keeps both invariants.
LEMMA DevicesKeep == IInv /\ DInv /\ [Next]_vars => DInv'
<1> SUFFICES ASSUME IInv, DInv, [Next]_vars PROVE DInv'
    OBVIOUS
<1>0. IInv'
    BY StepKeeps
<1>1. ASSUME NEW p \in Procs, NEW d \in Devices, StartCommission(p, d) PROVE DInv'
  <2>1. CASE /\ NextNodeId(LoadLedger) \in Ids
             /\ Starts(p, "commission", NextNodeId(LoadLedger), TRUE, d)
      BY <1>1, <2>1, StartKeepsDevices DEF StartCommission
  <2>2. ASSUME NEW n \in ExplicitIds, Starts(p, "commission", n, FALSE, d) PROVE DInv'
      BY <1>1, <2>2, StartKeepsDevices, ExplicitAssumption DEF StartCommission
  <2> QED BY <1>1, <2>1, <2>2 DEF StartCommission
<1>2. ASSUME NEW p \in Procs, NEW n \in Ids, StartUnpair(p, n) PROVE DInv'
    BY <1>2, StartKeepsDevices DEF StartUnpair
<1>3. ASSUME NEW p \in Procs, Save(p) PROVE DInv'
    BY <1>0, <1>3, TmpKeeps, RenameKeepsDevices, OtherKeeps DEF Save
<1>4. ASSUME NEW p \in Procs, Route(p) \/ RemoveFabric(p) \/ Unreachable(p) \/ Crash(p) PROVE DInv'
    BY <1>4, RouteKeeps, RemoveKeeps, UnreachableKeeps, OtherKeeps
<1>5. ASSUME NEW d \in Devices, FailSafeLapses(d) \/ FailSafeSwept(d) PROVE DInv'
    BY <1>5, OtherKeeps
<1>6. CASE UNCHANGED vars
    BY <1>6, OtherKeeps
<1> QED BY <1>1, <1>2, <1>3, <1>4, <1>5, <1>6 DEF Next

\* Initially the node of an old ledger is on a device.
LEMMA DevicesInit == Init => DInv
<1> SUFFICES ASSUME Init PROVE DInv
    OBVIOUS
<1>0. IInv
    BY InitHolds
<1>1. PICK owner \in Devices :
        dev = [d \in Devices |-> NewDevice(IF disk # NoFile /\ d = owner THEN {Legacy} ELSE {})]
    BY DEF Init
<1>2. /\ Legacy \in Serials /\ Legacy = 0 /\ count = 0
      /\ idOf = [c \in Serials |-> IF c = Legacy THEN 1 ELSE 0]
      /\ \A p \in Procs : pc[p] = "idle" /\ snap[p] = EmptyLedger /\ flow[p] = NoFlow
      /\ flow = [p \in Procs |-> NoFlow]
      /\ recorded = LoadLedger.nodes /\ issued = LoadLedger.nodes /\ confirmed = LoadLedger.nodes
      /\ halved = {}
    BY BoundsNat DEF Init, Legacy, Serials
<1>3. ASSUME NEW d \in Devices
      PROVE  /\ dev[d] \in DeviceStates /\ dev[d].unconf = None /\ dev[d].by = None
             /\ dev[d].sess = None
             /\ dev[d].entries = IF disk # NoFile /\ d = owner THEN {Legacy} ELSE {}
    BY <1>1, <1>2, <1>3 DEF NewDevice, DeviceStates
<1>4. RestTyped
  <2>1. NoFlow \in Flows
      BY BoundsNat, EmptySeq DEF NoFlow, Flows, Legacy, Serials
  <2>2. LoadLedger.nodes \subseteq Ids
      BY <1>0, <1>2 DEF IInv, CmdTypeOK
  <2>3. dev \in [Devices -> DeviceStates]
      BY <1>1, <1>3
  <2>4. crashes \in 0..MaxCrashes /\ count \in 0..MaxCommands /\ idOf \in [Serials -> 0..MaxId]
      BY <1>2, BoundsNat, MaxIdNat DEF Init
  <2> QED BY <1>2, <2>1, <2>2, <2>3, <2>4 DEF RestTyped
<1>5. Numbered
    BY <1>2, <1>3 DEF Numbered, Running
<1>6. \A p \in Procs : OnRoute(p) /\ OverCase(p)
    BY <1>2 DEF OnRoute, OverCase, At
<1>7. OnlyConfirmed
  <2>1. ASSUME NEW i \in Inodes, content[i] \in Ledgers PROVE content[i].nodes \subseteq confirmed
    <3>1. i = disk /\ disk # NoFile
        BY <2>1, NoFileIsNoInode, TornIsNoLedger DEF Init
    <3> QED BY <1>2, <2>1, <3>1 DEF LoadLedger, Ledgers
  <2> QED BY <1>2, <2>1 DEF OnlyConfirmed, Saving, EmptyLedger
<1>8. OnFabric
  <2>1. ASSUME NEW n \in LoadLedger.nodes PROVE Kept(n)
    <3>1. disk # NoFile
        BY <2>1 DEF LoadLedger, EmptyLedger
    <3>2. disk \in Inodes /\ content[disk] = [nodes |-> {1}, next |-> 0]
        BY <3>1 DEF Init
    <3>3. LoadLedger.nodes = {1}
        BY <3>1, <3>2 DEF LoadLedger
    <3>4. Legacy \in dev[owner].entries /\ idOf[Legacy] = 1 /\ Legacy # dev[owner].unconf
        BY <1>2, <1>3, <3>1, NoneIsNothing
    <3> QED BY <2>1, <3>3, <3>4 DEF Kept
  <2> QED BY <1>2, <2>1 DEF OnFabric, Saving
<1> QED BY <1>4, <1>5, <1>6, <1>7, <1>8 DEF DInv

\* The ledger names no node that was not confirmed, whatever races; while
\* commands run one after the other it can be read after a crash at any point,
\* loses no node, and every node in it is on the fabric or was half unpaired: for
\* any number of processes, devices, ids, commands and crashes.
THEOREM LedgerStaysSound == Spec => []LedgerSound
<1>1. ASSUME IInv, DInv PROVE LedgerSound
  <2>1. TypeOK
      BY <1>1 DEF IInv, CmdTypeOK, DInv, RestTyped, TypeOK
  <2>2. Readable => LoadLedger.nodes \subseteq confirmed
      BY <1>1, LoadedConfirmed
  <2>3. ASSUME Alone
        PROVE  Readable /\ LoadLedger.nodes = recorded /\ recorded \subseteq Carried \cup halved
    <3>1. \A n \in recorded \ halved : Kept(n)
        BY <1>1, <2>3 DEF DInv, OnFabric
    <3>2. \A n \in Ids : Kept(n) => n \in Carried
        BY DEF Kept, Carried, Carrying
    <3>3. recorded \subseteq Ids
        BY <2>1 DEF TypeOK
    <3> QED BY <1>1, <2>3, <3>1, <3>2, <3>3 DEF IInv, Serial, DInv, OnFabric
  <2> QED BY <2>1, <2>2, <2>3 DEF LedgerSound
<1> QED BY <1>1, InitHolds, StepKeeps, DevicesInit, DevicesKeep, PTL DEF Spec

\* A commission that has fallen back to BLE, or is about to arm the fail-safe, has
\* left nothing on its device: is_dead_end lets a plan go on only where nothing
\* was done that cannot be undone.  For any interleaving of commands.
THEOREM FallbackStaysClean == Spec => []FallbackIsClean
<1>1. ASSUME IInv, DInv PROVE FallbackIsClean
  <2> SUFFICES ASSUME NEW p \in Procs, pc[p] = "route",
                      Head(flow[p].todo) \in {"scan", "pase", "arm"}
               PROVE  /\ dev[flow[p].d].by # flow[p].c
                      /\ flow[p].c \notin dev[flow[p].d].entries
      BY DEF FallbackIsClean, At
  <2>1. /\ flow[p].d \in Devices /\ RouteEnd(flow[p].todo) /\ Untouched(p, flow[p].todo)
      BY <1>1, OnRouteFacts
  <2>2. Head(flow[p].todo) \notin Late
      BY DEF Late
  <2> QED BY <2>1, <2>2, Owed
<1> QED BY <1>1, InitHolds, StepKeeps, DevicesInit, DevicesKeep, PTL DEF Spec
=============================================================================
