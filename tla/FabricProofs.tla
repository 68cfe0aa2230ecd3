---------------------------- MODULE FabricProofs ----------------------------
(***************************************************************************)
(* Proofs about a fabric's credentials: on the device                      *)
(* (DeviceCommissioning) and in their rotation by the controller           *)
(* (IpkRotation).                                                          *)
(*                                                                         *)
(* DeviceCommissioning, for any identities, table size, index modulus and  *)
(* number of faults and restarts.  IInv adds to the properties what makes  *)
(* them inductive: every identity in the table or its file was installed   *)
(* before, the session of a fabric that is gone has no rows to act with,   *)
(* and as long as every save works the files are the tables and every row  *)
(* belongs to the occupant of its index.                                   *)
(*                                                                         *)
(* IpkRotation, for any set of nodes, keys and processes.  When commands   *)
(* run one at a time (~Concurrent) the invariant RotationInv is inductive  *)
(* and gives StoreConsistent, NoNodeStranded and WrittenKeysPersisted.     *)
(* RotationTypeOK and PendingKeyKept need no such assumption: they hold of *)
(* racing commands too.                                                    *)
(***************************************************************************)
EXTENDS DeviceCommissioning, IpkRotation, TLAPS, WellFoundedInduction

Known ==
    /\ \A i \in Indices : fab[i] \in seen \cup {None} /\ fabDisk[i] \in seen \cup {None}
    /\ confirmed \subseteq seen

GoneIsPowerless ==
    sess \notin {None, NoFabric} /\ fab[sess] = None => rows[sess] = {}

SavedIsClean ==
    saveFaults = 0 =>
        /\ fabDisk = fab /\ rowsDisk = rows
        /\ \A i \in Indices : rows[i] \subseteq {fab[i]}

IInv ==
    /\ TypeOK /\ WindowsAgree
    /\ Known /\ RollbackSparesConfirmed
    /\ NoSessionInherits /\ GoneIsPowerless
    /\ SavedIsClean
-----------------------------------------------------------------------------
(* Fabric indices.                                                         *)

\* A non-empty set of indices has a largest one: the least of its bounds.
LEMMA MaxIndex ==
    ASSUME NEW S \in SUBSET Indices, S # {}
    PROVE  Max(S) \in S /\ \A i \in S : i <= Max(S)
<1> DEFINE Bounds == {b \in Nat : \A i \in S : i <= b}
<1>0. IndexModulus \in Nat /\ IndexModulus > 1
    BY SizesPositive
<1>1. IndexModulus - 1 \in Bounds
    BY <1>0 DEF Indices
<1>2. PICK b \in Bounds : \A c \in Bounds : ~(<<c, b>> \in OpToRel(<, Nat))
    BY <1>1, WFMin, NatLessThanWellFounded, Zenon
<1>3. \A c \in Bounds : ~(c < b)
    BY <1>2 DEF OpToRel
<1>4. b \in S
  <2> SUFFICES ASSUME b \notin S PROVE FALSE
      OBVIOUS
  <2>1. \A i \in S : i \in Nat /\ i <= b /\ i # b
      BY DEF Indices
  <2>2. b # 0
      BY <2>1
  <2>3. b - 1 \in Bounds
      BY <2>1, <2>2
  <2> QED BY <1>3, <2>3
<1>5. \E x \in S : \A y \in S : x >= y
    BY <1>4 DEF Indices
<1>6. Max(S) \in S /\ \A y \in S : Max(S) >= y
    BY <1>5 DEF Max
<1> QED BY <1>6 DEF Indices

\* "len + 1 would hand out an index a still-live fabric already occupies"
\* (fabric_store.rs): max + 1 does not, unless the u8 wraps to 0.
LEMMA NextIndexFree ==
    ASSUME TypeOK
    PROVE  /\ NextFabricIndex \in Indices
           /\ NextFabricIndex # NoFabric => fab[NextFabricIndex] = None
<1>0. IndexModulus \in Nat /\ IndexModulus > 1
    BY SizesPositive
<1>1. CASE Installed(fab) = {}
  <2>1. NextFabricIndex = 1
      BY <1>1 DEF NextFabricIndex
  <2>2. 1 \in Indices
      BY <1>0 DEF Indices
  <2> QED BY <1>1, <2>1, <2>2 DEF Installed
<1>2. CASE Installed(fab) # {}
  <2> DEFINE m == Max(Installed(fab))
  <2>1. Installed(fab) \in SUBSET Indices
      BY DEF Installed
  <2>2. m \in Indices /\ \A i \in Installed(fab) : i <= m
      BY <1>2, <2>1, MaxIndex
  <2> HIDE DEF m
  <2>3. NextFabricIndex = (m + 1) % IndexModulus
      BY <1>2 DEF NextFabricIndex, m
  <2>4. CASE m + 1 < IndexModulus
    <3>1. NextFabricIndex = m + 1
        BY <1>0, <2>2, <2>3, <2>4 DEF Indices
    <3>2. m + 1 \in Indices /\ m + 1 \notin Installed(fab)
        BY <1>0, <2>2, <2>4 DEF Indices
    <3> QED BY <3>1, <3>2 DEF Installed
  <2>5. CASE m + 1 = IndexModulus
    <3>1. NextFabricIndex = 0
        BY <1>0, <2>3, <2>5
    <3> QED BY <1>0, <3>1 DEF Indices, NoFabric
  <2> QED BY <1>0, <2>2, <2>4, <2>5 DEF Indices
<1> QED BY <1>1, <1>2
-----------------------------------------------------------------------------
(* The steps that change the tables.                                       *)

\* FabricStore::remove and the purge, whichever of the saves fail.
LEMMA RemoveEntryKeeps ==
    ASSUME IInv, NEW i \in Indices, RemoveEntry(i)
    PROVE  /\ fab' = [fab EXCEPT ![i] = None] /\ fab' \in [Indices -> Ids \cup {None}]
           /\ rows' = [rows EXCEPT ![i] = {}] /\ rows' \in [Indices -> SUBSET Ids]
           /\ fabDisk' \in {fab', fabDisk} /\ rowsDisk' \in {rows', rowsDisk}
           /\ saveFaults' \in 0..MaxSaveFaults
           /\ saveFaults' = 0 =>
                 /\ fabDisk' = fab' /\ rowsDisk' = rows'
                 /\ \A j \in Indices : rows'[j] \subseteq {fab'[j]}
<1>1. /\ fab \in [Indices -> Ids \cup {None}] /\ rows \in [Indices -> SUBSET Ids]
      /\ saveFaults \in 0..MaxSaveFaults /\ MaxSaveFaults \in Nat
    BY BoundsNat DEF IInv, TypeOK
<1>2. fab' = [fab EXCEPT ![i] = None] /\ rows' = [rows EXCEPT ![i] = {}]
    BY DEF RemoveEntry
<1>3. fab' \in [Indices -> Ids \cup {None}] /\ rows' \in [Indices -> SUBSET Ids]
    BY <1>1, <1>2
<1>4. CASE SaveWorks /\ fabDisk' = fab' /\ rowsDisk' = rows'
  <2>1. saveFaults' = saveFaults
      BY <1>4 DEF SaveWorks
  <2>2. ASSUME saveFaults = 0, NEW j \in Indices
        PROVE  rows'[j] \subseteq {fab'[j]}
      BY <1>1, <1>2, <2>2 DEF IInv, SavedIsClean
  <2> QED BY <1>1, <1>2, <1>3, <1>4, <2>1, <2>2
<1>5. CASE SaveFails /\ fabDisk' \in {fab', fabDisk} /\ rowsDisk' \in {rows', rowsDisk}
  <2>1. saveFaults' \in 1..MaxSaveFaults
      BY <1>1, <1>5 DEF SaveFails
  <2> QED BY <1>1, <1>2, <1>3, <1>5, <2>1
<1> QED BY <1>4, <1>5 DEF RemoveEntry

\* rollback_uncommitted_fabric: memory never keeps the fabric of the marker.
LEMMA RollbackKeeps ==
    ASSUME IInv, RollbackUncommitted
    PROVE  /\ marker' = None
           /\ fab' \in [Indices -> Ids \cup {None}] /\ rows' \in [Indices -> SUBSET Ids]
           /\ fabDisk' \in {fab', fabDisk} /\ rowsDisk' \in {rows', rowsDisk}
           /\ \A j \in Indices : /\ fab'[j] \in {fab[j], None}
                                 /\ rows'[j] \in {rows[j], {}}
                                 /\ fab'[j] = None => fab[j] = None \/ rows'[j] = {}
           /\ saveFaults' \in 0..MaxSaveFaults
           /\ saveFaults' = 0 =>
                 /\ fabDisk' = fab' /\ rowsDisk' = rows'
                 /\ \A j \in Indices : rows'[j] \subseteq {fab'[j]}
<1>1. marker' = None
    BY DEF RollbackUncommitted
<1>2. CASE marker # None /\ fab[marker] # None
  <2>1. marker \in Indices /\ RemoveEntry(marker)
      BY <1>2 DEF RollbackUncommitted, IInv, TypeOK
  <2> QED BY <1>1, <2>1, RemoveEntryKeeps DEF IInv, TypeOK
<1>3. CASE ~(marker # None /\ fab[marker] # None)
  <2>1. UNCHANGED <<fab, fabDisk, rows, rowsDisk, saveFaults>>
      BY <1>3 DEF RollbackUncommitted, NoRemoval
  <2> QED BY <1>1, <2>1 DEF IInv, TypeOK, SavedIsClean
<1> QED BY <1>2, <1>3
-----------------------------------------------------------------------------
(* The invariant.                                                          *)

\* Steps that leave the tables and the session alone.
LEMMA QuietKeeps ==
    ASSUME IInv, UNCHANGED <<fab, fabDisk, rows, rowsDisk, saveFaults, seen>>,
           TypeOK', WindowsAgree', confirmed' \subseteq seen,
           sess' \in {None, NoFabric} \/ UNCHANGED session,
           marker' = None \/ UNCHANGED <<marker, confirmed>>
    PROVE  IInv'
<1>1. Known' /\ RollbackSparesConfirmed' /\ SavedIsClean'
    BY DEF IInv, Known, RollbackSparesConfirmed, SavedIsClean
<1>2. NoSessionInherits' /\ GoneIsPowerless'
    BY DEF IInv, NoSessionInherits, GoneIsPowerless, session
<1> QED BY <1>1, <1>2 DEF IInv

\* Commands, handshakes and timers that do not touch the fabric table.
LEMMA QuietSteps ==
    ASSUME IInv,
           \/ CsrRequest \/ AddTrustedRoot \/ CommissioningComplete
           \/ OpenCommissioningWindow \/ RevokeCommissioning
           \/ Pase \/ OtherDatagram
           \/ FailSafeLapses \/ WindowLapses \/ EnterSelect
           \/ OnCommissioningWindowExpired
    PROVE  IInv'
<1> USE DEF disk, pending, windowVars, session, history, bounds, Serve, ClearPending
<1>0. TypeOK /\ WindowsAgree /\ confirmed \subseteq seen
    BY DEF IInv, Known
<1>1. CASE CsrRequest
  <2>1. TypeOK' /\ WindowsAgree'
      BY <1>0, <1>1 DEF CsrRequest, TypeOK, WindowsAgree
  <2> QED BY <1>0, <1>1, <2>1, QuietKeeps DEF CsrRequest
<1>2. CASE AddTrustedRoot
  <2>1. TypeOK' /\ WindowsAgree'
      BY <1>0, <1>2 DEF AddTrustedRoot, TypeOK, WindowsAgree
  <2> QED BY <1>0, <1>2, <2>1, QuietKeeps DEF AddTrustedRoot
<1>3. CASE CommissioningComplete
  <2>1. Identities(fab) \subseteq seen
      BY DEF IInv, Known, Identities, Installed
  <2>2. TypeOK' /\ WindowsAgree' /\ confirmed' \subseteq seen
      BY <1>0, <1>3, <2>1 DEF CommissioningComplete, TypeOK, WindowsAgree
  <2> QED BY <1>3, <2>2, QuietKeeps DEF CommissioningComplete
<1>4. CASE OpenCommissioningWindow
  <2>1. TypeOK' /\ WindowsAgree'
      BY <1>0, <1>4 DEF OpenCommissioningWindow, TypeOK, WindowsAgree
  <2> QED BY <1>0, <1>4, <2>1, QuietKeeps DEF OpenCommissioningWindow
<1>5. CASE RevokeCommissioning
  <2>1. TypeOK' /\ WindowsAgree'
      BY <1>0, <1>5 DEF RevokeCommissioning, TypeOK, WindowsAgree
  <2> QED BY <1>0, <1>5, <2>1, QuietKeeps DEF RevokeCommissioning
<1>6. CASE Pase
  <2>1. NoFabric \in Indices
      BY SizesPositive DEF NoFabric, Indices
  <2>2. TypeOK' /\ WindowsAgree'
      BY <1>0, <1>6, <2>1 DEF Pase, TypeOK, WindowsAgree
  <2> QED BY <1>0, <1>6, <2>2, QuietKeeps DEF Pase
<1>7. CASE OtherDatagram
  <2>1. TypeOK' /\ WindowsAgree'
      BY <1>0, <1>7 DEF OtherDatagram, TypeOK, WindowsAgree
  <2> QED BY <1>0, <1>7, <2>1, QuietKeeps DEF OtherDatagram
<1>8. CASE FailSafeLapses
  <2>1. TypeOK' /\ WindowsAgree'
      BY <1>0, <1>8 DEF FailSafeLapses, TypeOK, WindowsAgree
  <2> QED BY <1>0, <1>8, <2>1, QuietKeeps DEF FailSafeLapses
<1>9. CASE WindowLapses
  <2>1. TypeOK' /\ WindowsAgree'
      BY <1>0, <1>9 DEF WindowLapses, TypeOK, WindowsAgree
  <2> QED BY <1>0, <1>9, <2>1, QuietKeeps DEF WindowLapses
<1>10. CASE EnterSelect
  <2>1. TypeOK' /\ WindowsAgree'
      BY <1>0, <1>10 DEF EnterSelect, TypeOK, WindowsAgree
  <2> QED BY <1>0, <1>10, <2>1, QuietKeeps DEF EnterSelect
<1>11. CASE OnCommissioningWindowExpired
  <2>1. TypeOK' /\ WindowsAgree'
      BY <1>0, <1>11 DEF OnCommissioningWindowExpired, TypeOK, WindowsAgree
  <2> QED BY <1>0, <1>11, <2>1, QuietKeeps DEF OnCommissioningWindowExpired
<1> QED BY <1>1, <1>2, <1>3, <1>4, <1>5, <1>6, <1>7, <1>8, <1>9, <1>10, <1>11

\* A rollback, by ArmFailSafe or by the expiry of the fail-safe.
LEMMA RollbackStep ==
    ASSUME IInv, RollbackUncommitted, TypeOK', WindowsAgree',
           UNCHANGED <<session, history>>
    PROVE  IInv'
<1>1. Known' /\ RollbackSparesConfirmed' /\ SavedIsClean'
    BY RollbackKeeps DEF IInv, TypeOK, Known, RollbackSparesConfirmed, SavedIsClean, history
<1>2. NoSessionInherits' /\ GoneIsPowerless'
    BY RollbackKeeps DEF IInv, TypeOK, NoSessionInherits, GoneIsPowerless, session
<1> QED BY <1>1, <1>2 DEF IInv

\* ArmFailSafe, with and without a rollback.
LEMMA ArmFailSafeStep ==
    ASSUME IInv, NEW e \in {0, 60}, ArmFailSafe(e)
    PROVE  IInv'
<1> USE DEF windowVars, session, history
<1>1. CASE e = 0 \/ fs # "live"
  <2>1. RollbackUncommitted /\ ClearPending
      BY <1>1 DEF ArmFailSafe
  <2>2. TypeOK' /\ WindowsAgree'
      BY <2>1, RollbackKeeps DEF IInv, ArmFailSafe, Serve, ClearPending, TypeOK, WindowsAgree
  <2> QED BY <2>1, <2>2, RollbackStep DEF ArmFailSafe
<1>2. CASE ~(e = 0 \/ fs # "live")
  <2>1. NoRemoval /\ UNCHANGED <<marker, csr, root>>
      BY <1>2 DEF ArmFailSafe, pending
  <2>2. TypeOK' /\ WindowsAgree'
      BY <2>1 DEF IInv, ArmFailSafe, Serve, NoRemoval, TypeOK, WindowsAgree
  <2>3. UNCHANGED <<fab, fabDisk, rows, rowsDisk, saveFaults, seen, confirmed, marker, sess, sessId>>
      BY <2>1 DEF ArmFailSafe, NoRemoval
  <2> QED BY <2>2, <2>3, QuietKeeps DEF IInv, Known
<1> QED BY <1>1, <1>2

\* The fail-safe timer.
LEMMA FailSafeExpiredStep == ASSUME IInv, OnFailSafeExpired PROVE IInv'
<1> USE DEF windowVars, session, history
<1>1. RollbackUncommitted /\ ClearPending
    BY DEF OnFailSafeExpired
<1>2. TypeOK' /\ WindowsAgree'
    BY <1>1, RollbackKeeps DEF IInv, OnFailSafeExpired, ClearPending, TypeOK, WindowsAgree
<1> QED BY <1>1, <1>2, RollbackStep DEF OnFailSafeExpired

\* RemoveFabric: the session of the fabric goes with it.
LEMMA RemoveFabricStep ==
    ASSUME IInv, NEW i \in Indices, RemoveFabric(i)
    PROVE  IInv'
<1> USE DEF windowVars, session, history, pending
<1>1. RemoveEntry(i)
    BY DEF RemoveFabric
<1>2. TypeOK' /\ WindowsAgree'
    BY <1>1, RemoveEntryKeeps DEF IInv, RemoveFabric, Serve, TypeOK, WindowsAgree
<1>3. Known' /\ SavedIsClean'
    BY <1>1, RemoveEntryKeeps DEF IInv, TypeOK, RemoveFabric, Known, SavedIsClean
<1>4. RollbackSparesConfirmed'
  <2>1. None \notin confirmed /\ UNCHANGED <<marker, confirmed>>
      BY NoneIsNothing DEF IInv, TypeOK, RemoveFabric
  <2> QED BY <1>1, <2>1, RemoveEntryKeeps DEF IInv, TypeOK, RollbackSparesConfirmed
<1>5. NoSessionInherits' /\ GoneIsPowerless'
    BY <1>1, RemoveEntryKeeps DEF IInv, TypeOK, RemoveFabric, NoSessionInherits, GoneIsPowerless
<1> QED BY <1>2, <1>3, <1>4, <1>5 DEF IInv

\* AddNOC: the index is free, and the session that asked for it has its rows
\* elsewhere.
LEMMA AddNocStep ==
    ASSUME IInv, NEW id \in Ids, AddNoc(id)
    PROVE  IInv'
<1> USE DEF windowVars, session, history, pending, disk
<1> DEFINE i == NextFabricIndex
<1>1. i \in Indices /\ fab[i] = None
    BY NextIndexFree DEF IInv, AddNoc
<1>2. UNCHANGED <<fs, admin, window, until, sess, sessId, confirmed, restarts>>
    BY DEF AddNoc
<1>3. CASE /\ SaveFails
           /\ UNCHANGED <<fab, disk, rows, marker, pending, adverts, seen>>
  <2>1. saveFaults' \in 1..MaxSaveFaults
      BY <1>3, BoundsNat DEF SaveFails, IInv, TypeOK
  <2>2. TypeOK' /\ WindowsAgree'
    <3>1. busy' \in BOOLEAN /\ wait' \in BOOLEAN
        BY DEF AddNoc, Serve
    <3>2. saveFaults' \in 0..MaxSaveFaults
        BY <2>1, BoundsNat
    <3> QED BY <1>2, <1>3, <3>1, <3>2 DEF IInv, TypeOK, WindowsAgree
  <2> QED BY <1>2, <1>3, <2>1, <2>2 DEF IInv, Known, RollbackSparesConfirmed,
              NoSessionInherits, GoneIsPowerless, SavedIsClean
<1>4. CASE /\ fab' = [fab EXCEPT ![i] = id] /\ fabDisk' = fab'
           /\ rows' = [rows EXCEPT ![i] = @ \cup {id}]
           /\ \/ SaveWorks /\ rowsDisk' = rows'
              \/ SaveFails /\ UNCHANGED rowsDisk
           /\ marker' = i
           /\ ClearPending
           /\ adverts' = adverts \cup {id}
           /\ seen' = seen \cup {id}
  <2>1. saveFaults' \in 0..MaxSaveFaults /\ (saveFaults' = 0 => saveFaults = 0 /\ rowsDisk' = rows')
      BY <1>4, BoundsNat DEF SaveFails, SaveWorks, IInv, TypeOK
  <2>2. TypeOK' /\ WindowsAgree'
    <3>1. /\ busy' \in BOOLEAN /\ wait' \in BOOLEAN
          /\ csr' \in BOOLEAN /\ root' \in BOOLEAN
        BY <1>4 DEF AddNoc, Serve, ClearPending
    <3>2. /\ fab' \in [Indices -> Ids \cup {None}] /\ fabDisk' = fab'
          /\ rows' \in [Indices -> SUBSET Ids] /\ rowsDisk' \in [Indices -> SUBSET Ids]
        BY <1>1, <1>4 DEF IInv, TypeOK
    <3>3. marker' \in Indices \cup {None} /\ adverts' \subseteq Ids /\ seen' \subseteq Ids
        BY <1>1, <1>4 DEF IInv, TypeOK
    <3> QED BY <1>2, <2>1, <3>1, <3>2, <3>3 DEF IInv, TypeOK, WindowsAgree
  <2>3. Known'
      BY <1>1, <1>2, <1>4 DEF IInv, TypeOK, Known
  <2>4. RollbackSparesConfirmed'
      BY <1>1, <1>2, <1>4 DEF IInv, TypeOK, Known, RollbackSparesConfirmed, AddNoc
  <2>5. sess \in {None, NoFabric} \/ sess # i
      BY <1>1 DEF IInv, GoneIsPowerless, AddNoc, Serve
  <2>6. NoSessionInherits' /\ GoneIsPowerless'
      BY <1>1, <1>2, <1>4, <2>5 DEF IInv, TypeOK, NoSessionInherits, GoneIsPowerless
  <2>7. SavedIsClean'
    <3> SUFFICES ASSUME saveFaults' = 0, NEW j \in Indices
                 PROVE  rows'[j] \subseteq {fab'[j]}
        BY <1>4, <2>1 DEF SavedIsClean
    <3>1. rows[i] = {}
        BY <1>1, <2>1, NoneIsNothing DEF IInv, TypeOK, SavedIsClean
    <3> QED BY <1>1, <1>4, <2>1, <3>1 DEF IInv, TypeOK, SavedIsClean
  <2> QED BY <2>2, <2>3, <2>4, <2>6, <2>7 DEF IInv
<1> QED BY <1>3, <1>4 DEF AddNoc

\* A CASE session is bound to the fabric it authenticated to.
LEMMA CaseStep == ASSUME IInv, NEW i \in Indices, Case(i) PROVE IInv'
<1> USE DEF windowVars, session, history, pending, disk, bounds
<1>1. TypeOK' /\ WindowsAgree'
    BY DEF IInv, Case, TypeOK, WindowsAgree
<1>2. Known' /\ RollbackSparesConfirmed' /\ SavedIsClean'
    BY DEF IInv, Case, Known, RollbackSparesConfirmed, SavedIsClean
<1>3. NoSessionInherits' /\ GoneIsPowerless'
    BY DEF IInv, Case, NoSessionInherits, GoneIsPowerless
<1> QED BY <1>1, <1>2, <1>3 DEF IInv

\* A power cycle: the tables are those of the files.
LEMMA RestartStep == ASSUME IInv, Restart PROVE IInv'
<1> USE DEF session, history, disk
<1>1. BootWindow(fabDisk) \in {"open", "closed"} /\ Identities(fabDisk) \subseteq Ids
    BY DEF BootWindow, Identities, Installed, IInv, TypeOK
<1>2. TypeOK' /\ WindowsAgree'
  <2>1. /\ busy' \in BOOLEAN /\ wait' \in BOOLEAN
        /\ csr' \in BOOLEAN /\ root' \in BOOLEAN /\ admin' \in BOOLEAN
      BY DEF Restart, ClearPending
  <2>2. restarts' \in 0..MaxRestarts
      BY BoundsNat DEF IInv, TypeOK, Restart
  <2>3. WindowsAgree'
      BY <1>1 DEF Restart, WindowsAgree
  <2> QED BY <1>1, <2>1, <2>2, <2>3 DEF IInv, TypeOK, Restart
<1>3. Known' /\ RollbackSparesConfirmed' /\ SavedIsClean'
    BY DEF IInv, Restart, Known, RollbackSparesConfirmed, SavedIsClean
<1>4. NoSessionInherits' /\ GoneIsPowerless'
    BY DEF IInv, Restart, NoSessionInherits, GoneIsPowerless
<1> QED BY <1>2, <1>3, <1>4 DEF IInv

\* Every step keeps the invariant.
LEMMA StepKeeps == IInv /\ [Next]_vars => IInv'
<1> SUFFICES ASSUME IInv, [Next]_vars PROVE IInv'
    OBVIOUS
<1>1. CASE UNCHANGED vars
  <2>1. TypeOK' /\ WindowsAgree' /\ UNCHANGED <<fab, fabDisk, rows, rowsDisk, saveFaults,
                                                seen, confirmed, marker, session>>
      BY <1>1 DEF vars, disk, pending, windowVars, session, history, bounds, IInv, TypeOK, WindowsAgree
  <2> QED BY <2>1, QuietKeeps DEF IInv, Known
<1>2. CASE Command
    BY <1>2, ArmFailSafeStep, AddNocStep, RemoveFabricStep, QuietSteps DEF Command
<1>3. CASE Handshake
    BY <1>3, CaseStep, QuietSteps DEF Handshake
<1> QED BY <1>1, <1>2, <1>3, QuietSteps, FailSafeExpiredStep, RestartStep DEF Next

\* A device boots with files that agree, and without a session.
LEMMA InitHolds == Init => IInv
<1> SUFFICES ASSUME Init PROVE IInv
    OBVIOUS
<1>1. fab \in [Indices -> Ids \cup {None}]
    BY DEF Init, BootTables, EmptyTable
<1>2. Identities(fab) \subseteq Ids /\ \A i \in Indices : fab[i] \in Identities(fab) \cup {None}
    BY <1>1 DEF Identities, Installed
<1>3. rows \in [Indices -> SUBSET Ids] /\ \A i \in Indices : rows[i] \subseteq {fab[i]}
    BY <1>1 DEF Init
<1>4. BootWindow(fab) \in {"open", "closed"}
    BY DEF BootWindow
<1>5. TypeOK /\ WindowsAgree
  <2>1. /\ busy \in BOOLEAN /\ wait \in BOOLEAN
        /\ csr \in BOOLEAN /\ root \in BOOLEAN /\ admin \in BOOLEAN
      BY DEF Init
  <2>2. WindowsAgree
      BY <1>4 DEF Init, WindowsAgree
  <2>3. saveFaults \in 0..MaxSaveFaults /\ restarts \in 0..MaxRestarts
      BY BoundsNat DEF Init
  <2> QED BY <1>1, <1>2, <1>3, <1>4, <2>1, <2>2, <2>3 DEF Init, TypeOK
<1>6. Known /\ RollbackSparesConfirmed /\ NoSessionInherits /\ GoneIsPowerless
    BY <1>2 DEF Init, Known, RollbackSparesConfirmed, NoSessionInherits, GoneIsPowerless
<1>7. SavedIsClean
    BY <1>3 DEF Init, SavedIsClean
<1> QED BY <1>5, <1>6, <1>7 DEF IInv

-----------------------------------------------------------------------------
\* The invariant, for any number of fabrics, faults and restarts.
LEMMA Invariant == Spec => []IInv
    BY InitHolds, StepKeeps, PTL DEF Spec

\* The core and the runtime never disagree on an open administrator window,
\* whatever the order of open, revoke, complete, expiry and restart.
THEOREM WindowsNeverDrift == Spec => []WindowsSound
<1>1. IInv => WindowsSound
    BY DEF IInv, WindowsSound
<1> QED BY <1>1, Invariant, PTL

\* No rollback takes down a fabric that CommissioningComplete has confirmed,
\* for any table size and also when the fabric index has wrapped to 0.
THEOREM ConfirmedStays == Spec => []RollbackSparesConfirmed
<1>1. IInv => RollbackSparesConfirmed
    BY DEF IInv
<1> QED BY <1>1, Invariant, PTL

\* No session acts for the fabric that its index was given to later.
THEOREM SessionsStayApart == Spec => []NoSessionInherits
<1>1. IInv => NoSessionInherits
    BY DEF IInv
<1> QED BY <1>1, Invariant, PTL

\* While every save works, no fabric finds rows of another one at its index.
THEOREM RowsStayApart == Spec => []PurgeKeepsRowsApart
<1>1. IInv => PurgeKeepsRowsApart
    BY DEF IInv, SavedIsClean, PurgeKeepsRowsApart, RowsBelongToOccupant, Installed
<1> QED BY <1>1, Invariant, PTL
-----------------------------------------------------------------------------
(* The rotation of the IPK.                                                *)

\* What a running command holds is a key of the store or a fresh one.
RunTyped ==
    \A p \in Procs :
        /\ pc[p] # "idle" => cur[p] \in Epochs
        /\ pc[p] = "begin" \/ pc[p] = "readpending" \/ InLoop(p) =>
              wr[p] \in Epochs /\ vf[p] \in Epochs
        /\ pc[p] \in {"write", "verify"} => at[p] \in Nodes

TypeInv == RotationTypeOK /\ RunTyped

\* Every step keeps the types of the store, the nodes and the processes.
LEMMA TypeStep == TypeInv /\ [RotationNext]_rotationVars => TypeInv'
<1> SUFFICES ASSUME TypeInv, [RotationNext]_rotationVars PROVE TypeInv'
    OBVIOUS
<1> USE DefaultIsEpoch, NoEpochAssumption, MaxFaultsNat DEF MaybeEpoch, Labels, Modes, TypeInv, RunTyped, InLoop
<1>1. CASE AbortIpkRotation
    BY <1>1 DEF RotationTypeOK, AbortIpkRotation, procVars, nodeVars
<1>2. ASSUME NEW p \in Procs, Run(p) PROVE TypeInv'
  <2>1. ASSUME NEW m \in {"rotate", "catchup"}, NEW L \in NodeLists, Start(p, m, L)
        PROVE TypeInv'
    <3>1. L \subseteq Nodes
        BY <2>1 DEF RotationTypeOK, NodeLists
    <3> QED BY <2>1, <3>1 DEF RotationTypeOK, Start, Goto, storeVars, nodeVars
  <2>2. ASSUME NEW n \in Nodes \ ledger, Start(p, "commission", {n})
        PROVE TypeInv'
      BY <2>2 DEF RotationTypeOK, Start, Goto, storeVars, nodeVars
  <2> QED BY <1>2, <2>1, <2>2 DEF Run
<1>3. ASSUME NEW p \in Procs, Step(p) PROVE TypeInv'
  <2>1. CASE Resolve(p)
      BY <2>1 DEF RotationTypeOK, Resolve, Goto, Exit, storeVars, nodeVars, procVars
  <2>2. CASE Adopt(p)
      BY <2>2 DEF RotationTypeOK, Adopt, Goto, nodeVars
  <2>3. CASE ReadNext(p)
      BY <2>3 DEF RotationTypeOK, ReadNext, Goto, Exit, storeVars, nodeVars
  <2>4. CASE BeginIpkRotation(p)
      BY <2>4 DEF RotationTypeOK, BeginIpkRotation, Goto, Exit, nodeVars, procVars
  <2>5. CASE ReadPrev(p)
      BY <2>5 DEF RotationTypeOK, ReadPrev, Goto, Exit, storeVars, nodeVars
  <2>6. CASE ReadPending(p)
      BY <2>6 DEF RotationTypeOK, ReadPending, Goto, storeVars, nodeVars, procVars
  <2>7. ASSUME NEW n \in Nodes, Establish(p, n) PROVE TypeInv'
      BY <2>7 DEF RotationTypeOK, Establish, Goto, storeVars, nodeVars, procVars
  <2>8. ASSUME NEW n \in Nodes, NodeFails(p, n) PROVE TypeInv'
      BY <2>8 DEF RotationTypeOK, NodeFails, Goto, storeVars, nodeVars, procVars
  <2>9. CASE KeySetWrite(p)
      BY <2>9 DEF RotationTypeOK, KeySetWrite, Goto, storeVars, procVars
  <2>10. CASE Verify(p)
      BY <2>10 DEF RotationTypeOK, Verify, Goto, storeVars, procVars
  <2>11. CASE CommitIpkRotation(p)
      BY <2>11 DEF RotationTypeOK, CommitIpkRotation, Exit, Goto, storeVars, procVars
  <2>12. CASE Report(p)
      BY <2>12 DEF RotationTypeOK, Report, Exit, Goto, storeVars, nodeVars, procVars
  <2>13. CASE CommissionNode(p)
      BY <2>13 DEF RotationTypeOK, CommissionNode, Exit, Goto, storeVars, procVars
  <2> QED BY <1>3, <2>1, <2>2, <2>3, <2>4, <2>5, <2>6, <2>7, <2>8, <2>9,
             <2>10, <2>11, <2>12, <2>13 DEF Step
<1>4. ASSUME NEW p \in Procs, Crash(p) PROVE TypeInv'
    BY <1>4 DEF RotationTypeOK, Crash, Exit, Goto, storeVars, nodeVars, procVars
<1>5. CASE UNCHANGED rotationVars
    BY <1>5 DEF RotationTypeOK, rotationVars, storeVars, nodeVars, procVars
<1> QED BY <1>1, <1>2, <1>3, <1>4, <1>5 DEF RotationNext

\* Every value the store, the devices and the commands ever hold has its type.
THEOREM TypeCorrect == RotationSpec => []RotationTypeOK
<1>1. RotationInit => TypeInv
    BY DefaultIsEpoch, NoEpochAssumption, MaxFaultsNat
    DEF RotationInit, TypeInv, RotationTypeOK, RunTyped, InLoop, MaybeEpoch, Labels, Modes
<1>2. TypeInv => RotationTypeOK
    BY DEF TypeInv
<1> QED BY <1>1, <1>2, TypeStep, PTL DEF RotationSpec

\* Racing commands included, the pending key changes only by going away: see
\* PendingKeyKept.
THEOREM PendingKeyStable == RotationSpec => PendingKeyKept
<1>1. [RotationNext]_rotationVars => [next # NoEpoch /\ next' # NoEpoch => next' = next]_rotationVars
  <2> SUFFICES ASSUME RotationNext, next # NoEpoch, next' # NoEpoch PROVE next' = next
      BY DEF rotationVars
  <2>1. CASE AbortIpkRotation
      BY <2>1 DEF AbortIpkRotation
  <2>2. ASSUME NEW p \in Procs, Run(p) PROVE next' = next
      BY <2>2 DEF Run, Start, storeVars
  <2>3. ASSUME NEW p \in Procs, Step(p) PROVE next' = next
    <3>1. CASE BeginIpkRotation(p)
        BY <3>1 DEF BeginIpkRotation
    <3>2. CASE CommitIpkRotation(p)
        BY <3>2 DEF CommitIpkRotation, storeVars
    <3> QED BY <2>3, <3>1, <3>2 DEF Step, Resolve, Adopt, ReadNext, ReadPrev,
              ReadPending, Establish, NodeFails, KeySetWrite, Verify, Report,
              CommissionNode, storeVars
  <2>4. ASSUME NEW p \in Procs, Crash(p) PROVE next' = next
      BY <2>4 DEF Crash, storeVars
  <2> QED BY <2>1, <2>2, <2>3, <2>4 DEF RotationNext
<1> QED BY <1>1, PTL DEF RotationSpec, PendingKeyKept

-----------------------------------------------------------------------------
(* Commands that run one at a time.                                        *)

SerialInv == StoreConsistent /\ NoNodeStranded /\ OneAtATime /\ StoreKnown
                /\ LoopKeys /\ VerifiedHoldTarget

\* One step of a command keeps what commands run one at a time know.
LEMMA SerialStep ==
    ASSUME ~Concurrent, TypeInv, TypeInv', SerialInv, [RotationNext]_rotationVars
    PROVE  SerialInv'
<1> USE DefaultIsEpoch, NoEpochAssumption
    DEF TypeInv, RotationTypeOK, RunTyped, SerialInv, StoreConsistent, NoNodeStranded,
        OneAtATime, StoreKnown, LoopKeys, VerifiedHoldTarget, InLoop
<1>1. CASE AbortIpkRotation
    BY <1>1 DEF AbortIpkRotation, Quiet, procVars, nodeVars
<1>2. ASSUME NEW p \in Procs, Run(p) PROVE SerialInv'
  <2>1. ASSUME NEW m, NEW L, Start(p, m, L) PROVE SerialInv'
      BY <2>1 DEF Start, Quiet, Goto, storeVars, nodeVars
  <2> QED BY <1>2, <2>1 DEF Run
<1>3. ASSUME NEW p \in Procs, Step(p) PROVE SerialInv'
  <2>1. CASE Resolve(p)
      BY <2>1 DEF Resolve, Goto, Exit, storeVars, nodeVars, procVars
  <2>2. CASE Adopt(p)
      BY <2>2 DEF Adopt, Goto, nodeVars
  <2>3. CASE ReadNext(p)
      BY <2>3 DEF ReadNext, Goto, Exit, storeVars, nodeVars
  <2>4. CASE BeginIpkRotation(p)
      BY <2>4 DEF BeginIpkRotation, Goto, Exit, nodeVars, procVars
  <2>5. CASE ReadPrev(p)
      BY <2>5 DEF ReadPrev, Goto, Exit, storeVars, nodeVars
  <2>6. CASE ReadPending(p)
      BY <2>6 DEF ReadPending, Goto, storeVars, nodeVars, procVars
  <2>7. CASE KeySetWrite(p)
    <3> USE <2>7 DEF KeySetWrite, Goto, storeVars, procVars
    <3>1. at[p] \in Nodes /\ k0 \in {wr[p], vf[p]}
        OBVIOUS
    <3>2. accept' = [accept EXCEPT ![at[p]] = {wr[p], vf[p]}]
        OBVIOUS
    <3>3. NoNodeStranded'
      <4>1. /\ ledger' = ledger /\ missed' = missed /\ k0' = k0 /\ prev' = prev
            /\ ledger \subseteq Nodes /\ accept \in [Nodes -> SUBSET Epochs]
            /\ NoNodeStranded
          OBVIOUS
      <4>2. ASSUME NEW n \in Nodes
            PROVE  accept'[n] = accept[n] \/ k0 \in accept'[n]
          BY ONLY <3>1, <3>2, <4>1, <4>2
      <4> QED BY ONLY <4>1, <4>2 DEF NoNodeStranded
    <3>4. /\ pc' = [pc EXCEPT ![p] = "verify"]
          /\ <<current, next, prev, k0, mode, list, cur, wr, vf, todo, failed, at>>'
               = <<current, next, prev, k0, mode, list, cur, wr, vf, todo, failed, at>>
          /\ \A q \in Procs : q # p => pc[q] = "idle"
      <4>1. /\ pc' = [pc EXCEPT ![p] = "verify"]
            /\ todo' = todo /\ failed' = failed /\ at' = at
            /\ UNCHANGED <<storeVars, procVars>>
          OBVIOUS
      <4>2. \A q \in Procs : q # p => pc[q] = "idle"
          OBVIOUS
      <4> QED BY ONLY <4>1, <4>2 DEF storeVars, procVars
    <3>5. \A n \in Nodes : vf[p] \in accept[n] => vf[p] \in accept'[n]
        BY <3>1, <3>2
    <3>6. VerifiedHoldTarget'
        BY <3>4, <3>5
    <3>7. StoreConsistent' /\ OneAtATime' /\ StoreKnown' /\ LoopKeys'
        BY <3>4
    <3> QED BY <3>3, <3>6, <3>7
  <2>8. CASE Verify(p)
      BY <2>8 DEF Verify, Goto, storeVars, procVars
  <2>9. CASE CommitIpkRotation(p)
    <3>1. CASE next = vf[p]
      <4> USE <2>9, <3>1 DEF CommitIpkRotation, Exit, Goto, procVars
      <4>1. /\ k0' = vf[p] /\ current' = vf[p] /\ prev' = k0 /\ next' = NoEpoch
            /\ accept' = accept /\ ledger' = ledger
            /\ \A n \in list[p] : vf[p] \in accept[n]
            /\ vf[p] \in Epochs
          OBVIOUS
      <4>2. ASSUME NEW n \in ledger
            PROVE  /\ missed'[n] = 0 => k0' \in accept'[n]
                   /\ missed'[n] = 1 => {k0', prev'} \cap accept'[n] # {}
        <5>1. missed'[n] = IF n \in list[p] THEN 0 ELSE missed[n] + 1
            BY <4>2
        <5>2. missed[n] \in Nat
            BY <4>2
        <5> QED BY <4>1, <4>2, <5>1, <5>2
      <4>3. NoNodeStranded'
          BY <4>1, <4>2
      <4>4. \A q \in Procs : pc'[q] = "idle"
          OBVIOUS
      <4> QED BY <4>1, <4>3, <4>4
    <3>2. CASE next # vf[p]
        BY <2>9, <3>2 DEF CommitIpkRotation, Exit, Goto, storeVars, procVars
    <3> QED BY <3>1, <3>2
  <2>10. CASE Report(p)
      BY <2>10 DEF Report, Exit, Goto, storeVars, nodeVars, procVars
  <2>11. CASE CommissionNode(p)
      BY <2>11 DEF CommissionNode, Exit, Goto, storeVars, procVars
  <2>12. ASSUME NEW n \in Nodes, Establish(p, n) PROVE SerialInv'
      BY <2>12 DEF Establish, Goto, storeVars, nodeVars, procVars
  <2>13. ASSUME NEW n \in Nodes, NodeFails(p, n) PROVE SerialInv'
      BY <2>13 DEF NodeFails, Goto, storeVars, nodeVars, procVars
  <2> QED BY <1>3, <2>1, <2>2, <2>3, <2>4, <2>5, <2>6, <2>7, <2>8, <2>9,
             <2>10, <2>11, <2>12, <2>13 DEF Step
<1>4. ASSUME NEW p \in Procs, Crash(p) PROVE SerialInv'
    BY <1>4 DEF Crash, Exit, Goto, storeVars, nodeVars, procVars
<1>5. CASE UNCHANGED rotationVars
    BY <1>5 DEF rotationVars, storeVars, nodeVars, procVars
<1> QED BY <1>1, <1>2, <1>3, <1>4, <1>5 DEF RotationNext

\* The initial store, nodes and processes.
LEMMA SerialInit == RotationInit => TypeInv /\ SerialInv
<1> SUFFICES ASSUME RotationInit PROVE TypeInv /\ SerialInv
    OBVIOUS
<1> USE DefaultIsEpoch, NoEpochAssumption, MaxFaultsNat DEF RotationInit
<1>1. TypeInv
    BY DEF TypeInv, RotationTypeOK, RunTyped, InLoop, MaybeEpoch, Labels, Modes
<1>2. StoreConsistent /\ NoNodeStranded
    BY DEF StoreConsistent, NoNodeStranded
<1>3. OneAtATime /\ StoreKnown /\ LoopKeys /\ VerifiedHoldTarget
    BY DEF OneAtATime, StoreKnown, LoopKeys, VerifiedHoldTarget, InLoop
<1> QED BY <1>1, <1>2, <1>3 DEF SerialInv

\* What a command writes to a node is in a slot of the store at that moment.
LEMMA SerialPersisted == TypeInv /\ SerialInv => WrittenKeysPersisted
    BY DEF TypeInv, RotationTypeOK, SerialInv, LoopKeys, InLoop, StoreKnown,
           WrittenKeysPersisted, Modes

\* Commands that run one at a time, interrupted anywhere, over any node lists:
\* the store never splits, no node is stranded, and every key a node was ever
\* handed could have been read back from the store when it was written.
THEOREM RotationSafe ==
    ASSUME ~Concurrent
    PROVE  RotationSpec => [](StoreConsistent /\ NoNodeStranded /\ WrittenKeysPersisted)
<1>1. RotationInit => TypeInv /\ SerialInv
    BY SerialInit
<1>2. TypeInv /\ SerialInv /\ [RotationNext]_rotationVars => (TypeInv /\ SerialInv)'
    BY TypeStep, SerialStep
<1>3. TypeInv /\ SerialInv => StoreConsistent /\ NoNodeStranded /\ WrittenKeysPersisted
    BY SerialPersisted DEF SerialInv
<1> QED BY <1>1, <1>2, <1>3, PTL DEF RotationSpec

\* The invariant the run checks is inductive: commands that run one at a time,
\* with any nodes, keys and faults, never leave it.
THEOREM SerialInvariant ==
    ASSUME ~Concurrent
    PROVE  RotationSpec => []RotationInv
<1>1. RotationInit => TypeInv /\ SerialInv
    BY SerialInit
<1>2. TypeInv /\ SerialInv /\ [RotationNext]_rotationVars => (TypeInv /\ SerialInv)'
    BY TypeStep, SerialStep
<1>3. TypeInv /\ SerialInv => RotationInv
    BY DEF TypeInv, SerialInv, RotationInv
<1> QED BY <1>1, <1>2, <1>3, PTL DEF RotationSpec
=============================================================================
