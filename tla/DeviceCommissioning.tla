------------------------ MODULE DeviceCommissioning ------------------------
(***************************************************************************)
(* The commissioning side of mat-device: the fail-safe timer, the fabric   *)
(* table and its file, the per-fabric rows of the ACL / group stores, the  *)
(* commissioning window, the operational mDNS adverts and the one current  *)
(* session, as driven by the single-task receive loop of net::runtime.     *)
(*                                                                         *)
(* A fabric is an identity of Ids (root key, fabric id and node id); its   *)
(* index is what AddNOC hands out.  The three per-fabric stores behave     *)
(* alike (purge and save, a failed save only warns), so `rows' stands for  *)
(* any of them.  A deadline is "live" until time passes it.                *)
(***************************************************************************)
EXTENDS Naturals, FiniteSets, FiniteSetsExt

CONSTANTS
    Ids,           \* fabric identities commissioners can install
    None,
    Supported,     \* SUPPORTED_FABRICS (5 in the code)
    IndexModulus,  \* 256 in the code: a fabric index is a u8
    MaxSaveFaults, \* bound on failed writes to the device's files
    MaxRestarts    \* bound on restarts

ASSUME SizesPositive == Supported \in Nat \ {0} /\ IndexModulus \in Nat \ {0, 1}
ASSUME BoundsNat == MaxSaveFaults \in Nat /\ MaxRestarts \in Nat

Indices == 0..(IndexModulus - 1)
NoFabric == 0   \* the index of a PASE session, "no fabric"

ASSUME NoneIsNothing == None \notin Ids \cup Indices

VARIABLES
    fab, fabDisk,     \* fabric table: index -> identity or None; its file
    rows, rowsDisk,   \* per-fabric rows: index -> identities that own some
    marker,           \* uncommitted_fabric_index, an Option<u8>
    fs,               \* fail-safe: "off", "live", "past"
    csr, root,        \* pending op keypair / trusted root are staged
    admin,            \* the core's admin window is open
    window, until,    \* the runtime's window; its deadline
    adverts,          \* identities advertised as operational over mDNS
    sess, sessId,     \* current session: fabric index (None: no session), identity
    busy,             \* a select branch is running; FALSE: the loop waits
    wait,             \* this select has a timer for the fail-safe deadline
    seen,             \* history: identities ever installed (each is a fresh NOC)
    confirmed,        \* history: identities a CommissioningComplete confirmed
    saveFaults, restarts

disk == <<fabDisk, rowsDisk>>
pending == <<csr, root>>
windowVars == <<admin, window, until>>
session == <<sess, sessId>>
history == <<seen, confirmed>>
bounds == <<saveFaults, restarts>>
vars == <<fab, disk, rows, marker, fs, pending, windowVars, adverts, session,
          busy, wait, history, bounds>>

TypeOK ==
    /\ fab \in [Indices -> Ids \cup {None}] /\ fabDisk \in [Indices -> Ids \cup {None}]
    /\ rows \in [Indices -> SUBSET Ids] /\ rowsDisk \in [Indices -> SUBSET Ids]
    /\ marker \in Indices \cup {None}
    /\ fs \in {"off", "live", "past"}
    /\ csr \in BOOLEAN /\ root \in BOOLEAN /\ admin \in BOOLEAN
    /\ window \in {"closed", "open", "ecm"} /\ until \in {"live", "past"}
    /\ adverts \subseteq Ids
    /\ sess \in Indices \cup {None} /\ sessId \in Ids \cup {None}
    /\ busy \in BOOLEAN /\ wait \in BOOLEAN
    /\ seen \subseteq Ids /\ confirmed \subseteq Ids
    /\ saveFaults \in 0..MaxSaveFaults /\ restarts \in 0..MaxRestarts

EmptyTable == [i \in Indices |-> None]
Installed(t) == {i \in Indices : t[i] # None}
Identities(t) == {t[i] : i \in Installed(t)}

\* `max + 1' of the occupied indices, 1 for an empty table, in u8 arithmetic.
NextFabricIndex ==
    IF Installed(fab) = {} THEN 1 ELSE (Max(Installed(fab)) + 1) % IndexModulus

\* What earlier runs of the device may have left: nothing, or one confirmed
\* fabric, at any index an AddNOC has handed out before the wrap.
BootTables ==
    {EmptyTable} \cup {[EmptyTable EXCEPT ![i] = id] : i \in Indices \ {NoFabric}, id \in Ids}

\* The window of a device that boots without a fabric is open.
BootWindow(t) == IF Installed(t) = {} THEN "open" ELSE "closed"

Init ==
    /\ fab \in BootTables /\ fabDisk = fab
    /\ rows = [i \in Indices |-> {fab[i]} \ {None}] /\ rowsDisk = rows
    /\ marker = None /\ fs = "off" /\ csr = FALSE /\ root = FALSE
    /\ admin = FALSE /\ window = BootWindow(fab) /\ until = "live"
    /\ adverts = Identities(fab) /\ sess = None /\ sessId = None
    /\ busy = FALSE /\ wait = FALSE
    /\ seen = Identities(fab) /\ confirmed = Identities(fab)
    /\ saveFaults = 0 /\ restarts = 0

-----------------------------------------------------------------------------
(* Files.  A save writes the whole table; it may fail.                     *)

SaveFails == saveFaults < MaxSaveFaults /\ saveFaults' = saveFaults + 1
SaveWorks == UNCHANGED saveFaults

\* Mutant: the rows of the stores stay.
RemoveEntryNoPurge(i) ==
    /\ fab' = [fab EXCEPT ![i] = None] /\ fabDisk' = fab'
    /\ UNCHANGED <<rows, rowsDisk, saveFaults>>

\* FabricStore::remove and the purge of the stores: memory always changes,
\* each file only if its save works.
RemoveEntry(i) ==
    /\ fab' = [fab EXCEPT ![i] = None]
    /\ rows' = [rows EXCEPT ![i] = {}]
    /\ \/ SaveWorks /\ fabDisk' = fab' /\ rowsDisk' = rows'
       \/ SaveFails /\ UNCHANGED fabDisk /\ rowsDisk' = rows'
       \/ SaveFails /\ fabDisk' = fab' /\ UNCHANGED rowsDisk

NoRemoval == UNCHANGED <<fab, fabDisk, rows, rowsDisk, saveFaults>>

\* rollback_uncommitted_fabric: take() the marker, remove, purge.
RollbackUncommitted ==
    /\ marker' = None
    /\ IF marker # None /\ fab[marker] # None THEN RemoveEntry(marker)
                                              ELSE NoRemoval

ClearPending == csr' = FALSE /\ root' = FALSE

-----------------------------------------------------------------------------
(* Commands over the current session.  A PASE session is an implicit       *)
(* administrator, a CASE session needs an ACL row of its fabric.  The      *)
(* handler keeps the loop busy until the reply is acknowledged.            *)

Serve ==
    /\ ~busy /\ busy' = TRUE
    /\ sess # None
    /\ sess = NoFabric \/ rows[sess] # {}
    /\ wait' = FALSE

\* armed + non-zero extends; anything else rolls the previous attempt back.
ArmFailSafe(expiry) ==
    /\ Serve
    /\ IF expiry = 0 \/ fs # "live"
       THEN RollbackUncommitted /\ ClearPending
       ELSE NoRemoval /\ UNCHANGED <<marker, pending>>
    /\ fs' = IF expiry = 0 THEN "off" ELSE "live"
    /\ UNCHANGED <<windowVars, adverts, session, history, restarts>>

CsrRequest ==
    /\ Serve /\ fs = "live"
    /\ csr' = TRUE
    /\ UNCHANGED <<fab, disk, rows, marker, fs, root, windowVars, adverts, session,
                   history, bounds>>

AddTrustedRoot ==
    /\ Serve /\ fs = "live"
    /\ root' = TRUE
    /\ UNCHANGED <<fab, disk, rows, marker, fs, csr, windowVars, adverts, session,
                   history, bounds>>

\* A failed save takes the entry out again and answers TableFull.  Bound: after
\* the wrap to 0 the code would add a second entry with that index; not here.
AddNoc(id) ==
    /\ Serve /\ fs = "live" /\ csr /\ root
    /\ Cardinality(Installed(fab)) < Supported
    /\ id \notin seen
    /\ NextFabricIndex = NoFabric => fab[NoFabric] = None
    /\ LET i == NextFabricIndex IN
       \/ /\ fab' = [fab EXCEPT ![i] = id] /\ fabDisk' = fab'
          /\ rows' = [rows EXCEPT ![i] = @ \cup {id}]   \* add_case_admin
          /\ \/ SaveWorks /\ rowsDisk' = rows'
             \/ SaveFails /\ UNCHANGED rowsDisk
          /\ marker' = i
          /\ ClearPending
          /\ adverts' = adverts \cup {id}               \* advertise_added_fabric
          /\ seen' = seen \cup {id}
       \/ /\ SaveFails
          /\ UNCHANGED <<fab, disk, rows, marker, pending, adverts, seen>>
    /\ UNCHANGED <<fs, windowVars, session, confirmed, restarts>>

\* Mutant: the marker survives the confirmation.
CompleteKeepsMarker ==
    /\ Serve
    /\ fs' = "off" /\ ClearPending
    /\ admin' = FALSE /\ window' = "closed"
    /\ confirmed' = confirmed \cup Identities(fab)
    /\ UNCHANGED <<fab, disk, rows, marker, until, adverts, session, seen, bounds>>

\* Disarm, forget the marker; the runtime then closes the window.
CommissioningComplete ==
    /\ Serve
    /\ fs' = "off" /\ ClearPending /\ marker' = None
    /\ admin' = FALSE /\ window' = "closed"
    /\ confirmed' = confirmed \cup Identities(fab)
    /\ UNCHANGED <<fab, disk, rows, until, adverts, session, seen, bounds>>

\* The runtime retires the advert and drops the session of that fabric.
RemoveFabric(i) ==
    /\ Serve /\ fab[i] # None
    /\ RemoveEntry(i)
    /\ adverts' = adverts \ {fab[i]}
    /\ IF i = sess /\ sess # NoFabric THEN sess' = None /\ sessId' = None
                                      ELSE UNCHANGED session
    /\ UNCHANGED <<marker, fs, pending, windowVars, history, restarts>>

OpenCommissioningWindow ==
    /\ Serve /\ ~admin
    /\ admin' = TRUE /\ window' = "ecm" /\ until' = "live"
    /\ UNCHANGED <<fab, disk, rows, marker, fs, pending, adverts, session, history,
                   bounds>>

RevokeCommissioning ==
    /\ Serve /\ admin
    /\ admin' = FALSE
    /\ window' = IF window = "ecm" THEN "closed" ELSE window
    /\ UNCHANGED <<fab, disk, rows, marker, fs, pending, until, adverts, session,
                   history, bounds>>

-----------------------------------------------------------------------------
(* Handshakes: a new session replaces the current one.                     *)

Pase ==
    /\ ~busy /\ busy' = TRUE /\ wait' = FALSE
    /\ window # "closed"
    /\ sess' = NoFabric /\ sessId' = None
    /\ UNCHANGED <<fab, disk, rows, marker, fs, pending, windowVars, adverts, history,
                   bounds>>

Case(i) ==
    /\ ~busy /\ busy' = TRUE /\ wait' = FALSE
    /\ fab[i] # None
    /\ sess' = i /\ sessId' = fab[i]
    /\ UNCHANGED <<fab, disk, rows, marker, fs, pending, windowVars, adverts, history,
                   bounds>>

\* Any other datagram, a refused command or a failed handshake included.
OtherDatagram ==
    /\ ~busy /\ busy' = TRUE /\ wait' = FALSE
    /\ UNCHANGED <<fab, disk, rows, marker, fs, pending, windowVars, adverts, session,
                   history, bounds>>

-----------------------------------------------------------------------------
(* Time and the loop.  A handler that ends re-enters select!, which then   *)
(* asks fail_safe_deadline() once: a deadline already passed reads as none.*)

FailSafeLapses ==
    /\ fs = "live" /\ fs' = "past"
    /\ UNCHANGED <<fab, disk, rows, marker, pending, windowVars, adverts, session,
                   busy, wait, history, bounds>>

WindowLapses ==
    /\ window # "closed" /\ until = "live" /\ until' = "past"
    /\ UNCHANGED <<fab, disk, rows, marker, fs, pending, admin, window, adverts,
                   session, busy, wait, history, bounds>>

EnterSelect ==
    /\ busy /\ busy' = FALSE
    /\ wait' = (fs = "live")
    /\ UNCHANGED <<fab, disk, rows, marker, fs, pending, windowVars, adverts, session,
                   history, bounds>>

OnFailSafeExpired ==
    /\ ~busy /\ wait /\ fs = "past"
    /\ busy' = TRUE /\ wait' = FALSE
    /\ fs' = "off" /\ ClearPending
    /\ RollbackUncommitted
    /\ adverts' = adverts \ (Identities(fab) \ Identities(fab'))
    /\ UNCHANGED <<windowVars, session, history, restarts>>

\* Mutants: the core's window is not closed; only the boot window is timed.
WindowExpiredCoreOpen ==
    /\ ~busy /\ window # "closed" /\ until = "past"
    /\ busy' = TRUE /\ wait' = FALSE
    /\ window' = "closed"
    /\ UNCHANGED <<fab, disk, rows, marker, fs, pending, admin, until, adverts,
                   session, history, bounds>>
WindowExpiredBootOnly ==
    /\ ~busy /\ window = "open" /\ until = "past"
    /\ busy' = TRUE /\ wait' = FALSE
    /\ window' = "closed" /\ admin' = FALSE
    /\ UNCHANGED <<fab, disk, rows, marker, fs, pending, until, adverts, session,
                   history, bounds>>

OnCommissioningWindowExpired ==
    /\ ~busy /\ window # "closed" /\ until = "past"
    /\ busy' = TRUE /\ wait' = FALSE
    /\ window' = "closed" /\ admin' = FALSE
    /\ UNCHANGED <<fab, disk, rows, marker, fs, pending, until, adverts, session,
                   history, bounds>>

\* Power cycle: the tables come back from their files, everything else resets.
Restart ==
    /\ restarts < MaxRestarts /\ restarts' = restarts + 1
    /\ fab' = fabDisk /\ rows' = rowsDisk
    /\ marker' = None /\ fs' = "off" /\ ClearPending
    /\ admin' = FALSE /\ until' = "live"
    /\ window' = BootWindow(fabDisk)
    /\ adverts' = Identities(fabDisk)
    /\ sess' = None /\ sessId' = None
    /\ busy' = FALSE /\ wait' = FALSE
    /\ UNCHANGED <<disk, history, saveFaults>>

-----------------------------------------------------------------------------
Command ==
    \/ \E e \in {0, 60} : ArmFailSafe(e)
    \/ CsrRequest \/ AddTrustedRoot \/ \E id \in Ids : AddNoc(id)
    \/ CommissioningComplete \/ \E i \in Indices : RemoveFabric(i)
    \/ OpenCommissioningWindow \/ RevokeCommissioning

Handshake == Pase \/ \E i \in Indices : Case(i)

Next ==
    \/ Command \/ Handshake \/ OtherDatagram
    \/ FailSafeLapses \/ WindowLapses \/ EnterSelect
    \/ OnFailSafeExpired \/ OnCommissioningWindowExpired
    \/ Restart

Spec == Init /\ [][Next]_vars

\* Handlers end (every await in them is bounded by a timeout) and a timer that
\* is due keeps being polled, so its branch runs even if datagrams keep coming.
FairSpec ==
    /\ Spec
    /\ WF_vars(EnterSelect)
    /\ SF_vars(OnFailSafeExpired) /\ SF_vars(OnCommissioningWindowExpired)

-----------------------------------------------------------------------------
(* Properties.                                                             *)

\* The core and the runtime agree on whether an administrator window is open:
\* BUSY / WINDOW_NOT_OPEN answers and PASE admission never drift apart,
\* whatever order of open, revoke, complete, expiry and restart.
WindowsAgree == admin <=> window = "ecm"

\* With the types of the fabric table, the rows and the runtime's state.
WindowsSound == TypeOK /\ WindowsAgree

\* A fabric that CommissioningComplete confirmed is never the target of a
\* rollback: a later attempt that fails cannot take it down.
RollbackSparesConfirmed == marker # None => fab[marker] \notin confirmed

\* No occupant of a fabric index inherits ACL or group rows another fabric
\* left behind (purge_fabric_stores, index reissue by next_fabric_index).
RowsBelongToOccupant ==
    \A i \in Installed(fab) : rows[i] \subseteq {fab[i]}

\* The same while every save of the purged rows has worked.
PurgeKeepsRowsApart == saveFaults = 0 => RowsBelongToOccupant

\* A session never outlives its fabric into the index's next occupant: if the
\* index of the session is occupied, it is by the fabric it authenticated to.
NoSessionInherits ==
    sess \notin {None, NoFabric} /\ fab[sess] # None => fab[sess] = sessId

\* A lapsed commissioning window is closed by the loop on its own.
LapsedWindowCloses ==
    (window # "closed" /\ until = "past") ~> (until = "live" \/ window = "closed")

\* net/runtime/window.rs: the expiry branch fires on its own and bounds how
\* long an uncommitted fabric stays visible after the fail-safe lapses.
LapsedFailSafeSwept ==
    (fs = "past" /\ marker # None) ~> (marker = None \/ fs = "live")

\* core/commissioning: expiry and early disarm recover every fabric that was
\* added and not confirmed.
NoZombieFabric == fs = "off" => Identities(fab) \subseteq confirmed

\* core/commissioning/noc.rs: the adverts follow the in-memory table.
AdvertsMatchTable == adverts = Identities(fab)

\* core/fabric_store.rs: indices are 1-based, 0 is reserved as "no fabric".
IndexZeroReserved == fab[NoFabric] = None

\* net/runtime/window.rs: the open window is never read past its own deadline.
PaseOnlyBeforeDeadline == [][Pase => until = "live"]_vars
=============================================================================
