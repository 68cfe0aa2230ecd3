---------------------------- MODULE GroupDevice -----------------------------
(***************************************************************************)
(* The stores of a device that decide whether a groupcast is applied       *)
(* (mat-device/src/core: group_key_management.rs, group_membership.rs,     *)
(* groups.rs, access_control.rs; net/group_rx.rs), for one fabric and one  *)
(* endpoint.  A handler is an operator from the state of the device to     *)
(* what it answers and the state it leaves; an error leaves the state.     *)
(* The order of rows and entries, which nothing reads, is left out.        *)
(***************************************************************************)
EXTENDS Integers, FiniteSets

CONSTANTS
    MaxKeys,    \* MAX_GROUP_KEYS_PER_FABRIC
    GroupCap,   \* GROUP_TABLE_CAPACITY
    AclCap      \* ACL_ENTRIES_PER_FABRIC

View == 1
Operate == 3
Administer == 5

\* The entry AddNOC makes for the administrator, and one for a group.
AdminEntry == [auth |-> "case", privilege |-> Administer, subject |-> 0]
GroupEntry(g, privilege) == [auth |-> "group", privilege |-> privilege, subject |-> g]

\* keysets: the key of each; map: rows <<group, keyset>>; members: groups of the
\* endpoint; others: rows other fabrics have in the same table.
FreshDevice(others, acl) ==
    [keysets |-> <<>>, map |-> {}, members |-> {}, others |-> others, acl |-> acl]

Done(d) == [ok |-> TRUE, dev |-> d]
Refused(d) == [ok |-> FALSE, dev |-> d]

\* What a Group Key Management or Access Control request needs: check() of the
\* administrator's session.
Administered(d) == AdminEntry \in d.acl

\* upsert_keyset_epochs: replace, or add while there is room; the IPK is not counted.
KeySetWrite(d, k, key) ==
    IF Administered(d) /\ (k \in DOMAIN d.keysets \/ Cardinality(DOMAIN d.keysets \ {0}) < MaxKeys)
    THEN Done([d EXCEPT !.keysets = [i \in DOMAIN @ \cup {k} |-> IF i = k THEN key ELSE @[i]]])
    ELSE Refused(d)

\* check_map_entry of every row, then replace_fabric_map.
WriteGroupKeyMap(d, rows) ==
    IF Administered(d) /\ \A r \in rows : r[2] \in DOMAIN d.keysets
    THEN Done([d EXCEPT !.map = rows])
    ELSE Refused(d)

\* remove_keyset: the rows that refer to it go with it.
KeySetRemove(d, k) ==
    IF Administered(d) /\ k # 0 /\ k \in DOMAIN d.keysets
    THEN Done([d EXCEPT !.keysets = [i \in DOMAIN @ \ {k} |-> @[i]],
                        !.map = {r \in @ : r[2] # k}])
    ELSE Refused(d)

HasRoom(d, g) == g \in d.members \/ Cardinality(d.members) + d.others < GroupCap

\* AddGroup: a full table is reported in the response data, not as a status.
AddGroup(d, g) ==
    IF ~Administered(d) THEN Refused(d)
    ELSE IF HasRoom(d, g) THEN Done([d EXCEPT !.members = @ \cup {g}])
    ELSE Done(d)

\* RemoveGroup: NOT_FOUND is in the response data as well.
RemoveGroup(d, g) ==
    IF Administered(d) THEN Done([d EXCEPT !.members = @ \ {g}]) ELSE Refused(d)

\* The write of the ACL: as many entries as fit, then replace_fabric.
WriteAcl(d, entries) ==
    IF Administered(d) /\ Cardinality(entries) <= AclCap
    THEN Done([d EXCEPT !.acl = entries])
    ELSE Refused(d)

\* check() of a group session for Operate.
Permits(d, g) ==
    \E e \in d.acl : e.auth = "group" /\ e.subject = g /\ e.privilege >= Operate

Mapped(d, g) == \E k \in DOMAIN d.keysets : <<g, k>> \in d.map

\* classify_group_datagram up to the replay guard, then check(): a datagram for g
\* that was sealed with the key is applied.
Applies(d, g, key) ==
    /\ \E k \in DOMAIN d.keysets \ {0} : d.keysets[k] = key /\ <<g, k>> \in d.map
    /\ g \in d.members
    /\ Permits(d, g)
=============================================================================
