--------------------------- MODULE GroupSettings ----------------------------
(***************************************************************************)
(* The controller's group store (mat-controller/src/group_settings.rs):    *)
(* three linked lists in the chip-tool key-value file, with their heads    *)
(* and lengths in the record f/<i>/g.  A list is walked as many times as   *)
(* its length says; the end is not marked, and a record the walk expects   *)
(* and does not find is an error.  Every operation is one transaction:     *)
(* it reads the file under the lock and replaces it, or leaves it alone.   *)
(*                                                                         *)
(* Names, endpoints and the second and third slot of a key set are left    *)
(* out, and so is the list of fabrics g/gfl: one fabric is modelled.       *)
(***************************************************************************)
EXTENDS Integers, Sequences, SequencesExt, TLC

CONSTANTS
    IdModulus,   \* 2^16: key map ids are u16
    Nothing

\* A list: its head, its length, and the next field of every record.
EmptyList(end) == [first |-> end, count |-> 0, next |-> <<>>]

\* The ids a walk visits; Nothing where a record is missing.
Ids(l) ==
    LET at[i \in 1 .. l.count] ==
            IF i = 1 THEN l.first
            ELSE IF at[i - 1] \in DOMAIN l.next THEN l.next[at[i - 1]] ELSE Nothing
    IN  [i \in 1 .. l.count |-> at[i]]

\* No record is missing: otherwise the transaction ends with Corrupt.
Intact(l) == \A i \in 1 .. l.count : Ids(l)[i] \in DOMAIN l.next

Drop(f, id) == [i \in DOMAIN f \ {id} |-> f[i]]

\* At the end, as groups and key map rows are added.
InsertTail(l, id) ==
    [first |-> IF l.count = 0 THEN id ELSE l.first,
     count |-> l.count + 1,
     next  |-> (id :> 0) @@ (IF l.count = 0 THEN l.next ELSE [l.next EXCEPT ![Last(Ids(l))] = id])]

\* At the head, as key sets are added.
InsertHead(l, id) ==
    [first |-> id, count |-> l.count + 1, next |-> (id :> l.first) @@ l.next]

\* Out of the list: the head or the predecessor takes over its next.
Unlink(l, id) ==
    LET before == {i \in DOMAIN Ids(l) : i < l.count /\ Ids(l)[i + 1] = id}
    IN  [first |-> IF l.first = id THEN l.next[id] ELSE l.first,
         count |-> l.count - 1,
         next  |-> [i \in DOMAIN l.next \ {id} |->
                       IF \E j \in before : Ids(l)[j] = i THEN l.next[id] ELSE l.next[i]]]

\* The store: the lists, what a key map row binds, and the key of a key set.
\* Without f/<i>/g the lists are empty; chip-tool lists the IPK as key set 0,
\* mat's own bootstrap does not.
EmptyStore(ipk) ==
    LET none == [groups |-> EmptyList(0), maps |-> EmptyList(0), row |-> <<>>,
                 keysets |-> EmptyList(IdModulus - 1), key |-> <<>>]
    IN  {none, [none EXCEPT !.keysets = InsertHead(@, 0), !.key = 0 :> ipk]}

Scannable(s) == Intact(s.groups) /\ Intact(s.maps) /\ Intact(s.keysets)

\* The key map rows of a group with one of the key sets ks, in list order.
RowIds(s, g, ks) ==
    SelectSeq(Ids(s.maps), LAMBDA id : s.row[id].group = g /\ s.row[id].keyset \in ks)

\* Every key set a row refers to.
Bound(s) == {s.row[id].keyset : id \in DOMAIN s.row}

WriteGroup(s, g) ==
    IF Contains(Ids(s.groups), g) THEN s ELSE [s EXCEPT !.groups = InsertTail(@, g)]

WriteKeyset(s, k, key) ==
    [s EXCEPT !.keysets = IF Contains(Ids(@), k) THEN @ ELSE InsertHead(@, k),
              !.key = (k :> key) @@ @]

\* unlink_keymaps_in: one row after the other.
UnlinkKeymaps(s, g, ks) ==
    FoldLeft(LAMBDA t, id : [t EXCEPT !.maps = Unlink(@, id), !.row = Drop(@, id)],
             s, RowIds(s, g, ks))

\* Mutant: the new id is past the number of rows.
NewIdByCount(s) == (s.maps.count + 1) % IdModulus

\* The new id is past the largest one, unbound rows included.
NewId(s) ==
    LET ids == {Ids(s.maps)[i] : i \in DOMAIN Ids(s.maps)} \cup {0}
    IN  ((CHOOSE m \in ids : \A i \in ids : i <= m) + 1) % IdModulus

Unbound(s, g, k, rebind) ==
    IF rebind THEN UnlinkKeymaps(s, g, {k}) ELSE s

WriteKeymap(s, g, k, rebind) ==
    LET u == Unbound(s, g, k, rebind)
    IN  [u EXCEPT !.maps = InsertTail(@, NewId(s)),
                  !.row = (NewId(s) :> [group |-> g, keyset |-> k]) @@ @]

\* DuplicateBind, unless the binding is to be renewed.
Duplicate(s, g, k, rebind) ==
    RowIds(Unbound(s, g, k, rebind), g, {k}) # <<>>

\* write_group_provision, for a key set other than the IPK.
WriteGroupProvision(s, g, k, key, rebind) ==
    WriteKeymap(WriteKeyset(WriteGroup(s, g), k, key), g, k, rebind)

\* Mutant: key sets go without a look at the other rows.
FreedAnyway(s, t, g) ==
    {s.row[id].keyset : id \in {i \in DOMAIN s.row : s.row[i].group = g}} \ {0}

\* The key sets no row refers to any more, without the IPK.
Freed(s, t, g) ==
    {s.row[id].keyset : id \in {i \in DOMAIN s.row : s.row[i].group = g}}
        \ (Bound(t) \cup {0})

\* remove_group.
RemoveGroupRecords(s, g) ==
    LET t == UnlinkKeymaps([s EXCEPT !.groups = Unlink(@, g)], g, Bound(s))
        ks == SetToSeq({k \in Freed(s, t, g) : Contains(Ids(t.keysets), k)})
    IN  FoldLeft(LAMBDA u, k : [u EXCEPT !.keysets = Unlink(@, k), !.key = Drop(@, k)], t, ks)

\* read_group_credentials: the key of the first row of the group.
Credentials(s, g) ==
    LET ids == RowIds(s, g, Bound(s))
    IN  IF ids = <<>> THEN Nothing ELSE s.key[s.row[Head(ids)].keyset]
=============================================================================
