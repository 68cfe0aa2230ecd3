----------------------------- MODULE GroupTable -----------------------------
(***************************************************************************)
(* What the controller's group store promises, as `mat group list` shows   *)
(* it: the groups, the key sets, and which key set is bound to which       *)
(* group, in the order of binding.  GroupProvision keeps these in three    *)
(* linked lists and implements this specification.                         *)
(***************************************************************************)
EXTENDS Sequences, SequencesExt

CONSTANTS Groups, Keysets, Keys, Ipk

VARIABLES
    groups,   \* groups, oldest first
    rows,     \* bindings <<group, keyset>>, oldest first
    key       \* the key of each key set in the store

vars == <<groups, rows, key>>

\* Any table an earlier command can have left.
Init ==
    LET bound == {rows[i] : i \in DOMAIN rows}
    IN  /\ IsInjective(groups) /\ IsInjective(rows)
        /\ {groups[i] : i \in DOMAIN groups} = {r[1] : r \in bound}
        /\ DOMAIN key \ {0} = {r[2] : r \in bound}
        /\ \A k \in DOMAIN key : key[k] \in IF k = 0 THEN {Ipk} ELSE Keys

Without(seq, e) == SelectSeq(seq, LAMBDA x : x # e)

\* A key set gets a new key, its group is created at most once, and the binding
\* becomes the newest, one that was there included.
Provision(g, k, new) ==
    /\ key' = [i \in DOMAIN key \cup {k} |-> IF i = k THEN new ELSE key[i]]
    /\ groups' = IF Contains(groups, g) THEN groups ELSE Append(groups, g)
    /\ rows' = Append(Without(rows, <<g, k>>), <<g, k>>)

\* A group goes with its bindings, and with every key set that only it used.
RemoveGroup(g) ==
    LET kept == SelectSeq(rows, LAMBDA r : r[1] # g)
        used(k) == \E i \in DOMAIN kept : kept[i][2] = k
        its(k) == \E i \in DOMAIN rows : rows[i] = <<g, k>>
    IN  /\ Contains(groups, g)
        /\ groups' = Without(groups, g)
        /\ rows' = kept
        /\ key' = [k \in {i \in DOMAIN key : i = 0 \/ used(i) \/ ~its(i)} |-> key[k]]

Next ==
    \/ \E g \in Groups, k \in Keysets, new \in Keys : Provision(g, k, new)
    \/ \E g \in Groups : RemoveGroup(g)

Spec == Init /\ [][Next]_vars
=============================================================================
