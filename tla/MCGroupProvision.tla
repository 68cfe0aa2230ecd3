-------------------------- MODULE MCGroupProvision --------------------------
(* Two groups that may share a key set, one or two nodes, mat and matd. *)
EXTENDS GroupProvision, TLC

CONSTANTS n1, n2, mat, g1, g2, k1, k2

MCLists == {<<n1>>, <<n1, n2>>}

Fresh == FreshDevice(0, {AdminEntry})

\* With the group table almost full of another fabric's rows, and an entry that is
\* too weak for groupcast.
Crowded == {FreshDevice(1, {AdminEntry, GroupEntry(g, View)}) : g \in Groups}

\* After a provision, by the handlers it goes through.
After(d, g, k) ==
    LET keyed == KeySetWrite(d, k, 0).dev
        mapped == WriteGroupKeyMap(keyed, MergeMap(keyed.map, g, k)).dev
    IN  WriteAcl(AddGroup(mapped, g).dev, MergeAcl(d.acl, g)).dev

\* Nodes as commissioned, and both with one group.
MCWorlds ==
    {[kvs |-> s, dev |-> n1 :> d @@ n2 :> Fresh] : s \in EmptyStore(Ipk), d \in {Fresh} \cup Crowded}
    \cup
    {[kvs |-> WriteGroupProvision(s, g, k, 0, FALSE),
      dev |-> n1 :> After(Fresh, g, k) @@ n2 :> After(Fresh, g, k)] :
         s \in EmptyStore(Ipk), g \in Groups, k \in Keysets}

Symmetry == Permutations(Groups) \cup Permutations(Keysets)
=============================================================================
