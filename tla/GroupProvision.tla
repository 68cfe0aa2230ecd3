--------------------------- MODULE GroupProvision ---------------------------
(***************************************************************************)
(* mat group provision, grant and remove (mat-native/src/runner.rs,        *)
(* ops.rs): the controller's store and the stores of every listed node,    *)
(* changed one request after the other over a session with each node.      *)
(*                                                                         *)
(* A command runs in its own process (mat) or in the daemon (matd), which  *)
(* offers provision only and runs the steps of a node a second time over   *)
(* a new session when one of them times out.  The store is locked for one  *)
(* transaction, not for the command.  The map and the ACL of a device are  *)
(* replaced as a whole, so both are read, merged and written back, in two  *)
(* requests; a device keeps one session, and whoever establishes the next  *)
(* one ends it.                                                            *)
(***************************************************************************)
EXTENDS GroupSettings, GroupDevice

CONSTANTS
    Groups,       \* group ids
    Keysets,      \* key set ids, without 0
    Nodes,
    Lists,        \* sequences of nodes a command may name
    Worlds,       \* stores and nodes to start from: [kvs, dev]
    Processes, Matd,  \* processes; Matd is the daemon
    MaxVisits,    \* bound: nodes named by the commands started
    MaxAgain,     \* bound: and by those the daemon runs by itself after a failure
    MaxTrouble    \* bound: requests or answers lost

ASSUME GroupProvisionAssumption ==
    /\ 0 \notin Groups \cup Keysets
    /\ Matd \in Processes /\ Nothing \notin Processes
    /\ Lists \subseteq Seq(Nodes) \ {<<>>}
    /\ MaxVisits \in Nat /\ MaxAgain \in Nat /\ MaxTrouble \in Nat

Keys == 0 .. MaxVisits + MaxAgain   \* 0: what was provisioned before

\* What a node can hold.
Device ==
    [keysets : UNION {[K -> Keys] : K \in SUBSET Keysets}, map : SUBSET (Groups \X Keysets),
     members : SUBSET Groups, others : Nat,
     acl : SUBSET [auth : {"case", "group"}, privilege : {View, Operate, Administer},
                   subject : Groups \cup {0}]]

\* Every node is commissioned: AddNOC has made its administrator entry.
ASSUME WorldsAssumption ==
    \A w \in Worlds : w.dev \in [Nodes -> Device] /\ \A n \in Nodes : Administered(w.dev[n])

VARIABLES
    kvs,       \* the controller's store
    dev,       \* dev[n]: the stores of a node
    sess,      \* sess[n]: the process the node has a session with, or Nothing
    cmd,       \* cmd[p]: the command a process runs, or Nothing
    started,   \* nodes named by commands so far; a provision draws the key of that number
    trouble,   \* requests and answers lost so far
    settled,   \* history: <<n, g>> provisioned on n, and not removed since
    crowded    \* history: <<n, g>> whose last AddGroup met a full table

provisionVars == <<kvs, dev, sess, cmd, started, trouble, settled, crowded>>

Ipk == "ipk"

\* The group has its row, its entry and its membership.
Provisioned(d, g) == Mapped(d, g) /\ Permits(d, g) /\ g \in d.members

ProvisionInit ==
    /\ \E w \in Worlds : kvs = w.kvs /\ dev = w.dev
    /\ sess = [n \in Nodes |-> Nothing]
    /\ cmd = [p \in Processes |-> Nothing]
    /\ started = 0 /\ trouble = 0
    /\ settled = {ng \in Nodes \X Groups : Provisioned(dev[ng[1]], ng[2])}
    /\ crowded = {}
-----------------------------------------------------------------------------
(* Commands *)

\* The groups of which a node would apply what the controller sends now.
Received(n) == {g \in Groups : Credentials(kvs, g) # Nothing /\ Applies(dev[n], g, Credentials(kvs, g))}

\* The rules docs/commands.md gives: a group keeps its key set id.  And there is
\* room for the group on every node.
ByTheBook(g, k, list) ==
    /\ \A id \in DOMAIN kvs.row : kvs.row[id].group = g => kvs.row[id].keyset = k
    /\ \A i \in DOMAIN list : HasRoom(dev[list[i]], g)

Steps ==
    [provision |-> <<"keyset", "mapread", "mapwrite", "addgroup", "aclread", "aclwrite">>,
     grant     |-> <<"aclread", "aclwrite">>,
     remove    |-> <<"aclread", "aclwrite", "rmgroup", "mapread", "mapwrite", "rmkey">>]

Offered(p) == IF p = Matd THEN {"provision"} ELSE {"provision", "grant", "remove"}

\* How many nodes the commands may have named.
Visits(p) ==
    IF trouble > 0 /\ p = Matd /\ \A q \in Processes : cmd[q] = Nothing
    THEN MaxVisits + MaxAgain ELSE MaxVisits

\* mat group <kind>: provision starts with the store, the others with a node.
Start(p, kind, g, k, rebind, list) ==
    /\ cmd[p] = Nothing /\ started + Len(list) <= Visits(p)
    /\ kind \in Offered(p)
    /\ started' = started + Len(list)
    /\ cmd' = [q \in Processes |->
                  IF q = p
                  THEN [kind |-> kind, g |-> g, k |-> k, rebind |-> rebind, key |-> started + 1,
                        list |-> list, todo |-> list, copy |-> {}, again |-> FALSE,
                        pc |-> IF kind = "provision" THEN "store" ELSE "establish",
                        alone |-> \A r \in Processes \ {p} : cmd[r] = Nothing,
                        book |-> ByTheBook(g, k, list),
                        had |-> [n \in Nodes |-> Received(n)]]
                  ELSE IF cmd[q] = Nothing THEN Nothing ELSE [cmd[q] EXCEPT !.alone = FALSE]]
    /\ UNCHANGED <<kvs, dev, sess, trouble, settled, crowded>>

\* The command ends with an error.
Fails(p) == cmd' = [cmd EXCEPT ![p] = Nothing]

Goto(p, pc) == cmd' = [cmd EXCEPT ![p].pc = pc]

\* write_group_provision, one transaction; an error leaves the store.
StoreProvision(p) ==
    LET c == cmd[p]
    IN  /\ c # Nothing /\ c.pc = "store" /\ c.kind = "provision"
        /\ \/ /\ Scannable(kvs) /\ ~Duplicate(kvs, c.g, c.k, c.rebind)
              /\ kvs' = WriteGroupProvision(kvs, c.g, c.k, c.key, c.rebind)
              /\ Goto(p, "establish")
           \/ /\ ~Scannable(kvs) \/ Duplicate(kvs, c.g, c.k, c.rebind)
              /\ UNCHANGED kvs /\ Fails(p)
        /\ UNCHANGED <<dev, sess, started, trouble, settled, crowded>>

\* remove_group, after the last node; a group the store does not have is no error.
StoreRemove(p) ==
    LET c == cmd[p]
    IN  /\ c # Nothing /\ c.pc = "store" /\ c.kind = "remove"
        /\ IF ~Scannable(kvs) THEN UNCHANGED kvs /\ Fails(p)
           ELSE /\ Goto(p, "done")
                /\ kvs' = IF Contains(Ids(kvs.groups), c.g) THEN RemoveGroupRecords(kvs, c.g) ELSE kvs
        /\ UNCHANGED <<dev, sess, started, trouble, settled, crowded>>

\* Another process holds the lock: Locked.
StoreLocked(p) ==
    /\ cmd[p] # Nothing /\ cmd[p].pc = "store"
    /\ trouble < MaxTrouble /\ trouble' = trouble + 1
    /\ Fails(p)
    /\ UNCHANGED <<kvs, dev, sess, started, settled, crowded>>

\* The command succeeded, and the process is free again.
Return(p) ==
    /\ cmd[p] # Nothing /\ cmd[p].pc = "done"
    /\ Fails(p)
    /\ UNCHANGED <<kvs, dev, sess, started, trouble, settled, crowded>>
-----------------------------------------------------------------------------
(* The steps on a node *)

Node(p) == Head(cmd[p].todo)

\* A session with the node: it replaces the one the node had.  The daemon may hold
\* one already, which the node may have dropped.
Establish(p) ==
    /\ cmd[p] # Nothing /\ cmd[p].pc = "establish"
    /\ \/ sess' = [sess EXCEPT ![Node(p)] = p]
       \/ p = Matd /\ ~cmd[p].again /\ UNCHANGED sess
    /\ Goto(p, Steps[cmd[p].kind][1])
    /\ UNCHANGED <<kvs, dev, started, trouble, settled, crowded>>

\* No session: the command fails.  The node may have installed its end, in the
\* place of the session it had, before the last answer of the CASE was lost.
EstablishFails(p) ==
    /\ cmd[p] # Nothing /\ cmd[p].pc = "establish"
    /\ trouble < MaxTrouble /\ trouble' = trouble + 1
    /\ sess' \in {sess, [sess EXCEPT ![Node(p)] = Nothing]}
    /\ Fails(p)
    /\ UNCHANGED <<kvs, dev, started, settled, crowded>>

\* Mutant: the list of one row that chip-tool would write.
MergeMapAlone(rows, g, k) == {<<g, k>>}

RowsOf(rows, g) == {r \in rows : r[1] = g}

\* A row of the group (the first, should another administrator have written
\* several) gets the key set, or the group gets a row.
MergeMap(rows, g, k) ==
    (IF RowsOf(rows, g) = {} THEN rows ELSE rows \ {CHOOSE r \in RowsOf(rows, g) : TRUE})
        \cup {<<g, k>>}

WithoutGroup(rows, g) == rows \ RowsOf(rows, g)

Granted(acl, g) ==
    \E e \in acl : e.auth = "group" /\ e.subject = g /\ e.privilege >= Operate

\* merge_group_entry, without_group_entry: the same list when there is nothing to
\* write.
MergeAcl(acl, g) == IF Granted(acl, g) THEN acl ELSE acl \cup {GroupEntry(g, Operate)}

WithoutGroupEntry(acl, g) == {e \in acl : ~(e.auth = "group" /\ e.subject = g)}

NewAcl(c) == IF c.kind = "remove" THEN WithoutGroupEntry(c.copy, c.g) ELSE MergeAcl(c.copy, c.g)

\* Mutant: the key set goes whoever else refers to it.
UnusedAnyway(c) == {r[2] : r \in RowsOf(c.copy, c.g)}

\* The key sets of the rows that went and that no other row refers to: at most one,
\* since MAX_GROUP_KEYS_PER_FABRIC is 1, so that one KeySetRemove is the whole loop.
Unused(c) == {r[2] : r \in RowsOf(c.copy, c.g)} \ {r[2] : r \in WithoutGroup(c.copy, c.g)}

\* The request of the current step, and what the node makes of it.  A step with
\* nothing to ask for is skipped.
Served(p) ==
    LET c == cmd[p]
        d == dev[Node(p)]
    IN  CASE c.pc = "keyset"   -> KeySetWrite(d, c.k, c.key)
          [] c.pc = "mapwrite" /\ c.kind = "provision" -> WriteGroupKeyMap(d, MergeMap(c.copy, c.g, c.k))
          [] c.pc = "mapwrite" /\ c.kind = "remove"    -> WriteGroupKeyMap(d, WithoutGroup(c.copy, c.g))
          [] c.pc = "addgroup" -> AddGroup(d, c.g)
          [] c.pc = "rmgroup"  -> RemoveGroup(d, c.g)
          [] c.pc = "aclwrite" -> WriteAcl(d, NewAcl(c))
          [] c.pc = "rmkey"    -> KeySetRemove(d, CHOOSE k \in Unused(c) : TRUE)
          [] OTHER -> Done(d)

Skipped(c) ==
    \/ c.pc = "aclwrite" /\ NewAcl(c) = c.copy
    \/ c.pc = "mapwrite" /\ c.kind = "remove" /\ WithoutGroup(c.copy, c.g) = c.copy
    \/ c.pc = "rmkey" /\ Unused(c) = {}

\* What the command keeps of an answer.
Copied(p) ==
    LET c == cmd[p]
    IN  CASE c.pc = "mapread" -> dev[Node(p)].map
          [] c.pc = "aclread" -> dev[Node(p)].acl
          [] OTHER -> c.copy

StepNo(c) == CHOOSE i \in DOMAIN Steps[c.kind] : Steps[c.kind][i] = c.pc

\* The next step that asks for something; no request separates an answer from the
\* decision to skip.
NextNo(c) ==
    LET end == Len(Steps[c.kind]) + 1
        skips(i) == Skipped([c EXCEPT !.pc = Steps[c.kind][i]])
    IN  CHOOSE i \in StepNo(c) + 1 .. end :
            /\ \A j \in StepNo(c) + 1 .. i - 1 : skips(j)
            /\ i = end \/ ~skips(i)

IsLast(c) == NextNo(c) > Len(Steps[c.kind])

\* The next step, the next node, or the end; remove ends with the store.
Advanced(c) ==
    IF ~IsLast(c)
    THEN [c EXCEPT !.pc = Steps[c.kind][NextNo(c)]]
    ELSE [c EXCEPT !.todo = Tail(@), !.copy = {}, !.again = FALSE,
                   !.pc = IF Len(c.todo) > 1 THEN "establish"
                          ELSE IF c.kind = "remove" THEN "store" ELSE "done"]

AtNode(p) == cmd[p] # Nothing /\ cmd[p].pc \notin {"store", "establish", "done"}

\* Mutant: the node keeps every session it ever had.
AnyLive(p) == TRUE

\* A session that is not the node's current one gets no answer.
Live(p) == sess[Node(p)] = p

\* settled follows what the requests of the command did to the node.
Note(p, last) ==
    settled' = IF cmd[p].kind = "provision" /\ last THEN settled \cup {<<Node(p), cmd[p].g>>}
               ELSE IF cmd[p].kind = "remove" THEN settled \ {<<Node(p), cmd[p].g>>}
               ELSE settled

\* The answer to AddGroup says whether there was room; nobody reads it.
NoteRoom(p) ==
    LET ng == <<Node(p), cmd[p].g>>
    IN  crowded' = IF cmd[p].pc # "addgroup" THEN crowded
                   ELSE IF HasRoom(dev[Node(p)], cmd[p].g) THEN crowded \ {ng}
                   ELSE crowded \cup {ng}

\* mat closes the session whatever the outcome; matd keeps it.
Close(p) == sess' = [sess EXCEPT ![Node(p)] = IF p # Matd /\ @ = p THEN Nothing ELSE @]

\* One request is answered.
Step(p) ==
    /\ AtNode(p) /\ Live(p) /\ Served(p).ok
    /\ dev' = [dev EXCEPT ![Node(p)] = Served(p).dev]
    /\ LET c == [cmd[p] EXCEPT !.copy = Copied(p)]
       IN  /\ cmd' = [cmd EXCEPT ![p] = Advanced(c)]
           /\ IF IsLast(c) THEN Close(p) ELSE UNCHANGED sess
           /\ Note(p, IsLast(c))
    /\ NoteRoom(p)
    /\ UNCHANGED <<kvs, started, trouble>>

\* The node refuses: the command stops here.
StepRefused(p) ==
    /\ AtNode(p) /\ Live(p) /\ ~Served(p).ok
    /\ Fails(p) /\ Close(p)
    /\ UNCHANGED <<kvs, dev, started, trouble, settled, crowded>>

\* The list cannot be parsed: the command stops and writes nothing.
Unreadable(p) ==
    /\ AtNode(p) /\ cmd[p].pc \in {"aclread", "mapread"} /\ Live(p)
    /\ trouble < MaxTrouble /\ trouble' = trouble + 1
    /\ Fails(p) /\ Close(p)
    /\ UNCHANGED <<kvs, dev, started, settled, crowded>>

\* The request was lost, the answer was lost, or the session is gone: Timeout.  matd
\* starts over with the node, once, unless too little of the caller's time is left.
StepTimesOut(p) ==
    /\ AtNode(p)
    /\ \/ ~Live(p) /\ UNCHANGED <<dev, trouble>>
       \/ /\ Live(p) /\ trouble < MaxTrouble /\ trouble' = trouble + 1
          /\ \/ UNCHANGED dev
             \/ dev' = [dev EXCEPT ![Node(p)] = Served(p).dev]
    /\ \/ /\ p = Matd /\ ~cmd[p].again
          /\ cmd' = [cmd EXCEPT ![p].pc = "establish", ![p].again = TRUE, ![p].copy = {}]
          /\ UNCHANGED sess
       \/ Fails(p) /\ Close(p)
    /\ Note(p, FALSE)
    /\ UNCHANGED <<kvs, started, crowded>>
-----------------------------------------------------------------------------
ProvisionNext ==
    \E p \in Processes :
        \/ \E g \in Groups, k \in Keysets, rebind \in BOOLEAN, list \in Lists :
               Start(p, "provision", g, k, rebind, list)
        \/ \E kind \in {"grant", "remove"}, g \in Groups, list \in Lists :
               Start(p, kind, g, Nothing, FALSE, list)
        \/ StoreProvision(p) \/ StoreRemove(p) \/ StoreLocked(p) \/ Return(p)
        \/ Establish(p) \/ EstablishFails(p)
        \/ Step(p) \/ StepRefused(p) \/ StepTimesOut(p) \/ Unreadable(p)

ProvisionSpec == ProvisionInit /\ [][ProvisionNext]_provisionVars
-----------------------------------------------------------------------------
(* Properties *)

Elems(seq) == {seq[i] : i \in DOMAIN seq}

\* The lists of the store are lists, and agree: a walk meets every record once and
\* none is left behind (scan_map, scan_groups, scan_keysets never end in Corrupt and
\* remove leaks nothing), every binding is between a group and a key set of the
\* lists, and no group and no key set but the IPK is without one.
StoreWellFormed ==
    LET rows == {kvs.row[id] : id \in DOMAIN kvs.row}
        Whole(l) == IsInjective(Ids(l)) /\ Elems(Ids(l)) = DOMAIN l.next
    IN  /\ Whole(kvs.groups) /\ Whole(kvs.maps) /\ Whole(kvs.keysets)
        /\ DOMAIN kvs.row = DOMAIN kvs.maps.next
        /\ DOMAIN kvs.key = DOMAIN kvs.keysets.next
        /\ {r.group : r \in rows} = Elems(Ids(kvs.groups))
        /\ {r.keyset : r \in rows} = Elems(Ids(kvs.keysets)) \ {0}

Binding(id) ==
    IF id \in DOMAIN kvs.row THEN <<kvs.row[id].group, kvs.row[id].keyset>> ELSE <<Nothing, Nothing>>

\* What `mat group list` shows: the lists implement a table of groups, bindings and
\* keys, whatever the order of provision, rebind and remove.
Table == INSTANCE GroupTable WITH
    groups <- Ids(kvs.groups),
    rows   <- [i \in DOMAIN Ids(kvs.maps) |-> Binding(Ids(kvs.maps)[i])],
    key    <- kvs.key

TableSpec == Table!Spec

\* The map and the ACL of a node are read, merged and replaced in two requests
\* (provision_node, remove_group_node), by two processes at once, and requests and
\* answers are lost: what one provision finished no other command undoes, unless it
\* removes that group (the membership is missing only where AddGroup met a full
\* table).  And no node ever loses its administrator: the ACL is only
\* ever written back with the entries it was read with (ensure_group_acl: never
\* write what could not be read).
ProvisionedStays ==
    /\ \A n \in Nodes : Administered(dev[n])
    /\ \A ng \in settled :
           LET d == dev[ng[1]]
           IN  Mapped(d, ng[2]) /\ Permits(d, ng[2]) /\ (ng[2] \in d.members \/ ng \in crowded)

\* A provision that reports success with nothing else going on, by the rules of the
\* documentation: every listed node applies what the controller now sends to the
\* group, and to the groups it applied before, key rotated or not, after whatever
\* commands failed half way before this one.
ProvisionDelivers ==
    \A p \in Processes :
        (cmd[p] # Nothing /\ cmd[p].pc = "done" /\ cmd[p].kind = "provision" /\ cmd[p].alone /\ cmd[p].book)
            => \A n \in Elems(cmd[p].list) : cmd[p].had[n] \cup {cmd[p].g} \subseteq Received(n)

\* A remove that reports success with nothing else going on takes away this group
\* and no other, on the listed nodes and on the rest, also when another group shares
\* its key set (remove_group_node, remove_group).
RemoveSparesOthers ==
    \A p \in Processes :
        (cmd[p] # Nothing /\ cmd[p].pc = "done" /\ cmd[p].kind = "remove" /\ cmd[p].alone)
            => \A n \in Nodes : Received(n) = cmd[p].had[n] \ {cmd[p].g}
=============================================================================
