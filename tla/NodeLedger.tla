---------------------------- MODULE NodeLedger ----------------------------
(***************************************************************************)
(* nodes.json, the ledger of the commissioned nodes (mat-core store.rs),   *)
(* and the way it is replaced (fsatomic.rs): a temporary file with a fixed *)
(* name is created or truncated, written, synced and renamed over it.      *)
(* Files are inodes, since a process keeps writing to the inode it opened  *)
(* wherever its name has gone.  There is no lock.                          *)
(***************************************************************************)
EXTENDS Integers, FiniteSetsExt

CONSTANTS
    MaxId,    \* bound on node ids
    Inodes,   \* files nodes.json and its temporary file can be
    NoFile,   \* no such file
    Blank,    \* content of a file that was created or truncated: nothing yet
    Torn      \* content that does not parse: of two writers, one over the other

ASSUME MaxIdNat == MaxId \in Nat \ {0}
ASSUME NoFileIsNoInode == NoFile \notin Inodes

VARIABLES
    content,  \* of every inode
    disk,     \* the inode called nodes.json
    tmp       \* the inode called nodes.tmp

fileVars == <<content, disk, tmp>>

Ids == 1..MaxId
Ledgers == [nodes : SUBSET Ids, next : 0..(MaxId + 1)]

ASSUME TornIsNoLedger == Torn \notin Ledgers /\ Blank \notin Ledgers

FileTypeOK ==
    /\ content \in [Inodes -> Ledgers \cup {Blank, Torn}]
    /\ disk \in Inodes \cup {NoFile} /\ tmp \in Inodes \cup {NoFile}

\* max + 1 of the ids in the ledger, 1 if there are none.
AfterAll(S) == IF S = {} THEN 1 ELSE Max(S) + 1

Larger(a, b) == IF a >= b THEN a ELSE b

EmptyLedger == [nodes |-> {}, next |-> 1]

\* serde_json takes neither an empty file nor one of two writers.
Readable == disk # NoFile => content[disk] \notin {Blank, Torn}

\* Mutant: the mark of a ledger that has none is not restored.
LoadAsWritten == IF disk = NoFile THEN EmptyLedger ELSE content[disk]

\* The high-water mark of a ledger written before there was one reads as 0.
LoadLedger ==
    IF disk = NoFile THEN EmptyLedger
    ELSE LET l == content[disk]
         IN  [l EXCEPT !.next = Larger(l.next, AfterAll(l.nodes))]

NextNodeId(l) == Larger(l.next, AfterAll(l.nodes))

UpsertNode(l, n) == [nodes |-> l.nodes \cup {n}, next |-> Larger(l.next, n + 1)]

RemoveNode(l, n) == [l EXCEPT !.nodes = @ \ {n}]

\* Mutant: nodes.json itself is truncated and written.
CreateInPlace(i) ==
    /\ disk # NoFile => i = disk
    /\ content' = [content EXCEPT ![i] = Blank]
    /\ tmp' = i
    /\ UNCHANGED disk

\* File::create: an existing nodes.tmp is truncated, whoever wrote it.
CreateTmp(i) ==
    /\ IF tmp = NoFile THEN i # disk ELSE i = tmp
    /\ content' = [content EXCEPT ![i] = Blank]
    /\ tmp' = i
    /\ UNCHANGED disk

\* write_all and sync_all, from the writer's own offset 0: over what another
\* process wrote into the file, whose end remains if it was longer.
WriteTmp(i, l) ==
    /\ \/ content' = [content EXCEPT ![i] = l]
       \/ content[i] # Blank /\ content' = [content EXCEPT ![i] = Torn]
    /\ UNCHANGED <<disk, tmp>>

RenameTmp ==
    /\ tmp # NoFile
    /\ disk' = tmp /\ tmp' = NoFile
    /\ UNCHANGED content
===========================================================================
