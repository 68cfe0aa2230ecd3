---------------------------- MODULE ReplayWindow ----------------------------
(***************************************************************************)
(* The sliding replay-protection window of mat-controller/src/counter.rs,  *)
(* as operators: the state of one RxWindow, the verdict of                 *)
(* check_and_commit on a counter and the state it leaves.                  *)
(*                                                                         *)
(* The u32 bitmap is the set of its one bits, 0 .. Width - 1; bit b stands *)
(* for the counter max - 1 - b.  Width is 32 in the code.                  *)
(***************************************************************************)
EXTENDS Integers

CONSTANT Width

ASSUME WidthAssumption == Width \in Nat \ {0}

RxWindow == [max : Nat, bitmap : SUBSET (0 .. Width - 1), empty : BOOLEAN]

NewWindow == [max |-> 0, bitmap |-> {}, empty |-> TRUE]

\* Mutant: the bit of the old max is not set.
ShiftForgetsMax(bits, delta) ==
    {b \in delta .. Width - 1 : b - delta \in bits}

\* (bitmap << delta) | (1 << (delta - 1)), or 0 from delta = Width on.
Shift(bits, delta) ==
    IF delta >= Width
    THEN {}
    ELSE {b \in delta .. Width - 1 : b - delta \in bits} \cup {delta - 1}

\* Mutants: no lower end of the window; one counter too narrow.
FreshBeyondWindow(w, c) ==
    w.empty \/ c > w.max \/ (c < w.max /\ w.max - c - 1 \notin w.bitmap)

FreshNarrow(w, c) ==
    \/ w.empty
    \/ c > w.max
    \/ c < w.max /\ w.max - c < Width /\ w.max - c - 1 \notin w.bitmap

\* What check_and_commit answers.
Fresh(w, c) ==
    \/ w.empty
    \/ c > w.max
    \/ c < w.max /\ w.max - c <= Width /\ w.max - c - 1 \notin w.bitmap

\* What check_and_commit leaves behind after answering true.
Commit(w, c) ==
    [max    |-> IF w.empty \/ c > w.max THEN c ELSE w.max,
     bitmap |-> IF w.empty THEN {}
                ELSE IF c > w.max THEN Shift(w.bitmap, c - w.max)
                ELSE w.bitmap \cup {w.max - c - 1},
     empty  |-> FALSE]
=============================================================================
