----------------------------- MODULE SubHealth -----------------------------
(***************************************************************************)
(* What matd remembers of one node (matd/src/subscription/health.rs).  The *)
(* server's operations write to it, the node's subscription loop reads it. *)
(*                                                                         *)
(*   pending  an operation succeeded that must have changed the attribute  *)
(*   value    the value last reported, NoValue for none                    *)
(*   last     the number of the event last seen, 0 for none                *)
(*   status   "absent", "establishing", "established" or "down"            *)
(*   touched  the flag of note_touched                                     *)
(*   permit   the permit its notify_one left in the Notify                 *)
(***************************************************************************)
EXTENDS Naturals, FiniteSetsExt

CONSTANT NoValue

Forgotten ==
    [pending |-> FALSE, value |-> NoValue, last |-> 0, status |-> "absent",
     touched |-> FALSE, permit |-> FALSE]

\* forget: every row of the node.
Forget(h) == Forgotten

\* Mutant: the number only ever grows.
NoteEventNumberLatched(h, n, live) == [h EXCEPT !.last = IF n > @ THEN n ELSE @]

\* note_event_number; numbers start at 1, so that 0 stands for a vacant entry.
NoteEventNumber(h, n, live) ==
    [h EXCEPT !.last = IF n > @ \/ (live /\ n < @) THEN n ELSE @]

\* emit_event_lines records each number, listeners or not.  They come in
\* ascending order: what the last one leaves is what all of them leave.
NoteEvents(h, events, live) ==
    IF events = {} THEN h ELSE NoteEventNumber(h, Max(events), live)

\* note_op_expectation: cached_value proves that v is a change.
NoteOp(h, v) == [h EXCEPT !.pending = h.value \notin {NoValue, v} \/ @]

ClearPending(h) == [h EXCEPT !.pending = FALSE]

NoteTouched(h) == [h EXCEPT !.touched = TRUE, !.permit = TRUE]

\* clear_touched: the flag, and the Notify with the permit left in it.
ClearTouched(h) == [h EXCEPT !.touched = FALSE, !.permit = FALSE]

Mark(h, s) == [h EXCEPT !.status = s]

\* observe: the value v goes into the cache.
Observe(h, v) == IF v = NoValue THEN h ELSE [h EXCEPT !.value = v]

\* Mutant: a priming line is never news.
IsNewsUnlessPriming(h, v, priming) == v # NoValue /\ ~priming

\* classify_against_cache: does listen get v as news?  A priming line is news
\* only when it differs from a value known before (recovered).
IsNews(h, v, priming) == v # NoValue /\ (priming => h.value \notin {NoValue, v})

\* PrimingRule: the events of a priming report that are news.
NewsOfPriming(events, min) ==
    {n \in events : min # 0 /\ n >= min}
============================================================================
