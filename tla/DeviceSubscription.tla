------------------------- MODULE DeviceSubscription -------------------------
(***************************************************************************)
(* The reporting side of the virtual device: its event log                 *)
(* (mat-device/src/core/events.rs), its one active subscription            *)
(* (net/subscription.rs) and the two flows that send reports               *)
(* (net/runtime/subscribe.rs).  The operators work on the record `dev':    *)
(*                                                                         *)
(*   value  the attribute subscribed to                                    *)
(*   oldest the number of the oldest event retained; the numbers are       *)
(*          consecutive, so that the log is oldest .. next - 1             *)
(*   next   the number of the next event                                   *)
(*   sess   whose CASE session is current: "none", "sub" or "op"           *)
(*   sub    the active subscription                                        *)
(*   busy   the flow the receive loop is in: "no", "prime" or "report";    *)
(*          select! runs one branch to its end, so nothing else is served  *)
(*   ep     history: how often the device was started or commissioned      *)
(*   back   history: its event numbers once started below old ones         *)
(*                                                                         *)
(* Deadlines are left out: a report may go out at any time.                *)
(***************************************************************************)
EXTENDS Integers

CONSTANTS
    Values,   \* values of the attribute
    Default,  \* its value when the device starts
    LogCap,   \* events the log retains (DEFAULT_CAP)
    Fit       \* events that fit in a report without attributes

ASSUME DeviceAssumption == Default \in Values /\ LogCap \in Nat \ {0} /\ Fit \in Nat \ {0}

NoSub == [live |-> FALSE, dirty |-> FALSE, next |-> 0]
NoValue == "none"

\* A device that has just started.  It numbers its events from the clock's
\* milliseconds on: past all numbers before, unless the clock was set back.
Boot(ep, first, back) ==
    [value |-> Default, oldest |-> first, next |-> first, sess |-> "none",
     sub |-> NoSub, busy |-> "no", ep |-> ep, back |-> back]

\* EventLog::append: a full log loses its oldest entry.
AppendEvent(d) ==
    [d EXCEPT !.oldest = IF d.next - @ = LogCap THEN @ + 1 ELSE @, !.next = @ + 1]

Log(d) == d.oldest .. d.next - 1

\* EventLog::since, and the number it begins with.
Start(d, min) == IF min > d.oldest THEN min ELSE d.oldest
Since(d, min) == Start(d, min) .. d.next - 1

\* Mutant: a change is not marked.
NoteChangedNever(d) == d

\* note_changed, for the one attribute, which the subscription covers.
NoteChanged(d) == [d EXCEPT !.sub.dirty = d.sub.live \/ @]

\* install_session: the subscription goes with the session it was on.
InstallSession(d, s) == [d EXCEPT !.sess = s, !.sub = NoSub]

\* on_stimulus, on_group_datagram and an invoke that writes v.
Change(d, v) == NoteChanged([d EXCEPT !.value = v])

\* The priming report of serve_subscribe_request.
Priming(d, min) == [value |-> d.value, events |-> Since(d, min)]

\* serve_subscribe_request came to its end: Installed.
Installed(d) ==
    [d EXCEPT !.busy = "no",
              !.sub = [live |-> TRUE, dirty |-> FALSE, next |-> d.next]]

\* TornDown, or a report that was not acknowledged.
Dropped(d) == [d EXCEPT !.busy = "no", !.sub = NoSub]

\* fit_events: how many of the events from number `from' on fit.  A report with
\* an attribute in it has room for one event less.
FitEvents(d, from) ==
    LET room == IF d.sub.dirty THEN Fit - 1 ELSE Fit
        left == IF from < d.next THEN d.next - from ELSE 0
    IN  IF left < room THEN left ELSE room

\* The report of send_subscription_report: the value as it is now, and the
\* oldest events that fit.
Report(d) ==
    LET from == Start(d, d.sub.next)
    IN  [value  |-> IF d.sub.dirty THEN d.value ELSE NoValue,
         events |-> from .. from + FitEvents(d, from) - 1]

\* Mutant: the next report starts where the last one did.
ReportedAgain(d) == [d EXCEPT !.busy = "no", !.sub.dirty = FALSE]

\* The report was acknowledged: the next one starts after what was sent, or
\* after the whole log if there was nothing to send.
Reported(d) ==
    LET from == Start(d, d.sub.next)
        fitted == FitEvents(d, from)
    IN  [d EXCEPT !.busy = "no",
                  !.sub.dirty = FALSE,
                  !.sub.next = CASE fitted > 0     -> from + fitted
                                 [] from >= d.next -> d.next
                                 [] OTHER          -> @]
=============================================================================
