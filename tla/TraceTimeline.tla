---------------------------- MODULE TraceTimeline ----------------------------
(***************************************************************************)
(* What trace_request puts on its timeline.                                *)
(*                                                                         *)
(* The window of the request is resolved once; each source then rounds it  *)
(* its own way, checks it again against its own limits, and returns some   *)
(* of the events that match, within limits of its own.  What comes back is *)
(* dated, compared with the window and fitted to an event count and a byte *)
(* budget.  When sources answer, time out and are stopped is the subject   *)
(* of TraceRequest; here each of them answers or fails.                    *)
(*                                                                         *)
(* Time is counted in ticks, finer than a millisecond.                     *)
(***************************************************************************)
EXTENDS Integers, FiniteSetsExt

CONSTANTS
  Logs,      \* what there may be to find: sets of records of an id, a
             \* source, its times, a size and, of a row, its target
  Targets,   \* columns that a database search looks through, in its order
  Milli,     \* ticks of a millisecond, New Relic's resolution
  Second,    \* ticks of a second, that of a CloudWatch query
  Now,       \* when the request is made
  Starts,    \* values of `start` and `end` in requests
  Ends,
  Limits,    \* values of `limit` in requests
  CwDefault, CwMax,  \* CW_DEFAULT_WINDOW_HOURS, CW_MAX_WINDOW_HOURS
  NrDefault, NrMax,  \* NR_DEFAULT_WINDOW_HOURS, NR_MAX_WINDOW_HOURS
  MaxEvents, \* TRACE_MAX_EVENTS
  MaxBytes,  \* TRACE_MAX_RESPONSE_BYTES
  NrRows,    \* NR_MAX_ROWS
  DbRows,    \* DB_MAX_ROWS
  DbBytes,   \* DB_MAX_RESPONSE_BYTES
  Typed,     \* which of the two time columns of the tables are typed as such
  None, Garbled

Sources == {"cloudwatch", "newrelic", "db"}

ASSUME TimelineAssumption ==
  /\ {Milli, Second, CwMax, NrMax, MaxEvents, NrRows, DbRows} \subseteq Nat \ {0}
  /\ Second % Milli = 0 /\ CwMax % Second = 0 /\ NrMax % Second = 0 /\ NrMax % Milli = 0
  /\ {Now, CwDefault, NrDefault, MaxBytes, DbBytes} \subseteq Nat
  /\ Targets \subseteq Nat
  /\ None \notin Int /\ Garbled # None
  /\ Starts \cup Ends \subseteq Nat \cup {None} /\ Limits \subseteq Int
  /\ Typed \subseteq {1, 2}

ASSUME LogsAssumption == \A held \in Logs :
  /\ IsFiniteSet(held)
  /\ \A e \in held :
       /\ e.source \in Sources /\ e.id \in Nat /\ e.size \in Nat \ {0}
       /\ IF e.source = "db"
          THEN e.target \in Targets /\ {e.cols[1], e.cols[2]} \subseteq Int \cup {None, Garbled}
          ELSE e.at \in Int
  /\ \A e, f \in held : e.id = f.id => e = f

VARIABLES
  ask,     \* the request: start, end, limit
  log,     \* what the sources hold of the identifier, from when they start
  window,  \* [start, end], once resolved
  found,   \* of each source: where its search is, the events it gave, whether
           \* it says that it cut them, and (history) the ones it never read
  reply

vars == <<ask, log, window, found, reply>>
-------------------------------------------------------------------------------
Least(a, b) == IF a <= b THEN a ELSE b
Most(a, b) == IF a >= b THEN a ELSE b

Floor(t, unit) == (t \div unit) * unit

MaxWindow == Least(CwMax, NrMax)
DefaultWindow == Least(CwDefault, NrDefault)

(* clamp_window: the default is taken back from the end. *)
Resolved ==
  LET end == IF ask.end = None THEN Now ELSE ask.end
  IN [start |-> IF ask.start = None THEN end - DefaultWindow ELSE ask.start, end |-> end]

Allowed(w, max) == w.start < w.end /\ w.end - w.start <= max

Cap == Most(1, Least(ask.limit, MaxEvents))

Unit(s) == CASE s = "cloudwatch" -> Second [] s = "newrelic" -> Milli [] OTHER -> 1

(* Mutant of WindowAt: no part of the window is lost. *)
Outwards(s) == [start |-> Floor(window.start, Unit(s)),
                end |-> Floor(window.end + Unit(s) - 1, Unit(s))]

(* The window as a source reads it, what it then checks, and how many      *)
(* events it gives at most.  A database search has no window.              *)
WindowAt(s) == [start |-> Floor(window.start, Unit(s)), end |-> Floor(window.end, Unit(s))]

Accepts(s) ==
  CASE s = "cloudwatch" -> Allowed(window, CwMax)
    [] s = "newrelic" -> Allowed(WindowAt(s), NrMax)
    [] OTHER -> TRUE

LimitAt(s) ==
  CASE s = "cloudwatch" -> Cap
    [] s = "newrelic" -> Least(Cap, NrRows)
    [] OTHER -> Least(Cap, DbRows)

(* pick_time_column: the first of the preferred columns that is typed.     *)
OrderColumn == IF Typed = {} THEN 0 ELSE Min(Typed)

(* _row_time and to_utc: the first preferred column with a value, which    *)
(* need not be a time.                                                     *)
RowTime(e) ==
  LET value == IF e.cols[1] # None THEN e.cols[1] ELSE e.cols[2]
  IN IF value = Garbled THEN None ELSE value

At(e) == IF e.source = "db" THEN RowTime(e) ELSE e.at

InWindow(e) == At(e) # None /\ window.start <= At(e) /\ At(e) <= window.end
-------------------------------------------------------------------------------
Gives(events) == [state |-> "ok", events |-> events, told |-> FALSE, unread |-> {}]

Without(state) == [Gives({}) EXCEPT !.state = state]

Init ==
  /\ ask \in [start : Starts, end : Ends, limit : Limits]
  /\ log = {}
  /\ window = None
  /\ found = [s \in Sources |-> Without("idle")]
  /\ reply = None

Refuse ==
  /\ window = None /\ reply = None
  /\ ~Allowed(Resolved, MaxWindow)
  /\ reply' = [kind |-> "refused"]
  /\ UNCHANGED <<ask, log, window, found>>

(* The sources that are asked for and configured start; one that refuses   *)
(* the window has failed.                                                  *)
Begin ==
  /\ window = None /\ reply = None
  /\ Allowed(Resolved, MaxWindow)
  /\ window' = Resolved
  /\ \E active \in SUBSET Sources \ {{}} : found' = [s \in Sources |->
       Without(IF s \in active THEN "searching" ELSE "skipped")]
  /\ log' \in Logs
  /\ UNCHANGED <<ask, reply>>

Searching(s) == found[s].state = "searching"

Settle(s, result) ==
  /\ found' = [found EXCEPT ![s] = result]
  /\ UNCHANGED <<ask, log, window, reply>>

Fails(s) == Searching(s) /\ Settle(s, Without("failed"))

(* What s holds of the identifier, in the window as s reads it. *)
Matching(s) == {e \in log : e.source = s /\
  (s # "db" => WindowAt(s).start <= e.at /\ e.at <= WindowAt(s).end)}

(* Mutant of Preferred: CloudWatch is asked for the latest first. *)
LatestFirst(s, e, f) ==
  CASE s = "cloudwatch" -> e.at > f.at
    [] s = "db" /\ OrderColumn # 0 ->
         /\ e.cols[OrderColumn] # None
         /\ f.cols[OrderColumn] = None \/ e.cols[OrderColumn] > f.cols[OrderColumn]
    [] OTHER -> FALSE

(* sort @timestamp asc, ORDER BY ... DESC NULLS LAST; New Relic is not     *)
(* told which to give, nor is a table without a column to order by.        *)
Preferred(s, e, f) ==
  CASE s = "cloudwatch" -> e.at < f.at
    [] s = "db" /\ OrderColumn # 0 ->
         /\ e.cols[OrderColumn] # None
         /\ f.cols[OrderColumn] = None \/ e.cols[OrderColumn] > f.cols[OrderColumn]
    [] OTHER -> FALSE

(* LIMIT: no more than so many of the events, and the preferred ones.      *)
Limited(s, events) == {given \in SUBSET events :
  /\ Cardinality(given) = Least(LimitAt(s), Cardinality(events))
  /\ \A e \in given, f \in events \ given : ~Preferred(s, f, e)}

CloudWatchAnswers ==
  /\ Searching("cloudwatch") /\ Accepts("cloudwatch")
  /\ \E given \in Limited("cloudwatch", Matching("cloudwatch")) : Settle("cloudwatch", Gives(given))

(* The query did not end in time and was stopped.                          *)
CloudWatchStops ==
  /\ Searching("cloudwatch") /\ Accepts("cloudwatch")
  /\ Settle("cloudwatch", Without("running"))

(* The query ended by itself but did not complete (Failed, Timeout): what  *)
(* rows there are count as its result.                                     *)
CloudWatchBreaksOff ==
  /\ Searching("cloudwatch") /\ Accepts("cloudwatch")
  /\ \E given \in SUBSET Matching("cloudwatch") :
       /\ Cardinality(given) <= LimitAt("cloudwatch")
       /\ Settle("cloudwatch", [Gives(given) EXCEPT !.unread = Matching("cloudwatch") \ given])

NewRelicAnswers ==
  /\ Searching("newrelic") /\ Accepts("newrelic")
  /\ \E given \in Limited("newrelic", Matching("newrelic")) : Settle("newrelic", Gives(given))

Bytes(S) == MapThenSumSet(LAMBDA e : e.size + 1, S)

Of(t, rows) == {e \in rows : e.target = t}

(* fit_rows_to_budget on the rows of each target in turn, with what those  *)
(* before it have left of the budget: the first that does not fit is cut,  *)
(* and all that follow it in the target.                                   *)
FitsBudget(kept, rows) == \A t \in Targets :
  LET used == {e \in kept : e.target <= t}
      cut  == Of(t, rows) \ kept
  IN /\ Bytes(used) <= DbBytes
     /\ \A e \in Of(t, kept), f \in cut : ~Preferred("db", f, e)
     /\ cut # {} => \E next \in cut :
          /\ \A f \in cut : ~Preferred("db", f, next)
          /\ Bytes(used \cup {next}) > DbBytes

(* Targets are left out: those after the MAX_SEARCH_TARGETS first, and any *)
(* that the identifier does not suit.  The search says so in `truncated`   *)
(* and `skipped` of its result, of which the trace takes no notice; it     *)
(* passes on that the byte budget cut rows.                                *)
DatabaseAnswers ==
  /\ Searching("db")
  /\ \E left \in SUBSET Targets :
       LET read == {e \in Matching("db") : e.target \notin left}
       IN \E fetched \in SUBSET read : \E kept \in SUBSET fetched :
            /\ \A t \in Targets : Of(t, fetched) \in Limited("db", Of(t, read))
            /\ FitsBudget(kept, fetched)
            /\ Settle("db", [Gives(kept) EXCEPT !.told = (kept # fetched),
                                                !.unread = Matching("db") \ read])
-------------------------------------------------------------------------------
Events == UNION {found[s].events : s \in Sources}

Class(e) == IF At(e) = None THEN 1 ELSE IF InWindow(e) THEN 0 ELSE 2

Distance(e) == IF At(e) < window.start THEN window.start - At(e) ELSE At(e) - window.end

Urgency(e) == CASE Class(e) = 0 -> At(e) [] Class(e) = 1 -> 0 [] OTHER -> Distance(e)

(* Mutant of Before: in the order of time, undated rows last. *)
BeforeInTime(e, f) ==
  /\ e # f
  /\ At(e) # None
  /\ At(f) = None \/ At(e) < At(f) \/ (At(e) = At(f) /\ e.id < f.id)

(* in_window + undated + outside, each in its order; the sorts are stable. *)
Before(e, f) ==
  \/ Class(e) < Class(f)
  \/ Class(e) = Class(f) /\ Urgency(e) < Urgency(f)
  \/ Class(e) = Class(f) /\ Urgency(e) = Urgency(f) /\ e.id < f.id

First(n) == {e \in Events : Cardinality({f \in Events : Before(f, e)}) < n}

(* The event cap, then fit_rows_to_budget on what it leaves. *)
Kept == UNION {First(n) : n \in {m \in 0..Cap : Bytes(First(m)) <= MaxBytes}}

(* Mutant of Fit: the cap comes unnoticed. *)
FitQuietly == [kept |-> Kept, dropped |-> First(Cap) \ Kept]

Fit == [kept |-> Kept, dropped |-> Events \ Kept]

Settled == window # None /\ \A s \in Sources : ~Searching(s)

(* A source that is still running has not failed.                          *)
AllFailed == \A s \in Sources : found[s].state \in {"skipped", "failed"}

Merge ==
  /\ reply = None /\ Settled
  /\ reply' = IF AllFailed THEN [kind |-> "failed"]
              ELSE [kind |-> "ok",
                    events |-> Fit.kept,
                    truncated |-> Fit.dropped # {},
                    droppedInWindow |-> Cardinality({e \in Fit.dropped : InWindow(e)}),
                    droppedOther |-> Cardinality({e \in Fit.dropped : ~InWindow(e)})]
  /\ UNCHANGED <<ask, log, window, found>>

Replied == reply # None /\ UNCHANGED vars

Next ==
  \/ Refuse \/ Begin
  \/ CloudWatchAnswers \/ CloudWatchStops \/ CloudWatchBreaksOff
  \/ NewRelicAnswers \/ DatabaseAnswers
  \/ \E s \in Sources : Fails(s)
  \/ Merge \/ Replied

Spec == Init /\ [][Next]_vars
-------------------------------------------------------------------------------
(* "so old DB rows can't push this window's logs out"                      *)
(* (service/trace_service.py:211): while an event of the window is left    *)
(* out, nothing undated, nothing outside the window and nothing later than *)
(* it is kept; while an undated row is, nothing outside the window.        *)
WindowFirst == reply # None /\ reply.kind = "ok" =>
  \A e \in Events \ reply.events, f \in reply.events :
    /\ InWindow(e) => InWindow(f) /\ At(f) <= At(e)
    /\ At(e) = None => At(f) = None \/ InWindow(f)

(* A source keeps e to itself only if it gave as many events as it may, or *)
(* says that it cut them; CloudWatch if it gave none later than e, and a   *)
(* table of the database none that comes after e in its order.             *)
Excused(s, e) ==
  LET given == {f \in found[s].events : s = "db" => f.target = e.target}
  IN /\ Cardinality(given) = LimitAt(s) \/ found[s].told
     /\ s = "cloudwatch" => \A f \in given : f.at <= e.at
     /\ s = "db" => \A f \in given : ~Preferred(s, e, f)

(* The caller can tell that an event of the window is missing: "Returned N *)
(* of M events ... later in-window events were dropped"                    *)
(* (service/trace_service.py:234) counts every one that a source gave and  *)
(* the timeline does not have, and a source that answered gave all it      *)
(* read, or is at its limit, or says that it cut them.  Not read are the   *)
(* last part of a second at CloudWatch and of a millisecond at New Relic;  *)
(* and, which the caller cannot tell, what a failed query at CloudWatch    *)
(* did not give and what is in tables the database search left out.        *)
NothingVanishes == reply # None /\ reply.kind = "ok" =>
  /\ reply.truncated <=> reply.droppedInWindow + reply.droppedOther > 0
  /\ reply.droppedInWindow = Cardinality({e \in Events \ reply.events : InWindow(e)})
  /\ \A s \in Sources : found[s].state = "ok" =>
       \A e \in log \ found[s].unread :
         e.source = s /\ InWindow(e) /\ (s # "db" => e.at <= WindowAt(s).end)
           => e \in found[s].events \/ Excused(s, e)

(* A window the request is accepted with is accepted by the guardrail of   *)
(* every source, though each reads it again in its own units; New Relic    *)
(* only needs a window that crosses a millisecond.                         *)
SourcesAcceptWindow == window # None =>
  /\ Accepts("cloudwatch")
  /\ window.end - window.start >= Milli => Accepts("newrelic")
===============================================================================
