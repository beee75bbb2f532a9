----------------------------- MODULE InsightsQuery -----------------------------
(***************************************************************************)
(* One CloudWatch Logs Insights query: run_insights_query starts it, polls *)
(* it with poll_query_with_backoff and makes an answer of the last poll,   *)
(* while the query lives its own life at AWS and, in a trace, the caller   *)
(* may stop waiting at any moment (a threading.Event, since the thread     *)
(* that runs this cannot be cancelled).                                    *)
(*                                                                         *)
(* The answer is made from what the last poll saw; what matters is the     *)
(* query itself: whether it still runs, and is billed, when nobody is left *)
(* to read it.                                                             *)
(***************************************************************************)
EXTENDS Naturals, Sequences

CONSTANTS
  Schedule,       \* BACKOFF_SCHEDULE, in any unit of time
  MaxWait,        \* CW_POLL_MAX_WAIT_S, in the same unit
  Ceiling,        \* CW_MAX_BYTES_SCANNED
  Volume          \* bytes a query may scan (bound)

ASSUME QueryAssumption ==
  /\ Schedule \in Seq(Nat \ {0})
  /\ MaxWait \in Nat /\ Ceiling \in Nat /\ Volume \in Nat

VARIABLES
  caller,   \* "tool", or "trace": stop_if_running, and an event to cancel with
  pc,       \* where the thread is
  cancel,   \* the event is set
  remote,   \* status of the query at AWS, "none" before StartQuery
  scanned,  \* bytes it has scanned so far
  seen,     \* the last poll: status and bytes
  turn,     \* delays of the schedule used up
  elapsed,  \* time the thread believes it has waited
  answer,   \* what the thread returned
  failed    \* history: a call to AWS has failed

thread == <<pc, seen, turn, elapsed, answer>>
query == <<remote, scanned>>
call == <<caller, cancel>>
vars == <<thread, query, call, failed>>
-------------------------------------------------------------------------------
RunningStatuses == {"Scheduled", "Running"}

(* Any other status is to the code that of a query that has ended. *)
EndStatuses == {"Complete", "Failed", "Timeout", "Cancelled", "Unknown"}

(* "dropped": the thread was never started.  "rows" is any answer made of  *)
(* the results of a query that has ended, in whatever way.                 *)
Answers == {"invalid", "aws_error", "query_cancelled", "ceiling",
            "Stopped", "Running", "rows", "dropped"}

Active == remote \in RunningStatuses

Done(a) == pc' = "done" /\ answer' = a

Shorter(a, b) == IF a <= b THEN a ELSE b

(* Mutant of GoesOn: the last delay of the schedule is never used. *)
GoesOnTooBriefly(result) ==
  /\ result.status \in RunningStatuses
  /\ turn + 1 < Len(Schedule)
  /\ elapsed < MaxWait

(* After a poll the loop goes on only while the query runs and both the    *)
(* schedule and the budget have time left.                                 *)
GoesOn(result) ==
  /\ result.status \in RunningStatuses
  /\ turn < Len(Schedule)
  /\ elapsed < MaxWait

Polled(result) ==
  /\ seen' = result
  /\ pc' = IF GoesOn(result) THEN "sleep" ELSE "judge"
  /\ UNCHANGED <<query, call, failed, turn, elapsed, answer>>

(* StopQuery: it works while the query runs, and is refused once it has    *)
(* ended; when the call fails, it may still have reached AWS.              *)
Stopped == Active /\ remote' = "Cancelled" /\ UNCHANGED scanned

StopSucceeds == Stopped /\ UNCHANGED failed

StopFails ==
  \/ ~Active /\ UNCHANGED <<query, failed>>
  \/ failed' = TRUE /\ (UNCHANGED query \/ Stopped)

(* _stop_query: a failure is logged and forgotten. *)
StopBestEffort == StopSucceeds \/ StopFails
-------------------------------------------------------------------------------
Init ==
  /\ caller \in {"tool", "trace"}
  /\ failed = FALSE
  /\ pc = "new" /\ answer = "none"
  /\ cancel = FALSE
  /\ remote = "none" /\ scanned = 0
  /\ seen = [status |-> "none", bytes |-> 0]
  /\ turn = 0 /\ elapsed = 0

(* The caller gives up before a worker thread was free. *)
NeverStarts ==
  /\ pc = "new" /\ cancel
  /\ Done("dropped")
  /\ UNCHANGED <<query, call, failed, seen, turn, elapsed>>

(* A log group that is not allowed, a bad query text or a bad window. *)
Refuse ==
  /\ pc = "new"
  /\ Done("invalid")
  /\ UNCHANGED <<query, call, failed, seen, turn, elapsed>>

StartQuery ==
  /\ pc = "new"
  /\ pc' = "poll"
  /\ remote' = "Scheduled"
  /\ UNCHANGED <<call, failed, scanned, seen, turn, elapsed, answer>>

StartFails ==
  /\ pc = "new"
  /\ Done("aws_error")
  /\ failed' = TRUE
  /\ UNCHANGED <<query, call, seen, turn, elapsed>>

(* poll_fn looks at the event first. *)
PollCancelled ==
  /\ pc = "poll" /\ cancel
  /\ Polled([status |-> "Cancelled", bytes |-> 0])

PollResults ==
  /\ pc = "poll" /\ ~cancel
  /\ Polled([status |-> remote, bytes |-> scanned])

(* The error handler answers, and forgets the query. *)
PollFails ==
  /\ pc = "poll" /\ ~cancel
  /\ Done("aws_error")
  /\ failed' = TRUE
  /\ UNCHANGED <<query, call, seen, turn, elapsed>>

(* Mutants of Sleep: a delay that does not count, or that may pass the     *)
(* budget.                                                                 *)
SleepUncounted ==
  /\ pc = "sleep"
  /\ pc' = "poll"
  /\ UNCHANGED <<query, call, failed, seen, answer, turn, elapsed>>

SleepInFull ==
  /\ pc = "sleep"
  /\ pc' = "poll"
  /\ turn' = turn + 1
  /\ elapsed' = elapsed + Schedule[turn + 1]
  /\ UNCHANGED <<query, call, failed, seen, answer>>

(* cancel.wait returns early once the event is set; the delay counts in    *)
(* full all the same.                                                      *)
Sleep ==
  /\ pc = "sleep"
  /\ pc' = "poll"
  /\ turn' = turn + 1
  /\ elapsed' = elapsed + Shorter(Schedule[turn + 1], MaxWait - elapsed)
  /\ UNCHANGED <<query, call, failed, seen, answer>>

(* Mutant of AnswerCancelled: the thread stops, the query does not. *)
AnswerCancelledOnly ==
  /\ pc = "judge" /\ seen.status = "Cancelled"
  /\ Done("query_cancelled")
  /\ UNCHANGED <<query, call, failed, seen, turn, elapsed>>

AnswerCancelled ==
  /\ pc = "judge" /\ seen.status = "Cancelled"
  /\ StopBestEffort
  /\ Done("query_cancelled")
  /\ UNCHANGED <<call, seen, turn, elapsed>>

(* Over the ceiling.  This stop_query is a plain call: its error replaces  *)
(* the report.                                                             *)
AnswerCeiling ==
  /\ pc = "judge" /\ seen.status # "Cancelled"
  /\ seen.bytes > Ceiling
  /\ IF seen.status \in RunningStatuses
     THEN \/ StopSucceeds /\ Done("ceiling")
          \/ StopFails /\ Done("aws_error")
     ELSE Done("ceiling") /\ UNCHANGED <<query, failed>>
  /\ UNCHANGED <<call, seen, turn, elapsed>>

(* Mutant of AnswerRunning: a trace's query is left running. *)
AnswerRunningOnly ==
  /\ pc = "judge" /\ seen.status \in RunningStatuses
  /\ seen.bytes <= Ceiling
  /\ Done(IF caller = "trace" THEN "Stopped" ELSE "Running")
  /\ UNCHANGED <<query, call, failed, seen, turn, elapsed>>

(* Still running when polling ends: stopped, or left to the caller. *)
AnswerRunning ==
  /\ pc = "judge" /\ seen.status \in RunningStatuses
  /\ seen.bytes <= Ceiling
  /\ IF caller = "trace"
     THEN StopBestEffort /\ Done("Stopped")
     ELSE UNCHANGED <<query, failed>> /\ Done("Running")
  /\ UNCHANGED <<call, seen, turn, elapsed>>

(* Mutant of AnswerRows: the ceiling is only for queries still running. *)
AnswerRowsUnchecked ==
  /\ pc = "judge" /\ seen.status \in EndStatuses \ {"Cancelled"}
  /\ Done("rows")
  /\ UNCHANGED <<query, call, failed, seen, turn, elapsed>>

AnswerRows ==
  /\ pc = "judge" /\ seen.status \in EndStatuses \ {"Cancelled"}
  /\ seen.bytes <= Ceiling
  /\ Done("rows")
  /\ UNCHANGED <<query, call, failed, seen, turn, elapsed>>

(* A trace sets the event when it stops waiting, and also once it has the  *)
(* answer.                                                                 *)
SetCancel ==
  /\ caller = "trace" /\ ~cancel
  /\ cancel' = TRUE
  /\ UNCHANGED <<thread, query, caller, failed>>

(* The query at AWS. *)
RemoteRuns ==
  /\ remote = "Scheduled"
  /\ remote' = "Running"
  /\ UNCHANGED <<thread, call, failed, scanned>>

RemoteScans ==
  /\ remote = "Running" /\ scanned < Volume
  /\ scanned' = scanned + 1
  /\ UNCHANGED <<thread, call, failed, remote>>

(* It ends in some way, or somebody else stops it. *)
RemoteEnds ==
  /\ \/ remote = "Running" /\ remote' \in {"Complete", "Failed", "Timeout", "Unknown"}
     \/ remote = "Scheduled" /\ remote' = "Failed"
     \/ Active /\ remote' = "Cancelled"
  /\ UNCHANGED <<thread, call, failed, scanned>>

Thread ==
  \/ NeverStarts
  \/ Refuse
  \/ StartQuery
  \/ StartFails
  \/ PollCancelled
  \/ PollResults
  \/ PollFails
  \/ Sleep
  \/ AnswerCancelled
  \/ AnswerCeiling
  \/ AnswerRunning
  \/ AnswerRows

Remote == RemoteRuns \/ RemoteScans \/ RemoteEnds

(* The thread has answered and the query is over: nothing more happens. *)
Terminated == pc = "done" /\ ~Active /\ UNCHANGED vars

Next == Thread \/ SetCancel \/ Remote \/ Terminated

(* Every AWS call returns or fails, every delay passes.  Nothing is        *)
(* assumed of the query: it may run for ever.                              *)
Spec == Init /\ [][Next]_vars
FairSpec == Spec /\ WF_vars(Thread)
-------------------------------------------------------------------------------
(* The state is well formed. *)
TypeOK ==
  /\ caller \in {"tool", "trace"} /\ cancel \in BOOLEAN /\ failed \in BOOLEAN
  /\ pc \in {"new", "poll", "sleep", "judge", "done"}
  /\ remote \in {"none"} \cup RunningStatuses \cup EndStatuses
  /\ scanned \in 0..Volume
  /\ seen \in [status : {"none"} \cup RunningStatuses \cup EndStatuses, bytes : 0..Volume]
  /\ turn \in 0..Len(Schedule) /\ elapsed \in 0..MaxWait
  /\ answer \in Answers \cup {"none"}

(* "A CloudWatch query still running when polling ends, or when the source *)
(* times out, is stopped" (docs/design.md:174): as long as no call to AWS  *)
(* fails, a query does not run on after its thread, unless the answer gave *)
(* the caller its query_id to resume.                                      *)
NothingLeftRunning == ~failed /\ pc = "done" /\ Active => answer = "Running"

(* The same promise, whatever happens to the calls. *)
TraceQueryStopped == caller = "trace" /\ pc = "done" => ~Active

(* Rows are never returned from a query that scanned more than the         *)
(* ceiling: the last poll is of the ended query, so it saw every byte.     *)
RowsWithinCeiling == answer = "rows" => scanned <= Ceiling

(* The delays of the schedule before the n-th poll after the first. *)
Total[n \in 0..Len(Schedule)] == IF n = 0 THEN 0 ELSE Total[n - 1] + Schedule[n]

(* "until a terminal status is reported or max_wait_s elapses"             *)
(* (integrations/cloudwatch/guardrail.py:107): polling does not give up on *)
(* a running query before CW_POLL_MAX_WAIT_S, or before the end of the     *)
(* schedule if that is shorter, nor does it wait any longer.               *)
PollsWholeBudget == answer \in {"Running", "Stopped"} =>
  elapsed = Shorter(Total[Len(Schedule)], MaxWait)

(* "abort + report if `bytesScanned` exceeds `CW_MAX_BYTES_SCANNED`"       *)
(* (docs/design.md:283): if no call to AWS failed, the answer for a query  *)
(* that was running over the ceiling when polling ended is the ceiling     *)
(* error, with its suggestion.                                             *)
ReportsOverCeiling ==
  ~failed /\ pc = "done" /\ seen.status \in RunningStatuses /\ seen.bytes > Ceiling
    => answer = "ceiling"

(* The thread always ends, and gives its worker back, even if the query    *)
(* never ends.                                                             *)
ThreadEnds == <>(pc = "done")

(* A caller that stops waiting ends the query: it does not run on at AWS,  *)
(* as long as no call to AWS fails.                                        *)
CancelStopsQuery == cancel ~> (~Active \/ failed)
===============================================================================
