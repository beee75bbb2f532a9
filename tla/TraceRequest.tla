----------------------------- MODULE TraceRequest -----------------------------
(***************************************************************************)
(* One trace_request call: TraceService starts a search in every source    *)
(* that was asked for and is configured, bounds each by its own timeout    *)
(* (_run_bounded), and makes one reply of what they said.                  *)
(*                                                                         *)
(* The CloudWatch search is an InsightsQuery in a worker thread.  A thread *)
(* cannot be cancelled: when the source times out, when it answers and     *)
(* when the client goes away, the event is set, and the thread finds out   *)
(* on its own.  The other sources are coroutines: a timeout cancels them   *)
(* and then waits until they have wound down (a database connection given  *)
(* back, an HTTP client closed).                                           *)
(***************************************************************************)
EXTENDS Naturals, Sequences

CONSTANTS
  Sources,     \* the names of the registered trace sources
  CloudWatch,  \* the one whose search is an Insights query
  Schedule, MaxWait, Ceiling, Volume  \* of InsightsQuery

ASSUME SourcesAssumption == CloudWatch \in Sources

ASSUME ThreadAssumption ==  \* QueryAssumption, for the query in here
  /\ Schedule \in Seq(Nat \ {0})
  /\ MaxWait \in Nat /\ Ceiling \in Nat /\ Volume \in Nat

VARIABLES
  status,  \* of each source: one of Statuses
  reply,   \* what the client got: one of Replies
  pc, cancel, remote, scanned, seen, turn, elapsed, answer, failed  \* of the query

query == <<pc, cancel, remote, scanned, seen, turn, elapsed, answer, failed>>
vars == <<status, reply, query>>

Insights == INSTANCE InsightsQuery WITH caller <- "trace"

(* "searching": its job is awaited.  "stopping": it timed out and is being *)
(* cancelled.  "abandoned": the client went away.  The others are the      *)
(* statuses of SourceStatus.                                               *)
Final == {"ok", "running", "error", "timeout", "skipped", "abandoned"}
Statuses == Final \cup {"searching", "stopping"}
Failures == {"error", "timeout"}

Replies == {"none", "invalid", "no_sources", "ok", "all_sources_failed", "cancelled"}

Planned == \E s \in Sources : status[s] # "skipped"

Searched == {s \in Sources : status[s] # "skipped"}

Report(s, st) == status' = [status EXCEPT ![s] = st]

(* What collect and _failure_status make of the Insights answer: an answer *)
(* with rows is "ok", whatever the query's own status is.                  *)
StatusOf(a) == CASE a = "rows" -> "ok"
                 [] a \in {"Stopped", "Running"} -> "running"
                 [] OTHER -> "error"

(* Mutant of SignalThread: a later end of another source clears the event. *)
SignalLastOnly(s) ==
  /\ cancel' = (s = CloudWatch)
  /\ UNCHANGED <<pc, remote, scanned, seen, turn, elapsed, answer, failed>>

(* _run_bounded sets the event in its finally. *)
SignalThread(s) ==
  /\ cancel' = (cancel \/ s = CloudWatch)
  /\ UNCHANGED <<pc, remote, scanned, seen, turn, elapsed, answer, failed>>
-------------------------------------------------------------------------------
Init ==
  /\ status = [s \in Sources |-> "skipped"]
  /\ reply = "none"
  /\ Insights!Init

(* An empty value, an unknown source or a bad window. *)
Refuse ==
  /\ reply = "none" /\ ~Planned
  /\ reply' = "invalid"
  /\ UNCHANGED <<status, query>>

(* Every source not asked for, or not configured, is skipped. *)
Plan ==
  /\ reply = "none" /\ ~Planned
  /\ \E asked \in SUBSET Sources :
       /\ status' = [s \in Sources |-> IF s \in asked THEN "searching" ELSE "skipped"]
       /\ reply' = IF asked = {} THEN "no_sources" ELSE "none"
  /\ UNCHANGED query

(* Mutant of CloudWatchAnswers: the query's own status is passed on. *)
CloudWatchAnswersRaw ==
  /\ status[CloudWatch] = "searching"
  /\ pc = "done"
  /\ Report(CloudWatch, answer)
  /\ SignalThread(CloudWatch)
  /\ UNCHANGED reply

(* The response of the thread arrives within the timeout. *)
CloudWatchAnswers ==
  /\ status[CloudWatch] = "searching"
  /\ pc = "done"
  /\ Report(CloudWatch, StatusOf(answer))
  /\ SignalThread(CloudWatch)
  /\ UNCHANGED reply

(* Another source returns rows, an error response, or raises. *)
SourceAnswers(s) ==
  /\ s # CloudWatch
  /\ status[s] = "searching"
  /\ \E st \in {"ok", "error"} : Report(s, st)
  /\ UNCHANGED <<reply, query>>

(* Mutant of TimesOut: a thread cannot be cancelled, so it is waited for. *)
TimesOutUnlessThread(s) ==
  /\ s # CloudWatch
  /\ status[s] = "searching"
  /\ Report(s, "stopping")
  /\ UNCHANGED <<reply, query>>

(* wait_for gives up: the thread's future is dropped at once, a coroutine  *)
(* is cancelled.                                                           *)
TimesOut(s) ==
  /\ status[s] = "searching"
  /\ Report(s, IF s = CloudWatch THEN "timeout" ELSE "stopping")
  /\ SignalThread(s)
  /\ UNCHANGED reply

(* The cancelled coroutine has wound down. *)
WindsDown(s) ==
  /\ status[s] = "stopping"
  /\ Report(s, "timeout")
  /\ UNCHANGED <<reply, query>>

(* Mutant of Merge: one failure fails the call. *)
MergeAny ==
  /\ reply = "none" /\ Planned
  /\ \A s \in Sources : status[s] \in Final
  /\ reply' = IF \E s \in Searched : status[s] \in Failures
              THEN "all_sources_failed" ELSE "ok"
  /\ UNCHANGED <<status, query>>

(* The gather is complete. *)
Merge ==
  /\ reply = "none" /\ Planned
  /\ \A s \in Sources : status[s] \in Final
  /\ reply' = IF \A s \in Searched : status[s] \in Failures
              THEN "all_sources_failed" ELSE "ok"
  /\ UNCHANGED <<status, query>>

(* Mutant of ClientCancels: the event is set on a timeout only. *)
ClientCancelsQuietly ==
  /\ reply = "none" /\ Planned
  /\ reply' = "cancelled"
  /\ status' = [s \in Sources |->
       IF status[s] \in {"searching", "stopping"} THEN "abandoned" ELSE status[s]]
  /\ UNCHANGED query

(* The client cancels the call: so is every job of the gather. *)
ClientCancels ==
  /\ reply = "none" /\ Planned
  /\ reply' = "cancelled"
  /\ status' = [s \in Sources |->
       IF status[s] \in {"searching", "stopping"} THEN "abandoned" ELSE status[s]]
  /\ cancel' = (cancel \/ status[CloudWatch] = "searching")
  /\ UNCHANGED <<pc, remote, scanned, seen, turn, elapsed, answer, failed>>

(* The worker thread, if there is one, and the query at AWS. *)
ThreadStep ==
  /\ status[CloudWatch] # "skipped"
  /\ Insights!Thread
  /\ UNCHANGED <<status, reply>>

RemoteStep == Insights!Remote /\ UNCHANGED <<status, reply>>

Terminated ==
  /\ reply # "none"
  /\ status[CloudWatch] = "skipped" \/ (pc = "done" /\ ~Insights!Active)
  /\ UNCHANGED vars

Next ==
  \/ Refuse
  \/ Plan
  \/ CloudWatchAnswers
  \/ \E s \in Sources : SourceAnswers(s) \/ TimesOut(s) \/ WindsDown(s)
  \/ Merge
  \/ ClientCancels
  \/ ThreadStep
  \/ RemoteStep
  \/ Terminated

(* Timers go off, a cancelled coroutine winds down, the loop runs what can *)
(* run, and the thread makes progress on its own: its delays pass, and its *)
(* calls to AWS return.  Nothing is assumed of the searches themselves.    *)
Fairness ==
  /\ \A s \in Sources : WF_vars(TimesOut(s)) /\ WF_vars(WindsDown(s))
  /\ WF_vars(Merge)
  /\ WF_vars(ThreadStep)

Spec == Init /\ [][Next]_vars
FairSpec == Spec /\ Fairness
-------------------------------------------------------------------------------
(* The state is well formed. *)
TypeOK ==
  /\ status \in [Sources -> Statuses]
  /\ reply \in Replies
  /\ Insights!TypeOK

(* Whenever nobody waits for the CloudWatch source any more, because it    *)
(* answered, timed out or was abandoned, its thread has been told.         *)
ThreadTold ==
  status[CloudWatch] \in Final \ {"skipped"} => cancel

(* "One source failing or timing out doesn't fail the call" and the call   *)
(* waits for no source longer than its timeout: a planned call is answered *)
(* even if no source ever answers.                                         *)
AlwaysReplies == Planned ~> reply # "none"

(* "A CloudWatch query still running when polling ends, or when the source *)
(* times out, is stopped" (docs/design.md:174): nothing runs on at AWS for *)
(* a trace that is over, in whatever way it ended, unless a call to AWS    *)
(* failed.                                                                 *)
NoQueryOutlivesTrace == reply # "none" ~> (~Insights!Active \/ failed)

(* "A failed/timed-out source is reported in `data.sources`"               *)
(* (docs/design.md:174): a search that failed at AWS is not reported "ok". *)
FailedSearchReported ==
  reply # "none" /\ answer = "rows" /\ remote \in {"Failed", "Timeout"}
    => status[CloudWatch] # "ok"

(* Whatever becomes of the sources, the thread and its query do what       *)
(* InsightsQuery allows for a trace: the event is set at any moment, for   *)
(* any reason, and never cleared.  What is proved there holds in here.     *)
ThreadIsInsightsQuery == Insights!Spec

(* To its caller the call is a scatter-gather over its sources. *)
Outcome == [s \in Sources |->
  CASE status[s] \in {"searching", "stopping"} -> "pending"
    [] status[s] \in {"ok", "running"} -> "good"
    [] status[s] \in {"error", "timeout", "abandoned"} -> "bad"
    [] OTHER -> "skipped"]

Reply == CASE reply = "all_sources_failed" -> "failed"
           [] reply \in {"invalid", "no_sources"} -> "refused"
           [] OTHER -> reply

Contract == INSTANCE ScatterGather WITH outcome <- Outcome, reply <- Reply

(* TraceRequest implements ScatterGather. *)
RefinesContract == Contract!Spec
===============================================================================
