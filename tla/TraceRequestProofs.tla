--------------------------- MODULE TraceRequestProofs ---------------------------
(***************************************************************************)
(* What is proved of TraceRequest for any set of sources, whatever the     *)
(* Insights query does: the worker thread is told as soon as nobody waits  *)
(* for it, and the call keeps the contract of ScatterGather.               *)
(***************************************************************************)
EXTENDS TraceRequest, TLAPS

Shape == status \in [Sources -> Statuses] /\ reply \in Replies

(* The thread's future is dropped at once: only coroutines wind down. *)
NeverStopping == status[CloudWatch] # "stopping"

(* Jobs are abandoned by the step that answers the call. *)
AbandonedLast == reply = "none" => \A s \in Sources : status[s] # "abandoned"

IInv == Shape /\ NeverStopping /\ AbandonedLast /\ ThreadTold

-------------------------------------------------------------------------------
(* The thread reads the event, it never sets it. *)
LEMMA ThreadOnlyReads == Insights!Thread \/ Insights!Remote => UNCHANGED cancel
BY DEF Insights!Thread, Insights!NeverStarts, Insights!Refuse, Insights!StartQuery,
     Insights!StartFails, Insights!PollCancelled, Insights!PollResults, Insights!Polled,
     Insights!PollFails, Insights!Sleep, Insights!AnswerCancelled, Insights!AnswerCeiling,
     Insights!AnswerRunning, Insights!AnswerRows, Insights!Remote, Insights!RemoteRuns,
     Insights!RemoteScans, Insights!RemoteEnds, Insights!call

LEMMA InitInv == Init => IInv
BY SourcesAssumption DEF Init, IInv, Shape, NeverStopping, AbandonedLast, ThreadTold,
     Statuses, Final, Replies

LEMMA StepInv == IInv /\ [Next]_vars => IInv'
<1> SUFFICES ASSUME IInv, [Next]_vars PROVE IInv'
  OBVIOUS
<1> USE SourcesAssumption DEF IInv, Shape, NeverStopping, AbandonedLast, ThreadTold,
      Statuses, Final, Replies, Report
<1>1. CASE Refuse
  BY <1>1 DEF Refuse, query
<1>2. CASE Plan
  BY <1>2 DEF Plan, query
<1>3. CASE CloudWatchAnswers
  <2>1. StatusOf(answer) \in {"ok", "running", "error"}
    BY DEF StatusOf
  <2> QED BY <1>3, <2>1 DEF CloudWatchAnswers, SignalThread
<1>4. ASSUME NEW s \in Sources, SourceAnswers(s) PROVE IInv'
  BY <1>4 DEF SourceAnswers, query
<1>5. ASSUME NEW s \in Sources, TimesOut(s) PROVE IInv'
  BY <1>5 DEF TimesOut, SignalThread
<1>6. ASSUME NEW s \in Sources, WindsDown(s) PROVE IInv'
  BY <1>6 DEF WindsDown, query
<1>7. CASE Merge
  BY <1>7 DEF Merge, query
<1>8. CASE ClientCancels
  BY <1>8 DEF ClientCancels
<1>9. CASE ThreadStep \/ RemoteStep
  BY <1>9, ThreadOnlyReads DEF ThreadStep, RemoteStep
<1>10. CASE UNCHANGED vars
  BY <1>10 DEF vars, query
<1> QED BY <1>1, <1>2, <1>3, <1>4, <1>5, <1>6, <1>7, <1>8, <1>9, <1>10 DEF Next, Terminated

LEMMA SpecInv == Spec => []IInv
BY InitInv, StepInv, PTL DEF Spec

(* The event is set whenever nobody waits for the CloudWatch source. *)
THEOREM ThreadToldHolds == Spec => []ThreadTold
<1>1. IInv => ThreadTold
  BY DEF IInv
<1> QED BY <1>1, SpecInv, PTL

-------------------------------------------------------------------------------
(* What the contract sees of one source, and of the reply. *)
OutcomeOf(st) ==
  CASE st \in {"searching", "stopping"} -> "pending"
    [] st \in {"ok", "running"} -> "good"
    [] st \in {"error", "timeout", "abandoned"} -> "bad"
    [] OTHER -> "skipped"

LEMMA OutcomeValues ==
  /\ \A s \in Sources : Outcome[s] = OutcomeOf(status[s])
  /\ OutcomeOf("searching") = "pending" /\ OutcomeOf("stopping") = "pending"
  /\ OutcomeOf("ok") = "good" /\ OutcomeOf("running") = "good"
  /\ \A st \in {"error", "timeout", "abandoned"} : OutcomeOf(st) = "bad"
  /\ OutcomeOf("skipped") = "skipped"
BY DEF Outcome, OutcomeOf

LEMMA ReplyValues ==
  /\ reply = "all_sources_failed" => Reply = "failed"
  /\ reply \in {"invalid", "no_sources"} => Reply = "refused"
  /\ reply \in {"none", "ok", "cancelled"} => Reply = reply
BY DEF Reply

(* One source settles. *)
LEMMA Settles ==
  ASSUME IInv, NEW s \in Sources, OutcomeOf(status[s]) = "pending",
         NEW st \in {"ok", "running", "error", "timeout"}, Report(s, st), UNCHANGED reply
  PROVE  Contract!Settle(s)
<1>1. status' = [status EXCEPT ![s] = st]
  BY DEF Report
<1>2. OutcomeOf(st) \in {"good", "bad"}
  BY OutcomeValues
<1>3. Outcome' = [Outcome EXCEPT ![s] = OutcomeOf(st)]
  BY <1>1 DEF Outcome, OutcomeOf, IInv, Shape
<1>4. Outcome[s] = "pending"
  BY OutcomeValues
<1>5. UNCHANGED Reply
  BY DEF Reply
<1> QED BY <1>2, <1>3, <1>4, <1>5 DEF Contract!Settle

LEMMA StepMaps == ASSUME IInv, Next PROVE [Contract!Next]_<<Outcome, Reply>>
<1> USE DEF IInv, Shape
<1>1. CASE Refuse
  <2>1. \A s \in Sources : Outcome[s] = "skipped"
    BY <1>1, OutcomeValues DEF Refuse, Planned
  <2>2. Reply = "none" /\ Reply' = "refused" /\ UNCHANGED Outcome
    BY <1>1 DEF Refuse, Reply, Outcome
  <2> QED BY <2>1, <2>2 DEF Contract!Next, Contract!Refuse
<1>2. CASE Plan
  <2>1. (\A s \in Sources : Outcome[s] = "skipped") /\ Reply = "none"
    BY <1>2, OutcomeValues, ReplyValues DEF Plan, Planned
  <2>2. PICK asked \in SUBSET Sources :
          /\ status' = [s \in Sources |-> IF s \in asked THEN "searching" ELSE "skipped"]
          /\ reply' = IF asked = {} THEN "no_sources" ELSE "none"
    BY <1>2 DEF Plan
  <2>3. Outcome' = [s \in Sources |-> IF s \in asked THEN "pending" ELSE "skipped"]
    BY <2>2 DEF Outcome
  <2>4. CASE asked = {}
    <3>1. Reply' = "refused"
      BY <2>2, <2>4 DEF Reply
    <3>2. Outcome' = [s \in Sources |-> "skipped"]
      BY <2>3, <2>4
    <3>3. Outcome = [s \in Sources |-> "skipped"]
      BY <1>2 DEF Outcome, Plan, Planned
    <3>4. UNCHANGED Outcome
      BY <3>2, <3>3
    <3> QED BY <2>1, <3>1, <3>4 DEF Contract!Next, Contract!Refuse
  <2>5. CASE asked # {}
    <3>1. UNCHANGED Reply
      BY <1>2, <2>2, <2>5 DEF Plan, Reply
    <3> QED BY <2>1, <2>3, <2>5, <3>1 DEF Contract!Next, Contract!Ask
  <2> QED BY <2>4, <2>5
<1>3. CASE CloudWatchAnswers
  <2>1. StatusOf(answer) \in {"ok", "running", "error"}
    BY DEF StatusOf
  <2> QED BY <1>3, <2>1, SourcesAssumption, OutcomeValues, Settles
         DEF CloudWatchAnswers, Contract!Next
<1>4. ASSUME NEW s \in Sources, SourceAnswers(s)
      PROVE  [Contract!Next]_<<Outcome, Reply>>
  BY <1>4, OutcomeValues, Settles DEF SourceAnswers, Contract!Next
<1>5. ASSUME NEW s \in Sources, TimesOut(s)
      PROVE  [Contract!Next]_<<Outcome, Reply>>
  <2>1. CASE s = CloudWatch
    BY <1>5, <2>1, OutcomeValues, Settles DEF TimesOut, Contract!Next
  <2>2. CASE s # CloudWatch
    <3>1. status' = [status EXCEPT ![s] = "stopping"] /\ status[s] = "searching"
      BY <1>5, <2>2 DEF TimesOut, Report
    <3>2. UNCHANGED <<Outcome, Reply>>
      BY <1>5, <3>1 DEF TimesOut, Outcome, Reply
    <3> QED BY <3>2
  <2> QED BY <2>1, <2>2
<1>6. ASSUME NEW s \in Sources, WindsDown(s)
      PROVE  [Contract!Next]_<<Outcome, Reply>>
  BY <1>6, OutcomeValues, Settles DEF WindsDown, Contract!Next
<1>7. CASE Merge
  <2>1. \A s \in Sources : status[s] \in {"ok", "running", "error", "timeout", "skipped"}
    BY <1>7 DEF Merge, Final, AbandonedLast
  <2>2. /\ \A s \in Sources : Outcome[s] # "pending"
        /\ \A s \in Sources : Outcome[s] = "good" <=> status[s] \in {"ok", "running"}
        /\ \A s \in Sources : Outcome[s] # "skipped" <=> status[s] # "skipped"
    BY <2>1, OutcomeValues
  <2>3. Reply = "none" /\ \E s \in Sources : Outcome[s] # "skipped"
    BY <1>7, <2>2, ReplyValues DEF Merge, Planned
  <2>4. reply' = IF \E s \in Sources : Outcome[s] = "good"
                 THEN "ok" ELSE "all_sources_failed"
    BY <1>7, <2>1, <2>2 DEF Merge, Searched, Failures
  <2>5. Reply' = IF \E s \in Sources : Outcome[s] = "good" THEN "ok" ELSE "failed"
    BY <2>4 DEF Reply
  <2>6. UNCHANGED Outcome
    BY <1>7 DEF Merge, Outcome
  <2> QED BY <2>2, <2>3, <2>5, <2>6 DEF Contract!Next, Contract!Answer
<1>8. CASE ClientCancels
  <2>1. Reply = "none" /\ Reply' = "cancelled"
    BY <1>8 DEF ClientCancels, Reply
  <2>2. \E s \in Sources : Outcome[s] # "skipped"
    <3>1. PICK s \in Sources : status[s] # "skipped"
      BY <1>8 DEF ClientCancels, Planned
    <3> QED BY <3>1, OutcomeValues DEF Statuses, Final
  <2>3. Outcome' = [s \in Sources |-> IF Outcome[s] = "pending" THEN "bad" ELSE Outcome[s]]
    BY <1>8, OutcomeValues DEF ClientCancels, Outcome, Statuses, Final
  <2> QED BY <2>1, <2>2, <2>3 DEF Contract!Next, Contract!Abandon
<1>9. CASE ThreadStep \/ RemoteStep \/ Terminated
  BY <1>9 DEF ThreadStep, RemoteStep, Terminated, vars, Outcome, Reply
<1> QED BY <1>1, <1>2, <1>3, <1>4, <1>5, <1>6, <1>7, <1>8, <1>9 DEF Next

(* trace_request implements ScatterGather: it answers only when every      *)
(* source it searched has settled, and fails only when all of them failed. *)
THEOREM ContractRefinement == Spec => RefinesContract
<1>1. Init => Contract!Init
  BY OutcomeValues, ReplyValues DEF Init, Contract!Init, Outcome
<1>2. ASSUME UNCHANGED vars PROVE UNCHANGED <<Outcome, Reply>>
  BY <1>2 DEF vars, Outcome, Reply
<1>3. IInv /\ [Next]_vars => [Contract!Next]_<<Outcome, Reply>>
  BY <1>2, StepMaps
<1> QED BY <1>1, <1>3, SpecInv, PTL DEF Spec, RefinesContract, Contract!Spec, Contract!vars
-------------------------------------------------------------------------------
(* What is proved of InsightsQuery, for a query in here. *)
IQ == INSTANCE InsightsQueryProofs WITH caller <- "trace"

Told == cancel \in BOOLEAN

(* The event is set and never cleared. *)
LEMMA SignalMaps ==
  ASSUME Told, NEW set \in BOOLEAN, cancel' = (cancel \/ set),
         UNCHANGED <<pc, remote, scanned, seen, turn, elapsed, answer, failed>>
  PROVE  Told' /\ [Insights!Next]_(Insights!vars)
<1> USE DEF Told
<1>1. CASE cancel' = cancel
  BY <1>1 DEF Insights!vars, Insights!thread, Insights!query, Insights!call
<1>2. CASE cancel' # cancel
  <2>1. ~cancel /\ cancel' = TRUE
    BY <1>2
  <2>2. Insights!SetCancel
    BY <2>1 DEF Insights!SetCancel, Insights!thread, Insights!query
  <2> QED BY <2>1, <2>2 DEF Insights!Next
<1> QED BY <1>1, <1>2

(* A step of the trace is one of the thread, of AWS, or of the event. *)
LEMMA ThreadMaps ==
  Told /\ [Next]_vars => Told' /\ [Insights!Next]_(Insights!vars)
<1> SUFFICES ASSUME cancel \in BOOLEAN, [Next]_vars
             PROVE  Told' /\ [Insights!Next]_(Insights!vars)
  BY DEF Told
<1> USE DEF Told
<1>1. CASE UNCHANGED query
  BY <1>1 DEF query, Insights!vars, Insights!thread, Insights!query, Insights!call
<1>2. CASE CloudWatchAnswers
  BY <1>2, SignalMaps DEF CloudWatchAnswers, SignalThread
<1>3. ASSUME NEW s \in Sources, TimesOut(s)
      PROVE  Told' /\ [Insights!Next]_(Insights!vars)
  BY <1>3, SignalMaps DEF TimesOut, SignalThread
<1>4. CASE ClientCancels
  BY <1>4, SignalMaps DEF ClientCancels
<1>5. CASE ThreadStep \/ RemoteStep
  BY <1>5, ThreadOnlyReads DEF ThreadStep, RemoteStep, Insights!Next
<1> QED BY <1>1, <1>2, <1>3, <1>4, <1>5 DEF Next, Refuse, Plan, SourceAnswers, WindsDown,
     Merge, Terminated, vars

(* Whatever the trace does, its thread and its query are those of          *)
(* run_insights_query, for a caller that may stop waiting at any moment.   *)
THEOREM ThreadRefinement == Spec => ThreadIsInsightsQuery
<1>1. Init => Insights!Init /\ Told
  BY DEF Told, Init, Insights!Init
<1> QED BY <1>1, ThreadMaps, PTL DEF Spec, ThreadIsInsightsQuery, Insights!Spec

(* The query of the trace and that of the proofs are one module, named     *)
(* twice.                                                                  *)
LEMMA SameNext == Insights!Next <=> IQ!Next
BY DEF Insights!Next, Insights!Thread, Insights!Remote,
     Insights!NeverStarts, Insights!Refuse, Insights!StartQuery,
     Insights!StartFails, Insights!PollCancelled, Insights!PollResults,
     Insights!PollFails, Insights!Sleep, Insights!AnswerCancelled,
     Insights!AnswerCeiling, Insights!AnswerRunning, Insights!AnswerRows,
     Insights!SetCancel, Insights!RemoteRuns, Insights!RemoteScans,
     Insights!RemoteEnds, Insights!Terminated, Insights!Done,
     Insights!Polled, Insights!GoesOn, Insights!Shorter, Insights!Stopped,
     Insights!StopSucceeds, Insights!StopFails, Insights!StopBestEffort,
     Insights!Active, Insights!RunningStatuses, Insights!EndStatuses,
     Insights!thread, Insights!query, Insights!call, Insights!vars, IQ!Next,
     IQ!Thread, IQ!Remote, IQ!NeverStarts, IQ!Refuse, IQ!StartQuery,
     IQ!StartFails, IQ!PollCancelled, IQ!PollResults, IQ!PollFails,
     IQ!Sleep, IQ!AnswerCancelled, IQ!AnswerCeiling, IQ!AnswerRunning,
     IQ!AnswerRows, IQ!SetCancel, IQ!RemoteRuns, IQ!RemoteScans,
     IQ!RemoteEnds, IQ!Terminated, IQ!Done, IQ!Polled, IQ!GoesOn,
     IQ!Shorter, IQ!Stopped, IQ!StopSucceeds, IQ!StopFails,
     IQ!StopBestEffort, IQ!Active, IQ!RunningStatuses, IQ!EndStatuses,
     IQ!thread, IQ!query, IQ!call, IQ!vars

LEMMA SameSpec == ThreadIsInsightsQuery => IQ!Spec
<1>1. Insights!Init => IQ!Init
  BY DEF Insights!Init, IQ!Init
<1>2. [Insights!Next]_(Insights!vars) => [IQ!Next]_(IQ!vars)
  BY SameNext DEF Insights!vars, Insights!thread, Insights!query, Insights!call,
       IQ!vars, IQ!thread, IQ!query, IQ!call
<1> QED BY <1>1, <1>2, PTL DEF ThreadIsInsightsQuery, Insights!Spec, IQ!Spec

LEMMA QueryInv == Spec => []IQ!IInv
<1>1. IQ!Init => IQ!IInv
  BY IQ!InitInv, ThreadAssumption DEF IQ!QueryAssumption
<1>2. IQ!IInv /\ [IQ!Next]_(IQ!vars) => IQ!IInv'
  BY IQ!StepInv, ThreadAssumption DEF IQ!QueryAssumption
<1> QED BY <1>1, <1>2, ThreadRefinement, SameSpec, PTL DEF IQ!Spec

(* The state is well formed, that of the query included. *)
THEOREM TypeCorrect == Spec => []TypeOK
<1>1. IInv /\ IQ!IInv => TypeOK
  BY DEF IInv, Shape, TypeOK, IQ!IInv, IQ!Shape, IQ!TypeOK, Insights!TypeOK,
     IQ!RunningStatuses, IQ!EndStatuses, IQ!Answers,
     Insights!RunningStatuses, Insights!EndStatuses, Insights!Answers
<1> QED BY <1>1, SpecInv, QueryInv, PTL

(* "Running", the answer that hands over a running query, is a tool's. *)
LEMMA NothingToResume == Spec => [](answer # "Running")
<1>1. Insights!Init => answer # "Running"
  BY DEF Insights!Init
<1>2. answer # "Running" /\ [Insights!Next]_(Insights!vars) => (answer # "Running")'
  BY DEF Insights!Next, Insights!Thread, Insights!NeverStarts, Insights!Refuse,
     Insights!StartQuery, Insights!StartFails, Insights!PollCancelled, Insights!PollResults,
     Insights!Polled, Insights!PollFails, Insights!Sleep, Insights!AnswerCancelled,
     Insights!AnswerCeiling, Insights!AnswerRunning, Insights!AnswerRows, Insights!Done,
     Insights!SetCancel, Insights!Remote, Insights!RemoteRuns, Insights!RemoteScans,
     Insights!RemoteEnds, Insights!Terminated, Insights!vars, Insights!thread
<1> QED BY <1>1, <1>2, ThreadRefinement, PTL DEF ThreadIsInsightsQuery, Insights!Spec

(* Once the thread of a trace has ended, its query does not run on, unless *)
(* a call to AWS failed, whenever the trace stopped waiting and why.       *)
THEOREM QueryEndsWithThread == Spec => [](~failed /\ pc = "done" => ~Insights!Active)
<1>1. IQ!IInv /\ answer # "Running" => (~failed /\ pc = "done" => ~Insights!Active)
  BY DEF IQ!IInv, IQ!NothingLeftRunning, IQ!Active, IQ!RunningStatuses, Insights!Active,
     Insights!RunningStatuses
<1> QED BY <1>1, QueryInv, NothingToResume, PTL
===============================================================================
