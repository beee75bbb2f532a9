-------------------------- MODULE InsightsQueryProofs --------------------------
(***************************************************************************)
(* What is proved of InsightsQuery for every schedule, budget, ceiling and *)
(* volume.  The answer is made of the last poll, the properties are about  *)
(* the query: the invariant IInv says what the one tells of the other.     *)
(***************************************************************************)
EXTENDS InsightsQuery, WellFoundedInduction, TLAPS

(* TypeOK, and the guard of the loop while it sleeps. *)
Shape ==
  /\ TypeOK
  /\ pc = "sleep" => turn < Len(Schedule) /\ elapsed < MaxWait

(* The query exists once StartQuery returned, and every poll saw it. *)
Started ==
  /\ pc = "new" => remote = "none"
  /\ pc \in {"poll", "sleep", "judge"} => remote # "none"
  /\ pc = "judge" => seen.status # "none"

(* There is an answer once the thread is done. *)
Answered == answer = "none" <=> pc # "done"

Ended == EndStatuses \ {"Cancelled"}

(* A poll that saw the query ended saw everything: an ended query neither  *)
(* runs again nor scans more.                                              *)
LastPollFinal == seen.status \in Ended => remote = seen.status /\ scanned = seen.bytes

RowsFinal == answer = "rows" => remote \in EndStatuses /\ scanned <= Ceiling

IInv ==
  /\ Shape /\ Started /\ Answered
  /\ LastPollFinal /\ RowsFinal /\ NothingLeftRunning

-------------------------------------------------------------------------------
LEMMA InitInv == Init => IInv
<1> SUFFICES ASSUME Init PROVE IInv
  OBVIOUS
<1> USE DEF Init
<1>1. Len(Schedule) \in Nat
  BY QueryAssumption
<1>2. Shape
  <2>1. 0 \in 0..Volume /\ 0 \in 0..MaxWait /\ 0 \in 0..Len(Schedule)
    BY <1>1, QueryAssumption
  <2>2. seen \in [status : {"none"} \cup RunningStatuses \cup EndStatuses, bytes : 0..Volume]
    BY <2>1
  <2> QED BY <2>1, <2>2 DEF Shape, TypeOK
<1>3. Started /\ Answered
  BY DEF Started, Answered
<1>4. LastPollFinal /\ RowsFinal /\ NothingLeftRunning
  BY DEF LastPollFinal, RowsFinal, NothingLeftRunning, Ended, EndStatuses
<1> QED BY <1>2, <1>3, <1>4 DEF IInv

(* A poll, of the event or of AWS. *)
LEMMA PollInv ==
  ASSUME IInv, pc = "poll",
         NEW result \in [status : RunningStatuses \cup EndStatuses, bytes : 0..Volume],
         result.status \in Ended => remote = result.status /\ scanned = result.bytes,
         Polled(result)
  PROVE  IInv'
<1> USE DEF IInv, Polled, query, call
<1>1. Shape'
  BY QueryAssumption DEF Shape, TypeOK, GoesOn
<1>2. Started' /\ Answered'
  BY DEF Started, Answered, GoesOn, RunningStatuses, EndStatuses
<1>3. LastPollFinal' /\ RowsFinal'
  BY DEF LastPollFinal, RowsFinal
<1>4. NothingLeftRunning'
  BY DEF NothingLeftRunning
<1> QED BY <1>1, <1>2, <1>3, <1>4

(* The thread ends with answer a, having done to the query what step says. *)
LEMMA DoneInv ==
  ASSUME IInv, pc \in {"new", "poll", "judge"}, NEW a \in Answers, Done(a),
         UNCHANGED <<call, seen, turn, elapsed>>,
         failed' \in BOOLEAN, failed => failed',
         UNCHANGED query \/ Stopped,
         a = "rows" => seen.status \in Ended /\ seen.bytes <= Ceiling,
         ~failed' /\ Active' => a = "Running"
  PROVE  IInv'
<1> USE DEF IInv, Done, query, call
<1>1. remote' \in {remote, "Cancelled"} /\ scanned' = scanned
  BY DEF Stopped
<1>2. Shape'
  BY <1>1 DEF Shape, TypeOK, EndStatuses
<1>3. Started' /\ Answered'
  BY DEF Started, Answered, Answers
<1>4. LastPollFinal' /\ RowsFinal'
  <2>1. seen.status \in Ended => ~Active
    BY DEF LastPollFinal, Ended, Active, RunningStatuses, EndStatuses
  <2>2. seen.status \in Ended => UNCHANGED query
    BY <2>1 DEF Stopped
  <2> QED BY <2>2 DEF LastPollFinal, RowsFinal, Ended
<1>5. NothingLeftRunning'
  BY DEF NothingLeftRunning
<1> QED BY <1>2, <1>3, <1>4, <1>5

(* What StopQuery can do, refused, failed or not. *)
LEMMA StopEffect ==
  ASSUME IInv, StopBestEffort
  PROVE  /\ UNCHANGED query \/ Stopped
         /\ failed' \in BOOLEAN /\ (failed => failed')
         /\ ~failed' => ~Active'
<1> USE DEF IInv, Shape, TypeOK, query, Active, RunningStatuses
<1>1. CASE StopSucceeds
  BY <1>1 DEF StopSucceeds, Stopped
<1>2. CASE StopFails
  BY <1>2 DEF StopFails, Stopped
<1> QED BY <1>1, <1>2 DEF StopBestEffort

LEMMA ThreadInv == ASSUME IInv, Thread PROVE IInv'
<1>1. CASE NeverStarts \/ Refuse
  BY <1>1, DoneInv DEF NeverStarts, Refuse, IInv, Shape, TypeOK, Started, Answers, Active,
       RunningStatuses, query
<1>2. CASE StartQuery
  <2> USE <1>2 DEF StartQuery, IInv, call
  <2>1. Shape'
    BY DEF Shape, TypeOK, RunningStatuses
  <2>2. Started' /\ Answered'
    BY DEF Started, Answered
  <2>3. LastPollFinal' /\ RowsFinal' /\ NothingLeftRunning'
    BY DEF LastPollFinal, RowsFinal, NothingLeftRunning, Started, Answered, Ended, EndStatuses
  <2> QED BY <2>1, <2>2, <2>3
<1>3. CASE StartFails \/ PollFails
  BY <1>3, DoneInv DEF StartFails, PollFails, IInv, Shape, TypeOK, Answers
<1>4. CASE PollCancelled
  <2>1. 0 \in 0..Volume
    BY QueryAssumption
  <2> QED BY <1>4, <2>1, PollInv DEF PollCancelled, Ended, EndStatuses
<1>5. CASE PollResults
  BY <1>5, PollInv DEF PollResults, IInv, Shape, TypeOK, Started
<1>6. CASE Sleep
  <2> USE <1>6 DEF Sleep, IInv, query, call
  <2>1. /\ turn \in Nat /\ elapsed \in Nat /\ Len(Schedule) \in Nat
        /\ turn < Len(Schedule) /\ elapsed < MaxWait /\ MaxWait \in Nat
    BY QueryAssumption DEF Shape, TypeOK
  <2>2. Schedule[turn + 1] \in Nat
    <3>1. turn + 1 \in 1..Len(Schedule)
      BY <2>1
    <3> QED BY <3>1, QueryAssumption
  <2>3. elapsed' \in 0..MaxWait /\ turn' \in 0..Len(Schedule)
    BY <2>1, <2>2 DEF Shorter
  <2>4. Shape'
    BY <2>3 DEF Shape, TypeOK
  <2>5. Started' /\ Answered' /\ LastPollFinal' /\ RowsFinal' /\ NothingLeftRunning'
    BY DEF Started, Answered, LastPollFinal, RowsFinal, NothingLeftRunning
  <2> QED BY <2>4, <2>5
<1>7. CASE AnswerCancelled
  BY <1>7, StopEffect, DoneInv DEF AnswerCancelled, Answers
<1>8. CASE AnswerCeiling
  <2>1. CASE seen.status \in RunningStatuses
    <3>1. StopBestEffort
      BY <1>8, <2>1 DEF AnswerCeiling, StopBestEffort
    <3>2. PICK a \in {"ceiling", "aws_error"} : Done(a)
      BY <1>8, <2>1 DEF AnswerCeiling
    <3> QED BY <1>8, <3>1, <3>2, StopEffect, DoneInv DEF AnswerCeiling, Answers
  <2>2. CASE seen.status \notin RunningStatuses
    <3>1. seen.status \in Ended
      BY <1>8, <2>2 DEF AnswerCeiling, IInv, Shape, TypeOK, Started, Ended
    <3>2. ~Active
      BY <3>1 DEF IInv, LastPollFinal, Ended, Active, RunningStatuses, EndStatuses
    <3>3. Done("ceiling") /\ UNCHANGED <<query, failed>>
      BY <1>8, <2>2 DEF AnswerCeiling
    <3>4. ~Active'
      BY <3>2, <3>3 DEF Active, query
    <3> QED BY <1>8, <3>3, <3>4, DoneInv DEF AnswerCeiling, Answers, IInv, Shape, TypeOK
  <2> QED BY <2>1, <2>2
<1>9. CASE AnswerRunning
  <2>1. CASE caller = "trace"
    BY <1>9, <2>1, StopEffect, DoneInv DEF AnswerRunning, Answers
  <2>2. CASE caller # "trace"
    BY <1>9, <2>2, DoneInv DEF AnswerRunning, Answers, IInv, Shape, TypeOK
  <2> QED BY <2>1, <2>2
<1>10. CASE AnswerRows
  <2>1. seen.status \in Ended
    BY <1>10 DEF AnswerRows, Ended
  <2>2. ~Active'
    BY <1>10, <2>1 DEF AnswerRows, query, IInv, LastPollFinal, Ended, Active, RunningStatuses,
         EndStatuses
  <2> QED BY <1>10, <2>1, <2>2, DoneInv DEF AnswerRows, Answers, IInv, Shape, TypeOK
<1> QED BY <1>1, <1>2, <1>3, <1>4, <1>5, <1>6, <1>7, <1>8, <1>9, <1>10 DEF Thread

(* The query at AWS: it moves only while it is active. *)
LEMMA RemoteInv == ASSUME IInv, Remote PROVE IInv'
<1> USE DEF IInv, Remote, RemoteRuns, RemoteScans, RemoteEnds, thread, call
<1>1. Active /\ remote' \in RunningStatuses \cup EndStatuses /\ scanned' \in 0..Volume
  BY QueryAssumption DEF Shape, TypeOK, Active, RunningStatuses, EndStatuses
<1>2. Shape'
  BY <1>1 DEF Shape, TypeOK
<1>3. Started' /\ Answered'
  BY <1>1 DEF Started, Answered, Active, RunningStatuses, EndStatuses
<1>4. LastPollFinal' /\ RowsFinal'
  BY <1>1 DEF LastPollFinal, RowsFinal, Ended, Active, RunningStatuses, EndStatuses
<1>5. NothingLeftRunning'
  BY <1>1 DEF NothingLeftRunning
<1> QED BY <1>2, <1>3, <1>4, <1>5

LEMMA StepInv == IInv /\ [Next]_vars => IInv'
<1> SUFFICES ASSUME IInv, [Next]_vars PROVE IInv'
  OBVIOUS
<1>1. CASE Thread
  BY <1>1, ThreadInv
<1>2. CASE SetCancel
  BY <1>2 DEF SetCancel, thread, query, IInv, Shape, TypeOK, Started, Answered, LastPollFinal,
       RowsFinal, NothingLeftRunning, Active
<1>3. CASE Remote
  BY <1>3, RemoteInv
<1>4. CASE UNCHANGED vars
  BY <1>4 DEF vars, thread, query, call, IInv, Shape, TypeOK, Started, Answered, LastPollFinal,
       RowsFinal, NothingLeftRunning, Active
<1> QED BY <1>1, <1>2, <1>3, <1>4 DEF Next, Terminated

LEMMA SpecInv == Spec => []IInv
BY InitInv, StepInv, PTL DEF Spec

-------------------------------------------------------------------------------
(* The state is well formed. *)
THEOREM TypeCorrect == Spec => []TypeOK
<1>1. IInv => TypeOK
  BY DEF IInv, Shape
<1> QED BY <1>1, SpecInv, PTL

(* As long as no call to AWS fails, run_insights_query returns with the    *)
(* query over, or with the query_id of a running one for the caller.       *)
THEOREM NothingLeftRunningHolds == Spec => []NothingLeftRunning
<1>1. IInv => NothingLeftRunning
  BY DEF IInv
<1> QED BY <1>1, SpecInv, PTL

(* Rows are never returned from a query that scanned more than             *)
(* CW_MAX_BYTES_SCANNED.                                                   *)
THEOREM RowsWithinCeilingHolds == Spec => []RowsWithinCeiling
<1>1. IInv => RowsWithinCeiling
  BY DEF IInv, RowsFinal, RowsWithinCeiling
<1> QED BY <1>1, SpecInv, PTL
-------------------------------------------------------------------------------
(* Induction, for a set of numbers. *)
LEMMA LeastElement ==
  ASSUME NEW S \in SUBSET Nat, S # {} PROVE \E x \in S : \A y \in S : ~(y < x)
<1>1. IsWellFoundedOn(OpToRel(<, Nat), Nat)
  BY NatLessThanWellFounded
<1>2. PICK x \in S : \A y \in S : ~(<<y, x>> \in OpToRel(<, Nat))
  BY <1>1, WFMin
<1> QED BY <1>2 DEF OpToRel

LEMMA UpTo ==
  ASSUME NEW n \in Nat, NEW S \in SUBSET Nat, 0 \in S, \A m \in S : m < n => m + 1 \in S
  PROVE  0..n \subseteq S
<1> SUFFICES ASSUME NEW x \in 0..n, x \notin S PROVE FALSE
  OBVIOUS
<1> DEFINE Rest == (0..n) \ S
<1>1. Rest \in SUBSET Nat /\ Rest # {}
  OBVIOUS
<1>2. PICK least \in Rest : \A y \in Rest : ~(y < least)
  <2> HIDE DEF Rest
  <2> QED BY <1>1, LeastElement
<1>3. least \in 0..n /\ least \notin S /\ least # 0
  OBVIOUS
<1>4. least - 1 \in 0..n /\ least - 1 < least
  BY <1>3
<1>5. least - 1 \in S /\ least - 1 < n
  BY <1>2, <1>3, <1>4
<1>6. (least - 1) + 1 \in S
  BY <1>5
<1> QED BY <1>3, <1>6

(* Total is well defined: it satisfies its recursion. *)
LEMMA TotalDefined ==
  Total = [n \in 0..Len(Schedule) |-> IF n = 0 THEN 0 ELSE Total[n - 1] + Schedule[n]]
<1> DEFINE Sums(f, m) == f = [i \in 0..m |-> IF i = 0 THEN 0 ELSE f[i - 1] + Schedule[i]]
           S == {m \in Nat : \E f : Sums(f, m)}
<1>1. 0 \in S
  <2>1. Sums([i \in 0..0 |-> 0], 0)
    OBVIOUS
  <2> QED BY <2>1
<1>2. ASSUME NEW m \in S PROVE m + 1 \in S
  <2>1. PICK f : Sums(f, m)
    OBVIOUS
  <2> DEFINE h == [i \in 0..(m + 1) |-> IF i <= m THEN f[i] ELSE f[m] + Schedule[i]]
  <2>2. Sums(h, m + 1)
    <3>1. ASSUME NEW i \in 0..(m + 1) PROVE h[i] = IF i = 0 THEN 0 ELSE h[i - 1] + Schedule[i]
      BY <2>1
    <3> QED BY <3>1
  <2>3. m + 1 \in Nat
    OBVIOUS
  <2> HIDE DEF Sums, h
  <2> QED BY <2>2, <2>3
<1>3. Len(Schedule) \in Nat
  BY QueryAssumption
<1>4. 0..Len(Schedule) \subseteq S
  <2> HIDE DEF S
  <2>1. S \in SUBSET Nat
    BY DEF S
  <2> QED BY <1>1, <1>2, <1>3, <2>1, UpTo
<1>5. PICK f : Sums(f, Len(Schedule))
  <2> HIDE DEF Sums
  <2> QED BY <1>3, <1>4
<1> QED BY <1>5 DEF Total

LEMMA TotalType == Total \in [0..Len(Schedule) -> Nat]
<1> DEFINE S == {m \in Nat : m <= Len(Schedule) => Total[m] \in Nat}
<1>1. Len(Schedule) \in Nat
  BY QueryAssumption
<1>2. 0 \in S
  BY <1>1, TotalDefined
<1>3. ASSUME NEW m \in S, m < Len(Schedule) PROVE m + 1 \in S
  <2>1. m + 1 \in 1..Len(Schedule)
    BY <1>1, <1>3
  <2>2. Schedule[m + 1] \in Nat
    BY <2>1, QueryAssumption
  <2>3. Total[m + 1] = Total[m] + Schedule[m + 1]
    BY <1>1, <2>1, TotalDefined
  <2> QED BY <1>1, <1>3, <2>2, <2>3
<1>4. 0..Len(Schedule) \subseteq S
  <2> HIDE DEF S
  <2>1. S \in SUBSET Nat
    BY DEF S
  <2> QED BY <1>1, <1>2, <1>3, <2>1, UpTo
<1>5. \A m \in 0..Len(Schedule) : Total[m] \in Nat
  BY <1>1, <1>4
<1> QED BY <1>5, TotalDefined

LEMMA TotalStep ==
  ASSUME NEW n \in 0..Len(Schedule), n < Len(Schedule)
  PROVE  Total[n + 1] = Total[n] + Schedule[n + 1] /\ Schedule[n + 1] \in Nat
<1>1. Len(Schedule) \in Nat
  BY QueryAssumption
<1>2. n + 1 \in 1..Len(Schedule)
  BY <1>1
<1> QED BY <1>1, <1>2, TotalDefined, QueryAssumption

LEMMA TotalGrows ==
  ASSUME NEW n \in 0..Len(Schedule)
  PROVE  Total[n] <= Total[Len(Schedule)]
<1> DEFINE S == {m \in Nat : n <= m /\ m <= Len(Schedule) => Total[n] <= Total[m]}
<1>1. Len(Schedule) \in Nat
  BY QueryAssumption
<1>2. 0 \in S
  BY <1>1, TotalType
<1>3. ASSUME NEW m \in S, m < Len(Schedule) PROVE m + 1 \in S
  <2>1. m \in 0..Len(Schedule)
    BY <1>1, <1>3
  <2>2. Total[m + 1] = Total[m] + Schedule[m + 1] /\ Schedule[m + 1] \in Nat
    BY <1>3, <2>1, TotalStep
  <2>3. Total[m] \in Nat /\ Total[n] \in Nat
    BY <2>1, TotalType
  <2>4. CASE n = m + 1
    BY <2>3, <2>4
  <2>5. CASE n # m + 1
    BY <1>1, <2>1, <2>2, <2>3, <2>5
  <2> QED BY <2>4, <2>5
<1>4. 0..Len(Schedule) \subseteq S
  <2> HIDE DEF S
  <2>1. S \in SUBSET Nat
    BY DEF S
  <2> QED BY <1>1, <1>2, <1>3, <2>1, UpTo
<1>5. Len(Schedule) \in S
  <2> HIDE DEF S
  <2> QED BY <1>1, <1>4
<1> QED BY <1>1, <1>5

-------------------------------------------------------------------------------
(* The time waited is that of the delays used up, as far as the budget     *)
(* goes; and the loop is left, with the query running, only when there is  *)
(* nothing left of the one or of the other.                                *)
BudgetInv ==
  /\ elapsed = Shorter(Total[turn], MaxWait)
  /\ pc = "judge" /\ seen.status \in RunningStatuses =>
       turn = Len(Schedule) \/ elapsed = MaxWait
  /\ PollsWholeBudget

LEMMA WaitedInFull ==
  ASSUME TypeOK, BudgetInv, pc = "judge", seen.status \in RunningStatuses
  PROVE  elapsed = Shorter(Total[Len(Schedule)], MaxWait)
<1>1. CASE turn = Len(Schedule)
  BY <1>1 DEF BudgetInv
<1>2. CASE elapsed = MaxWait
  <2>1. /\ turn \in 0..Len(Schedule) /\ Len(Schedule) \in 0..Len(Schedule)
        /\ Total[turn] \in Nat /\ Total[Len(Schedule)] \in Nat /\ MaxWait \in Nat
    BY TotalType, QueryAssumption DEF TypeOK
  <2>2. Total[turn] <= Total[Len(Schedule)]
    BY <2>1, TotalGrows
  <2>3. MaxWait <= Total[turn]
    BY <1>2, <2>1 DEF BudgetInv, Shorter
  <2> QED BY <1>2, <2>1, <2>2, <2>3 DEF Shorter
<1> QED BY <1>1, <1>2 DEF BudgetInv

(* A step that leaves the clock alone and gives no such answer, or only    *)
(* after the whole budget.                                                 *)
LEMMA BudgetKept ==
  ASSUME BudgetInv, UNCHANGED <<turn, elapsed>>,
         pc' = "judge" /\ seen'.status \in RunningStatuses =>
           turn = Len(Schedule) \/ elapsed = MaxWait,
         \/ answer' = answer
         \/ answer' \notin {"Running", "Stopped"}
         \/ elapsed = Shorter(Total[Len(Schedule)], MaxWait)
  PROVE  BudgetInv'
<1>1. Total' = Total
  BY DEF Total
<1> QED BY <1>1 DEF BudgetInv, PollsWholeBudget, Shorter

LEMMA BudgetStep == IInv /\ BudgetInv /\ [Next]_vars => BudgetInv'
<1> SUFFICES ASSUME IInv, BudgetInv, [Next]_vars PROVE BudgetInv'
  OBVIOUS
<1>1. /\ TypeOK /\ Shape /\ Len(Schedule) \in Nat
      /\ pc = "judge" /\ seen.status \in RunningStatuses =>
           turn = Len(Schedule) \/ elapsed = MaxWait
  BY QueryAssumption DEF IInv, Shape, BudgetInv
<1>2. CASE NeverStarts \/ Refuse \/ StartQuery \/ StartFails \/ PollFails
  BY <1>2, BudgetKept DEF NeverStarts, Refuse, StartQuery, StartFails, PollFails, Done
<1>3. CASE PollCancelled
  BY <1>3, BudgetKept DEF PollCancelled, Polled, GoesOn, RunningStatuses
<1>4. CASE PollResults
  <2>1. pc' = "judge" /\ seen'.status \in RunningStatuses => turn >= Len(Schedule) \/ elapsed >= MaxWait
    BY <1>1, <1>4, QueryAssumption DEF PollResults, Polled, GoesOn, TypeOK
  <2>2. pc' = "judge" /\ seen'.status \in RunningStatuses => turn = Len(Schedule) \/ elapsed = MaxWait
    BY <1>1, <2>1, QueryAssumption DEF TypeOK
  <2> QED BY <1>4, <2>2, BudgetKept DEF PollResults, Polled
<1>5. CASE Sleep
  <2>1. /\ turn \in 0..Len(Schedule) /\ turn < Len(Schedule) /\ elapsed < MaxWait
        /\ elapsed \in Nat /\ MaxWait \in Nat
    BY <1>1, <1>5, QueryAssumption DEF Sleep, Shape, TypeOK
  <2>2. Total[turn + 1] = Total[turn] + Schedule[turn + 1] /\ Schedule[turn + 1] \in Nat
    BY <2>1, TotalStep
  <2>3. Total[turn] \in Nat
    BY <2>1, TotalType
  <2>4. elapsed = Total[turn]
    BY <2>1, <2>3 DEF BudgetInv, Shorter
  <2>5. elapsed' = Shorter(Total[turn + 1], MaxWait)
    BY <1>5, <2>1, <2>2, <2>3, <2>4 DEF Sleep, Shorter
  <2>6. turn' = turn + 1 /\ pc' = "poll" /\ answer' = answer
    BY <1>5 DEF Sleep
  <2>7. answer = "none"
    BY <1>5 DEF Sleep, IInv, Answered
  <2> QED BY <2>5, <2>6, <2>7 DEF BudgetInv, PollsWholeBudget
<1>6. CASE AnswerCancelled \/ AnswerCeiling \/ AnswerRows
  BY <1>6, BudgetKept DEF AnswerCancelled, AnswerCeiling, AnswerRows, Done
<1>7. CASE AnswerRunning
  <2>1. elapsed = Shorter(Total[Len(Schedule)], MaxWait)
    BY <1>1, <1>7, WaitedInFull DEF AnswerRunning
  <2> QED BY <1>7, <2>1, BudgetKept DEF AnswerRunning, Done
<1>8. CASE SetCancel \/ Remote
  BY <1>1, <1>8, BudgetKept DEF SetCancel, Remote, RemoteRuns, RemoteScans, RemoteEnds, thread
<1>9. CASE UNCHANGED vars
  BY <1>1, <1>9, BudgetKept DEF vars, thread
<1> QED BY <1>2, <1>3, <1>4, <1>5, <1>6, <1>7, <1>8, <1>9 DEF Next, Thread, Terminated

(* Polling does not give up on a running query before CW_POLL_MAX_WAIT_S,  *)
(* or before the end of BACKOFF_SCHEDULE if that is shorter, and waits no  *)
(* longer, whatever the schedule.                                          *)
THEOREM PollsWholeBudgetHolds == Spec => []PollsWholeBudget
<1>1. Init => BudgetInv
  <2>1. 0 \in 0..Len(Schedule)
    BY QueryAssumption
  <2>2. Total[0] = 0
    BY <2>1, TotalDefined
  <2> QED BY <2>2, QueryAssumption DEF Init, BudgetInv, PollsWholeBudget, Shorter
<1>2. BudgetInv => PollsWholeBudget
  BY DEF BudgetInv
<1> QED BY <1>1, <1>2, BudgetStep, SpecInv, PTL DEF Spec
===============================================================================
