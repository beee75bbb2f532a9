------------------------------ MODULE QuerySlots ------------------------------
(***************************************************************************)
(* DatabaseService._query_slot: the asyncio.Semaphore every db_* tool call *)
(* passes before it touches the database, the wait_for that turns a long   *)
(* wait into `server_busy`, and the finally that gives the slot back.      *)
(*                                                                         *)
(* The service runs on one event loop: a task runs undisturbed between two *)
(* awaits, so each action below is one such stretch of one task, or one    *)
(* timer or cancellation callback of the loop.  What makes it hard is the  *)
(* gap between a future being resolved (a slot handed over, a timer gone   *)
(* off) and the task that awaits it running again.                         *)
(*                                                                         *)
(* DB_QUEUE_TIMEOUT_S may also be 0: wait_for then cancels acquire before  *)
(* its first step.                                                         *)
(*                                                                         *)
(* The deque of the semaphore is the set Waiters, ordered by `ahead`:      *)
(* ahead[c] are the calls in the deque before c.                           *)
(***************************************************************************)
EXTENDS Naturals, FiniteSets

CONSTANTS
  Callers,       \* the tool calls; a caller calls again after its answer
  Slots          \* DB_MAX_CONCURRENT_QUERIES

ASSUME SlotsAssumption ==
  /\ IsFiniteSet(Callers)
  /\ Slots \in Nat

VARIABLES
  pc,     \* where the task of each call is
  value,  \* Semaphore._value
  cause,  \* why an acquire was cancelled: "none", "timeout" or "cancelled"
  ahead,  \* the order of Semaphore._waiters
  impatient  \* DB_QUEUE_TIMEOUT_S is not positive

vars == <<pc, value, cause, ahead, impatient>>

-------------------------------------------------------------------------------
(* How a call ends: refused by the SQL guardrail, refused by the queue,    *)
(* cancelled by the client, or with what its body returned or raised.      *)
Answers == {"guardrail", "server_busy", "cancelled", "ok", "error", "raised"}

(* How the `async with self._query_slot()` body can end: normally, with a  *)
(* ToolError or SQLAlchemyError, with any other exception, or cancelled.   *)
BodyOutcomes == {"ok", "error", "raised", "cancelled"}

(* "pending": its future is in the deque, unresolved.  "granted": release  *)
(* resolved it, the task has not run yet.  "expired": its timer or its     *)
(* client cancelled the future.  "revoked": cancelled after the grant.     *)
InDeque == {"pending", "granted", "expired", "revoked"}

States == {"idle", "running"} \cup InDeque \cup Answers

PendingIn(p) == {c \in Callers : p[c] = "pending"}
HoldersIn(p) == {c \in Callers : p[c] \in {"running", "granted", "revoked"}}

Waiters == {c \in Callers : pc[c] \in InDeque}
Pending == PendingIn(pc)
Holders == HoldersIn(pc)

(* Semaphore.locked: futures that were cancelled do not count. *)
Locked == value = 0 \/ \E c \in Waiters : pc[c] # "expired"

Min2(a, b) == IF a <= b THEN a ELSE b

(* Mutants of WakeAll: the task that gives a slot back wakes nobody, or    *)
(* whomever it likes.                                                      *)
WakeNobody(p, free) == pc' = p /\ value' = free

WakeInAnyOrder(p, free) ==
  \E W \in SUBSET PendingIn(p) :
    /\ Cardinality(W) = Min2(free, Cardinality(PendingIn(p)))
    /\ pc' = [c \in Callers |-> IF c \in W THEN "granted" ELSE p[c]]
    /\ value' = free - Cardinality(W)

(* Semaphore._wake_up_next in a loop: grant slots, oldest pending first,   *)
(* while free permits last.  p is pc after the task that wakes has moved,  *)
(* free the permits it sees.                                               *)
WakeAll(p, free) ==
  \E W \in SUBSET PendingIn(p) :
    /\ Cardinality(W) = Min2(free, Cardinality(PendingIn(p)))
    /\ \A c \in W, d \in PendingIn(p) \ W : c \in ahead[d]
    /\ pc' = [c \in Callers |-> IF c \in W THEN "granted" ELSE p[c]]
    /\ value' = free - Cardinality(W)

(* Semaphore.release: one permit back, and one waiter woken if there is    *)
(* one.                                                                    *)
Release(p) ==
  \/ /\ PendingIn(p) = {}
     /\ pc' = p
     /\ value' = value + 1
  \/ \E d \in PendingIn(p) :
       /\ ahead[d] \cap PendingIn(p) = {}
       /\ pc' = [p EXCEPT ![d] = "granted"]
       /\ UNCHANGED value

(* deque.remove *)
LeaveDeque(c) == ahead' = [d \in Callers |-> IF d = c THEN {} ELSE ahead[d] \ {c}]
-------------------------------------------------------------------------------
Init ==
  /\ pc = [c \in Callers |-> "idle"]
  /\ value = Slots
  /\ cause = [c \in Callers |-> "none"]
  /\ ahead = [c \in Callers |-> {}]
  /\ impatient \in BOOLEAN

(* explain_query and run_query validate the SQL before asking for a slot;  *)
(* a call that fails there never reaches the semaphore.                    *)
RejectSql(c) ==
  /\ pc[c] = "idle"
  /\ pc' = [pc EXCEPT ![c] = "guardrail"]
  /\ UNCHANGED <<value, cause, ahead, impatient>>

(* The timeout is 0: acquire never runs, whatever is free. *)
RefuseAtOnce(c) ==
  /\ pc[c] = "idle" /\ impatient
  /\ \E out \in {"server_busy", "cancelled"} : pc' = [pc EXCEPT ![c] = out]
  /\ UNCHANGED <<value, cause, ahead, impatient>>

(* acquire finds the semaphore unlocked. *)
AcquireNow(c) ==
  /\ pc[c] = "idle" /\ ~impatient
  /\ ~Locked
  /\ pc' = [pc EXCEPT ![c] = "running"]
  /\ value' = value - 1
  /\ UNCHANGED <<cause, ahead, impatient>>

(* acquire finds it locked and appends a future to the deque. *)
Enqueue(c) ==
  /\ pc[c] = "idle" /\ ~impatient
  /\ Locked
  /\ pc' = [pc EXCEPT ![c] = "pending"]
  /\ ahead' = [ahead EXCEPT ![c] = Waiters]
  /\ UNCHANGED <<value, cause, impatient>>

(* The wait_for timer goes off, or the client cancels the call, while the  *)
(* task waits in acquire: an unresolved future is cancelled, after a grant *)
(* the task is only marked.  If both happen, the client's cancellation is  *)
(* what the task sees.                                                     *)
Interrupt(c, why) ==
  /\ \/ pc[c] \in {"pending", "granted"}
     \/ pc[c] \in {"expired", "revoked"} /\ cause[c] = "timeout" /\ why = "cancelled"
  /\ pc' = [pc EXCEPT ![c] = IF @ = "pending" THEN "expired"
                             ELSE IF @ = "granted" THEN "revoked" ELSE @]
  /\ cause' = [cause EXCEPT ![c] = why]
  /\ UNCHANGED <<value, ahead, impatient>>

(* Mutant of TimeOut: the timer is only looked at once a slot is there. *)
TimeOutAfterGrant(c) == pc[c] = "granted" /\ Interrupt(c, "timeout")

TimeOut(c) == Interrupt(c, "timeout")
CancelWait(c) == Interrupt(c, "cancelled")

(* The task runs again with its slot. *)
ResumeGranted(c) ==
  /\ pc[c] = "granted"
  /\ WakeAll([pc EXCEPT ![c] = "running"], value)
  /\ LeaveDeque(c)
  /\ UNCHANGED <<cause, impatient>>

(* Mutants of ResumeInterrupted: a call that was interrupted always, or    *)
(* never, gives a permit back.                                             *)
ResumeWith(c, back) ==
  /\ pc[c] \in {"expired", "revoked"}
  /\ WakeAll([pc EXCEPT ![c] = IF cause[c] = "timeout" THEN "server_busy" ELSE "cancelled"],
             value + back)
  /\ LeaveDeque(c)
  /\ cause' = [cause EXCEPT ![c] = "none"]
  /\ UNCHANGED impatient

ResumeAlwaysGivesBack(c) == ResumeWith(c, 1)
ResumeNeverGivesBack(c) == ResumeWith(c, 0)

(* The task runs again without one: a slot granted meanwhile goes back.    *)
ResumeInterrupted(c) ==
  /\ pc[c] \in {"expired", "revoked"}
  /\ WakeAll([pc EXCEPT ![c] = IF cause[c] = "timeout" THEN "server_busy" ELSE "cancelled"],
             IF pc[c] = "revoked" THEN value + 1 ELSE value)
  /\ LeaveDeque(c)
  /\ cause' = [cause EXCEPT ![c] = "none"]
  /\ UNCHANGED impatient

(* Mutant of Finish: no finally, so only a normal end releases the slot. *)
FinishWithoutFinally(c) ==
  /\ pc[c] = "running"
  /\ \/ Release([pc EXCEPT ![c] = "ok"])
     \/ \E out \in BodyOutcomes \ {"ok"} :
          pc' = [pc EXCEPT ![c] = out] /\ UNCHANGED value
  /\ UNCHANGED <<cause, ahead, impatient>>

(* The body ends, in whatever way; the finally releases the slot.          *)
Finish(c) ==
  /\ pc[c] = "running"
  /\ \E out \in BodyOutcomes : Release([pc EXCEPT ![c] = out])
  /\ UNCHANGED <<cause, ahead, impatient>>

(* The caller has its answer. *)
CallAgain(c) ==
  /\ pc[c] \in Answers
  /\ pc' = [pc EXCEPT ![c] = "idle"]
  /\ UNCHANGED <<value, cause, ahead, impatient>>

Step(c) ==
  \/ RejectSql(c)
  \/ RefuseAtOnce(c)
  \/ AcquireNow(c)
  \/ Enqueue(c)
  \/ TimeOut(c)
  \/ CancelWait(c)
  \/ ResumeGranted(c)
  \/ ResumeInterrupted(c)
  \/ Finish(c)
  \/ CallAgain(c)

Next == \E c \in Callers : Step(c)

(* The loop runs every ready task and every due timer.  Nothing is assumed *)
(* of the queries: a body may never end, a caller may never call again.    *)
Fairness == \A c \in Callers :
  /\ WF_vars(TimeOut(c))
  /\ WF_vars(ResumeGranted(c))
  /\ WF_vars(ResumeInterrupted(c))

Spec == Init /\ [][Next]_vars
FairSpec == Spec /\ Fairness
-------------------------------------------------------------------------------
(* The state is well formed. *)
TypeOK ==
  /\ pc \in [Callers -> States]
  /\ value \in 0..Slots
  /\ cause \in [Callers -> {"none", "timeout", "cancelled"}]
  /\ ahead \in [Callers -> SUBSET Callers]
  /\ impatient \in BOOLEAN

(* No permit of the semaphore is ever lost or made twice: the free ones,   *)
(* those in use by a query, and those handed to a task that has not run    *)
(* yet (or was cancelled since) add up to DB_MAX_CONCURRENT_QUERIES.  A    *)
(* leak would shrink the service for good, a double release would let in   *)
(* more queries than the pool has room for.                                *)
PermitsConserved == value + Cardinality(Holders) = Slots

(* A free permit is never left beside a waiting call with nobody due to    *)
(* hand it over: some task of the deque is about to run and wake it.       *)
NoLostWakeup == value > 0 /\ Pending # {} => Waiters # Pending

(* A slot never goes to a call while an older one still waits for it, not  *)
(* even when a slot is released, or a new call arrives, between a grant    *)
(* and the run of the task it was made to.                                 *)
FirstComeFirstServed ==
  [][\A c \in Callers : pc[c] # "running" /\ pc'[c] = "running" =>
       IF pc[c] = "idle" THEN Pending = {} ELSE ahead[c] \cap Pending = {}]_vars

(* "DB tool calls running at once (per server process).  Further calls     *)
(* wait up to db_queue_timeout_s, then fail with `server_busy`"            *)
(* (core/config.py:32): only further calls.  A call that arrives when no   *)
(* other is in the service is let in, whatever happened before, unless     *)
(* the timeout is 0: then it is refused, idle as the service is.           *)
IdleServiceAdmits ==
  [][\A c \in Callers :
       /\ Slots > 0
       /\ pc[c] = "idle"
       /\ pc'[c] \notin {"idle", "guardrail"}
       /\ \A d \in Callers \ {c} : pc[d] \in Answers \cup {"idle"}
       => (pc'[c] = "running" <=> ~impatient)]_vars

(* A queued call always gets a slot or an answer, even if the queries that *)
(* hold the slots never end.                                               *)
EveryWaiterAnswered == \A c \in Callers :
  pc[c] = "pending" ~> pc[c] \in Answers \cup {"running"}

(* To the callers the semaphore, its deque and its timers are one bounded  *)
(* admission: a permit granted to a task that has not run is not in use.   *)
StageOf(s) == IF s \in InDeque THEN "waiting"
              ELSE IF s = "running" THEN "inside"
              ELSE IF s \in Answers THEN "answered" ELSE "idle"

Stage == [c \in Callers |-> StageOf(pc[c])]

Admission == INSTANCE BoundedAdmission WITH stage <- Stage

(* QuerySlots implements BoundedAdmission. *)
RefinesAdmission == Admission!Spec
===============================================================================
