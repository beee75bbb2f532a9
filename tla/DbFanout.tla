------------------------------- MODULE DbFanout -------------------------------
(***************************************************************************)
(* What a db_* call does with the connection pool once it holds a query    *)
(* slot (integrations/database/introspect.py).                             *)
(*                                                                         *)
(* A call runs its plan: a sequence of gathers, each of some jobs that     *)
(* borrow one pooled connection apiece, at most `limit` of them at a time. *)
(* search_by_identifier gathers its two catalog lookups, then awaits the   *)
(* time columns, then probes the target tables SEARCH_FANOUT_CONCURRENCY   *)
(* at a time; resolve_store has one lookup before its probes; the other    *)
(* tools are one job.  A read of a schema:// resource runs the same        *)
(* catalog code without a slot.                                            *)
(*                                                                         *)
(* The hard part is how a gather ends.  When one job fails, the await      *)
(* raises at once: the call gives its slot back and answers while the      *)
(* other jobs of the gather go on, and the queued ones still start.  When  *)
(* the client cancels, every job is cancelled, but the call gives its slot *)
(* back when the first of them is gone: the others may still be returning  *)
(* their connections.                                                      *)
(*                                                                         *)
(* The jobs of a gather are counted, not named.  Admission is the          *)
(* abstract one: QuerySlots implements it.                                 *)
(***************************************************************************)
EXTENDS Naturals, Sequences, FiniteSets

CONSTANTS
  Calls,   \* db_* tool calls, each made once
  Reads,   \* reads of schema:// resources, each made once
  Slots,   \* DB_MAX_CONCURRENT_QUERIES
  Pool,    \* connections the SQLAlchemy pool opens at most
  Plan,    \* the gathers of each task: <<[jobs, limit, cached], ...>>
  Faulty,  \* the tasks whose queries may fail
  Hasty    \* the tasks whose client may cancel them

Tasks == Calls \cup Reads

Gather == [jobs : Nat, limit : Nat \ {0}, cached : BOOLEAN]

ASSUME FanoutAssumption ==
  /\ IsFiniteSet(Tasks) /\ Calls \cap Reads = {}
  /\ Slots \in Nat /\ Pool \in Nat
  /\ Plan \in [Tasks -> Seq(Gather)]
  /\ \A t \in Tasks : Len(Plan[t]) > 0
  /\ Faulty \subseteq Tasks /\ Hasty \subseteq Tasks

VARIABLES
  stage,  \* of a call: the slot it waits for or holds
  fate,   \* of a task: one of Fates
  at,     \* the gather of its plan a task is in
  work    \* how many of its jobs are where

vars == <<stage, fate, at, work>>

Admission == INSTANCE BoundedAdmission WITH Callers <- Calls

-------------------------------------------------------------------------------
Places == {"queued", "waiting", "using", "closing"}

(* "cancelling": every job is cancelled and none is gone yet.  "cancelled":*)
(* one is gone.  "failed": a job raised.  "ended": over in any other way.  *)
Fates == {"new", "live", "cancelling", "cancelled", "failed", "ended"}

NoWork == [p \in Places |-> 0]

Here(t) == Plan[t][at[t]]

(* The jobs inside `async with slots` of _gather_bounded. *)
Active(t) == work[t]["waiting"] + work[t]["using"] + work[t]["closing"]

Idle(t) == work[t] = NoWork

(* The connections out of the pool, numbered task by task. *)
Connections ==
  UNION {{t} \X (1..(work[t]["using"] + work[t]["closing"])) : t \in Tasks}

InUse == Cardinality(Connections)

Shift(t, from, to) ==
  /\ work[t][from] > 0
  /\ work' = [work EXCEPT ![t][from] = @ - 1, ![t][to] = @ + 1]

(* Mutant of Drop: the last job of a place is counted twice. *)
DropPastZero(t, from) == work' = [work EXCEPT ![t][from] = @ - 1]

Drop(t, from) ==
  /\ work[t][from] > 0
  /\ work' = [work EXCEPT ![t][from] = @ - 1]

(* The k-th gather of t creates its jobs. *)
StartGather(t, k) ==
  /\ at' = [at EXCEPT ![t] = k]
  /\ work' = [work EXCEPT ![t] = [NoWork EXCEPT !["queued"] = Plan[t][k].jobs]]

(* A call gives its slot back; a resource read has none. *)
FreeSlot(t) == IF t \in Calls THEN Admission!Leave(t) ELSE UNCHANGED stage

(* Mutant of Fail: the failed call keeps its slot. *)
FailKeepsSlot(t) ==
  /\ fate' = [fate EXCEPT ![t] = IF @ = "live" THEN "failed" ELSE @]
  /\ UNCHANGED stage

(* A job raised.  The first one ends the task, later ones are dropped by   *)
(* the gather.                                                             *)
Fail(t) ==
  IF fate[t] = "live"
  THEN fate' = [fate EXCEPT ![t] = "failed"] /\ FreeSlot(t)
  ELSE UNCHANGED <<fate, stage>>
-------------------------------------------------------------------------------
Init ==
  /\ Admission!Init
  /\ fate = [t \in Tasks |-> "new"]
  /\ at = [t \in Tasks |-> 1]
  /\ work = [t \in Tasks |-> NoWork]

WaitForSlot(c) == Admission!Wait(c) /\ UNCHANGED <<fate, at, work>>

TurnAway(c) ==
  /\ Admission!TurnAway(c)
  /\ fate' = [fate EXCEPT ![c] = "ended"]
  /\ UNCHANGED <<at, work>>

EnterSlot(c) ==
  /\ Admission!Enter(c)
  /\ fate' = [fate EXCEPT ![c] = "live"]
  /\ StartGather(c, 1)

BeginRead(r) ==
  /\ fate[r] = "new"
  /\ fate' = [fate EXCEPT ![r] = "live"]
  /\ StartGather(r, 1)
  /\ UNCHANGED stage

(* Mutants of BeginJob: the inner semaphore lets in one too many, or all;  *)
(* a job starts only while its call still wants it.                        *)
BeginOneTooMany(t) ==
  /\ Active(t) <= Here(t).limit
  /\ Shift(t, "queued", "waiting")
  /\ UNCHANGED <<stage, fate, at>>

BeginWhileLive(t) ==
  /\ fate[t] = "live"
  /\ Active(t) < Here(t).limit
  /\ Shift(t, "queued", "waiting")
  /\ UNCHANGED <<stage, fate, at>>

(* The inner semaphore lets a job in; it asks the pool for a connection. *)
BeginJob(t) ==
  /\ Active(t) < Here(t).limit
  /\ Shift(t, "queued", "waiting")
  /\ UNCHANGED <<stage, fate, at>>

(* A catalog lookup finds its answer in the TTL cache. *)
CacheHit(t) ==
  /\ Here(t).cached
  /\ Active(t) < Here(t).limit
  /\ Drop(t, "queued")
  /\ UNCHANGED <<stage, fate, at>>

Connect(t) ==
  /\ InUse < Pool
  /\ Shift(t, "waiting", "using")
  /\ UNCHANGED <<stage, fate, at>>

(* The pool has had no connection for it during pool_timeout. *)
PoolTimeout(t) ==
  /\ InUse = Pool
  /\ Drop(t, "waiting")
  /\ Fail(t)
  /\ UNCHANGED at

(* The job ends with rows, or with a DataError that only skips its target. *)
JobDone(t) == Drop(t, "using") /\ UNCHANGED <<stage, fate, at>>

(* Any other SQLAlchemyError leaves the job. *)
JobFails(t) ==
  /\ t \in Faulty
  /\ Drop(t, "using")
  /\ Fail(t)
  /\ UNCHANGED at

NextGather(t) ==
  /\ fate[t] = "live" /\ Idle(t)
  /\ at[t] < Len(Plan[t])
  /\ StartGather(t, at[t] + 1)
  /\ UNCHANGED <<stage, fate>>

(* Mutant of Return: the call does not wait for its last jobs. *)
ReturnEarly(t) ==
  /\ fate[t] = "live"
  /\ at[t] = Len(Plan[t])
  /\ fate' = [fate EXCEPT ![t] = "ended"]
  /\ FreeSlot(t)
  /\ UNCHANGED <<at, work>>

(* The plan is done, or the first gather, of catalog lookups, named no     *)
(* table to search.                                                        *)
Return(t) ==
  /\ fate[t] = "live" /\ Idle(t)
  /\ at[t] \in {1, Len(Plan[t])}
  /\ fate' = [fate EXCEPT ![t] = "ended"]
  /\ FreeSlot(t)
  /\ UNCHANGED <<at, work>>

(* The client cancels: every job of the gather is cancelled.  Those that   *)
(* have no connection are gone, the others give theirs back first.         *)
Cancel(t) ==
  /\ t \in Hasty
  /\ fate[t] = "live"
  /\ fate' = [fate EXCEPT ![t] =
       IF work[t]["using"] > 0 /\ work[t]["queued"] + work[t]["waiting"] = 0
       THEN "cancelling" ELSE "cancelled"]
  /\ work' = [work EXCEPT ![t] =
       [NoWork EXCEPT !["closing"] = work[t]["using"]]]
  /\ UNCHANGED <<stage, at>>

JobClosed(t) ==
  /\ Drop(t, "closing")
  /\ fate' = [fate EXCEPT ![t] = IF @ = "cancelling" THEN "cancelled" ELSE @]
  /\ UNCHANGED <<stage, at>>

(* The first job that is gone ends the gather, and with it the call. *)
EndCancelled(t) ==
  /\ fate[t] = "cancelled"
  /\ fate' = [fate EXCEPT ![t] = "ended"]
  /\ FreeSlot(t)
  /\ UNCHANGED <<at, work>>

JobStep(t) ==
  BeginJob(t) \/ CacheHit(t) \/ Connect(t) \/ JobDone(t) \/ JobFails(t) \/ JobClosed(t)

TaskStep(t) == NextGather(t) \/ Return(t) \/ EndCancelled(t)

(* Every task is over: nothing more happens. *)
Terminated ==
  /\ \A t \in Tasks : fate[t] \in {"failed", "ended"} /\ Idle(t)
  /\ UNCHANGED vars

Next ==
  \/ \E c \in Calls : WaitForSlot(c) \/ TurnAway(c) \/ EnterSlot(c)
  \/ \E r \in Reads : BeginRead(r)
  \/ \E t \in Tasks : JobStep(t) \/ PoolTimeout(t) \/ TaskStep(t) \/ Cancel(t)
  \/ Terminated

(* Queries end (statement_timeout), a connection that comes back goes to a *)
(* job that waits, and the loop runs every task that can run.  The pool's  *)
(* own timeout is not needed.                                              *)
Fairness == \A t \in Tasks : WF_vars(JobStep(t)) /\ WF_vars(TaskStep(t))

Spec == Init /\ [][Next]_vars
FairSpec == Spec /\ Fairness
-------------------------------------------------------------------------------
(* The state is well formed. *)
TypeOK ==
  /\ stage \in [Calls -> Admission!Stages]
  /\ fate \in [Tasks -> Fates]
  /\ at \in [Tasks -> Nat] /\ \A t \in Tasks : at[t] \in DOMAIN Plan[t]
  /\ work \in [Tasks -> [Places -> Nat]]

(* "so one call can't hold more than this many pooled connections at once" *)
(* (integrations/database/constants.py:89): however its gather ends, and   *)
(* also after the call has answered, one call never has more connections,  *)
(* out or asked for, than the limit of the gather it is in.                *)
ConnectionsPerCall == \A t \in Tasks : Active(t) <= Here(t).limit

(* A call that returned or was cancelled leaves nothing running behind but *)
(* connections on their way back to the pool.                              *)
EndsClean == \A t \in Tasks :
  fate[t] = "ended" => \A p \in Places \ {"closing"} : work[t][p] = 0

(* "so a burst of calls fails fast with `server_busy` instead of queueing  *)
(* on the connection pool" (service/database_service.py:52): no job waits  *)
(* for a connection of an exhausted pool.                                  *)
NoPoolQueueing == \A t \in Tasks : work[t]["waiting"] > 0 => InUse < Pool

(* The same, as long as no call that is over left jobs behind: slots times *)
(* fan-out and the resource reads bound the demand on the pool.            *)
BurstStaysOffPool ==
  (\A t \in Tasks : fate[t] \in {"failed", "ended"} => Idle(t)) => NoPoolQueueing

(* The sizes the settings choose: no gather of a call runs more than fan   *)
(* jobs at a time, none of a resource read more than one, and the pool has *)
(* a connection for each job of each slot and one for each read.           *)
PoolSized(fan) ==
  /\ \A c \in Calls : \A k \in DOMAIN Plan[c] : Plan[c][k].limit <= fan
  /\ \A r \in Reads : \A k \in DOMAIN Plan[r] : Plan[r][k].limit <= 1
  /\ Slots * fan + Cardinality(Reads) <= Pool

(* Jobs that wait for connections never wait on each other: a call that    *)
(* holds a slot answers and frees it, with a pool of any size.             *)
SlotComesBack == \A c \in Calls : stage[c] = "inside" ~> stage[c] = "answered"

(* The probes a failed call left behind come to an end, queued ones too.   *)
OrphansDrain == \A t \in Tasks : fate[t] = "failed" ~> Idle(t)
===============================================================================
