---------------------------- MODULE DbFanoutProofs ----------------------------
(***************************************************************************)
(* Proofs about DbFanout, for any calls, resource reads and plans, and     *)
(* any number of slots and connections.                                    *)
(***************************************************************************)
EXTENDS DbFanout, FiniteSetTheorems, TLAPS

(* Between its creation and its end a task is in one gather; when it is    *)
(* "cancelling" it has a connection to give back, and unless it was        *)
(* cancelled none is being given back.                                     *)
WorkMatchesFate == \A t \in Tasks :
  /\ fate[t] = "new" => Idle(t)
  /\ fate[t] \in {"cancelling", "cancelled", "ended"} =>
       work[t]["queued"] = 0 /\ work[t]["waiting"] = 0 /\ work[t]["using"] = 0

(* A call holds its query slot exactly while its task is awaited: a        *)
(* failure or a cancellation gives the slot back once, and nothing else    *)
(* does.                                                                   *)
SlotMatchesFate == \A c \in Calls :
  stage[c] = "inside" <=> fate[c] \in {"live", "cancelling", "cancelled"}

(* A call that has not entered has not begun. *)
NewMatchesStage == \A c \in Calls : stage[c] \in {"idle", "waiting"} <=> fate[c] = "new"

IInv == TypeOK /\ WorkMatchesFate /\ NewMatchesStage /\ SlotMatchesFate /\ ConnectionsPerCall

Works == [Tasks -> [Places -> Nat]]

(* The two ways work changes by one job. *)
LEMMA ShiftEffect ==
  ASSUME work \in Works, NEW t \in Tasks, NEW from \in Places, NEW to \in Places \ {from},
         Shift(t, from, to)
  PROVE  /\ work' \in Works
         /\ work[t][from] > 0
         /\ work'[t][from] = work[t][from] - 1
         /\ work'[t][to] = work[t][to] + 1
         /\ \A p \in Places \ {from, to} : work'[t][p] = work[t][p]
         /\ \A u \in Tasks \ {t} : work'[u] = work[u]
BY DEF Shift, Works

LEMMA DropEffect ==
  ASSUME work \in Works, NEW t \in Tasks, NEW from \in Places, Drop(t, from)
  PROVE  /\ work' \in Works
         /\ work[t][from] > 0
         /\ work'[t][from] = work[t][from] - 1
         /\ \A p \in Places \ {from} : work'[t][p] = work[t][p]
         /\ \A u \in Tasks \ {t} : work'[u] = work[u]
BY DEF Drop, Works

LEMMA NewWork ==
  ASSUME NEW n \in Nat
  PROVE  /\ NoWork \in [Places -> Nat]
         /\ \A p \in Places : NoWork[p] = 0
         /\ \A q \in Places : [NoWork EXCEPT ![q] = n] \in [Places -> Nat]
         /\ \A q \in Places : [NoWork EXCEPT ![q] = n][q] = n
         /\ \A q \in Places : \A p \in Places \ {q} : [NoWork EXCEPT ![q] = n][p] = 0
BY DEF NoWork

(* Every gather of a plan has a number of jobs and a limit. *)
LEMMA PlanIsGathers ==
  ASSUME NEW t \in Tasks, NEW k \in DOMAIN Plan[t]
  PROVE  /\ Plan[t][k].jobs \in Nat
         /\ Plan[t][k].limit \in Nat
         /\ 1 \in DOMAIN Plan[t]
         /\ k \in Nat /\ k <= Len(Plan[t])
         /\ k < Len(Plan[t]) => k + 1 \in DOMAIN Plan[t]
<1>1. Plan[t] \in Seq(Gather) /\ Len(Plan[t]) > 0
  BY FanoutAssumption
<1>2. Plan[t][k] \in Gather /\ DOMAIN Plan[t] = 1..Len(Plan[t]) /\ Len(Plan[t]) \in Nat
  BY <1>1
<1> QED BY <1>1, <1>2 DEF Gather

(* A step of one task that keeps its gather and does not make it more      *)
(* active keeps every task within its limit.                               *)
LEMMA LimitKept ==
  ASSUME ConnectionsPerCall, work \in Works, work' \in Works,
         at \in [Tasks -> Nat], UNCHANGED at,
         \A u \in Tasks : at[u] \in DOMAIN Plan[u],
         NEW t \in Tasks,
         \A u \in Tasks \ {t} : work'[u] = work[u],
         Active(t)' <= Active(t)
  PROVE  ConnectionsPerCall'
<1> SUFFICES ASSUME NEW u \in Tasks PROVE Active(u)' <= Here(u)'.limit
  BY DEF ConnectionsPerCall
<1>1. Active(u) <= Here(u).limit /\ Here(u)' = Here(u)
  BY DEF ConnectionsPerCall, Here
<1>2. Active(u) \in Nat /\ Active(u)' \in Nat
  BY DEF Active, Works, Places
<1>3. Here(u).limit \in Nat
  BY PlanIsGathers DEF Here
<1>4. CASE u = t
  BY <1>1, <1>2, <1>3, <1>4
<1>5. CASE u # t
  <2>1. Active(u)' = Active(u)
    BY <1>5 DEF Active
  <2> QED BY <2>1, <1>1
<1> QED BY <1>4, <1>5

(* A gather that begins has no active job. *)
LEMMA LimitAtStart ==
  ASSUME TypeOK, ConnectionsPerCall, NEW t \in Tasks, NEW k \in DOMAIN Plan[t],
         StartGather(t, k)
  PROVE  /\ ConnectionsPerCall'
         /\ work' \in Works
         /\ at' \in [Tasks -> Nat]
         /\ \A u \in Tasks : at'[u] \in DOMAIN Plan[u]
         /\ \A u \in Tasks \ {t} : work'[u] = work[u]
<1>1. Plan[t][k].jobs \in Nat /\ Plan[t][k].limit \in Nat /\ k \in Nat
  BY PlanIsGathers
<1>2. /\ work'[t]["waiting"] = 0 /\ work'[t]["using"] = 0 /\ work'[t]["closing"] = 0
      /\ work' \in Works
      /\ \A u \in Tasks \ {t} : work'[u] = work[u]
  BY <1>1, NewWork DEF StartGather, TypeOK, Works, Places
<1>3. /\ at' \in [Tasks -> Nat]
      /\ \A u \in Tasks : at'[u] \in DOMAIN Plan[u]
      /\ \A u \in Tasks \ {t} : at'[u] = at[u]
      /\ at'[t] = k
  BY <1>1 DEF StartGather, TypeOK
<1>4. ASSUME NEW u \in Tasks PROVE Active(u)' <= Here(u)'.limit
  <2>1. CASE u = t
    BY <2>1, <1>1, <1>2, <1>3 DEF Active, Here
  <2>2. CASE u # t
    BY <2>2, <1>2, <1>3 DEF Active, Here, ConnectionsPerCall
  <2> QED BY <2>1, <2>2
<1> QED BY <1>2, <1>3, <1>4 DEF ConnectionsPerCall

LEMMA InitInv == Init => IInv
<1> SUFFICES ASSUME Init PROVE IInv
  OBVIOUS
<1>1. TypeOK
  BY PlanIsGathers, FanoutAssumption, NewWork
     DEF Init, Admission!Init, TypeOK, Admission!Stages, Fates, Tasks, Gather
<1>2. \A t \in Tasks : Active(t) = 0 /\ Here(t).limit \in Nat
  BY <1>1, PlanIsGathers, NewWork DEF Init, Active, Places, TypeOK, Here
<1>3. ConnectionsPerCall
  BY <1>2 DEF ConnectionsPerCall
<1>4. WorkMatchesFate /\ NewMatchesStage /\ SlotMatchesFate
  BY DEF Init, Admission!Init, WorkMatchesFate, NewMatchesStage, SlotMatchesFate, Idle, Tasks
<1> QED BY <1>1, <1>3, <1>4 DEF IInv

(* A task that ends gives its slot back. *)
LEMMA FreeSlotEffect ==
  ASSUME TypeOK, NEW t \in Tasks, FreeSlot(t)
  PROVE  /\ stage' \in [Calls -> Admission!Stages]
         /\ t \in Calls => stage[t] = "inside" /\ stage'[t] = "answered"
         /\ \A c \in Calls \ {t} : stage'[c] = stage[c]
BY FanoutAssumption DEF FreeSlot, TypeOK, Admission!Leave, Admission!Move, Admission!Stages

(* The parts of the invariant that relate a task's slot and fate survive   *)
(* every step that ends a live task.                                       *)
LEMMA TaskEnds ==
  ASSUME IInv, NEW t \in Tasks, NEW to \in {"failed", "ended"},
         fate[t] \in {"live", "cancelling", "cancelled"},
         fate' = [fate EXCEPT ![t] = to], FreeSlot(t)
  PROVE  NewMatchesStage' /\ SlotMatchesFate' /\ fate' \in [Tasks -> Fates]
         /\ stage' \in [Calls -> Admission!Stages]
<1>1. /\ stage' \in [Calls -> Admission!Stages]
      /\ t \in Calls => stage[t] = "inside" /\ stage'[t] = "answered"
      /\ \A c \in Calls \ {t} : stage'[c] = stage[c]
  BY FreeSlotEffect DEF IInv
<1>2. /\ fate' \in [Tasks -> Fates]
      /\ fate'[t] = to
      /\ \A u \in Tasks \ {t} : fate'[u] = fate[u]
  BY DEF IInv, TypeOK, Fates
<1>3. ASSUME NEW c \in Calls
      PROVE  /\ stage'[c] \in {"idle", "waiting"} <=> fate'[c] = "new"
             /\ stage'[c] = "inside" <=> fate'[c] \in {"live", "cancelling", "cancelled"}
  <2>1. c \in Tasks
    BY DEF Tasks
  <2>2. CASE c = t
    BY <2>2, <1>1, <1>2
  <2>3. CASE c # t
    BY <2>1, <2>3, <1>1, <1>2 DEF IInv, NewMatchesStage, SlotMatchesFate
  <2> QED BY <2>2, <2>3
<1> QED BY <1>1, <1>2, <1>3 DEF NewMatchesStage, SlotMatchesFate

(* A job that raises ends its task only if the task is live. *)
LEMMA FailEffect ==
  ASSUME IInv, NEW t \in Tasks, fate[t] # "new", Fail(t)
  PROVE  /\ NewMatchesStage' /\ SlotMatchesFate' /\ fate' \in [Tasks -> Fates]
         /\ stage' \in [Calls -> Admission!Stages]
         /\ \A u \in Tasks : fate'[u] = fate[u] \/ fate'[u] = "failed"
<1>1. CASE fate[t] = "live"
  <2>1. fate' = [fate EXCEPT ![t] = "failed"] /\ FreeSlot(t)
    BY <1>1 DEF Fail
  <2>2. NewMatchesStage' /\ SlotMatchesFate' /\ fate' \in [Tasks -> Fates]
         /\ stage' \in [Calls -> Admission!Stages]
    BY <1>1, <2>1, TaskEnds
  <2> QED BY <2>1, <2>2 DEF IInv, TypeOK
<1>2. CASE fate[t] # "live"
  BY <1>2 DEF Fail, IInv, TypeOK, NewMatchesStage, SlotMatchesFate
<1> QED BY <1>1, <1>2

(* A job that begins stays within the limit. *)
LEMMA BeginKeepsLimit ==
  ASSUME TypeOK, ConnectionsPerCall, NEW t \in Tasks, BeginJob(t)
  PROVE  ConnectionsPerCall'
<1>1. /\ work' \in Works
      /\ work'[t]["waiting"] = work[t]["waiting"] + 1
      /\ \A p \in Places \ {"queued", "waiting"} : work'[t][p] = work[t][p]
      /\ \A u \in Tasks \ {t} : work'[u] = work[u]
  BY ShiftEffect DEF BeginJob, TypeOK, Works, Places
<1>2. /\ work[t]["waiting"] \in Nat /\ work[t]["using"] \in Nat /\ work[t]["closing"] \in Nat
      /\ Here(t).limit \in Nat
  BY PlanIsGathers DEF TypeOK, Places, Here
<1>3. Active(t)' = Active(t) + 1 /\ Active(t) \in Nat
  BY <1>1, <1>2 DEF Active, Places
<1>4. \A u \in Tasks : Here(u)' = Here(u)
  BY DEF BeginJob, Here
<1> SUFFICES ASSUME NEW u \in Tasks PROVE Active(u)' <= Here(u)'.limit
  BY DEF ConnectionsPerCall
<1>5. CASE u = t
  BY <1>2, <1>3, <1>4, <1>5 DEF BeginJob
<1>6. CASE u # t
  <2>1. Active(u)' = Active(u)
    BY <1>1, <1>6 DEF Active
  <2> QED BY <2>1, <1>4 DEF ConnectionsPerCall
<1> QED BY <1>5, <1>6

LEMMA JobInv ==
  ASSUME IInv, NEW t \in Tasks, JobStep(t) \/ PoolTimeout(t)
  PROVE  IInv'
<1> USE DEF IInv
<1>0. work \in Works /\ Places = {"queued", "waiting", "using", "closing"}
  BY DEF TypeOK, Works, Places
<1>1. CASE BeginJob(t)
  <2>1. /\ work' \in Works
        /\ work[t]["queued"] > 0
        /\ \A u \in Tasks \ {t} : work'[u] = work[u]
    BY <1>0, <1>1, ShiftEffect DEF BeginJob
  <2>2. UNCHANGED <<stage, fate, at>>
    BY <1>1 DEF BeginJob
  <2>3. TypeOK' /\ NewMatchesStage' /\ SlotMatchesFate'
    BY <2>1, <2>2 DEF TypeOK, Works, NewMatchesStage, SlotMatchesFate
  <2>4. WorkMatchesFate'
    BY <2>1, <2>2, NewWork DEF WorkMatchesFate, Idle, TypeOK, Places
  <2>5. ConnectionsPerCall'
    BY <1>1, BeginKeepsLimit
  <2> QED BY <2>3, <2>4, <2>5
<1>2. ASSUME NEW from \in {"queued", "waiting", "using", "closing"},
             Drop(t, from), UNCHANGED at,
             NewMatchesStage' /\ SlotMatchesFate' /\ fate' \in [Tasks -> Fates],
             stage' \in [Calls -> Admission!Stages],
             \A u \in Tasks :
               \/ fate'[u] = fate[u]
               \/ fate'[u] = "failed"
               \/ fate[u] = "cancelling" /\ fate'[u] = "cancelled"
      PROVE  IInv'
  <2>1. /\ work' \in Works
        /\ work[t][from] > 0
        /\ work'[t][from] = work[t][from] - 1
        /\ \A p \in Places \ {from} : work'[t][p] = work[t][p]
        /\ \A u \in Tasks \ {t} : work'[u] = work[u]
    BY <1>0, <1>2, DropEffect
  <2>2. TypeOK'
    BY <1>2, <2>1 DEF TypeOK, Works
  <2>3. WorkMatchesFate'
    <3> SUFFICES ASSUME NEW u \in Tasks
                 PROVE  /\ fate'[u] = "new" => Idle(u)'
                        /\ fate'[u] \in {"cancelling", "cancelled", "ended"} =>
                             /\ work'[u]["queued"] = 0
                             /\ work'[u]["waiting"] = 0
                             /\ work'[u]["using"] = 0
      BY DEF WorkMatchesFate
    <3>1. CASE u # t
      BY <3>1, <1>2, <2>1 DEF WorkMatchesFate, Idle
    <3>2. CASE u = t
      <4>1. fate[t] # "new"
        BY <2>1, NewWork, <1>0 DEF WorkMatchesFate, Idle
      <4>2. \A p \in Places : work[t][p] = 0 => work'[t][p] = 0
        BY <1>0, <2>1
      <4> QED BY <3>2, <4>1, <4>2, <1>0, <1>2 DEF WorkMatchesFate
    <3> QED BY <3>1, <3>2
  <2>4. Active(t)' <= Active(t)
    BY <1>0, <2>1 DEF Active, Works
  <2>5. ConnectionsPerCall'
    BY <1>0, <1>2, <2>1, <2>4, LimitKept DEF TypeOK
  <2> QED BY <1>2, <2>2, <2>3, <2>5
<1>3. CASE CacheHit(t)
  <2>1. Drop(t, "queued") /\ UNCHANGED <<stage, fate, at>>
    BY <1>3 DEF CacheHit
  <2>2. NewMatchesStage' /\ SlotMatchesFate' /\ fate' \in [Tasks -> Fates]
        /\ stage' \in [Calls -> Admission!Stages]
    BY <2>1 DEF NewMatchesStage, SlotMatchesFate, TypeOK
  <2> QED BY <1>2, <2>1, <2>2
<1>4. CASE Connect(t)
  <2>1. /\ work' \in Works
        /\ work[t]["waiting"] > 0
        /\ work'[t]["waiting"] = work[t]["waiting"] - 1
        /\ work'[t]["using"] = work[t]["using"] + 1
        /\ work'[t]["closing"] = work[t]["closing"]
        /\ \A u \in Tasks \ {t} : work'[u] = work[u]
    BY <1>0, <1>4, ShiftEffect DEF Connect
  <2>2. UNCHANGED <<stage, fate, at>>
    BY <1>4 DEF Connect
  <2>3. TypeOK' /\ NewMatchesStage' /\ SlotMatchesFate'
    BY <2>1, <2>2 DEF TypeOK, Works, NewMatchesStage, SlotMatchesFate
  <2>4. WorkMatchesFate'
    BY <2>1, <2>2, <1>0, NewWork DEF WorkMatchesFate, Idle
  <2>5. Active(t)' <= Active(t)
    BY <1>0, <2>1 DEF Active, Works
  <2>6. ConnectionsPerCall'
    BY <1>0, <2>1, <2>2, <2>5, LimitKept DEF TypeOK
  <2> QED BY <2>3, <2>4, <2>6
<1>5. CASE PoolTimeout(t) \/ JobFails(t)
  <2>1. PICK from \in {"waiting", "using"} : Drop(t, from)
    BY <1>5 DEF PoolTimeout, JobFails
  <2>2. Fail(t) /\ UNCHANGED at
    BY <1>5 DEF PoolTimeout, JobFails
  <2>3. fate[t] # "new"
    BY <2>1, <1>0, DropEffect, NewWork DEF WorkMatchesFate, Idle
  <2>4. /\ NewMatchesStage' /\ SlotMatchesFate' /\ fate' \in [Tasks -> Fates]
        /\ stage' \in [Calls -> Admission!Stages]
        /\ \A u \in Tasks : fate'[u] = fate[u] \/ fate'[u] = "failed"
    BY <2>2, <2>3, FailEffect
  <2> QED BY <1>2, <2>1, <2>2, <2>4
<1>6. CASE JobDone(t)
  <2>1. Drop(t, "using") /\ UNCHANGED <<stage, fate, at>>
    BY <1>6 DEF JobDone
  <2>2. NewMatchesStage' /\ SlotMatchesFate' /\ fate' \in [Tasks -> Fates]
        /\ stage' \in [Calls -> Admission!Stages]
    BY <2>1 DEF NewMatchesStage, SlotMatchesFate, TypeOK
  <2> QED BY <1>2, <2>1, <2>2
<1>7. CASE JobClosed(t)
  <2>1. /\ Drop(t, "closing") /\ UNCHANGED <<stage, at>>
        /\ fate' = [fate EXCEPT ![t] = IF @ = "cancelling" THEN "cancelled" ELSE @]
    BY <1>7 DEF JobClosed
  <2>2. /\ fate' \in [Tasks -> Fates]
        /\ \A u \in Tasks :
             \/ fate'[u] = fate[u]
             \/ fate[u] = "cancelling" /\ fate'[u] = "cancelled"
    BY <2>1 DEF TypeOK, Fates
  <2>3. NewMatchesStage' /\ SlotMatchesFate'
    BY <2>1, <2>2 DEF NewMatchesStage, SlotMatchesFate, Tasks
  <2>4. stage' \in [Calls -> Admission!Stages]
    BY <2>1 DEF TypeOK
  <2> QED BY <1>2, <2>1, <2>2, <2>3, <2>4
<1> QED BY <1>1, <1>3, <1>4, <1>5, <1>6, <1>7 DEF JobStep

(* A step of one call in the admission, and what happens to its task. *)
LEMMA CallMoves ==
  ASSUME IInv, NEW c \in Calls,
         NEW from \in Admission!Stages, NEW to \in Admission!Stages,
         stage[c] = from, stage' = [stage EXCEPT ![c] = to],
         NEW f \in Fates, fate' = [fate EXCEPT ![c] = f],
         to \in {"idle", "waiting"} <=> f = "new",
         to = "inside" <=> f \in {"live", "cancelling", "cancelled"}
  PROVE  /\ stage' \in [Calls -> Admission!Stages]
         /\ fate' \in [Tasks -> Fates]
         /\ fate'[c] = f
         /\ \A u \in Tasks \ {c} : fate'[u] = fate[u]
         /\ NewMatchesStage' /\ SlotMatchesFate'
<1>1. /\ stage' \in [Calls -> Admission!Stages]
      /\ stage'[c] = to
      /\ \A d \in Calls \ {c} : stage'[d] = stage[d]
  BY DEF IInv, TypeOK
<1>2. /\ fate' \in [Tasks -> Fates]
      /\ fate'[c] = f
      /\ \A u \in Tasks \ {c} : fate'[u] = fate[u]
  BY DEF IInv, TypeOK, Tasks
<1>3. ASSUME NEW d \in Calls
      PROVE  /\ stage'[d] \in {"idle", "waiting"} <=> fate'[d] = "new"
             /\ stage'[d] = "inside" <=> fate'[d] \in {"live", "cancelling", "cancelled"}
  <2>1. d \in Tasks
    BY DEF Tasks
  <2>2. CASE d = c
    BY <2>2, <1>1, <1>2
  <2>3. CASE d # c
    BY <2>1, <2>3, <1>1, <1>2 DEF IInv, NewMatchesStage, SlotMatchesFate
  <2> QED BY <2>2, <2>3
<1> QED BY <1>1, <1>2, <1>3 DEF NewMatchesStage, SlotMatchesFate

(* A gather that starts leaves a live task with queued jobs only. *)
LEMMA StartInv ==
  ASSUME IInv, NEW t \in Tasks, NEW k \in DOMAIN Plan[t], StartGather(t, k),
         stage' \in [Calls -> Admission!Stages], fate' \in [Tasks -> Fates],
         fate'[t] = "live",
         \A u \in Tasks \ {t} : fate'[u] = fate[u],
         NewMatchesStage', SlotMatchesFate'
  PROVE  IInv'
<1>1. /\ ConnectionsPerCall'
      /\ work' \in Works
      /\ at' \in [Tasks -> Nat]
      /\ \A u \in Tasks : at'[u] \in DOMAIN Plan[u]
      /\ \A u \in Tasks \ {t} : work'[u] = work[u]
  BY LimitAtStart DEF IInv
<1>2. TypeOK'
  BY <1>1 DEF TypeOK, Works
<1>3. WorkMatchesFate'
  BY <1>1 DEF IInv, WorkMatchesFate, Idle
<1> QED BY <1>1, <1>2, <1>3 DEF IInv

(* The slot side of a call. *)
LEMMA SlotInv ==
  ASSUME IInv, NEW c \in Calls, WaitForSlot(c) \/ TurnAway(c) \/ EnterSlot(c)
  PROVE  IInv'
<1>0. c \in Tasks
  BY DEF Tasks
<1>1. CASE WaitForSlot(c)
  <2>1. stage[c] = "idle" /\ stage' = [stage EXCEPT ![c] = "waiting"]
        /\ UNCHANGED <<fate, at, work>>
    BY <1>1 DEF WaitForSlot, Admission!Wait, Admission!Move
  <2>2. fate[c] = "new" /\ fate' = [fate EXCEPT ![c] = "new"]
    BY <1>0, <2>1 DEF IInv, NewMatchesStage, TypeOK
  <2>3. stage' \in [Calls -> Admission!Stages] /\ NewMatchesStage' /\ SlotMatchesFate'
    BY <2>1, <2>2, CallMoves DEF Admission!Stages, Fates
  <2> QED BY <2>1, <2>3 DEF IInv, TypeOK, WorkMatchesFate, ConnectionsPerCall, Active, Here, Idle
<1>2. CASE TurnAway(c)
  <2>1. stage[c] \in {"idle", "waiting"} /\ stage' = [stage EXCEPT ![c] = "answered"]
        /\ fate' = [fate EXCEPT ![c] = "ended"] /\ UNCHANGED <<at, work>>
    BY <1>2 DEF TurnAway, Admission!TurnAway, Admission!Move
  <2>2. /\ stage' \in [Calls -> Admission!Stages] /\ NewMatchesStage' /\ SlotMatchesFate'
        /\ fate' \in [Tasks -> Fates]
        /\ fate'[c] = "ended"
        /\ \A u \in Tasks \ {c} : fate'[u] = fate[u]
    BY <2>1, CallMoves DEF Admission!Stages, Fates
  <2>3. Idle(c)
    BY <1>0, <2>1 DEF IInv, NewMatchesStage, WorkMatchesFate
  <2>4. WorkMatchesFate'
    BY <1>0, <2>1, <2>2, <2>3, NewWork DEF IInv, WorkMatchesFate, Idle, Places
  <2> QED BY <2>1, <2>2, <2>4 DEF IInv, TypeOK, ConnectionsPerCall, Active, Here
<1>3. CASE EnterSlot(c)
  <2>1. stage[c] \in {"idle", "waiting"} /\ stage' = [stage EXCEPT ![c] = "inside"]
        /\ fate' = [fate EXCEPT ![c] = "live"] /\ StartGather(c, 1)
    BY <1>3 DEF EnterSlot, Admission!Enter, Admission!Move
  <2>2. /\ stage' \in [Calls -> Admission!Stages] /\ NewMatchesStage' /\ SlotMatchesFate'
        /\ fate' \in [Tasks -> Fates]
        /\ fate'[c] = "live"
        /\ \A u \in Tasks \ {c} : fate'[u] = fate[u]
    BY <2>1, CallMoves DEF Admission!Stages, Fates
  <2>3. 1 \in DOMAIN Plan[c]
    BY <1>0, PlanIsGathers DEF IInv, TypeOK
  <2> QED BY <1>0, <2>1, <2>2, <2>3, StartInv
<1> QED BY <1>1, <1>2, <1>3

LEMMA ReadInv ==
  ASSUME IInv, NEW r \in Reads, BeginRead(r)
  PROVE  IInv'
<1>1. r \in Tasks /\ r \notin Calls
  BY FanoutAssumption DEF Tasks
<1>2. fate' = [fate EXCEPT ![r] = "live"] /\ StartGather(r, 1) /\ UNCHANGED stage
  BY DEF BeginRead
<1>3. /\ fate' \in [Tasks -> Fates]
      /\ fate'[r] = "live"
      /\ \A u \in Tasks \ {r} : fate'[u] = fate[u]
  BY <1>1, <1>2 DEF IInv, TypeOK, Fates
<1>4. NewMatchesStage' /\ SlotMatchesFate' /\ stage' \in [Calls -> Admission!Stages]
  BY <1>1, <1>2, <1>3 DEF IInv, TypeOK, NewMatchesStage, SlotMatchesFate, Tasks
<1>5. 1 \in DOMAIN Plan[r]
  BY <1>1, PlanIsGathers DEF IInv, TypeOK
<1> QED BY <1>1, <1>2, <1>3, <1>4, <1>5, StartInv

LEMMA TaskInv ==
  ASSUME IInv, NEW t \in Tasks, TaskStep(t)
  PROVE  IInv'
<1>1. CASE NextGather(t)
  <2>1. fate[t] = "live" /\ at[t] < Len(Plan[t]) /\ StartGather(t, at[t] + 1)
        /\ UNCHANGED <<stage, fate>>
    BY <1>1 DEF NextGather
  <2>2. at[t] + 1 \in DOMAIN Plan[t]
    BY <2>1, PlanIsGathers DEF IInv, TypeOK
  <2>3. NewMatchesStage' /\ SlotMatchesFate' /\ stage' \in [Calls -> Admission!Stages]
        /\ fate' \in [Tasks -> Fates]
    BY <2>1 DEF IInv, TypeOK, NewMatchesStage, SlotMatchesFate
  <2> QED BY <2>1, <2>2, <2>3, StartInv
<1>2. CASE Return(t) \/ EndCancelled(t)
  <2>1. /\ fate[t] \in {"live", "cancelling", "cancelled"}
        /\ fate' = [fate EXCEPT ![t] = "ended"]
        /\ FreeSlot(t) /\ UNCHANGED <<at, work>>
    BY <1>2 DEF Return, EndCancelled
  <2>2. NewMatchesStage' /\ SlotMatchesFate' /\ fate' \in [Tasks -> Fates]
         /\ stage' \in [Calls -> Admission!Stages]
    BY <2>1, TaskEnds
  <2>3. work[t]["queued"] = 0 /\ work[t]["waiting"] = 0 /\ work[t]["using"] = 0
    BY <1>2, NewWork DEF Return, EndCancelled, Idle, Places, IInv, WorkMatchesFate
  <2>4. WorkMatchesFate'
    BY <2>1, <2>3 DEF IInv, TypeOK, WorkMatchesFate, Idle
  <2> QED BY <2>1, <2>2, <2>4 DEF IInv, TypeOK, ConnectionsPerCall, Active, Here
<1> QED BY <1>1, <1>2 DEF TaskStep

(* A cancelled call keeps only the connections it must give back. *)
LEMMA CancelInv ==
  ASSUME IInv, NEW t \in Tasks, Cancel(t)
  PROVE  IInv'
<1>0. work \in Works /\ Places = {"queued", "waiting", "using", "closing"}
  BY DEF IInv, TypeOK, Works, Places
<1>1. PICK f \in {"cancelling", "cancelled"} : fate' = [fate EXCEPT ![t] = f]
  BY DEF Cancel
<1>2. /\ fate[t] = "live" /\ UNCHANGED <<stage, at>>
      /\ work' = [work EXCEPT ![t] = [NoWork EXCEPT !["closing"] = work[t]["using"]]]
  BY DEF Cancel
<1>3. /\ fate' \in [Tasks -> Fates]
      /\ fate'[t] = f
      /\ \A u \in Tasks \ {t} : fate'[u] = fate[u]
  BY <1>1 DEF IInv, TypeOK, Fates
<1>4. /\ work' \in Works
      /\ work'[t]["queued"] = 0 /\ work'[t]["waiting"] = 0 /\ work'[t]["using"] = 0
      /\ work'[t]["closing"] = work[t]["using"]
      /\ \A u \in Tasks \ {t} : work'[u] = work[u]
  <2>1. work[t]["using"] \in Nat
    BY <1>0 DEF Works
  <2> DEFINE w == [NoWork EXCEPT !["closing"] = work[t]["using"]]
  <2>2. /\ w \in [Places -> Nat]
        /\ w["queued"] = 0 /\ w["waiting"] = 0 /\ w["using"] = 0
        /\ w["closing"] = work[t]["using"]
    BY <1>0, <2>1, NewWork
  <2>3. work' = [work EXCEPT ![t] = w]
    BY <1>2
  <2> HIDE DEF w
  <2> QED BY <1>0, <2>2, <2>3 DEF Works
<1>5. NewMatchesStage' /\ SlotMatchesFate'
  BY <1>1, <1>2, <1>3 DEF IInv, NewMatchesStage, SlotMatchesFate, Tasks
<1>6. TypeOK'
  BY <1>2, <1>3, <1>4 DEF IInv, TypeOK, Works
<1>7. WorkMatchesFate'
  BY <1>1, <1>3, <1>4 DEF IInv, WorkMatchesFate, Idle
<1>8. Active(t)' <= Active(t)
  BY <1>0, <1>4 DEF Active, Works
<1>9. ConnectionsPerCall'
  BY <1>2, <1>4, <1>8, <1>0, LimitKept DEF IInv, TypeOK
<1> QED BY <1>5, <1>6, <1>7, <1>9 DEF IInv

LEMMA StepInv == IInv /\ [Next]_vars => IInv'
<1> SUFFICES ASSUME IInv, [Next]_vars PROVE IInv'
  OBVIOUS
<1>1. CASE UNCHANGED vars
  BY <1>1 DEF vars, IInv, TypeOK, WorkMatchesFate, NewMatchesStage, SlotMatchesFate,
              ConnectionsPerCall, Active, Here, Idle
<1>2. ASSUME NEW c \in Calls, WaitForSlot(c) \/ TurnAway(c) \/ EnterSlot(c) PROVE IInv'
  BY <1>2, SlotInv
<1>3. ASSUME NEW r \in Reads, BeginRead(r) PROVE IInv'
  BY <1>3, ReadInv
<1>4. ASSUME NEW t \in Tasks, JobStep(t) \/ PoolTimeout(t) \/ TaskStep(t) \/ Cancel(t)
      PROVE IInv'
  BY <1>4, JobInv, TaskInv, CancelInv
<1> QED BY <1>1, <1>2, <1>3, <1>4 DEF Next, Terminated

LEMMA SpecInv == Spec => []IInv
BY InitInv, StepInv, PTL DEF Spec

(* Every reachable state is well formed. *)
THEOREM TypeCorrect == Spec => []TypeOK
BY SpecInv, PTL DEF IInv

(* However many calls run, fail and are cancelled, one call never has more *)
(* connections than the limit of its gather.                               *)
THEOREM ConnectionsPerCallHolds == Spec => []ConnectionsPerCall
BY SpecInv, PTL DEF IInv

(* The query slot is held exactly while the call's task is awaited. *)
THEOREM SlotMatchesFateHolds == Spec => []SlotMatchesFate
BY SpecInv, PTL DEF IInv

(* A call that returned or was cancelled leaves no work behind. *)
THEOREM EndsCleanHolds == Spec => []EndsClean
<1>1. IInv => EndsClean
  BY DEF IInv, WorkMatchesFate, EndsClean, Places
<1> QED BY <1>1, SpecInv, PTL

-------------------------------------------------------------------------------
(* What a step does to the slots is a step of BoundedAdmission. *)
LEMMA SlotStep ==
  ASSUME [Next]_vars PROVE [Admission!Next]_stage
<1>1. ASSUME NEW t \in Tasks, FreeSlot(t) PROVE [Admission!Next]_stage
  BY <1>1 DEF FreeSlot, Admission!Next, Admission!Step
<1>2. ASSUME NEW c \in Calls, WaitForSlot(c) \/ TurnAway(c) \/ EnterSlot(c)
      PROVE  Admission!Next
  BY <1>2 DEF WaitForSlot, TurnAway, EnterSlot, Admission!Next, Admission!Step
<1>3. ASSUME NEW r \in Reads, BeginRead(r) PROVE UNCHANGED stage
  BY <1>3 DEF BeginRead
<1>4. ASSUME NEW t \in Tasks, JobStep(t) \/ PoolTimeout(t)
      PROVE  UNCHANGED stage \/ FreeSlot(t)
  BY <1>4 DEF JobStep, PoolTimeout, BeginJob, CacheHit, Connect, JobDone, JobFails, JobClosed,
              Fail
<1>5. ASSUME NEW t \in Tasks, TaskStep(t) \/ Cancel(t)
      PROVE  UNCHANGED stage \/ FreeSlot(t)
  BY <1>5 DEF TaskStep, NextGather, Return, EndCancelled, Cancel
<1>6. CASE UNCHANGED vars
  BY <1>6 DEF vars
<1> QED BY <1>1, <1>2, <1>3, <1>4, <1>5, <1>6 DEF Next, Terminated

(* With its gathers, their failures and cancellations, the fan-out takes   *)
(* and frees its query slots as the admission allows.                      *)
THEOREM FanoutRefinesAdmission == Spec => Admission!Spec
<1>1. Init => Admission!Init
  BY DEF Init
<1> QED BY <1>1, SlotStep, PTL DEF Spec, Admission!Spec

(* The calls inside the database never exceed the slots. *)
SlotsBound == IsFiniteSet(Admission!Inside) /\ Cardinality(Admission!Inside) <= Slots

LEMMA SlotsBoundStep ==
  ASSUME TypeOK, SlotsBound, [Next]_vars PROVE SlotsBound'
<1> DEFINE In == Admission!Inside
<1>0. IsFiniteSet(In) /\ Cardinality(In) \in Nat /\ Cardinality(In) <= Slots /\ Slots \in Nat
  BY FS_CardinalityType, FanoutAssumption DEF SlotsBound
<1>1. CASE UNCHANGED stage
  BY <1>1 DEF SlotsBound, Admission!Inside
<1>2. ASSUME NEW c \in Calls, Admission!Enter(c) PROVE SlotsBound'
  <2>1. In' = In \cup {c}
    BY <1>2 DEF TypeOK, Admission!Enter, Admission!Move, Admission!Inside
  <2>2. Cardinality(In) < Slots
    <3>1. Admission!Cardinality(In) = Cardinality(In)
      BY DEF Cardinality, Admission!Cardinality
    <3> QED BY <1>2, <3>1 DEF Admission!Enter, Admission!HasRoom
  <2>3. IsFiniteSet(In') /\ Cardinality(In') <= Cardinality(In) + 1
    <3> HIDE DEF In
    <3> QED BY <1>0, <2>1, FS_AddElement
  <2>4. Cardinality(In') \in Nat
    BY <2>3, FS_CardinalityType
  <2> QED BY <1>0, <2>2, <2>3, <2>4 DEF SlotsBound
<1>3. ASSUME NEW c \in Calls,
             Admission!Wait(c) \/ Admission!TurnAway(c) \/ Admission!Leave(c) \/ Admission!Again(c)
      PROVE  SlotsBound'
  <2>1. In' \in SUBSET In
    BY <1>3 DEF TypeOK, Admission!Wait, Admission!TurnAway, Admission!Leave, Admission!Again,
                Admission!Move, Admission!Inside
  <2>2. IsFiniteSet(In') /\ Cardinality(In') <= Cardinality(In)
    <3> HIDE DEF In
    <3> QED BY <1>0, <2>1, FS_Subset
  <2>3. Cardinality(In') \in Nat
    BY <2>2, FS_CardinalityType
  <2> QED BY <1>0, <2>2, <2>3 DEF SlotsBound
<1> QED BY <1>1, <1>2, <1>3, SlotStep DEF Admission!Next, Admission!Step

-------------------------------------------------------------------------------
(* The connections there can be while no task that is over has jobs left:  *)
(* fan for each call in a slot and one for each read.                      *)
Share(fan) == (Admission!Inside \X (1..fan)) \cup (Reads \X {1})

LEMMA ShareSize ==
  ASSUME SlotsBound, NEW fan \in Nat, PoolSized(fan)
  PROVE  IsFiniteSet(Share(fan)) /\ Cardinality(Share(fan)) <= Pool
<1> DEFINE In == Admission!Inside
           A == In \X (1..fan)
           B == Reads \X {1}
<1>1. IsFiniteSet(In) /\ Cardinality(In) \in Nat /\ Cardinality(In) <= Slots /\ Slots \in Nat
  BY FS_CardinalityType, FanoutAssumption DEF SlotsBound
<1>2. IsFiniteSet(1..fan) /\ Cardinality(1..fan) = fan
  BY FS_Interval
<1>3. IsFiniteSet(A) /\ Cardinality(A) = Cardinality(In) * fan
  <2> HIDE DEF In
  <2> QED BY <1>1, <1>2, FS_Product
<1>4. IsFiniteSet(Reads) /\ Cardinality(Reads) \in Nat
  <2>1. Reads \in SUBSET Tasks
    BY DEF Tasks
  <2> QED BY <2>1, FanoutAssumption, FS_Subset, FS_CardinalityType
<1>5. IsFiniteSet(B) /\ Cardinality(B) = Cardinality(Reads)
  <2>1. IsFiniteSet({1}) /\ Cardinality({1}) = 1
    BY FS_Singleton
  <2>2. IsFiniteSet(B) /\ Cardinality(B) = Cardinality(Reads) * 1
    BY <1>4, <2>1, FS_Product
  <2> QED BY <1>4, <2>2
<1>6. IsFiniteSet(A \cup B) /\ Cardinality(A \cup B) <= Cardinality(A) + Cardinality(B)
  <2> HIDE DEF A, B
  <2>1. IsFiniteSet(A \cap B) /\ Cardinality(A \cap B) \in Nat
    BY <1>3, FS_Intersection, FS_CardinalityType
  <2>2. Cardinality(A) \in Nat /\ Cardinality(B) \in Nat
    BY <1>3, <1>5, FS_CardinalityType
  <2>3. /\ IsFiniteSet(A \cup B)
        /\ Cardinality(A \cup B) = Cardinality(A) + Cardinality(B) - Cardinality(A \cap B)
    BY <1>3, <1>5, FS_Union
  <2> QED BY <2>1, <2>2, <2>3
<1>7. Cardinality(In) * fan <= Slots * fan /\ Cardinality(In) * fan \in Nat /\ Slots * fan \in Nat
  <2> HIDE DEF In
  <2> QED BY <1>1
<1>8. Cardinality(A \cup B) \in Nat
  BY <1>6, FS_CardinalityType
<1>9. Share(fan) = A \cup B
  BY DEF Share
<1> HIDE DEF In, A, B
<1> QED BY <1>3, <1>4, <1>5, <1>6, <1>7, <1>8, <1>9, FanoutAssumption DEF PoolSized

(* A job that waits needs one connection more than its task has, and there *)
(* is one in the share.                                                    *)
LEMMA DemandInShare ==
  ASSUME IInv, NEW fan \in Nat, PoolSized(fan),
         \A t \in Tasks : fate[t] \in {"failed", "ended"} => Idle(t),
         NEW t \in Tasks, NEW n \in 1..Active(t)
  PROVE  <<t, n>> \in Share(fan)
<1>1. /\ work[t] \in [Places -> Nat] /\ at[t] \in DOMAIN Plan[t] /\ fate[t] \in Fates
      /\ Active(t) <= Plan[t][at[t]].limit
  BY DEF IInv, TypeOK, ConnectionsPerCall, Here
<1>2. Active(t) \in Nat /\ Plan[t][at[t]].limit \in Nat
  BY <1>1, PlanIsGathers DEF Active, Places
<1>3. ~Idle(t)
  BY <1>2, NewWork DEF Idle, Active, Places
<1>4. fate[t] \in {"live", "cancelling", "cancelled"}
  BY <1>1, <1>3 DEF IInv, WorkMatchesFate, Fates
<1>5. CASE t \in Calls
  <2>1. t \in Admission!Inside
    BY <1>4, <1>5 DEF IInv, SlotMatchesFate, Admission!Inside
  <2>2. n \in 1..fan
    BY <1>1, <1>2, <1>5 DEF PoolSized
  <2> QED BY <2>1, <2>2 DEF Share
<1>6. CASE t \in Reads
  <2>1. n = 1
    BY <1>1, <1>2, <1>6 DEF PoolSized
  <2> QED BY <1>6, <2>1 DEF Share
<1> QED BY <1>5, <1>6 DEF Tasks

LEMMA RoomInPool ==
  ASSUME IInv, SlotsBound, NEW fan \in Nat, PoolSized(fan)
  PROVE  BurstStaysOffPool
<1> SUFFICES ASSUME \A t \in Tasks : fate[t] \in {"failed", "ended"} => Idle(t),
                    NEW w \in Tasks, work[w]["waiting"] > 0
             PROVE  InUse < Pool
  BY DEF BurstStaysOffPool, NoPoolQueueing
<1> DEFINE Busy(t) == work[t]["using"] + work[t]["closing"]
           extra == <<w, Busy(w) + 1>>
<1>1. \A t \in Tasks : Busy(t) \in Nat /\ Busy(t) <= Active(t) /\ Active(t) \in Nat
  BY DEF IInv, TypeOK, Active, Places
<1>2. Busy(w) + 1 \in 1..Active(w)
  BY DEF IInv, TypeOK, Active, Places
<1>3. Connections \in SUBSET Share(fan)
  <2> SUFFICES ASSUME NEW x \in Connections PROVE x \in Share(fan)
    OBVIOUS
  <2>1. PICK t \in Tasks : \E n \in 1..Busy(t) : x = <<t, n>>
    BY DEF Connections
  <2>2. PICK n \in 1..Busy(t) : x = <<t, n>>
    BY <2>1
  <2>3. n \in 1..Active(t)
    BY <1>1, <2>2
  <2> QED BY <2>2, <2>3, DemandInShare
<1>4. extra \in Share(fan)
  BY <1>2, DemandInShare
<1>5. extra \notin Connections
  <2> SUFFICES ASSUME extra \in Connections PROVE FALSE
    OBVIOUS
  <2>1. PICK t \in Tasks : \E n \in 1..Busy(t) : extra = <<t, n>>
    BY DEF Connections
  <2>2. Busy(w) + 1 \in 1..Busy(w)
    BY <2>1
  <2> QED BY <1>1, <2>2
<1> HIDE DEF extra
<1>6. IsFiniteSet(Share(fan)) /\ Cardinality(Share(fan)) <= Pool
  BY ShareSize
<1>7. IsFiniteSet(Connections)
  BY <1>3, <1>6, FS_Subset
<1>8. Cardinality(Connections \cup {extra}) = Cardinality(Connections) + 1
  BY <1>5, <1>7, FS_AddElement
<1>9. /\ Connections \cup {extra} \in SUBSET Share(fan)
      /\ Cardinality(Connections \cup {extra}) <= Cardinality(Share(fan))
  BY <1>3, <1>4, <1>6, FS_Subset
<1>10. Cardinality(Connections) \in Nat /\ Cardinality(Share(fan)) \in Nat
  BY <1>6, <1>7, FS_CardinalityType
<1> QED BY <1>6, <1>8, <1>9, <1>10, FanoutAssumption DEF InUse

(* With DB_MAX_CONCURRENT_QUERIES times SEARCH_FANOUT_CONCURRENCY          *)
(* connections and one for each resource read in the pool, no job waits    *)
(* for a connection of an exhausted pool, as long as no call that is over  *)
(* left jobs behind.                                                       *)
THEOREM BurstStaysOffPoolHolds ==
  ASSUME NEW fan \in Nat, PoolSized(fan)
  PROVE  Spec => []BurstStaysOffPool
<1>1. Init => SlotsBound
  <2>1. Init => Admission!Inside = {}
    BY DEF Init, Admission!Init, Admission!Inside
  <2>2. IsFiniteSet({}) /\ Cardinality({}) = 0 /\ 0 <= Slots
    BY FS_EmptySet, FanoutAssumption
  <2> QED BY <2>1, <2>2 DEF SlotsBound
<1>2. IInv /\ SlotsBound /\ [Next]_vars => SlotsBound'
  BY SlotsBoundStep DEF IInv
<1>3. IInv /\ SlotsBound => BurstStaysOffPool
  BY RoomInPool
<1> QED BY <1>1, <1>2, <1>3, SpecInv, PTL DEF Spec
===============================================================================
