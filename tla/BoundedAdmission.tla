--------------------------- MODULE BoundedAdmission ---------------------------
(***************************************************************************)
(* What DatabaseService promises the callers of its db_* tools, whatever   *)
(* the queue behind it looks like: at most Slots calls are inside the      *)
(* database at once, and a call that is refused never was inside.          *)
(* QuerySlots refines this module; DbFanout takes its actions as its own.  *)
(***************************************************************************)
EXTENDS Naturals, FiniteSets

CONSTANTS
  Callers,  \* the tool calls
  Slots     \* DB_MAX_CONCURRENT_QUERIES

VARIABLE stage

Stages == {"idle", "waiting", "inside", "answered"}

Inside == {c \in Callers : stage[c] = "inside"}

HasRoom == Cardinality(Inside) < Slots

Move(c, to) == stage' = [stage EXCEPT ![c] = to]

Init == stage = [c \in Callers |-> "idle"]

(* The call finds no free slot and joins the queue. *)
Wait(c) == stage[c] = "idle" /\ Move(c, "waiting")

(* A slot is free: the call goes in, at once or from the queue. *)
Enter(c) == stage[c] \in {"idle", "waiting"} /\ HasRoom /\ Move(c, "inside")

(* The call is refused before it was inside. *)
TurnAway(c) == stage[c] \in {"idle", "waiting"} /\ Move(c, "answered")

(* The call leaves the database with its answer. *)
Leave(c) == stage[c] = "inside" /\ Move(c, "answered")

(* The caller has read the answer and may call again. *)
Again(c) == stage[c] = "answered" /\ Move(c, "idle")

Step(c) == Wait(c) \/ Enter(c) \/ TurnAway(c) \/ Leave(c) \/ Again(c)

Next == \E c \in Callers : Step(c)

Spec == Init /\ [][Next]_stage
===============================================================================
