----------------------------- MODULE ScatterGather -----------------------------
(***************************************************************************)
(* What trace_request promises its caller (docs/design.md:174): every      *)
(* source it searches settles once, well or badly; the call answers only   *)
(* when all have settled, and fails only when all of them failed.  How     *)
(* long a source takes, and how it is stopped, is left to TraceRequest,    *)
(* which refines this module.                                              *)
(***************************************************************************)
CONSTANT Sources

VARIABLES
  outcome,  \* of each source: "pending", "good", "bad", "skipped"
  reply     \* of the call: "none", "ok", "failed", "refused", "cancelled"

vars == <<outcome, reply>>

Init ==
  /\ outcome = [s \in Sources |-> "skipped"]
  /\ reply = "none"

(* Bad arguments, or nothing to search. *)
Refuse ==
  /\ reply = "none" /\ \A s \in Sources : outcome[s] = "skipped"
  /\ reply' = "refused"
  /\ UNCHANGED outcome

Ask ==
  /\ reply = "none" /\ \A s \in Sources : outcome[s] = "skipped"
  /\ \E asked \in (SUBSET Sources) \ {{}} :
       outcome' = [s \in Sources |-> IF s \in asked THEN "pending" ELSE "skipped"]
  /\ UNCHANGED reply

Settle(s) ==
  /\ outcome[s] = "pending"
  /\ \E o \in {"good", "bad"} : outcome' = [outcome EXCEPT ![s] = o]
  /\ UNCHANGED reply

Answer ==
  /\ reply = "none"
  /\ \E s \in Sources : outcome[s] # "skipped"
  /\ \A s \in Sources : outcome[s] # "pending"
  /\ reply' = IF \E s \in Sources : outcome[s] = "good" THEN "ok" ELSE "failed"
  /\ UNCHANGED outcome

(* The caller goes away. *)
Abandon ==
  /\ reply = "none" /\ \E s \in Sources : outcome[s] # "skipped"
  /\ reply' = "cancelled"
  /\ outcome' = [s \in Sources |-> IF outcome[s] = "pending" THEN "bad" ELSE outcome[s]]

Next == Refuse \/ Ask \/ (\E s \in Sources : Settle(s)) \/ Answer \/ Abandon

Spec == Init /\ [][Next]_vars
===============================================================================
