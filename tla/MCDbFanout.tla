------------------------------ MODULE MCDbFanout ------------------------------
(* DbFanout on a few calls.  A search has its two catalog lookups, its time *)
(* columns and three targets, two at a time; a store resolution one lookup  *)
(* and its targets; a resource read one cached lookup.                      *)
EXTENDS DbFanout

CONSTANTS c1, c2, c3, r1

Lookup  == [jobs |-> 1, limit |-> 1, cached |-> TRUE]
Probes  == [jobs |-> 3, limit |-> 2, cached |-> FALSE]
Search  == <<[jobs |-> 2, limit |-> 2, cached |-> TRUE], Lookup, Probes>>
Resolve == <<Lookup, Probes>>
Query   == <<[jobs |-> 1, limit |-> 1, cached |-> FALSE]>>

Mixed == [t \in Tasks |-> CASE t = c1 -> Search
                            [] t = c2 -> Resolve
                            [] t = c3 -> Query
                            [] OTHER -> <<Lookup>>]

(* The pools of the runs are as large as the settings ask. *)
ASSUME PoolAssumption == PoolSized(2)
===============================================================================
