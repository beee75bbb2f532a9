-------------------------- MODULE MCServiceProcess --------------------------
EXTENDS ServiceProcess, TLC

Symmetry == Permutations(Calls)

Plain == [host |-> "loopback", token |-> None, allow |-> FALSE, transport |-> None,
          entry |-> "http", rps |-> 0, burst |-> 0, pii |-> TRUE,
          db |-> FALSE, aws |-> {}, nr |-> {}]

(* Every exposure of the HTTP server, the callers with a token limited to  *)
(* one request at a time; every transport; each service configured, and    *)
(* half configured.                                                        *)
SomeSettings ==
  {[Plain EXCEPT !.host = h, !.token = t, !.allow = a, !.rps = IF t = "long" THEN 1 ELSE 0] :
     h \in {"loopback", "alias", "external"}, t \in {None, "empty", "short", "long"}, a \in BOOLEAN}
  \cup {[Plain EXCEPT !.token = "short", !.transport = t, !.entry = e] :
     t \in {None, "http", "stdio"}, e \in {"http", "stdio"}}
  \cup {[Plain EXCEPT !.token = "short", !.db = TRUE, !.aws = a, !.nr = n] :
     a \in {{"key"}, {"key", "secret", "region"}, {"profile"}}, n \in {{"key"}, {"key", "account"}}}
  \cup {[Plain EXCEPT !.pii = FALSE]}
===============================================================================
