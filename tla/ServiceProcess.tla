---------------------------- MODULE ServiceProcess ----------------------------
(***************************************************************************)
(* The process from its command line on.  `doctor` examines the settings   *)
(* and the services they name, and exits.  Without it the server starts:   *)
(* over stdio always, over HTTP if the settings are safe, and then handles *)
(* requests as RequestPipeline says.  --help and --version change nothing, *)
(* and any other word starts the server.                                   *)
(***************************************************************************)
EXTENDS RequestPipeline

CONSTANT Settings  \* the settings the process may be started with

ASSUME SettingsAssumption == \A s \in Settings :
  /\ s.host \in {"loopback", "alias", "external"} /\ s.token \in {None, "empty", "short", "long"}
  /\ {s.allow, s.pii, s.db} \subseteq BOOLEAN /\ {s.rps, s.burst} \subseteq Int

VARIABLES
  settings, \* the chosen ones, until the server has started
  phase,    \* "off", "doctor", "refused" or "serving"
  results,  \* of the doctor, in the order of its checks
  verdict   \* of the last doctor: its exit code, and what it said of the server

vars == <<conf, settings, phase, results, verdict, tokens, container, built, call, events>>

Init ==
  /\ settings \in Settings /\ conf = None
  /\ phase = "off" /\ results = <<>> /\ verdict = None
  /\ PipelineInit
-------------------------------------------------------------------------------
Doctor ==
  /\ phase = "off" /\ verdict = None
  /\ phase' = "doctor"
  /\ UNCHANGED <<conf, settings, results, verdict, pipeline>>

Postgres == IF settings.db THEN {"PASS", "WARN", "FAIL"} ELSE {"SKIPPED"}

CloudWatch ==
  IF {"key", "secret", "region"} \subseteq settings.aws \/ "profile" \in settings.aws
  THEN {"PASS", "FAIL"} ELSE {"SKIPPED"}

NewRelic == IF settings.nr = {"key", "account"} THEN {"PASS", "FAIL"} ELSE {"SKIPPED"}

(* The doctor knows the host by three names, and any token will do. *)
Security ==
  LET open == settings.host # "loopback" /\ settings.token = None
  IN IF open /\ ~settings.allow THEN "FAIL"
     ELSE IF open \/ ~settings.pii \/ settings.rps <= 0 THEN "WARN" ELSE "PASS"

Checks == <<Postgres, CloudWatch, NewRelic, {Security}>>

Check ==
  /\ phase = "doctor" /\ Len(results) < Len(Checks)
  /\ \E result \in Checks[Len(results) + 1] : results' = Append(results, result)
  /\ UNCHANGED <<conf, settings, phase, verdict, pipeline>>

Report ==
  /\ phase = "doctor" /\ Len(results) = Len(Checks)
  /\ phase' = "off"
  /\ verdict' = [code |-> IF \E i \in DOMAIN results : results[i] = "FAIL" THEN 1 ELSE 0, server |-> results[Len(results)]]
  /\ results' = <<>>
  /\ UNCHANGED <<conf, settings, pipeline>>
-------------------------------------------------------------------------------
Transport == IF settings.transport = None THEN settings.entry ELSE settings.transport

IsLoopback == settings.host \in {"loopback", "alias"}

(* Mutant of Refuses: only the length of the token is looked at. *)
RefusesToken == settings.token = "short"

(* build_auth: an empty token is none. *)
Refuses ==
  \/ settings.token = "short"
  \/ settings.token \in {None, "empty"} /\ ~IsLoopback /\ ~settings.allow

(* Of the settings the server keeps three; a refusal ends the process.     *)
Start ==
  /\ phase = "off"
  /\ phase' = IF Transport = "http" /\ Refuses THEN "refused" ELSE "serving"
  /\ conf' = [rps |-> settings.rps, burst |-> settings.burst,
              bearer |-> Transport = "http" /\ settings.token = "long"]
  /\ tokens' = Burst'
  /\ settings' = None /\ verdict' = None
  /\ UNCHANGED <<results, container, built, call, events>>

Serve ==
  /\ phase = "serving"
  /\ Refill \/ \E c \in Calls : Handle(c)
  /\ UNCHANGED <<settings, phase, results, verdict>>

Rest ==
  /\ phase = "refused" \/ \A c \in Calls : call[c].step = "done"
  /\ UNCHANGED vars

Next == Doctor \/ Check \/ Report \/ Start \/ Serve \/ Rest

Spec == Init /\ [][Next]_vars
-------------------------------------------------------------------------------
(* The doctor is run "before starting the server or committing to CI/CD"   *)
(* (README.md:244), on the same settings.  An HTTP server that it passed   *)
(* starts, unless its token is empty or short, and one whose exposure it   *)
(* fails does not, unless the host is the loopback by a name the doctor    *)
(* does not know.  No other host is served without a token and consent.    *)
DoctorForetells ==
  [][Start /\ Transport = "http" =>
       /\ phase' = "refused" /\ verdict # None /\ verdict.code = 0 =>
            settings.token \in {"empty", "short"}
       /\ phase' = "serving" /\ verdict # None /\ verdict.server = "FAIL" =>
            settings.host = "alias"
       /\ phase' = "serving" /\ settings.host = "external" => conf'.bearer \/ settings.allow]_vars
===============================================================================
