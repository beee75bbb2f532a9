------------------------- MODULE ServiceProcessProofs -------------------------
(***************************************************************************)
(* Proofs about ServiceProcess, for any settings and any number of         *)
(* requests: what the doctor says of a server foretells whether it starts, *)
(* every request is audited once, and two calls have different             *)
(* DatabaseServices only if a thread and another call made a container     *)
(* each.                                                                   *)
(***************************************************************************)
EXTENDS ServiceProcess, TLAPS

Statuses == {"PASS", "WARN", "FAIL", "SKIPPED"}

(* The doctor has come so far with its checks; the verdict of one that has *)
(* ended is of the settings that are still the chosen ones.                *)
DoctorInv ==
  /\ phase \in {"off", "doctor", "refused", "serving"}
  /\ phase \in {"off", "doctor"} =>
       /\ settings \in Settings
       /\ verdict # None => verdict.server = Security /\ (verdict.code = 0 => Security # "FAIL")
  /\ phase # "doctor" => results = <<>>
  /\ phase = "doctor" =>
       /\ results \in Seq(Statuses) /\ Len(results) <= 4
       /\ \A i \in 1..Len(results) : results[i] \in Checks[i]

LEMMA DoctorInitially == Init => DoctorInv
  BY DEF Init, DoctorInv

LEMMA ChecksAreFour == settings \in Settings =>
  /\ Len(Checks) = 4 /\ Checks[4] = {Security}
  /\ \A i \in 1..4 : Checks[i] \subseteq Statuses
<1> SUFFICES ASSUME settings \in Settings
             PROVE  /\ Len(Checks) = 4 /\ Checks[4] = {Security}
                    /\ \A i \in 1..4 : Checks[i] \subseteq Statuses
  OBVIOUS
<1>1. Len(Checks) = 4 /\ Checks = <<Checks[1], Checks[2], Checks[3], Checks[4]>>
  BY DEF Checks
<1>2. Checks[1] = Postgres /\ Checks[2] = CloudWatch /\ Checks[3] = NewRelic /\ Checks[4] = {Security}
  BY DEF Checks
<1>3. /\ Postgres \subseteq Statuses /\ CloudWatch \subseteq Statuses /\ NewRelic \subseteq Statuses
      /\ Security \in Statuses
  <2>1. {settings.allow, settings.pii, settings.db} \subseteq BOOLEAN /\ settings.rps \in Int
    BY SettingsAssumption
  <2>2. Postgres \subseteq Statuses
    BY <2>1 DEF Postgres, Statuses
  <2>3. CloudWatch \subseteq Statuses
    BY DEF CloudWatch, Statuses
  <2>4. NewRelic \subseteq Statuses
    BY DEF NewRelic, Statuses
  <2>5. Security \in Statuses
    BY <2>1 DEF Security, Statuses
  <2> QED
    BY <2>2, <2>3, <2>4, <2>5
<1>4. \A i \in 1..4 : i = 1 \/ i = 2 \/ i = 3 \/ i = 4
  OBVIOUS
<1> QED
  BY <1>1, <1>2, <1>3, <1>4

LEMMA DoctorStep == DoctorInv /\ [Next]_vars => DoctorInv'
<1> SUFFICES ASSUME DoctorInv, [Next]_vars PROVE DoctorInv'
  OBVIOUS
<1>1. CASE Doctor
  BY <1>1 DEF DoctorInv, Doctor, Security, pipeline
<1>2. CASE Check
  <2>1. PICK r \in Checks[Len(results) + 1] : results' = Append(results, r)
    BY <1>2 DEF Check
  <2>2. /\ phase = "doctor" /\ phase' = "doctor" /\ results \in Seq(Statuses)
        /\ Len(results) < 4 /\ UNCHANGED <<settings, verdict>>
    BY <1>2, ChecksAreFour DEF Check, DoctorInv
  <2>3. r \in Statuses /\ results' \in Seq(Statuses) /\ Len(results') = Len(results) + 1
    BY <2>1, <2>2, ChecksAreFour DEF DoctorInv
  <2>4. Checks' = Checks /\ Security' = Security
    BY <2>2 DEF Checks, Postgres, CloudWatch, NewRelic, Security
  <2>5. \A i \in 1..Len(results') : results'[i] \in Checks[i]
    BY <2>1, <2>2, <2>3 DEF DoctorInv
  <2> QED
    BY <2>2, <2>3, <2>4, <2>5 DEF DoctorInv
<1>3. CASE Report
  <2>1. results[4] = Security /\ Len(results) = 4
    BY <1>3, ChecksAreFour DEF Report, DoctorInv
  <2>2. verdict'.server = Security /\ (verdict'.code = 0 => Security # "FAIL")
    BY <1>3, <2>1 DEF Report, DoctorInv
  <2> QED
    BY <1>3, <2>2 DEF Report, DoctorInv, Security
<1>4. CASE Start
  BY <1>4 DEF DoctorInv, Start
<1>5. CASE Serve
  BY <1>5 DEF DoctorInv, Serve
<1>6. CASE UNCHANGED vars
  BY <1>6 DEF DoctorInv, vars, Security, Checks, Postgres, CloudWatch, NewRelic
<1> QED
  BY <1>1, <1>2, <1>3, <1>4, <1>5, <1>6 DEF Next, Rest

LEMMA StartAsForetold == DoctorInv /\ Start /\ Transport = "http" =>
  /\ phase' = "refused" /\ verdict # None /\ verdict.code = 0 => settings.token \in {"empty", "short"}
  /\ phase' = "serving" /\ verdict # None /\ verdict.server = "FAIL" => settings.host = "alias"
  /\ phase' = "serving" /\ settings.host = "external" => conf'.bearer \/ settings.allow
<1> SUFFICES ASSUME DoctorInv, Start, Transport = "http"
             PROVE  /\ phase' = "refused" /\ verdict # None /\ verdict.code = 0 =>
                         settings.token \in {"empty", "short"}
                    /\ phase' = "serving" /\ verdict # None /\ verdict.server = "FAIL" =>
                         settings.host = "alias"
                    /\ phase' = "serving" /\ settings.host = "external" => conf'.bearer \/ settings.allow
  OBVIOUS
<1>1. /\ settings.host \in {"loopback", "alias", "external"}
      /\ settings.token \in {None, "empty", "short", "long"}
      /\ {settings.allow, settings.pii} \subseteq BOOLEAN /\ settings.rps \in Int
  BY SettingsAssumption DEF DoctorInv, Start
<1>2. phase' = "refused" => Refuses
  BY DEF Start
<1>3. phase' = "serving" => ~Refuses
  BY DEF Start
<1>4. verdict # None => verdict.server = Security /\ (verdict.code = 0 => Security # "FAIL")
  BY DEF Start, DoctorInv
<1>5. conf'.bearer = (settings.token = "long")
  BY DEF Start
<1>6. Security = "FAIL" <=> settings.host # "loopback" /\ settings.token = None /\ ~settings.allow
  BY <1>1 DEF Security
<1>7. Refuses <=> \/ settings.token = "short"
                  \/ settings.token \in {None, "empty"} /\ settings.host = "external" /\ ~settings.allow
  BY <1>1 DEF Refuses, IsLoopback
<1> QED
  BY <1>1, <1>2, <1>3, <1>4, <1>5, <1>6, <1>7

(* A server starts over HTTP as the doctor foretold, on the same settings, *)
(* but for the hosts and tokens that doctor.py:380-384 reads otherwise     *)
(* than transport_security.py does.                                        *)
THEOREM Foretold == Spec => DoctorForetells
<1>1. DoctorInv /\ [Next]_vars => [Start /\ Transport = "http" =>
        /\ phase' = "refused" /\ verdict # None /\ verdict.code = 0 => settings.token \in {"empty", "short"}
        /\ phase' = "serving" /\ verdict # None /\ verdict.server = "FAIL" => settings.host = "alias"
        /\ phase' = "serving" /\ settings.host = "external" => conf'.bearer \/ settings.allow]_vars
  BY StartAsForetold
<1> QED
  BY <1>1, DoctorInitially, DoctorStep, PTL DEF Spec, DoctorForetells
-------------------------------------------------------------------------------
Steps == {"none", "pass", "work", "done"} \cup Looking
OrNone == Calls \cup {None}

Held == {None} \cup (OrNone \X OrNone)
Fates == {"ok", "rejected", "exception", "gone"}

Records == [step : Steps, kind : Kinds, depth : Nat, from : OrNone, service : Held,
            missed : BOOLEAN, fate : {None} \cup Fates]

TypeInv ==
  /\ container \in OrNone
  /\ built \in [Calls -> [Services -> OrNone]]
  /\ call \in [Calls -> Records]

UsesDb(c) == call[c].kind = "db"

(* Where a call stands with the container and its service.  A coroutine    *)
(* that has read one of them as missing is alone in doing so until it has  *)
(* set it.                                                                 *)
LookAt(c) ==
  /\ call[c].step \in {"none", "pass", "look"} => ~call[c].missed
  /\ call[c].step = "make" => call[c].missed
  /\ call[c].step = "have" => container # None
  /\ call[c].step \in {"none", "pass", "look", "make", "have"} => call[c].from = None
  /\ call[c].step \in {"find", "build", "fetch"} => call[c].from # None
  /\ call[c].step \in {"none", "pass"} \cup Looking => call[c].service = None
  /\ call[c].step \in Looking => Service(call[c].kind) # None

LookInv == \A c \in Calls : LookAt(c)

OwnerInv ==
  /\ container # None => call[container].missed
  /\ \A c \in Calls : call[c].from # None => call[call[c].from].missed

OnLoop(c) == ~Threaded(call[c].kind)

LoopInv ==
  /\ \A c, d \in Calls : OnLoop(c) /\ OnLoop(d) /\ call[c].step \in Looking /\ call[d].step \in Looking
                          => c = d
  /\ \A c \in Calls : OnLoop(c) /\ call[c].missed /\ call[c].step # "make" => container # None
  /\ \A c, d \in Calls : OnLoop(c) /\ OnLoop(d) /\ call[c].missed /\ call[d].missed => c = d

DatabaseInv == \A c \in Calls : UsesDb(c) =>
  /\ call[c].step = "build" => built[call[c].from]["db"] = None
  /\ call[c].step = "fetch" => built[call[c].from]["db"] # None
  /\ call[c].service # None => /\ call[c].from # None
                               /\ built[call[c].from]["db"] # None
                               /\ call[c].service = <<call[c].from, built[call[c].from]["db"]>>

ServiceInv == TypeInv /\ LookInv /\ OwnerInv /\ LoopInv /\ DatabaseInv

LEMMA ServiceInitially == Init => ServiceInv
<1> SUFFICES ASSUME Init PROVE ServiceInv
  OBVIOUS
<1> USE PipelineAssumption
<1>1. TypeInv
  BY DEF Init, PipelineInit, TypeInv, Idle, Records, Steps, OrNone, Held, Kinds, Services
<1>2. LookInv /\ OwnerInv /\ LoopInv /\ DatabaseInv
  BY DEF Init, PipelineInit, Idle, LookInv, LookAt, OwnerInv, LoopInv, DatabaseInv, UsesDb, OnLoop, Looking
<1> QED
  BY <1>1, <1>2 DEF ServiceInv

(* The steps in which no call looks for anything, as far as they matter.   *)
Outside(c) ==
  /\ UNCHANGED <<container, built>>
  /\ \/ /\ call[c].step = "none"
        /\ \E kind \in Kinds : call' = [call EXCEPT ![c] = [@ EXCEPT !.step = "pass", !.kind = kind]]
     \/ call[c].step = "pass" /\ call' = [call EXCEPT ![c].depth = @ + 1]
     \/ call[c].step = "pass" /\ Service(call[c].kind) = None /\ Goto(c, "work")
     \/ /\ call[c].step \in {"pass", "work"}
        /\ \E fate \in Fates :
             call' = [call EXCEPT ![c] = [@ EXCEPT !.step = "done", !.fate = fate]]

Begin(c) ==
  /\ UNCHANGED <<container, built>>
  /\ LoopFree /\ call[c].step = "pass" /\ Service(call[c].kind) # None /\ Goto(c, "look")

LEMMA HandleCases == ASSUME NEW c \in Calls, Handle(c)
  PROVE Outside(c) \/ Begin(c) \/ Look(c) \/ Make(c) \/ Have(c) \/ Find(c) \/ Build(c) \/ Fetch(c)
<1>1. CASE Arrive(c)
  BY <1>1 DEF Arrive, Outside
<1>2. CASE Pass(c)
  BY <1>2 DEF Pass, Outside, Begin, Goto
<1>3. CASE OverLimit(c) \/ Raise(c) \/ Cancel(c)
  BY <1>3 DEF OverLimit, Raise, Cancel, Leave, Outside, Fates
<1>4. CASE Answer(c)
  BY <1>4 DEF Answer, Leave, Outside, Fates
<1> QED
  BY <1>1, <1>2, <1>3, <1>4 DEF Handle

LEMMA TypeStep == ASSUME NEW c \in Calls, Handle(c), ServiceInv PROVE TypeInv'
<1> USE DEF TypeInv, ServiceInv
<1>0. /\ {"none", "pass", "work", "done", "look", "make", "have", "find", "build", "fetch"} \subseteq Steps
      /\ c \in OrNone /\ None \in OrNone
  BY DEF Steps, Looking, OrNone
<1>1. ASSUME NEW r \in Records, call' = [call EXCEPT ![c] = r] PROVE call' \in [Calls -> Records]
  BY <1>1
<1>2. ASSUME NEW s \in Steps PROVE [call[c] EXCEPT !.step = s] \in Records
  BY DEF Records
<1>3. CASE Outside(c)
  <2>1. ASSUME NEW kind \in Kinds PROVE [call[c] EXCEPT !.step = "pass", !.kind = kind] \in Records
    BY <1>0 DEF Records
  <2>2. [call[c] EXCEPT !.depth = @ + 1] \in Records
    BY DEF Records
  <2>3. ASSUME NEW fate \in Fates PROVE [call[c] EXCEPT !.step = "done", !.fate = fate] \in Records
    BY <1>0 DEF Records
  <2> QED
    BY <1>0, <1>1, <1>2, <1>3, <2>1, <2>2, <2>3 DEF Outside, Goto
<1>4. CASE Begin(c) \/ Find(c)
  BY <1>0, <1>1, <1>2, <1>4 DEF Begin, Find, Goto
<1>5. CASE Look(c)
  <2>1. [call[c] EXCEPT !.step = "make", !.missed = TRUE] \in Records
    BY <1>0 DEF Records
  <2> QED
    BY <1>0, <1>1, <1>2, <1>5, <2>1 DEF Look, Goto
<1>6. CASE Make(c)
  BY <1>0, <1>1, <1>2, <1>6 DEF Make, Goto
<1>7. CASE Have(c)
  <2>1. [call[c] EXCEPT !.step = "find", !.from = container] \in Records
    BY <1>0 DEF Records
  <2> QED
    BY <1>1, <1>7, <2>1 DEF Have
<1>8. CASE Build(c)
  <2>1. call[c].from \in Calls /\ Service(call[c].kind) \in Services
    BY <1>8 DEF Build, LookInv, LookAt, Service, Services, OrNone, Looking, Records
  <2>2. built' \in [Calls -> [Services -> OrNone]]
    BY <1>0, <1>8, <2>1 DEF Build
  <2> QED
    BY <1>0, <1>1, <1>2, <1>8, <2>2 DEF Build, Goto
<1>9. CASE Fetch(c)
  <2>1. call[c].from \in Calls /\ Service(call[c].kind) \in Services
    BY <1>9 DEF Fetch, LookInv, LookAt, Service, Services, OrNone, Looking, Records
  <2>2. <<call[c].from, Own(c)>> \in Held
    BY <2>1 DEF Own, Held, OrNone
  <2>3. [call[c] EXCEPT !.step = "work", !.service = <<call[c].from, Own(c)>>] \in Records
    BY <1>0, <2>2 DEF Records
  <2> QED
    BY <1>1, <1>9, <2>3 DEF Fetch
<1> QED
  BY <1>3, <1>4, <1>5, <1>6, <1>7, <1>8, <1>9, HandleCases

(* What a step of c makes of c; it leaves the other calls alone.           *)
Becomes(c, step, from, service, missed) ==
  /\ call'[c].step = step /\ call'[c].kind = call[c].kind
  /\ call'[c].from = from /\ call'[c].service = service /\ call'[c].missed = missed

Keeps(c, step) == Becomes(c, step, call[c].from, call[c].service, call[c].missed)

LEMMA Others == ASSUME NEW c \in Calls, Handle(c), ServiceInv, NEW d \in Calls, d # c
                PROVE  call'[d] = call[d]
<1> USE DEF ServiceInv, TypeInv
<1>1. CASE Outside(c)
  BY <1>1 DEF Outside, Goto
<1>2. CASE Begin(c) \/ Look(c) \/ Make(c) \/ Have(c)
  BY <1>2 DEF Begin, Look, Make, Have, Goto
<1>3. CASE Find(c) \/ Build(c) \/ Fetch(c)
  BY <1>3 DEF Find, Build, Fetch, Goto
<1> QED
  BY <1>1, <1>2, <1>3, HandleCases

Aside(c) ==
  \/ /\ call[c].step = "none" /\ call'[c].step = "pass"
     /\ call'[c].from = call[c].from /\ call'[c].service = call[c].service
     /\ call'[c].missed = call[c].missed
  \/ call[c].step = "pass" /\ Keeps(c, "pass")
  \/ call[c].step = "pass" /\ Keeps(c, "work")
  \/ call[c].step \in {"pass", "work"} /\ Keeps(c, "done")

LEMMA Effects == ASSUME NEW c \in Calls, ServiceInv
  PROVE  /\ Outside(c) => Aside(c)
         /\ Begin(c) => call[c].step = "pass" /\ Keeps(c, "look") /\ Service(call[c].kind) # None
         /\ Look(c) => /\ call[c].step = "look"
                       /\ \/ container = None /\ Becomes(c, "make", call[c].from, call[c].service, TRUE)
                          \/ container # None /\ Keeps(c, "have")
         /\ Make(c) => call[c].step = "make" /\ Keeps(c, "have")
         /\ Have(c) => call[c].step = "have" /\ Becomes(c, "find", container, call[c].service, call[c].missed)
         /\ Find(c) => /\ call[c].step = "find"
                       /\ \/ Own(c) = None /\ Keeps(c, "build")
                          \/ Own(c) # None /\ Keeps(c, "fetch")
         /\ Build(c) => call[c].step = "build" /\ Keeps(c, "fetch")
         /\ Fetch(c) => /\ call[c].step = "fetch"
                        /\ Becomes(c, "work", call[c].from, <<call[c].from, Own(c)>>, call[c].missed)
<1> USE DEF ServiceInv, TypeInv, Records, Becomes, Keeps
<1>0. \A s : call' = [call EXCEPT ![c].step = s] => Keeps(c, s)
  OBVIOUS
<1>1. Outside(c) => Aside(c)
  <2>1. ASSUME NEW kind, call' = [call EXCEPT ![c] = [@ EXCEPT !.step = "pass", !.kind = kind]]
        PROVE  /\ call'[c].step = "pass" /\ call'[c].from = call[c].from
               /\ call'[c].service = call[c].service /\ call'[c].missed = call[c].missed
    BY <2>1
  <2>2. call[c].step = "pass" /\ call' = [call EXCEPT ![c].depth = @ + 1] => Keeps(c, "pass")
    OBVIOUS
  <2>3. ASSUME NEW fate, call' = [call EXCEPT ![c] = [@ EXCEPT !.step = "done", !.fate = fate]]
        PROVE  Keeps(c, "done")
    BY <2>3
  <2> HIDE DEF Keeps
  <2> QED
    BY <1>0, <2>1, <2>2, <2>3 DEF Outside, Goto, Aside
<1>2. Begin(c) => call[c].step = "pass" /\ Keeps(c, "look") /\ Service(call[c].kind) # None
  BY <1>0 DEF Begin, Goto
<1>3. Look(c) => /\ call[c].step = "look"
                 /\ \/ container = None /\ Becomes(c, "make", call[c].from, call[c].service, TRUE)
                    \/ container # None /\ Keeps(c, "have")
  <2>1. call' = [call EXCEPT ![c] = [@ EXCEPT !.step = "make", !.missed = TRUE]]
          => Becomes(c, "make", call[c].from, call[c].service, TRUE)
    OBVIOUS
  <2> HIDE DEF Keeps, Becomes
  <2> QED
    BY <1>0, <2>1 DEF Look, Goto
<1>4. Make(c) => call[c].step = "make" /\ Keeps(c, "have")
  BY <1>0 DEF Make, Goto
<1>5. Have(c) => call[c].step = "have" /\ Becomes(c, "find", container, call[c].service, call[c].missed)
  BY DEF Have
<1>6. Find(c) => /\ call[c].step = "find"
                 /\ \/ Own(c) = None /\ Keeps(c, "build")
                    \/ Own(c) # None /\ Keeps(c, "fetch")
  BY <1>0 DEF Find, Goto
<1>7. Build(c) => call[c].step = "build" /\ Keeps(c, "fetch")
  BY <1>0 DEF Build, Goto
<1>8. Fetch(c) => /\ call[c].step = "fetch"
                  /\ Becomes(c, "work", call[c].from, <<call[c].from, Own(c)>>, call[c].missed)
  BY DEF Fetch
<1> HIDE DEF Keeps, Becomes, ServiceInv, TypeInv
<1> QED
  BY <1>1, <1>2, <1>3, <1>4, <1>5, <1>6, <1>7, <1>8

LEMMA LookStep == ASSUME NEW c \in Calls, Handle(c), ServiceInv PROVE LookInv' /\ OwnerInv'
<1>0. /\ \A d \in Calls : d # c => call'[d] = call[d]
      /\ LookInv /\ LookAt(c) /\ OwnerInv /\ container \in OrNone
      /\ \A d \in Calls : call[d].from \in OrNone
  BY Others DEF ServiceInv, TypeInv, Records, LookInv
<1>1. container' = container \/ (container' = c /\ Make(c))
  BY HandleCases DEF Outside, Begin, Look, Make, Have, Find, Build, Fetch
<1>2. container # None => container' # None
  BY <1>1, PipelineAssumption
<1>3. LookAt(c)'
  <2> USE DEF LookAt, Looking, Aside, Keeps, Becomes
  <2>1. CASE Outside(c)
    BY <1>0, <2>1, Effects
  <2>2. CASE Begin(c)
    BY <1>0, <2>2, Effects
  <2>7. CASE Look(c)
    <3>1. container' = container
      BY <2>7 DEF Look
    <3> QED
      BY <1>0, <2>7, <3>1, Effects
  <2>3. CASE Make(c)
    BY <1>0, <1>1, <2>3, Effects, PipelineAssumption DEF Make
  <2>4. CASE Have(c)
    BY <1>0, <2>4, Effects
  <2>5. CASE Find(c) \/ Build(c)
    BY <1>0, <2>5, Effects
  <2>6. CASE Fetch(c)
    BY <1>0, <2>6, Effects
  <2> QED
    BY <2>1, <2>2, <2>3, <2>4, <2>5, <2>6, <2>7, HandleCases
<1>4. \A d \in Calls : d # c => LookAt(d)'
  BY <1>0, <1>2 DEF LookInv, LookAt
<1>5. call[c].missed => call'[c].missed
  BY <1>0, HandleCases, Effects DEF Aside, Keeps, Becomes
<1>6. call'[c].from = call[c].from \/ (call'[c].from = container /\ Have(c))
  BY <1>0, HandleCases, Effects DEF Aside, Keeps, Becomes
<1>7. Make(c) => call'[c].missed
  BY <1>0, Effects DEF Aside, Keeps, Becomes, LookAt
<1> QED
  BY <1>0, <1>1, <1>3, <1>4, <1>5, <1>6, <1>7 DEF LookInv, OwnerInv, OrNone

LEMMA LoopStep == ASSUME NEW c \in Calls, Handle(c), ServiceInv PROVE LoopInv'
<1>0. /\ \A d \in Calls : d # c => call'[d] = call[d]
      /\ LookInv /\ LookAt(c) /\ LoopInv
  BY Others DEF ServiceInv, LookInv
<1>1. container' = container \/ (container' = c /\ c # None /\ Make(c))
  BY HandleCases, PipelineAssumption DEF Outside, Begin, Look, Make, Have, Find, Build, Fetch
<1>2. call[c].step # "none" => call'[c].kind = call[c].kind
  BY <1>0, HandleCases, Effects DEF Aside, Keeps, Becomes
<1>3. call'[c].step \in Looking => call[c].step \in Looking \/ Begin(c)
  BY <1>0, HandleCases, Effects DEF Aside, Keeps, Becomes, Looking
<1>4. call'[c].missed => call[c].step # "none" /\ (call[c].missed \/ (Look(c) /\ container = None))
  BY <1>0, HandleCases, Effects DEF Aside, Keeps, Becomes, LookAt
<1>5. Begin(c) => \A d \in Calls : call[d].step \in Looking => ~OnLoop(d)
  BY DEF Begin, LoopFree, OnLoop
<1>6. ASSUME NEW d \in Calls, NEW e \in Calls, OnLoop(d)', OnLoop(e)',
             call'[d].step \in Looking, call'[e].step \in Looking
      PROVE  d = e
  <2>1. call[c].step = "none" => call'[c].step \notin Looking
    BY <1>3 DEF Looking, Begin
  <2> QED
    BY <1>0, <1>2, <1>3, <1>5, <1>6, <2>1 DEF LoopInv, OnLoop
<1>7. ASSUME NEW d \in Calls, OnLoop(d)', call'[d].missed, call'[d].step # "make"
      PROVE  container' # None
  <2>1. CASE d # c
    BY <1>0, <1>1, <1>7, <2>1, PipelineAssumption DEF LoopInv, OnLoop
  <2>2. CASE d = c /\ call[c].step = "make"
    <3>1. Make(c)
      BY <1>7, <2>2, HandleCases DEF Outside, Begin, Look, Make, Have, Find, Build, Fetch
    <3> QED
      BY <3>1, PipelineAssumption DEF Make
  <2>3. CASE d = c /\ call[c].step # "make"
    <3>1. Look(c) => container # None
      BY <1>7, <2>3, Effects DEF Becomes
    <3> QED
      BY <1>0, <1>1, <1>2, <1>4, <1>7, <2>3, <3>1, PipelineAssumption DEF LoopInv, OnLoop
  <2> QED
    BY <2>1, <2>2, <2>3
<1>8. ASSUME NEW d \in Calls, NEW e \in Calls, OnLoop(d)', OnLoop(e)', call'[d].missed, call'[e].missed
      PROVE  d = e
  <2>1. ASSUME NEW x \in Calls, x # c, OnLoop(x), OnLoop(c), call[x].missed, Look(c)
        PROVE  container # None
    <3>1. call[x].step # "make"
      BY <1>0, <2>1 DEF LoopInv, Looking, Look
    <3> QED
      BY <1>0, <2>1, <3>1 DEF LoopInv
  <2> QED
    BY <1>0, <1>2, <1>4, <1>8, <2>1 DEF LoopInv, OnLoop
<1> QED
  BY <1>6, <1>7, <1>8 DEF LoopInv

LEMMA DatabaseStep == ASSUME NEW c \in Calls, Handle(c), ServiceInv PROVE DatabaseInv'
<1>0. /\ \A d \in Calls : d # c => call'[d] = call[d]
      /\ LookInv /\ LookAt(c) /\ LoopInv /\ DatabaseInv
      /\ built \in [Calls -> [Services -> OrNone]]
      /\ \A d \in Calls : call[d].from \in OrNone
  BY Others DEF ServiceInv, LookInv, TypeInv, Records
<1>1. UsesDb(c) => Own(c) = built[call[c].from]["db"]
  BY DEF UsesDb, Own, Service, LogKinds
<1>2. CASE ~Build(c)
  <2>1. built' = built
    BY <1>2, HandleCases DEF Outside, Begin, Look, Make, Have, Find, Build, Fetch
  <2>2. \A d \in Calls : d # c => (UsesDb(d) =>
          /\ call[d].step = "build" => built[call[d].from]["db"] = None
          /\ call[d].step = "fetch" => built[call[d].from]["db"] # None
          /\ call[d].service # None => /\ call[d].from # None
                                       /\ built[call[d].from]["db"] # None
                                       /\ call[d].service = <<call[d].from, built[call[d].from]["db"]>>)'
    BY <1>0, <2>1 DEF DatabaseInv, UsesDb
  <2>3. UsesDb(c)' =>
          /\ call'[c].step = "build" => built[call'[c].from]["db"] = None
          /\ call'[c].step = "fetch" => built[call'[c].from]["db"] # None
          /\ call'[c].service # None => /\ call'[c].from # None
                                        /\ built[call'[c].from]["db"] # None
                                        /\ call'[c].service = <<call'[c].from, built[call'[c].from]["db"]>>
    <3>1. CASE Outside(c)
      BY <1>0, <3>1, Effects DEF Aside, Keeps, Becomes, UsesDb, DatabaseInv, LookAt
    <3>2. CASE Begin(c) \/ Look(c) \/ Make(c) \/ Have(c)
      BY <1>0, <3>2, Effects DEF Keeps, Becomes, LookAt, Looking
    <3>3. CASE Find(c)
      <4>1. call[c].step = "find" /\ call[c].service = None
        BY <1>0, <3>3, Effects DEF LookAt, Looking
      <4>2. /\ call'[c].from = call[c].from /\ call'[c].kind = call[c].kind
            /\ call'[c].service = None
            /\ \/ Own(c) = None /\ call'[c].step = "build"
               \/ Own(c) # None /\ call'[c].step = "fetch"
        BY <3>3, <4>1, Effects DEF Keeps, Becomes
      <4> QED
        BY <1>1, <4>2 DEF UsesDb
    <3>4. CASE Fetch(c)
      BY <1>0, <1>1, <3>4, Effects DEF Becomes, LookAt, UsesDb, DatabaseInv
    <3> QED
      BY <1>2, <3>1, <3>2, <3>3, <3>4, HandleCases
  <2> QED
    BY <2>1, <2>2, <2>3 DEF DatabaseInv, UsesDb
<1>3. CASE Build(c) /\ ~UsesDb(c)
  <2>1. /\ Service(call[c].kind) \in Services \ {"db"}
        /\ call[c].from \in Calls
    BY <1>0, <1>3 DEF Build, LookAt, Looking, UsesDb, OrNone, Service, LogKinds, Services
  <2>2. \A k \in Calls : built'[k]["db"] = built[k]["db"]
    BY <1>0, <1>3, <2>1 DEF Build
  <2>3. ~UsesDb(c)'
    BY <1>3, Effects DEF Keeps, Becomes, UsesDb
  <2> QED
    BY <1>0, <2>2, <2>3 DEF DatabaseInv, UsesDb, OrNone, LookInv, LookAt
<1>4. CASE Build(c) /\ UsesDb(c)
  <2>1. call[c].from \in Calls /\ call[c].step = "build" /\ built[call[c].from]["db"] = None
    BY <1>0, <1>4 DEF Build, LookAt, OrNone, DatabaseInv
  <2>2. /\ built'[call[c].from]["db"] = c
        /\ \A k \in Calls : k # call[c].from => built'[k]["db"] = built[k]["db"]
    BY <1>0, <1>4, <2>1 DEF Build, Service, LogKinds, Services, UsesDb
  <2>3. ASSUME NEW d \in Calls, d # c, UsesDb(d)
        PROVE  call[d].step # "build"
    BY <1>0, <1>4, <2>1, <2>3 DEF LoopInv, OnLoop, Threaded, PlainFunctions, LogKinds, UsesDb, Looking
  <2>4. ASSUME NEW d \in Calls, d # c, UsesDb(d)
        PROVE  /\ call[d].step = "fetch" => built'[call[d].from]["db"] # None
               /\ call[d].service # None =>
                    /\ call[d].from # None /\ built'[call[d].from]["db"] # None
                    /\ call[d].service = <<call[d].from, built'[call[d].from]["db"]>>
    BY <1>0, <2>1, <2>2, <2>4 DEF DatabaseInv, LookInv, LookAt, OrNone
  <2>5. /\ call'[c].step = "fetch" /\ call'[c].service = None /\ call'[c].from = call[c].from
    BY <1>0, <1>4, <2>1, Effects DEF Keeps, Becomes, LookAt, Looking
  <2> QED
    BY <1>0, <2>1, <2>2, <2>3, <2>4, <2>5, PipelineAssumption DEF DatabaseInv, UsesDb
<1> QED
  BY <1>2, <1>3, <1>4

LEMMA ServiceStep == ServiceInv /\ [Next]_vars => ServiceInv'
<1> SUFFICES ASSUME ServiceInv, [Next]_vars PROVE ServiceInv'
  OBVIOUS
<1>1. ASSUME NEW c \in Calls, Handle(c) PROVE ServiceInv'
  BY <1>1, TypeStep, LookStep, LoopStep, DatabaseStep DEF ServiceInv
<1>2. ASSUME UNCHANGED <<container, built, call>> PROVE ServiceInv'
  BY <1>2 DEF ServiceInv, TypeInv, LookInv, LookAt, OwnerInv, LoopInv, OnLoop, DatabaseInv, UsesDb
<1>3. ASSUME Refill PROVE ServiceInv'
  BY <1>2, <1>3 DEF Refill
<1>4. ASSUME Doctor \/ Check \/ Report \/ Start PROVE ServiceInv'
  BY <1>2, <1>4 DEF Doctor, Check, Report, Start, pipeline
<1> QED
  BY <1>1, <1>2, <1>3, <1>4 DEF Next, Serve, Rest, vars

(* However the requests interleave, two calls have different               *)
(* DatabaseServices only if two made a container each, at least one of     *)
(* them in a thread (core/container.py:101), as the CloudWatch tools and   *)
(* logs://groups are.  Calls on the event loop alone never do, so tools    *)
(* that are coroutines share one set of query slots.                       *)
THEOREM OneService == Spec => []OneDatabaseService
<1>1. ServiceInv => OneDatabaseService
  <2> SUFFICES ASSUME ServiceInv, NEW c \in Calls, NEW d \in Calls, call[c].service # call[d].service,
                      call[c].service # None, call[d].service # None,
                      Service(call[c].kind) = "db", Service(call[d].kind) = "db"
               PROVE  \E x, y \in Calls : x # y /\ call[x].missed /\ call[y].missed /\ Threaded(call[x].kind)
    BY DEF OneDatabaseService
  <2>1. UsesDb(c) /\ UsesDb(d)
    BY PipelineAssumption DEF UsesDb, Service, Services, ServiceInv, TypeInv, Records, Kinds
  <2> DEFINE x == call[c].from
             y == call[d].from
  <2>2. x # y /\ x \in Calls /\ y \in Calls
    BY <2>1 DEF ServiceInv, DatabaseInv, TypeInv, Records, OrNone
  <2>3. call[x].missed /\ call[y].missed
    BY <2>2, PipelineAssumption DEF ServiceInv, OwnerInv
  <2>4. Threaded(call[x].kind) \/ Threaded(call[y].kind)
    BY <2>2, <2>3 DEF ServiceInv, LoopInv, OnLoop
  <2> QED
    BY <2>2, <2>3, <2>4
<1> QED
  BY <1>1, ServiceInitially, ServiceStep, PTL DEF Spec
-------------------------------------------------------------------------------
(* What the audit makes of the way a call ended.                           *)
Outcome(r) == CASE r.fate = "gone" -> None
                [] r.kind \in ErrorsAsText /\ r.fate = "rejected" -> "ok"
                [] OTHER -> r.fate

(* A request is inside of the audit from its first middleware on, which is *)
(* why the event of its end is never lost and never doubled.               *)
AuditAt(c) ==
  /\ call[c].step # "done" => events[c] = <<>>
  /\ call[c].step \notin {"none", "pass", "done"} => call[c].depth > 0
  /\ call[c].step = "done" =>
       /\ events[c] = IF Audited(call[c].kind) /\ call[c].depth > 0
                      THEN <<[outcome |-> Outcome(call[c]), actor |-> Actor]>> ELSE <<>>
       /\ call[c].depth = 0 => call[c].fate = "gone"

AuditInv ==
  /\ DOMAIN events = Calls
  /\ phase # "serving" => \A c \in Calls : call[c].step = "none"
  /\ \A c \in Calls : AuditAt(c)

LEMMA AuditInitially == Init => AuditInv
  BY DEF Init, PipelineInit, Idle, AuditInv, AuditAt

LEMMA AuditOutermost == Len(Chain) \in Nat /\ Len(Chain) > 0 /\ Chain[1] = "audit"
<1>1. CASE Limited
  BY <1>1 DEF Chain
<1>2. CASE ~Limited
  BY <1>2 DEF Chain
<1> QED
  BY <1>1, <1>2

LEMMA LeaveStep ==
  ASSUME NEW c \in Calls, NEW fate \in Fates, NEW outcome, ServiceInv, AuditInv,
         call[c].step \in {"pass", "work"}, call[c].depth = 0 => fate = "gone",
         outcome = Outcome([call[c] EXCEPT !.step = "done", !.fate = fate]),
         Leave(c, fate, outcome)
  PROVE  AuditAt(c)' /\ DOMAIN events' = Calls /\ \A d \in Calls : d # c => events'[d] = events[d]
<1>1. call[c] \in Records /\ call[c].depth \in Nat /\ events[c] = <<>>
  BY DEF ServiceInv, TypeInv, Records, AuditInv, AuditAt
<1>2. (\E i \in 1..call[c].depth : Chain[i] = "audit") <=> call[c].depth > 0
  BY <1>1, AuditOutermost
<1>3. /\ call'[c].step = "done" /\ call'[c].fate = fate
      /\ call'[c].kind = call[c].kind /\ call'[c].depth = call[c].depth
      /\ Outcome(call'[c]) = outcome
  BY <1>1 DEF Leave, ServiceInv, TypeInv, Records
<1>4. Actor' = Actor
  BY DEF Leave, Actor
<1>5. CASE Audited(call[c].kind) /\ call[c].depth > 0
  <2>1. events' = [events EXCEPT ![c] = Append(@, [outcome |-> outcome, actor |-> Actor])]
    BY <1>2, <1>5 DEF Leave
  <2>2. events'[c] = <<[outcome |-> outcome, actor |-> Actor]>>
    BY <1>1, <2>1 DEF AuditInv
  <2> QED
    BY <1>3, <1>4, <1>5, <2>1, <2>2 DEF AuditAt, AuditInv
<1>6. CASE ~(Audited(call[c].kind) /\ call[c].depth > 0)
  <2>1. events' = events
    BY <1>2, <1>6 DEF Leave
  <2> QED
    BY <1>1, <1>3, <1>6, <2>1 DEF AuditAt, AuditInv
<1> QED
  BY <1>5, <1>6

LEMMA AuditStep == ASSUME NEW c \in Calls, Handle(c), ServiceInv, AuditInv
  PROVE  AuditAt(c)' /\ DOMAIN events' = Calls /\ \A d \in Calls : d # c => events'[d] = events[d]
<1>0. call \in [Calls -> Records] /\ call[c].depth \in Nat /\ call[c].kind \in Kinds /\ AuditAt(c)
  BY DEF ServiceInv, TypeInv, Records, AuditInv
<1>1. CASE Arrive(c)
  <2>1. call'[c].step = "pass" /\ events' = events /\ events[c] = <<>>
    BY <1>0, <1>1 DEF Arrive, AuditAt
  <2> QED
    BY <2>1 DEF AuditAt, AuditInv
<1>2. CASE Pass(c)
  <2>1. /\ events' = events /\ events[c] = <<>>
        /\ \/ call'[c].step = "pass"
           \/ call'[c].step \in {"work", "look"} /\ call'[c].depth = call[c].depth /\ call[c].depth > 0
    <3>1. CASE call[c].depth = Len(Chain)
      <4>1. call' = [call EXCEPT ![c].step = IF Service(call[c].kind) = None THEN "work" ELSE "look"]
        BY <1>2, <3>1 DEF Pass, Goto
      <4>2. call'[c].step \in {"work", "look"} /\ call'[c].depth = call[c].depth
        BY <1>0, <4>1 DEF Records
      <4> QED
        BY <1>0, <1>2, <3>1, <4>2, AuditOutermost DEF Pass, AuditAt
    <3>2. CASE call[c].depth # Len(Chain)
      <4>1. call' = [call EXCEPT ![c].depth = @ + 1] /\ call[c].step = "pass" /\ events' = events
        BY <1>2, <3>2 DEF Pass
      <4>2. call'[c].step = "pass"
        BY <1>0, <4>1 DEF Records
      <4> QED
        BY <1>0, <4>1, <4>2 DEF AuditAt
    <3> QED
      BY <3>1, <3>2
  <2> QED
    BY <2>1 DEF AuditAt, AuditInv
<1>3. CASE OverLimit(c)
  <2>1. call[c].depth # 0
    BY <1>0, <1>3, AuditOutermost DEF OverLimit
  <2> QED
    BY <1>3, <2>1, LeaveStep DEF OverLimit, Outcome, Fates, Records, ServiceInv, TypeInv
<1>4. CASE Look(c) \/ Make(c) \/ Have(c) \/ Find(c) \/ Build(c) \/ Fetch(c)
  <2>1. /\ events' = events /\ call[c].step \in Looking
        /\ call'[c].step \in Looking \cup {"work"} /\ call'[c].depth = call[c].depth
    <3>1. CASE Look(c) \/ Make(c) \/ Have(c)
      BY <1>0, <3>1 DEF Look, Make, Have, Goto, Looking, Records
    <3>2. CASE Find(c) \/ Build(c) \/ Fetch(c)
      BY <1>0, <3>2 DEF Find, Build, Fetch, Goto, Looking, Records
    <3> QED
      BY <1>4, <3>1, <3>2
  <2> QED
    BY <1>0, <2>1 DEF AuditAt, AuditInv, Looking
<1>5. CASE Answer(c) \/ Raise(c) \/ Cancel(c)
  <2>1. PICK fate, outcome :
          /\ fate \in Fates
          /\ call[c].step \in {"pass", "work"} /\ Leave(c, fate, outcome)
          /\ call[c].step = "pass" => fate = "gone"
          /\ outcome = CASE fate = "gone" -> None
                         [] call[c].kind \in ErrorsAsText /\ fate = "rejected" -> "ok"
                         [] OTHER -> fate
    <3>1. CASE Answer(c)
      <4>1. PICK fate \in {"ok", "rejected"} :
              call[c].step = "work" /\ Leave(c, fate, IF call[c].kind \in ErrorsAsText THEN "ok" ELSE fate)
        BY <3>1 DEF Answer
      <4> QED
        BY <4>1 DEF Fates
    <3>2. CASE Raise(c)
      <4> DEFINE fate == "exception"
      <4>1. /\ fate \in Fates /\ call[c].step = "work" /\ Leave(c, fate, fate)
            /\ fate # "gone" /\ fate # "rejected" /\ call[c].step # "pass"
        BY <3>2 DEF Raise, Fates
      <4> HIDE DEF fate
      <4> QED
        BY <4>1
    <3>3. CASE Cancel(c)
      <4> DEFINE fate == "gone"
      <4>1. /\ fate \in Fates /\ call[c].step \in {"pass", "work"} /\ Leave(c, fate, None)
            /\ fate = "gone"
        BY <3>3 DEF Cancel, Fates
      <4> HIDE DEF fate
      <4> QED
        BY <4>1
    <3> QED
      BY <1>5, <3>1, <3>2, <3>3
  <2>2. call[c].depth = 0 => fate = "gone"
    BY <1>0, <2>1 DEF AuditAt
  <2>3. outcome = Outcome([call[c] EXCEPT !.step = "done", !.fate = fate])
    BY <1>0, <2>1 DEF Outcome, Records
  <2> QED
    BY <2>1, <2>2, <2>3, LeaveStep
<1> QED
  BY <1>1, <1>2, <1>3, <1>4, <1>5 DEF Handle

(* "Emitted on every path" (core/audit.py:54), however many requests there *)
(* are: whether it is answered, refused, over the limit, failed or gone, a *)
(* request leaves one event with how it ended and whose it was.            *)
THEOREM Audit == Spec => []AuditedOnce
<1>1. ServiceInv /\ AuditInv /\ [Next]_vars => AuditInv'
  <2> SUFFICES ASSUME ServiceInv, AuditInv, [Next]_vars PROVE AuditInv'
    OBVIOUS
  <2>1. ASSUME phase = "serving", phase' = phase, NEW c \in Calls, Handle(c) PROVE AuditInv'
    <3>1. Actor' = Actor
      BY <2>1 DEF Handle, Arrive, Pass, OverLimit, Look, Make, Have, Find, Build, Fetch,
                  Answer, Raise, Cancel, Leave, Actor
    <3>2. \A d \in Calls : d # c => call'[d] = call[d] /\ events'[d] = events[d]
      BY <2>1, Others, AuditStep
    <3>3. \A d \in Calls : d # c => AuditAt(d)'
      BY <3>1, <3>2 DEF AuditInv, AuditAt
    <3> QED
      BY <2>1, <3>3, AuditStep DEF AuditInv
  <2>2. ASSUME UNCHANGED <<call, events>>, Actor' = Actor, phase' = phase \/ phase # "serving" PROVE AuditInv'
    BY <2>2 DEF AuditInv, AuditAt
  <2>3. ASSUME Start PROVE AuditInv'
    BY <2>3 DEF Start, AuditInv, AuditAt
  <2>4. ASSUME Doctor \/ Check \/ Report PROVE AuditInv'
    BY <2>2, <2>4 DEF Doctor, Check, Report, pipeline, Actor
  <2>5. ASSUME Serve PROVE AuditInv'
    BY <2>1, <2>2, <2>5 DEF Serve, Refill, Actor
  <2> QED
    BY <2>2, <2>3, <2>4, <2>5 DEF Next, Rest, vars, Actor
<1>2. ServiceInv /\ AuditInv => AuditedOnce
  <2> SUFFICES ASSUME ServiceInv, AuditInv, NEW c \in Calls
               PROVE  AuditedOnce!(c)
    BY DEF AuditedOnce
  <2> QED
    BY DEF AuditInv, AuditAt, Outcome, ServiceInv, TypeInv, Records
<1> QED
  BY <1>1, <1>2, AuditInitially, ServiceInitially, ServiceStep, PTL DEF Spec
===============================================================================
