--------------------------- MODULE RequestPipeline ---------------------------
(***************************************************************************)
(* How the serving process handles MCP requests: each passes the           *)
(* middleware, from the outermost in, and a tool then asks the container   *)
(* for its service, which is built when first asked for.                   *)
(*                                                                         *)
(* Coroutines take turns on the event loop.  A handler that is a plain     *)
(* function runs in a thread of its own, between any two steps of which    *)
(* the loop and the other threads may run: the CloudWatch tools, and the   *)
(* resource of the log groups, which calls one of them.                    *)
(***************************************************************************)
EXTENDS Integers, Sequences

CONSTANTS
  Calls,
  None

VARIABLES
  conf,       \* what the server took from its settings: rps, burst, bearer
  tokens,     \* in the bucket of the rate limiter
  container,  \* the global one, named by the call that made it
  built,      \* of each container and service: the call that built it
  call,
  events      \* of each call: the audit events emitted for it

pipeline == <<tokens, container, built, call, events>>

(* Tools of the database and trace_request; those of New Relic; those of   *)
(* CloudWatch; the resources logs://groups and schema://...; prompts, and  *)
(* the query cookbook; and listings.                                       *)
Kinds == {"db", "nr", "cw", "groups", "schema", "prompt", "list"}
Services == {"db", "nr", "cw"}

ASSUME PipelineAssumption == None \notin Calls \cup Services
-------------------------------------------------------------------------------
(* cw_list_log_groups, called by name: the resource looks for the          *)
(* container as the tool does.                                             *)
LogKinds == {"cw", "groups"}

(* The service a call works with.  The trace service is only built on the  *)
(* loop, of the services of its container, so it shares the one for the    *)
(* database.  The schema resources read the catalog without any.           *)
Service(kind) ==
  CASE kind = "db" -> "db" [] kind = "nr" -> "nr" [] kind \in LogKinds -> "cw" [] OTHER -> None

(* What is declared with `def`, where the others are `async def`. *)
PlainFunctions == LogKinds \cup {"prompt"}

(* Mutant of Threaded: the database tools are plain functions, too. *)
ThreadedTools(kind) == kind \in PlainFunctions \cup {"db"}

(* FastMCP runs a plain function in a thread. *)
Threaded(kind) == kind \in PlainFunctions

(* Their errors are text like any other. *)
ErrorsAsText == {"groups", "schema"}

(* Requests that the audit middleware has a handler for. *)
Audited(kind) == kind # "list"

(* RATE_LIMIT_RPS <= 0: no limiter.  Else its bucket holds one at least.   *)
Limited == conf.rps > 0
Burst == IF conf.burst > 1 THEN conf.burst ELSE 1

(* Mutant of Chain: the limiter comes first. *)
LimiterFirst == (IF Limited THEN <<"limit">> ELSE <<>>) \o <<"audit">>

(* mcp.middleware, outermost first. *)
Chain == <<"audit">> \o (IF Limited THEN <<"limit">> ELSE <<>>)

(* Over HTTP and with a token, all callers are the one client. *)
Actor == IF conf.bearer THEN "static-token" ELSE "unauthenticated"

(* depth: how many of the middlewares it is inside of; from: the container *)
(* it got; missed: history, it found none; fate: how it ended.             *)
Idle == [step |-> "none", kind |-> "list", depth |-> 0, from |-> None, service |-> None,
         missed |-> FALSE, fate |-> None]

Looking == {"look", "make", "have", "find", "build", "fetch"}

(* The loop runs nothing else while a coroutine looks for its service. *)
LoopFree == \A d \in Calls : call[d].step \in Looking => Threaded(call[d].kind)

Goto(c, step) == call' = [call EXCEPT ![c].step = step]

PipelineInit ==
  /\ tokens = 0
  /\ container = None
  /\ built = [c \in Calls |-> [s \in Services |-> None]]
  /\ call = [c \in Calls |-> Idle]
  /\ events = [c \in Calls |-> <<>>]
-------------------------------------------------------------------------------
Arrive(c) ==
  /\ LoopFree
  /\ call[c].step = "none"
  /\ \E kind \in Kinds : call' = [call EXCEPT ![c] = [@ EXCEPT !.step = "pass", !.kind = kind]]
  /\ UNCHANGED <<conf, tokens, container, built, events>>

(* The coroutine of c ends, and with it every middleware it is inside of:  *)
(* the finally of the audit emits the event, in which an outcome is only   *)
(* set if it was a result or an Exception, and CancelledError is neither.  *)
Leave(c, fate, outcome) ==
  /\ call' = [call EXCEPT ![c] = [@ EXCEPT !.step = "done", !.fate = fate]]
  /\ events' = IF Audited(call[c].kind) /\ \E i \in 1..call[c].depth : Chain[i] = "audit"
               THEN [events EXCEPT ![c] = Append(@, [outcome |-> outcome, actor |-> Actor])]
               ELSE events
  /\ UNCHANGED <<conf, container, built>>

(* The next middleware, the limiter taking a token, and then the handler.  *)
Pass(c) ==
  /\ LoopFree
  /\ call[c].step = "pass"
  /\ IF call[c].depth = Len(Chain)
     THEN /\ Goto(c, IF Service(call[c].kind) = None THEN "work" ELSE "look")
          /\ UNCHANGED tokens
     ELSE /\ call' = [call EXCEPT ![c].depth = @ + 1]
          /\ IF Chain[call[c].depth + 1] = "limit"
             THEN tokens > 0 /\ tokens' = tokens - 1
             ELSE UNCHANGED tokens
  /\ UNCHANGED <<conf, container, built, events>>

(* "Rate limit exceeded", a JSON-RPC error. *)
OverLimit(c) ==
  /\ LoopFree
  /\ call[c].step = "pass" /\ call[c].depth < Len(Chain)
  /\ Chain[call[c].depth + 1] = "limit" /\ tokens = 0
  /\ Leave(c, "exception", "exception")
  /\ UNCHANGED tokens

Refill ==
  /\ Limited /\ tokens < Burst
  /\ tokens' = tokens + 1
  /\ UNCHANGED <<conf, container, built, call, events>>
-------------------------------------------------------------------------------
(* get_container: is there one, is it None, `_container = Container()`,    *)
(* and the value it then has.                                              *)
Look(c) ==
  /\ call[c].step = "look"
  /\ IF container = None
     THEN call' = [call EXCEPT ![c] = [@ EXCEPT !.step = "make", !.missed = TRUE]]
     ELSE Goto(c, "have")
  /\ UNCHANGED <<conf, tokens, container, built, events>>

Make(c) ==
  /\ call[c].step = "make"
  /\ container' = c
  /\ Goto(c, "have")
  /\ UNCHANGED <<conf, tokens, built, events>>

Have(c) ==
  /\ call[c].step = "have"
  /\ call' = [call EXCEPT ![c] = [@ EXCEPT !.step = "find", !.from = container]]
  /\ UNCHANGED <<conf, tokens, container, built, events>>

(* The property of the container, in the same way. *)
Own(c) == built[call[c].from][Service(call[c].kind)]

Find(c) ==
  /\ call[c].step = "find"
  /\ IF Own(c) = None
     THEN Goto(c, "build") ELSE Goto(c, "fetch")
  /\ UNCHANGED <<conf, tokens, container, built, events>>

Build(c) ==
  /\ call[c].step = "build"
  /\ built' = [built EXCEPT ![call[c].from][Service(call[c].kind)] = c]
  /\ Goto(c, "fetch")
  /\ UNCHANGED <<conf, tokens, container, events>>

Fetch(c) ==
  /\ call[c].step = "fetch"
  /\ call' = [call EXCEPT ![c] = [@ EXCEPT !.step = "work", !.service = <<call[c].from, Own(c)>>]]
  /\ UNCHANGED <<conf, tokens, container, built, events>>
-------------------------------------------------------------------------------
(* A result, which may say that the request was rejected.                  *)
Answer(c) ==
  /\ LoopFree
  /\ call[c].step = "work"
  /\ \E fate \in {"ok"} \cup (IF call[c].kind = "prompt" THEN {} ELSE {"rejected"}) :
       Leave(c, fate, IF call[c].kind \in ErrorsAsText THEN "ok" ELSE fate)
  /\ UNCHANGED tokens

Raise(c) ==
  /\ LoopFree
  /\ call[c].step = "work"
  /\ Leave(c, "exception", "exception")
  /\ UNCHANGED tokens

(* The client cancels while the coroutine waits; one that waits for a      *)
(* thread does so until the thread has ended.                              *)
Cancel(c) ==
  /\ LoopFree
  /\ call[c].step \in {"pass", "work"}
  /\ Leave(c, "gone", None)
  /\ UNCHANGED tokens

Handle(c) ==
  \/ Arrive(c) \/ Pass(c) \/ OverLimit(c)
  \/ Look(c) \/ Make(c) \/ Have(c) \/ Find(c) \/ Build(c) \/ Fetch(c)
  \/ Answer(c) \/ Raise(c) \/ Cancel(c)
-------------------------------------------------------------------------------
(* "Emitted on every path, including guardrail rejections and exceptions"  *)
(* (core/audit.py:54): every request but a listing leaves exactly one      *)
(* event, when it ends and not before, with the identity of its caller.    *)
(* This includes requests over the limit.  The outcome is how the request  *)
(* ended; there is none if the client went away, and a resource that could *)
(* not be read counts as ok.                                               *)
AuditedOnce == \A c \in Calls :
  LET ended == call[c].step = "done" /\ Audited(call[c].kind) IN
    /\ Len(events[c]) = (IF ended /\ (call[c].depth > 0 \/ call[c].fate # "gone") THEN 1 ELSE 0)
    /\ ended /\ events[c] # <<>> => events[c][1] =
         [actor |-> Actor,
          outcome |-> CASE call[c].fate = "gone" -> None
                        [] call[c].kind \in ErrorsAsText /\ call[c].fate = "rejected" -> "ok"
                        [] OTHER -> call[c].fate]

(* "the container keeps one per process" (service/database_service.py:52): *)
(* the calls that use the database share one service, and so one set of    *)
(* query slots, whatever the threads of other calls do; unless two calls,  *)
(* one of them a CloudWatch tool or logs://groups in its thread, found no  *)
(* container when they looked for it, and each made its own.               *)
OneDatabaseService ==
  \A c, d \in Calls :
    /\ call[c].service # call[d].service
    /\ \A x \in {c, d} : call[x].service # None /\ Service(call[x].kind) = "db"
    => \E x, y \in Calls : x # y /\ call[x].missed /\ call[y].missed
                           /\ Threaded(call[x].kind)
===============================================================================
