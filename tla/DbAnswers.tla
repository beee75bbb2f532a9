------------------------------ MODULE DbAnswers ------------------------------
(***************************************************************************)
(* What a db_* call that returns rows says about the database.             *)
(*                                                                         *)
(* search_by_identifier finds in the catalog which columns may hold the    *)
(* identifier, ranks them, keeps the first MAX_SEARCH_TARGETS, probes      *)
(* each, and fits the rows of all of them to one byte budget.              *)
(* resolve_store finds and probes its columns the same way, and reads a    *)
(* store id off the redacted rows.  run_query and sample_rows have one     *)
(* statement for all their targets.  How the probes share connections is   *)
(* DbFanout's subject; here they answer in any order.                      *)
(*                                                                         *)
(* A row is its size and, in a store lookup, the store id in it.  The      *)
(* answer may hide rows in five ways: a limit, the cap on targets, a       *)
(* skipped probe, the byte budget, the redaction.                          *)
(***************************************************************************)
EXTENDS Integers, SequencesExt

CONSTANTS
  Tables,      \* Nat: the tables, numbered in the order of schema and name
  Historical,  \* those in a schema of DB_HISTORICAL_SCHEMA_PREFIXES
  MaxTargets,  \* MAX_SEARCH_TARGETS
  MaxRows,     \* DB_MAX_ROWS
  MaxCell,     \* DB_MAX_CELL_BYTES
  Marker,      \* the bytes of "...[truncated]"
  Budget,      \* DB_MAX_RESPONSE_BYTES
  Limits,      \* limits that callers ask for
  Holdings,    \* of a tool: what the rows a target has for it may be
  Personal,    \* store ids that, as text, look like personal data
  None

ASSUME AnswersAssumption ==
  /\ Tables \subseteq Nat \ {0} /\ Historical \subseteq Tables
  /\ MaxTargets \in Nat \ {0} /\ MaxRows \in Nat \ {0}
  /\ MaxCell \in Nat /\ Marker \in Nat /\ Budget \in Nat
  /\ Limits \subseteq Int /\ None \notin Limits

VARIABLES
  ask,      \* the call: its tool, its limit and what its statement says
  entity,   \* columns found as the key of the entity's own table
  named,    \* columns found by their name
  targets,  \* the columns searched, in order
  probe,    \* of each target: what came of its probe
  held,     \* history: of each target, the rows that match, once it is searched
  reply

vars == <<ask, entity, named, targets, probe, held, reply>>
-------------------------------------------------------------------------------
Columns == [table : Tables, name : {"id_type", "key"}]

ASSUME CatalogAssumption == IsFiniteSet(Columns)

(* Where the one statement of run_query or sample_rows reads from. *)
Statement == [table |-> 0, name |-> "sql"]

Fanouts == {"search", "store"}

Least(a, b) == IF a <= b THEN a ELSE b
Most(a, b) == IF a >= b THEN a ELSE b

(* Mutant of Clamp: the floor is missing. *)
ClampBelow(limit, own) == IF own = None THEN limit ELSE Least(limit, own)

(* clamp_and_inject_limit: a LIMIT the statement has may lower it. *)
Clamp(limit, own) == Most(1, IF own = None THEN limit ELSE Least(limit, own))

(* The LIMIT a statement is run with.  To a search, no limit and a limit   *)
(* of 0 are the same; a store lookup has no limit of its own.              *)
RowLimit ==
  IF ask.limit = None \/ (ask.tool = "search" /\ ask.limit = 0)
  THEN Clamp(MaxRows, None)
  ELSE Clamp(Least(ask.limit, MaxRows), ask.own)

Live(c) == c.table \notin Historical

(* Mutant of Before: within a rank the names decide. *)
BeforeByName(c, d, keys) ==
  IF (c \in keys) # (d \in keys) THEN c \in keys ELSE c.table < d.table

(* ranked.sort: entity tables, then the rest, live ones first in each.     *)
Before(c, d, keys) ==
  IF (c \in keys) # (d \in keys) THEN c \in keys
  ELSE IF Live(c) # Live(d) THEN Live(c)
  ELSE c.table < d.table

(* A store lookup keeps the order of the catalog, in which the columns of  *)
(* one table come as they will.                                            *)
InOrder(s, keys) == \A i, j \in DOMAIN s : i < j =>
  IF ask.tool = "store" THEN s[i].table <= s[j].table ELSE ~Before(s[j], s[i], keys)

(* truncate_cell, and the separator fit_rows_to_budget counts. *)
Bytes(row) == 1 + (IF row.bytes > MaxCell THEN MaxCell + Marker ELSE row.bytes)

(* The bytes of the first n rows, and of all. *)
Sizes(rows) ==
  LET size[n \in 0..Len(rows)] == IF n = 0 THEN 0 ELSE size[n - 1] + Bytes(rows[n])
  IN size

Size(rows) == Sizes(rows)[Len(rows)]

(* fit_rows_to_budget: the leading rows that fit. *)
Fitting(rows, budget) ==
  SubSeq(rows, 1, Max({n \in 0..Len(rows) : Sizes(rows)[n] <= budget}))

(* redact_rows: of a store id, only text is looked at. *)
Masked == [n |-> 0, text |-> TRUE]
Redact(id) == IF id # None /\ id.text /\ id.n \in Personal THEN Masked ELSE id

(* A row of a table, and the store id in it. *)
Row == [bytes : Nat, id : {None} \cup [n : Nat \ {0}, text : BOOLEAN]]

ASSUME RowsAssumption ==
  /\ None \notin {"ok", "searched", "matches", Masked}
  /\ \A tool \in Fanouts \cup {"query", "sample"} : Holdings[tool] \subseteq Seq(Row)
-------------------------------------------------------------------------------
NoReply == [kind |-> None]

Init ==
  /\ ask \in [tool : Fanouts \cup {"query", "sample"}, limit : {None} \cup Limits,
              own : {None} \cup Limits, allowed : BOOLEAN]
  /\ ask.tool # "query" => ask.own = None /\ ask.allowed
  /\ ask.tool \notin Fanouts => ask.limit # None
  /\ ask.tool = "store" => ask.limit = None
  /\ entity = {} /\ named = {}
  /\ targets = <<>> /\ probe = <<>> /\ held = <<>>
  /\ reply = NoReply

Refuse == reply' = [kind |-> "refused"]

Pending == [kind |-> "pending", rows |-> <<>>]

Target(s) ==
  /\ targets' = s
  /\ probe' = [i \in DOMAIN s |-> Pending]
  /\ held' = [i \in DOMAIN s |-> <<>>]

(* validate_sql finds something wrong with the statement. *)
RejectSql ==
  /\ reply = NoReply /\ targets = <<>>
  /\ ask.tool = "query" /\ ~ask.allowed
  /\ Refuse
  /\ UNCHANGED <<ask, entity, named, targets, probe, held>>

RunStatement ==
  /\ reply = NoReply /\ targets = <<>>
  /\ ask.tool \notin Fanouts /\ ask.allowed
  /\ Target(<<Statement>>)
  /\ UNCHANGED <<ask, entity, named, reply>>

(* The lookups in the catalog return, and the targets are picked from what *)
(* they found.  An entity table has one key; if that is called id_type,    *)
(* both lookups find it, and it counts as the entity's.                    *)
Find ==
  /\ reply = NoReply /\ targets = <<>>
  /\ ask.tool \in Fanouts
  /\ named' \in SUBSET IF ask.tool = "store" THEN Columns
                       ELSE {c \in Columns : c.name = "id_type"}
  /\ entity' \in SUBSET IF ask.tool = "store" THEN {} ELSE Columns
  /\ \A c, d \in entity' : c.table = d.table => c = d
  /\ \A c \in entity' : c.name = "id_type" => c \in named'
  /\ IF entity' \cup named' = {}
     THEN Refuse /\ UNCHANGED <<targets, probe, held>>
     ELSE /\ \E s \in SetToSeqs(entity' \cup named') :
               InOrder(s, entity') /\ Target(SubSeq(s, 1, Least(Len(s), MaxTargets)))
          /\ UNCHANGED reply
  /\ UNCHANGED ask

(* Which of the rows that match a probe gets to see.  A store lookup asks   *)
(* for the name and then without its domain suffix, each time up to the    *)
(* limit, and drops the rows it already has; their order does not matter.  *)
Seen(rows) ==
  IF ask.tool # "store" THEN {1..Least(RowLimit, Len(rows))}
  ELSE {a \cup b :
         a \in {x \in SUBSET DOMAIN rows : Cardinality(x) <= RowLimit},
         b \in {x \in SUBSET DOMAIN rows : Cardinality(x) = Least(RowLimit, Len(rows))}}

Probed(i, outcome) ==
  /\ probe[i] = Pending
  /\ probe' = [probe EXCEPT ![i] = outcome]
  /\ UNCHANGED <<ask, entity, named, targets, reply>>

(* The rows come in the order the database gives them. *)
Answered(i) ==
  \E rows \in Holdings[ask.tool] :
    /\ held' = [held EXCEPT ![i] = rows]
    /\ \E seen \in Seen(rows) :
         Probed(i, [kind |-> "rows", rows |-> [k \in seen |-> rows[k]]])

(* The identifier does not fit the type of the column, or the generated    *)
(* statement the guardrail: this target is skipped.                        *)
Skipped(i) ==
  /\ ask.tool \in Fanouts
  /\ Probed(i, [kind |-> "skipped", rows |-> <<>>])
  /\ UNCHANGED held

(* Any other error, in the catalog or in one probe, ends the whole call. *)
Fail ==
  /\ reply = NoReply
  /\ ask.allowed
  /\ reply' = [kind |-> "failed"]
  /\ UNCHANGED <<ask, entity, named, targets, probe, held>>
-------------------------------------------------------------------------------
AllProbed == targets # <<>> /\ \A i \in DOMAIN targets : probe[i] # Pending

Skips == {i \in DOMAIN targets : probe[i].kind = "skipped"}

(* The targets with rows. *)
Matched == {i \in DOMAIN targets : probe[i].rows # <<>>}

TooMany == Cardinality(entity \cup named) > MaxTargets

(* Mutant of Spend: every match has the whole budget. *)
SpendAnew(left, rows) == left

(* remaining -= used *)
Spend(left, rows) == left - Size(rows)

(* The rest of the budget once the first i targets have had their share. *)
Left[i \in 0..Len(targets)] ==
  IF i = 0 THEN Budget ELSE Spend(Left[i - 1], Fitting(probe[i].rows, Left[i - 1]))

(* One budget for all matches, in their order. *)
Cap == [i \in Matched |-> Fitting(probe[i].rows, Left[i - 1])]

(* Mutant of Note: only searches that could not find anything live. *)
NoteOnSearched ==
  IF \A i \in DOMAIN targets : ~Live(targets[i]) THEN "searched" ELSE None

(* data_freshness_note *)
Note ==
  CASE \A i \in DOMAIN targets : ~Live(targets[i]) -> "searched"
    [] OTHER -> IF Matched # {} /\ \A i \in Matched : ~Live(targets[i])
                THEN "matches" ELSE None

Return ==
  /\ reply = NoReply /\ AllProbed
  /\ ask.tool # "store"
  /\ reply' =
       [kind |-> "ok",
        matches |-> Cap,
        skipped |-> Skips,
        truncated |-> TooMany,
        capped |-> \E i \in Matched : Cap[i] # probe[i].rows,
        note |-> IF ask.tool = "search" THEN Note ELSE None]
  /\ UNCHANGED <<ask, entity, named, targets, probe, held>>

(* Mutant of Candidates: one for each match. *)
FirstCandidates == {CHOOSE row \in ToSet(probe[i].rows) : TRUE : i \in {k \in DOMAIN targets : probe[k].rows # <<>>}}

Candidates == UNION {ToSet(probe[i].rows) : i \in DOMAIN targets}

(* The store ids of the candidates, read after the redaction. *)
ShownIds == {Redact(row.id) : row \in Candidates} \ {None}

(* distinct_by_str: an id is compared by how it reads, number or text. *)
Ambiguous == \E a, b \in ShownIds : a.n # b.n

(* Which of the ids that read the same is given is left open. *)
ReturnStore ==
  /\ reply = NoReply /\ AllProbed
  /\ ask.tool = "store"
  /\ \E id \in IF ShownIds = {} \/ Ambiguous THEN {None} ELSE ShownIds : reply' =
       [kind |-> "ok",
        matches |-> [i \in Matched |-> probe[i].rows],
        skipped |-> Skips,
        truncated |-> TooMany,
        ambiguous |-> Ambiguous,
        store |-> id]
  /\ UNCHANGED <<ask, entity, named, targets, probe, held>>

Replied == reply # NoReply /\ UNCHANGED vars

Next ==
  \/ RejectSql \/ RunStatement \/ Find
  \/ \E i \in DOMAIN targets : reply = NoReply /\ (Answered(i) \/ Skipped(i))
  \/ Fail
  \/ Return \/ ReturnStore
  \/ Replied

Spec == Init /\ [][Next]_vars
-------------------------------------------------------------------------------
(* "must not get pushed out by the MAX_SEARCH_TARGETS cap"                 *)
(* (integrations/database/introspect.py:286): what a search leaves out     *)
(* never comes before what it searches, an entity's table before a mere    *)
(* mention and, among equals, a live table before a snapshot; and it       *)
(* leaves nothing out while it has room.                                   *)
BestSearched == ask.tool = "search" /\ targets # <<>> =>
  \A c \in (entity \cup named) \ ToSet(targets) :
    /\ Len(targets) = MaxTargets
    /\ \A s \in ToSet(targets) :
         /\ c \in entity => s \in entity
         /\ Live(c) /\ ~Live(s) => s \in entity /\ c \notin entity

(* An answer without rows of a column that has some says why: the column   *)
(* was skipped, the bytes ran out, or the targets were too many.  No limit *)
(* the caller gives turns rows into no rows.                               *)
NoSilentMiss == reply.kind = "ok" =>
  /\ \A c \in entity \cup named : c \in ToSet(targets) \/ reply.truncated
  /\ \A i \in DOMAIN targets :
       \/ i \in reply.skipped \/ held[i] = <<>>
       \/ i \in DOMAIN reply.matches /\ (reply.matches[i] # <<>> \/ reply.capped)

(* The bytes an answer shows of its first i targets. *)
Shown[i \in 0..Len(targets)] ==
  IF i = 0 THEN 0
  ELSE Shown[i - 1] + (IF i \in DOMAIN reply.matches THEN Size(reply.matches[i]) ELSE 0)

(* The rows of an answer fit the budget, all tables together, they lead    *)
(* what was fetched of their table, and none was left out that would have  *)
(* fitted in its place.  A store lookup has no budget.                     *)
HonestCap == reply.kind = "ok" /\ ask.tool # "store" =>
  \A i \in DOMAIN reply.matches :
    LET rows == reply.matches[i]
        fetched == probe[i].rows
    IN /\ Shown[i] <= Budget
       /\ IsPrefix(rows, fetched)
       /\ rows # fetched =>
            reply.capped /\ Shown[i] + Bytes(fetched[Len(rows) + 1]) > Budget

(* Whoever reads an answer of a search knows whether its rows, or the lack *)
(* of rows, stand for live data: if no live table was searched, or if no   *)
(* row shown is live, the answer has its data_freshness_note, or it says   *)
(* that rows were cut off.                                                 *)
StaleRowsMarked == reply.kind = "ok" /\ ask.tool = "search" =>
  LET shown == {targets[i] : i \in {k \in DOMAIN reply.matches : reply.matches[k] # <<>>}} IN
    /\ (\A t \in ToSet(targets) : ~Live(t)) => reply.note = "searched"
    /\ shown # {} /\ (\A t \in shown : ~Live(t)) => reply.note # None \/ reply.capped
    /\ reply.note = "matches" => \A t \in shown : ~Live(t)

(* "Never silently picks one of several store ids" (docs/design.md:147):   *)
(* the store id of an answer is the only one in the rows the lookup could  *)
(* see.  It cannot see rows beyond DB_MAX_ROWS, or in columns that the     *)
(* answer lists as skipped, and an id that the redaction masks is none.    *)
NoSilentPick ==
  reply.kind = "ok" /\ ask.tool = "store" /\ reply.store \notin {None, Masked} =>
    \A i \in DOMAIN targets \ reply.skipped : Len(held[i]) <= RowLimit =>
      \A j \in DOMAIN held[i] : held[i][j].id # None => held[i][j].id.n = reply.store.n
===============================================================================
