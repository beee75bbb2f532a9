------------------------------- MODULE TtlCache -------------------------------
(***************************************************************************)
(* core/cache.py: ttl_cache around an async function, as it decorates the  *)
(* catalog lookups of introspect.py.                                       *)
(*                                                                         *)
(* A call picks the cache and looks in it in one stretch of the event      *)
(* loop; a miss awaits the lookup and writes the result to the cache it    *)
(* picked.  Between the two, other calls miss too, the entry expires, the  *)
(* cache is cleared, or a changed DB_SCHEMA_CACHE_TTL_S makes the next     *)
(* call replace it: then the write goes to a cache nobody reads.           *)
(*                                                                         *)
(* What a lookup returns is represented by where and when it was true.     *)
(***************************************************************************)
EXTENDS Integers, FiniteSets

CONSTANTS
  Callers,
  Databases,  \* the engines a lookup can be made on
  Lookups,    \* its other arguments
  Ttls,       \* values DB_SCHEMA_CACHE_TTL_S may take
  MaxSize,    \* entries of the cache
  MaxLoad,    \* the longest a lookup takes: connecting and statement_timeout
  Horizon     \* the clock stops here (bound)

ASSUME CacheAssumption ==
  /\ Ttls \subseteq Nat /\ Ttls # {}
  /\ MaxSize \in Nat \ {0} /\ MaxLoad \in Nat /\ Horizon \in Nat

VARIABLES
  now,     \* the clock
  ttl,     \* DB_SCHEMA_CACHE_TTL_S
  kept,    \* configured_ttl, the one the cache was made with
  cache,   \* the entries
  load,    \* the lookups under way, by caller
  old,     \* those of them that will write to a cache since replaced
  answer,  \* the last answer given
  newest   \* history: the newest catalog any answer was true of

vars == <<now, ttl, kept, cache, load, old, answer, newest>>

-------------------------------------------------------------------------------
Requests == [db : Databases, lookup : Lookups]

(* Mutant of Key: the engine is not part of the key. *)
KeyOfLookup(r) == r.lookup

(* hashkey of the arguments; the engine is the first of them. *)
Key(r) == <<r.db, r.lookup>>

Nothing == [k \in {} |-> 0]

Larger(a, b) == IF a >= b THEN a ELSE b

(* Mutant of Current: a changed TTL is only for new entries. *)
CurrentEver == cache

(* current_cache: a new one once the TTL has changed. *)
Current == IF ttl = kept THEN cache ELSE Nothing

(* If it is replaced, the lookups under way will write to the old one. *)
Look ==
  /\ cache' = Current /\ kept' = ttl
  /\ old' = IF ttl = kept THEN old ELSE DOMAIN load

Has(r) == Key(r) \in DOMAIN Current /\ now < Current[Key(r)].expires

Answer(r, from, asOf) ==
  /\ answer' = [request |-> r, from |-> from, asOf |-> asOf, at |-> now]
  /\ newest' = [newest EXCEPT ![r] = Larger(@, asOf)]

Landed(c) ==
  /\ load' = [d \in DOMAIN load \ {c} |-> load[d]]
  /\ old' = old \ {c}
-------------------------------------------------------------------------------
Init ==
  /\ now = 0
  /\ ttl \in Ttls /\ kept = ttl
  /\ cache = Nothing
  /\ load = Nothing /\ old = {}
  /\ \E r \in Requests : answer = [request |-> r, from |-> r, asOf |-> 0, at |-> 0]
  /\ newest = [r \in Requests |-> 0]

Hit(r) ==
  /\ Has(r)
  /\ Answer(r, Current[Key(r)].from, Current[Key(r)].asOf)
  /\ Look
  /\ UNCHANGED <<now, ttl, load>>

(* The lookup starts. *)
Miss(c, r) ==
  /\ c \notin DOMAIN load
  /\ ~Has(r)
  /\ Look
  /\ load' = [d \in DOMAIN load \cup {c} |->
       IF d = c THEN [request |-> r, since |-> now] ELSE load[d]]
  /\ UNCHANGED <<now, ttl, answer, newest>>

(* Mutant of Store: an entry that has not expired is left alone. *)
StoreOnce(r, asOf) ==
  \E others \in SUBSET {k \in DOMAIN cache : k = Key(r) => now < cache[k].expires} :
    /\ Cardinality(others \cup {Key(r)}) <= MaxSize
    /\ Key(r) \in DOMAIN cache /\ now < cache[Key(r)].expires => Key(r) \in others
    /\ cache' = [k \in others \cup {Key(r)} |->
         IF k \in others THEN cache[k]
         ELSE [from |-> r, asOf |-> asOf, expires |-> now + kept]]

(* Mutant of Store: no entry makes room. *)
StoreBesides(r, asOf) ==
  cache' = [k \in DOMAIN cache \cup {Key(r)} |->
    IF k = Key(r) THEN [from |-> r, asOf |-> asOf, expires |-> now + kept]
    ELSE cache[k]]

(* The entry replaces what is there.  Which others make room for it is     *)
(* left to TTLCache.                                                       *)
Store(r, asOf) ==
  \E others \in SUBSET (DOMAIN cache \ {Key(r)}) :
    /\ Cardinality(others) < MaxSize
    /\ cache' = [k \in others \cup {Key(r)} |->
         IF k = Key(r) THEN [from |-> r, asOf |-> asOf, expires |-> now + kept]
         ELSE cache[k]]

(* The lookup returns what was true at some moment since it started. *)
Loaded(c) ==
  /\ c \in DOMAIN load
  /\ \E asOf \in load[c].since..now :
       /\ Answer(load[c].request, load[c].request, asOf)
       /\ IF c \in old THEN UNCHANGED cache ELSE Store(load[c].request, asOf)
  /\ Landed(c)
  /\ UNCHANGED <<now, ttl, kept>>

(* It raises, or its call is cancelled: nothing is stored. *)
LoadFails(c) ==
  /\ c \in DOMAIN load
  /\ Landed(c)
  /\ UNCHANGED <<now, ttl, kept, cache, answer, newest>>

(* cache_clear, on the cache of the moment. *)
Clear ==
  /\ cache' = Nothing
  /\ UNCHANGED <<now, ttl, kept, load, old, answer, newest>>

(* The settings are reloaded with another TTL. *)
ChangeTtl ==
  /\ ttl' \in Ttls \ {ttl}
  /\ UNCHANGED <<now, kept, cache, load, old, answer, newest>>

Tick ==
  /\ now < Horizon
  /\ \A c \in DOMAIN load : now < load[c].since + MaxLoad
  /\ now' = now + 1
  /\ UNCHANGED <<ttl, kept, cache, load, old, answer, newest>>

Next ==
  \/ \E r \in Requests : Hit(r) \/ \E c \in Callers : Miss(c, r)
  \/ \E c \in Callers : Loaded(c) \/ LoadFails(c)
  \/ Clear
  \/ ChangeTtl
  \/ Tick

Spec == Init /\ [][Next]_vars
-------------------------------------------------------------------------------
Keys == {Key(r) : r \in Requests}

(* The state is well formed, the cache within its size.  Before the first  *)
(* answer, answer holds one that anybody could have been given.            *)
TypeOK ==
  /\ now \in 0..Horizon
  /\ ttl \in Ttls /\ kept \in Ttls
  /\ DOMAIN cache \subseteq Keys
  /\ IsFiniteSet(DOMAIN cache) /\ Cardinality(DOMAIN cache) <= MaxSize
  /\ \A k \in DOMAIN cache :
       cache[k] \in [from : Requests, asOf : Nat, expires : Nat]
  /\ DOMAIN load \subseteq Callers
  /\ \A c \in DOMAIN load :
       load[c] \in [request : Requests, since : 0..now]
  /\ old \subseteq DOMAIN load
  /\ answer \in [request : Requests, from : Requests, asOf : 0..now, at : 0..now]
  /\ newest \in [Requests -> 0..now]

(* No lookup under way is older than a lookup may be, an entry is under    *)
(* its key and expires in time, and each is as new as it has to be: a      *)
(* replaced cache's lookups started before whatever is in the present one. *)
Lineage ==
  /\ \A c \in DOMAIN load : now <= load[c].since + MaxLoad
  /\ \A k \in DOMAIN cache :
       /\ Key(cache[k].from) = k
       /\ cache[k].asOf <= now
       /\ cache[k].expires <= cache[k].asOf + MaxLoad + kept
       /\ newest[cache[k].from] <= cache[k].asOf + MaxLoad
  /\ \A c \in old :
       /\ \A k \in DOMAIN cache : load[c].since <= cache[k].asOf
       /\ \A d \in DOMAIN load \ old : load[c].since <= load[d].since

(* "two Settings pointing at different DSNs never share cached catalog     *)
(* results" (integrations/database/introspect.py:95): the answer to a      *)
(* lookup was looked up with its arguments on its database.                *)
OwnDatabase == answer.from = answer.request

(* "Cached for the configured DB_SCHEMA_CACHE_TTL_S"                       *)
(* (integrations/database/introspect.py:118), the one configured at the    *)
(* moment of the answer: whatever was cached under another TTL, and        *)
(* however many lookups overlapped, an answer is never older than the TTL  *)
(* and one lookup.                                                         *)
FreshEnough ==
  [][answer' # answer => now - answer'.asOf <= ttl + MaxLoad]_vars

(* A slow lookup may overwrite the result of a faster, later one, so       *)
(* answers can go back to an older catalog, but by no more than one        *)
(* lookup's time, whatever the TTL is.                                     *)
GoesBackOneLoad ==
  [][answer' # answer => answer'.asOf + MaxLoad >= newest[answer'.request]]_vars
===============================================================================
