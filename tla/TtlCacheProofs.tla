---------------------------- MODULE TtlCacheProofs ----------------------------
(***************************************************************************)
(* What the cache of core/cache.py promises for any number of callers,     *)
(* databases, lookups and TTLs, any size and any length of a lookup.       *)
(***************************************************************************)
EXTENDS TtlCache, FiniteSetTheorems, TLAPS

(* What every reachable state satisfies. *)
IInv == TypeOK /\ Lineage

(* A key belongs to one request. *)
LEMMA KeyInjective ==
  \A r, q \in Requests : Key(r) = Key(q) => r = q
BY DEF Key, Requests

(* Looking in the cache drops it when the TTL has changed, and what is left *)
(* was made under the TTL of the moment.                                    *)
LEMMA CurrentIsPart ==
  /\ DOMAIN Current \subseteq DOMAIN cache
  /\ \A k \in DOMAIN Current : Current[k] = cache[k] /\ ttl = kept
BY DEF Current, Nothing

(* Dropping it or not, what the invariant says of the entries still holds. *)
LEMMA CurrentTyped ==
  ASSUME TypeOK
  PROVE  /\ DOMAIN Current \subseteq Keys
         /\ IsFiniteSet(DOMAIN Current) /\ Cardinality(DOMAIN Current) <= MaxSize
         /\ \A k \in DOMAIN Current :
              Current[k] \in [from : Requests, asOf : Nat, expires : Nat]
<1>1. CASE ttl = kept
  BY <1>1 DEF Current, TypeOK
<1>2. CASE ttl # kept
  <2>1. DOMAIN Current = {}
    BY <1>2 DEF Current, Nothing
  <2>. QED
    BY <2>1, FS_EmptySet, CacheAssumption
<1>. QED
  BY <1>1, <1>2

(* The first state satisfies the invariant. *)
LEMMA InitIInv == Init => IInv
<1>. SUFFICES ASSUME Init PROVE IInv
  OBVIOUS
<1>. USE CacheAssumption
<1>1. DOMAIN cache = {} /\ DOMAIN load = {} /\ old = {} /\ now = 0
  BY DEF Init, Nothing
<1>2. IsFiniteSet(DOMAIN cache) /\ Cardinality(DOMAIN cache) = 0
  BY <1>1, FS_EmptySet
<1>3. ttl \in Ttls /\ kept \in Ttls
  BY DEF Init
<1>4. answer \in [request : Requests, from : Requests, asOf : 0..now, at : 0..now]
  BY <1>1 DEF Init
<1>5. newest \in [Requests -> 0..now]
  BY <1>1 DEF Init
<1>6. TypeOK
  BY <1>1, <1>2, <1>3, <1>4, <1>5 DEF TypeOK
<1>. QED
  BY <1>1, <1>6 DEF IInv, Lineage

(* An answer of no later a catalog than now leaves its history well formed. *)
LEMMA AnswerTyped ==
  ASSUME TypeOK, NEW r \in Requests, NEW from \in Requests, NEW asOf \in 0..now,
         Answer(r, from, asOf), now' = now
  PROVE  /\ answer' \in [request : Requests, from : Requests, asOf : 0..now, at : 0..now]
         /\ newest' \in [Requests -> 0..now]
         /\ \A q \in Requests : newest'[q] = IF q = r THEN Larger(newest[q], asOf)
                                             ELSE newest[q]
<1>1. now \in Nat /\ newest \in [Requests -> 0..now]
  BY CacheAssumption DEF TypeOK
<1>2. Larger(newest[r], asOf) \in 0..now
  BY <1>1 DEF Larger
<1>. QED
  BY <1>1, <1>2 DEF Answer

(* A hit gives an answer as new as the entry, and the entries stay. *)
LEMMA HitIInv ==
  ASSUME IInv, NEW r \in Requests, Hit(r)
  PROVE  IInv'
<1>. USE CacheAssumption DEF IInv
<1>. DEFINE e == cache[Key(r)]
<1>1. Key(r) \in DOMAIN cache /\ ttl = kept /\ Current = cache
  BY CurrentIsPart DEF Hit, Has, Current, Nothing
<1>2. cache' = cache /\ kept' = kept /\ old' = old
  BY <1>1 DEF Hit, Look
<1>3. now' = now /\ ttl' = ttl /\ load' = load /\ Answer(r, e.from, e.asOf)
  BY <1>1 DEF Hit
<1>4. e.from \in Requests /\ e.asOf \in 0..now
  BY <1>1 DEF TypeOK, Lineage
<1>5. e.from = r
  BY <1>1, <1>4, KeyInjective DEF Lineage
<1>. HIDE DEF e
<1>6. /\ answer' \in [request : Requests, from : Requests, asOf : 0..now, at : 0..now]
      /\ newest' \in [Requests -> 0..now]
      /\ \A q \in Requests : newest'[q] = IF q = r THEN Larger(newest[q], e.asOf)
                                          ELSE newest[q]
  BY <1>3, <1>4, AnswerTyped
<1>7. TypeOK'
  BY <1>2, <1>3, <1>6 DEF TypeOK, Keys, Key
<1>8. \A k \in DOMAIN cache : newest'[cache[k].from] <= cache[k].asOf + MaxLoad
  <2>. TAKE k \in DOMAIN cache
  <2>1. cache[k].from \in Requests /\ cache[k].asOf \in Nat
    BY DEF TypeOK
  <2>2. newest[cache[k].from] <= cache[k].asOf + MaxLoad
    BY DEF Lineage
  <2>3. CASE cache[k].from = r
    <3>1. k = Key(r)
      BY <2>3 DEF Lineage
    <3>. QED
      BY <2>1, <2>2, <2>3, <3>1, <1>6 DEF Larger, e
  <2>4. CASE cache[k].from # r
    BY <2>1, <2>2, <2>4, <1>6
  <2>. QED
    BY <2>3, <2>4
<1>. QED
  BY <1>2, <1>3, <1>7, <1>8 DEF Lineage, Key

(* A miss starts a lookup no older than any other.  If it replaces the     *)
(* cache, every other lookup under way belongs to an old one.              *)
LEMMA MissIInv ==
  ASSUME IInv, NEW c \in Callers, NEW r \in Requests, Miss(c, r)
  PROVE  IInv'
<1>. USE CacheAssumption DEF IInv
<1>1. /\ now' = now /\ ttl' = ttl /\ answer' = answer /\ newest' = newest
      /\ cache' = Current /\ kept' = ttl
      /\ old' = IF ttl = kept THEN old ELSE DOMAIN load
  BY DEF Miss, Look
<1>2. /\ DOMAIN load' = DOMAIN load \cup {c} /\ c \notin DOMAIN load
      /\ load'[c] = [request |-> r, since |-> now]
      /\ \A d \in DOMAIN load : load'[d] = load[d]
  BY DEF Miss
<1>3. now \in Nat
  BY DEF TypeOK
<1>4. TypeOK'
  <2>1. DOMAIN cache' \subseteq Keys' /\ IsFiniteSet(DOMAIN cache')
        /\ Cardinality(DOMAIN cache') <= MaxSize
        /\ \A k \in DOMAIN cache' :
             cache'[k] \in [from : Requests, asOf : Nat, expires : Nat]
    BY <1>1, CurrentTyped DEF Keys, Key
  <2>2. \A d \in DOMAIN load' : load'[d] \in [request : Requests, since : 0..now]
    BY <1>2, <1>3 DEF TypeOK
  <2>. QED
    BY <1>1, <1>2, <2>1, <2>2 DEF TypeOK
<1>5. \A d \in DOMAIN load : load[d].since \in 0..now
  BY DEF TypeOK
<1>6. \A d \in DOMAIN load' : now <= load'[d].since + MaxLoad
  BY <1>2, <1>3 DEF Lineage
<1>7. CASE ttl = kept
  <2>1. cache' = cache /\ old' = old /\ c \notin old
    BY <1>1, <1>2, <1>7 DEF Current, TypeOK
  <2>2. \A d \in old' : d \in DOMAIN load
    BY <2>1 DEF TypeOK
  <2>. QED
    BY <1>1, <1>2, <1>3, <1>4, <1>5, <1>6, <1>7, <2>1, <2>2 DEF Lineage, Key
<1>8. CASE ttl # kept
  <2>1. DOMAIN cache' = {} /\ old' = DOMAIN load
    BY <1>1, <1>8 DEF Current, Nothing
  <2>. QED
    BY <1>1, <1>2, <1>3, <1>4, <1>5, <1>6, <2>1 DEF Lineage
<1>. QED
  BY <1>7, <1>8

(* What a lookup finds is as new as its start, which no answer's catalog   *)
(* can be ahead of by more than a lookup's time; written to the cache, it  *)
(* replaces what the answer may be newer than.                             *)
LEMMA LoadedIInv ==
  ASSUME IInv, NEW c \in Callers, Loaded(c)
  PROVE  IInv'
<1>. USE CacheAssumption DEF IInv
<1>. DEFINE r == load[c].request
<1>1. PICK asOf \in load[c].since..now :
        /\ Answer(r, r, asOf)
        /\ IF c \in old THEN UNCHANGED cache ELSE Store(r, asOf)
  BY DEF Loaded
<1>2. /\ c \in DOMAIN load
      /\ now' = now /\ ttl' = ttl /\ kept' = kept
      /\ DOMAIN load' = DOMAIN load \ {c} /\ old' = old \ {c}
      /\ \A d \in DOMAIN load' : load'[d] = load[d]
  BY DEF Loaded, Landed
<1>3. r \in Requests /\ load[c].since \in 0..now /\ now \in Nat /\ asOf \in 0..now
      /\ now <= load[c].since + MaxLoad
  BY <1>1, <1>2 DEF TypeOK, Lineage
<1>4. kept \in Nat
  BY DEF TypeOK
<1>. HIDE DEF r
<1>5. /\ answer' \in [request : Requests, from : Requests, asOf : 0..now, at : 0..now]
      /\ newest' \in [Requests -> 0..now]
      /\ \A q \in Requests : newest'[q] = IF q = r THEN Larger(newest[q], asOf)
                                          ELSE newest[q]
  BY <1>1, <1>2, <1>3, AnswerTyped
<1>6. newest'[r] <= now
  BY <1>3, <1>5
<1>7. \A d \in DOMAIN load' : /\ load'[d] \in [request : Requests, since : 0..now]
                             /\ now <= load'[d].since + MaxLoad
  BY <1>2 DEF TypeOK, Lineage
<1>8. old' \subseteq DOMAIN load'
  BY <1>2 DEF TypeOK
<1>9. \A d \in old' : \A x \in DOMAIN load' \ old' : load'[d].since <= load'[x].since
  BY <1>2, <1>8 DEF Lineage
<1>10. CASE c \in old
  <2>1. cache' = cache
    BY <1>1, <1>10
  <2>2. TypeOK'
    BY <1>2, <1>5, <1>7, <1>8, <2>1 DEF TypeOK, Keys, Key
  <2>3. \A k \in DOMAIN cache : newest'[cache[k].from] <= cache[k].asOf + MaxLoad
    <3>. TAKE k \in DOMAIN cache
    <3>1. cache[k].from \in Requests /\ cache[k].asOf \in Nat
      BY DEF TypeOK
    <3>2. load[c].since <= cache[k].asOf /\ newest[cache[k].from] <= cache[k].asOf + MaxLoad
      BY <1>10 DEF Lineage
    <3>3. CASE cache[k].from = r
      BY <1>3, <1>5, <1>6, <3>1, <3>2, <3>3
    <3>4. CASE cache[k].from # r
      BY <1>5, <3>1, <3>2, <3>4
    <3>. QED
      BY <3>3, <3>4
  <2>4. \A d \in old' : \A k \in DOMAIN cache' : load'[d].since <= cache'[k].asOf
    BY <1>2, <1>8, <2>1 DEF Lineage
  <2>. QED
    BY <1>2, <1>7, <1>9, <2>1, <2>2, <2>3, <2>4 DEF Lineage, Key
<1>11. CASE c \notin old
  <2>1. PICK others \in SUBSET (DOMAIN cache \ {Key(r)}) :
          /\ Cardinality(others) < MaxSize
          /\ cache' = [k \in others \cup {Key(r)} |->
               IF k = Key(r) THEN [from |-> r, asOf |-> asOf, expires |-> now + kept]
               ELSE cache[k]]
    BY <1>1, <1>11 DEF Store
  <2>2. /\ DOMAIN cache' = others \cup {Key(r)}
        /\ cache'[Key(r)] = [from |-> r, asOf |-> asOf, expires |-> now + kept]
        /\ \A k \in others : k # Key(r) /\ k \in DOMAIN cache /\ cache'[k] = cache[k]
    BY <2>1
  <2>3. IsFiniteSet(others)
    BY FS_Subset DEF TypeOK
  <2>4. IsFiniteSet(DOMAIN cache') /\ Cardinality(DOMAIN cache') <= MaxSize
    <3>1. Key(r) \notin others
      BY <2>2
    <3>2. Cardinality(others) \in Nat
      BY <2>3, FS_CardinalityType
    <3>3. /\ IsFiniteSet(others \cup {Key(r)})
          /\ Cardinality(others \cup {Key(r)}) = Cardinality(others) + 1
      BY <2>3, <3>1, FS_AddElement
    <3>. QED
      BY <2>1, <2>2, <3>2, <3>3
  <2>5. DOMAIN cache' \subseteq Keys
    BY <1>3, <2>2 DEF TypeOK, Keys
  <2>6. \A k \in DOMAIN cache' :
          cache'[k] \in [from : Requests, asOf : Nat, expires : Nat]
    BY <1>3, <1>4, <2>2 DEF TypeOK
  <2>7. TypeOK'
    BY <1>2, <1>5, <1>7, <1>8, <2>4, <2>5, <2>6 DEF TypeOK, Keys, Key
  <2>8. \A k \in DOMAIN cache' : Key(cache'[k].from) = k /\ cache'[k].asOf <= now
    BY <1>3, <2>2 DEF Lineage
  <2>9. \A k \in DOMAIN cache' : cache'[k].expires <= cache'[k].asOf + MaxLoad + kept
    BY <1>1, <1>3, <1>4, <2>2 DEF Lineage
  <2>10. \A k \in DOMAIN cache' : newest'[cache'[k].from] <= cache'[k].asOf + MaxLoad
    <3>1. newest'[r] <= asOf + MaxLoad
      BY <1>1, <1>3, <1>5, <1>6
    <3>2. \A k \in others : cache[k].from \in Requests /\ cache[k].from # r
      BY <2>2 DEF TypeOK, Lineage
    <3>3. \A k \in others : newest'[cache[k].from] <= cache[k].asOf + MaxLoad
      BY <1>5, <2>2, <3>2 DEF Lineage
    <3>. QED
      BY <2>2, <3>1, <3>3
  <2>11. \A d \in old' : \A k \in DOMAIN cache' : load'[d].since <= cache'[k].asOf
    <3>. TAKE d \in old'
    <3>1. d \in old /\ d \in DOMAIN load' /\ d \in DOMAIN load /\ load'[d] = load[d]
      BY <1>2, <1>8
    <3>2. load[d].since <= load[c].since
      BY <1>2, <1>11, <3>1 DEF Lineage
    <3>3. load[d].since \in 0..now
      BY <3>1 DEF TypeOK
    <3>4. load[d].since <= asOf
      BY <1>1, <1>3, <3>2, <3>3
    <3>5. \A k \in others : load[d].since <= cache[k].asOf
      BY <2>2, <3>1 DEF Lineage
    <3>. QED
      BY <2>2, <3>1, <3>4, <3>5
  <2>. QED
    BY <1>2, <1>7, <1>9, <2>7, <2>8, <2>9, <2>10, <2>11 DEF Lineage, Key
<1>. QED
  BY <1>10, <1>11

(* The steps that only take something away, or let time pass. *)
LEMMA OtherIInv ==
  ASSUME IInv,
         \/ \E c \in Callers : LoadFails(c)
         \/ Clear
         \/ ChangeTtl
         \/ Tick
         \/ UNCHANGED vars
  PROVE  IInv'
<1>. USE CacheAssumption DEF IInv
<1>1. CASE \E c \in Callers : LoadFails(c)
  <2>1. PICK c \in Callers : LoadFails(c)
    BY <1>1
  <2>2. /\ UNCHANGED <<now, ttl, kept, cache, answer, newest>>
        /\ DOMAIN load' = DOMAIN load \ {c} /\ old' = old \ {c}
        /\ \A d \in DOMAIN load' : load'[d] = load[d]
    BY <2>1 DEF LoadFails, Landed
  <2>3. old' \subseteq DOMAIN load'
    BY <2>2 DEF TypeOK
  <2>4. TypeOK'
    BY <2>2, <2>3 DEF TypeOK, Keys, Key
  <2>. QED
    BY <2>2, <2>3, <2>4 DEF Lineage, Key
<1>2. CASE Clear
  <2>1. DOMAIN cache' = {} /\ UNCHANGED <<now, ttl, kept, load, old, answer, newest>>
    BY <1>2 DEF Clear, Nothing
  <2>2. IsFiniteSet(DOMAIN cache') /\ Cardinality(DOMAIN cache') = 0
    BY <2>1, FS_EmptySet
  <2>3. TypeOK'
    BY <2>1, <2>2 DEF TypeOK
  <2>. QED
    BY <2>1, <2>3 DEF Lineage
<1>3. CASE ChangeTtl
  BY <1>3 DEF ChangeTtl, TypeOK, Lineage, Keys, Key
<1>4. CASE Tick
  <2>1. /\ now' = now + 1 /\ now' \in 0..Horizon /\ now \in Nat
        /\ UNCHANGED <<ttl, kept, cache, load, old, answer, newest>>
        /\ \A c \in DOMAIN load : now < load[c].since + MaxLoad
    BY <1>4 DEF Tick, TypeOK
  <2>2. /\ \A c \in DOMAIN load : load[c].since \in 0..now
        /\ \A k \in DOMAIN cache : cache[k].asOf \in Nat
    BY DEF TypeOK
  <2>3. 0..now \subseteq 0..now'
    BY <2>1
  <2>4. \A c \in DOMAIN load : load'[c] \in [request : Requests, since : 0..now']
    BY <2>1, <2>3 DEF TypeOK
  <2>5. answer' \in [request : Requests, from : Requests, asOf : 0..now', at : 0..now']
    BY <2>1, <2>3 DEF TypeOK
  <2>6. newest' \in [Requests -> 0..now']
    BY <2>1, <2>3 DEF TypeOK
  <2>7. TypeOK'
    BY <2>1, <2>4, <2>5, <2>6 DEF TypeOK, Keys, Key
  <2>. QED
    BY <2>1, <2>2, <2>7 DEF Lineage, Key
<1>5. CASE UNCHANGED vars
  BY <1>5 DEF vars, TypeOK, Lineage, Keys, Key
<1>. QED
  BY <1>1, <1>2, <1>3, <1>4, <1>5

LEMMA StepIInv == IInv /\ [Next]_vars => IInv'
<1>. SUFFICES ASSUME IInv, [Next]_vars PROVE IInv'
  OBVIOUS
<1>. QED
  BY HitIInv, MissIInv, LoadedIInv, OtherIInv DEF Next

(* The state is well formed and the cache within its size (TTLCache of     *)
(* core/cache.py:42 is never asked to hold more).                          *)
THEOREM TypeCorrect == Spec => []TypeOK
<1>. QED
  BY InitIInv, StepIInv, PTL DEF Spec, IInv

(* Every entry expires in time and is no older than a lookup's time behind *)
(* the newest answer; a lookup that began before the cache was replaced    *)
(* (core/cache.py:40-42) is older than anything in the present one.        *)
THEOREM LineageHolds == Spec => []Lineage
<1>. QED
  BY InitIInv, StepIInv, PTL DEF Spec, IInv

(* What an answer's step has in common: a hit's entry or a lookup's result. *)
LEMMA AnswerStep ==
  ASSUME IInv, [Next]_vars, answer' # answer
  PROVE  /\ now' = now /\ ttl' = ttl /\ now \in Nat /\ ttl \in Nat
         /\ answer'.request \in Requests
         /\ answer'.from = answer'.request
         /\ answer'.asOf \in 0..now
         /\ now <= answer'.asOf + ttl + MaxLoad
         /\ newest[answer'.request] <= answer'.asOf + MaxLoad
<1>. USE CacheAssumption DEF IInv
<1>1. now \in Nat /\ ttl \in Nat
  BY DEF TypeOK
<1>2. ASSUME NEW r \in Requests, Hit(r)
      PROVE  /\ now' = now /\ ttl' = ttl
             /\ answer' = [request |-> r, from |-> r, asOf |-> cache[Key(r)].asOf, at |-> now]
             /\ cache[Key(r)].asOf \in 0..now
             /\ now <= cache[Key(r)].asOf + ttl + MaxLoad
             /\ newest[r] <= cache[Key(r)].asOf + MaxLoad
  <2>1. /\ Key(r) \in DOMAIN cache /\ ttl = kept /\ Current = cache
        /\ now < cache[Key(r)].expires
    BY <1>2 DEF Hit, Has, Current, Nothing
  <2>2. /\ cache[Key(r)].from \in Requests /\ cache[Key(r)].asOf \in Nat
        /\ cache[Key(r)].expires \in Nat
    BY <2>1 DEF TypeOK
  <2>3. cache[Key(r)].from = r
    BY <2>1, <2>2, KeyInjective, <1>2 DEF Lineage
  <2>4. /\ cache[Key(r)].asOf <= now
        /\ cache[Key(r)].expires <= cache[Key(r)].asOf + MaxLoad + kept
        /\ newest[r] <= cache[Key(r)].asOf + MaxLoad
    BY <2>1, <2>3 DEF Lineage
  <2>5. now' = now /\ ttl' = ttl
    BY <1>2 DEF Hit
  <2>6. answer' = [request |-> r, from |-> r, asOf |-> cache[Key(r)].asOf, at |-> now]
    BY <1>2, <2>1, <2>3 DEF Hit, Answer
  <2>. QED
    BY <1>1, <2>1, <2>2, <2>4, <2>5, <2>6
<1>3. ASSUME NEW c \in Callers, Loaded(c)
      PROVE  /\ now' = now /\ ttl' = ttl
             /\ \E r \in Requests : \E asOf \in 0..now :
                  /\ answer' = [request |-> r, from |-> r, asOf |-> asOf, at |-> now]
                  /\ now <= asOf + ttl + MaxLoad
                  /\ newest[r] <= asOf + MaxLoad
  <2>1. c \in DOMAIN load /\ now' = now /\ ttl' = ttl
    BY <1>3 DEF Loaded
  <2>2. /\ load[c].request \in Requests /\ load[c].since \in 0..now
        /\ now <= load[c].since + MaxLoad
    BY <2>1 DEF TypeOK, Lineage
  <2>3. PICK asOf \in load[c].since..now :
          Answer(load[c].request, load[c].request, asOf)
    BY <1>3 DEF Loaded
  <2>4. answer' = [request |-> load[c].request, from |-> load[c].request,
                   asOf |-> asOf, at |-> now]
    BY <2>3 DEF Answer
  <2>5. newest[load[c].request] \in 0..now
    BY <2>2 DEF TypeOK
  <2>6. asOf \in 0..now /\ now <= asOf + MaxLoad /\ now <= asOf + ttl + MaxLoad
        /\ newest[load[c].request] <= asOf + MaxLoad
    BY <1>1, <2>2, <2>3, <2>5
  <2>. QED
    BY <2>1, <2>2, <2>4, <2>6
<1>4. \/ \E r \in Requests : Hit(r)
      \/ \E c \in Callers : Loaded(c)
  BY DEF Next, vars, Miss, LoadFails, Clear, ChangeTtl, Tick
<1>5. CASE \E r \in Requests : Hit(r)
  BY <1>1, <1>2, <1>5
<1>6. CASE \E c \in Callers : Loaded(c)
  BY <1>1, <1>3, <1>6
<1>. QED
  BY <1>4, <1>5, <1>6

(* An answer was looked up on the database it was asked of                 *)
(* (integrations/database/introspect.py:94).                               *)
THEOREM OwnDatabaseAlways == Spec => []OwnDatabase
<1>1. Init => OwnDatabase
  BY DEF Init, OwnDatabase
<1>2. OwnDatabase /\ IInv /\ [Next]_vars => OwnDatabase'
  <2>. SUFFICES ASSUME OwnDatabase, IInv, [Next]_vars PROVE OwnDatabase'
    OBVIOUS
  <2>1. CASE answer' = answer
    BY <2>1 DEF OwnDatabase
  <2>2. CASE answer' # answer
    BY <2>2, AnswerStep DEF OwnDatabase
  <2>. QED
    BY <2>1, <2>2
<1>. QED
  BY <1>1, <1>2, InitIInv, StepIInv, PTL DEF Spec

(* However lookups overlap and whatever the TTL was when the entry was     *)
(* made, an answer is no older than the TTL of the moment and one lookup.  *)
THEOREM AnswersFreshEnough == Spec => FreshEnough
<1>1. IInv /\ [Next]_vars => [answer' # answer => now - answer'.asOf <= ttl + MaxLoad]_vars
  <2>. SUFFICES ASSUME IInv, [Next]_vars, answer' # answer
                PROVE  now - answer'.asOf <= ttl + MaxLoad
    OBVIOUS
  <2>. QED
    BY AnswerStep, CacheAssumption
<1>. QED
  BY <1>1, InitIInv, StepIInv, PTL DEF Spec, FreshEnough

(* An answer is never further behind an earlier one than one lookup's      *)
(* time: a slow lookup that overwrites a faster one's result (cache.py:61) *)
(* costs no more, and a replaced cache cannot come back.                   *)
THEOREM AnswersGoBackOneLoad == Spec => GoesBackOneLoad
<1>1. IInv /\ [Next]_vars =>
        [answer' # answer => answer'.asOf + MaxLoad >= newest[answer'.request]]_vars
  <2>. SUFFICES ASSUME IInv, [Next]_vars, answer' # answer
                PROVE  answer'.asOf + MaxLoad >= newest[answer'.request]
    OBVIOUS
  <2>1. newest[answer'.request] \in 0..now
    BY AnswerStep DEF IInv, TypeOK
  <2>. QED
    BY <2>1, AnswerStep, CacheAssumption
<1>. QED
  BY <1>1, InitIInv, StepIInv, PTL DEF Spec, GoesBackOneLoad
===============================================================================
