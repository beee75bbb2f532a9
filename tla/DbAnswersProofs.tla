--------------------------- MODULE DbAnswersProofs ---------------------------
(***************************************************************************)
(* Proofs about DbAnswers, for any catalog, limits, caps and rows.         *)
(***************************************************************************)
EXTENDS DbAnswers, FiniteSetTheorems, TLAPS

AskOK == ask \in [tool : Fanouts \cup {"query", "sample"}, limit : {None} \cup Limits,
                  own : {None} \cup Limits, allowed : BOOLEAN]

Found == entity \cup named

(* The targets of a fan-out are the first of all that was found.           *)
Picked ==
  /\ ask.tool \notin Fanouts => Found = {}
  /\ ask.tool \in Fanouts /\ targets # <<>> =>
       \E s \in SetToSeqs(Found) :
         InOrder(s, entity) /\ targets = SubSeq(s, 1, Least(Len(s), MaxTargets))

(* A probe returned some of what its target holds. *)
ProbeOK(i) ==
  \/ probe[i] \in {Pending, [kind |-> "skipped", rows |-> <<>>]}
  \/ /\ held[i] \in Holdings[ask.tool]
     /\ \E seen \in Seen(held[i]) :
          probe[i] = [kind |-> "rows", rows |-> [k \in seen |-> held[i][k]]]

ProbesOK ==
  /\ targets \in Seq(Columns \cup {Statement})
  /\ DOMAIN probe = DOMAIN targets /\ DOMAIN held = DOMAIN targets
  /\ \A i \in DOMAIN targets : ProbeOK(i)

Capped == \E i \in Matched : Cap[i] # probe[i].rows

(* A call answers when all its probes have, and only from them. *)
ReplyOK == reply.kind = "ok" =>
  /\ AllProbed
  /\ reply.skipped = Skips /\ reply.truncated = TooMany
  /\ ask.tool = "store" =>
       /\ reply.matches = [i \in Matched |-> probe[i].rows]
       /\ reply.store \in IF ShownIds = {} \/ Ambiguous THEN {None} ELSE ShownIds
  /\ ask.tool # "store" =>
       /\ reply.matches = Cap /\ reply.capped = Capped
       /\ reply.note = IF ask.tool = "search" THEN Note ELSE None

IInv == AskOK /\ Found \subseteq Columns /\ Picked /\ ProbesOK /\ ReplyOK
-------------------------------------------------------------------------------
LEMMA NotOver == reply = NoReply => reply.kind # "ok"
BY RowsAssumption DEF NoReply

LEMMA Stays ==
  ASSUME UNCHANGED <<ask, entity, named, targets, probe, held>>
  PROVE  /\ AllProbed' = AllProbed /\ Skips' = Skips /\ TooMany' = TooMany
         /\ Matched' = Matched /\ Cap' = Cap /\ Capped' = Capped /\ Note' = Note
         /\ ShownIds' = ShownIds /\ Ambiguous' = Ambiguous
         /\ ProbesOK' = ProbesOK
<1>1. RowLimit' = RowLimit
  BY DEF RowLimit
<1>2. AllProbed' = AllProbed /\ Skips' = Skips /\ TooMany' = TooMany
  BY DEF AllProbed, Skips, TooMany
<1>3. Matched' = Matched /\ Left' = Left
  BY DEF Matched, Left
<1>4. Cap' = Cap
  BY <1>3 DEF Cap
<1>5. Capped' = Capped /\ Note' = Note
  BY <1>3, <1>4 DEF Capped, Note
<1>6. ShownIds' = ShownIds /\ Ambiguous' = Ambiguous
  BY DEF ShownIds, Ambiguous, Candidates
<1>7. \A rows : Seen(rows)' = Seen(rows)
  BY <1>1 DEF Seen
<1>8. \A i : ProbeOK(i)' = ProbeOK(i)
  BY <1>7 DEF ProbeOK
<1>9. ProbesOK' = ProbesOK
  BY <1>8 DEF ProbesOK
<1> QED BY <1>2, <1>3, <1>4, <1>5, <1>6, <1>9

LEMMA PickedStays ==
  ASSUME Picked, UNCHANGED <<ask, entity, named, targets>>
  PROVE  Picked' /\ Found' = Found
BY DEF Picked, Found, InOrder, Before

LEMMA InitInv == Init => IInv
BY NotOver DEF Init, IInv, AskOK, Found, Picked, ProbesOK, ReplyOK

(* New targets have not been probed. *)
LEMMA TargetProbes ==
  ASSUME NEW s \in Seq(Columns \cup {Statement}), Target(s) PROVE ProbesOK'
BY DEF Target, ProbesOK, ProbeOK

(* A sequence of all elements of a finite set, each once, has them all. *)
LEMMA AllInSequence ==
  ASSUME NEW S, IsFiniteSet(S), NEW s \in SetToSeqs(S)
  PROVE  s \in Seq(S) /\ Len(s) = Cardinality(S) /\ \A c \in S : \E j \in 1..Len(s) : s[j] = c
<1> DEFINE n == Cardinality(S)
<1>1. n \in Nat
  BY FS_CardinalityType
<1>2. s \in [1..n -> S] /\ \A i, j \in 1..n : i # j => s[i] # s[j]
  BY DEF SetToSeqs
<1>3. s \in Injection(1..n, S)
  BY <1>2 DEF Injection, IsInjective
<1>4. Cardinality(1..n) = n
  BY <1>1, FS_Interval
<1>5. s \in Surjection(1..n, S)
  BY <1>3, <1>4, FS_Injection
<1>6. s \in Seq(S) /\ Len(s) = n
  BY <1>1, <1>2
<1> QED BY <1>5, <1>6 DEF Surjection

LEMMA FindInv == ASSUME IInv, Find PROVE IInv'
<1>1. Found' \subseteq Columns
  <2>1. named' \subseteq Columns /\ entity' \subseteq Columns
    BY DEF Find
  <2> QED BY <2>1 DEF Found
<1>2. reply'.kind # "ok"
  BY NotOver DEF Find, Refuse
<1>3. CASE entity' \cup named' = {}
  <2>1. UNCHANGED <<ask, targets, probe, held>> /\ targets = <<>>
    BY <1>3 DEF Find
  <2>2. ask.tool \in Fanouts
    BY DEF Find
  <2>3. ProbesOK'
    BY <2>1 DEF IInv, ProbesOK, ProbeOK
  <2> QED BY <1>1, <1>2, <2>1, <2>2, <2>3 DEF IInv, AskOK, Picked, ReplyOK
<1>4. CASE entity' \cup named' # {}
  <2>1. PICK s \in SetToSeqs(entity' \cup named') :
          InOrder(s, entity') /\ Target(SubSeq(s, 1, Least(Len(s), MaxTargets)))
    BY <1>4 DEF Find
  <2>2. ask' = ask /\ ask.tool \in Fanouts
    BY DEF Find
  <2>3. InOrder(s, entity)'
    BY <2>1, <2>2 DEF InOrder, Before
  <2>4. Picked'
    BY <2>1, <2>2, <2>3 DEF Picked, Found, Target
  <2>5. SubSeq(s, 1, Least(Len(s), MaxTargets)) \in Seq(Columns \cup {Statement})
    <3>1. Found' = entity' \cup named' /\ IsFiniteSet(Found')
      BY <1>1, CatalogAssumption, FS_Subset DEF Found
    <3>2. s \in Seq(Found') /\ Len(s) \in Nat
      BY <2>1, <3>1, AllInSequence
    <3>3. s \in Seq(Columns \cup {Statement})
      BY <1>1, <3>2
    <3>4. Least(Len(s), MaxTargets) \in 0..Len(s)
      BY <3>2, AnswersAssumption DEF Least
    <3> QED BY <3>3, <3>4
  <2> QED BY <1>1, <1>2, <2>1, <2>2, <2>4, <2>5, TargetProbes DEF IInv, AskOK, ReplyOK
<1> QED BY <1>3, <1>4

LEMMA RunInv == ASSUME IInv, RunStatement PROVE IInv'
<1>1. ProbesOK'
  <2>1. <<Statement>> \in Seq(Columns \cup {Statement})
    OBVIOUS
  <2> QED BY <2>1, TargetProbes DEF RunStatement
<1>2. reply'.kind # "ok"
  BY NotOver DEF RunStatement
<1> QED BY <1>1, <1>2 DEF RunStatement, IInv, AskOK, Found, Picked, ReplyOK

(* One probe ends in a way a probe may end. *)
LEMMA ProbedInv ==
  ASSUME IInv, reply = NoReply, NEW i \in DOMAIN targets, NEW outcome, NEW rows,
         Probed(i, outcome), DOMAIN held' = DOMAIN held,
         \A k \in DOMAIN held : held'[k] = IF k = i THEN rows ELSE held[k],
         \/ outcome = [kind |-> "skipped", rows |-> <<>>]
         \/ /\ rows \in Holdings[ask.tool]
            /\ \E seen \in Seen(rows) :
                 outcome = [kind |-> "rows", rows |-> [k \in seen |-> rows[k]]]
  PROVE  IInv'
<1>1. UNCHANGED <<ask, entity, named, targets, reply>>
  BY DEF Probed
<1>2. probe' = [probe EXCEPT ![i] = outcome]
  BY DEF Probed
<1>3. RowLimit' = RowLimit
  BY <1>1 DEF RowLimit
<1>4. \A r : Seen(r)' = Seen(r)
  BY <1>1, <1>3 DEF Seen
<1>5. ProbesOK'
  <2>1. /\ targets' \in Seq(Columns \cup {Statement})
        /\ DOMAIN probe' = DOMAIN targets' /\ DOMAIN held' = DOMAIN targets'
    BY <1>1, <1>2 DEF IInv, ProbesOK
  <2>2. ASSUME NEW k \in DOMAIN targets PROVE ProbeOK(k)'
    <3>0. k \in DOMAIN probe /\ k \in DOMAIN held /\ ask' = ask /\ Pending' = Pending
      BY <1>1 DEF IInv, ProbesOK, Pending
    <3>1. CASE k = i
      <4>1. probe'[k] = outcome /\ held'[k] = rows
        BY <1>2, <3>0, <3>1
      <4> QED BY <1>4, <3>0, <4>1 DEF ProbeOK
    <3>2. CASE k # i
      <4>1. probe'[k] = probe[k] /\ held'[k] = held[k]
        BY <1>2, <3>0, <3>2
      <4>2. ProbeOK(k)
        BY DEF IInv, ProbesOK
      <4> QED BY <1>4, <3>0, <4>1, <4>2 DEF ProbeOK
    <3> QED BY <3>1, <3>2
  <2> QED BY <1>1, <2>1, <2>2 DEF ProbesOK
<1>6. Picked' /\ Found' = Found
  BY <1>1, PickedStays DEF IInv
<1> QED BY <1>1, <1>5, <1>6, NotOver DEF IInv, AskOK, ReplyOK

(* Whatever leaves the call and its probes alone. *)
LEMMA QuietInv ==
  ASSUME IInv, UNCHANGED <<ask, entity, named, targets, probe, held>>, ReplyOK'
  PROVE  IInv'
BY Stays, PickedStays DEF IInv, AskOK

LEMMA StepInv == IInv /\ [Next]_vars => IInv'
<1> SUFFICES ASSUME IInv, [Next]_vars PROVE IInv'
  OBVIOUS
<1>1. CASE RejectSql \/ Fail
  <2>1. reply'.kind # "ok"
    BY <1>1 DEF RejectSql, Fail, Refuse
  <2> QED BY <1>1, <2>1, QuietInv DEF RejectSql, Fail, ReplyOK
<1>2. CASE RunStatement \/ Find
  BY <1>2, RunInv, FindInv
<1>3. ASSUME NEW i \in DOMAIN targets, reply = NoReply, Answered(i) PROVE IInv'
  <2>1. PICK rows \in Holdings[ask.tool] :
          /\ held' = [held EXCEPT ![i] = rows]
          /\ \E seen \in Seen(rows) :
               Probed(i, [kind |-> "rows", rows |-> [k \in seen |-> rows[k]]])
    BY <1>3 DEF Answered
  <2>2. PICK seen \in Seen(rows) :
          Probed(i, [kind |-> "rows", rows |-> [k \in seen |-> rows[k]]])
    BY <2>1
  <2> QED BY <1>3, <2>1, <2>2, ProbedInv
<1>4. ASSUME NEW i \in DOMAIN targets, reply = NoReply, Skipped(i) PROVE IInv'
  <2>1. held' = held /\ Probed(i, [kind |-> "skipped", rows |-> <<>>])
    BY <1>4 DEF Skipped
  <2> QED BY <1>4, <2>1, ProbedInv
<1>5. CASE Return
  <2>1. /\ AllProbed /\ ask.tool # "store"
        /\ UNCHANGED <<ask, entity, named, targets, probe, held>>
    BY <1>5 DEF Return
  <2>2. /\ reply'.skipped = Skips /\ reply'.truncated = TooMany
        /\ reply'.matches = Cap /\ reply'.capped = Capped
        /\ reply'.note = IF ask.tool = "search" THEN Note ELSE None
    BY <1>5 DEF Return, Capped
  <2>3. ReplyOK'
    BY <2>1, <2>2, Stays DEF ReplyOK
  <2> QED BY <2>1, <2>3, QuietInv
<1>6. CASE ReturnStore
  <2>1. /\ AllProbed /\ ask.tool = "store"
        /\ UNCHANGED <<ask, entity, named, targets, probe, held>>
    BY <1>6 DEF ReturnStore
  <2>2. /\ reply'.skipped = Skips /\ reply'.truncated = TooMany
        /\ reply'.matches = [i \in Matched |-> probe[i].rows]
        /\ reply'.store \in IF ShownIds = {} \/ Ambiguous THEN {None} ELSE ShownIds
    BY <1>6 DEF ReturnStore
  <2>3. ReplyOK'
    BY <2>1, <2>2, Stays DEF ReplyOK
  <2> QED BY <2>1, <2>3, QuietInv
<1>7. CASE UNCHANGED vars
  <2>1. ReplyOK'
    BY <1>7, Stays DEF vars, IInv, ReplyOK
  <2> QED BY <1>7, <2>1, QuietInv DEF vars
<1> QED BY <1>1, <1>2, <1>3, <1>4, <1>5, <1>6, <1>7 DEF Next, Replied

LEMMA SpecInv == Spec => []IInv
BY InitInv, StepInv, PTL DEF Spec
-------------------------------------------------------------------------------
(* What a search leaves out comes after what it searches. *)
LEMMA SearchPicks ==
  ASSUME IInv, ask.tool = "search", targets # <<>>,
         NEW c \in Found, c \notin ToSet(targets)
  PROVE  Len(targets) = MaxTargets /\ \A t \in ToSet(targets) : ~Before(c, t, entity)
<1>1. PICK s \in SetToSeqs(Found) :
        InOrder(s, entity) /\ targets = SubSeq(s, 1, Least(Len(s), MaxTargets))
  BY DEF IInv, Picked, Fanouts
<1>2. IsFiniteSet(Found)
  BY FS_Subset, CatalogAssumption DEF IInv
<1>3. s \in Seq(Found) /\ Len(s) \in Nat
  BY <1>2, AllInSequence
<1>4. PICK j \in 1..Len(s) : s[j] = c
  BY <1>2, AllInSequence
<1> DEFINE m == Least(Len(s), MaxTargets)
<1>5. m \in Nat /\ m <= Len(s) /\ m <= MaxTargets /\ m \in {Len(s), MaxTargets}
  BY <1>3, AnswersAssumption DEF Least
<1>6. Len(targets) = m /\ DOMAIN targets = 1..m /\ \A i \in 1..m : targets[i] = s[i]
  BY <1>1, <1>3, <1>5
<1>7. j > m
  BY <1>3, <1>4, <1>5, <1>6 DEF ToSet
<1>8. ASSUME NEW t \in ToSet(targets) PROVE ~Before(c, t, entity)
  <2>1. PICK i \in 1..m : t = s[i]
    BY <1>6 DEF ToSet
  <2>2. i < j /\ i \in DOMAIN s /\ j \in DOMAIN s
    BY <1>3, <1>4, <1>5, <1>7
  <2> QED BY <1>1, <1>4, <2>1, <2>2 DEF InOrder
<1> QED BY <1>3, <1>4, <1>5, <1>6, <1>7, <1>8

(* MAX_SEARCH_TARGETS pushes out no table for a lesser one. *)
THEOREM BestAreSearched == Spec => []BestSearched
<1>1. ASSUME IInv PROVE BestSearched
  <2> SUFFICES ASSUME ask.tool = "search", targets # <<>>,
                      NEW c \in Found \ ToSet(targets)
               PROVE  /\ Len(targets) = MaxTargets
                      /\ \A s \in ToSet(targets) :
                           /\ c \in entity => s \in entity
                           /\ Live(c) /\ ~Live(s) => s \in entity /\ c \notin entity
    BY DEF BestSearched, Found
  <2>1. Len(targets) = MaxTargets /\ \A s \in ToSet(targets) : ~Before(c, s, entity)
    BY <1>1, SearchPicks
  <2> QED BY <2>1 DEF Before
<1> QED BY <1>1, SpecInv, PTL
-------------------------------------------------------------------------------
LEMMA LeastRight == ASSUME NEW a \in Int, NEW b \in Int, b <= a PROVE Least(a, b) = b
BY DEF Least

LEMMA ElementOf == ASSUME NEW S, NEW s \in Seq(S), NEW k \in DOMAIN s PROVE s[k] \in S
OBVIOUS

(* What a store lookup could see: of a column within the limit, all. *)
LEMMA AllSeen ==
  ASSUME AskOK, ask.tool = "store", NEW rows \in Holdings["store"], NEW seen \in Seen(rows)
  PROVE  /\ seen \subseteq DOMAIN rows
         /\ Len(rows) <= RowLimit => seen = DOMAIN rows
<1> DEFINE As == {x \in SUBSET DOMAIN rows : Cardinality(x) <= RowLimit}
           Bs == {x \in SUBSET DOMAIN rows : Cardinality(x) = Least(RowLimit, Len(rows))}
<1>0. Seen(rows) = {a \cup b : a \in As, b \in Bs}
  BY DEF Seen
<1>1. PICK a \in As, b \in Bs : seen = a \cup b
  BY <1>0
<1>2. Len(rows) \in Nat /\ DOMAIN rows = 1..Len(rows)
  BY RowsAssumption
<1>3. ASSUME Len(rows) <= RowLimit PROVE b = DOMAIN rows
  <2>1. RowLimit \in Int
    <3>1. ask.limit \in {None} \cup Int /\ ask.own \in {None} \cup Int
      BY AnswersAssumption DEF AskOK
    <3> QED BY <3>1, AnswersAssumption DEF RowLimit, Clamp, Least, Most
  <2>2. Least(RowLimit, Len(rows)) = Len(rows)
    BY <1>2, <1>3, <2>1, LeastRight
  <2>3. IsFiniteSet(1..Len(rows)) /\ Cardinality(1..Len(rows)) = Len(rows)
    BY <1>2, FS_Interval
  <2>4. b \in SUBSET (1..Len(rows)) /\ Cardinality(b) = Len(rows)
    BY <1>1, <1>2, <2>2
  <2> QED BY <1>2, <2>3, <2>4, FS_Subset
<1> QED BY <1>1, <1>3

(* Every row a probe returned is one of a column, and its store id is not  *)
(* what the redaction writes.                                              *)
LEMMA CandidatesAreRows ==
  ASSUME IInv, ask.tool = "store", NEW row \in Candidates, row.id # None
  PROVE  row.id.n # 0
<1>1. PICK i \in DOMAIN targets : row \in ToSet(probe[i].rows)
  BY DEF Candidates
<1>2. ProbeOK(i)
  BY DEF IInv, ProbesOK
<1>3. held[i] \in Holdings["store"] /\ \E seen \in Seen(held[i]) :
        probe[i] = [kind |-> "rows", rows |-> [k \in seen |-> held[i][k]]]
  <2>1. ToSet(<<>>) = {}
    BY DEF ToSet
  <2>2. CASE probe[i] \in {Pending, [kind |-> "skipped", rows |-> <<>>]}
    <3>1. probe[i].rows = <<>>
      BY <2>2 DEF Pending
    <3> QED BY <1>1, <2>1, <3>1
  <2> QED BY <1>2, <2>2 DEF ProbeOK
<1>4. PICK k \in DOMAIN held[i] : row = held[i][k]
  BY <1>1, <1>3, AllSeen DEF IInv, ToSet
<1>5. held[i] \in Seq(Row)
  BY <1>3, RowsAssumption DEF Fanouts
<1>6. held[i][k] \in Row
  BY <1>5, ElementOf
<1> QED BY <1>4, <1>6 DEF Row

(* db_resolve_store gives the only store id that its rows hold, or none.   *)
THEOREM PicksOpenly == Spec => []NoSilentPick
<1>1. ASSUME IInv PROVE NoSilentPick
  <2> SUFFICES ASSUME reply.kind = "ok", ask.tool = "store",
                      reply.store \notin {None, Masked},
                      NEW i \in DOMAIN targets \ reply.skipped, Len(held[i]) <= RowLimit,
                      NEW j \in DOMAIN held[i], held[i][j].id # None
               PROVE  held[i][j].id.n = reply.store.n
    BY DEF NoSilentPick
  <2> DEFINE id == held[i][j].id
  <2>1. reply.store \in ShownIds /\ ~Ambiguous
    BY <1>1 DEF IInv, ReplyOK
  <2>2. held[i] \in Holdings["store"] /\ \E seen \in Seen(held[i]) :
          probe[i] = [kind |-> "rows", rows |-> [k \in seen |-> held[i][k]]]
    <3>1. ProbeOK(i) /\ probe[i] # Pending /\ probe[i].kind # "skipped"
      BY <1>1 DEF IInv, ProbesOK, ReplyOK, AllProbed, Skips
    <3>2. probe[i] # [kind |-> "skipped", rows |-> <<>>]
      BY <3>1
    <3> QED BY <3>1, <3>2 DEF ProbeOK
  <2>3. probe[i].rows = [k \in DOMAIN held[i] |-> held[i][k]]
    BY <1>1, <2>2, AllSeen DEF IInv
  <2>4. held[i][j] \in Candidates
    BY <2>3 DEF Candidates, ToSet
  <2>5. Redact(id) \in ShownIds
    BY <2>4, RowsAssumption DEF ShownIds, Redact
  <2>6. Redact(id).n = reply.store.n
    BY <2>1, <2>5 DEF Ambiguous
  <2>7. CASE Redact(id) = id
    BY <2>6, <2>7
  <2>8. CASE Redact(id) = Masked
    <3>1. reply.store.n = 0
      BY <2>6, <2>8 DEF Masked
    <3>2. PICK row \in Candidates : reply.store = Redact(row.id)
      BY <2>1 DEF ShownIds
    <3>3. reply.store = row.id
      BY <3>2 DEF Redact
    <3> QED BY <1>1, <3>1, <3>2, <3>3, CandidatesAreRows
  <2> QED BY <2>7, <2>8 DEF Redact
<1> QED BY <1>1, SpecInv, PTL
-------------------------------------------------------------------------------
(* Whatever the caller and the statement ask for, at least one row.        *)
LEMMA RowLimitPositive == ASSUME AskOK PROVE RowLimit \in Nat \ {0}
<1>1. ask.limit \in {None} \cup Int /\ ask.own \in {None} \cup Int
  BY AnswersAssumption DEF AskOK
<1>2. \A limit \in Int : \A own \in {None} \cup Int : Clamp(limit, own) \in Nat \ {0}
  BY DEF Clamp, Least, Most
<1>3. ask.limit # None => Least(ask.limit, MaxRows) \in Int
  BY <1>1, AnswersAssumption DEF Least
<1> QED BY <1>1, <1>2, <1>3, AnswersAssumption DEF RowLimit

LEMMA SeesSome ==
  ASSUME AskOK, NEW rows \in Seq(Row), rows # <<>>, NEW seen \in Seen(rows)
  PROVE  seen # {}
<1>1. Least(RowLimit, Len(rows)) \in Nat \ {0}
  BY RowLimitPositive DEF Least
<1>2. CASE ask.tool # "store"
  <2>1. seen = 1..Least(RowLimit, Len(rows))
    BY <1>2 DEF Seen
  <2> QED BY <1>1, <2>1
<1>3. CASE ask.tool = "store"
  <2> DEFINE As == {x \in SUBSET DOMAIN rows : Cardinality(x) <= RowLimit}
             Bs == {x \in SUBSET DOMAIN rows : Cardinality(x) = Least(RowLimit, Len(rows))}
  <2>1. Seen(rows) = {a \cup b : a \in As, b \in Bs}
    BY <1>3 DEF Seen
  <2>2. PICK a \in As, b \in Bs : seen = a \cup b
    BY <2>1
  <2>3. b # {}
    BY <1>1, FS_EmptySet
  <2> QED BY <2>2, <2>3
<1> QED BY <1>2, <1>3

(* What the probe of a target that was not skipped returned. *)
LEMMA Fetched ==
  ASSUME IInv, AllProbed, NEW i \in DOMAIN targets \ Skips
  PROVE  /\ held[i] \in Seq(Row) /\ held[i] \in Holdings[ask.tool]
         /\ \E seen \in Seen(held[i]) :
              probe[i] = [kind |-> "rows", rows |-> [k \in seen |-> held[i][k]]]
<1>1. ProbeOK(i) /\ probe[i] # Pending /\ probe[i].kind # "skipped"
  BY DEF IInv, ProbesOK, AllProbed, Skips
<1>2. probe[i] # [kind |-> "skipped", rows |-> <<>>]
  BY <1>1
<1> QED BY <1>1, <1>2, RowsAssumption DEF ProbeOK, IInv, AskOK

LEMMA HeldIsMatched ==
  ASSUME IInv, AllProbed, NEW i \in DOMAIN targets \ Skips, held[i] # <<>>
  PROVE  i \in Matched
<1>1. PICK seen \in Seen(held[i]) :
        probe[i] = [kind |-> "rows", rows |-> [k \in seen |-> held[i][k]]]
  BY Fetched
<1>2. seen # {}
  BY Fetched, SeesSome DEF IInv
<1>3. DOMAIN probe[i].rows # {}
  BY <1>1, <1>2
<1> QED BY <1>3 DEF Matched

(* A column that was found and not searched was one too many. *)
LEMMA LeftOut ==
  ASSUME IInv, targets # <<>>, NEW c \in Found, c \notin ToSet(targets)
  PROVE  TooMany
<1>1. PICK s \in SetToSeqs(Found) : targets = SubSeq(s, 1, Least(Len(s), MaxTargets))
  BY DEF IInv, Picked
<1>2. IsFiniteSet(Found)
  BY FS_Subset, CatalogAssumption DEF IInv
<1>3. s \in Seq(Found) /\ Len(s) = Cardinality(Found) /\ Len(s) \in Nat
  BY <1>2, AllInSequence
<1>4. PICK j \in 1..Len(s) : s[j] = c
  BY <1>2, AllInSequence
<1>5. SUFFICES ASSUME Len(s) <= MaxTargets PROVE FALSE
  BY <1>3, AnswersAssumption DEF TooMany, Found
<1>6. Least(Len(s), MaxTargets) = Len(s)
  BY <1>5 DEF Least
<1>7. j \in DOMAIN targets /\ targets[j] = c
  BY <1>1, <1>3, <1>4, <1>6
<1> QED BY <1>7 DEF ToSet

(* An answer without rows of a column that has some says why, whatever     *)
(* limit the caller or the statement names.                                *)
THEOREM NothingMissedSilently == Spec => []NoSilentMiss
<1>1. ASSUME IInv PROVE NoSilentMiss
  <2> SUFFICES ASSUME reply.kind = "ok"
               PROVE  /\ \A c \in Found : c \in ToSet(targets) \/ reply.truncated
                      /\ \A i \in DOMAIN targets :
                           \/ i \in reply.skipped \/ held[i] = <<>>
                           \/ i \in DOMAIN reply.matches
                              /\ (reply.matches[i] # <<>> \/ reply.capped)
    BY DEF NoSilentMiss, Found
  <2>1. AllProbed /\ reply.skipped = Skips /\ reply.truncated = TooMany /\ targets # <<>>
    BY <1>1 DEF IInv, ReplyOK, AllProbed
  <2>2. ASSUME NEW i \in DOMAIN targets \ Skips, held[i] # <<>>
        PROVE  i \in DOMAIN reply.matches /\ (reply.matches[i] # <<>> \/ reply.capped)
    <3>1. i \in Matched
      BY <1>1, <2>1, <2>2, HeldIsMatched
    <3>2. CASE ask.tool = "store"
      <4>1. reply.matches = [k \in Matched |-> probe[k].rows]
        BY <1>1, <3>2 DEF IInv, ReplyOK
      <4> QED BY <3>1, <4>1 DEF Matched
    <3>3. CASE ask.tool # "store"
      <4>1. reply.matches = Cap /\ reply.capped = Capped
        BY <1>1, <3>3 DEF IInv, ReplyOK
      <4>2. DOMAIN Cap = Matched
        BY DEF Cap
      <4> QED BY <3>1, <4>1, <4>2 DEF Matched, Capped
    <3> QED BY <3>2, <3>3
  <2> QED BY <1>1, <2>1, <2>2, LeftOut
<1> QED BY <1>1, SpecInv, PTL

(* An answer of a search that shows nothing live says so, or says that     *)
(* rows were cut off.                                                      *)
THEOREM StaleRowsAreMarked == Spec => []StaleRowsMarked
<1>1. ASSUME IInv PROVE StaleRowsMarked
  <2> SUFFICES ASSUME reply.kind = "ok", ask.tool = "search" PROVE StaleRowsMarked
    BY DEF StaleRowsMarked
  <2> DEFINE shown == {targets[i] : i \in {k \in DOMAIN reply.matches : reply.matches[k] # <<>>}}
  <2>1. reply.matches = Cap /\ reply.capped = Capped /\ reply.note = Note
    BY <1>1 DEF IInv, ReplyOK
  <2>2. DOMAIN Cap = Matched /\ Matched \subseteq DOMAIN targets
    BY DEF Cap, Matched
  <2>3. Note \in {"searched", "matches", None} /\ None \notin {"searched", "matches"}
    BY RowsAssumption DEF Note
  <2>4. (\A t \in ToSet(targets) : ~Live(t)) => reply.note = "searched"
    BY <2>1 DEF Note, ToSet
  <2>5. ASSUME shown # {}, \A t \in shown : ~Live(t), ~Capped PROVE Note # None
    <3>1. \A i \in Matched : Cap[i] # <<>>
      BY <2>5 DEF Capped, Matched
    <3>2. \A i \in Matched : targets[i] \in shown
      BY <2>1, <2>2, <3>1
    <3>3. Matched # {} /\ \A i \in Matched : ~Live(targets[i])
      BY <2>1, <2>2, <2>5, <3>2
    <3> QED BY <2>3, <3>3 DEF Note
  <2>6. Note = "matches" => \A t \in shown : ~Live(t)
    <3>1. Note = "matches" => \A i \in Matched : ~Live(targets[i])
      BY <2>3 DEF Note
    <3> QED BY <2>1, <2>2, <3>1
  <2> QED BY <2>1, <2>4, <2>5, <2>6 DEF StaleRowsMarked
<1> QED BY <1>1, SpecInv, PTL
-------------------------------------------------------------------------------
(* Induction, for a set of numbers. *)
LEMMA LeastElement ==
  ASSUME NEW S \in SUBSET Nat, S # {} PROVE \E x \in S : \A y \in S : ~(y < x)
<1>1. IsWellFoundedOn(OpToRel(<, Nat), Nat)
  BY NatLessThanWellFounded
<1>2. PICK x \in S : \A y \in S : ~(<<y, x>> \in OpToRel(<, Nat))
  BY <1>1, WFMin
<1> QED BY <1>2 DEF OpToRel

LEMMA UpTo ==
  ASSUME NEW n \in Nat, NEW S \in SUBSET Nat, 0 \in S, \A m \in S : m < n => m + 1 \in S
  PROVE  0..n \subseteq S
<1> SUFFICES ASSUME NEW x \in 0..n, x \notin S PROVE FALSE
  OBVIOUS
<1> DEFINE Rest == (0..n) \ S
<1>1. Rest \in SUBSET Nat /\ Rest # {}
  OBVIOUS
<1>2. PICK least \in Rest : \A y \in Rest : ~(y < least)
  <2> HIDE DEF Rest
  <2> QED BY <1>1, LeastElement
<1>3. least \in 0..n /\ least \notin S /\ least # 0
  OBVIOUS
<1>4. least - 1 \in 0..n /\ least - 1 < least
  BY <1>3
<1>5. least - 1 \in S /\ least - 1 < n
  BY <1>2, <1>3, <1>4
<1>6. (least - 1) + 1 \in S
  BY <1>5
<1> QED BY <1>3, <1>6

(* A bounded set of numbers has a greatest one, and Max finds it. *)
LEMMA MaxOf ==
  ASSUME NEW n \in Nat, NEW S \in SUBSET (0..n), S # {}
  PROVE  Max(S) \in S /\ \A y \in S : y <= Max(S)
<1> DEFINE Gaps == {n - x : x \in S}
<1>1. Gaps \in SUBSET Nat /\ Gaps # {}
  <2>1. \A x \in S : n - x \in Nat
    OBVIOUS
  <2>2. PICK x \in S : TRUE
    OBVIOUS
  <2>3. n - x \in Gaps
    BY <2>2
  <2> QED BY <2>1, <2>3
<1>2. PICK gap \in Gaps : \A y \in Gaps : ~(y < gap)
  <2> HIDE DEF Gaps
  <2> QED BY <1>1, LeastElement
<1>3. PICK x \in S : gap = n - x
  BY <1>2
<1>4. ASSUME NEW y \in S PROVE x >= y
  <2>1. ~(n - y < n - x)
    BY <1>2, <1>3
  <2> QED BY <2>1
<1>5. Max(S) \in S /\ \A y \in S : Max(S) >= y
  BY <1>3, <1>4 DEF Max
<1> QED BY <1>5

(* f starts at a and goes on by the step h. *)
Tabulates(f, N, D, a, h) ==
  f \in [0..N -> D] /\ f[0] = a /\ \A n \in 1..N : f[n] = h[<<n, f[n - 1]>>]

Steps(N, D) == [(1..N) \X D -> D]

(* Such a function exists: a recursion over 1..N defines something. *)
LEMMA Iteration ==
  ASSUME NEW N \in Nat, NEW D, NEW a \in D, NEW h \in Steps(N, D)
  PROVE  \E f : Tabulates(f, N, D, a, h)
<1> USE DEF Tabulates, Steps
<1> DEFINE Table(f, m) == Tabulates(f, m, D, a, h)
           S == {m \in Nat : m <= N => \E f : Table(f, m)}
<1>1. 0 \in S
  <2>1. Table([i \in 0..0 |-> a], 0)
    OBVIOUS
  <2> QED BY <2>1
<1>2. ASSUME NEW m \in S, m < N PROVE m + 1 \in S
  <2>1. PICK f : Table(f, m)
    BY <1>2
  <2> DEFINE v == h[<<m + 1, f[m]>>]
             g == [i \in 0..(m + 1) |-> IF i <= m THEN f[i] ELSE v]
  <2>2. v \in D
    BY <1>2, <2>1
  <2>3. g \in [0..(m + 1) -> D] /\ g[0] = a
    BY <2>1, <2>2
  <2>4. ASSUME NEW n \in 1..(m + 1) PROVE g[n] = h[<<n, g[n - 1]>>]
    <3>1. CASE n <= m
      <4>1. g[n] = f[n] /\ g[n - 1] = f[n - 1]
        BY <3>1
      <4> QED BY <2>1, <3>1, <4>1
    <3>2. CASE n = m + 1
      <4>1. g[m + 1] = v /\ g[m] = f[m] /\ n - 1 = m
        BY <3>2
      <4> QED BY <3>2, <4>1
    <3> QED BY <3>1, <3>2
  <2>5. Table(g, m + 1)
    BY <2>3, <2>4
  <2> HIDE DEF Table, g
  <2> QED BY <2>5
<1>3. 0..N \subseteq S
  <2> HIDE DEF S
  <2>1. S \in SUBSET Nat
    BY DEF S
  <2> QED BY <1>1, <1>2, <2>1, UpTo
<1>4. N \in S
  <2> HIDE DEF S
  <2> QED BY <1>3
<1> QED BY <1>4

LEMMA BytesType == ASSUME NEW row \in Row PROVE Bytes(row) \in Nat
BY AnswersAssumption DEF Bytes, Row

(* Sizes adds up the bytes of the rows. *)
LEMMA SizesOf ==
  ASSUME NEW rows \in Seq(Row)
  PROVE  /\ Sizes(rows) \in [0..Len(rows) -> Nat]
         /\ Sizes(rows)[0] = 0
         /\ \A n \in 1..Len(rows) : Sizes(rows)[n] = Sizes(rows)[n - 1] + Bytes(rows[n])
<1> DEFINE N == Len(rows)
           Sums(f) == f = [n \in 0..N |-> IF n = 0 THEN 0 ELSE f[n - 1] + Bytes(rows[n])]
           h == [x \in (1..N) \X Nat |-> x[2] + Bytes(rows[x[1]])]
<1>1. N \in Nat /\ \A n \in 1..N : Bytes(rows[n]) \in Nat
  BY BytesType
<1>2. h \in Steps(N, Nat)
  BY <1>1 DEF Steps
<1>3. PICK f : Tabulates(f, N, Nat, 0, h)
  <2> HIDE DEF h, N
  <2> QED BY <1>1, <1>2, Iteration
<1>4. Sums(f)
  <2>1. ASSUME NEW n \in 1..N PROVE f[n] = f[n - 1] + Bytes(rows[n])
    <3>1. n - 1 \in 0..N /\ f[n - 1] \in Nat
      BY <1>1, <1>3 DEF Tabulates
    <3> QED BY <1>3, <3>1 DEF Tabulates
  <2> QED BY <1>1, <1>3, <2>1 DEF Tabulates
<1>5. Sums(Sizes(rows))
  <2> HIDE DEF Sums
  <2>1. Sizes(rows) = CHOOSE g : Sums(g)
    BY DEF Sizes, Sums
  <2> QED BY <1>4, <2>1
<1> DEFINE S == {m \in Nat : m <= N => Sizes(rows)[m] \in Nat}
<1>6. 0 \in S
  BY <1>1, <1>5
<1>7. ASSUME NEW m \in S, m < N PROVE m + 1 \in S
  <2>1. Sizes(rows)[m + 1] = Sizes(rows)[m] + Bytes(rows[m + 1])
    BY <1>1, <1>5, <1>7
  <2> QED BY <1>1, <1>7, <2>1
<1>8. 0..N \subseteq S
  <2> HIDE DEF S, N
  <2>1. S \in SUBSET Nat
    BY DEF S
  <2> QED BY <1>1, <1>6, <1>7, <2>1, UpTo
<1>9. \A m \in 0..N : Sizes(rows)[m] \in Nat
  BY <1>1, <1>8
<1>10. Sizes(rows) \in [0..N -> Nat]
  <2>1. Sizes(rows) = [n \in 0..N |-> Sizes(rows)[n]]
    BY <1>5
  <2> QED BY <1>9, <2>1
<1>11. Sizes(rows)[0] = 0 /\ \A n \in 1..N : Sizes(rows)[n] = Sizes(rows)[n - 1] + Bytes(rows[n])
  BY <1>1, <1>5
<1> QED BY <1>10, <1>11

(* The leading rows are as large alone as with the rows behind them. *)
LEMMA SizeOfPrefix ==
  ASSUME NEW rows \in Seq(Row), NEW m \in 0..Len(rows)
  PROVE  SubSeq(rows, 1, m) \in Seq(Row) /\ Size(SubSeq(rows, 1, m)) = Sizes(rows)[m]
<1> DEFINE lead == SubSeq(rows, 1, m)
           S == {n \in Nat : n <= m => Sizes(lead)[n] = Sizes(rows)[n]}
<1>1. /\ lead \in Seq(Row) /\ Len(lead) = m /\ m \in Nat
      /\ \A n \in 1..m : lead[n] = rows[n]
  OBVIOUS
<1> HIDE DEF lead
<1>2. 0 \in S
  BY <1>1, SizesOf
<1>3. ASSUME NEW n \in S, n < m PROVE n + 1 \in S
  <2>1. n + 1 \in 1..m /\ n + 1 \in 1..Len(rows) /\ (n + 1) - 1 = n
    BY <1>1, <1>3
  <2>2. Sizes(lead)[n + 1] = Sizes(lead)[n] + Bytes(lead[n + 1])
    BY <1>1, <2>1, SizesOf
  <2>3. Sizes(rows)[n + 1] = Sizes(rows)[n] + Bytes(rows[n + 1])
    BY <2>1, SizesOf
  <2>4. lead[n + 1] = rows[n + 1]
    BY <1>1, <2>1
  <2> QED BY <1>3, <2>2, <2>3, <2>4
<1>4. 0..m \subseteq S
  <2> HIDE DEF S
  <2>1. S \in SUBSET Nat
    BY DEF S
  <2> QED BY <1>1, <1>2, <1>3, <2>1, UpTo
<1>5. Sizes(lead)[m] = Sizes(rows)[m]
  BY <1>1, <1>4
<1> QED BY <1>1, <1>5 DEF Size, lead

(* fit_rows_to_budget keeps the most leading rows that fit.                *)
LEMMA FittingOf ==
  ASSUME NEW rows \in Seq(Row), NEW budget \in Nat
  PROVE  \E m \in 0..Len(rows) :
           /\ Fitting(rows, budget) = SubSeq(rows, 1, m)
           /\ Size(Fitting(rows, budget)) = Sizes(rows)[m]
           /\ Sizes(rows)[m] \in Nat /\ Sizes(rows)[m] <= budget
           /\ m < Len(rows) => Sizes(rows)[m] + Bytes(rows[m + 1]) > budget
<1> DEFINE N == Len(rows)
           Fits == {n \in 0..N : Sizes(rows)[n] <= budget}
           m == Max(Fits)
<1>1. N \in Nat /\ \A n \in 0..N : Sizes(rows)[n] \in Nat
  BY SizesOf
<1>2. 0 \in Fits
  BY <1>1, SizesOf
<1>3. m \in Fits /\ \A n \in Fits : n <= m
  <2>1. Fits \in SUBSET (0..N)
    OBVIOUS
  <2> HIDE DEF Fits, N
  <2> QED BY <1>1, <1>2, <2>1, MaxOf
<1>4. Fitting(rows, budget) = SubSeq(rows, 1, m)
  BY DEF Fitting
<1> HIDE DEF m
<1>5. m \in 0..N /\ Sizes(rows)[m] <= budget
  BY <1>3
<1>6. Size(Fitting(rows, budget)) = Sizes(rows)[m]
  BY <1>4, <1>5, SizeOfPrefix
<1>7. ASSUME m < N PROVE Sizes(rows)[m] + Bytes(rows[m + 1]) > budget
  <2>1. m + 1 \in 1..N /\ m + 1 \in 0..N /\ (m + 1) - 1 = m
    BY <1>1, <1>5, <1>7
  <2>2. m + 1 \notin Fits
    <3>1. m \in Nat /\ ~(m + 1 <= m)
      BY <1>5
    <3> HIDE DEF Fits
    <3> QED BY <1>3, <3>1
  <2>3. Sizes(rows)[m + 1] \in Nat /\ ~(Sizes(rows)[m + 1] <= budget)
    BY <1>1, <2>1, <2>2
  <2>4. Sizes(rows)[m + 1] = Sizes(rows)[m] + Bytes(rows[m + 1])
    BY <2>1, SizesOf
  <2> QED BY <2>3, <2>4
<1> QED BY <1>1, <1>4, <1>5, <1>6, <1>7

(* What was fetched of a target for any tool but a store lookup. *)
LEMMA FetchedRows ==
  ASSUME IInv, AllProbed, ask.tool # "store", NEW i \in DOMAIN targets
  PROVE  probe[i].rows \in Seq(Row)
<1>1. CASE i \in Skips
  <2>1. probe[i] = [kind |-> "skipped", rows |-> <<>>]
    BY <1>1, RowsAssumption DEF IInv, ProbesOK, ProbeOK, AllProbed, Skips
  <2> QED BY <2>1
<1>2. CASE i \notin Skips
  <2>1. held[i] \in Seq(Row) /\ \E seen \in Seen(held[i]) :
          probe[i] = [kind |-> "rows", rows |-> [k \in seen |-> held[i][k]]]
    BY <1>2, Fetched
  <2> DEFINE m == Least(RowLimit, Len(held[i]))
  <2>2. probe[i].rows = [k \in 1..m |-> held[i][k]]
    BY <2>1 DEF Seen
  <2>3. m \in 0..Len(held[i])
    BY <2>1, RowLimitPositive DEF Least, IInv
  <2> QED BY <2>1, <2>2, <2>3
<1> QED BY <1>1, <1>2

(* The matches share one budget, which is never overdrawn. *)
LEMMA LeftOf ==
  ASSUME IInv, AllProbed, ask.tool # "store"
  PROVE  /\ Left[0] = Budget
         /\ \A i \in 0..Len(targets) : Left[i] \in Nat
         /\ \A i \in DOMAIN targets :
              Left[i] = Left[i - 1] - Size(Fitting(probe[i].rows, Left[i - 1]))
<1> DEFINE N == Len(targets)
           Share(i, left) == left - Size(Fitting(probe[i].rows, left))
           Splits(f) == f = [i \in 0..N |-> IF i = 0 THEN Budget ELSE Share(i, f[i - 1])]
           h == [x \in (1..N) \X Nat |-> Share(x[1], x[2])]
<1>1. N \in Nat /\ Budget \in Nat /\ DOMAIN targets = 1..N
  BY AnswersAssumption DEF IInv, ProbesOK
<1>2. \A i \in 1..N : \A left \in Nat : Share(i, left) \in Nat
  <2> SUFFICES ASSUME NEW i \in 1..N, NEW left \in Nat PROVE Share(i, left) \in Nat
    OBVIOUS
  <2>1. probe[i].rows \in Seq(Row)
    BY <1>1, FetchedRows
  <2>2. Size(Fitting(probe[i].rows, left)) \in Nat /\ Size(Fitting(probe[i].rows, left)) <= left
    BY <2>1, FittingOf
  <2> QED BY <2>2
<1>3. h \in Steps(N, Nat)
  <2> HIDE DEF Share
  <2> QED BY <1>1, <1>2 DEF Steps
<1>4. PICK f : Tabulates(f, N, Nat, Budget, h)
  <2> HIDE DEF h, N
  <2> QED BY <1>1, <1>3, Iteration
<1>5. Splits(f)
  <2> HIDE DEF Share
  <2>1. ASSUME NEW n \in 1..N PROVE f[n] = Share(n, f[n - 1])
    <3>1. n - 1 \in 0..N /\ f[n - 1] \in Nat
      BY <1>1, <1>4 DEF Tabulates
    <3> QED BY <1>4, <3>1 DEF Tabulates
  <2> QED BY <1>1, <1>4, <2>1 DEF Tabulates
<1>6. Splits(Left)
  <2>1. Left = CHOOSE g : Splits(g)
    BY DEF Left, Spend
  <2> HIDE DEF Splits
  <2> QED BY <1>5, <2>1
<1> HIDE DEF Share
<1>7. Left[0] = Budget /\ \A i \in 1..N : Left[i] = Share(i, Left[i - 1])
  BY <1>1, <1>6
<1> DEFINE S == {m \in Nat : m <= N => Left[m] \in Nat}
<1>8. 0 \in S
  BY <1>1, <1>7
<1>9. ASSUME NEW m \in S, m < N PROVE m + 1 \in S
  <2>1. m + 1 \in 1..N /\ (m + 1) - 1 = m
    BY <1>1, <1>9
  <2>2. Left[(m + 1) - 1] \in Nat
    BY <1>1, <1>9, <2>1
  <2>3. Left[m + 1] = Share(m + 1, Left[(m + 1) - 1])
    BY <1>7, <2>1
  <2>4. Left[m + 1] \in Nat
    BY <1>2, <2>1, <2>2, <2>3
  <2> QED BY <1>1, <1>9, <2>4
<1>10. 0..N \subseteq S
  <2> HIDE DEF S, N
  <2>1. S \in SUBSET Nat
    BY DEF S
  <2> QED BY <1>1, <1>8, <1>9, <2>1, UpTo
<1>11. \A m \in 0..N : Left[m] \in Nat
  BY <1>1, <1>10
<1> QED BY <1>1, <1>7, <1>11 DEF Share

(* What an answer shows and what is left make the budget. *)
LEMMA ShownAndLeft ==
  ASSUME IInv, reply.kind = "ok", ask.tool # "store", NEW i \in 0..Len(targets)
  PROVE  Shown[i] \in Nat /\ Shown[i] + Left[i] = Budget
<1> DEFINE N == Len(targets)
           part == [k \in 1..N |-> IF k \in DOMAIN reply.matches THEN Size(reply.matches[k]) ELSE 0]
           Adds(f) == f = [k \in 0..N |-> IF k = 0 THEN 0 ELSE f[k - 1] + part[k]]
           h == [x \in (1..N) \X Nat |-> x[2] + part[x[1]]]
<1>1. /\ N \in Nat /\ Budget \in Nat /\ DOMAIN targets = 1..N
      /\ AllProbed /\ reply.matches = Cap
  BY AnswersAssumption DEF IInv, ProbesOK, ReplyOK
<1>2. \A k \in 1..N : part[k] \in Nat /\ Left[k] = Left[k - 1] - part[k]
  <2> SUFFICES ASSUME NEW k \in 1..N PROVE part[k] \in Nat /\ Left[k] = Left[k - 1] - part[k]
    OBVIOUS
  <2>1. probe[k].rows \in Seq(Row)
    BY <1>1, FetchedRows
  <2>2. k - 1 \in 0..N /\ Left[k - 1] \in Nat
        /\ Left[k] = Left[k - 1] - Size(Fitting(probe[k].rows, Left[k - 1]))
    BY <1>1, LeftOf
  <2>3. PICK m \in 0..Len(probe[k].rows) :
          Size(Fitting(probe[k].rows, Left[k - 1])) = Sizes(probe[k].rows)[m]
          /\ Sizes(probe[k].rows)[m] \in Nat
    BY <2>1, <2>2, FittingOf
  <2>4. CASE k \in Matched
    <3>1. part[k] = Size(Fitting(probe[k].rows, Left[k - 1]))
      BY <1>1, <2>4 DEF Cap
    <3> QED BY <2>2, <2>3, <3>1
  <2>5. CASE k \notin Matched
    <3>1. part[k] = 0
      BY <1>1, <2>5 DEF Cap
    <3>2. probe[k].rows = <<>>
      BY <1>1, <2>5 DEF Matched
    <3>3. m = 0
      BY <2>3, <3>2
    <3>4. Sizes(probe[k].rows)[m] = 0
      BY <2>1, <3>3, SizesOf
    <3> QED BY <2>2, <2>3, <3>1, <3>4
  <2> QED BY <2>4, <2>5
<1>3. Shown = CHOOSE f : Adds(f)
  BY DEF Shown
<1> HIDE DEF part
<1>4. h \in Steps(N, Nat)
  BY <1>1, <1>2 DEF Steps
<1>5. PICK f : Tabulates(f, N, Nat, 0, h)
  <2> HIDE DEF h, N
  <2> QED BY <1>1, <1>4, Iteration
<1>6. Adds(f)
  <2>1. ASSUME NEW n \in 1..N PROVE f[n] = f[n - 1] + part[n]
    <3>1. n - 1 \in 0..N /\ f[n - 1] \in Nat
      BY <1>1, <1>5 DEF Tabulates
    <3> QED BY <1>5, <3>1 DEF Tabulates
  <2> QED BY <1>1, <1>5, <2>1 DEF Tabulates
<1>7. Adds(Shown)
  <2> HIDE DEF Adds
  <2> QED BY <1>3, <1>6
<1>8. Shown[0] = 0 /\ \A k \in 1..N : Shown[k] = Shown[k - 1] + part[k]
  BY <1>1, <1>7
<1> DEFINE S == {m \in Nat : m <= N => Shown[m] \in Nat /\ Shown[m] + Left[m] = Budget}
<1>9. 0 \in S
  BY <1>1, <1>8, LeftOf
<1>10. ASSUME NEW m \in S, m < N PROVE m + 1 \in S
  <2>1. m + 1 \in 1..N /\ (m + 1) - 1 = m /\ m \in 0..N
    BY <1>1, <1>10
  <2>2. Shown[m + 1] = Shown[m] + part[m + 1]
    BY <1>8, <2>1
  <2>3. part[m + 1] \in Nat /\ Left[m + 1] = Left[m] - part[m + 1]
    BY <1>2, <2>1
  <2>4. Left[m] \in Nat
    BY <1>1, <2>1, LeftOf
  <2> QED BY <1>1, <1>10, <2>2, <2>3, <2>4
<1>11. 0..N \subseteq S
  <2> HIDE DEF S, N
  <2>1. S \in SUBSET Nat
    BY DEF S
  <2> QED BY <1>1, <1>9, <1>10, <2>1, UpTo
<1> QED BY <1>1, <1>11

(* The rows of an answer fit DB_MAX_RESPONSE_BYTES, all tables together,   *)
(* and no row was left out that would have fitted in its place.            *)
THEOREM CapIsHonest == Spec => []HonestCap
<1>1. ASSUME IInv PROVE HonestCap
  <2> SUFFICES ASSUME reply.kind = "ok", ask.tool # "store", NEW i \in DOMAIN reply.matches
               PROVE  /\ Shown[i] <= Budget
                      /\ IsPrefix(reply.matches[i], probe[i].rows)
                      /\ reply.matches[i] # probe[i].rows =>
                           /\ reply.capped
                           /\ Shown[i] + Bytes(probe[i].rows[Len(reply.matches[i]) + 1]) > Budget
    BY DEF HonestCap
  <2> DEFINE rows == reply.matches[i]
             fetched == probe[i].rows
  <2>1. AllProbed /\ reply.matches = Cap /\ reply.capped = Capped
    BY <1>1 DEF IInv, ReplyOK
  <2>2. i \in Matched /\ rows = Fitting(fetched, Left[i - 1])
    BY <2>1 DEF Cap
  <2>3. /\ i \in DOMAIN targets /\ i \in 0..Len(targets) /\ i - 1 \in 0..Len(targets)
        /\ fetched \in Seq(Row)
    BY <1>1, <2>1, <2>2, FetchedRows DEF Matched, IInv, ProbesOK
  <2>4. Left[i - 1] \in Nat /\ Left[i] \in Nat /\ Left[i] = Left[i - 1] - Size(rows)
    BY <1>1, <2>1, <2>2, <2>3, LeftOf
  <2>5. PICK m \in 0..Len(fetched) :
          /\ rows = SubSeq(fetched, 1, m) /\ Size(rows) = Sizes(fetched)[m]
          /\ Sizes(fetched)[m] \in Nat
          /\ m < Len(fetched) => Sizes(fetched)[m] + Bytes(fetched[m + 1]) > Left[i - 1]
    <3> HIDE DEF fetched
    <3> QED BY <2>2, <2>3, <2>4, FittingOf
  <2>6. Shown[i] \in Nat /\ Shown[i] + Left[i] = Budget /\ Budget \in Nat
    BY <1>1, <2>3, ShownAndLeft, AnswersAssumption
  <2>7. Len(rows) = m /\ IsPrefix(rows, fetched)
    BY <2>3, <2>5 DEF IsPrefix
  <2>8. ASSUME rows # fetched
        PROVE  reply.capped /\ Shown[i] + Bytes(fetched[Len(rows) + 1]) > Budget
    <3>1. m < Len(fetched)
      <4>1. SubSeq(fetched, 1, Len(fetched)) = fetched
        BY <2>3
      <4> QED BY <2>3, <2>5, <2>8, <4>1
    <3>2. Bytes(fetched[m + 1]) \in Nat
      BY <2>3, <3>1, BytesType
    <3>3. Capped
      BY <2>1, <2>2, <2>8 DEF Capped
    <3>4. Shown[i] + Bytes(fetched[m + 1]) > Budget
      <4> HIDE DEF rows, fetched
      <4>1. Sizes(fetched)[m] + Bytes(fetched[m + 1]) > Left[i - 1]
        BY <2>5, <3>1
      <4> QED BY <2>4, <2>5, <2>6, <3>2, <4>1
    <3> QED BY <2>1, <2>7, <3>3, <3>4
  <2> QED BY <2>4, <2>6, <2>7, <2>8
<1> QED BY <1>1, SpecInv, PTL
===============================================================================
