------------------------- MODULE TraceTimelineProofs -------------------------
(***************************************************************************)
(* Proofs about TraceTimeline, for any logs, windows, limits and caps.     *)
(***************************************************************************)
EXTENDS TraceTimeline, FiniteSetTheorems, TLAPS

AskOK == ask \in [start : Starts, end : Ends, limit : Limits]

WindowOK == window # None =>
  /\ window.start \in Int /\ window.end \in Int
  /\ Allowed(window, MaxWindow)

LogOK == log = {} \/ log \in Logs

(* What a source gave is some of what it holds, and of all that it has     *)
(* read unless there is an excuse.                                         *)
Gave(s) ==
  /\ found[s].events \subseteq Matching(s)
  /\ found[s].state = "ok" =>
       \A e \in Matching(s) \ found[s].unread : e \in found[s].events \/ Excused(s, e)

FoundOK == \A s \in Sources : Gave(s)

(* An answer is made of what the sources gave, and none gives more later.  *)
ReplyOK == reply # None /\ reply.kind = "ok" =>
  /\ Settled
  /\ reply = [kind |-> "ok",
              events |-> Fit.kept,
              truncated |-> Fit.dropped # {},
              droppedInWindow |-> Cardinality({e \in Fit.dropped : InWindow(e)}),
              droppedOther |-> Cardinality({e \in Fit.dropped : ~InWindow(e)})]

(* The inductive invariant. *)
IInv == AskOK /\ WindowOK /\ LogOK /\ DOMAIN found = Sources /\ FoundOK /\ ReplyOK
-------------------------------------------------------------------------------
(* What a request resolves to is in whole ticks. *)
LEMMA ResolvedInt == ASSUME AskOK PROVE Resolved.start \in Int /\ Resolved.end \in Int
BY TimelineAssumption DEF AskOK, Resolved, DefaultWindow, Least

LEMMA CapPositive == ASSUME AskOK PROVE Cap \in Nat \ {0}
<1>1. ask.limit \in Int
  BY TimelineAssumption DEF AskOK
<1>2. MaxEvents \in Nat \ {0}
  BY TimelineAssumption
<1> QED BY <1>1, <1>2 DEF Cap, Least, Most

LEMMA LimitPositive == ASSUME AskOK, NEW s \in Sources PROVE LimitAt(s) \in Nat \ {0}
<1>1. {Cap, NrRows, DbRows} \subseteq Nat \ {0}
  BY CapPositive, TimelineAssumption
<1>2. LimitAt(s) \in {Cap, Least(Cap, NrRows), Least(Cap, DbRows)}
  <2>1. CASE s = "cloudwatch"
    BY <2>1 DEF LimitAt
  <2>2. CASE s = "newrelic"
    BY <2>2 DEF LimitAt
  <2>3. CASE s = "db"
    BY <2>3 DEF LimitAt
  <2> QED BY <2>1, <2>2, <2>3 DEF Sources
<1> QED BY <1>1, <1>2 DEF Least

LEMMA MatchingFinite ==
  ASSUME LogOK, NEW s \in Sources
  PROVE  IsFiniteSet(Matching(s)) /\ Matching(s) \subseteq log
<1>1. IsFiniteSet(log)
  BY FS_EmptySet, LogsAssumption DEF LogOK
<1>2. Matching(s) \subseteq log
  BY DEF Matching
<1> QED BY <1>1, <1>2, FS_Subset

(* What the fitting is made of stays while the request, its window and     *)
(* what was found stay.                                                    *)
LEMMA FitStays ==
  ASSUME UNCHANGED <<ask, window, found>>
  PROVE  Settled' = Settled /\ Fit' = Fit /\ \A e : InWindow(e)' = InWindow(e)
<1>1. Events' = Events /\ Cap' = Cap /\ Settled' = Settled
  BY DEF Events, Cap, Settled, Searching
<1>2. \A e : InWindow(e)' = InWindow(e) /\ Class(e)' = Class(e) /\ Distance(e)' = Distance(e)
  BY DEF InWindow, Class, Distance
<1>3. \A e, f : Before(e, f)' = Before(e, f)
  BY <1>2 DEF Before, Urgency
<1>4. \A n : First(n)' = First(n)
  BY <1>1, <1>3 DEF First
<1>5. Fit' = Fit
  BY <1>1, <1>4 DEF Fit, Kept
<1> QED BY <1>1, <1>2, <1>5

LEMMA ReplyStays ==
  ASSUME ReplyOK, UNCHANGED <<ask, window, found, reply>>
  PROVE  ReplyOK'
BY FitStays DEF ReplyOK

LEMMA MatchingStays ==
  ASSUME UNCHANGED <<ask, log, window>>
  PROVE  \A s : Matching(s)' = Matching(s) /\ LimitAt(s)' = LimitAt(s)
BY DEF Matching, WindowAt, LimitAt, Cap

LEMMA ExcusedStays ==
  ASSUME UNCHANGED <<ask, log, window>>, NEW s, found'[s] = found[s]
  PROVE  Gave(s)' = Gave(s)
<1>1. \A e : Excused(s, e)' = Excused(s, e)
  BY MatchingStays DEF Excused, Preferred
<1> QED BY <1>1, MatchingStays DEF Gave

LEMMA FoundStays == ASSUME FoundOK, UNCHANGED <<ask, log, window, found>> PROVE FoundOK'
BY ExcusedStays DEF FoundOK

LEMMA InitInv == Init => IInv
BY DEF Init, IInv, AskOK, WindowOK, LogOK, FoundOK, Gave, Without, Gives, ReplyOK

LEMMA RefuseInv == ASSUME IInv, Refuse PROVE IInv'
<1>1. FoundOK'
  BY FoundStays DEF Refuse, IInv
<1> QED BY <1>1 DEF Refuse, IInv, AskOK, WindowOK, LogOK, ReplyOK

LEMMA BeginInv == ASSUME IInv, Begin PROVE IInv'
<1>1. WindowOK'
  BY ResolvedInt DEF Begin, IInv, WindowOK, Allowed
<1>2. DOMAIN found' = Sources /\ \A s \in Sources : found'[s].events = {} /\ found'[s].state # "ok"
  BY DEF Begin, Without, Gives
<1>3. AskOK' /\ LogOK' /\ ReplyOK'
  BY DEF Begin, IInv, AskOK, LogOK, ReplyOK
<1> QED BY <1>1, <1>2, <1>3 DEF IInv, FoundOK, Gave

LEMMA SettleInv ==
  ASSUME IInv, NEW s \in Sources, NEW result, Searching(s), Settle(s, result),
         result.events \subseteq Matching(s),
         result.state = "ok" =>
           \A e \in Matching(s) \ result.unread : e \in result.events \/ Excused(s, e)'
  PROVE  IInv'
<1>1. UNCHANGED <<ask, log, window, reply>>
  BY DEF Settle
<1>2. /\ DOMAIN found' = Sources /\ found'[s] = result
      /\ \A t \in Sources \ {s} : found'[t] = found[t]
  BY DEF Settle, IInv
<1>3. FoundOK'
  <2>1. Gave(s)'
    BY <1>1, <1>2, MatchingStays DEF Gave
  <2>2. ASSUME NEW t \in Sources \ {s} PROVE Gave(t)'
    BY <1>1, <1>2, ExcusedStays DEF IInv, FoundOK
  <2> QED BY <2>1, <2>2 DEF FoundOK
<1>4. ReplyOK'
  BY <1>1 DEF IInv, ReplyOK, Settled
<1> QED BY <1>1, <1>2, <1>3, <1>4 DEF IInv, AskOK, WindowOK, LogOK

(* What a limit leaves out has the limit for an excuse. *)
LEMMA LimitExcuses ==
  ASSUME AskOK, NEW s \in Sources, NEW events, IsFiniteSet(events),
         NEW given \in Limited(s, events), NEW e \in events \ given
  PROVE  given \subseteq events /\ Cardinality(given) = LimitAt(s) /\ \A f \in given : ~Preferred(s, e, f)
<1>1. /\ given \subseteq events /\ \A f \in given : ~Preferred(s, e, f)
      /\ Cardinality(given) = Least(LimitAt(s), Cardinality(events))
  BY DEF Limited
<1>2. Cardinality(given) # Cardinality(events)
  BY <1>1, FS_Subset
<1>3. LimitAt(s) \in Nat /\ Cardinality(events) \in Nat
  BY LimitPositive, FS_CardinalityType
<1> QED BY <1>1, <1>2, <1>3 DEF Least

LEMMA LogAnswersInv ==
  ASSUME IInv, NEW s \in {"cloudwatch", "newrelic"}, Searching(s),
         NEW given \in Limited(s, Matching(s)), Settle(s, Gives(given))
  PROVE  IInv'
<1>1. s \in Sources /\ s # "db"
  BY DEF Sources
<1>2. found'[s] = Gives(given) /\ UNCHANGED <<ask, log, window>>
  BY <1>1 DEF Settle, IInv
<1>3. given \subseteq Matching(s) /\ IsFiniteSet(Matching(s))
  BY <1>1, MatchingFinite DEF IInv, Limited
<1>4. ASSUME NEW e \in Matching(s) \ given PROVE Excused(s, e)'
  <2>1. Cardinality(given) = LimitAt(s) /\ \A f \in given : ~Preferred(s, e, f)
    BY <1>1, <1>3, <1>4, LimitExcuses DEF IInv
  <2>2. {f \in given : s = "db" => f.target = e.target} = given
    BY <1>1
  <2>3. s = "cloudwatch" => \A f \in given : f.at <= e.at
    <3>1. ASSUME s = "cloudwatch", NEW f \in given PROVE f.at <= e.at
      <4>1. {e, f} \subseteq log /\ log \in Logs /\ e.source = s /\ f.source = s
        BY <1>3, <1>4, <3>1 DEF Matching, IInv, LogOK
      <4>2. e.at \in Int /\ f.at \in Int
        BY <1>1, <4>1, LogsAssumption
      <4>3. ~(e.at < f.at)
        BY <2>1, <3>1 DEF Preferred
      <4> QED BY <4>2, <4>3
    <3> QED BY <3>1
  <2> QED BY <1>1, <1>2, <2>1, <2>2, <2>3, MatchingStays DEF Excused, Gives
<1> QED BY <1>1, <1>3, <1>4, SettleInv DEF Gives

LEMMA BreaksOffInv == ASSUME IInv, CloudWatchBreaksOff PROVE IInv'
<1>1. PICK given \in SUBSET Matching("cloudwatch") :
        Settle("cloudwatch", [Gives(given) EXCEPT !.unread = Matching("cloudwatch") \ given])
  BY DEF CloudWatchBreaksOff
<1> DEFINE result == [Gives(given) EXCEPT !.unread = Matching("cloudwatch") \ given]
<1>2. result.events = given /\ result.unread = Matching("cloudwatch") \ given
  BY DEF Gives
<1>3. \A e \in Matching("cloudwatch") \ result.unread : e \in result.events
  BY <1>2
<1>4. Searching("cloudwatch") /\ "cloudwatch" \in Sources
  BY DEF CloudWatchBreaksOff, Sources
<1> HIDE DEF result
<1> QED BY <1>1, <1>2, <1>3, <1>4, SettleInv DEF result

LEMMA DatabaseInv == ASSUME IInv, DatabaseAnswers PROVE IInv'
<1>1. PICK left \in SUBSET Targets :
        LET read == {e \in Matching("db") : e.target \notin left}
        IN \E fetched \in SUBSET read : \E kept \in SUBSET fetched :
             /\ \A t \in Targets : Of(t, fetched) \in Limited("db", Of(t, read))
             /\ FitsBudget(kept, fetched)
             /\ Settle("db", [Gives(kept) EXCEPT !.told = (kept # fetched),
                                                 !.unread = Matching("db") \ read])
  BY DEF DatabaseAnswers
<1> DEFINE read == {e \in Matching("db") : e.target \notin left}
<1>2. PICK fetched \in SUBSET read : \E kept \in SUBSET fetched :
             /\ \A t \in Targets : Of(t, fetched) \in Limited("db", Of(t, read))
             /\ FitsBudget(kept, fetched)
             /\ Settle("db", [Gives(kept) EXCEPT !.told = (kept # fetched),
                                                 !.unread = Matching("db") \ read])
  BY <1>1
<1>3. PICK kept \in SUBSET fetched :
             /\ \A t \in Targets : Of(t, fetched) \in Limited("db", Of(t, read))
             /\ FitsBudget(kept, fetched)
             /\ Settle("db", [Gives(kept) EXCEPT !.told = (kept # fetched),
                                                 !.unread = Matching("db") \ read])
  BY <1>2
<1> DEFINE result == [Gives(kept) EXCEPT !.told = (kept # fetched), !.unread = Matching("db") \ read]
<1>4. /\ result.events = kept /\ result.told = (kept # fetched)
      /\ result.unread = Matching("db") \ read
  BY DEF Gives
<1>5. /\ Searching("db") /\ "db" \in Sources
      /\ IsFiniteSet(Matching("db")) /\ read \subseteq Matching("db")
  BY MatchingFinite DEF IInv, DatabaseAnswers, Sources
<1>6. found'["db"] = result /\ UNCHANGED <<ask, log, window>>
  BY <1>3, <1>5 DEF Settle, IInv
<1>7. ASSUME NEW e \in read, e \notin kept PROVE Excused("db", e)'
  <2> DEFINE t == e.target
  <2>1. t \in Targets
    <3>1. e \in log /\ log \in Logs /\ e.source = "db"
      BY <1>7 DEF Matching, IInv, LogOK
    <3> QED BY <3>1, LogsAssumption
  <2>2. {f \in kept : "db" = "db" => f.target = e.target} = Of(t, kept)
    BY DEF Of
  <2>3. CASE e \in fetched
    <3>1. kept # fetched
      BY <1>7, <2>3
    <3>2. e \in Of(t, fetched) \ kept
      BY <1>7, <2>3 DEF Of
    <3>3. \A f \in Of(t, kept) : ~Preferred("db", e, f)
      BY <1>3, <2>1, <3>2 DEF FitsBudget
    <3> HIDE DEF result, read, t
    <3>4. found'["db"].told /\ found'["db"].events = kept
      BY <1>4, <1>6, <3>1, Zenon
    <3>5. "db" # "cloudwatch"
      OBVIOUS
    <3>6. \A f : Preferred("db", e, f)' = Preferred("db", e, f)
      BY DEF Preferred
    <3> QED BY <2>2, <3>3, <3>4, <3>5, <3>6 DEF Excused
  <2>4. CASE e \notin fetched
    <3>1. /\ Of(t, fetched) \in Limited("db", Of(t, read)) /\ e \in Of(t, read) \ Of(t, fetched)
          /\ IsFiniteSet(Of(t, read))
      BY <1>3, <1>5, <1>7, <2>1, <2>4, FS_Subset DEF Of
    <3>2. /\ Cardinality(Of(t, fetched)) = LimitAt("db")
          /\ \A f \in Of(t, fetched) : ~Preferred("db", e, f)
      BY <1>5, <3>1, LimitExcuses DEF IInv
    <3>3. \A f \in Of(t, kept) : ~Preferred("db", e, f)
      BY <3>2 DEF Of
    <3>4. kept # fetched \/ Cardinality(Of(t, kept)) = LimitAt("db")
      BY <3>2
    <3> HIDE DEF result, read, t
    <3>5. found'["db"].told = (kept # fetched) /\ found'["db"].events = kept
      BY <1>4, <1>6
    <3>6. found'["db"].told \/ Cardinality(Of(t, kept)) = LimitAt("db")
      BY <3>4, <3>5, Zenon
    <3>7. LimitAt("db")' = LimitAt("db") /\ "db" # "cloudwatch"
      BY <1>6, MatchingStays
    <3>8. \A f : Preferred("db", e, f)' = Preferred("db", e, f)
      BY DEF Preferred
    <3> QED BY <2>2, <3>3, <3>5, <3>6, <3>7, <3>8 DEF Excused
  <2> QED BY <2>3, <2>4
<1>8. \A e \in Matching("db") \ result.unread : e \in result.events \/ Excused("db", e)'
  <2> HIDE DEF read, result
  <2>1. \A e \in Matching("db") \ result.unread : e \in read
    BY <1>4, Zenon
  <2> QED BY <1>4, <1>7, <2>1, Zenon
<1>9. Settle("db", result) /\ result.events \subseteq Matching("db")
  BY <1>3, <1>4, <1>5
<1> HIDE DEF result
<1> QED BY <1>5, <1>8, <1>9, SettleInv

LEMMA StepInv == IInv /\ [Next]_vars => IInv'
<1> SUFFICES ASSUME IInv, [Next]_vars PROVE IInv'
  OBVIOUS
<1>1. CASE Refuse \/ Begin
  BY <1>1, RefuseInv, BeginInv
<1>2. CASE CloudWatchAnswers \/ NewRelicAnswers
  BY <1>2, LogAnswersInv DEF CloudWatchAnswers, NewRelicAnswers
<1>3. CASE DatabaseAnswers \/ CloudWatchBreaksOff
  BY <1>3, DatabaseInv, BreaksOffInv
<1>4. ASSUME NEW s \in Sources, NEW state, state # "ok", Searching(s), Settle(s, Without(state)) PROVE IInv'
  <2>1. Without(state).events = {} /\ Without(state).state # "ok"
    BY <1>4 DEF Without, Gives
  <2> QED BY <1>4, <2>1, SettleInv
<1>5. CASE CloudWatchStops \/ \E s \in Sources : Fails(s)
  BY <1>4, <1>5 DEF CloudWatchStops, Fails, Sources
<1>6. CASE Merge
  <2>1. ReplyOK'
    BY <1>6, FitStays DEF Merge, ReplyOK
  <2>2. FoundOK'
    BY <1>6, FoundStays DEF Merge, IInv
  <2> QED BY <1>6, <2>1, <2>2 DEF Merge, IInv, AskOK, WindowOK, LogOK
<1>7. CASE UNCHANGED vars
  <2>1. FoundOK'
    BY <1>7, FoundStays DEF vars, IInv
  <2>2. ReplyOK'
    BY <1>7, ReplyStays DEF vars, IInv
  <2> QED BY <1>7, <2>1, <2>2 DEF vars, IInv, AskOK, WindowOK, LogOK
<1> QED BY <1>1, <1>2, <1>3, <1>5, <1>6, <1>7 DEF Next, Replied

LEMMA SpecInv == Spec => []IInv
BY InitInv, StepInv, PTL DEF Spec
-------------------------------------------------------------------------------
(* The sources' logs are finite, and what is found is part of them. *)
LEMMA EventsKnown ==
  ASSUME IInv
  PROVE  /\ IsFiniteSet(Events) /\ Events \subseteq log
         /\ \A e \in Events : At(e) \in Int \cup {None} /\ e.id \in Nat
         /\ \A e, f \in Events : e.id = f.id => e = f
<1>1. Events \subseteq log
  BY MatchingFinite DEF IInv, FoundOK, Gave, Events
<1>2. IsFiniteSet(Events)
  BY <1>1, FS_EmptySet, FS_Subset, LogsAssumption DEF IInv, LogOK
<1>3. ASSUME NEW e \in log PROVE At(e) \in Int \cup {None}
  <2>1. log \in Logs
    BY <1>3 DEF IInv, LogOK
  <2>2. CASE e.source = "db"
    <3>1. e.cols[1] \in Int \cup {None, Garbled} /\ e.cols[2] \in Int \cup {None, Garbled}
      BY <2>1, <2>2, <1>3, LogsAssumption
    <3> QED BY <2>2, <3>1 DEF At, RowTime
  <2>3. CASE e.source # "db"
    BY <2>1, <2>3, <1>3, LogsAssumption DEF At
  <2> QED BY <2>2, <2>3
<1>4. /\ \A e \in log : e.id \in Nat
      /\ \A e, f \in log : e.id = f.id => e = f
  BY LogsAssumption DEF IInv, LogOK
<1> QED BY <1>1, <1>2, <1>3, <1>4

(* Before is an order on dated and undated events. *)
LEMMA BeforeOrders ==
  ASSUME IInv, window # None
  PROVE  /\ \A e, f \in Events : e # f => Before(e, f) \/ Before(f, e)
         /\ \A e, f, g \in Events : Before(e, f) /\ Before(f, g) => Before(e, g)
<1>1. window.start \in Int /\ window.end \in Int
  BY DEF IInv, WindowOK
<1>2. ASSUME NEW e \in Events
      PROVE  Class(e) \in {0, 1, 2} /\ Urgency(e) \in Int /\ e.id \in Int
  <2>1. At(e) \in Int \cup {None} /\ e.id \in Nat
    BY EventsKnown
  <2>2. CASE Class(e) = 0
    BY <2>1, <2>2 DEF Urgency, Class, InWindow
  <2>3. CASE Class(e) = 1
    BY <2>1, <2>3 DEF Urgency
  <2>4. CASE Class(e) = 2
    <3>1. At(e) \in Int
      BY <2>1, <2>4 DEF Class
    <3>2. Distance(e) \in Int
      BY <3>1, <1>1 DEF Distance
    <3> QED BY <2>1, <2>4, <3>2 DEF Urgency
  <2> QED BY <2>1, <2>2, <2>3, <2>4 DEF Class
<1>3. \A e, f \in Events : e.id = f.id => e = f
  BY EventsKnown
<1> QED BY <1>2, <1>3 DEF Before

(* What is kept of the timeline is a beginning of it: with an event, all   *)
(* that come before it.                                                    *)
LEMMA KeptIsPrefix ==
  ASSUME IInv, window # None, NEW e \in Events, NEW f \in Kept, Before(e, f)
  PROVE  e \in Kept
<1> DEFINE Ahead(g) == {h \in Events : Before(h, g)}
<1>1. PICK n \in 0..Cap : Bytes(First(n)) <= MaxBytes /\ f \in First(n)
  BY DEF Kept
<1>2. f \in Events /\ Cardinality(Ahead(f)) < n
  BY <1>1 DEF First
<1>3. Ahead(e) \subseteq Ahead(f)
  BY <1>2, BeforeOrders
<1>4. IsFiniteSet(Ahead(f))
  BY EventsKnown, FS_Subset
<1>5. /\ Cardinality(Ahead(e)) \in Nat /\ Cardinality(Ahead(f)) \in Nat
      /\ Cardinality(Ahead(e)) <= Cardinality(Ahead(f))
  BY <1>3, <1>4, FS_Subset, FS_CardinalityType
<1>6. n \in Int
  BY <1>1, CapPositive DEF IInv
<1>7. Cardinality(Ahead(e)) < n
  <2> HIDE DEF Ahead
  <2> QED BY <1>2, <1>5, <1>6
<1>8. e \in First(n)
  BY <1>7 DEF First
<1> QED BY <1>1, <1>8 DEF Kept

(* The window's events push out the others, and never the other way. *)
LEMMA InvWindowFirst == IInv => WindowFirst
<1> SUFFICES ASSUME IInv, reply # None, reply.kind = "ok",
                    NEW e \in Events \ reply.events, NEW f \in reply.events
             PROVE  /\ InWindow(e) => InWindow(f) /\ At(f) <= At(e)
                    /\ At(e) = None => At(f) = None \/ InWindow(f)
  BY DEF WindowFirst
<1>1. window # None /\ reply.events = Kept
  BY DEF IInv, ReplyOK, Settled, Fit
<1>2. f \in Events /\ e # f
  BY <1>1 DEF Kept, First
<1>3. Before(f, e)
  BY <1>1, <1>2, KeptIsPrefix, BeforeOrders
<1>4. At(e) \in Int \cup {None} /\ At(f) \in Int \cup {None}
  BY <1>2, EventsKnown
<1>5. Class(f) <= Class(e) /\ {Class(e), Class(f)} \subseteq {0, 1, 2}
  BY <1>3 DEF Before, Class
<1>6. ASSUME InWindow(e) PROVE InWindow(f) /\ At(f) <= At(e)
  <2>1. Class(e) = 0
    BY <1>6 DEF Class, InWindow
  <2>2. Class(f) = 0
    BY <2>1, <1>5
  <2>3. InWindow(f)
    BY <2>2 DEF Class
  <2>4. Urgency(e) = At(e) /\ Urgency(f) = At(f)
    BY <2>1, <2>2 DEF Urgency
  <2> QED BY <1>3, <1>4, <1>6, <2>1, <2>2, <2>3, <2>4 DEF Before, InWindow
<1>7. ASSUME At(e) = None PROVE At(f) = None \/ InWindow(f)
  BY <1>5, <1>7 DEF Class
<1> QED BY <1>6, <1>7

(* While an event of the window is left out, nothing undated, nothing      *)
(* outside the window and nothing later than it is on the timeline.        *)
THEOREM WindowComesFirst == Spec => []WindowFirst
BY InvWindowFirst, SpecInv, PTL
-------------------------------------------------------------------------------
LEMMA FloorBelow ==
  ASSUME NEW t \in Int, NEW unit \in Nat \ {0}
  PROVE  /\ t \div unit \in Int
         /\ Floor(t, unit) \in Int
         /\ Floor(t, unit) <= t
         /\ t < Floor(t, unit) + unit
BY DEF Floor

LEMMA FactorPositive ==
  ASSUME NEW x \in Int, NEW unit \in Nat \ {0}, 0 < x * unit
  PROVE  0 < x
OBVIOUS

(* Cut to whole units, a window that is longer than one is not empty, and  *)
(* one that fits a cap of whole units still does.                          *)
LEMMA FloorAllowed ==
  ASSUME NEW a \in Int, NEW b \in Int, NEW unit \in Nat \ {0}, NEW max \in Nat,
         max % unit = 0, unit <= b - a, b - a <= max
  PROVE  Allowed([start |-> Floor(a, unit), end |-> Floor(b, unit)], max)
<1> DEFINE p == a \div unit
           q == b \div unit
           k == max \div unit
<1>1. /\ p \in Int /\ q \in Int /\ k \in Int
      /\ Floor(a, unit) = p * unit /\ Floor(b, unit) = q * unit
  BY DEF Floor
<1>2. max = k * unit
  OBVIOUS
<1>3. /\ p * unit <= a /\ a < p * unit + unit
      /\ q * unit <= b /\ b < q * unit + unit
  BY <1>1, FloorBelow
<1>4. 0 < (q - p) * unit
  <2>1. p * unit < q * unit
    <3> HIDE DEF p, q
    <3> QED BY <1>1, <1>3
  <2>2. (q - p) * unit = q * unit - p * unit
    BY <1>1
  <2> HIDE DEF p, q
  <2> QED BY <1>1, <2>1, <2>2
<1>5. 0 < (k + 1 - (q - p)) * unit
  <2>1. (k + 1 - (q - p)) * unit = k * unit + unit - q * unit + p * unit
    BY <1>1
  <2> HIDE DEF p, q, k
  <2> QED BY <1>1, <1>2, <1>3, <2>1
<1>6. 0 < q - p /\ 0 < k + 1 - (q - p)
  <2> HIDE DEF p, q, k
  <2> QED BY <1>1, <1>4, <1>5, FactorPositive
<1>7. p * unit < q * unit /\ q * unit - p * unit <= k * unit
  <2> HIDE DEF p, q, k
  <2> QED BY <1>1, <1>6
<1> QED BY <1>1, <1>2, <1>7 DEF Allowed

LEMMA InvSourcesAcceptWindow == IInv => SourcesAcceptWindow
<1> SUFFICES ASSUME IInv, window # None PROVE
      /\ Accepts("cloudwatch")
      /\ window.end - window.start >= Milli => Accepts("newrelic")
  BY DEF SourcesAcceptWindow
<1>1. window.start \in Int /\ window.end \in Int /\ Allowed(window, MaxWindow)
  BY DEF IInv, WindowOK
<1>2. /\ window.start < window.end
      /\ window.end - window.start <= CwMax
      /\ window.end - window.start <= NrMax
  BY <1>1, TimelineAssumption DEF Allowed, MaxWindow, Least
<1>3. Accepts("cloudwatch")
  BY <1>1, <1>2 DEF Accepts, Allowed
<1>4. ASSUME window.end - window.start >= Milli PROVE Accepts("newrelic")
  <2>1. Allowed([start |-> Floor(window.start, Milli), end |-> Floor(window.end, Milli)], NrMax)
    BY <1>1, <1>2, <1>4, FloorAllowed, TimelineAssumption
  <2>2. Unit("newrelic") = Milli
    BY DEF Unit
  <2> QED BY <2>1, <2>2 DEF Accepts, WindowAt
<1> QED BY <1>3, <1>4

(* No source refuses the window of a request that was accepted, but New    *)
(* Relic one that is shorter than a millisecond.                           *)
THEOREM WindowAccepted == Spec => []SourcesAcceptWindow
BY InvSourcesAcceptWindow, SpecInv, PTL
-------------------------------------------------------------------------------
LEMMA InvNothingVanishes == IInv => NothingVanishes
<1> SUFFICES ASSUME IInv, reply # None, reply.kind = "ok" PROVE
      /\ reply.truncated <=> reply.droppedInWindow + reply.droppedOther > 0
      /\ reply.droppedInWindow = Cardinality({e \in Events \ reply.events : InWindow(e)})
      /\ \A s \in Sources : found[s].state = "ok" =>
           \A e \in log \ found[s].unread :
             e.source = s /\ InWindow(e) /\ (s # "db" => e.at <= WindowAt(s).end)
               => e \in found[s].events \/ Excused(s, e)
  BY DEF NothingVanishes
<1> DEFINE dropped == Events \ Kept
           inside  == {e \in dropped : InWindow(e)}
           other   == {e \in dropped : ~InWindow(e)}
<1>1. /\ window # None
      /\ reply.events = Kept /\ reply.truncated = (dropped # {})
      /\ reply.droppedInWindow = Cardinality(inside)
      /\ reply.droppedOther = Cardinality(other)
  BY DEF IInv, ReplyOK, Settled, Fit
<1>2. IsFiniteSet(inside) /\ IsFiniteSet(other)
  BY EventsKnown, FS_Subset
<1>3. Cardinality(inside) \in Nat /\ Cardinality(other) \in Nat
  BY <1>2, FS_CardinalityType
<1>4. dropped = {} <=> Cardinality(inside) = 0 /\ Cardinality(other) = 0
  BY <1>2, FS_EmptySet
<1>5. reply.truncated <=> reply.droppedInWindow + reply.droppedOther > 0
  <2>1. dropped # {} <=> reply.droppedInWindow + reply.droppedOther > 0
    <3> HIDE DEF dropped, inside, other
    <3> QED BY <1>1, <1>3, <1>4
  <2>2. reply.truncated <=> dropped # {}
    <3> HIDE DEF dropped
    <3> QED BY <1>1, Zenon
  <2> QED BY <2>1, <2>2, Zenon
<1>6. ASSUME NEW s \in Sources, found[s].state = "ok", NEW e \in log \ found[s].unread,
             e.source = s, InWindow(e), s # "db" => e.at <= WindowAt(s).end
      PROVE  e \in found[s].events \/ Excused(s, e)
  <2>1. e \in Matching(s)
    <3>1. CASE s = "db"
      BY <1>6, <3>1 DEF Matching
    <3>2. CASE s # "db"
      <4>1. At(e) = e.at /\ window.start <= e.at
        BY <1>6, <3>2 DEF At, InWindow
      <4>2. Unit(s) \in Nat \ {0} /\ window.start \in Int
        BY <3>2, <1>1, TimelineAssumption DEF Unit, Sources, IInv, WindowOK
      <4>3. WindowAt(s).start \in Int /\ WindowAt(s).start <= window.start
        BY <4>2, FloorBelow DEF WindowAt
      <4>4. e.at \in Int
        BY <1>6, <3>2, LogsAssumption DEF IInv, LogOK
      <4> QED BY <1>6, <3>2, <4>1, <4>2, <4>3, <4>4 DEF Matching
    <3> QED BY <3>1, <3>2
  <2> QED BY <1>6, <2>1 DEF IInv, FoundOK, Gave
<1> QED BY <1>1, <1>5, <1>6

(* Every event of the window that a source gave is on the timeline or      *)
(* counted as dropped.  One that a source read and did not give it left    *)
(* out for its limit, giving what comes before it in the order asked for,  *)
(* or the database says that its rows were cut.                            *)
THEOREM Accounted == Spec => []NothingVanishes
BY InvNothingVanishes, SpecInv, PTL
===============================================================================
