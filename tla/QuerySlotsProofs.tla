--------------------------- MODULE QuerySlotsProofs ---------------------------
(***************************************************************************)
(* Proofs about QuerySlots, for any finite set of callers, any number of   *)
(* slots and any queue timeout.                                            *)
(***************************************************************************)
EXTENDS QuerySlots, FiniteSetTheorems, TLAPS

(* The deque is a queue: ahead is an order on the calls in it. *)
DequeOrder ==
  /\ \A c \in Callers : ahead[c] \subseteq Waiters \ {c}
  /\ \A c, d \in Callers : c \in ahead[d] => d \notin ahead[c]

(* A call that was handed a slot had no waiting call ahead of it. *)
GrantsOldest == \A c \in Callers :
  pc[c] = "granted" => ahead[c] \cap Pending = {}

Shape ==
  /\ pc \in [Callers -> States]
  /\ value \in Nat
  /\ cause \in [Callers -> {"none", "timeout", "cancelled"}]
  /\ ahead \in [Callers -> SUBSET Callers]
  /\ impatient \in BOOLEAN

(* The inductive invariant: TypeOK follows from Shape and PermitsConserved, *)
(* which bound value; FirstComeFirstServed needs GrantsOldest, and that one *)
(* the order of the deque.                                                  *)
IInv == Shape /\ PermitsConserved /\ DequeOrder /\ GrantsOldest /\ NoLostWakeup

-------------------------------------------------------------------------------
LEMMA FiniteParts ==
  ASSUME NEW S \in SUBSET Callers
  PROVE  IsFiniteSet(S) /\ Cardinality(S) \in Nat
BY SlotsAssumption, FS_Subset, FS_CardinalityType

(* Handing one permit to one call that holds none keeps the sum. *)
LEMMA HolderAdded ==
  ASSUME NEW H \in SUBSET Callers, NEW c \in Callers, c \notin H
  PROVE  Cardinality(H \cup {c}) = Cardinality(H) + 1
BY FiniteParts, FS_AddElement

LEMMA HolderRemoved ==
  ASSUME NEW H \in SUBSET Callers, NEW c \in H
  PROVE  Cardinality(H \ {c}) = Cardinality(H) - 1
BY FiniteParts, FS_RemoveElement

LEMMA HoldersJoined ==
  ASSUME NEW H \in SUBSET Callers, NEW W \in SUBSET Callers, H \cap W = {}
  PROVE  Cardinality(H \cup W) = Cardinality(H) + Cardinality(W)
<1>1. Cardinality(H \cup W)
        = Cardinality(H) + Cardinality(W) - Cardinality(H \cap W)
  BY FiniteParts, FS_Union
<1>2. Cardinality(H \cap W) = 0
  BY FS_EmptySet
<1> QED BY <1>1, <1>2, FiniteParts

(* _wake_up_next in a loop moves permits, it neither makes nor loses any,  *)
(* and it stops only when no permit or no waiting call is left.            *)
LEMMA WakeAllMovesPermits ==
  ASSUME NEW p \in [Callers -> States], NEW free \in Nat, WakeAll(p, free)
  PROVE  /\ pc' \in [Callers -> States]
         /\ value' \in Nat
         /\ value' + Cardinality(HoldersIn(pc')) = free + Cardinality(HoldersIn(p))
         /\ value' = 0 \/ PendingIn(pc') = {}
<1>1. PICK W \in SUBSET PendingIn(p) :
        /\ Cardinality(W) = Min2(free, Cardinality(PendingIn(p)))
        /\ pc' = [c \in Callers |-> IF c \in W THEN "granted" ELSE p[c]]
        /\ value' = free - Cardinality(W)
  BY DEF WakeAll
<1>2. PendingIn(p) \in SUBSET Callers /\ W \in SUBSET Callers
  BY DEF PendingIn
<1>3. Cardinality(W) \in Nat /\ Cardinality(PendingIn(p)) \in Nat
  BY <1>2, FiniteParts
<1>4. pc' \in [Callers -> States]
  BY <1>1 DEF States, InDeque
<1>5. value' \in Nat
  BY <1>1, <1>3 DEF Min2
<1>6. HoldersIn(pc') = HoldersIn(p) \cup W /\ HoldersIn(p) \cap W = {}
  BY <1>1, <1>2 DEF HoldersIn, PendingIn
<1>7. HoldersIn(p) \in SUBSET Callers
  BY DEF HoldersIn
<1>8. Cardinality(HoldersIn(pc')) = Cardinality(HoldersIn(p)) + Cardinality(W)
  BY <1>2, <1>6, <1>7, HoldersJoined
<1>9. value' = 0 \/ PendingIn(pc') = {}
  <2>1. CASE Cardinality(W) = free
    <3>1. value' = free - free
      BY <2>1, <1>1
    <3> QED BY <3>1
  <2>2. CASE Cardinality(W) = Cardinality(PendingIn(p))
    <3>1. W = PendingIn(p)
      BY <2>2, <1>2, FiniteParts, FS_Subset
    <3> QED BY <3>1, <1>1 DEF PendingIn
  <2> QED BY <2>1, <2>2, <1>1, <1>3 DEF Min2
<1> QED BY <1>1, <1>3, <1>4, <1>5, <1>7, <1>8, <1>9, FiniteParts

-------------------------------------------------------------------------------
(* release moves a permit, and hands it to the oldest waiting call if      *)
(* there is one.                                                           *)
LEMMA ReleaseMovesPermit ==
  ASSUME NEW p \in [Callers -> States], value \in Nat, Release(p)
  PROVE  /\ pc' \in [Callers -> States]
         /\ value' \in Nat
         /\ value' + Cardinality(HoldersIn(pc')) = value + 1 + Cardinality(HoldersIn(p))
<1>1. CASE PendingIn(p) = {} /\ pc' = p /\ value' = value + 1
  <2>1. HoldersIn(pc') \in SUBSET Callers
    BY DEF HoldersIn
  <2> QED BY <1>1, <2>1, FiniteParts
<1>2. ASSUME NEW d \in PendingIn(p),
             pc' = [p EXCEPT ![d] = "granted"], UNCHANGED value
      PROVE  /\ pc' \in [Callers -> States]
             /\ value' \in Nat
             /\ value' + Cardinality(HoldersIn(pc')) = value + 1 + Cardinality(HoldersIn(p))
  <2>1. d \in Callers /\ d \notin HoldersIn(p) /\ HoldersIn(p) \in SUBSET Callers
    BY DEF PendingIn, HoldersIn
  <2>2. HoldersIn(pc') = HoldersIn(p) \cup {d}
    BY <1>2, <2>1 DEF HoldersIn
  <2>3. Cardinality(HoldersIn(pc')) = Cardinality(HoldersIn(p)) + 1
    BY <2>1, <2>2, HolderAdded
  <2>4. pc' \in [Callers -> States]
    BY <1>2, <2>1 DEF States, InDeque
  <2> QED BY <1>2, <2>1, <2>3, <2>4, FiniteParts
<1> QED BY <1>1, <1>2 DEF Release

(* A task that leaves the deque and wakes others leaves a queue behind, and *)
(* hands its permits to the oldest.                                         *)
LEMMA WakeAllKeepsQueue ==
  ASSUME Shape, DequeOrder, GrantsOldest,
         NEW c \in Waiters, NEW to \in States \ InDeque, NEW free \in Nat,
         WakeAll([pc EXCEPT ![c] = to], free), LeaveDeque(c)
  PROVE  DequeOrder' /\ GrantsOldest' /\ ahead' \in [Callers -> SUBSET Callers]
<1> DEFINE p == [pc EXCEPT ![c] = to]
<1>1. PICK W \in SUBSET PendingIn(p) :
        /\ \A a \in W, d \in PendingIn(p) \ W : a \in ahead[d]
        /\ pc' = [a \in Callers |-> IF a \in W THEN "granted" ELSE p[a]]
  BY DEF WakeAll
<1>2. c \in Callers /\ p \in [Callers -> States]
  BY DEF Waiters, Shape
<1>3. PendingIn(p) = Pending \ {c}
  BY <1>2 DEF Pending, PendingIn, Shape, InDeque
<1>4. W \subseteq Waiters
  BY <1>1, <1>3 DEF Pending, PendingIn, Waiters, InDeque
<1>5. Waiters' = Waiters \ {c}
  BY <1>1, <1>2, <1>3, <1>4 DEF Waiters, InDeque, Shape, Pending, PendingIn
<1>6. Pending' = PendingIn(p) \ W
  BY <1>1, <1>2 DEF Pending, PendingIn
<1>7. ahead' \in [Callers -> SUBSET Callers]
  BY DEF LeaveDeque, Shape
<1>8. DequeOrder'
  BY <1>2, <1>5 DEF LeaveDeque, DequeOrder, Shape
<1>9. GrantsOldest'
  <2> SUFFICES ASSUME NEW a \in Callers, pc'[a] = "granted",
                      NEW d \in Pending', d \in ahead'[a]
               PROVE  FALSE
    BY DEF GrantsOldest
  <2>1. d \in Callers /\ d \in ahead[a] /\ d \in Pending /\ a # c
    BY <1>3, <1>6 DEF LeaveDeque, Pending, PendingIn, Shape
  <2>2. CASE a \in W
    BY <2>1, <2>2, <1>1, <1>6 DEF DequeOrder
  <2>3. CASE a \notin W
    BY <2>1, <2>3, <1>1, <1>2 DEF GrantsOldest, Shape
  <2> QED BY <2>2, <2>3
<1> QED BY <1>7, <1>8, <1>9

LEMMA InitInv == Init => IInv
<1> SUFFICES ASSUME Init PROVE IInv
  OBVIOUS
<1>1. Shape
  BY SlotsAssumption DEF Init, Shape, States
<1>2. Holders = {} /\ Waiters = {} /\ Pending = {}
  BY DEF Init, Holders, HoldersIn, Waiters, Pending, PendingIn, InDeque
<1>3. PermitsConserved
  BY <1>2, FS_EmptySet, SlotsAssumption DEF Init, PermitsConserved
<1>4. DequeOrder /\ GrantsOldest /\ NoLostWakeup
  BY <1>2 DEF Init, DequeOrder, GrantsOldest, NoLostWakeup
<1> QED BY <1>1, <1>3, <1>4 DEF IInv

(* A call that holds no permit before or after keeps the sum. *)
LEMMA SameHolders ==
  ASSUME PermitsConserved, UNCHANGED value, Holders' = Holders
  PROVE  PermitsConserved'
BY DEF PermitsConserved

LEMMA StepInv == ASSUME IInv, NEW c \in Callers, Step(c) PROVE IInv'
<1> USE DEF IInv
<1>1. CASE RejectSql(c)
  <2>1. Shape'
    BY <1>1 DEF RejectSql, Shape, States, Answers
  <2>2. Holders' = Holders /\ Pending' = Pending /\ Waiters' = Waiters
    BY <1>1 DEF RejectSql, Shape, Holders, HoldersIn, Pending, PendingIn, Waiters, InDeque
  <2>3. GrantsOldest'
    BY <1>1, <2>2 DEF RejectSql, Shape, GrantsOldest
  <2>4. DequeOrder' /\ NoLostWakeup'
    BY <1>1, <2>2 DEF RejectSql, DequeOrder, NoLostWakeup
  <2>5. PermitsConserved'
    BY <1>1, <2>2, SameHolders DEF RejectSql
  <2> QED BY <2>1, <2>3, <2>4, <2>5
<1>2. CASE AcquireNow(c)
  <2>1. value > 0 /\ Pending = {}
    BY <1>2 DEF AcquireNow, Locked, Shape, Pending, PendingIn, Waiters, InDeque
  <2>2. Shape'
    BY <1>2, <2>1 DEF AcquireNow, Shape, States
  <2>3. Holders' = Holders \cup {c} /\ c \notin Holders /\ Holders \in SUBSET Callers
    BY <1>2 DEF AcquireNow, Shape, Holders, HoldersIn
  <2>4. Pending' = {} /\ Waiters' = Waiters
    BY <1>2, <2>1 DEF AcquireNow, Shape, Pending, PendingIn, Waiters, InDeque
  <2>5. PermitsConserved'
    BY <1>2, <2>1, <2>3, HolderAdded, FiniteParts DEF AcquireNow, Shape, PermitsConserved
  <2>6. DequeOrder' /\ GrantsOldest' /\ NoLostWakeup'
    BY <1>2, <2>4 DEF AcquireNow, DequeOrder, GrantsOldest, NoLostWakeup
  <2> QED BY <2>2, <2>5, <2>6
<1>3. CASE Enqueue(c)
  <2>1. Shape'
    BY <1>3 DEF Enqueue, Shape, States, InDeque, Waiters
  <2>2. /\ Holders' = Holders
        /\ Pending' = Pending \cup {c}
        /\ Waiters' = Waiters \cup {c}
        /\ c \notin Waiters
    BY <1>3 DEF Enqueue, Shape, Holders, HoldersIn, Pending, PendingIn, Waiters, InDeque
  <2>3. DequeOrder'
    BY <1>3, <2>2 DEF Enqueue, Shape, DequeOrder
  <2>4. GrantsOldest'
    BY <1>3, <2>2 DEF Enqueue, Shape, DequeOrder, GrantsOldest
  <2>5. NoLostWakeup'
    <3>1. CASE value = 0
      BY <3>1, <1>3 DEF Enqueue, NoLostWakeup
    <3>2. CASE \E d \in Waiters : pc[d] # "expired"
      <4>1. Waiters # Pending \/ value = 0
        BY <3>2 DEF NoLostWakeup, Waiters, Pending, PendingIn, Shape
      <4>2. Pending \subseteq Waiters
        BY DEF Pending, PendingIn, Waiters, InDeque
      <4> QED BY <4>1, <4>2, <2>2, <1>3 DEF Enqueue, NoLostWakeup, Shape
    <3> QED BY <3>1, <3>2, <1>3 DEF Enqueue, Locked
  <2>6. PermitsConserved'
    BY <1>3, <2>2, SameHolders DEF Enqueue
  <2> QED BY <2>1, <2>3, <2>4, <2>5, <2>6
<1>4. CASE RefuseAtOnce(c)
  <2>1. PICK out \in {"server_busy", "cancelled"} : pc' = [pc EXCEPT ![c] = out]
    BY <1>4 DEF RefuseAtOnce
  <2>2. Shape'
    BY <1>4, <2>1 DEF RefuseAtOnce, Shape, States, Answers
  <2>3. Holders' = Holders /\ Pending' = Pending /\ Waiters' = Waiters
    BY <1>4, <2>1 DEF RefuseAtOnce, Shape, Holders, HoldersIn, Pending, PendingIn, Waiters, InDeque
  <2>4. GrantsOldest'
    BY <1>4, <2>1, <2>3 DEF RefuseAtOnce, Shape, GrantsOldest
  <2>5. DequeOrder' /\ NoLostWakeup'
    BY <1>4, <2>3 DEF RefuseAtOnce, DequeOrder, NoLostWakeup
  <2>6. PermitsConserved'
    BY <1>4, <2>3, SameHolders DEF RefuseAtOnce
  <2> QED BY <2>2, <2>4, <2>5, <2>6
<1>5. ASSUME NEW why \in {"timeout", "cancelled"}, Interrupt(c, why)
      PROVE  IInv'
  <2>1. Shape'
    BY <1>5 DEF Interrupt, Shape, States, InDeque
  <2>2. /\ Holders' = Holders
        /\ Waiters' = Waiters
        /\ Pending' \subseteq Pending
        /\ c \in Waiters /\ c \notin Pending'
    BY <1>5 DEF Interrupt, Shape, Holders, HoldersIn, Waiters, InDeque, Pending, PendingIn
  <2>3. DequeOrder' /\ NoLostWakeup'
    BY <1>5, <2>2 DEF Interrupt, DequeOrder, NoLostWakeup
  <2>4. GrantsOldest'
    BY <1>5, <2>2 DEF Interrupt, Shape, GrantsOldest
  <2>5. PermitsConserved'
    BY <1>5, <2>2, SameHolders DEF Interrupt
  <2> QED BY <2>1, <2>3, <2>4, <2>5
<1>6. CASE ResumeGranted(c)
  <2> DEFINE p == [pc EXCEPT ![c] = "running"]
  <2>1. p \in [Callers -> States] /\ c \in Waiters /\ value \in Nat
    BY <1>6 DEF ResumeGranted, Shape, States, Waiters, InDeque
  <2>2. HoldersIn(p) = Holders
    BY <1>6 DEF ResumeGranted, Shape, Holders, HoldersIn
  <2>3. WakeAll(p, value) /\ LeaveDeque(c) /\ UNCHANGED <<cause, impatient>>
    BY <1>6 DEF ResumeGranted
  <2>4. /\ pc' \in [Callers -> States]
        /\ value' \in Nat
        /\ value' + Cardinality(HoldersIn(pc')) = value + Cardinality(HoldersIn(p))
        /\ value' = 0 \/ PendingIn(pc') = {}
    BY <2>1, <2>3, WakeAllMovesPermits
  <2>5. DequeOrder' /\ GrantsOldest' /\ ahead' \in [Callers -> SUBSET Callers]
    BY <2>1, <2>3, WakeAllKeepsQueue DEF States, InDeque
  <2>6. PermitsConserved' /\ NoLostWakeup'
    BY <2>2, <2>4 DEF PermitsConserved, NoLostWakeup, Holders, Pending
  <2>7. Shape'
    BY <2>3, <2>4, <2>5 DEF Shape
  <2> QED BY <2>5, <2>6, <2>7
<1>7. CASE ResumeInterrupted(c)
  <2> DEFINE to   == IF cause[c] = "timeout" THEN "server_busy" ELSE "cancelled"
             p    == [pc EXCEPT ![c] = to]
             free == IF pc[c] = "revoked" THEN value + 1 ELSE value
  <2>1. /\ p \in [Callers -> States]
        /\ c \in Waiters
        /\ free \in Nat
        /\ to \in States \ InDeque
    BY <1>7 DEF ResumeInterrupted, Shape, States, Answers, Waiters, InDeque
  <2>2. free + Cardinality(HoldersIn(p)) = value + Cardinality(Holders)
    <3>1. CASE pc[c] = "revoked"
      <4>1. HoldersIn(p) = Holders \ {c} /\ c \in Holders /\ Holders \in SUBSET Callers
        BY <3>1 DEF Shape, Holders, HoldersIn
      <4>2. Cardinality(Holders) \in Nat /\ value \in Nat
        BY <4>1, FiniteParts DEF Shape
      <4>3. Cardinality(HoldersIn(p)) = Cardinality(Holders) - 1
        BY <4>1, HolderRemoved
      <4>4. free = value + 1
        BY <3>1
      <4> HIDE DEF p, free
      <4> QED BY <4>2, <4>3, <4>4
    <3>2. CASE pc[c] = "expired"
      BY <3>2 DEF Shape, Holders, HoldersIn
    <3> QED BY <3>1, <3>2, <1>7 DEF ResumeInterrupted
  <2>3. /\ WakeAll(p, free) /\ LeaveDeque(c)
        /\ cause' = [cause EXCEPT ![c] = "none"] /\ UNCHANGED impatient
    BY <1>7 DEF ResumeInterrupted
  <2>4. /\ pc' \in [Callers -> States]
        /\ value' \in Nat
        /\ value' + Cardinality(HoldersIn(pc')) = free + Cardinality(HoldersIn(p))
        /\ value' = 0 \/ PendingIn(pc') = {}
    <3> HIDE DEF p, free
    <3> QED BY <2>1, <2>3, WakeAllMovesPermits
  <2>5. DequeOrder' /\ GrantsOldest' /\ ahead' \in [Callers -> SUBSET Callers]
    <3> HIDE DEF to, free
    <3> QED BY <2>1, <2>3, WakeAllKeepsQueue
  <2>6. PermitsConserved' /\ NoLostWakeup'
    <3> HIDE DEF p, free
    <3> QED BY <2>2, <2>4 DEF PermitsConserved, NoLostWakeup, Holders, Pending
  <2>7. Shape'
    BY <2>3, <2>4, <2>5 DEF Shape
  <2> QED BY <2>5, <2>6, <2>7
<1>8. CASE Finish(c)
  <2>1. PICK out \in BodyOutcomes : Release([pc EXCEPT ![c] = out])
    BY <1>8 DEF Finish
  <2> DEFINE p == [pc EXCEPT ![c] = out]
  <2>2. p \in [Callers -> States] /\ pc[c] = "running" /\ value \in Nat
    BY <1>8 DEF Finish, Shape, States, Answers, BodyOutcomes
  <2>3. HoldersIn(p) = Holders \ {c} /\ c \in Holders /\ Holders \in SUBSET Callers
    BY <2>2 DEF Shape, Holders, HoldersIn, BodyOutcomes
  <2>4. Cardinality(Holders) \in Nat /\ Cardinality(HoldersIn(p)) = Cardinality(Holders) - 1
    BY <2>3, FiniteParts, HolderRemoved
  <2>5. /\ pc' \in [Callers -> States]
        /\ value' \in Nat
        /\ value' + Cardinality(HoldersIn(pc')) = value + 1 + Cardinality(HoldersIn(p))
    BY <2>1, <2>2, ReleaseMovesPermit
  <2>6. PermitsConserved'
    BY <2>2, <2>4, <2>5 DEF PermitsConserved, Holders
  <2>7. Shape'
    BY <1>8, <2>5 DEF Finish, Shape
  <2>8. PendingIn(p) = Pending
    BY <2>2 DEF Pending, PendingIn, Shape, BodyOutcomes
  <2>9. CASE Pending = {} /\ pc' = p
    <3>1. Waiters' = Waiters /\ Pending' = {}
      BY <2>2, <2>9, <2>8 DEF Waiters, InDeque, Pending, PendingIn, Shape, BodyOutcomes
    <3> QED BY <3>1, <1>8, <2>6, <2>7 DEF Finish, DequeOrder, GrantsOldest, NoLostWakeup
  <2>10. ASSUME NEW d \in Pending, ahead[d] \cap Pending = {},
                pc' = [p EXCEPT ![d] = "granted"]
         PROVE  IInv'
    <3>1. /\ Waiters' = Waiters
          /\ Pending' = Pending \ {d}
          /\ d \in Waiters'
      BY <2>2, <2>10 DEF Waiters, InDeque, Pending, PendingIn, Shape, BodyOutcomes
    <3>2. UNCHANGED ahead
      BY <1>8 DEF Finish
    <3>3. DequeOrder' /\ NoLostWakeup'
      BY <3>1, <3>2 DEF DequeOrder, NoLostWakeup
    <3>4. \A a \in Callers : pc'[a] = "granted" => a = d \/ pc[a] = "granted"
      BY <2>2, <2>10 DEF Shape, BodyOutcomes, Pending, PendingIn
    <3>5. GrantsOldest'
      BY <3>1, <3>2, <3>4, <2>10 DEF GrantsOldest
    <3> QED BY <3>3, <3>5, <2>6, <2>7
  <2> QED BY <2>1, <2>8, <2>9, <2>10 DEF Release
<1>9. CASE CallAgain(c)
  <2>1. Shape'
    BY <1>9 DEF CallAgain, Shape, States
  <2>2. Holders' = Holders /\ Pending' = Pending /\ Waiters' = Waiters
    BY <1>9 DEF CallAgain, Answers, Shape, Holders, HoldersIn, Pending, PendingIn, Waiters, InDeque
  <2>3. GrantsOldest'
    BY <1>9, <2>2 DEF CallAgain, Shape, GrantsOldest
  <2>4. DequeOrder' /\ NoLostWakeup'
    BY <1>9, <2>2 DEF CallAgain, DequeOrder, NoLostWakeup
  <2>5. PermitsConserved'
    BY <1>9, <2>2, SameHolders DEF CallAgain
  <2> QED BY <2>1, <2>3, <2>4, <2>5
<1> QED BY <1>1, <1>2, <1>3, <1>4, <1>5, <1>6, <1>7, <1>8, <1>9
        DEF Step, TimeOut, CancelWait

LEMMA StutterInv == IInv /\ UNCHANGED vars => IInv'
BY DEF IInv, Shape, PermitsConserved, DequeOrder, GrantsOldest, NoLostWakeup,
       Waiters, Pending, Holders, PendingIn, HoldersIn, vars

LEMMA SpecInv == Spec => []IInv
<1>1. IInv /\ [Next]_vars => IInv'
  BY StepInv, StutterInv DEF Next
<1> QED BY <1>1, InitInv, PTL DEF Spec

(* At any time value is between 0 and DB_MAX_CONCURRENT_QUERIES. *)
LEMMA InvTypeOK == IInv => TypeOK
<1> SUFFICES ASSUME IInv PROVE TypeOK
  OBVIOUS
<1>1. Holders \in SUBSET Callers
  BY DEF Holders, HoldersIn
<1>2. value \in 0..Slots
  BY <1>1, FiniteParts, SlotsAssumption DEF IInv, Shape, PermitsConserved
<1> QED BY <1>2 DEF IInv, Shape, TypeOK

(* The state stays well formed. *)
THEOREM TypeCorrect == Spec => []TypeOK
BY SpecInv, InvTypeOK, PTL

(* No permit is ever lost or made twice. *)
THEOREM PermitConservation == Spec => []PermitsConserved
<1>1. IInv => PermitsConserved
  BY DEF IInv
<1> QED BY <1>1, SpecInv, PTL

(* A free permit beside a waiting call is always about to be handed over. *)
THEOREM NoSlotForgotten == Spec => []NoLostWakeup
<1>1. IInv => NoLostWakeup
  BY DEF IInv
<1> QED BY <1>1, SpecInv, PTL

-------------------------------------------------------------------------------
(* Which calls begin to hold a slot in a step: one that found the          *)
(* semaphore unlocked, or one that was granted.                            *)
LEMMA StartsRunning ==
  ASSUME Shape, Next, NEW c \in Callers, pc[c] # "running", pc'[c] = "running"
  PROVE  AcquireNow(c) \/ ResumeGranted(c)
<1>1. PICK d \in Callers : Step(d)
  BY DEF Next
<1> USE DEF Shape
<1>2. CASE RejectSql(d) \/ RefuseAtOnce(d) \/ Enqueue(d) \/ CallAgain(d)
  BY <1>2 DEF RejectSql, RefuseAtOnce, Enqueue, CallAgain
<1>3. CASE AcquireNow(d)
  BY <1>3 DEF AcquireNow
<1>4. CASE TimeOut(d) \/ CancelWait(d)
  BY <1>4 DEF TimeOut, CancelWait, Interrupt
<1>5. CASE ResumeGranted(d)
  <2>1. PICK W \in SUBSET PendingIn([pc EXCEPT ![d] = "running"]) :
          pc' = [e \in Callers |-> IF e \in W THEN "granted"
                                   ELSE [pc EXCEPT ![d] = "running"][e]]
    BY <1>5 DEF ResumeGranted, WakeAll
  <2> QED BY <1>5, <2>1
<1>6. CASE ResumeInterrupted(d)
  BY <1>6 DEF ResumeInterrupted, WakeAll
<1>7. CASE Finish(d)
  BY <1>7 DEF Finish, Release, BodyOutcomes
<1> QED BY <1>1, <1>2, <1>3, <1>4, <1>5, <1>6, <1>7 DEF Step

(* A slot never goes to a call while an older one still waits for it. *)
THEOREM FirstComeFirstServedHolds == Spec => FirstComeFirstServed
<1>1. ASSUME IInv, Next, NEW c \in Callers, pc[c] # "running", pc'[c] = "running"
      PROVE  IF pc[c] = "idle" THEN Pending = {} ELSE ahead[c] \cap Pending = {}
  <2>1. AcquireNow(c) \/ ResumeGranted(c)
    BY <1>1, StartsRunning DEF IInv
  <2>2. CASE AcquireNow(c)
    BY <2>2 DEF AcquireNow, Locked, Pending, PendingIn, Waiters, InDeque
  <2>3. CASE ResumeGranted(c)
    BY <2>3, <1>1 DEF ResumeGranted, IInv, GrantsOldest
  <2> QED BY <2>1, <2>2, <2>3
<1>2. IInv /\ [Next]_vars =>
        [\A c \in Callers : pc[c] # "running" /\ pc'[c] = "running" =>
           IF pc[c] = "idle" THEN Pending = {} ELSE ahead[c] \cap Pending = {}]_vars
  BY <1>1
<1> QED BY <1>2, SpecInv, PTL DEF Spec, FirstComeFirstServed

(* A service with no other call under way lets a call in at once, unless   *)
(* the queue timeout is 0.                                                 *)
THEOREM IdleServiceAdmitsHolds == Spec => IdleServiceAdmits
<1> DEFINE Alone(c) ==
       /\ Slots > 0
       /\ pc[c] = "idle"
       /\ pc'[c] \notin {"idle", "guardrail"}
       /\ \A d \in Callers \ {c} : pc[d] \in Answers \cup {"idle"}
<1>1. ASSUME IInv, Next, NEW c \in Callers, Alone(c)
      PROVE  pc'[c] = "running" <=> ~impatient
  <2>1. Holders = {} /\ Waiters = {}
    BY <1>1 DEF Holders, HoldersIn, Waiters, InDeque, Answers
  <2>2. value = Slots
    BY <1>1, <2>1, FS_EmptySet, SlotsAssumption DEF IInv, Shape, PermitsConserved
  <2>3. ~Locked
    BY <1>1, <2>1, <2>2, SlotsAssumption DEF Locked
  <2>4. PICK d \in Callers : Step(d)
    BY <1>1 DEF Next
  <2>5. pc[d] \in Answers \cup {"idle"}
    BY <1>1
  <2>6. RejectSql(d) \/ RefuseAtOnce(d) \/ AcquireNow(d) \/ CallAgain(d)
    BY <2>3, <2>4, <2>5 DEF Step, Enqueue, TimeOut, CancelWait, Interrupt,
         ResumeGranted, ResumeInterrupted, Finish, Answers
  <2> QED BY <1>1, <2>6 DEF RejectSql, RefuseAtOnce, AcquireNow, CallAgain, IInv, Shape, Answers
<1>2. IInv /\ [Next]_vars => [\A c \in Callers : Alone(c) => (pc'[c] = "running" <=> ~impatient)]_vars
  BY <1>1
<1> QED BY <1>2, SpecInv, PTL DEF Spec, IdleServiceAdmits

-------------------------------------------------------------------------------
LEMMA StageOfValues ==
  /\ StageOf("idle") = "idle"
  /\ StageOf("running") = "inside"
  /\ \A s \in InDeque : StageOf(s) = "waiting"
  /\ \A s \in Answers : StageOf(s) = "answered"
BY DEF StageOf, InDeque, Answers

(* A step that changes the stage of one call only is a Move. *)
LEMMA StageMoves ==
  ASSUME NEW c \in Callers, NEW to,
         StageOf(pc'[c]) = to,
         \A d \in Callers \ {c} : StageOf(pc'[d]) = StageOf(pc[d])
  PROVE  Admission!Move(c, to) /\ Stage[c] = StageOf(pc[c])
BY DEF Stage, Admission!Move

(* The calls inside hold permits, so a call that gets one finds room. *)
LEMMA RoomForOneMore ==
  ASSUME IInv, NEW c \in Callers,
         AcquireNow(c) \/ ResumeGranted(c)
  PROVE  Admission!HasRoom
<1> DEFINE R == {d \in Callers : pc[d] = "running"}
<1>1. Admission!Inside = R
  BY DEF Admission!Inside, Stage, StageOf, InDeque, Answers
<1>2. R \in SUBSET Callers /\ R \subseteq Holders /\ Holders \in SUBSET Callers
  BY DEF Holders, HoldersIn
<1>3. /\ Cardinality(R) \in Nat
      /\ Cardinality(Holders) \in Nat
      /\ Cardinality(R) <= Cardinality(Holders)
  BY <1>2, FiniteParts, FS_Subset
<1>4. /\ value + Cardinality(Holders) = Slots
      /\ value \in Nat
      /\ Slots \in Nat
  BY SlotsAssumption DEF IInv, Shape, PermitsConserved
<1>5. SUFFICES Cardinality(R) < Slots
  <2>1. Admission!Cardinality(R) = Cardinality(R)
    BY DEF Cardinality, Admission!Cardinality
  <2> QED BY <1>1, <1>5, <2>1 DEF Admission!HasRoom
<1>6. CASE AcquireNow(c)
  <2>1. value > 0
    BY <1>4, <1>6 DEF AcquireNow, Locked
  <2> HIDE DEF R
  <2> QED BY <2>1, <1>3, <1>4
<1>7. CASE ResumeGranted(c)
  <2>1. c \in Holders \ R
    BY <1>7 DEF ResumeGranted, Holders, HoldersIn
  <2>2. R \in SUBSET (Holders \ {c}) /\ Holders \ {c} \in SUBSET Callers
    BY <1>2, <2>1
  <2>3. Cardinality(R) <= Cardinality(Holders \ {c})
    BY <2>2, FiniteParts, FS_Subset
  <2>4. Cardinality(Holders \ {c}) = Cardinality(Holders) - 1
    BY <1>2, <2>1, HolderRemoved
  <2> HIDE DEF R
  <2> QED BY <2>3, <2>4, <1>3, <1>4
<1> QED BY <1>6, <1>7

(* QuerySlots implements BoundedAdmission: no more than                    *)
(* DB_MAX_CONCURRENT_QUERIES calls are ever inside the database.           *)
THEOREM AdmissionRefinement == Spec => RefinesAdmission
<1>1. Init => Admission!Init
  BY StageOfValues DEF Init, Admission!Init, Stage
<1>2. ASSUME IInv, NEW c \in Callers, Step(c)
      PROVE  [Admission!Next]_Stage
  <2> USE <1>2 DEF IInv, Shape
  <2>1. CASE RejectSql(c)
    <3>1. StageOf(pc[c]) = "idle" /\ StageOf(pc'[c]) = "answered"
      BY <2>1, StageOfValues DEF RejectSql, InDeque, Answers
    <3>2. \A d \in Callers \ {c} : pc'[d] = pc[d]
      BY <2>1 DEF RejectSql
    <3> QED BY <3>1, <3>2, StageMoves DEF Admission!Next, Admission!Step, Admission!TurnAway
  <2>2. CASE AcquireNow(c)
    <3>1. StageOf(pc[c]) = "idle" /\ StageOf(pc'[c]) = "inside"
      BY <2>2, StageOfValues DEF AcquireNow, InDeque, Answers
    <3>2. \A d \in Callers \ {c} : pc'[d] = pc[d]
      BY <2>2 DEF AcquireNow
    <3>3. Admission!HasRoom
      BY <2>2, RoomForOneMore
    <3> QED BY <3>1, <3>2, <3>3, StageMoves DEF Admission!Next, Admission!Step, Admission!Enter
  <2>3. CASE Enqueue(c)
    <3>1. StageOf(pc[c]) = "idle" /\ StageOf(pc'[c]) = "waiting"
      BY <2>3, StageOfValues DEF Enqueue, InDeque, Answers
    <3>2. \A d \in Callers \ {c} : pc'[d] = pc[d]
      BY <2>3 DEF Enqueue
    <3> QED BY <3>1, <3>2, StageMoves DEF Admission!Next, Admission!Step, Admission!Wait
  <2>4. CASE TimeOut(c) \/ CancelWait(c)
    <3>1. \A d \in Callers : StageOf(pc'[d]) = StageOf(pc[d])
      BY <2>4, StageOfValues DEF TimeOut, CancelWait, Interrupt, InDeque
    <3> QED BY <3>1 DEF Stage
  <2>5. CASE ResumeGranted(c)
    <3>1. PICK W \in SUBSET PendingIn([pc EXCEPT ![c] = "running"]) :
            pc' = [d \in Callers |-> IF d \in W THEN "granted"
                                     ELSE [pc EXCEPT ![c] = "running"][d]]
      BY <2>5 DEF ResumeGranted, WakeAll
    <3>2. StageOf(pc[c]) = "waiting" /\ StageOf(pc'[c]) = "inside"
      BY <2>5, <3>1, StageOfValues DEF ResumeGranted, PendingIn, InDeque, Answers
    <3>3. \A d \in Callers \ {c} : StageOf(pc'[d]) = StageOf(pc[d])
      BY <3>1, StageOfValues DEF PendingIn, InDeque
    <3>4. Admission!HasRoom
      BY <2>5, RoomForOneMore
    <3> QED BY <3>2, <3>3, <3>4, StageMoves DEF Admission!Next, Admission!Step, Admission!Enter
  <2>6. CASE ResumeInterrupted(c)
    <3> DEFINE to == IF cause[c] = "timeout" THEN "server_busy" ELSE "cancelled"
    <3>1. PICK W \in SUBSET PendingIn([pc EXCEPT ![c] = to]) :
            pc' = [d \in Callers |-> IF d \in W THEN "granted"
                                     ELSE [pc EXCEPT ![c] = to][d]]
      BY <2>6 DEF ResumeInterrupted, WakeAll
    <3>2. StageOf(pc[c]) = "waiting" /\ StageOf(pc'[c]) = "answered"
      BY <2>6, <3>1, StageOfValues DEF ResumeInterrupted, PendingIn, InDeque, Answers
    <3>3. \A d \in Callers \ {c} : StageOf(pc'[d]) = StageOf(pc[d])
      BY <3>1, StageOfValues DEF PendingIn, InDeque
    <3> QED BY <3>2, <3>3, StageMoves DEF Admission!Next, Admission!Step, Admission!TurnAway
  <2>7. CASE Finish(c)
    <3>1. PICK out \in BodyOutcomes : Release([pc EXCEPT ![c] = out])
      BY <2>7 DEF Finish
    <3>2. StageOf(pc[c]) = "inside" /\ StageOf(pc'[c]) = "answered"
      BY <2>7, <3>1, StageOfValues DEF Finish, Release, BodyOutcomes, PendingIn, InDeque, Answers
    <3>3. \A d \in Callers \ {c} : StageOf(pc'[d]) = StageOf(pc[d])
      BY <3>1, StageOfValues DEF Release, PendingIn, InDeque
    <3> QED BY <3>2, <3>3, StageMoves DEF Admission!Next, Admission!Step, Admission!Leave
  <2>8. CASE CallAgain(c)
    <3>1. StageOf(pc[c]) = "answered" /\ StageOf(pc'[c]) = "idle"
      BY <2>8, StageOfValues DEF CallAgain, InDeque, Answers
    <3>2. \A d \in Callers \ {c} : pc'[d] = pc[d]
      BY <2>8 DEF CallAgain
    <3> QED BY <3>1, <3>2, StageMoves DEF Admission!Next, Admission!Step, Admission!Again
  <2>9. CASE RefuseAtOnce(c)
    <3>1. PICK out \in {"server_busy", "cancelled"} : pc' = [pc EXCEPT ![c] = out]
      BY <2>9 DEF RefuseAtOnce
    <3>2. StageOf(pc[c]) = "idle" /\ StageOf(pc'[c]) = "answered"
      BY <2>9, <3>1, StageOfValues DEF RefuseAtOnce, InDeque, Answers
    <3>3. \A d \in Callers \ {c} : pc'[d] = pc[d]
      BY <3>1
    <3> QED BY <3>2, <3>3, StageMoves DEF Admission!Next, Admission!Step, Admission!TurnAway
  <2> QED BY <1>2, <2>1, <2>2, <2>3, <2>4, <2>5, <2>6, <2>7, <2>8, <2>9 DEF Step
<1>3. UNCHANGED vars => UNCHANGED Stage
  BY DEF vars, Stage
<1>4. IInv /\ [Next]_vars => [Admission!Next]_Stage
  BY <1>2, <1>3 DEF Next
<1> QED BY <1>1, <1>4, SpecInv, PTL DEF Spec, RefinesAdmission, Admission!Spec
===============================================================================
