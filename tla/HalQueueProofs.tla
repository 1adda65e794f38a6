--------------------------- MODULE HalQueueProofs ---------------------------
(***************************************************************************)
(* Proofs about HalQueue, for every queue length, every finite set of      *)
(* tasks and every set of items.                                           *)
(***************************************************************************)
EXTENDS HalQueue, FiniteSetTheorems, SequenceTheorems, TLAPS

(* The inductive invariant: the two semaphore accounts and the distance of *)
(* the ring pointers.  RingConsistent needs TokensConserved (a push that   *)
(* holds a token finds a free slot) and the typing of sem_pop and sem_push *)
(* needs it as an upper bound; Unlock stays in 0..1 because of MutexHeld.  *)
IInv == TypeOK /\ MutexHeld /\ TokensConserved /\ RingConsistent

Bit(b) == IF b THEN 1 ELSE 0

(* Moving one task changes the number of tasks at a set of places by what  *)
(* that task alone contributes.                                            *)
LEMMA CountMove ==
  ASSUME pc \in [Thread -> PC], NEW t \in Thread, NEW w \in PC, Goto(t, w),
         NEW S
  PROVE  /\ Cardinality(At(S)) \in Nat
         /\ Cardinality(At(S))' \in Nat
         /\ Cardinality(At(S))' = Cardinality(At(S)) + Bit(w \in S) - Bit(pc[t] \in S)
<1> DEFINE A == At(S)
           B == At(S)'
<1>1. IsFiniteSet(A) /\ IsFiniteSet(B)
  <2>1. A \subseteq Thread /\ B \subseteq Thread BY DEF At
  <2> QED BY <2>1, ThreadAssumption, FS_Subset
<1>2. Cardinality(A) \in Nat /\ Cardinality(B) \in Nat
  BY <1>1, FS_CardinalityType
<1>3. \A u \in Thread : pc'[u] = IF u = t THEN w ELSE pc[u]
  BY DEF Goto
<1>4. CASE w \in S /\ pc[t] \in S
  <2>1. B = A BY <1>3, <1>4 DEF At
  <2> QED BY <2>1, <1>2, <1>4 DEF Bit
<1>5. CASE w \notin S /\ pc[t] \notin S
  <2>1. B = A BY <1>3, <1>5 DEF At
  <2> QED BY <2>1, <1>2, <1>5 DEF Bit
<1>6. CASE w \in S /\ pc[t] \notin S
  <2>1. B = A \cup {t} /\ t \notin A BY <1>3, <1>6 DEF At
  <2>2. Cardinality(B) = Cardinality(A) + 1 BY <2>1, <1>1, FS_AddElement
  <2> QED BY <2>2, <1>2, <1>6 DEF Bit
<1>7. CASE w \notin S /\ pc[t] \in S
  <2>1. B = A \ {t} /\ t \in A BY <1>3, <1>7 DEF At
  <2>2. Cardinality(B) = Cardinality(A) - 1 BY <2>1, <1>1, FS_RemoveElement
  <2> QED BY <2>2, <1>2, <1>7 DEF Bit
<1> QED BY <1>4, <1>5, <1>6, <1>7

(* A task at one of the places makes their count positive, and a task in   *)
(* flight that is not Uncounted leaves room in the ring.                   *)
LEMMA CountBounds ==
  ASSUME NEW t \in Thread
  PROVE  /\ \A S : Cardinality(At(S)) \in Nat
         /\ \A S : pc[t] \in S => Cardinality(At(S)) >= 1
         /\ Cardinality(At(Uncounted)) <= Cardinality(At(InFlight))
         /\ pc[t] \in InFlight \ Uncounted =>
              Cardinality(At(Uncounted)) + 1 <= Cardinality(At(InFlight))
<1>1. \A S : IsFiniteSet(At(S))
  <2>1. \A S : At(S) \subseteq Thread BY DEF At
  <2> QED BY <2>1, ThreadAssumption, FS_Subset
<1>2. \A S : Cardinality(At(S)) \in Nat
  BY <1>1, FS_CardinalityType
<1>3. ASSUME NEW S, pc[t] \in S PROVE Cardinality(At(S)) >= 1
  <2>1. t \in At(S) BY <1>3 DEF At
  <2>2. At(S) # {} BY <2>1
  <2>3. Cardinality(At(S)) # 0 BY <2>2, <1>1, FS_EmptySet
  <2> QED BY <2>3, <1>2
<1>4. At(Uncounted) \subseteq At(InFlight) BY DEF At, Uncounted, InFlight
<1>5. Cardinality(At(Uncounted)) <= Cardinality(At(InFlight))
  BY <1>1, <1>4, FS_Subset
<1>6. ASSUME pc[t] \in InFlight \ Uncounted
      PROVE  Cardinality(At(Uncounted)) + 1 <= Cardinality(At(InFlight))
  <2>1. At(Uncounted) # At(InFlight) BY <1>6 DEF At
  <2>2. Cardinality(At(Uncounted)) # Cardinality(At(InFlight))
    BY <2>1, <1>1, <1>4, FS_Subset
  <2> QED BY <2>2, <1>5, <1>2
<1> QED BY <1>2, <1>3, <1>5, <1>6

(* queueCreate leaves an empty ring with all tokens in sem_push.           *)
LEMMA InitInv == Init => IInv
<1> SUFFICES ASSUME Init PROVE IInv
  OBVIOUS
<1>1. TypeOK BY LengthAssumption, ItemAssumption DEF Init, TypeOK, PC
<1>2. \A S : "idle" \notin S => At(S) = {}
  BY DEF Init, At
<1>3. /\ Cardinality(At(CriticalSection)) = 0
      /\ Cardinality(At(InFlight)) = 0
      /\ Cardinality(At(Uncounted)) = 0
  BY <1>2, FS_EmptySet DEF CriticalSection, InFlight, Uncounted
<1>4. MutexHeld /\ TokensConserved /\ RingConsistent
  BY <1>3, LengthAssumption
  DEF Init, MutexHeld, TokensConserved, RingConsistent, Stored, Fold, Place
<1> QED BY <1>1, <1>4 DEF IInv

(* A step moves one task; the three accounts follow by CountMove.          *)
LEMMA StepInv == IInv /\ [Next]_vars => IInv'
<1> USE LengthAssumption, ItemAssumption
<1> SUFFICES ASSUME IInv, [Next]_vars PROVE IInv'
  OBVIOUS
<1> USE DEF IInv
<1>1. CASE UNCHANGED vars
  <2>1. At(CriticalSection)' = At(CriticalSection) /\ At(InFlight)' = At(InFlight)
        /\ At(Uncounted)' = At(Uncounted)
    BY <1>1 DEF vars, At
  <2> QED
    BY <1>1, <2>1 DEF vars, TypeOK, MutexHeld, TokensConserved, RingConsistent,
       Stored, Place, Fold
<1>2. ASSUME NEW t \in Thread, BeginPush(t) \/ Step(t) PROVE IInv'
  <2> DEFINE nC == Cardinality(At(CriticalSection))
             nF == Cardinality(At(InFlight))
             nU == Cardinality(At(Uncounted))
             Moved(w) ==
               /\ nC' = nC + Bit(w \in CriticalSection)
                          - Bit(pc[t] \in CriticalSection)
               /\ nF' = nF + Bit(w \in InFlight) - Bit(pc[t] \in InFlight)
               /\ nU' = nU + Bit(w \in Uncounted) - Bit(pc[t] \in Uncounted)
               /\ pc' \in [Thread -> PC]
  <2>0. /\ nC \in Nat /\ nF \in Nat /\ nU \in Nat /\ nU <= nF
        /\ pc[t] \in CriticalSection => nC >= 1
        /\ pc[t] \in InFlight \ Uncounted => nU + 1 <= nF
        /\ pc[t] \in Uncounted => nU >= 1
    BY CountBounds
  <2>1. ASSUME NEW w \in PC, Goto(t, w)
        PROVE  Moved(w)
    <3>1. pc \in [Thread -> PC] BY DEF TypeOK
    <3>2. pc' \in [Thread -> PC] BY <2>1, <3>1 DEF Goto
    <3> QED BY <2>1, <3>1, <3>2, CountMove
  <2> HIDE DEF IInv
  <2>T. /\ TypeOK /\ MutexHeld /\ TokensConserved /\ RingConsistent
    BY DEF IInv
  <2> SUFFICES TypeOK' /\ MutexHeld' /\ TokensConserved' /\ RingConsistent'
    BY DEF IInv
  <2>a. MutexHeld <=> semaphore + nC = 1
    BY DEF MutexHeld
  <2>a2. MutexHeld' <=> semaphore' + nC' = 1
    BY DEF MutexHeld
  <2>b. TokensConserved <=> sem_push + sem_pop + nF = Length
    BY DEF TokensConserved
  <2>b2. TokensConserved' <=> sem_push' + sem_pop' + nF' = Length
    BY DEF TokensConserved
  <2>c. Stored = sem_pop + nU /\ Stored' = sem_pop' + nU'
    BY DEF Stored
  <2> HIDE DEF nC, nF, nU
  <2>2. CASE BeginPush(t)
    <3>1. Goto(t, "push_wait") BY <2>2 DEF BeginPush
    <3>2. Moved("push_wait") BY <2>1, <3>1 DEF PC
    <3>3. TypeOK'
      BY <2>2, <2>T, <3>2, <2>0, <2>a, <2>b
      DEF BeginPush, TypeOK, sems, ring, Fold, increment, decrement,
          Bit, CriticalSection, InFlight, Uncounted
    <3>4. MutexHeld'
      BY <2>2, <2>T, <2>0, <2>a, <2>a2, <3>2
      DEF BeginPush, sems, TypeOK, Bit, CriticalSection
    <3>5. TokensConserved'
      BY <2>2, <2>T, <2>0, <2>b, <2>b2, <3>2
      DEF BeginPush, sems, TypeOK, Bit, InFlight
    <3>6. RingConsistent'
      BY <2>2, <2>T, <2>0, <2>b, <2>c, <3>2
      DEF BeginPush, sems, ring, TypeOK, Bit, RingConsistent, Place, Fold,
          increment, Uncounted, InFlight
    <3> QED BY <3>3, <3>4, <3>5, <3>6
  <2>3. CASE TakePush(t)
    <3>1. Goto(t, "push_lock") BY <2>3 DEF TakePush
    <3>2. Moved("push_lock") BY <2>1, <3>1 DEF PC
    <3>3. TypeOK'
      BY <2>3, <2>T, <3>2, <2>0, <2>a, <2>b
      DEF TakePush, TypeOK, sems, ring, Fold, increment, decrement, Bit,
          CriticalSection, InFlight, Uncounted
    <3>4. MutexHeld'
      BY <2>3, <2>T, <2>0, <2>a, <2>a2, <3>2
      DEF TakePush, sems, TypeOK, Bit, CriticalSection
    <3>5. TokensConserved'
      BY <2>3, <2>T, <2>0, <2>b, <2>b2, <3>2
      DEF TakePush, sems, TypeOK, Bit, InFlight
    <3>6. RingConsistent'
      BY <2>3, <2>T, <2>0, <2>b, <2>c, <3>2
      DEF TakePush, sems, ring, TypeOK, Bit, RingConsistent, Place, Fold,
          increment, Uncounted, InFlight
    <3> QED BY <3>3, <3>4, <3>5, <3>6
  <2>4. CASE PushTimeout(t)
    <3>1. Goto(t, "idle") BY <2>4 DEF PushTimeout
    <3>2. Moved("idle") BY <2>1, <3>1 DEF PC
    <3>3. TypeOK'
      BY <2>4, <2>T, <3>2, <2>0, <2>a, <2>b
      DEF PushTimeout, TypeOK, sems, ring, Fold, increment, decrement,
          Bit, CriticalSection, InFlight, Uncounted
    <3>4. MutexHeld'
      BY <2>4, <2>T, <2>0, <2>a, <2>a2, <3>2
      DEF PushTimeout, sems, TypeOK, Bit, CriticalSection
    <3>5. TokensConserved'
      BY <2>4, <2>T, <2>0, <2>b, <2>b2, <3>2
      DEF PushTimeout, sems, TypeOK, Bit, InFlight
    <3>6. RingConsistent'
      BY <2>4, <2>T, <2>0, <2>b, <2>c, <3>2
      DEF PushTimeout, sems, ring, TypeOK, Bit, RingConsistent, Place, Fold,
          increment, Uncounted, InFlight
    <3> QED BY <3>3, <3>4, <3>5, <3>6
  <2>5. CASE FallBackToOverride(t)
    <3>1. Goto(t, "force") BY <2>5 DEF FallBackToOverride
    <3>2. Moved("force") BY <2>1, <3>1 DEF PC
    <3>3. TypeOK'
      BY <2>5, <2>T, <3>2, <2>0, <2>a, <2>b
      DEF FallBackToOverride, TypeOK, sems, ring, Fold, increment,
          decrement, Bit, CriticalSection, InFlight, Uncounted
    <3>4. MutexHeld'
      BY <2>5, <2>T, <2>0, <2>a, <2>a2, <3>2
      DEF FallBackToOverride, sems, TypeOK, Bit, CriticalSection
    <3>5. TokensConserved'
      BY <2>5, <2>T, <2>0, <2>b, <2>b2, <3>2
      DEF FallBackToOverride, sems, TypeOK, Bit, InFlight
    <3>6. RingConsistent'
      BY <2>5, <2>T, <2>0, <2>b, <2>c, <3>2
      DEF FallBackToOverride, sems, ring, TypeOK, Bit, RingConsistent,
          Place, Fold, increment, Uncounted, InFlight
    <3> QED BY <3>3, <3>4, <3>5, <3>6
  <2>6. CASE PushStore(t)
    <3>1. Goto(t, "push_post") BY <2>6 DEF PushStore
    <3>2. Moved("push_post") BY <2>1, <3>1 DEF PC
    <3>3. TypeOK'
      BY <2>6, <2>T, <3>2, <2>0, <2>a, <2>b
      DEF PushStore, TypeOK, sems, ring, Fold, increment, decrement,
          Bit, CriticalSection, InFlight, Uncounted
    <3>4. MutexHeld'
      BY <2>6, <2>T, <2>0, <2>a, <2>a2, <3>2
      DEF PushStore, sems, TypeOK, Bit, CriticalSection
    <3>5. TokensConserved'
      BY <2>6, <2>T, <2>0, <2>b, <2>b2, <3>2
      DEF PushStore, sems, TypeOK, Bit, InFlight
    <3>6. RingConsistent'
      BY <2>6, <2>T, <2>0, <2>b, <2>c, <3>2
      DEF PushStore, sems, ring, TypeOK, Bit, RingConsistent, Place, Fold,
          increment, Uncounted, InFlight
    <3> QED BY <3>3, <3>4, <3>5, <3>6
  <2>7. CASE PushPost(t)
    <3>1. Goto(t, "unlock") BY <2>7 DEF PushPost
    <3>2. Moved("unlock") BY <2>1, <3>1 DEF PC
    <3>3. TypeOK'
      BY <2>7, <2>T, <3>2, <2>0, <2>a, <2>b
      DEF PushPost, TypeOK, sems, ring, Fold, increment, decrement, Bit,
          CriticalSection, InFlight, Uncounted
    <3>4. MutexHeld'
      BY <2>7, <2>T, <2>0, <2>a, <2>a2, <3>2
      DEF PushPost, sems, TypeOK, Bit, CriticalSection
    <3>5. TokensConserved'
      BY <2>7, <2>T, <2>0, <2>b, <2>b2, <3>2
      DEF PushPost, sems, TypeOK, Bit, InFlight
    <3>6. RingConsistent'
      BY <2>7, <2>T, <2>0, <2>b, <2>c, <3>2
      DEF PushPost, sems, ring, TypeOK, Bit, RingConsistent, Place, Fold,
          increment, Uncounted, InFlight
    <3> QED BY <3>3, <3>4, <3>5, <3>6
  <2>8. CASE OverStore(t)
    <3>1. Goto(t, "unlock") BY <2>8 DEF OverStore
    <3>2. Moved("unlock") BY <2>1, <3>1 DEF PC
    <3>3. TypeOK'
      BY <2>8, <2>T, <3>2, <2>0, <2>a, <2>b
      DEF OverStore, TypeOK, sems, ring, Fold, increment, decrement,
          Bit, CriticalSection, InFlight, Uncounted
    <3>4. MutexHeld'
      BY <2>8, <2>T, <2>0, <2>a, <2>a2, <3>2
      DEF OverStore, sems, TypeOK, Bit, CriticalSection
    <3>5. TokensConserved'
      BY <2>8, <2>T, <2>0, <2>b, <2>b2, <3>2
      DEF OverStore, sems, TypeOK, Bit, InFlight
    <3>6. RingConsistent'
      BY <2>8, <2>T, <2>0, <2>b, <2>c, <3>2
      DEF OverStore, sems, ring, TypeOK, Bit, RingConsistent, Place, Fold,
          increment, Uncounted, InFlight
    <3> QED BY <3>3, <3>4, <3>5, <3>6
  <2>9. CASE BeginPop(t)
    <3>1. Goto(t, "pop_wait") BY <2>9 DEF BeginPop
    <3>2. Moved("pop_wait") BY <2>1, <3>1 DEF PC
    <3>3. TypeOK'
      BY <2>9, <2>T, <3>2, <2>0, <2>a, <2>b
      DEF BeginPop, TypeOK, sems, ring, Fold, increment, decrement, Bit,
          CriticalSection, InFlight, Uncounted
    <3>4. MutexHeld'
      BY <2>9, <2>T, <2>0, <2>a, <2>a2, <3>2
      DEF BeginPop, sems, TypeOK, Bit, CriticalSection
    <3>5. TokensConserved'
      BY <2>9, <2>T, <2>0, <2>b, <2>b2, <3>2
      DEF BeginPop, sems, TypeOK, Bit, InFlight
    <3>6. RingConsistent'
      BY <2>9, <2>T, <2>0, <2>b, <2>c, <3>2
      DEF BeginPop, sems, ring, TypeOK, Bit, RingConsistent, Place, Fold,
          increment, Uncounted, InFlight
    <3> QED BY <3>3, <3>4, <3>5, <3>6
  <2>10. CASE TakePop(t)
    <3>1. Goto(t, "pop_lock") BY <2>10 DEF TakePop
    <3>2. Moved("pop_lock") BY <2>1, <3>1 DEF PC
    <3>3. TypeOK'
      BY <2>10, <2>T, <3>2, <2>0, <2>a, <2>b
      DEF TakePop, TypeOK, sems, ring, Fold, increment, decrement, Bit,
          CriticalSection, InFlight, Uncounted
    <3>4. MutexHeld'
      BY <2>10, <2>T, <2>0, <2>a, <2>a2, <3>2
      DEF TakePop, sems, TypeOK, Bit, CriticalSection
    <3>5. TokensConserved'
      BY <2>10, <2>T, <2>0, <2>b, <2>b2, <3>2
      DEF TakePop, sems, TypeOK, Bit, InFlight
    <3>6. RingConsistent'
      BY <2>10, <2>T, <2>0, <2>b, <2>c, <3>2
      DEF TakePop, sems, ring, TypeOK, Bit, RingConsistent, Place, Fold,
          increment, Uncounted, InFlight
    <3> QED BY <3>3, <3>4, <3>5, <3>6
  <2>11. CASE PopTimeout(t)
    <3>1. Goto(t, "idle") BY <2>11 DEF PopTimeout
    <3>2. Moved("idle") BY <2>1, <3>1 DEF PC
    <3>3. TypeOK'
      BY <2>11, <2>T, <3>2, <2>0, <2>a, <2>b
      DEF PopTimeout, TypeOK, sems, ring, Fold, increment, decrement,
          Bit, CriticalSection, InFlight, Uncounted
    <3>4. MutexHeld'
      BY <2>11, <2>T, <2>0, <2>a, <2>a2, <3>2
      DEF PopTimeout, sems, TypeOK, Bit, CriticalSection
    <3>5. TokensConserved'
      BY <2>11, <2>T, <2>0, <2>b, <2>b2, <3>2
      DEF PopTimeout, sems, TypeOK, Bit, InFlight
    <3>6. RingConsistent'
      BY <2>11, <2>T, <2>0, <2>b, <2>c, <3>2
      DEF PopTimeout, sems, ring, TypeOK, Bit, RingConsistent, Place, Fold,
          increment, Uncounted, InFlight
    <3> QED BY <3>3, <3>4, <3>5, <3>6
  <2>12. CASE PopRead(t)
    <3>1. Goto(t, "pop_post") BY <2>12 DEF PopRead
    <3>2. Moved("pop_post") BY <2>1, <3>1 DEF PC
    <3>3. TypeOK'
      BY <2>12, <2>T, <3>2, <2>0, <2>a, <2>b
      DEF PopRead, TypeOK, sems, ring, Fold, increment, decrement, Bit,
          CriticalSection, InFlight, Uncounted
    <3>4. MutexHeld'
      BY <2>12, <2>T, <2>0, <2>a, <2>a2, <3>2
      DEF PopRead, sems, TypeOK, Bit, CriticalSection
    <3>5. TokensConserved'
      BY <2>12, <2>T, <2>0, <2>b, <2>b2, <3>2
      DEF PopRead, sems, TypeOK, Bit, InFlight
    <3>6. RingConsistent'
      BY <2>12, <2>T, <2>0, <2>b, <2>c, <3>2
      DEF PopRead, sems, ring, TypeOK, Bit, RingConsistent, Place, Fold,
          increment, Uncounted, InFlight
    <3> QED BY <3>3, <3>4, <3>5, <3>6
  <2>13. CASE PopPost(t)
    <3>1. Goto(t, "unlock") BY <2>13 DEF PopPost
    <3>2. Moved("unlock") BY <2>1, <3>1 DEF PC
    <3>3. TypeOK'
      BY <2>13, <2>T, <3>2, <2>0, <2>a, <2>b
      DEF PopPost, TypeOK, sems, ring, Fold, increment, decrement, Bit,
          CriticalSection, InFlight, Uncounted
    <3>4. MutexHeld'
      BY <2>13, <2>T, <2>0, <2>a, <2>a2, <3>2
      DEF PopPost, sems, TypeOK, Bit, CriticalSection
    <3>5. TokensConserved'
      BY <2>13, <2>T, <2>0, <2>b, <2>b2, <3>2
      DEF PopPost, sems, TypeOK, Bit, InFlight
    <3>6. RingConsistent'
      BY <2>13, <2>T, <2>0, <2>b, <2>c, <3>2
      DEF PopPost, sems, ring, TypeOK, Bit, RingConsistent, Place, Fold,
          increment, Uncounted, InFlight
    <3> QED BY <3>3, <3>4, <3>5, <3>6
  <2>14. CASE Unlock(t)
    <3>1. Goto(t, "idle") BY <2>14 DEF Unlock
    <3>2. Moved("idle") BY <2>1, <3>1 DEF PC
    <3>3. TypeOK'
      BY <2>14, <2>T, <3>2, <2>0, <2>a, <2>b
      DEF Unlock, TypeOK, sems, ring, Fold, increment, decrement, Bit,
          CriticalSection, InFlight, Uncounted
    <3>4. MutexHeld'
      BY <2>14, <2>T, <2>0, <2>a, <2>a2, <3>2
      DEF Unlock, sems, TypeOK, Bit, CriticalSection
    <3>5. TokensConserved'
      BY <2>14, <2>T, <2>0, <2>b, <2>b2, <3>2
      DEF Unlock, sems, TypeOK, Bit, InFlight
    <3>6. RingConsistent'
      BY <2>14, <2>T, <2>0, <2>b, <2>c, <3>2
      DEF Unlock, sems, ring, TypeOK, Bit, RingConsistent, Place, Fold,
          increment, Uncounted, InFlight
    <3> QED BY <3>3, <3>4, <3>5, <3>6
  <2>15. CASE TryForce(t)
    <3>1. CASE sem_push > 0
      <4>1. Goto(t, "push_lock") BY <2>15, <3>1 DEF TryForce
      <4>2. Moved("push_lock") BY <2>1, <4>1 DEF PC
      <4>3. TypeOK'
        BY <2>15, <3>1, <2>T, <4>2, <2>0, <2>a, <2>b
        DEF TryForce, TypeOK, sems, ring, Bit, CriticalSection,
            InFlight, Uncounted
      <4>4. MutexHeld'
        BY <2>15, <3>1, <2>T, <2>0, <2>a, <2>a2, <4>2
        DEF TryForce, sems, TypeOK, Bit, CriticalSection
      <4>5. TokensConserved'
        BY <2>15, <3>1, <2>T, <2>0, <2>b, <2>b2, <4>2
        DEF TryForce, sems, TypeOK, Bit, InFlight
      <4>6. RingConsistent'
        BY <2>15, <3>1, <2>T, <2>0, <2>b, <2>c, <4>2
        DEF TryForce, sems, ring, TypeOK, Bit, RingConsistent, Place, Fold,
            Uncounted, InFlight
      <4> QED BY <4>3, <4>4, <4>5, <4>6
    <3>2. CASE ~(sem_push > 0)
      <4>1. Goto(t, "over_lock") BY <2>15, <3>2 DEF TryForce
      <4>2. Moved("over_lock") BY <2>1, <4>1 DEF PC
      <4>3. TypeOK'
        BY <2>15, <3>2, <2>T, <4>2, <2>0, <2>a, <2>b
        DEF TryForce, TypeOK, sems, ring, Bit, CriticalSection,
            InFlight, Uncounted
      <4>4. MutexHeld'
        BY <2>15, <3>2, <2>T, <2>0, <2>a, <2>a2, <4>2
        DEF TryForce, sems, TypeOK, Bit, CriticalSection
      <4>5. TokensConserved'
        BY <2>15, <3>2, <2>T, <2>0, <2>b, <2>b2, <4>2
        DEF TryForce, sems, TypeOK, Bit, InFlight
      <4>6. RingConsistent'
        BY <2>15, <3>2, <2>T, <2>0, <2>b, <2>c, <4>2
        DEF TryForce, sems, ring, TypeOK, Bit, RingConsistent, Place, Fold,
            Uncounted, InFlight
      <4> QED BY <4>3, <4>4, <4>5, <4>6
    <3> QED BY <3>1, <3>2
  <2>16. CASE Lock(t)
    <3>0. pc[t] \in {"push_lock", "over_lock", "pop_lock"}
      BY <2>16 DEF Lock, AfterLock
    <3>1. CASE pc[t] = "push_lock"
      <4>1. Goto(t, "push_store") BY <2>16, <3>1 DEF Lock, AfterLock
      <4>2. Moved("push_store") BY <2>1, <4>1 DEF PC
      <4>3. TypeOK'
        BY <2>16, <3>1, <2>T, <4>2, <2>0, <2>a, <2>b
        DEF Lock, TypeOK, sems, ring, Bit, CriticalSection, InFlight,
            Uncounted
      <4>4. MutexHeld'
        BY <2>16, <3>1, <2>T, <2>0, <2>a, <2>a2, <4>2
        DEF Lock, sems, TypeOK, Bit, CriticalSection
      <4>5. TokensConserved'
        BY <2>16, <3>1, <2>T, <2>0, <2>b, <2>b2, <4>2
        DEF Lock, sems, TypeOK, Bit, InFlight
      <4>6. RingConsistent'
        BY <2>16, <3>1, <2>T, <2>0, <2>b, <2>c, <4>2
        DEF Lock, sems, ring, TypeOK, Bit, RingConsistent, Place, Fold,
            Uncounted, InFlight
      <4> QED BY <4>3, <4>4, <4>5, <4>6
    <3>2. CASE pc[t] = "over_lock"
      <4>1. Goto(t, "over_store") BY <2>16, <3>2 DEF Lock, AfterLock
      <4>2. Moved("over_store") BY <2>1, <4>1 DEF PC
      <4>3. TypeOK'
        BY <2>16, <3>2, <2>T, <4>2, <2>0, <2>a, <2>b
        DEF Lock, TypeOK, sems, ring, Bit, CriticalSection, InFlight,
            Uncounted
      <4>4. MutexHeld'
        BY <2>16, <3>2, <2>T, <2>0, <2>a, <2>a2, <4>2
        DEF Lock, sems, TypeOK, Bit, CriticalSection
      <4>5. TokensConserved'
        BY <2>16, <3>2, <2>T, <2>0, <2>b, <2>b2, <4>2
        DEF Lock, sems, TypeOK, Bit, InFlight
      <4>6. RingConsistent'
        BY <2>16, <3>2, <2>T, <2>0, <2>b, <2>c, <4>2
        DEF Lock, sems, ring, TypeOK, Bit, RingConsistent, Place, Fold,
            Uncounted, InFlight
      <4> QED BY <4>3, <4>4, <4>5, <4>6
    <3>3. CASE pc[t] = "pop_lock"
      <4>1. Goto(t, "pop_read") BY <2>16, <3>3 DEF Lock, AfterLock
      <4>2. Moved("pop_read") BY <2>1, <4>1 DEF PC
      <4>3. TypeOK'
        BY <2>16, <3>3, <2>T, <4>2, <2>0, <2>a, <2>b
        DEF Lock, TypeOK, sems, ring, Bit, CriticalSection, InFlight,
            Uncounted
      <4>4. MutexHeld'
        BY <2>16, <3>3, <2>T, <2>0, <2>a, <2>a2, <4>2
        DEF Lock, sems, TypeOK, Bit, CriticalSection
      <4>5. TokensConserved'
        BY <2>16, <3>3, <2>T, <2>0, <2>b, <2>b2, <4>2
        DEF Lock, sems, TypeOK, Bit, InFlight
      <4>6. RingConsistent'
        BY <2>16, <3>3, <2>T, <2>0, <2>b, <2>c, <4>2
        DEF Lock, sems, ring, TypeOK, Bit, RingConsistent, Place, Fold,
            Uncounted, InFlight
      <4> QED BY <4>3, <4>4, <4>5, <4>6
    <3> QED BY <3>0, <3>1, <3>2, <3>3
  <2> QED
    BY <1>2, <2>2, <2>3, <2>4, <2>5, <2>6, <2>7, <2>8, <2>9, <2>10, <2>11,
             <2>12, <2>13, <2>14, <2>15, <2>16 DEF Step
<1> QED BY <1>1, <1>2 DEF Next

(* The POSIX queue keeps its types, its mutex excludes, no token is lost   *)
(* or duplicated and the ring pointers enclose exactly the stored items,   *)
(* for every capacity and any finite set of tasks.                         *)
THEOREM QueueInvariant == Spec => []IInv
<1>1. Init => IInv BY InitInv
<1>2. IInv /\ [Next]_vars => IInv' BY StepInv
<1> QED BY <1>1, <1>2, PTL DEF Spec

(* Type correctness of the queue.                                          *)
THEOREM QueueTypeCorrect == Spec => []TypeOK
<1>1. IInv => TypeOK BY DEF IInv
<1> QED BY <1>1, QueueInvariant, PTL

(* Semaphore accounting of simple_queue.c: every slot has one token.       *)
THEOREM QueueTokensConserved == Spec => []TokensConserved
<1>1. IInv => TokensConserved BY DEF IInv
<1> QED BY <1>1, QueueInvariant, PTL

(* The mutex of simple_queue.c excludes.                                   *)
THEOREM QueueMutex == Spec => []MutexHeld
<1>1. IInv => MutexHeld BY DEF IInv
<1> QED BY <1>1, QueueInvariant, PTL

(* The ring of simple_queue.c never holds more than Length items and its   *)
(* pointers enclose them.                                                  *)
THEOREM QueueRingConsistent == Spec => []RingConsistent
<1>1. IInv => RingConsistent BY DEF IInv
<1> QED BY <1>1, QueueInvariant, PTL

-----------------------------------------------------------------------------
(***************************************************************************)
(* Refinement: Contents, the items the ring pointers enclose, behaves as   *)
(* the abstract bounded FIFO.                                              *)
(***************************************************************************)

(* How many items are stored changes only where an item is written by an   *)
(* ordinary push or read by a pop.                                         *)
LEMMA StoredStep ==
  ASSUME IInv, NEW t \in Thread, BeginPush(t) \/ Step(t)
  PROVE  /\ Stored \in 0..Length
         /\ PushStore(t) => Stored' = Stored + 1 /\ Stored < Length
         /\ PopRead(t) => Stored' = Stored - 1 /\ Stored > 0
         /\ ~PushStore(t) /\ ~PopRead(t) => Stored' = Stored
<1> DEFINE nF == Cardinality(At(InFlight))
           nU == Cardinality(At(Uncounted))
<1>0. TypeOK /\ TokensConserved BY DEF IInv
<1>1. /\ nF \in Nat /\ nU \in Nat /\ nU <= nF
      /\ pc[t] \in InFlight \ Uncounted => nU + 1 <= nF
      /\ pc[t] \in Uncounted => nU >= 1
  BY CountBounds
<1>2. ASSUME NEW w \in PC, Goto(t, w)
      PROVE  nU' = nU + Bit(w \in Uncounted) - Bit(pc[t] \in Uncounted)
  <2>1. pc \in [Thread -> PC] BY <1>0 DEF TypeOK
  <2> QED BY <1>2, <2>1, CountMove
<1>3. Stored = sem_pop + nU /\ Stored' = sem_pop' + nU' BY DEF Stored
<1>4. sem_push + sem_pop + nF = Length BY <1>0 DEF TokensConserved
<1>5. sem_push \in Nat /\ sem_pop \in Nat /\ Length \in Nat
  BY <1>0, LengthAssumption DEF TypeOK
<1> HIDE DEF nF, nU
<1>6. Stored \in 0..Length BY <1>1, <1>3, <1>4, <1>5
<1>7. ASSUME PushStore(t) PROVE Stored' = Stored + 1 /\ Stored < Length
  <2>1. nU' = nU + 1
    BY <1>7, <1>1, <1>2 DEF PushStore, PC, Bit, Uncounted
  <2>2. nU + 1 <= nF BY <1>7, <1>1 DEF PushStore, InFlight, Uncounted
  <2> QED BY <2>1, <2>2, <1>1, <1>3, <1>4, <1>5, <1>7 DEF PushStore, sems
<1>8. ASSUME PopRead(t) PROVE Stored' = Stored - 1 /\ Stored > 0
  <2>1. nU' = nU - 1 /\ nU >= 1
    BY <1>8, <1>1, <1>2 DEF PopRead, PC, Bit, Uncounted
  <2> QED BY <2>1, <1>1, <1>3, <1>5, <1>8 DEF PopRead, sems
<1>9. ASSUME ~PushStore(t), ~PopRead(t) PROVE Stored' = Stored
  <2>1. CASE PushPost(t)
    <3>1. nU' = nU - 1 BY <2>1, <1>1, <1>2 DEF PushPost, PC, Bit, Uncounted
    <3> QED BY <2>1, <3>1, <1>1, <1>3, <1>5 DEF PushPost
  <2>2. CASE TakePop(t)
    <3>1. nU' = nU + 1 BY <2>2, <1>1, <1>2 DEF TakePop, PC, Bit, Uncounted
    <3> QED BY <2>2, <3>1, <1>1, <1>3, <1>5 DEF TakePop
  <2>3. CASE BeginPush(t) \/ TakePush(t) \/ PushTimeout(t)
             \/ FallBackToOverride(t) \/ OverStore(t) \/ BeginPop(t)
             \/ PopTimeout(t) \/ PopPost(t) \/ Unlock(t)
    <3>1. nU' = nU
      BY <2>3, <1>1, <1>2
      DEF BeginPush, TakePush, PushTimeout, FallBackToOverride, OverStore,
          BeginPop, PopTimeout, PopPost, Unlock, PC, Bit, Uncounted
    <3>2. sem_pop' = sem_pop
      BY <2>3
      DEF BeginPush, TakePush, PushTimeout, FallBackToOverride, OverStore,
          BeginPop, PopTimeout, PopPost, Unlock, sems
    <3> QED BY <3>1, <3>2, <1>3
  <2>4. CASE TryForce(t)
    <3>1. nU' = nU
      <4>1. CASE sem_push > 0
        BY <2>4, <4>1, <1>1, <1>2 DEF TryForce, PC, Bit, Uncounted
      <4>2. CASE ~(sem_push > 0)
        BY <2>4, <4>2, <1>1, <1>2 DEF TryForce, PC, Bit, Uncounted
      <4> QED BY <4>1, <4>2
    <3> QED BY <2>4, <3>1, <1>3 DEF TryForce
  <2>5. CASE Lock(t)
    <3>1. nU' = nU
      <4>0. pc[t] \in {"push_lock", "over_lock", "pop_lock"}
        BY <2>5 DEF Lock, AfterLock
      <4>1. CASE pc[t] = "push_lock"
        BY <2>5, <4>1, <1>1, <1>2 DEF Lock, AfterLock, PC, Bit, Uncounted
      <4>2. CASE pc[t] = "over_lock"
        BY <2>5, <4>2, <1>1, <1>2 DEF Lock, AfterLock, PC, Bit, Uncounted
      <4>3. CASE pc[t] = "pop_lock"
        BY <2>5, <4>3, <1>1, <1>2 DEF Lock, AfterLock, PC, Bit, Uncounted
      <4> QED BY <4>0, <4>1, <4>2, <4>3
    <3> QED BY <2>5, <3>1, <1>3 DEF Lock
  <2> QED BY <2>1, <2>2, <2>3, <2>4, <2>5, <1>9 DEF Step
<1> QED BY <1>6, <1>7, <1>8, <1>9

(* The ring between its two pointers reads as a sequence of items.        *)
LEMMA ContentsSeq ==
  ASSUME IInv, Stored \in 0..Length
  PROVE  /\ Contents \in Seq(Item)
         /\ Len(Contents) = Stored
         /\ \A i \in 1..Stored : Contents[i] = slots[Place(current_start, i)]
                                 /\ Place(current_start, i) \in 0..(Length - 1)
<1>1. TypeOK BY DEF IInv
<1>2. \A i \in 1..Stored : Place(current_start, i) \in 0..(Length - 1)
  BY <1>1, LengthAssumption DEF TypeOK, Place, Fold
<1>3. Contents = [i \in 1..Stored |-> slots[Place(current_start, i)]]
  BY DEF Contents
<1>4. \A i \in 1..Stored : slots[Place(current_start, i)] \in Item BY <1>1, <1>2 DEF TypeOK
<1>5. Stored \in Nat BY LengthAssumption
<1> HIDE DEF Contents, Stored
<1>6. Contents \in [1..Stored -> Item] BY <1>3, <1>4
<1>7. Contents \in Seq(Item) BY <1>5, <1>6
<1>8. Len(Contents) = Stored BY <1>5, <1>3
<1> QED BY <1>2, <1>3, <1>7, <1>8

(* Every step of the queue is a step of the abstract queue or leaves it    *)
(* unchanged.  An override that finds the queue emptied since its          *)
(* sem_trywait is the stuttering case.                                     *)
LEMMA StepRefines ==
  ASSUME IInv, IInv', NEW t \in Thread, BeginPush(t) \/ Step(t)
  PROVE  \/ \E x \in Item : Abstract!Put(x) \/ Abstract!Replace(x)
         \/ Abstract!Get(t)
         \/ UNCHANGED <<Contents, buffer>>
<1>0. TypeOK /\ RingConsistent /\ TypeOK' BY DEF IInv
<1>1. /\ Stored \in 0..Length
      /\ PushStore(t) => Stored' = Stored + 1 /\ Stored < Length
      /\ PopRead(t) => Stored' = Stored - 1 /\ Stored > 0
      /\ ~PushStore(t) /\ ~PopRead(t) => Stored' = Stored
  BY StoredStep
<1>2. Contents = [i \in 1..Stored |-> slots[Place(current_start, i)]]
  BY DEF Contents
<1>3. Contents' = [i \in 1..Stored' |-> slots'[Place(current_start', i)]]
  BY DEF Contents
<1>4. /\ Contents \in Seq(Item) /\ Len(Contents) = Stored
      /\ \A i \in 1..Stored : Place(current_start, i) \in 0..(Length - 1)
  BY <1>1, ContentsSeq
<1>5. item[t] \in Item BY <1>0 DEF TypeOK
<1>6. Stored <= Length /\ Fold(current_end) = Place(current_start, Stored + 1)
  BY <1>0 DEF RingConsistent
<1> HIDE DEF Contents, Stored
<1>7. CASE PushStore(t)
  <2>1. \A i \in 1..(Stored + 1) : Place(current_start', i) = Place(current_start, i)
    BY <1>7 DEF PushStore, Place, Fold
  <2>2. Place(current_start, Stored + 1) = Fold(current_end)
    BY <1>0, <1>1, <1>6, <1>7, LengthAssumption DEF Place, Fold, TypeOK
  <2>3. \A i \in 1..Stored : Place(current_start, i) # Fold(current_end)
    BY <1>0, <1>1, <1>6, <1>7, LengthAssumption DEF Place, Fold, TypeOK
  <2>4. Fold(current_end) \in 0..(Length - 1)
    BY <1>0, LengthAssumption DEF Fold, TypeOK
  <2>5. \A i \in 1..Stored : slots'[Place(current_start', i)] = slots[Place(current_start, i)]
    BY <1>0, <1>1, <1>4, <1>7, <2>1, <2>3 DEF PushStore, TypeOK
  <2>6. slots'[Place(current_start', Stored + 1)] = item[t]
    BY <1>0, <1>1, <1>7, <2>1, <2>2, <2>4 DEF PushStore, TypeOK
  <2>7. Contents' = Append(Contents, item[t])
    <3>1. Contents' = [i \in 1..(Stored + 1) |-> slots'[Place(current_start', i)]]
      BY <1>1, <1>3, <1>7
    <3>2. Append(Contents, item[t])
            = [i \in 1..(Stored + 1) |->
                 IF i = Stored + 1 THEN item[t] ELSE Contents[i]]
      BY <1>1, <1>4, <1>5
    <3>3. ASSUME NEW i \in 1..(Stored + 1)
          PROVE  slots'[Place(current_start', i)] = IF i = Stored + 1 THEN item[t]
                                                       ELSE Contents[i]
      BY <1>1, <1>2, <2>5, <2>6
    <3> QED BY <3>1, <3>2, <3>3
  <2> QED BY <1>1, <1>4, <1>5, <1>7, <2>7 DEF Abstract!Put, PushStore
<1>8. CASE PopRead(t)
  <2>1. Contents # <<>> /\ 1 \in 1..Stored BY <1>1, <1>4, <1>8
  <2>2. Place(current_start, 1) = Fold(current_start)
    BY <1>0, LengthAssumption DEF Place, Fold, TypeOK
  <2>3. Head(Contents) = slots[Fold(current_start)]
    BY <1>2, <2>1, <2>2
  <2>4. buffer' = [buffer EXCEPT ![t] = Head(Contents)]
    BY <1>8, <2>3 DEF PopRead
  <2>5. \A i \in 1..(Stored - 1) : Place(current_start', i) = Place(current_start, i + 1)
    BY <1>0, <1>1, <1>8, LengthAssumption
    DEF PopRead, Place, Fold, increment, TypeOK
  <2>6. Contents' = Tail(Contents)
    <3>1. Contents' = [i \in 1..(Stored - 1) |-> slots[Place(current_start, i + 1)]]
      BY <1>1, <1>3, <1>8, <2>5 DEF PopRead
    <3>2. Tail(Contents) = [i \in 1..(Stored - 1) |-> Contents[i + 1]]
      <4>1. /\ Tail(Contents) \in Seq(Item)
            /\ Len(Tail(Contents)) = Stored - 1
            /\ \A i \in 1..(Stored - 1) : Tail(Contents)[i] = Contents[i + 1]
        BY <1>4, <2>1, HeadTailProperties
      <4>2. Stored - 1 \in Nat BY <1>1, <1>8
      <4>3. Tail(Contents) \in [1..(Stored - 1) -> Item]
        BY <4>1, LenProperties
      <4> QED BY <4>1, <4>3
    <3>3. \A i \in 1..(Stored - 1) : Contents[i + 1] = slots[Place(current_start, i + 1)]
      BY <1>1, <1>2
    <3> QED BY <3>1, <3>2, <3>3
  <2> QED BY <2>1, <2>4, <2>6 DEF Abstract!Get
<1>9. CASE OverStore(t)
  <2>0. Stored' = Stored BY <1>1, <1>9 DEF OverStore, PushStore, PopRead
  <2>1. \A i \in 1..Stored : Place(current_start', i) = Place(current_start, i)
    BY <1>9 DEF OverStore, Place, Fold
  <2>2. UNCHANGED buffer BY <1>9 DEF OverStore
  <2>3. CASE Stored = 0
    <3>1. Contents' = Contents BY <1>2, <1>3, <2>0, <2>3
    <3> QED BY <3>1, <2>2
  <2>4. CASE Stored # 0
    <3>1. Place(current_start, Stored) = decrement(current_end)
      BY <1>0, <1>1, <1>6, <2>4, LengthAssumption
      DEF Place, Fold, decrement, TypeOK
    <3>2. \A i \in 1..Stored : i # Stored => Place(current_start, i) # Place(current_start, Stored)
      BY <1>0, <1>1, <1>6, <2>4, LengthAssumption DEF Place, Fold, TypeOK
    <3>3. \A i \in 1..Stored :
            slots'[Place(current_start', i)] = IF i = Stored THEN item[t] ELSE slots[Place(current_start, i)]
      BY <1>0, <1>4, <1>9, <2>1, <3>1, <3>2 DEF OverStore, TypeOK
    <3>4. Contents' = [Contents EXCEPT ![Stored] = item[t]]
      BY <1>1, <1>2, <1>3, <2>0, <2>4, <3>3
    <3>5. Contents # <<>> BY <1>1, <1>4, <2>4
    <3>6. Abstract!Replace(item[t])
      BY <1>4, <2>2, <3>4, <3>5 DEF Abstract!Replace
    <3> QED BY <3>6, <1>5
  <2> QED BY <2>3, <2>4
<1>10. CASE ~PushStore(t) /\ ~PopRead(t) /\ ~OverStore(t)
  <2>1. UNCHANGED <<slots, current_start, buffer>>
    BY <1>10
    DEF Step, BeginPush, TakePush, PushTimeout, FallBackToOverride, TryForce,
        PushPost, BeginPop, TakePop, PopTimeout, PopPost, Lock, Unlock, ring
  <2>2. Stored' = Stored BY <1>1, <1>10
  <2>3. Contents' = Contents BY <1>2, <1>3, <2>1, <2>2 DEF Place, Fold
  <2> QED BY <2>1, <2>3
<1> QED BY <1>7, <1>8, <1>9, <1>10

(* simple_queue.c implements the bounded FIFO queue that hal_queue.h       *)
(* describes, for every capacity and any finite set of tasks.              *)
THEOREM QueueRefinement == Spec => ImplementsBoundedQueue
<1>1. Init => Abstract!Init
  <2> SUFFICES ASSUME Init PROVE Abstract!Init
    OBVIOUS
  <2>1. IInv BY InitInv
  <2>2. At(Uncounted) = {} BY DEF Init, At, Uncounted
  <2>3. Stored = 0 BY <2>2, FS_EmptySet DEF Init, Stored
  <2>4. Contents = <<>> BY <2>3 DEF Contents
  <2>5. buffer \in [Thread -> Item] BY <2>1 DEF IInv, TypeOK
  <2> QED BY <2>4, <2>5 DEF Abstract!Init
<1>2. IInv /\ IInv' /\ [Next]_vars => [Abstract!Next]_(Abstract!vars)
  <2> SUFFICES ASSUME IInv, IInv', [Next]_vars
               PROVE  Abstract!Next \/ UNCHANGED <<Contents, buffer>>
    BY DEF Abstract!vars
  <2>1. CASE UNCHANGED vars
    BY <2>1 DEF vars, Contents, Stored, At, Place, Fold
  <2>2. ASSUME NEW t \in Thread, BeginPush(t) \/ Step(t)
        PROVE  Abstract!Next \/ UNCHANGED <<Contents, buffer>>
    BY <2>2, StepRefines DEF Abstract!Next
  <2> QED BY <2>1, <2>2 DEF Next
<1> QED
  BY <1>1, <1>2, QueueInvariant, PTL DEF Spec, ImplementsBoundedQueue, Abstract!Spec
=============================================================================
