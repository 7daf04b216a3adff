---------------------------- MODULE RWLock_proofs ----------------------------
(***************************************************************************)
(* The lock of rwlock.h keeps writers alone, for any number of threads.    *)
(* The invariant needs the read word to be the exact number of threads     *)
(* that have announced themselves, so that a writer that reads 0 knows     *)
(* that no reader is inside, and the write word to have one owner.         *)
(***************************************************************************)
EXTENDS RWLock, FiniteSetTheorems, TLAPS

(* The threads counted in the read word are finitely many. *)
LEMMA CountedFinite ==
    ASSUME LockInv
    PROVE  IsFiniteSet(Counted) /\ Cardinality(Counted) \in Nat
<1>1. Counted \subseteq Thread
  BY DEF Counted
<1>2. IsFiniteSet(Counted)
  BY <1>1, FS_Subset, ThreadAssumption
<1> QED
  BY <1>2, FS_CardinalityType

(* One thread joins the counted ones, and read grows by one. *)
LEMMA CountedJoins ==
    ASSUME LockInv, NEW t \in Thread, t \notin Counted,
           Counted' = Counted \cup {t}, read' = read + 1
    PROVE  read' = Cardinality(Counted)' /\ read' \in Nat
<1>1. IsFiniteSet(Counted) /\ Cardinality(Counted) \in Nat
  BY CountedFinite
<1>2. Cardinality(Counted \cup {t}) = Cardinality(Counted) + 1
  BY <1>1, FS_AddElement
<1> QED
  BY <1>1, <1>2 DEF LockInv

(* One thread leaves the counted ones, and read shrinks by one. *)
LEMMA CountedLeaves ==
    ASSUME LockInv, NEW t \in Counted,
           Counted' = Counted \ {t}, read' = read - 1
    PROVE  read' = Cardinality(Counted)' /\ read' \in Nat
<1>1. IsFiniteSet(Counted) /\ Cardinality(Counted) \in Nat
  BY CountedFinite
<1>2. IsFiniteSet(Counted \ {t}) /\ Cardinality(Counted \ {t}) = Cardinality(Counted) - 1
  BY <1>1, FS_RemoveElement
<1>3. Cardinality(Counted \ {t}) \in Nat
  BY <1>2, FS_CardinalityType
<1> QED
  BY <1>2, <1>3 DEF LockInv

(* The read word is zero only when nobody is counted. *)
LEMMA NobodyCounted ==
    ASSUME LockInv, read = 0
    PROVE  Counted = {}
<1>1. IsFiniteSet(Counted)
  BY CountedFinite
<1> QED
  BY <1>1, FS_EmptySet DEF LockInv

(* LockInv holds initially. *)
LEMMA LockInvInit == Init => LockInv
<1> SUFFICES ASSUME Init PROVE LockInv
  OBVIOUS
<1>1. Counted = {} /\ Writers = {}
  BY DEF Init, Counted, Writers
<1>2. Cardinality(Counted) = 0
  BY <1>1, FS_EmptySet
<1> QED
  BY <1>1, <1>2 DEF Init, LockInv, TypeOK, Exclusion

(* Every step of every thread preserves LockInv. *)
LEMMA LockInvStep == LockInv /\ [Next]_vars => LockInv'
<1> SUFFICES ASSUME LockInv, [Next]_vars PROVE LockInv'
  OBVIOUS
<1> USE DEF Goto
<1>1. ASSUME NEW t \in Thread, Call(t) PROVE LockInv'
  <2>1. Counted' = Counted /\ Writers' = Writers
    BY <1>1 DEF LockInv, TypeOK, Call, Counted, Writers
  <2> QED
    BY <1>1, <2>1 DEF LockInv, TypeOK, Exclusion, Call
<1>2. ASSUME NEW t \in Thread, RSpin(t) PROVE LockInv'
  <2>1. Counted' = Counted /\ Writers' = Writers
    BY <1>2 DEF LockInv, TypeOK, RSpin, Counted, Writers
  <2> QED
    BY <1>2, <2>1 DEF LockInv, TypeOK, Exclusion, RSpin
<1>3. ASSUME NEW t \in Thread, RInc(t) PROVE LockInv'
  <2>1. t \notin Counted /\ Counted' = Counted \cup {t} /\ Writers' = Writers
    BY <1>3 DEF LockInv, TypeOK, RInc, Counted, Writers
  <2>2. read' = Cardinality(Counted)' /\ read' \in Nat
    BY <1>3, <2>1, CountedJoins DEF RInc
  <2> QED
    BY <1>3, <2>1, <2>2 DEF LockInv, TypeOK, Exclusion, RInc
<1>4. ASSUME NEW t \in Thread, RTest(t) PROVE LockInv'
  <2>1. Counted' = Counted /\ Writers' = Writers
    BY <1>4 DEF LockInv, TypeOK, RTest, Counted, Writers
  <2>2. TypeOK'
    BY <1>4 DEF LockInv, TypeOK, RTest
  <2>3. ASSUME NEW u \in Thread, pc[u] = "writing" PROVE write # 0
    BY <2>3 DEF LockInv, Writers
  <2>4. Exclusion'
    BY <1>4, <2>3 DEF LockInv, TypeOK, Exclusion, RTest
  <2> QED
    BY <1>4, <2>1, <2>2, <2>4 DEF LockInv, RTest
<1>5. ASSUME NEW t \in Thread, RBack(t) PROVE LockInv'
  <2>1. t \in Counted /\ Counted' = Counted \ {t} /\ Writers' = Writers
    BY <1>5 DEF LockInv, TypeOK, RBack, Counted, Writers
  <2>2. read' = Cardinality(Counted)' /\ read' \in Nat
    BY <1>5, <2>1, CountedLeaves DEF RBack
  <2> QED
    BY <1>5, <2>1, <2>2 DEF LockInv, TypeOK, Exclusion, RBack
<1>6. ASSUME NEW t \in Thread, RUnlock(t) PROVE LockInv'
  <2>1. t \in Counted /\ Counted' = Counted \ {t} /\ Writers' = Writers
    BY <1>6 DEF LockInv, TypeOK, RUnlock, Counted, Writers
  <2>2. read' = Cardinality(Counted)' /\ read' \in Nat
    BY <1>6, <2>1, CountedLeaves DEF RUnlock
  <2> QED
    BY <1>6, <2>1, <2>2 DEF LockInv, TypeOK, Exclusion, RUnlock
<1>7. ASSUME NEW t \in Thread, WSpin(t) PROVE LockInv'
  <2>1. Counted' = Counted /\ Writers = {} /\ Writers' = {t}
    BY <1>7 DEF LockInv, TypeOK, WSpin, Counted, Writers
  <2> QED
    BY <1>7, <2>1 DEF LockInv, TypeOK, Exclusion, WSpin
<1>8. ASSUME NEW t \in Thread, WDrain(t) PROVE LockInv'
  <2>1. Counted' = Counted /\ Writers' = Writers /\ t \in Writers
    BY <1>8 DEF LockInv, TypeOK, WDrain, Counted, Writers
  <2>2. Counted = {}
    BY <1>8, NobodyCounted DEF WDrain
  <2>3. ASSUME NEW u \in Thread, u # t PROVE pc[u] \notin {"writing", "reading"}
    BY <2>1, <2>2, <2>3 DEF LockInv, Counted, Writers
  <2>4. Exclusion'
    BY <1>8, <2>3 DEF LockInv, TypeOK, Exclusion, WDrain
  <2> QED
    BY <1>8, <2>1, <2>4 DEF LockInv, TypeOK, WDrain
<1>9. ASSUME NEW t \in Thread, WUnlock(t) PROVE LockInv'
  <2>1. Counted' = Counted /\ Writers' = {}
    BY <1>9 DEF LockInv, TypeOK, WUnlock, Counted, Writers
  <2> QED
    BY <1>9, <2>1 DEF LockInv, TypeOK, Exclusion, WUnlock
<1>10. CASE UNCHANGED vars
  <2>1. Counted' = Counted /\ Writers' = Writers
    BY <1>10 DEF vars, Counted, Writers
  <2> QED
    BY <1>10, <2>1 DEF LockInv, TypeOK, Exclusion, vars
<1> QED
  BY <1>1, <1>2, <1>3, <1>4, <1>5, <1>6, <1>7, <1>8, <1>9, <1>10 DEF Next, Step

(* LockInv is an invariant of the lock. *)
THEOREM LockInvariant == Spec => []LockInv
  BY LockInvInit, LockInvStep, PTL DEF Spec

(* rwlock_wlock gives its caller the table alone, for any number of threads
   locking and unlocking in any order.                                     *)
THEOREM MutualExclusion == Spec => []Exclusion
<1>1. LockInv => Exclusion
  BY DEF LockInv
<1> QED
  BY <1>1, LockInvariant, PTL
=============================================================================
