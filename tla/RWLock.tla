------------------------------- MODULE RWLock --------------------------------
(***************************************************************************)
(* The reader-writer spin lock of rwlock.h (the build without              *)
(* USE_PTHREAD_LOCK), which guards the handle table.  A step is one atomic *)
(* instruction or one read of a lock word; a thread may lock and unlock    *)
(* again and again, for reading or for writing.                            *)
(***************************************************************************)
EXTENDS Integers, FiniteSets

CONSTANT Thread

ASSUME ThreadAssumption == IsFiniteSet(Thread)

VARIABLES
    write, read,    \* the two words of struct rwlock
    pc              \* where a thread is in rwlock_rlock or rwlock_wlock

vars == <<write, read, pc>>

Goto(t, l) == pc' = [pc EXCEPT ![t] = l]

(* A thread calls rwlock_rlock or rwlock_wlock. *)
Call(t) ==
    /\ pc[t] = "idle"
    /\ Goto(t, "rspin") \/ Goto(t, "wspin")
    /\ UNCHANGED <<write, read>>

(* Deliberately wrong variants (RSpinNever, RTestNever, RBackKeep): replacing
   the operator by its variant must break a property.                      *)
RSpinNever(t) ==
    /\ pc[t] = "rspin"
    /\ Goto(t, "rinc")
    /\ UNCHANGED <<write, read>>

(* while (lock->write) *)
RSpin(t) ==
    /\ pc[t] = "rspin"
    /\ write = 0
    /\ Goto(t, "rinc")
    /\ UNCHANGED <<write, read>>

RInc(t) ==
    /\ pc[t] = "rinc"
    /\ read' = read + 1
    /\ Goto(t, "rtest")
    /\ UNCHANGED write

RTestNever(t) ==
    /\ pc[t] = "rtest"
    /\ Goto(t, "reading")
    /\ UNCHANGED <<write, read>>

(* if (lock->write), read again after the increment: a writer that came in
   between goes first.                                                     *)
RTest(t) ==
    /\ pc[t] = "rtest"
    /\ Goto(t, IF write = 0 THEN "reading" ELSE "rback")
    /\ UNCHANGED <<write, read>>

RBackKeep(t) ==
    /\ pc[t] = "rback"
    /\ Goto(t, "rspin")
    /\ UNCHANGED <<write, read>>

RBack(t) ==
    /\ pc[t] = "rback"
    /\ read' = read - 1
    /\ Goto(t, "rspin")
    /\ UNCHANGED write

RUnlock(t) ==
    /\ pc[t] = "reading"
    /\ read' = read - 1
    /\ Goto(t, "idle")
    /\ UNCHANGED write

(* __sync_lock_test_and_set returned 0. *)
WSpin(t) ==
    /\ pc[t] = "wspin"
    /\ write = 0
    /\ write' = 1
    /\ Goto(t, "wdrain")
    /\ UNCHANGED read

(* while (lock->read) *)
WDrain(t) ==
    /\ pc[t] = "wdrain"
    /\ read = 0
    /\ Goto(t, "writing")
    /\ UNCHANGED <<write, read>>

WUnlock(t) ==
    /\ pc[t] = "writing"
    /\ write' = 0
    /\ Goto(t, "idle")
    /\ UNCHANGED read

Step(t) ==
    \/ RSpin(t) \/ RInc(t) \/ RTest(t) \/ RBack(t) \/ RUnlock(t)
    \/ WSpin(t) \/ WDrain(t) \/ WUnlock(t)

Init ==
    /\ write = 0 /\ read = 0
    /\ pc = [t \in Thread |-> "idle"]

Next == \E t \in Thread : Call(t) \/ Step(t)

(* A thread that runs inside the lock, or spins on it, keeps running. *)
Spec == Init /\ [][Next]_vars /\ \A t \in Thread : WF_vars(Step(t))

-----------------------------------------------------------------------------
(* Properties *)

(* Every variable has its type. *)
TypeOK ==
    /\ write \in {0, 1}
    /\ read \in Nat
    /\ pc \in [Thread -> {"idle", "rspin", "rinc", "rtest", "rback", "reading",
                          "wspin", "wdrain", "writing"}]

(* A writer is alone: no second writer, and no reader, is inside, although a
   reader announces itself and looks for writers in two steps.             *)
Exclusion ==
    \A t, u \in Thread :
        pc[t] = "writing" /\ t # u => pc[u] \notin {"writing", "reading"}

(* A writer that has set the write word gets in: later readers turn back,
   and none of them keeps the read count up for ever.                      *)
WriterEnters == \A t \in Thread : pc[t] = "wdrain" ~> pc[t] = "writing"

(* The threads counted in the read word, and those behind the write word. *)
Counted == {t \in Thread : pc[t] \in {"rtest", "rback", "reading"}}
Writers == {t \in Thread : pc[t] \in {"wdrain", "writing"}}

(* The inductive invariant behind Exclusion. *)
LockInv ==
    /\ TypeOK
    /\ read = Cardinality(Counted)
    /\ write = 0 => Writers = {}
    /\ \A t, u \in Writers : t = u
    /\ Exclusion
=============================================================================
