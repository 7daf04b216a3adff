----------------------- MODULE SkynetServer_proofs --------------------------
(***************************************************************************)
(* The inductive invariant of SkynetServer, and the theorems that follow   *)
(* from it, in three parts.                                                *)
(*                                                                         *)
(* Every step preserves TypeOK and Control: types, and the rule that a     *)
(* thread's place determines which of its variables are in use.  Alone(t)  *)
(* says that a step of thread t leaves the other threads' own variables as *)
(* they are; most later arguments use it.                                  *)
(*                                                                         *)
(* Every step preserves RefExact.  A step that changes ctx->ref lets one   *)
(* thread join or leave one set of holders; a step that passes a reference *)
(* on moves the thread from one set to another.                            *)
(*                                                                         *)
(* A queue is moved between the global queue and the hands of workers (the *)
(* Place lemmas); a push or a mark enters the queue exactly when nobody    *)
(* has it, which is what FlagExact is needed for, and the queue pushed to  *)
(* is allocated and not marked, which is what RefExact and Lifetime are    *)
(* needed for.                                                             *)
(***************************************************************************)
EXTENDS SkynetServer, FiniteSetTheorems, SequenceTheorems, TLAPS

(* skynet_mq_push keeps the types of queue, flag and global queue. *)
LEMMA MqPushType ==
    ASSUME TypeOK, NEW c \in Ctx, NEW m \in Message, MqPush(c, m)
    PROVE  /\ queue' \in [Ctx -> Seq(Message)]
           /\ in_global' \in [Ctx -> BOOLEAN]
           /\ gmq' \in Seq(Ctx)
<1>1. Append(queue[c], m) \in Seq(Message) /\ Append(gmq, c) \in Seq(Ctx)
  BY AppendProperties DEF TypeOK
<1> QED
  BY <1>1 DEF TypeOK, MqPush

(* The grab of skynet_context_push keeps the types. *)
LEMMA StartPushType ==
    ASSUME TypeOK, NEW t \in Thread, NEW c, NEW m \in Message, StartPush(t, c, m)
    PROVE  /\ ref' \in [Ctx -> Int]
           /\ sop' \in [Thread -> {"none", "push", "rel", "mark", "free"}]
           /\ sto' \in [Thread -> Ctx \cup {NULL}]
           /\ smsg' \in [Thread -> Message \cup {NULL}]
<1>1. CASE c \in slot
  <2>1. c \in Ctx /\ ref[c] + 1 \in Int
    BY <1>1 DEF TypeOK
  <2>2. ref' \in [Ctx -> Int]
    BY <1>1, <2>1 DEF TypeOK, StartPush
  <2> QED
    BY <1>1, <2>1, <2>2 DEF TypeOK, StartPush
<1>2. CASE c \notin slot
  BY <1>2 DEF TypeOK, StartPush, subVars
<1> QED
  BY <1>1, <1>2

(* Starting skynet_context_release keeps the types. *)
LEMMA StartReleaseType ==
    ASSUME TypeOK, NEW t \in Thread, NEW c \in Ctx, StartRelease(t, c)
    PROVE  /\ sop' \in [Thread -> {"none", "push", "rel", "mark", "free"}]
           /\ sto' \in [Thread -> Ctx \cup {NULL}]
           /\ smsg' \in [Thread -> Message \cup {NULL}]
  BY DEF TypeOK, StartRelease

(* skynet_handle_retire keeps the types. *)
LEMMA TakeOutType ==
    ASSUME TypeOK, NEW t \in Thread, NEW c, TakeOut(t, c)
    PROVE  /\ slot' \subseteq Ctx
           /\ sop' \in [Thread -> {"none", "push", "rel", "mark", "free"}]
           /\ sto' \in [Thread -> Ctx \cup {NULL}]
           /\ smsg' \in [Thread -> Message \cup {NULL}]
<1>1. CASE c \in slot
  <2>1. c \in Ctx
    BY <1>1 DEF TypeOK
  <2> QED
    BY <1>1, <2>1, StartReleaseType DEF TypeOK, TakeOut
<1>2. CASE c \notin slot
  BY <1>2 DEF TypeOK, TakeOut, subVars
<1> QED
  BY <1>1, <1>2

(* Leaving a shared routine keeps the types. *)
LEMMA EndSubType ==
    ASSUME TypeOK, NEW t \in Thread, EndSub(t)
    PROVE  /\ sop' \in [Thread -> {"none", "push", "rel", "mark", "free"}]
           /\ sto' \in [Thread -> Ctx \cup {NULL}]
  BY DEF TypeOK, EndSub

(* Going to a place keeps the type of pc. *)
LEMMA GotoType ==
    ASSUME TypeOK, NEW t \in Thread, NEW l \in PC, Goto(t, l)
    PROVE  pc' \in [Thread -> PC]
  BY DEF TypeOK, Goto

(* What a worker has in hand where it is. *)
LEMMA InHand ==
    ASSUME TypeOK, Control, NEW t \in Worker
    PROVE  /\ t \in Thread
           /\ pc[t] # "fetch" => q[t] \in Ctx
           /\ pc[t] \in {"mqrel", "drop"} => Dying(t) \in Ctx
           /\ pc[t] \in {"pop", "len", "call", "next", "back", "relctx", "init"} => ctx[t] \in Ctx
           /\ pc[t] \in {"init", "setinit", "pushq", "fail"} => new[t] \in Ctx
           /\ pc[t] = "back" => nq[t] \in Ctx
           /\ pc[t] = "call" => left[t] \in Nat
           /\ pc[t] \in {"call", "init"} => Sender(t) \in Ctx
  BY DEF TypeOK, Control, SubControl, WorkerControl, Thread, Dying, Sender

(* Leaving a dying queue keeps the types. *)
LEMMA LeaveDyingType ==
    ASSUME TypeOK, NEW t \in Worker, LeaveDying(t)
    PROVE  /\ q' \in [Worker -> Ctx \cup {NULL}]
           /\ new' \in [Worker -> Ctx \cup {NULL}]
           /\ pc' \in [Thread -> PC]
<1>1. CASE new[t] # NULL
  BY <1>1, GotoType DEF TypeOK, LeaveDying, PC, Thread
<1>2. CASE new[t] = NULL
  BY <1>2, GotoType DEF TypeOK, LeaveDying, PC, Thread
<1> QED
  BY <1>1, <1>2

(* Messages are built as messages. *)
LEMMA MessageType ==
    ASSUME TypeOK, NEW c \in Ctx \cup {NULL}
    PROVE  /\ Data(c) \in Message
           /\ [src |-> c, id |-> 0, kind |-> "exit"] \in Message
           /\ \A m \in Message : [src |-> c, id |-> m.id, kind |-> "error"] \in Message
  BY DEF TypeOK, Data, Message

(* The number of messages a round still may take is a natural number. *)
LEMMA LengthLeft ==
    ASSUME TypeOK, Control, NEW t \in Worker, Length(t)
    PROVE  \E k \in Nat : left' = [left EXCEPT ![t] = k]
<1> DEFINE n == IF Weight[t] < 0 THEN 1
                ELSE ShiftRight(Len(queue[q[t]]), Weight[t])
           k == IF n > 1 THEN n - 1 ELSE 0
<1>1. q[t] \in Ctx
  BY InHand DEF Length, At
<1>2. Len(queue[q[t]]) \in Nat
  BY <1>1, LenProperties DEF TypeOK
<1>3. Weight[t] >= 0 => ShiftRight(Len(queue[q[t]]), Weight[t]) \in Int
  BY <1>2, NumbersAssumption DEF ShiftRight
<1>4. n \in Int
  BY <1>3, NumbersAssumption
<1>5. k \in Nat
  <2> HIDE DEF n
  <2> QED
    BY <1>4
<1>6. left' = [left EXCEPT ![t] = k]
  BY DEF Length
<1> HIDE DEF k
<1> QED
  BY <1>5, <1>6

(* Every step preserves the types. *)
LEMMA TypeStep == ServerInv /\ [Next]_vars => TypeOK'
<1> SUFFICES ASSUME TypeOK, Control, [Next]_vars PROVE TypeOK'
  BY DEF ServerInv
<1> USE DEF At, ctxVars, queueVars, dispVars, cmdVars, subVars
<1>1. ASSUME NEW t \in Thread, DoPush(t) PROVE TypeOK'
  <2>1. sto[t] \in Ctx /\ smsg[t] \in Message
    BY <1>1 DEF TypeOK, Control, SubControl, WorkerControl, DoPush
  <2>2. /\ queue' \in [Ctx -> Seq(Message)]
        /\ in_global' \in [Ctx -> BOOLEAN]
        /\ gmq' \in Seq(Ctx)
    BY <1>1, <2>1, MqPushType DEF DoPush
  <2> QED
    BY <1>1, <2>2 DEF TypeOK, DoPush
<1>2. ASSUME NEW t \in Thread, DoRelease(t) PROVE TypeOK'
  <2>1. sto[t] \in Ctx
    BY <1>2 DEF TypeOK, Control, SubControl, WorkerControl, DoRelease
  <2>2. ref' \in [Ctx -> Int]
    BY <1>2, <2>1 DEF TypeOK, DoRelease
  <2>3. CASE ref[sto[t]] = 1
    BY <1>2, <2>2, <2>3 DEF TypeOK, DoRelease
  <2>4. CASE ref[sto[t]] # 1
    BY <1>2, <2>2, <2>4, EndSubType DEF TypeOK, DoRelease
  <2> QED
    BY <2>3, <2>4
<1>3. ASSUME NEW t \in Thread, DoMark(t) PROVE TypeOK'
  <2>1. sto[t] \in Ctx
    BY <1>3 DEF TypeOK, Control, SubControl, WorkerControl, DoMark
  <2>2. Append(gmq, sto[t]) \in Seq(Ctx)
    BY <2>1, AppendProperties DEF TypeOK
  <2>3. gmq' \in Seq(Ctx) /\ release' \in [Ctx -> BOOLEAN]
    BY <1>3, <2>1, <2>2 DEF TypeOK, DoMark, MqMarkRelease
  <2> QED
    BY <1>3, <2>3 DEF TypeOK, DoMark
<1>4. ASSUME NEW t \in Thread, DoFree(t) PROVE TypeOK'
  <2>1. total' \in Int
    BY <1>4 DEF TypeOK, DoFree
  <2>2. mem' \in [Ctx -> Memory]
    BY <1>4 DEF TypeOK, DoFree, Memory
  <2> QED
    BY <1>4, <2>1, <2>2, EndSubType DEF TypeOK, DoFree
<1>5. ASSUME NEW t \in Worker, Fetch(t) PROVE TypeOK'
  <2>1. Head(gmq) \in Ctx /\ gmq' \in Seq(Ctx)
    BY <1>5, HeadTailProperties DEF TypeOK, Fetch
  <2>2. pc' \in [Thread -> PC]
    BY <1>5, GotoType, InHand DEF Fetch, PC
  <2> QED
    BY <1>5, <2>1, <2>2 DEF TypeOK, Fetch
<1>6. ASSUME NEW t \in Worker, Grab(t) PROVE TypeOK'
  <2>1. t \in Thread /\ q[t] \in Ctx /\ ref[q[t]] + 1 \in Int
    BY <1>6, InHand DEF TypeOK, Grab
  <2>2. pc' \in [Thread -> PC]
    BY <1>6, <2>1, GotoType DEF Grab, PC
  <2>3. CASE q[t] \in slot
    <3>1. ref' \in [Ctx -> Int] /\ ctx' \in [Worker -> Ctx \cup {NULL}]
      BY <1>6, <2>1, <2>3 DEF TypeOK, Grab
    <3> QED
      BY <1>6, <2>2, <3>1 DEF TypeOK, Grab
  <2>4. CASE q[t] \notin slot
    BY <1>6, <2>2, <2>4 DEF TypeOK, Grab
  <2> QED
    BY <2>3, <2>4
<1>7. ASSUME NEW t \in Worker, MqRelease(t) PROVE TypeOK'
  <2>1. t \in Thread /\ Dying(t) \in Ctx
    BY <1>7, InHand DEF MqRelease
  <2>2. CASE release[Dying(t)]
    <3>1. pc' \in [Thread -> PC]
      BY <1>7, <2>1, <2>2, GotoType DEF MqRelease, PC
    <3> QED
      BY <1>7, <2>2, <3>1 DEF TypeOK, MqRelease
  <2>3. CASE ~ release[Dying(t)]
    <3>1. gmq' \in Seq(Ctx)
      <4>1. Append(gmq, Dying(t)) \in Seq(Ctx)
        BY <2>1, AppendProperties DEF TypeOK
      <4> QED
        BY <1>7, <2>3, <4>1 DEF MqRelease
    <3>2. LeaveDying(t)
      BY <1>7, <2>3 DEF MqRelease
    <3> QED
      BY <1>7, <3>1, <3>2, LeaveDyingType DEF TypeOK, MqRelease
  <2> QED
    BY <2>2, <2>3
<1>8. ASSUME NEW t \in Worker, DropMessage(t) PROVE TypeOK'
  <2> DEFINE m == Head(queue[Dying(t)])
             e == [src |-> Dying(t), id |-> m.id, kind |-> "error"]
  <2>1. t \in Thread /\ Dying(t) \in Ctx
    BY <1>8, InHand DEF DropMessage
  <2>2. m \in Message /\ Tail(queue[Dying(t)]) \in Seq(Message)
    BY <1>8, <2>1, HeadTailProperties DEF TypeOK, DropMessage
  <2>3. e \in Message
    BY <2>1, <2>2 DEF Message
  <2>4. StartPush(t, m.src, e)
    BY <1>8 DEF DropMessage
  <2>5. queue' \in [Ctx -> Seq(Message)]
    BY <1>8, <2>1, <2>2 DEF TypeOK, DropMessage
  <2>6. /\ ref' \in [Ctx -> Int]
        /\ sop' \in [Thread -> {"none", "push", "rel", "mark", "free"}]
        /\ sto' \in [Thread -> Ctx \cup {NULL}]
        /\ smsg' \in [Thread -> Message \cup {NULL}]
    BY <2>1, <2>3, <2>4, StartPushType
  <2> QED
    BY <1>8, <2>5, <2>6 DEF TypeOK, DropMessage
<1>9. ASSUME NEW t \in Worker, FreeQueue(t) PROVE TypeOK'
  <2>1. qmem' \in [Ctx -> Memory] /\ in_global' \in [Ctx -> BOOLEAN]
    BY <1>9 DEF TypeOK, FreeQueue, Memory
  <2> QED
    BY <1>9, <2>1, LeaveDyingType DEF TypeOK, FreeQueue
<1>10. ASSUME NEW t \in Worker, Pop(t) PROVE TypeOK'
  <2>1. t \in Thread /\ q[t] \in Ctx
    BY <1>10, InHand DEF Pop
  <2>2. Tail(queue[q[t]]) \in Seq(Message)
    BY <1>10, <2>1, HeadTailProperties DEF TypeOK, Pop
  <2>3. pc' \in [Thread -> PC]
    BY <1>10, <2>1, GotoType DEF Pop, PC
  <2> QED
    BY <1>10, <2>1, <2>2, <2>3 DEF TypeOK, Pop
<1>11. ASSUME NEW t \in Worker, PopEmpty(t) PROVE TypeOK'
  <2>1. t \in Thread /\ ctx[t] \in Ctx
    BY <1>11, InHand DEF PopEmpty
  <2>2. pc' \in [Thread -> PC]
    BY <1>11, <2>1, GotoType DEF PopEmpty, PC
  <2>3. /\ sop' \in [Thread -> {"none", "push", "rel", "mark", "free"}]
        /\ sto' \in [Thread -> Ctx \cup {NULL}]
        /\ smsg' \in [Thread -> Message \cup {NULL}]
    BY <1>11, <2>1, StartReleaseType DEF PopEmpty
  <2> QED
    BY <1>11, <2>2, <2>3 DEF TypeOK, PopEmpty
<1>12. ASSUME NEW t \in Worker, Length(t) PROVE TypeOK'
  <2>1. t \in Thread
    BY InHand
  <2>4. left' \in [Worker -> Nat \cup {NULL}]
    BY <1>12, LengthLeft DEF TypeOK
  <2>5. pc' \in [Thread -> PC]
    BY <1>12, <2>1, GotoType DEF Length, PC
  <2> QED
    BY <1>12, <2>4, <2>5 DEF TypeOK, Length
<1>13. ASSUME NEW t \in Worker, Return(t) PROVE TypeOK'
  <2>1. t \in Thread /\ left[t] \in Nat
    BY <1>13, InHand DEF Return
  <2>2. pc' \in [Thread -> PC]
    BY <1>13, <2>1, GotoType DEF Return, PC
  <2>3. \/ left[t] > 0 /\ left' = [left EXCEPT ![t] = left[t] - 1]
        \/ left' = [left EXCEPT ![t] = NULL]
    BY <1>13 DEF Return
  <2>4. left' \in [Worker -> Nat \cup {NULL}]
    <3>1. left[t] > 0 => left[t] - 1 \in Nat
      BY <2>1
    <3>2. left \in [Worker -> Nat \cup {NULL}]
      BY DEF TypeOK
    <3> QED
      BY <2>3, <3>1, <3>2
  <2> QED
    BY <1>13, <2>2, <2>4 DEF TypeOK, Return
<1>14. ASSUME NEW t \in Worker, NextQueue(t) PROVE TypeOK'
  <2>1. t \in Thread
    BY InHand
  <2>2. pc' \in [Thread -> PC]
    BY <1>14, <2>1, GotoType DEF NextQueue, PC
  <2>3. CASE gmq = <<>>
    BY <1>14, <2>2, <2>3 DEF TypeOK, NextQueue
  <2>4. CASE gmq # <<>>
    <3>1. Head(gmq) \in Ctx /\ Tail(gmq) \in Seq(Ctx)
      BY <2>4, HeadTailProperties DEF TypeOK
    <3> QED
      BY <1>14, <2>2, <2>4, <3>1 DEF TypeOK, NextQueue
  <2> QED
    BY <2>3, <2>4
<1>15. ASSUME NEW t \in Worker, PushBack(t) PROVE TypeOK'
  <2>1. t \in Thread /\ q[t] \in Ctx
    BY <1>15, InHand DEF PushBack
  <2>2. gmq' \in Seq(Ctx)
    BY <1>15, <2>1, AppendProperties DEF TypeOK, PushBack
  <2>3. pc' \in [Thread -> PC]
    BY <1>15, <2>1, GotoType DEF PushBack, PC
  <2> QED
    BY <1>15, <2>2, <2>3 DEF TypeOK, PushBack
<1>16. ASSUME NEW t \in Worker, ReleaseCtx(t) PROVE TypeOK'
  <2>1. t \in Thread /\ ctx[t] \in Ctx
    BY <1>16, InHand DEF ReleaseCtx
  <2>2. pc' \in [Thread -> PC]
    BY <1>16, <2>1, GotoType DEF ReleaseCtx, PC
  <2>3. /\ sop' \in [Thread -> {"none", "push", "rel", "mark", "free"}]
        /\ sto' \in [Thread -> Ctx \cup {NULL}]
        /\ smsg' \in [Thread -> Message \cup {NULL}]
    BY <1>16, <2>1, StartReleaseType DEF ReleaseCtx
  <2> QED
    BY <1>16, <2>2, <2>3 DEF TypeOK, ReleaseCtx
<1>17. ASSUME NEW t \in Worker, NEW d \in Ctx, Send(t, d) PROVE TypeOK'
  <2>1. t \in Thread /\ Sender(t) \in Ctx
    BY <1>17, InHand DEF Send
  <2>2. Data(Sender(t)) \in Message /\ nsent' \in 0 .. MaxSend
    BY <1>17, <2>1, NumbersAssumption DEF TypeOK, Send, Data, Message
  <2>3. /\ ref' \in [Ctx -> Int]
        /\ sop' \in [Thread -> {"none", "push", "rel", "mark", "free"}]
        /\ sto' \in [Thread -> Ctx \cup {NULL}]
        /\ smsg' \in [Thread -> Message \cup {NULL}]
    BY <1>17, <2>1, <2>2, StartPushType DEF Send
  <2> QED
    BY <1>17, <2>2, <2>3 DEF TypeOK, Send
<1>18. ASSUME NEW t \in Worker, SendRemote(t) PROVE TypeOK'
  <2>1. t \in Thread /\ Sender(t) \in Ctx /\ remote \in Ctx
    BY <1>18, InHand DEF TypeOK, SendRemote
  <2>2. Data(Sender(t)) \in Message /\ nsent' \in 0 .. MaxSend
    BY <1>18, <2>1, NumbersAssumption DEF TypeOK, SendRemote, Data, Message
  <2>3. /\ queue' \in [Ctx -> Seq(Message)]
        /\ in_global' \in [Ctx -> BOOLEAN]
        /\ gmq' \in Seq(Ctx)
    BY <1>18, <2>1, <2>2, MqPushType DEF SendRemote
  <2> QED
    BY <1>18, <2>2, <2>3 DEF TypeOK, SendRemote
<1>19. ASSUME NEW t \in Ext, NEW d \in Ctx, ExtSend(t, d) PROVE TypeOK'
  <2>1. Data(NULL) \in Message /\ nsent' \in 0 .. MaxSend
    BY <1>19, NumbersAssumption DEF TypeOK, ExtSend, Data, Message
  <2>2. /\ ref' \in [Ctx -> Int]
        /\ sop' \in [Thread -> {"none", "push", "rel", "mark", "free"}]
        /\ sto' \in [Thread -> Ctx \cup {NULL}]
        /\ smsg' \in [Thread -> Message \cup {NULL}]
    BY <1>19, <2>1, StartPushType DEF ExtSend, Thread
  <2> QED
    BY <1>19, <2>1, <2>2 DEF TypeOK, ExtSend
<1>20. ASSUME NEW t \in Worker, NEW d \in Ctx, SetMonitor(t, d) PROVE TypeOK'
  BY <1>20 DEF TypeOK, SetMonitor
<1>21. ASSUME NEW t \in Worker, NEW d \in Ctx, Kill(t, d) PROVE TypeOK'
  <2> DEFINE e == [src |-> d, id |-> 0, kind |-> "exit"]
  <2>1. t \in Thread /\ e \in Message
    BY InHand DEF Message
  <2>2. pc' \in [Thread -> PC]
    BY <1>21, <2>1, GotoType DEF Kill, PC
  <2>3. nsent' \in 0 .. MaxSend
    BY <1>21, NumbersAssumption DEF TypeOK, Kill
  <2>4. /\ ref' \in [Ctx -> Int]
        /\ sop' \in [Thread -> {"none", "push", "rel", "mark", "free"}]
        /\ sto' \in [Thread -> Ctx \cup {NULL}]
        /\ smsg' \in [Thread -> Message \cup {NULL}]
    <3>1. CASE monitor # NULL
      BY <1>21, <2>1, <3>1, StartPushType DEF Kill
    <3>2. CASE monitor = NULL
      BY <1>21, <3>2 DEF TypeOK, Kill
    <3> QED
      BY <3>1, <3>2
  <2> QED
    BY <1>21, <2>2, <2>3, <2>4 DEF TypeOK, Kill
<1>22. ASSUME NEW t \in Worker, Retire(t) PROVE TypeOK'
  <2>1. t \in Thread
    BY InHand
  <2>2. pc' \in [Thread -> PC]
    BY <1>22, <2>1, GotoType DEF Retire, PC
  <2>3. /\ slot' \subseteq Ctx
        /\ sop' \in [Thread -> {"none", "push", "rel", "mark", "free"}]
        /\ sto' \in [Thread -> Ctx \cup {NULL}]
        /\ smsg' \in [Thread -> Message \cup {NULL}]
    BY <1>22, <2>1, TakeOutType DEF Retire
  <2> QED
    BY <1>22, <2>2, <2>3 DEF TypeOK, Retire
<1>23. ASSUME NEW t \in Worker, Abort(t) PROVE TypeOK'
  <2>1. pc' \in [Thread -> PC]
    BY <1>23, InHand, GotoType DEF Abort, PC
  <2> QED
    BY <1>23, <2>1 DEF TypeOK, Abort
<1>24. ASSUME NEW t \in Worker, NEW d \in Ctx, AbortVisit(t, d) PROVE TypeOK'
  <2>1. /\ slot' \subseteq Ctx
        /\ sop' \in [Thread -> {"none", "push", "rel", "mark", "free"}]
        /\ sto' \in [Thread -> Ctx \cup {NULL}]
        /\ smsg' \in [Thread -> Message \cup {NULL}]
    BY <1>24, InHand, TakeOutType DEF AbortVisit
  <2> QED
    BY <1>24, <2>1 DEF TypeOK, AbortVisit
<1>25. ASSUME NEW t \in Worker, AbortPass(t) PROVE TypeOK'
  <2>1. CASE hit[t]
    <3>1. scan' = [scan EXCEPT ![t] = Ctx] /\ hit' = [hit EXCEPT ![t] = FALSE]
      BY <1>25, <2>1 DEF AbortPass
    <3>2. scan' \in [Worker -> SUBSET Ctx]
      <4>1. Ctx \in SUBSET Ctx
        OBVIOUS
      <4> QED
        BY <3>1, <4>1 DEF TypeOK
    <3>3. hit' \in [Worker -> BOOLEAN]
      BY <3>1 DEF TypeOK
    <3> QED
      BY <1>25, <2>1, <3>2, <3>3 DEF TypeOK, AbortPass
  <2>2. CASE ~ hit[t]
    <3>1. pc' \in [Thread -> PC]
      BY <1>25, <2>2, InHand, GotoType DEF AbortPass, PC
    <3> QED
      BY <1>25, <2>2, <3>1 DEF TypeOK, AbortPass
  <2> QED
    BY <2>1, <2>2
<1>26. ASSUME NEW t \in Worker, NEW d \in Ctx, Launch(t, d) PROVE TypeOK'
  <2>1. pc' \in [Thread -> PC]
    BY <1>26, InHand, GotoType DEF Launch, PC
  <2>2. /\ mem' \in [Ctx -> Memory] /\ qmem' \in [Ctx -> Memory]
        /\ ref' \in [Ctx -> Int] /\ total' \in Int
        /\ slot' \subseteq Ctx
    BY <1>26 DEF TypeOK, Launch, MqCreate, Memory
  <2> QED
    BY <1>26, <2>1, <2>2 DEF TypeOK, Launch, MqCreate
<1>27. ASSUME NEW t \in Worker, HarborStart(t) PROVE TypeOK'
  <2>1. new[t] \in Ctx /\ ref[new[t]] + 1 \in Int
    BY <1>27, InHand DEF TypeOK, HarborStart
  <2>2. ref' \in [Ctx -> Int] /\ total' \in Int
    BY <1>27, <2>1 DEF TypeOK, HarborStart, Reserve
  <2> QED
    BY <1>27, <2>1, <2>2 DEF TypeOK, HarborStart
<1>28. ASSUME NEW t \in Worker, InitOk(t) PROVE TypeOK'
  <2>1. t \in Thread /\ new[t] \in Ctx /\ ref[new[t]] - 1 \in Int
    BY <1>28, InHand DEF TypeOK, InitOk
  <2>2. pc' \in [Thread -> PC]
    BY <1>28, <2>1, GotoType DEF InitOk, PC
  <2>3. ref' \in [Ctx -> Int]
    BY <1>28, <2>1 DEF TypeOK, InitOk
  <2>4. /\ sop' \in [Thread -> {"none", "push", "rel", "mark", "free"}]
        /\ sto' \in [Thread -> Ctx \cup {NULL}]
    BY <1>28, <2>1 DEF TypeOK, InitOk
  <2> QED
    BY <1>28, <2>2, <2>3, <2>4 DEF TypeOK, InitOk
<1>29. ASSUME NEW t \in Worker, SetInit(t) PROVE TypeOK'
  <2>1. pc' \in [Thread -> PC]
    BY <1>29, InHand, GotoType DEF SetInit, PC
  <2> QED
    BY <1>29, <2>1 DEF TypeOK, SetInit
<1>30. ASSUME NEW t \in Worker, PushNewQueue(t) PROVE TypeOK'
  <2>1. t \in Thread /\ new[t] \in Ctx
    BY <1>30, InHand DEF PushNewQueue
  <2>2. gmq' \in Seq(Ctx)
    BY <1>30, <2>1, AppendProperties DEF TypeOK, PushNewQueue
  <2>3. pc' \in [Thread -> PC]
    BY <1>30, <2>1, GotoType DEF PushNewQueue, PC
  <2> QED
    BY <1>30, <2>2, <2>3 DEF TypeOK, PushNewQueue
<1>31. ASSUME NEW t \in Worker, InitFail(t) PROVE TypeOK'
  <2>1. t \in Thread /\ new[t] \in Ctx
    BY <1>31, InHand DEF InitFail
  <2>2. pc' \in [Thread -> PC]
    BY <1>31, <2>1, GotoType DEF InitFail, PC
  <2>3. /\ sop' \in [Thread -> {"none", "push", "rel", "mark", "free"}]
        /\ sto' \in [Thread -> Ctx \cup {NULL}]
        /\ smsg' \in [Thread -> Message \cup {NULL}]
    BY <1>31, <2>1, StartReleaseType DEF InitFail
  <2> QED
    BY <1>31, <2>2, <2>3 DEF TypeOK, InitFail
<1>32. ASSUME NEW t \in Worker, FailRetire(t) PROVE TypeOK'
  <2>1. t \in Thread
    BY InHand
  <2>2. pc' \in [Thread -> PC]
    BY <1>32, <2>1, GotoType DEF FailRetire, PC
  <2>3. /\ slot' \subseteq Ctx
        /\ sop' \in [Thread -> {"none", "push", "rel", "mark", "free"}]
        /\ sto' \in [Thread -> Ctx \cup {NULL}]
        /\ smsg' \in [Thread -> Message \cup {NULL}]
    BY <1>32, <2>1, TakeOutType DEF FailRetire
  <2> QED
    BY <1>32, <2>2, <2>3 DEF TypeOK, FailRetire
<1>33. CASE UNCHANGED vars
  BY <1>33 DEF TypeOK, vars
<1> QED
  BY <1>1, <1>2, <1>3, <1>4, <1>5, <1>6, <1>7, <1>8, <1>9, <1>10, <1>11,
     <1>12, <1>13, <1>14, <1>15, <1>16, <1>17, <1>18, <1>19, <1>20, <1>21,
     <1>22, <1>23, <1>24, <1>25, <1>26, <1>27, <1>28, <1>29, <1>30, <1>31,
     <1>32, <1>33
     DEF Next, SubStep, Dispatch, Command

(* Everything another thread has to itself is as it was. *)
Alone(t) ==
    /\ \A u \in Thread \ {t} :
        pc'[u] = pc[u] /\ sop'[u] = sop[u] /\ sto'[u] = sto[u] /\ smsg'[u] = smsg[u]
    /\ \A u \in Worker \ {t} :
        /\ q'[u] = q[u] /\ nq'[u] = nq[u] /\ ctx'[u] = ctx[u]
        /\ left'[u] = left[u] /\ new'[u] = new[u] /\ tgt'[u] = tgt[u]

(* A step inside push, release or delete_context concerns one thread. *)
LEMMA AloneSub ==
    ASSUME TypeOK, NEW t \in Thread, SubStep(t)
    PROVE  Alone(t)
<1> USE DEF At, ctxVars, queueVars, dispVars, cmdVars, subVars
<1>1. CASE DoPush(t)
  BY <1>1 DEF TypeOK, Alone, DoPush, EndSub
<1>2. CASE DoRelease(t)
  BY <1>2 DEF TypeOK, Alone, DoRelease, EndSub
<1>3. CASE DoMark(t)
  BY <1>3 DEF TypeOK, Alone, DoMark, EndSub
<1>4. CASE DoFree(t)
  BY <1>4 DEF TypeOK, Alone, DoFree, EndSub
<1> QED
  BY <1>1, <1>2, <1>3, <1>4 DEF SubStep

(* A step of dispatch or of a command concerns one worker. *)
LEMMA AloneWorker ==
    ASSUME TypeOK, NEW t \in Worker, Dispatch(t) \/ Command(t)
    PROVE  Alone(t)
<1> USE DEF At, ctxVars, queueVars, dispVars, cmdVars, subVars
<1>0. t \in Thread
  BY DEF Thread
<1>1. CASE Fetch(t)
  BY <1>1, <1>0 DEF TypeOK, Alone, Goto, Fetch
<1>2. CASE Grab(t)
  BY <1>2, <1>0 DEF TypeOK, Alone, Goto, Grab
<1>3. CASE MqRelease(t)
  BY <1>3, <1>0 DEF TypeOK, Alone, Goto, MqRelease, LeaveDying, Dying
<1>4. CASE DropMessage(t)
  BY <1>4, <1>0 DEF TypeOK, Alone, Goto, DropMessage, StartPush, Dying
<1>5. CASE FreeQueue(t)
  BY <1>5, <1>0 DEF TypeOK, Alone, Goto, FreeQueue, LeaveDying
<1>6. CASE Pop(t)
  BY <1>6, <1>0 DEF TypeOK, Alone, Goto, Pop
<1>7. CASE PopEmpty(t)
  BY <1>7, <1>0 DEF TypeOK, Alone, Goto, PopEmpty, StartRelease
<1>8. CASE Length(t)
  BY <1>8, <1>0 DEF TypeOK, Alone, Goto, Length
<1>9. CASE Return(t)
  BY <1>9, <1>0 DEF TypeOK, Alone, Goto, Return
<1>10. CASE NextQueue(t)
  BY <1>10, <1>0 DEF TypeOK, Alone, Goto, NextQueue
<1>11. CASE PushBack(t)
  BY <1>11, <1>0 DEF TypeOK, Alone, Goto, PushBack
<1>12. CASE ReleaseCtx(t)
  BY <1>12, <1>0 DEF TypeOK, Alone, Goto, ReleaseCtx, StartRelease
<1>13. ASSUME NEW d \in Ctx, Send(t, d) PROVE Alone(t)
  BY <1>13, <1>0 DEF TypeOK, Alone, Goto, Send, StartPush
<1>14. CASE SendRemote(t)
  BY <1>14, <1>0 DEF TypeOK, Alone, Goto, SendRemote
<1>15. ASSUME NEW d \in Ctx, SetMonitor(t, d) PROVE Alone(t)
  BY <1>15, <1>0 DEF TypeOK, Alone, Goto, SetMonitor
<1>16. ASSUME NEW d \in Ctx, Kill(t, d) PROVE Alone(t)
  BY <1>16, <1>0 DEF TypeOK, Alone, Goto, Kill, StartPush
<1>17. CASE Retire(t)
  BY <1>17, <1>0 DEF TypeOK, Alone, Goto, Retire, TakeOut, StartRelease
<1>18. CASE Abort(t)
  BY <1>18, <1>0 DEF TypeOK, Alone, Goto, Abort
<1>19. ASSUME NEW d \in Ctx, AbortVisit(t, d) PROVE Alone(t)
  BY <1>19, <1>0 DEF TypeOK, Alone, Goto, AbortVisit, TakeOut, StartRelease
<1>20. CASE AbortPass(t)
  BY <1>20, <1>0 DEF TypeOK, Alone, Goto, AbortPass
<1>21. ASSUME NEW d \in Ctx, Launch(t, d) PROVE Alone(t)
  BY <1>21, <1>0 DEF TypeOK, Alone, Goto, Launch
<1>22. CASE HarborStart(t)
  BY <1>22, <1>0 DEF TypeOK, Alone, Goto, HarborStart
<1>23. CASE InitOk(t)
  BY <1>23, <1>0 DEF TypeOK, Alone, Goto, InitOk
<1>24. CASE SetInit(t)
  BY <1>24, <1>0 DEF TypeOK, Alone, Goto, SetInit
<1>25. CASE PushNewQueue(t)
  BY <1>25, <1>0 DEF TypeOK, Alone, Goto, PushNewQueue
<1>26. CASE InitFail(t)
  BY <1>26, <1>0 DEF TypeOK, Alone, Goto, InitFail, StartRelease
<1>27. CASE FailRetire(t)
  BY <1>27, <1>0 DEF TypeOK, Alone, Goto, FailRetire, TakeOut, StartRelease
<1> QED
  BY <1>1, <1>2, <1>3, <1>4, <1>5, <1>6, <1>7, <1>8, <1>9, <1>10, <1>11, <1>12,
     <1>13, <1>14, <1>15, <1>16, <1>17, <1>18, <1>19, <1>20, <1>21, <1>22, <1>23,
     <1>24, <1>25, <1>26, <1>27
     DEF Dispatch, Command

(* A push by the timer or socket thread concerns that thread. *)
LEMMA AloneExt ==
    ASSUME TypeOK, NEW t \in Ext, NEW d \in Ctx, ExtSend(t, d)
    PROVE  Alone(t)
<1> USE DEF At, ctxVars, queueVars, dispVars, cmdVars, subVars
<1>1. t \in Thread
  BY DEF Thread
<1> QED
  BY <1>1 DEF TypeOK, Alone, ExtSend, StartPush

(* Control need be shown again only for the thread that moved. *)
LEMMA ControlFrame ==
    ASSUME Control, NEW t \in Thread, Alone(t), SubControl(t)',
           t \in Worker => WorkerControl(t)',
           t \in Ext => pc'[t] = "ext"
    PROVE  Control'
<1>1. \A u \in Thread \ {t} : SubControl(u)'
  BY DEF Control, SubControl, Alone
<1>2. \A u \in Worker \ {t} : WorkerControl(u)'
  BY DEF Control, WorkerControl, Alone, Thread
<1>3. \A u \in Ext \ {t} : pc'[u] = "ext"
  BY DEF Control, Alone, Thread
<1> QED
  BY <1>1, <1>2, <1>3 DEF Control

(* Starting a push keeps the thread's own control state. *)
LEMMA PushControl ==
    ASSUME TypeOK, NEW t \in Thread, NEW c, NEW m \in Message,
           SubControl(t), StartPush(t, c, m)
    PROVE  SubControl(t)'
<1>1. CASE c \in slot
  BY <1>1, SetsAssumption DEF TypeOK, SubControl, StartPush
<1>2. CASE c \notin slot
  BY <1>2 DEF SubControl, StartPush, subVars
<1> QED
  BY <1>1, <1>2

(* Every step preserves Control. *)
LEMMA ControlStep == TypeOK /\ Control /\ [Next]_vars => Control'
<1> SUFFICES ASSUME TypeOK, Control, [Next]_vars PROVE Control'
  OBVIOUS
<1> USE DEF At, ctxVars, queueVars, dispVars, cmdVars, subVars
<1>1. ASSUME NEW t \in Thread, DoPush(t) PROVE Control'
  <2>1. Alone(t)
    BY <1>1, AloneSub DEF SubStep
  <2>2. SubControl(t)'
    BY <1>1 DEF TypeOK, Control, SubControl, DoPush, EndSub
  <2>3. t \in Worker => WorkerControl(t)'
    BY <1>1 DEF Control, WorkerControl, DoPush
  <2>4. t \in Ext => pc'[t] = "ext"
    BY <1>1 DEF Control, DoPush
  <2> QED
    BY <2>1, <2>2, <2>3, <2>4, ControlFrame
<1>2. ASSUME NEW t \in Thread, DoRelease(t) PROVE Control'
  <2>1. Alone(t)
    BY <1>2, AloneSub DEF SubStep
  <2>2. SubControl(t)'
    BY <1>2 DEF TypeOK, Control, SubControl, DoRelease, EndSub
  <2>3. t \in Worker => WorkerControl(t)'
    BY <1>2 DEF Control, WorkerControl, DoRelease
  <2>4. t \in Ext => pc'[t] = "ext"
    BY <1>2 DEF Control, DoRelease
  <2> QED
    BY <2>1, <2>2, <2>3, <2>4, ControlFrame
<1>3. ASSUME NEW t \in Thread, DoMark(t) PROVE Control'
  <2>1. Alone(t)
    BY <1>3, AloneSub DEF SubStep
  <2>2. SubControl(t)'
    BY <1>3 DEF TypeOK, Control, SubControl, DoMark, EndSub
  <2>3. t \in Worker => WorkerControl(t)'
    BY <1>3 DEF Control, WorkerControl, DoMark
  <2>4. t \in Ext => pc'[t] = "ext"
    BY <1>3 DEF Control, DoMark
  <2> QED
    BY <2>1, <2>2, <2>3, <2>4, ControlFrame
<1>4. ASSUME NEW t \in Thread, DoFree(t) PROVE Control'
  <2>1. Alone(t)
    BY <1>4, AloneSub DEF SubStep
  <2>2. SubControl(t)'
    BY <1>4 DEF TypeOK, Control, SubControl, DoFree, EndSub
  <2>3. t \in Worker => WorkerControl(t)'
    BY <1>4 DEF Control, WorkerControl, DoFree
  <2>4. t \in Ext => pc'[t] = "ext"
    BY <1>4 DEF Control, DoFree
  <2> QED
    BY <2>1, <2>2, <2>3, <2>4, ControlFrame
<1>5. ASSUME NEW t \in Worker, Fetch(t) PROVE Control'
  <2>1. t \in Thread /\ t \notin Ext
    BY SetsAssumption DEF Thread
  <2>2. Alone(t)
    BY <1>5, AloneWorker DEF Dispatch
  <2>3. SubControl(t)'
    BY <1>5, <2>1, InHand, SetsAssumption DEF TypeOK, Control, SubControl, Goto, Fetch
  <2>4. WorkerControl(t)'
    <3>1. Head(gmq) \in Ctx
      BY <1>5, HeadTailProperties DEF TypeOK, Fetch
    <3> QED
      BY <1>5, <2>1, <3>1, SetsAssumption DEF TypeOK, Control, WorkerControl, Goto, Fetch
  <2> QED
    BY <2>1, <2>2, <2>3, <2>4, ControlFrame
<1>6. ASSUME NEW t \in Worker, Grab(t) PROVE Control'
  <2>1. t \in Thread /\ t \notin Ext
    BY SetsAssumption DEF Thread
  <2>2. Alone(t)
    BY <1>6, AloneWorker DEF Dispatch
  <2>3. SubControl(t)'
    BY <1>6, <2>1, InHand, SetsAssumption DEF TypeOK, Control, SubControl, Goto, Grab
  <2>4. WorkerControl(t)'
    <3>1. CASE q[t] \in slot
      BY <1>6, <2>1, <3>1, SetsAssumption DEF TypeOK, Control, WorkerControl, Goto, Grab
    <3>2. CASE q[t] \notin slot
      BY <1>6, <2>1, <3>2 DEF TypeOK, Control, WorkerControl, Goto, Grab
    <3> QED
      BY <3>1, <3>2
  <2> QED
    BY <2>1, <2>2, <2>3, <2>4, ControlFrame
<1>7. ASSUME NEW t \in Worker, MqRelease(t) PROVE Control'
  <2>1. t \in Thread /\ t \notin Ext
    BY SetsAssumption DEF Thread
  <2>2. Alone(t)
    BY <1>7, AloneWorker DEF Dispatch
  <2>3. SubControl(t)'
    BY <1>7, <2>1, InHand, SetsAssumption
       DEF TypeOK, Control, SubControl, Goto, MqRelease, LeaveDying, Dying
  <2>4. WorkerControl(t)'
    <3>1. CASE release[Dying(t)]
      BY <1>7, <2>1, <3>1 DEF TypeOK, Control, WorkerControl, Goto, MqRelease
    <3>2. CASE ~ release[Dying(t)] /\ new[t] # NULL
      BY <1>7, <2>1, <3>2 DEF TypeOK, Control, WorkerControl, Goto, MqRelease, LeaveDying
    <3>3. CASE ~ release[Dying(t)] /\ new[t] = NULL
      BY <1>7, <2>1, <3>3 DEF TypeOK, Control, WorkerControl, Goto, MqRelease, LeaveDying
    <3> QED
      BY <3>1, <3>2, <3>3
  <2> QED
    BY <2>1, <2>2, <2>3, <2>4, ControlFrame
<1>8. ASSUME NEW t \in Worker, DropMessage(t) PROVE Control'
  <2>1. t \in Thread /\ t \notin Ext
    BY SetsAssumption DEF Thread
  <2>2. Alone(t)
    BY <1>8, AloneWorker DEF Dispatch
  <2>3. SubControl(t)'
    <3> DEFINE m == Head(queue[Dying(t)])
               e == [src |-> Dying(t), id |-> m.id, kind |-> "error"]
    <3>1. m \in Message /\ Dying(t) \in Ctx
      BY <1>8, InHand, HeadTailProperties DEF TypeOK, DropMessage
    <3>2. e \in Message
      BY <3>1, MessageType
    <3>3. StartPush(t, m.src, e)
      BY <1>8 DEF DropMessage
    <3> HIDE DEF e
    <3> QED
      BY <2>1, <3>2, <3>3, PushControl DEF Control
  <2>4. WorkerControl(t)'
    BY <1>8, <2>1, InHand, SetsAssumption
       DEF TypeOK, Control, WorkerControl, Goto, DropMessage, StartPush, Dying
  <2> QED
    BY <2>1, <2>2, <2>3, <2>4, ControlFrame
<1>9. ASSUME NEW t \in Worker, FreeQueue(t) PROVE Control'
  <2>1. t \in Thread /\ t \notin Ext
    BY SetsAssumption DEF Thread
  <2>2. Alone(t)
    BY <1>9, AloneWorker DEF Dispatch
  <2>3. SubControl(t)'
    BY <1>9, <2>1, InHand, SetsAssumption
       DEF TypeOK, Control, SubControl, Goto, FreeQueue, LeaveDying
  <2>4. WorkerControl(t)'
    BY <1>9, <2>1, InHand, SetsAssumption
       DEF TypeOK, Control, WorkerControl, Goto, FreeQueue, LeaveDying
  <2> QED
    BY <2>1, <2>2, <2>3, <2>4, ControlFrame
<1>10. ASSUME NEW t \in Worker, Pop(t) PROVE Control'
  <2>1. t \in Thread /\ t \notin Ext
    BY SetsAssumption DEF Thread
  <2>2. Alone(t)
    BY <1>10, AloneWorker DEF Dispatch
  <2>3. SubControl(t)'
    BY <1>10, <2>1, InHand, SetsAssumption DEF TypeOK, Control, SubControl, Goto, Pop
  <2>4. WorkerControl(t)'
    BY <1>10, <2>1, InHand, SetsAssumption DEF TypeOK, Control, WorkerControl, Goto, Pop
  <2> QED
    BY <2>1, <2>2, <2>3, <2>4, ControlFrame
<1>11. ASSUME NEW t \in Worker, PopEmpty(t) PROVE Control'
  <2>1. t \in Thread /\ t \notin Ext
    BY SetsAssumption DEF Thread
  <2>2. Alone(t)
    BY <1>11, AloneWorker DEF Dispatch
  <2>3. SubControl(t)'
    BY <1>11, <2>1, InHand, SetsAssumption
       DEF TypeOK, Control, SubControl, Goto, PopEmpty, StartRelease
  <2>4. WorkerControl(t)'
    BY <1>11, <2>1, InHand, SetsAssumption
       DEF TypeOK, Control, WorkerControl, Goto, PopEmpty, StartRelease
  <2> QED
    BY <2>1, <2>2, <2>3, <2>4, ControlFrame
<1>12. ASSUME NEW t \in Worker, Length(t) PROVE Control'
  <2>1. t \in Thread /\ t \notin Ext
    BY SetsAssumption DEF Thread
  <2>2. Alone(t)
    BY <1>12, AloneWorker DEF Dispatch
  <2>3. SubControl(t)'
    BY <1>12, <2>1, InHand, SetsAssumption DEF TypeOK, Control, SubControl, Goto, Length
  <2>4. WorkerControl(t)'
    <3>1. PICK k \in Nat : left' = [left EXCEPT ![t] = k]
      BY <1>12, LengthLeft
    <3>2. /\ pc[t] = "len" /\ pc' = [pc EXCEPT ![t] = "call"]
          /\ UNCHANGED <<q, nq, ctx, new, tgt>>
      BY <1>12 DEF Length, Goto
    <3> QED
      BY <2>1, <3>1, <3>2 DEF TypeOK, Control, WorkerControl
  <2> QED
    BY <2>1, <2>2, <2>3, <2>4, ControlFrame
<1>13. ASSUME NEW t \in Worker, Return(t) PROVE Control'
  <2>1. t \in Thread /\ t \notin Ext
    BY SetsAssumption DEF Thread
  <2>2. Alone(t)
    BY <1>13, AloneWorker DEF Dispatch
  <2>3. SubControl(t)'
    BY <1>13, <2>1, InHand, SetsAssumption DEF TypeOK, Control, SubControl, Goto, Return
  <2>4. WorkerControl(t)'
    <3>1. CASE left[t] > 0
      BY <1>13, <2>1, <3>1 DEF TypeOK, Control, WorkerControl, Goto, Return
    <3>2. CASE ~ (left[t] > 0)
      BY <1>13, <2>1, <3>2 DEF TypeOK, Control, WorkerControl, Goto, Return
    <3> QED
      BY <3>1, <3>2
  <2> QED
    BY <2>1, <2>2, <2>3, <2>4, ControlFrame
<1>14. ASSUME NEW t \in Worker, NextQueue(t) PROVE Control'
  <2>1. t \in Thread /\ t \notin Ext
    BY SetsAssumption DEF Thread
  <2>2. Alone(t)
    BY <1>14, AloneWorker DEF Dispatch
  <2>3. SubControl(t)'
    BY <1>14, <2>1, InHand, SetsAssumption
       DEF TypeOK, Control, SubControl, Goto, NextQueue
  <2>4. WorkerControl(t)'
    <3>1. CASE gmq = <<>>
      BY <1>14, <2>1, <3>1 DEF TypeOK, Control, WorkerControl, Goto, NextQueue
    <3>2. CASE gmq # <<>>
      <4>1. Head(gmq) \in Ctx
        BY <3>2, HeadTailProperties DEF TypeOK
      <4>2. /\ pc[t] = "next" /\ pc' = [pc EXCEPT ![t] = "back"]
            /\ nq' = [nq EXCEPT ![t] = Head(gmq)]
            /\ UNCHANGED <<q, ctx, left, new, tgt>>
        BY <1>14, <3>2 DEF NextQueue, Goto
      <4> QED
        BY <2>1, <4>1, <4>2, SetsAssumption DEF TypeOK, Control, WorkerControl
    <3> QED
      BY <3>1, <3>2
  <2> QED
    BY <2>1, <2>2, <2>3, <2>4, ControlFrame
<1>15. ASSUME NEW t \in Worker, PushBack(t) PROVE Control'
  <2>1. t \in Thread /\ t \notin Ext
    BY SetsAssumption DEF Thread
  <2>2. Alone(t)
    BY <1>15, AloneWorker DEF Dispatch
  <2>3. SubControl(t)'
    BY <1>15, <2>1, InHand, SetsAssumption DEF TypeOK, Control, SubControl, Goto, PushBack
  <2>4. WorkerControl(t)'
    BY <1>15, <2>1, InHand, SetsAssumption
       DEF TypeOK, Control, WorkerControl, Goto, PushBack
  <2> QED
    BY <2>1, <2>2, <2>3, <2>4, ControlFrame
<1>16. ASSUME NEW t \in Worker, ReleaseCtx(t) PROVE Control'
  <2>1. t \in Thread /\ t \notin Ext
    BY SetsAssumption DEF Thread
  <2>2. Alone(t)
    BY <1>16, AloneWorker DEF Dispatch
  <2>3. SubControl(t)'
    BY <1>16, <2>1, InHand, SetsAssumption
       DEF TypeOK, Control, SubControl, Goto, ReleaseCtx, StartRelease
  <2>4. WorkerControl(t)'
    BY <1>16, <2>1, InHand, SetsAssumption
       DEF TypeOK, Control, WorkerControl, Goto, ReleaseCtx, StartRelease
  <2> QED
    BY <2>1, <2>2, <2>3, <2>4, ControlFrame
<1>17. ASSUME NEW t \in Worker, NEW d \in Ctx, Send(t, d) PROVE Control'
  <2>1. t \in Thread /\ t \notin Ext
    BY SetsAssumption DEF Thread
  <2>2. Alone(t)
    BY <1>17, AloneWorker DEF Command
  <2>3. SubControl(t)'
    <3>1. Data(Sender(t)) \in Message
      BY <1>17, InHand, MessageType DEF Send
    <3> QED
      BY <1>17, <2>1, <3>1, PushControl DEF Control, Send
  <2>4. WorkerControl(t)'
    BY <1>17, <2>1, InHand, SetsAssumption
       DEF TypeOK, Control, WorkerControl, Goto, Send, StartPush
  <2> QED
    BY <2>1, <2>2, <2>3, <2>4, ControlFrame
<1>18. ASSUME NEW t \in Worker, SendRemote(t) PROVE Control'
  <2>1. t \in Thread /\ t \notin Ext
    BY SetsAssumption DEF Thread
  <2>2. Alone(t)
    BY <1>18, AloneWorker DEF Command
  <2>3. SubControl(t)'
    BY <1>18, <2>1, InHand, SetsAssumption
       DEF TypeOK, Control, SubControl, Goto, SendRemote
  <2>4. WorkerControl(t)'
    BY <1>18, <2>1, InHand, SetsAssumption
       DEF TypeOK, Control, WorkerControl, Goto, SendRemote
  <2> QED
    BY <2>1, <2>2, <2>3, <2>4, ControlFrame
<1>19. ASSUME NEW t \in Worker, NEW d \in Ctx, SetMonitor(t, d) PROVE Control'
  <2>1. t \in Thread /\ t \notin Ext
    BY SetsAssumption DEF Thread
  <2>2. Alone(t)
    BY <1>19, AloneWorker DEF Command
  <2>3. SubControl(t)'
    BY <1>19, <2>1, InHand, SetsAssumption
       DEF TypeOK, Control, SubControl, Goto, SetMonitor
  <2>4. WorkerControl(t)'
    BY <1>19, <2>1, InHand, SetsAssumption
       DEF TypeOK, Control, WorkerControl, Goto, SetMonitor
  <2> QED
    BY <2>1, <2>2, <2>3, <2>4, ControlFrame
<1>20. ASSUME NEW t \in Worker, NEW d \in Ctx, Kill(t, d) PROVE Control'
  <2>1. t \in Thread /\ t \notin Ext
    BY SetsAssumption DEF Thread
  <2>2. Alone(t)
    BY <1>20, AloneWorker DEF Command
  <2>3. SubControl(t)'
    <3>1. CASE monitor # NULL
      BY <1>20, <2>1, <3>1, MessageType, PushControl DEF Control, Kill
    <3>2. CASE monitor = NULL
      BY <1>20, <2>1, <3>2 DEF Control, SubControl, Kill
    <3> QED
      BY <3>1, <3>2
  <2>4. WorkerControl(t)'
    BY <1>20, <2>1, InHand, SetsAssumption
       DEF TypeOK, Control, WorkerControl, Goto, Kill, StartPush
  <2> QED
    BY <2>1, <2>2, <2>3, <2>4, ControlFrame
<1>21. ASSUME NEW t \in Worker, Retire(t) PROVE Control'
  <2>1. t \in Thread /\ t \notin Ext
    BY SetsAssumption DEF Thread
  <2>2. Alone(t)
    BY <1>21, AloneWorker DEF Command
  <2>3. SubControl(t)'
    BY <1>21, <2>1, InHand, SetsAssumption
       DEF TypeOK, Control, SubControl, Goto, Retire, TakeOut, StartRelease
  <2>4. WorkerControl(t)'
    BY <1>21, <2>1, InHand, SetsAssumption
       DEF TypeOK, Control, WorkerControl, Goto, Retire, TakeOut, StartRelease
  <2> QED
    BY <2>1, <2>2, <2>3, <2>4, ControlFrame
<1>22. ASSUME NEW t \in Worker, Abort(t) PROVE Control'
  <2>1. t \in Thread /\ t \notin Ext
    BY SetsAssumption DEF Thread
  <2>2. Alone(t)
    BY <1>22, AloneWorker DEF Command
  <2>3. SubControl(t)'
    BY <1>22, <2>1, InHand, SetsAssumption DEF TypeOK, Control, SubControl, Goto, Abort
  <2>4. WorkerControl(t)'
    BY <1>22, <2>1, InHand, SetsAssumption DEF TypeOK, Control, WorkerControl, Goto, Abort
  <2> QED
    BY <2>1, <2>2, <2>3, <2>4, ControlFrame
<1>23. ASSUME NEW t \in Worker, NEW d \in Ctx, AbortVisit(t, d) PROVE Control'
  <2>1. t \in Thread /\ t \notin Ext
    BY SetsAssumption DEF Thread
  <2>2. Alone(t)
    BY <1>23, AloneWorker DEF Command
  <2>3. SubControl(t)'
    BY <1>23, <2>1, InHand, SetsAssumption
       DEF TypeOK, Control, SubControl, Goto, AbortVisit, TakeOut, StartRelease
  <2>4. WorkerControl(t)'
    BY <1>23, <2>1, InHand, SetsAssumption
       DEF TypeOK, Control, WorkerControl, Goto, AbortVisit, TakeOut, StartRelease
  <2> QED
    BY <2>1, <2>2, <2>3, <2>4, ControlFrame
<1>24. ASSUME NEW t \in Worker, AbortPass(t) PROVE Control'
  <2>1. t \in Thread /\ t \notin Ext
    BY SetsAssumption DEF Thread
  <2>2. Alone(t)
    BY <1>24, AloneWorker DEF Command
  <2>3. SubControl(t)'
    BY <1>24, <2>1, InHand, SetsAssumption
       DEF TypeOK, Control, SubControl, Goto, AbortPass
  <2>4. WorkerControl(t)'
    BY <1>24, <2>1, InHand, SetsAssumption
       DEF TypeOK, Control, WorkerControl, Goto, AbortPass
  <2> QED
    BY <2>1, <2>2, <2>3, <2>4, ControlFrame
<1>25. ASSUME NEW t \in Worker, NEW d \in Ctx, Launch(t, d) PROVE Control'
  <2>1. t \in Thread /\ t \notin Ext
    BY SetsAssumption DEF Thread
  <2>2. Alone(t)
    BY <1>25, AloneWorker DEF Command
  <2>3. SubControl(t)'
    BY <1>25, <2>1, InHand, SetsAssumption DEF TypeOK, Control, SubControl, Goto, Launch
  <2>4. WorkerControl(t)'
    BY <1>25, <2>1, InHand, SetsAssumption
       DEF TypeOK, Control, WorkerControl, Goto, Launch
  <2> QED
    BY <2>1, <2>2, <2>3, <2>4, ControlFrame
<1>26. ASSUME NEW t \in Worker, HarborStart(t) PROVE Control'
  <2>1. t \in Thread /\ t \notin Ext
    BY SetsAssumption DEF Thread
  <2>2. Alone(t)
    BY <1>26, AloneWorker DEF Command
  <2>3. SubControl(t)'
    BY <1>26, <2>1, InHand, SetsAssumption
       DEF TypeOK, Control, SubControl, Goto, HarborStart
  <2>4. WorkerControl(t)'
    BY <1>26, <2>1, InHand, SetsAssumption
       DEF TypeOK, Control, WorkerControl, Goto, HarborStart
  <2> QED
    BY <2>1, <2>2, <2>3, <2>4, ControlFrame
<1>27. ASSUME NEW t \in Worker, InitOk(t) PROVE Control'
  <2>1. t \in Thread /\ t \notin Ext
    BY SetsAssumption DEF Thread
  <2>2. Alone(t)
    BY <1>27, AloneWorker DEF Command
  <2>3. SubControl(t)'
    BY <1>27, <2>1, InHand, SetsAssumption DEF TypeOK, Control, SubControl, Goto, InitOk
  <2>4. WorkerControl(t)'
    BY <1>27, <2>1, InHand, SetsAssumption
       DEF TypeOK, Control, WorkerControl, Goto, InitOk
  <2> QED
    BY <2>1, <2>2, <2>3, <2>4, ControlFrame
<1>28. ASSUME NEW t \in Worker, SetInit(t) PROVE Control'
  <2>1. t \in Thread /\ t \notin Ext
    BY SetsAssumption DEF Thread
  <2>2. Alone(t)
    BY <1>28, AloneWorker DEF Command
  <2>3. SubControl(t)'
    BY <1>28, <2>1, InHand, SetsAssumption DEF TypeOK, Control, SubControl, Goto, SetInit
  <2>4. WorkerControl(t)'
    BY <1>28, <2>1, InHand, SetsAssumption
       DEF TypeOK, Control, WorkerControl, Goto, SetInit
  <2> QED
    BY <2>1, <2>2, <2>3, <2>4, ControlFrame
<1>29. ASSUME NEW t \in Worker, PushNewQueue(t) PROVE Control'
  <2>1. t \in Thread /\ t \notin Ext
    BY SetsAssumption DEF Thread
  <2>2. Alone(t)
    BY <1>29, AloneWorker DEF Command
  <2>3. SubControl(t)'
    BY <1>29, <2>1, InHand, SetsAssumption
       DEF TypeOK, Control, SubControl, Goto, PushNewQueue
  <2>4. WorkerControl(t)'
    BY <1>29, <2>1, InHand, SetsAssumption
       DEF TypeOK, Control, WorkerControl, Goto, PushNewQueue
  <2> QED
    BY <2>1, <2>2, <2>3, <2>4, ControlFrame
<1>30. ASSUME NEW t \in Worker, InitFail(t) PROVE Control'
  <2>1. t \in Thread /\ t \notin Ext
    BY SetsAssumption DEF Thread
  <2>2. Alone(t)
    BY <1>30, AloneWorker DEF Command
  <2>3. SubControl(t)'
    BY <1>30, <2>1, InHand, SetsAssumption
       DEF TypeOK, Control, SubControl, Goto, InitFail, StartRelease
  <2>4. WorkerControl(t)'
    BY <1>30, <2>1, InHand, SetsAssumption
       DEF TypeOK, Control, WorkerControl, Goto, InitFail, StartRelease
  <2> QED
    BY <2>1, <2>2, <2>3, <2>4, ControlFrame
<1>31. ASSUME NEW t \in Worker, FailRetire(t) PROVE Control'
  <2>1. t \in Thread /\ t \notin Ext
    BY SetsAssumption DEF Thread
  <2>2. Alone(t)
    BY <1>31, AloneWorker DEF Command
  <2>3. SubControl(t)'
    BY <1>31, <2>1, InHand, SetsAssumption
       DEF TypeOK, Control, SubControl, Goto, FailRetire, TakeOut, StartRelease
  <2>4. WorkerControl(t)'
    BY <1>31, <2>1, InHand, SetsAssumption
       DEF TypeOK, Control, WorkerControl, Goto, FailRetire, TakeOut, StartRelease
  <2> QED
    BY <2>1, <2>2, <2>3, <2>4, ControlFrame
<1>32. ASSUME NEW t \in Ext, NEW d \in Ctx, ExtSend(t, d) PROVE Control'
  <2>1. t \in Thread /\ t \notin Worker
    BY SetsAssumption DEF Thread
  <2>2. Alone(t)
    BY <1>32, AloneExt
  <2>3. SubControl(t)'
    BY <1>32, <2>1, MessageType, PushControl DEF Control, ExtSend
  <2> QED
    BY <1>32, <2>1, <2>2, <2>3, ControlFrame DEF Control, ExtSend
<1>33. CASE UNCHANGED vars
  BY <1>33 DEF Control, SubControl, WorkerControl, vars
<1> QED
  BY <1>1, <1>2, <1>3, <1>4, <1>5, <1>6, <1>7, <1>8, <1>9, <1>10, <1>11, <1>12,
     <1>13, <1>14, <1>15, <1>16, <1>17, <1>18, <1>19, <1>20, <1>21, <1>22, <1>23,
     <1>24, <1>25, <1>26, <1>27, <1>28, <1>29, <1>30, <1>31, <1>32, <1>33
     DEF Next, SubStep, Dispatch, Command

-----------------------------------------------------------------------------
(* Reference counts *)

(* The sets of holders are finite, as the threads are. *)
LEMMA HoldersFinite ==
    ASSUME NEW c
    PROVE  /\ IsFiniteSet(Dispatchers(c)) /\ Cardinality(Dispatchers(c)) \in Nat
           /\ IsFiniteSet(Callers(c)) /\ Cardinality(Callers(c)) \in Nat
           /\ IsFiniteSet(Launchers(c)) /\ Cardinality(Launchers(c)) \in Nat
<1>1. IsFiniteSet(Thread)
  BY SetsAssumption DEF Thread
<1>2. /\ Dispatchers(c) \subseteq Thread /\ Callers(c) \subseteq Thread
      /\ Launchers(c) \subseteq Thread
  BY DEF Dispatchers, Callers, Launchers, Thread
<1> QED
  BY <1>1, <1>2, FS_Subset, FS_CardinalityType

(* A new holder counts one more. *)
LEMMA Joins ==
    ASSUME NEW S, NEW T, NEW t, IsFiniteSet(S), t \notin S, T = S \cup {t}
    PROVE  Cardinality(T) = Cardinality(S) + 1
  BY FS_AddElement

(* A holder that leaves counts one less. *)
LEMMA Leaves ==
    ASSUME NEW S, NEW T, NEW t, IsFiniteSet(S), t \in S, T = S \ {t}
    PROVE  Cardinality(T) = Cardinality(S) - 1
  BY FS_RemoveElement

(* Steps that change no holder and no count keep RefExact. *)
LEMMA RefFrame ==
    ASSUME RefExact, UNCHANGED <<ref, slot, remote>>,
           \A c \in Ctx : Dispatchers(c)' = Dispatchers(c),
           \A c \in Ctx : Callers(c)' = Callers(c),
           \A c \in Ctx : Launchers(c)' = Launchers(c)
    PROVE  RefExact'
  BY DEF RefExact, Refs

(* The grab of skynet_context_push counts its caller. *)
LEMMA PushRefs ==
    ASSUME TypeOK, RefExact, NEW t \in Thread, sto[t] = NULL, sop[t] = "none", NEW c, NEW m,
           StartPush(t, c, m), UNCHANGED <<slot, remote>>,
           \A d \in Ctx : Dispatchers(d)' = Dispatchers(d),
           \A d \in Ctx : Launchers(d)' = Launchers(d)
    PROVE  RefExact'
<1>1. CASE c \in slot
  <2>1. /\ c \in Ctx /\ ref' = [ref EXCEPT ![c] = ref[c] + 1]
        /\ sop' = [sop EXCEPT ![t] = "push"] /\ sto' = [sto EXCEPT ![t] = c]
    BY <1>1 DEF TypeOK, StartPush
  <2>2. Callers(c)' = Callers(c) \cup {t} /\ t \notin Callers(c)
    BY <2>1 DEF TypeOK, Callers
  <2>3. \A d \in Ctx \ {c} : Callers(d)' = Callers(d)
    BY <2>1, SetsAssumption DEF TypeOK, Callers
  <2>4. Cardinality(Callers(c)') = Cardinality(Callers(c)) + 1
    BY <2>2, HoldersFinite, Joins
  <2>5. ref'[c] = ref[c] + 1 /\ \A d \in Ctx \ {c} : ref'[d] = ref[d]
    BY <2>1 DEF TypeOK
  <2>6. ref'[c] = Refs(c)'
    BY <2>1, <2>4, <2>5, HoldersFinite DEF RefExact, Refs, One
  <2>7. \A d \in Ctx \ {c} : ref'[d] = Refs(d)'
    BY <2>3, <2>5 DEF RefExact, Refs
  <2> QED
    BY <2>6, <2>7 DEF RefExact
<1>2. CASE c \notin slot
  <2>1. UNCHANGED <<ref, sop, sto>>
    BY <1>2 DEF StartPush, subVars
  <2>2. \A d \in Ctx : Callers(d)' = Callers(d)
    BY <2>1 DEF Callers
  <2> QED
    BY <2>1, <2>2, RefFrame
<1> QED
  BY <1>1, <1>2

(* skynet_handle_retire hands the table's reference to its caller. *)
LEMMA TakeOutRefs ==
    ASSUME TypeOK, RefExact, NEW t \in Thread, sto[t] = NULL, sop[t] = "none", NEW c,
           TakeOut(t, c), UNCHANGED <<ref, remote>>,
           \A d \in Ctx : Dispatchers(d)' = Dispatchers(d),
           \A d \in Ctx : Launchers(d)' = Launchers(d)
    PROVE  RefExact'
<1>1. CASE c \in slot
  <2>1. /\ c \in Ctx /\ slot' = slot \ {c}
        /\ sop' = [sop EXCEPT ![t] = "rel"] /\ sto' = [sto EXCEPT ![t] = c]
    BY <1>1 DEF TypeOK, TakeOut, StartRelease
  <2>2. Callers(c)' = Callers(c) \cup {t} /\ t \notin Callers(c)
    BY <2>1 DEF TypeOK, Callers
  <2>3. \A d \in Ctx \ {c} : Callers(d)' = Callers(d)
    BY <2>1, SetsAssumption DEF TypeOK, Callers
  <2>4. Cardinality(Callers(c)') = Cardinality(Callers(c)) + 1
    BY <2>2, HoldersFinite, Joins
  <2>5. One(c \in slot) = 1 /\ One(c \in slot)' = 0
    BY <1>1, <2>1 DEF One
  <2>6. ref'[c] = Refs(c)'
    BY <2>1, <2>4, <2>5, HoldersFinite DEF RefExact, Refs
  <2>7. \A d \in Ctx \ {c} : ref'[d] = Refs(d)'
    <3>1. \A d \in Ctx \ {c} : d \in slot' <=> d \in slot
      BY <2>1
    <3>2. \A d \in Ctx \ {c} : One(d \in slot') = One(d \in slot)
      BY <3>1 DEF One
    <3> QED
      BY <2>3, <3>2 DEF RefExact, Refs
  <2> QED
    BY <2>6, <2>7 DEF RefExact
<1>2. CASE c \notin slot
  <2>1. UNCHANGED <<slot, sop, sto>>
    BY <1>2 DEF TakeOut, subVars
  <2>2. \A d \in Ctx : Callers(d)' = Callers(d)
    BY <2>1 DEF Callers
  <2> QED
    BY <2>1, <2>2, RefFrame
<1> QED
  BY <1>1, <1>2

(* A worker's dispatch reference becomes one it is about to release. *)
LEMMA LetGoRefs ==
    ASSUME TypeOK, RefExact, NEW t \in Worker, sop[t] = "none", sto[t] = NULL,
           NEW c \in Ctx, ctx[t] = c,
           StartRelease(t, c), ctx' = [ctx EXCEPT ![t] = NULL],
           UNCHANGED <<ref, slot, remote>>,
           \A d \in Ctx : Launchers(d)' = Launchers(d)
    PROVE  RefExact'
<1>0. t \in Thread
  BY DEF Thread
<1>1. sop' = [sop EXCEPT ![t] = "rel"] /\ sto' = [sto EXCEPT ![t] = c]
  BY DEF StartRelease
<1>2. Callers(c)' = Callers(c) \cup {t} /\ t \notin Callers(c)
  BY <1>0, <1>1 DEF TypeOK, Callers
<1>3. \A d \in Ctx \ {c} : Callers(d)' = Callers(d)
  BY <1>0, <1>1, SetsAssumption DEF TypeOK, Callers
<1>4. Dispatchers(c)' = Dispatchers(c) \ {t} /\ t \in Dispatchers(c)
  BY SetsAssumption DEF TypeOK, Dispatchers
<1>5. \A d \in Ctx \ {c} : Dispatchers(d)' = Dispatchers(d)
  BY SetsAssumption DEF TypeOK, Dispatchers
<1>6. Cardinality(Callers(c)') = Cardinality(Callers(c)) + 1
  BY <1>2, HoldersFinite, Joins
<1>7. Cardinality(Dispatchers(c)') = Cardinality(Dispatchers(c)) - 1
  BY <1>4, HoldersFinite, Leaves
<1>8. ref'[c] = Refs(c)'
  BY <1>6, <1>7, HoldersFinite DEF RefExact, Refs, One
<1>9. \A d \in Ctx \ {c} : ref'[d] = Refs(d)'
  BY <1>3, <1>5 DEF RefExact, Refs
<1> QED
  BY <1>8, <1>9 DEF RefExact

(* Every step of the node keeps ctx->ref equal to the number of holders. *)
LEMMA RefStep == ServerInv /\ [Next]_vars => RefExact'
<1> SUFFICES ASSUME TypeOK, Control, RefExact, Lifetime, [Next]_vars PROVE RefExact'
  BY DEF ServerInv
<1> USE DEF At, ctxVars, queueVars, dispVars, cmdVars, subVars
<1>1. ASSUME NEW t \in Thread, DoPush(t) PROVE RefExact'
  <2>1. UNCHANGED <<ref, slot, remote, ctx, new, pc>>
    BY <1>1 DEF DoPush
  <2>2. \A c \in Ctx : Dispatchers(c)' = Dispatchers(c) /\ Launchers(c)' = Launchers(c)
    BY <2>1 DEF Dispatchers, Launchers
  <2>3. \A c \in Ctx : Callers(c)' = Callers(c)
    BY <1>1, SetsAssumption DEF TypeOK, Callers, DoPush
  <2> QED
    BY <2>1, <2>2, <2>3, RefFrame
<1>2. ASSUME NEW t \in Thread, DoMark(t) PROVE RefExact'
  <2>1. UNCHANGED <<ref, slot, remote, ctx, new, pc>>
    BY <1>2 DEF DoMark
  <2>2. \A c \in Ctx : Dispatchers(c)' = Dispatchers(c) /\ Launchers(c)' = Launchers(c)
    BY <2>1 DEF Dispatchers, Launchers
  <2>3. \A c \in Ctx : Callers(c)' = Callers(c)
    BY <1>2, SetsAssumption DEF TypeOK, Callers, DoMark
  <2> QED
    BY <2>1, <2>2, <2>3, RefFrame
<1>3. ASSUME NEW t \in Thread, DoFree(t) PROVE RefExact'
  <2>1. UNCHANGED <<ref, slot, remote, ctx, new, pc>>
    BY <1>3 DEF DoFree
  <2>2. \A c \in Ctx : Dispatchers(c)' = Dispatchers(c) /\ Launchers(c)' = Launchers(c)
    BY <2>1 DEF Dispatchers, Launchers
  <2>3. \A c \in Ctx : Callers(c)' = Callers(c)
    BY <1>3, SetsAssumption DEF TypeOK, Callers, DoFree, EndSub
  <2> QED
    BY <2>1, <2>2, <2>3, RefFrame
<1>4. ASSUME NEW t \in Worker, Fetch(t) PROVE RefExact'
  <2>1. UNCHANGED <<ref, slot, remote, ctx, sop, sto>>
    BY <1>4 DEF Fetch
  <2>2. \A c \in Ctx : Dispatchers(c)' = Dispatchers(c) /\ Callers(c)' = Callers(c)
    BY <2>1 DEF Dispatchers, Callers
  <2>3. \A c \in Ctx : Launchers(c)' = Launchers(c)
    BY <1>4, SetsAssumption DEF TypeOK, Launchers, Thread, Goto, Fetch
  <2> QED
    BY <2>1, <2>2, <2>3, RefFrame
<1>5. ASSUME NEW t \in Worker, MqRelease(t) PROVE RefExact'
  <2>1. UNCHANGED <<ref, slot, remote, ctx, sop, sto>>
    BY <1>5 DEF MqRelease
  <2>2. \A c \in Ctx : Dispatchers(c)' = Dispatchers(c) /\ Callers(c)' = Callers(c)
    BY <2>1 DEF Dispatchers, Callers
  <2>3. \A c \in Ctx : Launchers(c)' = Launchers(c)
    BY <1>5, SetsAssumption DEF TypeOK, Launchers, Thread, Goto, MqRelease, LeaveDying
  <2> QED
    BY <2>1, <2>2, <2>3, RefFrame
<1>6. ASSUME NEW t \in Worker, FreeQueue(t) PROVE RefExact'
  <2>1. UNCHANGED <<ref, slot, remote, ctx, sop, sto>>
    BY <1>6 DEF FreeQueue
  <2>2. \A c \in Ctx : Dispatchers(c)' = Dispatchers(c) /\ Callers(c)' = Callers(c)
    BY <2>1 DEF Dispatchers, Callers
  <2>3. \A c \in Ctx : Launchers(c)' = Launchers(c)
    BY <1>6, SetsAssumption DEF TypeOK, Launchers, Thread, Goto, FreeQueue, LeaveDying
  <2> QED
    BY <2>1, <2>2, <2>3, RefFrame
<1>7. ASSUME NEW t \in Worker, Pop(t) PROVE RefExact'
  <2>1. UNCHANGED <<ref, slot, remote, ctx, sop, sto>>
    BY <1>7 DEF Pop
  <2>2. \A c \in Ctx : Dispatchers(c)' = Dispatchers(c) /\ Callers(c)' = Callers(c)
    BY <2>1 DEF Dispatchers, Callers
  <2>3. \A c \in Ctx : Launchers(c)' = Launchers(c)
    BY <1>7, SetsAssumption DEF TypeOK, Launchers, Thread, Goto, Pop
  <2> QED
    BY <2>1, <2>2, <2>3, RefFrame
<1>8. ASSUME NEW t \in Worker, Length(t) PROVE RefExact'
  <2>1. UNCHANGED <<ref, slot, remote, ctx, sop, sto>>
    BY <1>8 DEF Length
  <2>2. \A c \in Ctx : Dispatchers(c)' = Dispatchers(c) /\ Callers(c)' = Callers(c)
    BY <2>1 DEF Dispatchers, Callers
  <2>3. \A c \in Ctx : Launchers(c)' = Launchers(c)
    BY <1>8, SetsAssumption DEF TypeOK, Launchers, Thread, Goto, Length
  <2> QED
    BY <2>1, <2>2, <2>3, RefFrame
<1>9. ASSUME NEW t \in Worker, Return(t) PROVE RefExact'
  <2>1. UNCHANGED <<ref, slot, remote, ctx, sop, sto>>
    BY <1>9 DEF Return
  <2>2. \A c \in Ctx : Dispatchers(c)' = Dispatchers(c) /\ Callers(c)' = Callers(c)
    BY <2>1 DEF Dispatchers, Callers
  <2>3. \A c \in Ctx : Launchers(c)' = Launchers(c)
    BY <1>9, SetsAssumption DEF TypeOK, Launchers, Thread, Goto, Return
  <2> QED
    BY <2>1, <2>2, <2>3, RefFrame
<1>10. ASSUME NEW t \in Worker, NextQueue(t) PROVE RefExact'
  <2>1. UNCHANGED <<ref, slot, remote, ctx, sop, sto>>
    BY <1>10 DEF NextQueue
  <2>2. \A c \in Ctx : Dispatchers(c)' = Dispatchers(c) /\ Callers(c)' = Callers(c)
    BY <2>1 DEF Dispatchers, Callers
  <2>3. \A c \in Ctx : Launchers(c)' = Launchers(c)
    BY <1>10, SetsAssumption DEF TypeOK, Launchers, Thread, Goto, NextQueue
  <2> QED
    BY <2>1, <2>2, <2>3, RefFrame
<1>11. ASSUME NEW t \in Worker, PushBack(t) PROVE RefExact'
  <2>1. UNCHANGED <<ref, slot, remote, ctx, sop, sto>>
    BY <1>11 DEF PushBack
  <2>2. \A c \in Ctx : Dispatchers(c)' = Dispatchers(c) /\ Callers(c)' = Callers(c)
    BY <2>1 DEF Dispatchers, Callers
  <2>3. \A c \in Ctx : Launchers(c)' = Launchers(c)
    BY <1>11, SetsAssumption DEF TypeOK, Launchers, Thread, Goto, PushBack
  <2> QED
    BY <2>1, <2>2, <2>3, RefFrame
<1>12. ASSUME NEW t \in Worker, SendRemote(t) PROVE RefExact'
  <2>1. UNCHANGED <<ref, slot, remote, ctx, sop, sto>>
    BY <1>12 DEF SendRemote
  <2>2. \A c \in Ctx : Dispatchers(c)' = Dispatchers(c) /\ Callers(c)' = Callers(c)
    BY <2>1 DEF Dispatchers, Callers
  <2>3. \A c \in Ctx : Launchers(c)' = Launchers(c)
    BY <1>12, SetsAssumption DEF TypeOK, Launchers, Thread, Goto, SendRemote
  <2> QED
    BY <2>1, <2>2, <2>3, RefFrame
<1>13. ASSUME NEW t \in Worker, NEW d \in Ctx, SetMonitor(t, d) PROVE RefExact'
  <2>1. UNCHANGED <<ref, slot, remote, ctx, sop, sto>>
    BY <1>13 DEF SetMonitor
  <2>2. \A c \in Ctx : Dispatchers(c)' = Dispatchers(c) /\ Callers(c)' = Callers(c)
    BY <2>1 DEF Dispatchers, Callers
  <2>3. \A c \in Ctx : Launchers(c)' = Launchers(c)
    BY <1>13, SetsAssumption DEF TypeOK, Launchers, Thread, Goto, SetMonitor
  <2> QED
    BY <2>1, <2>2, <2>3, RefFrame
<1>14. ASSUME NEW t \in Worker, Abort(t) PROVE RefExact'
  <2>1. UNCHANGED <<ref, slot, remote, ctx, sop, sto>>
    BY <1>14 DEF Abort
  <2>2. \A c \in Ctx : Dispatchers(c)' = Dispatchers(c) /\ Callers(c)' = Callers(c)
    BY <2>1 DEF Dispatchers, Callers
  <2>3. \A c \in Ctx : Launchers(c)' = Launchers(c)
    BY <1>14, SetsAssumption DEF TypeOK, Launchers, Thread, Goto, Abort
  <2> QED
    BY <2>1, <2>2, <2>3, RefFrame
<1>15. ASSUME NEW t \in Worker, AbortPass(t) PROVE RefExact'
  <2>1. UNCHANGED <<ref, slot, remote, ctx, sop, sto>>
    BY <1>15 DEF AbortPass
  <2>2. \A c \in Ctx : Dispatchers(c)' = Dispatchers(c) /\ Callers(c)' = Callers(c)
    BY <2>1 DEF Dispatchers, Callers
  <2>3. \A c \in Ctx : Launchers(c)' = Launchers(c)
    BY <1>15, SetsAssumption DEF TypeOK, Launchers, Thread, Goto, AbortPass
  <2> QED
    BY <2>1, <2>2, <2>3, RefFrame
<1>16. ASSUME NEW t \in Worker, SetInit(t) PROVE RefExact'
  <2>1. UNCHANGED <<ref, slot, remote, ctx, sop, sto>>
    BY <1>16 DEF SetInit
  <2>2. \A c \in Ctx : Dispatchers(c)' = Dispatchers(c) /\ Callers(c)' = Callers(c)
    BY <2>1 DEF Dispatchers, Callers
  <2>3. \A c \in Ctx : Launchers(c)' = Launchers(c)
    BY <1>16, SetsAssumption DEF TypeOK, Launchers, Thread, Goto, SetInit
  <2> QED
    BY <2>1, <2>2, <2>3, RefFrame
<1>17. ASSUME NEW t \in Worker, PushNewQueue(t) PROVE RefExact'
  <2>1. UNCHANGED <<ref, slot, remote, ctx, sop, sto>>
    BY <1>17 DEF PushNewQueue
  <2>2. \A c \in Ctx : Dispatchers(c)' = Dispatchers(c) /\ Callers(c)' = Callers(c)
    BY <2>1 DEF Dispatchers, Callers
  <2>3. \A c \in Ctx : Launchers(c)' = Launchers(c)
    BY <1>17, SetsAssumption DEF TypeOK, Launchers, Thread, Goto, PushNewQueue
  <2> QED
    BY <2>1, <2>2, <2>3, RefFrame
<1>18. ASSUME NEW t \in Worker, DropMessage(t) PROVE RefExact'
  <2>1. t \in Thread /\ sop[t] = "none" /\ sto[t] = NULL
    BY <1>18 DEF Control, SubControl, Thread, DropMessage
  <2>2. \A c \in Ctx : Dispatchers(c)' = Dispatchers(c) /\ Launchers(c)' = Launchers(c)
    BY <1>18, <2>1 DEF TypeOK, Dispatchers, Launchers, Goto, DropMessage
  <2> QED
    BY <1>18, <2>1, <2>2, PushRefs DEF DropMessage
<1>19. ASSUME NEW t \in Worker, NEW d \in Ctx, Send(t, d) PROVE RefExact'
  <2>1. t \in Thread /\ sop[t] = "none" /\ sto[t] = NULL
    BY <1>19 DEF Control, SubControl, Thread, Send
  <2>2. \A c \in Ctx : Dispatchers(c)' = Dispatchers(c) /\ Launchers(c)' = Launchers(c)
    BY <1>19, <2>1 DEF TypeOK, Dispatchers, Launchers, Goto, Send
  <2> QED
    BY <1>19, <2>1, <2>2, PushRefs DEF Send
<1>20. ASSUME NEW t \in Ext, NEW d \in Ctx, ExtSend(t, d) PROVE RefExact'
  <2>1. t \in Thread /\ sop[t] = "none" /\ sto[t] = NULL
    BY <1>20 DEF Control, SubControl, Thread, ExtSend
  <2>2. \A c \in Ctx : Dispatchers(c)' = Dispatchers(c) /\ Launchers(c)' = Launchers(c)
    BY <1>20, <2>1 DEF TypeOK, Dispatchers, Launchers, Goto, ExtSend
  <2> QED
    BY <1>20, <2>1, <2>2, PushRefs DEF ExtSend
<1>21. ASSUME NEW t \in Worker, NEW d \in Ctx, Kill(t, d) PROVE RefExact'
  <2>1. t \in Thread /\ sop[t] = "none" /\ sto[t] = NULL
    BY <1>21 DEF Control, SubControl, Thread, Kill
  <2>2. \A c \in Ctx : Dispatchers(c)' = Dispatchers(c) /\ Launchers(c)' = Launchers(c)
    BY <1>21, <2>1 DEF TypeOK, Dispatchers, Launchers, Goto, Kill
  <2>3. CASE monitor # NULL
    BY <1>21, <2>1, <2>2, <2>3, PushRefs DEF Kill
  <2>4. CASE monitor = NULL
    <3>1. UNCHANGED <<ref, slot, remote, sop, sto>>
      BY <1>21, <2>4 DEF Kill
    <3>2. \A c \in Ctx : Callers(c)' = Callers(c)
      BY <3>1 DEF Callers
    <3> QED
      BY <2>2, <3>1, <3>2, RefFrame
  <2> QED
    BY <2>3, <2>4
<1>22. ASSUME NEW t \in Worker, Retire(t) PROVE RefExact'
  <2>1. t \in Thread /\ sop[t] = "none" /\ sto[t] = NULL
    BY <1>22 DEF Control, SubControl, Thread, Retire
  <2>2. \A c \in Ctx : Dispatchers(c)' = Dispatchers(c) /\ Launchers(c)' = Launchers(c)
    BY <1>22, <2>1 DEF TypeOK, Dispatchers, Launchers, Goto, Retire
  <2> QED
    BY <1>22, <2>1, <2>2, TakeOutRefs DEF Retire
<1>23. ASSUME NEW t \in Worker, NEW d \in Ctx, AbortVisit(t, d) PROVE RefExact'
  <2>1. t \in Thread /\ sop[t] = "none" /\ sto[t] = NULL
    BY <1>23 DEF Control, SubControl, Thread, AbortVisit
  <2>2. \A c \in Ctx : Dispatchers(c)' = Dispatchers(c) /\ Launchers(c)' = Launchers(c)
    BY <1>23, <2>1 DEF TypeOK, Dispatchers, Launchers, Goto, AbortVisit
  <2> QED
    BY <1>23, <2>1, <2>2, TakeOutRefs DEF AbortVisit
<1>24. ASSUME NEW t \in Worker, FailRetire(t) PROVE RefExact'
  <2>1. t \in Thread /\ sop[t] = "none" /\ sto[t] = NULL
    BY <1>24 DEF Control, SubControl, Thread, FailRetire
  <2>2. \A c \in Ctx : Dispatchers(c)' = Dispatchers(c) /\ Launchers(c)' = Launchers(c)
    BY <1>24, <2>1 DEF TypeOK, Dispatchers, Launchers, Goto, FailRetire
  <2> QED
    BY <1>24, <2>1, <2>2, TakeOutRefs DEF FailRetire
<1>25. ASSUME NEW t \in Worker, PopEmpty(t) PROVE RefExact'
  <2>1. t \in Thread /\ sop[t] = "none" /\ sto[t] = NULL /\ ctx[t] \in Ctx
    BY <1>25, InHand DEF Control, SubControl, PopEmpty
  <2>2. \A c \in Ctx : Launchers(c)' = Launchers(c)
    BY <1>25, <2>1 DEF TypeOK, Launchers, Goto, PopEmpty
  <2> QED
    BY <1>25, <2>1, <2>2, LetGoRefs DEF PopEmpty
<1>26. ASSUME NEW t \in Worker, ReleaseCtx(t) PROVE RefExact'
  <2>1. t \in Thread /\ sop[t] = "none" /\ sto[t] = NULL /\ ctx[t] \in Ctx
    BY <1>26, InHand DEF Control, SubControl, ReleaseCtx
  <2>2. \A c \in Ctx : Launchers(c)' = Launchers(c)
    BY <1>26, <2>1 DEF TypeOK, Launchers, Goto, ReleaseCtx
  <2> QED
    BY <1>26, <2>1, <2>2, LetGoRefs DEF ReleaseCtx
<1>27. ASSUME NEW t \in Thread, DoRelease(t) PROVE RefExact'
  <2>1. PICK c \in Ctx : sto[t] = c
    BY <1>27 DEF TypeOK, Control, SubControl, DoRelease
  <2>2. /\ sop[t] = "rel" /\ ref' = [ref EXCEPT ![c] = ref[c] - 1]
        /\ UNCHANGED <<slot, remote, ctx, new, pc>>
    BY <1>27, <2>1 DEF DoRelease
  <2>3. \/ sop' = [sop EXCEPT ![t] = "mark"] /\ UNCHANGED sto
        \/ sop' = [sop EXCEPT ![t] = "none"] /\ sto' = [sto EXCEPT ![t] = NULL]
    BY <1>27 DEF DoRelease, EndSub
  <2>4. Callers(c)' = Callers(c) \ {t} /\ t \in Callers(c)
    BY <2>1, <2>2, <2>3 DEF TypeOK, Callers
  <2>5. \A d \in Ctx \ {c} : Callers(d)' = Callers(d)
    BY <2>1, <2>2, <2>3, SetsAssumption DEF TypeOK, Callers
  <2>6. \A d \in Ctx : Dispatchers(d)' = Dispatchers(d) /\ Launchers(d)' = Launchers(d)
    BY <2>2 DEF Dispatchers, Launchers
  <2>7. Cardinality(Callers(c)') = Cardinality(Callers(c)) - 1
    BY <2>4, HoldersFinite, Leaves
  <2>8. ref'[c] = ref[c] - 1 /\ \A d \in Ctx \ {c} : ref'[d] = ref[d]
    BY <2>2 DEF TypeOK
  <2>9. ref'[c] = Refs(c)'
    BY <2>2, <2>6, <2>7, <2>8, HoldersFinite DEF RefExact, Refs, One
  <2>10. \A d \in Ctx \ {c} : ref'[d] = Refs(d)'
    BY <2>2, <2>5, <2>6, <2>8 DEF RefExact, Refs
  <2> QED
    BY <2>9, <2>10 DEF RefExact
<1>28. ASSUME NEW t \in Worker, Grab(t) PROVE RefExact'
  <2>1. UNCHANGED <<slot, remote, sop, sto, new>> /\ pc[t] = "grab" /\ ctx[t] = NULL
    BY <1>28 DEF Control, WorkerControl, Grab
  <2>2. \A d \in Ctx : Callers(d)' = Callers(d)
    BY <2>1 DEF Callers
  <2>3. \A d \in Ctx : Launchers(d)' = Launchers(d)
    BY <1>28 DEF TypeOK, Launchers, Goto, Grab, Thread
  <2>4. CASE q[t] \in slot
    <3>1. PICK c \in Ctx : q[t] = c
      BY <2>4 DEF TypeOK
    <3>2. ref' = [ref EXCEPT ![c] = ref[c] + 1] /\ ctx' = [ctx EXCEPT ![t] = c]
      BY <1>28, <2>4, <3>1 DEF Grab
    <3>3. Dispatchers(c)' = Dispatchers(c) \cup {t} /\ t \notin Dispatchers(c)
      BY <2>1, <3>2, SetsAssumption DEF TypeOK, Dispatchers
    <3>4. \A d \in Ctx \ {c} : Dispatchers(d)' = Dispatchers(d)
      BY <2>1, <3>2, SetsAssumption DEF TypeOK, Dispatchers
    <3>5. Cardinality(Dispatchers(c)') = Cardinality(Dispatchers(c)) + 1
      BY <3>3, HoldersFinite, Joins
    <3>6. ref'[c] = ref[c] + 1 /\ \A d \in Ctx \ {c} : ref'[d] = ref[d]
      BY <3>2 DEF TypeOK
    <3>7. ref'[c] = Refs(c)'
      BY <2>1, <2>2, <2>3, <3>5, <3>6, HoldersFinite DEF RefExact, Refs, One
    <3>8. \A d \in Ctx \ {c} : ref'[d] = Refs(d)'
      BY <2>1, <2>2, <2>3, <3>4, <3>6 DEF RefExact, Refs
    <3> QED
      BY <3>7, <3>8 DEF RefExact
  <2>5. CASE q[t] \notin slot
    <3>1. UNCHANGED <<ref, ctx>>
      BY <1>28, <2>5 DEF Grab
    <3>2. \A d \in Ctx : Dispatchers(d)' = Dispatchers(d)
      BY <3>1 DEF Dispatchers
    <3> QED
      BY <2>1, <2>2, <2>3, <3>1, <3>2, RefFrame
  <2> QED
    BY <2>4, <2>5
<1>29. ASSUME NEW t \in Worker, NEW c \in Ctx, Launch(t, c) PROVE RefExact'
  <2>1. /\ UNCHANGED <<remote, sop, sto, ctx>> /\ pc[t] = "call"
        /\ mem[c] = "none" /\ ref' = [ref EXCEPT ![c] = 2] /\ slot' = slot \cup {c}
        /\ new' = [new EXCEPT ![t] = c] /\ pc' = [pc EXCEPT ![t] = "init"]
    BY <1>29 DEF Launch, Goto
  <2>2. \A d \in Ctx : Callers(d)' = Callers(d) /\ Dispatchers(d)' = Dispatchers(d)
    BY <2>1 DEF Callers, Dispatchers
  <2>3. Launchers(c)' = Launchers(c) \cup {t} /\ t \notin Launchers(c)
    BY <2>1 DEF TypeOK, Launchers, Thread
  <2>4. \A d \in Ctx \ {c} : Launchers(d)' = Launchers(d)
    BY <2>1 DEF TypeOK, Launchers, Thread
  <2>5. Cardinality(Launchers(c)') = Cardinality(Launchers(c)) + 1
    BY <2>3, HoldersFinite, Joins
  <2>6. ref'[c] = 2 /\ \A d \in Ctx \ {c} : ref'[d] = ref[d]
    BY <2>1 DEF TypeOK
  <2>7. Refs(c) = 0
    BY <2>1 DEF RefExact, Lifetime, ContextLife
  <2>8. /\ Cardinality(Dispatchers(c)) = 0 /\ Cardinality(Callers(c)) = 0
        /\ Cardinality(Launchers(c)) = 0 /\ One(c \in slot) = 0 /\ One(c = remote) = 0
    <3> DEFINE i == Cardinality(Dispatchers(c))
               j == Cardinality(Callers(c))
               k == Cardinality(Launchers(c))
               m == One(c \in slot)
               n == One(c = remote)
    <3>1. i \in Nat /\ j \in Nat /\ k \in Nat
      BY HoldersFinite
    <3>2. m \in 0 .. 1 /\ n \in 0 .. 1
      BY DEF One
    <3>3. i + j + k + m + n = 0
      BY <2>7 DEF Refs
    <3>4. i = 0 /\ j = 0 /\ k = 0 /\ m = 0 /\ n = 0
      <4> HIDE DEF i, j, k, m, n
      <4> QED
        BY <3>1, <3>2, <3>3
    <3> QED
      BY <3>4
  <2>9. One(c \in slot)' = 1 /\ One(c = remote)' = 0
    BY <2>1, <2>8 DEF One
  <2>10. ref'[c] = Refs(c)'
    BY <2>2, <2>5, <2>6, <2>8, <2>9 DEF Refs
  <2>11. \A d \in Ctx \ {c} : One(d \in slot') = One(d \in slot)
    BY <2>1 DEF One
  <2>12. \A d \in Ctx \ {c} : ref'[d] = Refs(d)'
    BY <2>1, <2>2, <2>4, <2>6, <2>11 DEF RefExact, Refs
  <2> QED
    BY <2>10, <2>12 DEF RefExact
<1>30. ASSUME NEW t \in Worker, HarborStart(t) PROVE RefExact'
  <2>1. PICK c \in Ctx : new[t] = c
    BY <1>30, InHand DEF HarborStart
  <2>2. /\ UNCHANGED <<slot, sop, sto, ctx, new, pc>> /\ remote = NULL /\ remote' = c
        /\ ref' = [ref EXCEPT ![c] = ref[c] + 1]
    BY <1>30, <2>1 DEF HarborStart, Reserve
  <2>3. \A d \in Ctx : /\ Callers(d)' = Callers(d) /\ Dispatchers(d)' = Dispatchers(d)
                       /\ Launchers(d)' = Launchers(d)
    BY <2>2 DEF Callers, Dispatchers, Launchers
  <2>4. ref'[c] = ref[c] + 1 /\ \A d \in Ctx \ {c} : ref'[d] = ref[d]
    BY <2>2 DEF TypeOK
  <2>5. One(c = remote) = 0 /\ One(c = remote)' = 1
    BY <2>2, SetsAssumption DEF One
  <2>6. ref'[c] = Refs(c)'
    BY <2>2, <2>3, <2>4, <2>5, HoldersFinite DEF RefExact, Refs, One
  <2>7. \A d \in Ctx \ {c} : One(d = remote) = One(d = remote')
    BY <2>2, SetsAssumption DEF One
  <2>8. \A d \in Ctx \ {c} : ref'[d] = Refs(d)'
    BY <2>2, <2>3, <2>4, <2>7 DEF RefExact, Refs
  <2> QED
    BY <2>6, <2>8 DEF RefExact
<1>31. ASSUME NEW t \in Worker, InitOk(t) PROVE RefExact'
  <2>1. PICK c \in Ctx : new[t] = c
    BY <1>31, InHand DEF InitOk
  <2>2. /\ UNCHANGED <<slot, remote, ctx, new>> /\ pc[t] = "init"
        /\ ref' = [ref EXCEPT ![c] = ref[c] - 1]
        /\ sop[t] = "none" /\ t \in Thread
        /\ pc' = [pc EXCEPT ![t] = "pushq"] \/ pc' = [pc EXCEPT ![t] = "setinit"]
        /\ \/ sop' = [sop EXCEPT ![t] = "mark"] /\ sto' = [sto EXCEPT ![t] = c]
           \/ UNCHANGED <<sop, sto>>
    BY <1>31, <2>1 DEF InitOk, Goto, Thread
  <2>3. pc'[t] # "init" /\ \A u \in Worker \ {t} : pc'[u] = pc[u]
    BY <2>2 DEF TypeOK, Thread
  <2>4. Launchers(c)' = Launchers(c) \ {t} /\ t \in Launchers(c)
    BY <2>1, <2>2, <2>3 DEF Launchers
  <2>5. \A d \in Ctx \ {c} : Launchers(d)' = Launchers(d)
    BY <2>1, <2>2, <2>3 DEF Launchers
  <2>6. \A d \in Ctx : Dispatchers(d)' = Dispatchers(d)
    BY <2>2 DEF Dispatchers
  <2>7. \A d \in Ctx : Callers(d)' = Callers(d)
    BY <2>2 DEF TypeOK, Callers
  <2>8. Cardinality(Launchers(c)') = Cardinality(Launchers(c)) - 1
    BY <2>4, HoldersFinite, Leaves
  <2>9. ref'[c] = ref[c] - 1 /\ \A d \in Ctx \ {c} : ref'[d] = ref[d]
    BY <2>2 DEF TypeOK
  <2>10. ref'[c] = Refs(c)'
    BY <2>2, <2>6, <2>7, <2>8, <2>9, HoldersFinite DEF RefExact, Refs, One
  <2>11. \A d \in Ctx \ {c} : ref'[d] = Refs(d)'
    BY <2>2, <2>5, <2>6, <2>7, <2>9 DEF RefExact, Refs
  <2> QED
    BY <2>10, <2>11 DEF RefExact
<1>32. ASSUME NEW t \in Worker, InitFail(t) PROVE RefExact'
  <2>1. PICK c \in Ctx : new[t] = c
    BY <1>32, InHand DEF InitFail
  <2>2. /\ UNCHANGED <<ref, slot, remote, ctx, new>> /\ pc[t] = "init"
        /\ sop[t] = "none" /\ sto[t] = NULL /\ t \in Thread
        /\ pc' = [pc EXCEPT ![t] = "fail"]
        /\ sop' = [sop EXCEPT ![t] = "rel"] /\ sto' = [sto EXCEPT ![t] = c]
    BY <1>32, <2>1 DEF Control, SubControl, InitFail, StartRelease, Goto, Thread
  <2>3. Launchers(c)' = Launchers(c) \ {t} /\ t \in Launchers(c)
    BY <2>1, <2>2 DEF TypeOK, Launchers
  <2>4. Callers(c)' = Callers(c) \cup {t} /\ t \notin Callers(c)
    BY <2>2 DEF TypeOK, Callers
  <2>5. \A d \in Ctx \ {c} : Launchers(d)' = Launchers(d)
    BY <2>1, <2>2 DEF TypeOK, Launchers
  <2>6. \A d \in Ctx \ {c} : Callers(d)' = Callers(d)
    BY <2>2, SetsAssumption DEF TypeOK, Callers
  <2>7. \A d \in Ctx : Dispatchers(d)' = Dispatchers(d)
    BY <2>2 DEF Dispatchers
  <2>8. Cardinality(Launchers(c)') = Cardinality(Launchers(c)) - 1
    BY <2>3, HoldersFinite, Leaves
  <2>9. Cardinality(Callers(c)') = Cardinality(Callers(c)) + 1
    BY <2>4, HoldersFinite, Joins
  <2>10. ref'[c] = Refs(c)'
    BY <2>2, <2>7, <2>8, <2>9, HoldersFinite DEF RefExact, Refs, One
  <2>11. \A d \in Ctx \ {c} : ref'[d] = Refs(d)'
    BY <2>2, <2>5, <2>6, <2>7 DEF RefExact, Refs
  <2> QED
    BY <2>10, <2>11 DEF RefExact
<1>33. CASE UNCHANGED vars
  BY <1>33 DEF RefExact, Refs, Dispatchers, Callers, Launchers, vars
<1> QED
  BY <1>1, <1>2, <1>3, <1>4, <1>5, <1>6, <1>7, <1>8, <1>9, <1>10, <1>11, <1>12,
     <1>13, <1>14, <1>15, <1>16, <1>17, <1>18, <1>19, <1>20, <1>21, <1>22, <1>23,
     <1>24, <1>25, <1>26, <1>27, <1>28, <1>29, <1>30, <1>31, <1>32, <1>33
     DEF Next, SubStep, Dispatch, Command

-----------------------------------------------------------------------------
(* Places of a queue, lifetimes and the theorems *)


(* What an append does to the elements of a sequence. *)
LEMMA ElemsAppend ==
    ASSUME NEW S, NEW s \in Seq(S), NEW x \in S
    PROVE  /\ Elems(Append(s, x)) = Elems(s) \cup {x}
           /\ Once(s) /\ x \notin Elems(s) => Once(Append(s, x))
<1> DEFINE r == Append(s, x)
<1>1. /\ Len(s) \in Nat /\ DOMAIN s = 1 .. Len(s)
      /\ Len(r) = Len(s) + 1 /\ DOMAIN r = 1 .. Len(s) + 1
      /\ \A i \in 1 .. Len(s) : r[i] = s[i]
      /\ r[Len(s) + 1] = x
  BY LenProperties, AppendProperties
<1> HIDE DEF r
<1>2. Elems(r) = Elems(s) \cup {x}
  BY <1>1 DEF Elems
<1>3. ASSUME Once(s), x \notin Elems(s) PROVE Once(r)
  <2>1. \A i \in 1 .. Len(s) : s[i] # x
    BY <1>1, <1>3 DEF Elems
  <2> QED
    BY <1>1, <1>3, <2>1 DEF Once
<1> QED
  BY <1>2, <1>3 DEF r

(* What taking the head does to the elements of a sequence. *)
LEMMA ElemsTail ==
    ASSUME NEW S, NEW s \in Seq(S), s # <<>>, Once(s)
    PROVE  /\ Elems(Tail(s)) = Elems(s) \ {Head(s)}
           /\ Once(Tail(s))
           /\ Head(s) \in Elems(s)
<1> DEFINE r == Tail(s)
<1>1. /\ Len(s) \in Nat /\ Len(s) > 0 /\ DOMAIN s = 1 .. Len(s)
      /\ Head(s) = s[1]
      /\ DOMAIN r = 1 .. Len(s) - 1
      /\ \A i \in 1 .. Len(s) - 1 : r[i] = s[i + 1]
  BY LenProperties, EmptySeq, HeadTailProperties
<1> HIDE DEF r
<1>2. \A i, j \in 1 .. Len(s) : s[i] = s[j] => i = j
  BY <1>1 DEF Once
<1>3. Once(r)
  BY <1>1, <1>2 DEF Once
<1>4. Elems(r) \subseteq Elems(s) \ {Head(s)}
  BY <1>1, <1>2 DEF Elems
<1>5. ASSUME NEW x \in Elems(s), x # Head(s) PROVE x \in Elems(r)
  <2>1. PICK i \in 1 .. Len(s) : s[i] = x
    BY <1>1 DEF Elems
  <2>2. i - 1 \in 1 .. Len(s) - 1 /\ r[i - 1] = x
    BY <1>1, <1>5, <2>1
  <2> QED
    BY <1>1, <2>2 DEF Elems
<1>6. Head(s) \in Elems(s)
  BY <1>1 DEF Elems
<1> QED
  BY <1>3, <1>4, <1>5, <1>6 DEF r

(* Nothing moved: ownership is as it was. *)
LEMMA PlaceFrame ==
    ASSUME OneOwner, UNCHANGED <<gmq, q, nq, new>>
    PROVE  OneOwner' /\ \A c \in Ctx : Owned(c)' <=> Owned(c)
  BY DEF OneOwner, Owned, Has

(* A queue nobody has enters the global queue. *)
LEMMA PlaceEnter ==
    ASSUME TypeOK, OneOwner, NEW c \in Ctx, ~ Owned(c),
           gmq' = Append(gmq, c), UNCHANGED <<q, nq, new>>
    PROVE  OneOwner' /\ \A d \in Ctx : Owned(d)' <=> Owned(d) \/ d = c
<1>1. Elems(gmq') = Elems(gmq) \cup {c}
  BY ElemsAppend DEF TypeOK
<1>2. Once(gmq')
  BY ElemsAppend DEF TypeOK, OneOwner, Owned
<1>3. \A d \in Ctx : Owned(d)' <=> Owned(d) \/ d = c
  BY <1>1 DEF Owned, Has
<1>4. OneOwner'
  BY <1>1, <1>2 DEF OneOwner, Owned, Has
<1> QED
  BY <1>3, <1>4

(* Worker t takes c in hand: from the head of the global queue, or as a queue
   nobody has. *)
LEMMA PlaceTake ==
    ASSUME TypeOK, OneOwner, NEW t \in Worker, NEW c \in Ctx,
           \A u \in Worker \ {t} : q'[u] = q[u] /\ nq'[u] = nq[u] /\ new'[u] = new[u],
           \A d \in Ctx : Has(t, d)' <=> Has(t, d) \/ d = c,
           ~ Has(t, c) =>
             \A d \in Ctx : /\ q'[t] = d => nq'[t] # d /\ new'[t] # d
                            /\ nq'[t] = d => new'[t] # d,
           \/ ~ Owned(c) /\ gmq' = gmq
           \/ gmq # <<>> /\ c = Head(gmq) /\ gmq' = Tail(gmq)
    PROVE  OneOwner' /\ \A d \in Ctx : Owned(d)' <=> Owned(d) \/ d = c
<1>1. Once(gmq') /\ Elems(gmq') = Elems(gmq) \ {c}
  BY ElemsTail DEF TypeOK, OneOwner, Owned
<1>2. \A u \in Worker : ~ Has(u, c)
  BY ElemsTail DEF TypeOK, OneOwner, Owned
<1>3. \A u \in Worker \ {t}, d \in Ctx : Has(u, d)' <=> Has(u, d)
  BY DEF Has
<1>4. \A d \in Ctx : Owned(d)' <=> Owned(d) \/ d = c
  BY <1>1, <1>3 DEF Owned
<1>5. \A u \in Worker, d \in Ctx : Has(u, d)' => d \notin Elems(gmq')
  BY <1>1, <1>3 DEF OneOwner
<1>6. \A u, v \in Worker, d \in Ctx : Has(u, d)' /\ Has(v, d)' => u = v
  BY <1>2, <1>3 DEF OneOwner
<1>7. \A u \in Worker, d \in Ctx :
        /\ q'[u] = d => nq'[u] # d /\ new'[u] # d
        /\ nq'[u] = d => new'[u] # d
  BY <1>2 DEF OneOwner
<1> QED
  BY <1>1, <1>4, <1>5, <1>6, <1>7 DEF OneOwner

(* The general form of the three moves from a hand to the global queue, or
   out of a hand altogether: worker t gives up c. *)
LEMMA PlaceGive ==
    ASSUME TypeOK, OneOwner, NEW t \in Worker, NEW c \in Ctx, Has(t, c),
           \A u \in Worker \ {t} : q'[u] = q[u] /\ nq'[u] = nq[u] /\ new'[u] = new[u],
           \A d \in Ctx : Has(t, d)' <=> Has(t, d) /\ d # c,
           \A d \in Ctx : /\ q'[t] = d => nq'[t] # d /\ new'[t] # d
                          /\ nq'[t] = d => new'[t] # d,
           gmq' = gmq \/ gmq' = Append(gmq, c)
    PROVE  /\ OneOwner'
           /\ gmq' = gmq => \A d \in Ctx : Owned(d)' <=> Owned(d) /\ d # c
           /\ gmq' = Append(gmq, c) => \A d \in Ctx : Owned(d)' <=> Owned(d)
<1>1. c \notin Elems(gmq)
  BY DEF OneOwner
<1>2. Elems(Append(gmq, c)) = Elems(gmq) \cup {c} /\ Once(Append(gmq, c)) /\ Once(gmq)
  BY <1>1, ElemsAppend DEF TypeOK, OneOwner
<1>3. Once(gmq') /\ Elems(gmq') \subseteq Elems(gmq) \cup {c}
  BY <1>2
<1>4. \A u \in Worker \ {t}, d \in Ctx : Has(u, d)' <=> Has(u, d)
  BY DEF Has
<1>5. \A u \in Worker \ {t} : ~ Has(u, c)
  BY DEF OneOwner
<1>6. \A u \in Worker, d \in Ctx : Has(u, d)' => d \notin Elems(gmq')
  BY <1>3, <1>4, <1>5 DEF OneOwner
<1>7. \A u, v \in Worker, d \in Ctx : Has(u, d)' /\ Has(v, d)' => u = v
  BY <1>4 DEF OneOwner
<1>8. \A u \in Worker, d \in Ctx :
        /\ q'[u] = d => nq'[u] # d /\ new'[u] # d
        /\ nq'[u] = d => new'[u] # d
  BY DEF OneOwner
<1>9. OneOwner'
  BY <1>3, <1>6, <1>7, <1>8 DEF OneOwner
<1>10. ASSUME gmq' = gmq, NEW d \in Ctx PROVE Owned(d)' <=> Owned(d) /\ d # c
  BY <1>1, <1>4, <1>5, <1>10 DEF Owned
<1>11. ASSUME gmq' = Append(gmq, c), NEW d \in Ctx PROVE Owned(d)' <=> Owned(d)
  BY <1>2, <1>4, <1>5, <1>11 DEF Owned
<1> QED
  BY <1>9, <1>10, <1>11

(* Who holds a reference counts. *)
LEMMA Counted ==
    ASSUME RefExact, NEW c \in Ctx
    PROVE  /\ ref[c] \in Nat
           /\ c \in slot \/ c = remote => ref[c] > 0
           /\ \A t \in Worker : ctx[t] = c => ref[c] > 0
           /\ \A t \in Thread : sto[t] = c /\ sop[t] \in {"push", "rel"} => ref[c] > 0
           /\ \A t \in Worker : new[t] = c /\ pc[t] = "init" =>
                ref[c] > 0 /\ (c \in slot => ref[c] > 1)
<1> DEFINE i == Cardinality(Dispatchers(c))
           j == Cardinality(Callers(c))
           k == Cardinality(Launchers(c))
           m == One(c \in slot)
           n == One(c = remote)
<1>1. i \in Nat /\ j \in Nat /\ k \in Nat
  BY HoldersFinite
<1>2. m \in 0 .. 1 /\ n \in 0 .. 1 /\ (c \in slot => m = 1) /\ (c = remote => n = 1)
  BY DEF One
<1>3. ref[c] = i + j + k + m + n
  BY DEF RefExact, Refs
<1>4. ASSUME NEW S, NEW t \in S, IsFiniteSet(S) PROVE Cardinality(S) > 0
  BY <1>4, FS_EmptySet, FS_CardinalityType
<1>5. /\ (\E t \in Worker : ctx[t] = c) => i > 0
      /\ (\E t \in Thread : sto[t] = c /\ sop[t] \in {"push", "rel"}) => j > 0
      /\ (\E t \in Worker : new[t] = c /\ pc[t] = "init") => k > 0
  BY <1>4, HoldersFinite DEF Dispatchers, Callers, Launchers
<1> HIDE DEF i, j, k, m, n
<1>6. ref[c] \in Nat /\ (i > 0 \/ j > 0 \/ k > 0 \/ m = 1 \/ n = 1 => ref[c] > 0)
      /\ (k > 0 /\ m = 1 => ref[c] > 1)
  BY <1>1, <1>2, <1>3
<1> QED
  BY <1>2, <1>5, <1>6

(* A context somebody counts on has its queue, and the queue is not marked. *)
LEMMA CountedLive ==
    ASSUME TypeOK, Lifetime, NEW c \in Ctx, ref[c] # 0
    PROVE  mem[c] = "live" /\ qmem[c] = "live" /\ ~ release[c]
  BY DEF TypeOK, Lifetime, ContextLife, Memory

(* FlagExact depends on ownership, flag, mark and memory only. *)
LEMMA FlagFrame ==
    ASSUME FlagExact, UNCHANGED <<qmem, in_global, release>>,
           \A c \in Ctx : Owned(c)' <=> Owned(c)
    PROVE  FlagExact'
  BY DEF FlagExact

(* ContextLife survives when only counts above zero change. *)
LEMMA LifeFrame ==
    ASSUME \A c \in Ctx : ContextLife(c), UNCHANGED <<mem, qmem, release, queue, in_global>>,
           \A c \in Ctx : ref[c] = 0 => ref'[c] = 0,
           \A c \in Ctx : Owned(c)' <=> Owned(c)
    PROVE  \A c \in Ctx : ContextLife(c)'
  BY DEF ContextLife

(* Deletion survives a step of a thread that is not deleting. *)
LEMMA DeletionFrame ==
    ASSUME TypeOK, Control, Deletion, NEW t \in Thread, Alone(t), ~ Deletes(t)',
           UNCHANGED release,
           \A c \in Ctx : mem[c] = "live" => mem'[c] = "live",
           \A c \in Ctx : ref[c] = 0 /\ mem[c] = "live" => ref'[c] = 0
    PROVE  Deletion'
<1>1. \A u \in Thread : Deletes(u)' => /\ u # t /\ Deletes(u) /\ sto[u] \in Ctx
                                       /\ sto'[u] = sto[u] /\ sop'[u] = sop[u]
  BY DEF TypeOK, Control, SubControl, Alone, Deletes
<1> QED
  BY <1>1 DEF Deletion

(* Dropping need be shown again only for the thread that moved. *)
LEMMA DroppingFrame ==
    ASSUME Dropping, NEW t \in Thread, Alone(t),
           \A c : release[c] => release'[c],
           t \in Worker /\ pc'[t] = "drop" => release'[Dying(t)']
    PROVE  Dropping'
<1>1. \A u \in Worker \ {t} : pc'[u] = pc[u] /\ Dying(u)' = Dying(u)
  BY DEF Alone, Dying, Thread
<1>2. \A u \in Worker \ {t} : pc'[u] = "drop" => release'[Dying(u)']
  BY <1>1 DEF Dropping
<1> QED
  BY <1>2 DEF Dropping

(* Steps that leave queues where and as they are, and delete nothing. *)
LEMMA QuietStep ==
    ASSUME ServerInv, NEW t \in Thread, Alone(t), ~ Deletes(t)',
           UNCHANGED <<mem, queueVars, q, nq, new>>,
           \A c \in Ctx : ref[c] = 0 => ref'[c] = 0,
           t \in Worker => pc'[t] # "drop" \/ pc'[t] = pc[t]
    PROVE  Lifetime' /\ OneOwner' /\ FlagExact'
<1>1. TypeOK /\ Control /\ (\A c \in Ctx : ContextLife(c)) /\ Deletion /\ Dropping
      /\ OneOwner /\ FlagExact
  BY DEF ServerInv, Lifetime
<1>2. UNCHANGED <<mem, qmem, queue, in_global, release, gmq, q, nq, new>>
  BY DEF queueVars
<1>3. OneOwner' /\ \A c \in Ctx : Owned(c)' <=> Owned(c)
  BY <1>1, <1>2, PlaceFrame
<1>4. FlagExact'
  BY <1>1, <1>2, <1>3, FlagFrame
<1>5. \A c \in Ctx : ContextLife(c)'
  BY <1>1, <1>2, <1>3, LifeFrame
<1>6. Deletion'
  BY <1>1, <1>2, DeletionFrame
<1>7. t \in Worker /\ pc'[t] = "drop" => release'[Dying(t)']
  BY <1>1, <1>2 DEF Dropping, Dying
<1>8. Dropping'
  BY <1>1, <1>2, <1>7, DroppingFrame
<1> QED
  BY <1>3, <1>4, <1>5, <1>6, <1>8 DEF Lifetime

(* A push to a context somebody counts on. *)
LEMMA PushStep ==
    ASSUME ServerInv, NEW t \in Thread, Alone(t), ~ Deletes(t)',
           NEW c \in Ctx, ref[c] # 0, NEW m \in Message, MqPush(c, m),
           UNCHANGED <<mem, ref, qmem, release, pc, q, nq, new>>
    PROVE  Lifetime' /\ OneOwner' /\ FlagExact'
<1>1. TypeOK /\ Control /\ (\A d \in Ctx : ContextLife(d)) /\ Deletion /\ Dropping
      /\ OneOwner /\ FlagExact /\ Lifetime
  BY DEF ServerInv, Lifetime
<1>2. mem[c] = "live" /\ qmem[c] = "live" /\ ~ release[c]
  BY <1>1, CountedLive
<1>3. Owned(c) <=> in_global[c]
  BY <1>1, <1>2 DEF FlagExact
<1>4. OneOwner' /\ \A d \in Ctx : Owned(d)' <=> Owned(d) \/ d = c
  <2>1. CASE in_global[c]
    <3>1. UNCHANGED <<gmq, q, nq, new>>
      BY <2>1 DEF MqPush
    <3> QED
      BY <1>1, <1>3, <2>1, <3>1, PlaceFrame
  <2>2. CASE ~ in_global[c]
    <3>1. gmq' = Append(gmq, c)
      BY <2>2 DEF MqPush
    <3> QED
      BY <1>1, <1>3, <2>2, <3>1, PlaceEnter
  <2> QED
    BY <2>1, <2>2
<1>5. /\ in_global'[c] = TRUE /\ \A d \in Ctx \ {c} : in_global'[d] = in_global[d]
      /\ \A d \in Ctx \ {c} : queue'[d] = queue[d]
  BY <1>1 DEF MqPush, TypeOK
<1>6. FlagExact'
  BY <1>1, <1>2, <1>4, <1>5 DEF FlagExact
<1>7. \A d \in Ctx \ {c} : ContextLife(d)'
  BY <1>1, <1>4, <1>5 DEF ContextLife
<1>8. ContextLife(c)'
  BY <1>1, <1>2, <1>5 DEF ContextLife
<1>9. Deletion'
  BY <1>1, DeletionFrame
<1>10. t \in Worker /\ pc'[t] = "drop" => release'[Dying(t)']
  BY <1>1 DEF Dropping, Dying
<1>11. Dropping'
  BY <1>1, <1>10, DroppingFrame
<1> QED
  BY <1>4, <1>6, <1>7, <1>8, <1>9, <1>11 DEF Lifetime

(* Steps that move queues between hands and the global queue. *)
LEMMA MoveStep ==
    ASSUME ServerInv, NEW t \in Worker, Alone(t), OneOwner',
           \A c \in Ctx : Owned(c)' <=> Owned(c),
           UNCHANGED <<mem, ref, qmem, queue, in_global, release, sop, sto>>,
           sop[t] = "none", pc'[t] # "drop"
    PROVE  Lifetime' /\ OneOwner' /\ FlagExact'
<1>1. TypeOK /\ Control /\ (\A d \in Ctx : ContextLife(d)) /\ Deletion /\ Dropping
      /\ FlagExact /\ t \in Thread
  BY DEF ServerInv, Lifetime, Thread
<1>2. FlagExact'
  BY <1>1, FlagFrame
<1>3. \A c \in Ctx : ContextLife(c)'
  BY <1>1, LifeFrame
<1>4. ~ Deletes(t)'
  BY DEF Deletes
<1>5. Deletion'
  BY <1>1, <1>4, DeletionFrame
<1>6. Dropping'
  BY <1>1, DroppingFrame
<1> QED
  BY <1>2, <1>3, <1>5, <1>6 DEF Lifetime

(* A grab never counts a context whose count is zero. *)
LEMMA PushKeepsZero ==
    ASSUME TypeOK, RefExact, NEW t \in Thread, NEW c, NEW m, sop[t] = "none", StartPush(t, c, m)
    PROVE  ~ Deletes(t)' /\ \A d \in Ctx : ref[d] = 0 => ref'[d] = 0
<1>1. CASE c \in slot
  <2>1. c \in Ctx /\ ref[c] # 0
    BY <1>1, Counted DEF TypeOK
  <2> QED
    BY <1>1, <2>1 DEF TypeOK, StartPush, Deletes
<1>2. CASE c \notin slot
  BY <1>2 DEF StartPush, Deletes, subVars
<1> QED
  BY <1>1, <1>2

(* Every step preserves Lifetime, OneOwner and FlagExact. *)
LEMMA QueueStep == ServerInv /\ [Next]_vars => Lifetime' /\ OneOwner' /\ FlagExact'
<1> DEFINE Goal == Lifetime' /\ OneOwner' /\ FlagExact'
<1> SUFFICES ASSUME ServerInv, [Next]_vars PROVE Goal
  OBVIOUS
<1> USE DEF At, ctxVars, queueVars, dispVars, cmdVars, subVars
<1>0. TypeOK /\ Control /\ RefExact /\ Lifetime /\ OneOwner /\ FlagExact
      /\ (\A d \in Ctx : ContextLife(d)) /\ Deletion /\ Dropping
  BY DEF ServerInv, Lifetime
<1> HIDE DEF Goal
<1>1. ASSUME NEW t \in Thread, DoPush(t) PROVE Goal
  <2>1. PICK c \in Ctx : sto[t] = c
    BY <1>1, <1>0 DEF TypeOK, Control, SubControl, DoPush
  <2>2. Alone(t) /\ smsg[t] \in Message /\ ref[c] # 0
    <3>1. Alone(t)
      BY <1>1, <1>0, AloneSub DEF SubStep
    <3>2. smsg[t] \in Message
      BY <1>1, <1>0 DEF Control, SubControl, DoPush
    <3>3. ref[c] # 0
      BY <1>1, <1>0, <2>1, Counted DEF DoPush
    <3> QED
      BY <3>1, <3>2, <3>3
  <2>3. ~ Deletes(t)'
    BY <1>1, <1>0 DEF TypeOK, Deletes, DoPush
  <2>4. MqPush(c, smsg[t]) /\ UNCHANGED <<mem, ref, qmem, release, pc, q, nq, new>>
    BY <1>1, <2>1 DEF DoPush
  <2> QED
    BY <2>2, <2>3, <2>4, PushStep DEF Goal
<1>2. ASSUME NEW t \in Thread, DoRelease(t) PROVE Goal
  <2>1. PICK c \in Ctx : sto[t] = c
    BY <1>2, <1>0 DEF TypeOK, Control, SubControl, DoRelease
  <2>2. Alone(t) /\ ref[c] \in Nat /\ ref[c] > 0
    BY <1>2, <1>0, <2>1, AloneSub, Counted DEF DoRelease, SubStep
  <2>3. /\ UNCHANGED <<mem, qmem, queue, in_global, release, gmq, q, nq, new, pc>>
        /\ ref' = [ref EXCEPT ![c] = ref[c] - 1]
    BY <1>2, <2>1 DEF DoRelease
  <2>4. ref'[c] = ref[c] - 1 /\ \A d \in Ctx \ {c} : ref'[d] = ref[d]
    BY <1>0, <2>3 DEF TypeOK
  <2>5. mem[c] = "live" /\ qmem[c] = "live" /\ ~ release[c]
    BY <1>0, <2>2, CountedLive
  <2>6. CASE ref[c] # 1
    <3>1. ~ Deletes(t)'
      BY <1>2, <1>0, <2>1, <2>6 DEF TypeOK, Deletes, DoRelease, EndSub
    <3>2. \A d \in Ctx : ref[d] = 0 => ref'[d] = 0
      BY <2>2, <2>4
    <3> QED
      BY <2>2, <2>3, <3>1, <3>2, QuietStep DEF Goal
  <2>7. CASE ref[c] = 1
    <3>1. sop' = [sop EXCEPT ![t] = "mark"] /\ UNCHANGED sto
      BY <1>2, <2>1, <2>7 DEF DoRelease
    <3>2. sop'[t] = "mark" /\ sto'[t] = c /\ ref'[c] = 0
      BY <1>0, <2>1, <2>4, <2>7, <3>1 DEF TypeOK
    <3>3. \A d \in Ctx : ref[d] = 0 => ref'[d] = 0
      BY <2>2, <2>4
    <3>4. \A u \in Thread \ {t} : Deletes(u)' =>
            Deletes(u) /\ sto[u] \in Ctx \ {c} /\ sto'[u] = sto[u] /\ sop'[u] = sop[u]
      BY <1>0, <2>2, <2>7 DEF TypeOK, Control, SubControl, Alone, Deletes, Deletion
    <3>5. Deletion'
      BY <1>0, <2>3, <2>4, <2>5, <3>2, <3>4 DEF Deletion
    <3>6. OneOwner' /\ \A d \in Ctx : Owned(d)' <=> Owned(d)
      BY <1>0, <2>3, PlaceFrame
    <3>7. FlagExact'
      BY <1>0, <2>3, <3>6, FlagFrame
    <3>8. \A d \in Ctx : ContextLife(d)'
      BY <1>0, <2>3, <3>3, <3>6, LifeFrame
    <3>9. Dropping'
      BY <1>0, <2>3 DEF Dropping, Dying
    <3> QED
      BY <3>5, <3>6, <3>7, <3>8, <3>9 DEF Goal, Lifetime
  <2> QED
    BY <2>6, <2>7
<1>3. ASSUME NEW t \in Thread, DoMark(t) PROVE Goal
  <2>1. PICK c \in Ctx : sto[t] = c
    BY <1>3, <1>0 DEF TypeOK, Control, SubControl, DoMark
  <2>2. Alone(t)
    BY <1>3, <1>0, AloneSub DEF SubStep
  <2>3. mem[c] = "live" /\ ref[c] = 0 /\ ~ release[c]
    BY <1>3, <1>0, <2>1 DEF Deletion, Deletes, DoMark
  <2>4. qmem[c] = "live"
    BY <1>0, <2>3 DEF TypeOK, ContextLife, Memory
  <2>5. /\ UNCHANGED <<mem, ref, qmem, queue, in_global, q, nq, new, pc, sto>>
        /\ sop' = [sop EXCEPT ![t] = "free"]
        /\ release' = [release EXCEPT ![c] = TRUE]
        /\ gmq' = IF in_global[c] THEN gmq ELSE Append(gmq, c)
    BY <1>3, <2>1 DEF DoMark, MqMarkRelease
  <2>6. Owned(c) <=> in_global[c]
    BY <1>0, <2>3, <2>4 DEF FlagExact
  <2>7. OneOwner' /\ \A d \in Ctx : Owned(d)' <=> Owned(d) \/ d = c
    <3>1. CASE in_global[c]
      BY <1>0, <2>5, <2>6, <3>1, PlaceFrame
    <3>2. CASE ~ in_global[c]
      BY <1>0, <2>5, <2>6, <3>2, PlaceEnter
    <3> QED
      BY <3>1, <3>2
  <2>8. release'[c] = TRUE /\ \A d \in Ctx \ {c} : release'[d] = release[d]
    BY <1>0, <2>5 DEF TypeOK
  <2>9. FlagExact'
    BY <1>0, <2>5, <2>7, <2>8 DEF FlagExact
  <2>10. \A d \in Ctx \ {c} : ContextLife(d)'
    BY <1>0, <2>5, <2>7, <2>8 DEF ContextLife
  <2>11. ContextLife(c)'
    BY <1>0, <2>3, <2>4, <2>5, <2>8 DEF ContextLife
  <2>12. sop'[t] = "free" /\ sto'[t] = c /\ sop[t] = "mark"
    BY <1>3, <1>0, <2>1, <2>5 DEF TypeOK, DoMark
  <2>13. \A u \in Thread \ {t} : Deletes(u)' =>
           Deletes(u) /\ sto[u] \in Ctx \ {c} /\ sto'[u] = sto[u] /\ sop'[u] = sop[u]
    BY <1>0, <2>1, <2>2, <2>12 DEF TypeOK, Control, SubControl, Alone, Deletes, Deletion
  <2>14. Deletion'
    BY <1>0, <2>3, <2>5, <2>8, <2>12, <2>13 DEF Deletion
  <2>15. Dropping'
    BY <1>0, <2>5, InHand DEF TypeOK, Dropping, Dying
  <2> QED
    BY <2>7, <2>9, <2>10, <2>11, <2>14, <2>15 DEF Goal, Lifetime
<1>4. ASSUME NEW t \in Thread, DoFree(t) PROVE Goal
  <2>1. PICK c \in Ctx : sto[t] = c
    BY <1>4, <1>0 DEF TypeOK, Control, SubControl, DoFree
  <2>2. Alone(t)
    BY <1>4, <1>0, AloneSub DEF SubStep
  <2>3. mem[c] = "live" /\ ref[c] = 0 /\ release[c]
    BY <1>4, <1>0, <2>1 DEF Deletion, Deletes, DoFree
  <2>4. /\ UNCHANGED <<ref, qmem, queue, in_global, release, gmq, q, nq, new, pc>>
        /\ mem' = [mem EXCEPT ![c] = "freed"] /\ sop[t] = "free"
        /\ sop' = [sop EXCEPT ![t] = "none"]
    BY <1>4, <2>1 DEF DoFree, EndSub
  <2>5. mem'[c] = "freed" /\ \A d \in Ctx \ {c} : mem'[d] = mem[d]
    BY <1>0, <2>4 DEF TypeOK
  <2>6. OneOwner' /\ \A d \in Ctx : Owned(d)' <=> Owned(d)
    BY <1>0, <2>4, PlaceFrame
  <2>7. FlagExact'
    BY <1>0, <2>4, <2>6, FlagFrame
  <2>8. \A d \in Ctx : ContextLife(d)'
    BY <1>0, <2>3, <2>4, <2>5, <2>6 DEF ContextLife
  <2>9. \A u \in Thread : Deletes(u)' =>
          Deletes(u) /\ sto[u] \in Ctx \ {c} /\ sto'[u] = sto[u] /\ sop'[u] = sop[u]
    BY <1>0, <2>1, <2>2, <2>4 DEF TypeOK, Control, SubControl, Alone, Deletes, Deletion
  <2>10. Deletion'
    BY <1>0, <2>4, <2>5, <2>9 DEF Deletion
  <2>11. Dropping'
    BY <1>0, <2>4 DEF Dropping, Dying
  <2> QED
    BY <2>6, <2>7, <2>8, <2>10, <2>11 DEF Goal, Lifetime
<1>5. ASSUME NEW t \in Worker, Fetch(t) PROVE Goal
  <2>1. Alone(t) /\ t \in Thread
    BY <1>5, <1>0, AloneWorker DEF Dispatch, Thread
  <2>2. PICK h \in Ctx : h = Head(gmq)
    BY <1>5, <1>0, HeadTailProperties DEF TypeOK, Fetch
  <2>3. /\ gmq # <<>> /\ gmq' = Tail(gmq) /\ q[t] = NULL /\ q' = [q EXCEPT ![t] = h]
        /\ pc' = [pc EXCEPT ![t] = "grab"] /\ sop[t] = "none"
        /\ UNCHANGED <<nq, new, mem, ref, qmem, queue, in_global, release, sop, sto>>
    BY <1>5, <1>0, <2>2 DEF Control, WorkerControl, Fetch, Goto
  <2>4. q'[t] = h /\ pc'[t] = "grab"
    BY <1>0, <2>1, <2>3 DEF TypeOK
  <2>5. \A d \in Ctx : Has(t, d)' <=> Has(t, d) \/ d = h
    BY <2>3, <2>4, SetsAssumption DEF Has
  <2>6. ~ Has(t, h) =>
          \A d \in Ctx : /\ q'[t] = d => nq'[t] # d /\ new'[t] # d
                         /\ nq'[t] = d => new'[t] # d
    BY <1>0, <2>3, <2>4 DEF OneOwner, Has
  <2>7. OneOwner' /\ \A d \in Ctx : Owned(d)' <=> Owned(d) \/ d = h
    BY <1>0, <2>1, <2>2, <2>3, <2>5, <2>6, PlaceTake DEF Alone
  <2>8. Owned(h)
    BY <1>0, <2>2, <2>3, ElemsTail DEF TypeOK, OneOwner, Owned
  <2> QED
    BY <2>1, <2>3, <2>4, <2>7, <2>8, MoveStep DEF Goal
<1>6. ASSUME NEW t \in Worker, Grab(t) PROVE Goal
  <2>1. Alone(t) /\ t \in Thread
    BY <1>6, <1>0, AloneWorker DEF Dispatch, Thread
  <2>2. ~ Deletes(t)' /\ pc'[t] # "drop"
    BY <1>6, <1>0, <2>1 DEF TypeOK, Grab, Deletes, Goto
  <2>3. \A d \in Ctx : ref[d] = 0 => ref'[d] = 0
    <3>1. q[t] \in slot => q[t] \in Ctx /\ ref[q[t]] # 0
      BY <1>0, Counted DEF TypeOK
    <3> QED
      BY <1>6, <1>0, <3>1 DEF TypeOK, Grab
  <2> QED
    BY <1>6, <2>1, <2>2, <2>3, QuietStep DEF Grab, Goal
<1>7. ASSUME NEW t \in Worker, MqRelease(t) PROVE Goal
  <2>1. Alone(t) /\ t \in Thread
    BY <1>7, <1>0, AloneWorker DEF Dispatch, Thread
  <2>2. PICK c \in Ctx : Dying(t) = c
    BY <1>7, <1>0, InHand DEF MqRelease
  <2>3. ~ Deletes(t)'
    BY <1>7 DEF MqRelease, Deletes
  <2>4. CASE release[c]
    <3>1. UNCHANGED <<mem, ref, queueVars, q, nq, new>>
      BY <1>7, <2>2, <2>4 DEF MqRelease
    <3>2. OneOwner' /\ \A d \in Ctx : Owned(d)' <=> Owned(d)
      BY <1>0, <3>1, PlaceFrame
    <3>3. FlagExact'
      BY <1>0, <3>1, <3>2, FlagFrame
    <3>4. \A d \in Ctx : ContextLife(d)'
      BY <1>0, <3>1, <3>2, LifeFrame
    <3>5. Deletion'
      BY <1>0, <2>1, <2>3, <3>1, DeletionFrame
    <3>6. release'[Dying(t)']
      BY <2>2, <2>4, <3>1 DEF Dying
    <3>7. Dropping'
      BY <1>0, <2>1, <3>1, <3>6, DroppingFrame
    <3> QED
      BY <3>2, <3>3, <3>4, <3>5, <3>7 DEF Goal, Lifetime
  <2>5. CASE ~ release[c]
    <3>1. /\ gmq' = Append(gmq, c) /\ LeaveDying(t) /\ sop[t] = "none" /\ pc[t] = "mqrel"
          /\ UNCHANGED <<mem, ref, qmem, queue, in_global, release, nq, sop, sto>>
      BY <1>7, <2>2, <2>5 DEF MqRelease
    <3>2. pc'[t] # "drop"
      BY <1>0, <2>1, <3>1 DEF TypeOK, LeaveDying, Goto
    <3>3. Has(t, c)
      BY <2>2 DEF Dying, Has
    <3>4. /\ \A d \in Ctx : Has(t, d)' <=> Has(t, d) /\ d # c
          /\ \A d \in Ctx : /\ q'[t] = d => nq'[t] # d /\ new'[t] # d
                            /\ nq'[t] = d => new'[t] # d
      BY <1>0, <2>2, <3>1, SetsAssumption
         DEF TypeOK, Control, WorkerControl, OneOwner, LeaveDying, Dying, Has
    <3>5. OneOwner' /\ \A d \in Ctx : Owned(d)' <=> Owned(d)
      BY <1>0, <2>1, <3>1, <3>3, <3>4, PlaceGive DEF Alone
    <3> QED
      BY <2>1, <3>1, <3>2, <3>5, MoveStep DEF Goal
  <2> QED
    BY <2>4, <2>5
<1>8. ASSUME NEW t \in Worker, DropMessage(t) PROVE Goal
  <2>1. Alone(t) /\ t \in Thread
    BY <1>8, <1>0, AloneWorker DEF Dispatch, Thread
  <2>2. PICK c \in Ctx : Dying(t) = c
    BY <1>8, <1>0, InHand DEF DropMessage
  <2>3. /\ queue[c] # <<>> /\ queue' = [queue EXCEPT ![c] = Tail(queue[c])] /\ sop[t] = "none"
        /\ UNCHANGED <<mem, qmem, in_global, release, gmq, q, nq, new, pc>>
    BY <1>8, <2>2 DEF DropMessage
  <2>4. ~ Deletes(t)' /\ \A d \in Ctx : ref[d] = 0 => ref'[d] = 0
    BY <1>8, <1>0, <2>1, PushKeepsZero DEF DropMessage
  <2>5. OneOwner' /\ \A d \in Ctx : Owned(d)' <=> Owned(d)
    BY <1>0, <2>3, PlaceFrame
  <2>6. FlagExact'
    BY <1>0, <2>3, <2>5, FlagFrame
  <2>7. \A d \in Ctx \ {c} : queue'[d] = queue[d]
    BY <1>0, <2>3 DEF TypeOK
  <2>8. \A d \in Ctx : ContextLife(d)'
    BY <1>0, <2>3, <2>4, <2>5, <2>7 DEF ContextLife
  <2>9. Deletion'
    BY <1>0, <2>1, <2>3, <2>4, DeletionFrame
  <2>10. Dropping'
    BY <1>0, <2>3 DEF Dropping, Dying
  <2> QED
    BY <2>5, <2>6, <2>8, <2>9, <2>10 DEF Goal, Lifetime
<1>9. ASSUME NEW t \in Worker, FreeQueue(t) PROVE Goal
  <2>1. Alone(t) /\ t \in Thread
    BY <1>9, <1>0, AloneWorker DEF Dispatch, Thread
  <2>2. PICK c \in Ctx : Dying(t) = c
    BY <1>9, <1>0, InHand DEF FreeQueue
  <2>3. /\ queue[c] = <<>> /\ in_global' = [in_global EXCEPT ![c] = FALSE]
        /\ qmem' = [qmem EXCEPT ![c] = "freed"] /\ LeaveDying(t)
        /\ pc[t] = "drop" /\ sop[t] = "none"
        /\ UNCHANGED <<mem, ref, queue, release, gmq, nq, sop, sto>>
    BY <1>9, <2>2 DEF FreeQueue
  <2>4. Has(t, c)
    BY <2>2 DEF Dying, Has
  <2>5. /\ \A d \in Ctx : Has(t, d)' <=> Has(t, d) /\ d # c
        /\ \A d \in Ctx : /\ q'[t] = d => nq'[t] # d /\ new'[t] # d
                          /\ nq'[t] = d => new'[t] # d
    BY <1>0, <2>2, <2>3, SetsAssumption
       DEF TypeOK, Control, WorkerControl, OneOwner, LeaveDying, Dying, Has
  <2>6. OneOwner' /\ \A d \in Ctx : Owned(d)' <=> Owned(d) /\ d # c
    BY <1>0, <2>1, <2>3, <2>4, <2>5, PlaceGive DEF Alone
  <2>7. /\ qmem'[c] = "freed" /\ \A d \in Ctx \ {c} : qmem'[d] = qmem[d]
        /\ \A d \in Ctx \ {c} : in_global'[d] = in_global[d]
    BY <1>0, <2>3 DEF TypeOK
  <2>8. FlagExact'
    BY <1>0, <2>3, <2>6, <2>7 DEF FlagExact
  <2>9. release[c] /\ mem[c] # "none"
    BY <1>0, <2>2, <2>3 DEF Dropping, ContextLife
  <2>10. \A d \in Ctx \ {c} : ContextLife(d)'
    BY <1>0, <2>3, <2>6, <2>7 DEF ContextLife
  <2>11. ContextLife(c)'
    BY <1>0, <2>3, <2>6, <2>7, <2>9 DEF ContextLife
  <2>12. ~ Deletes(t)' /\ pc'[t] # "drop"
    BY <1>0, <2>1, <2>3 DEF TypeOK, Deletes, LeaveDying, Goto
  <2>13. Deletion'
    BY <1>0, <2>1, <2>3, <2>12, DeletionFrame
  <2>14. Dropping'
    BY <1>0, <2>1, <2>3, <2>12, DroppingFrame
  <2> QED
    BY <2>6, <2>8, <2>10, <2>11, <2>13, <2>14 DEF Goal, Lifetime
<1>10. ASSUME NEW t \in Worker, Pop(t) PROVE Goal
  <2>1. Alone(t) /\ t \in Thread
    BY <1>10, <1>0, AloneWorker DEF Dispatch, Thread
  <2>2. PICK c \in Ctx : q[t] = c
    BY <1>10, <1>0, InHand DEF Pop
  <2>3. /\ queue[c] # <<>> /\ queue' = [queue EXCEPT ![c] = Tail(queue[c])] /\ sop[t] = "none"
        /\ UNCHANGED <<mem, ref, qmem, in_global, release, gmq, q, nq, new, sop>>
    BY <1>10, <2>2 DEF Pop
  <2>4. ~ Deletes(t)' /\ pc'[t] # "drop"
    BY <1>10, <1>0, <2>1, <2>3 DEF TypeOK, Deletes, Pop, Goto
  <2>5. OneOwner' /\ \A d \in Ctx : Owned(d)' <=> Owned(d)
    BY <1>0, <2>3, PlaceFrame
  <2>6. FlagExact'
    BY <1>0, <2>3, <2>5, FlagFrame
  <2>7. \A d \in Ctx \ {c} : queue'[d] = queue[d]
    BY <1>0, <2>3 DEF TypeOK
  <2>8. \A d \in Ctx : ContextLife(d)'
    BY <1>0, <2>3, <2>5, <2>7 DEF ContextLife
  <2>9. Deletion'
    BY <1>0, <2>1, <2>3, <2>4, DeletionFrame
  <2>10. Dropping'
    BY <1>0, <2>1, <2>3, <2>4, DroppingFrame
  <2> QED
    BY <2>5, <2>6, <2>8, <2>9, <2>10 DEF Goal, Lifetime
<1>11. ASSUME NEW t \in Worker, PopEmpty(t) PROVE Goal
  <2>1. Alone(t) /\ t \in Thread
    BY <1>11, <1>0, AloneWorker DEF Dispatch, Thread
  <2>2. PICK c \in Ctx : q[t] = c /\ ctx[t] = c
    BY <1>11, <1>0, InHand DEF PopEmpty, Control, WorkerControl
  <2>3. /\ queue[c] = <<>> /\ in_global' = [in_global EXCEPT ![c] = FALSE]
        /\ q' = [q EXCEPT ![t] = NULL] /\ pc' = [pc EXCEPT ![t] = "fetch"]
        /\ sop' = [sop EXCEPT ![t] = "rel"]
        /\ UNCHANGED <<mem, ref, qmem, queue, release, gmq, nq, new>>
    BY <1>11, <2>2 DEF PopEmpty, StartRelease, Goto
  <2>4. ~ release[c]
    BY <1>0, <2>2, Counted, CountedLive
  <2>5. Has(t, c)
    BY <2>2 DEF Has
  <2>6. q'[t] = NULL
    BY <1>0, <2>3 DEF TypeOK
  <2>7. /\ \A d \in Ctx : Has(t, d)' <=> Has(t, d) /\ d # c
        /\ \A d \in Ctx : /\ q'[t] = d => nq'[t] # d /\ new'[t] # d
                          /\ nq'[t] = d => new'[t] # d
    BY <1>0, <2>2, <2>3, <2>6, SetsAssumption DEF OneOwner, Has
  <2>8. OneOwner' /\ \A d \in Ctx : Owned(d)' <=> Owned(d) /\ d # c
    BY <1>0, <2>1, <2>3, <2>5, <2>7, PlaceGive DEF Alone
  <2>9. in_global'[c] = FALSE /\ \A d \in Ctx \ {c} : in_global'[d] = in_global[d]
    BY <1>0, <2>3 DEF TypeOK
  <2>10. FlagExact'
    BY <1>0, <2>3, <2>4, <2>8, <2>9 DEF FlagExact
  <2>11. \A d \in Ctx : ContextLife(d)'
    BY <1>0, <2>3, <2>8, <2>9 DEF ContextLife
  <2>12. ~ Deletes(t)' /\ pc'[t] # "drop"
    BY <1>0, <2>1, <2>3 DEF TypeOK, Deletes
  <2>13. Deletion'
    BY <1>0, <2>1, <2>3, <2>12, DeletionFrame
  <2>14. Dropping'
    BY <1>0, <2>1, <2>3, <2>12, DroppingFrame
  <2> QED
    BY <2>8, <2>10, <2>11, <2>13, <2>14 DEF Goal, Lifetime
<1>12. ASSUME NEW t \in Worker, Length(t) PROVE Goal
  <2>1. Alone(t) /\ t \in Thread
    BY <1>12, <1>0, AloneWorker DEF Dispatch, Thread
  <2>2. ~ Deletes(t)' /\ pc'[t] # "drop"
    BY <1>12, <1>0, <2>1 DEF TypeOK, Deletes, Goto, Length
  <2>3. UNCHANGED <<mem, ref, queueVars, q, nq, new>>
    BY <1>12 DEF Length
  <2> QED
    BY <2>1, <2>2, <2>3, QuietStep DEF Goal
<1>13. ASSUME NEW t \in Worker, Return(t) PROVE Goal
  <2>1. Alone(t) /\ t \in Thread
    BY <1>13, <1>0, AloneWorker DEF Dispatch, Thread
  <2>2. ~ Deletes(t)' /\ pc'[t] # "drop"
    BY <1>13, <1>0, <2>1 DEF TypeOK, Deletes, Goto, Return
  <2>3. UNCHANGED <<mem, ref, queueVars, q, nq, new>>
    BY <1>13 DEF Return
  <2> QED
    BY <2>1, <2>2, <2>3, QuietStep DEF Goal
<1>14. ASSUME NEW t \in Worker, NextQueue(t) PROVE Goal
  <2>1. Alone(t) /\ t \in Thread
    BY <1>14, <1>0, AloneWorker DEF Dispatch, Thread
  <2>2. CASE gmq = <<>>
    <3>1. ~ Deletes(t)' /\ pc'[t] # "drop"
      BY <1>14, <1>0, <2>1, <2>2 DEF TypeOK, Deletes, Goto, NextQueue
    <3>2. UNCHANGED <<mem, ref, queueVars, q, nq, new>>
      BY <1>14, <2>2 DEF NextQueue
    <3> QED
      BY <2>1, <3>1, <3>2, QuietStep DEF Goal
  <2>3. CASE gmq # <<>>
    <3>1. PICK h \in Ctx : h = Head(gmq)
      BY <1>0, <2>3, HeadTailProperties DEF TypeOK
    <3>2. /\ gmq' = Tail(gmq) /\ nq[t] = NULL /\ nq' = [nq EXCEPT ![t] = h]
          /\ pc' = [pc EXCEPT ![t] = "back"] /\ sop[t] = "none"
          /\ UNCHANGED <<q, new, mem, ref, qmem, queue, in_global, release, sop, sto>>
      BY <1>14, <1>0, <2>3, <3>1 DEF Control, WorkerControl, NextQueue, Goto
    <3>3. nq'[t] = h /\ pc'[t] = "back"
      BY <1>0, <2>1, <3>2 DEF TypeOK
    <3>4. \A d \in Ctx : Has(t, d)' <=> Has(t, d) \/ d = h
      BY <3>2, <3>3, SetsAssumption DEF Has
    <3>5. ~ Has(t, h) =>
            \A d \in Ctx : /\ q'[t] = d => nq'[t] # d /\ new'[t] # d
                           /\ nq'[t] = d => new'[t] # d
      BY <1>0, <3>2, <3>3 DEF OneOwner, Has
    <3>6. OneOwner' /\ \A d \in Ctx : Owned(d)' <=> Owned(d) \/ d = h
      BY <1>0, <2>1, <2>3, <3>1, <3>2, <3>4, <3>5, PlaceTake DEF Alone
    <3>7. Owned(h)
      BY <1>0, <2>3, <3>1, ElemsTail DEF TypeOK, OneOwner, Owned
    <3> QED
      BY <2>1, <3>2, <3>3, <3>6, <3>7, MoveStep DEF Goal
  <2> QED
    BY <2>2, <2>3
<1>15. ASSUME NEW t \in Worker, PushBack(t) PROVE Goal
  <2>1. Alone(t) /\ t \in Thread
    BY <1>15, <1>0, AloneWorker DEF Dispatch, Thread
  <2>2. PICK c \in Ctx : q[t] = c
    BY <1>15, <1>0, InHand DEF PushBack
  <2>3. /\ gmq' = Append(gmq, c) /\ q' = [q EXCEPT ![t] = nq[t]] /\ nq' = [nq EXCEPT ![t] = NULL]
        /\ pc' = [pc EXCEPT ![t] = "relctx"] /\ sop[t] = "none"
        /\ UNCHANGED <<new, mem, ref, qmem, queue, in_global, release, sop, sto>>
    BY <1>15, <2>2 DEF PushBack, Goto
  <2>4. q'[t] = nq[t] /\ nq'[t] = NULL /\ pc'[t] = "relctx"
    BY <1>0, <2>1, <2>3 DEF TypeOK
  <2>5. Has(t, c)
    BY <2>2 DEF Has
  <2>6. /\ \A d \in Ctx : Has(t, d)' <=> Has(t, d) /\ d # c
        /\ \A d \in Ctx : /\ q'[t] = d => nq'[t] # d /\ new'[t] # d
                          /\ nq'[t] = d => new'[t] # d
    BY <1>0, <2>2, <2>3, <2>4, SetsAssumption DEF OneOwner, Has
  <2>7. OneOwner' /\ \A d \in Ctx : Owned(d)' <=> Owned(d)
    BY <1>0, <2>1, <2>3, <2>5, <2>6, PlaceGive DEF Alone
  <2> QED
    BY <2>1, <2>3, <2>4, <2>7, MoveStep DEF Goal
<1>16. ASSUME NEW t \in Worker, ReleaseCtx(t) PROVE Goal
  <2>1. Alone(t) /\ t \in Thread
    BY <1>16, <1>0, AloneWorker DEF Dispatch, Thread
  <2>2. ~ Deletes(t)' /\ pc'[t] # "drop"
    BY <1>16, <1>0, <2>1 DEF TypeOK, Deletes, Goto, ReleaseCtx, StartRelease
  <2>3. UNCHANGED <<mem, ref, queueVars, q, nq, new>>
    BY <1>16 DEF ReleaseCtx
  <2> QED
    BY <2>1, <2>2, <2>3, QuietStep DEF Goal
<1>17. ASSUME NEW t \in Worker, NEW d \in Ctx, Send(t, d) PROVE Goal
  <2>1. Alone(t) /\ t \in Thread
    BY <1>17, <1>0, AloneWorker DEF Command, Thread
  <2>2. ~ Deletes(t)' /\ \A c \in Ctx : ref[c] = 0 => ref'[c] = 0
    BY <1>17, <1>0, <2>1, PushKeepsZero DEF Send
  <2>3. UNCHANGED <<mem, queueVars, q, nq, new, pc>>
    BY <1>17 DEF Send
  <2> QED
    BY <2>1, <2>2, <2>3, QuietStep DEF Goal
<1>18. ASSUME NEW t \in Worker, SendRemote(t) PROVE Goal
  <2>1. Alone(t) /\ t \in Thread
    BY <1>18, <1>0, AloneWorker DEF Command, Thread
  <2>2. PICK c \in Ctx : remote = c
    BY <1>18, <1>0 DEF TypeOK, SendRemote
  <2>3. ref[c] # 0 /\ ~ Deletes(t)'
    BY <1>18, <1>0, <2>2, Counted DEF SendRemote, Deletes
  <2>4. Data(Sender(t)) \in Message
    BY <1>18, <1>0, InHand, MessageType DEF SendRemote
  <2>5. MqPush(c, Data(Sender(t))) /\ UNCHANGED <<mem, ref, qmem, release, pc, q, nq, new>>
    BY <1>18, <2>2 DEF SendRemote
  <2> QED
    BY <2>1, <2>3, <2>4, <2>5, PushStep DEF Goal
<1>19. ASSUME NEW t \in Ext, NEW d \in Ctx, ExtSend(t, d) PROVE Goal
  <2>1. Alone(t) /\ t \in Thread
    BY <1>19, <1>0, AloneExt DEF Thread
  <2>2. ~ Deletes(t)' /\ \A c \in Ctx : ref[c] = 0 => ref'[c] = 0
    BY <1>19, <1>0, <2>1, PushKeepsZero DEF ExtSend
  <2>3. UNCHANGED <<mem, queueVars, q, nq, new, pc>>
    BY <1>19 DEF ExtSend
  <2> QED
    BY <2>1, <2>2, <2>3, QuietStep DEF Goal
<1>20. ASSUME NEW t \in Worker, NEW d \in Ctx, SetMonitor(t, d) PROVE Goal
  <2>1. Alone(t) /\ t \in Thread
    BY <1>20, <1>0, AloneWorker DEF Command, Thread
  <2>2. ~ Deletes(t)' /\ pc'[t] # "drop"
    BY <1>20, <1>0, <2>1 DEF TypeOK, Deletes, Goto, SetMonitor
  <2>3. UNCHANGED <<mem, ref, queueVars, q, nq, new>>
    BY <1>20 DEF SetMonitor
  <2> QED
    BY <2>1, <2>2, <2>3, QuietStep DEF Goal
<1>21. ASSUME NEW t \in Worker, NEW d \in Ctx, Kill(t, d) PROVE Goal
  <2>1. Alone(t) /\ t \in Thread
    BY <1>21, <1>0, AloneWorker DEF Command, Thread
  <2>2. ~ Deletes(t)' /\ \A c \in Ctx : ref[c] = 0 => ref'[c] = 0
    <3>1. CASE monitor # NULL
      BY <1>21, <1>0, <2>1, <3>1, PushKeepsZero DEF Kill
    <3>2. CASE monitor = NULL
      BY <1>21, <3>2 DEF Kill, Deletes
    <3> QED
      BY <3>1, <3>2
  <2>3. UNCHANGED <<mem, queueVars, q, nq, new>> /\ pc'[t] # "drop"
    BY <1>21, <1>0, <2>1 DEF TypeOK, Kill, Goto
  <2> QED
    BY <2>1, <2>2, <2>3, QuietStep DEF Goal
<1>22. ASSUME NEW t \in Worker, Retire(t) PROVE Goal
  <2>1. Alone(t) /\ t \in Thread
    BY <1>22, <1>0, AloneWorker DEF Command, Thread
  <2>2. ~ Deletes(t)' /\ pc'[t] # "drop"
    BY <1>22, <1>0, <2>1 DEF TypeOK, Deletes, Goto, Retire, TakeOut, StartRelease
  <2>3. UNCHANGED <<mem, ref, queueVars, q, nq, new>>
    BY <1>22 DEF Retire
  <2> QED
    BY <2>1, <2>2, <2>3, QuietStep DEF Goal
<1>23. ASSUME NEW t \in Worker, Abort(t) PROVE Goal
  <2>1. Alone(t) /\ t \in Thread
    BY <1>23, <1>0, AloneWorker DEF Command, Thread
  <2>2. ~ Deletes(t)' /\ pc'[t] # "drop"
    BY <1>23, <1>0, <2>1 DEF TypeOK, Deletes, Goto, Abort
  <2>3. UNCHANGED <<mem, ref, queueVars, q, nq, new>>
    BY <1>23 DEF Abort
  <2> QED
    BY <2>1, <2>2, <2>3, QuietStep DEF Goal
<1>24. ASSUME NEW t \in Worker, NEW d \in Ctx, AbortVisit(t, d) PROVE Goal
  <2>1. Alone(t) /\ t \in Thread
    BY <1>24, <1>0, AloneWorker DEF Command, Thread
  <2>2. ~ Deletes(t)' /\ pc'[t] # "drop"
    BY <1>24, <1>0, <2>1 DEF TypeOK, Deletes, Goto, AbortVisit, TakeOut, StartRelease
  <2>3. UNCHANGED <<mem, ref, queueVars, q, nq, new>>
    BY <1>24 DEF AbortVisit
  <2> QED
    BY <2>1, <2>2, <2>3, QuietStep DEF Goal
<1>25. ASSUME NEW t \in Worker, AbortPass(t) PROVE Goal
  <2>1. Alone(t) /\ t \in Thread
    BY <1>25, <1>0, AloneWorker DEF Command, Thread
  <2>2. ~ Deletes(t)' /\ pc'[t] # "drop"
    BY <1>25, <1>0, <2>1 DEF TypeOK, Deletes, Goto, AbortPass
  <2>3. UNCHANGED <<mem, ref, queueVars, q, nq, new>>
    BY <1>25 DEF AbortPass
  <2> QED
    BY <2>1, <2>2, <2>3, QuietStep DEF Goal
<1>26. ASSUME NEW t \in Worker, NEW c \in Ctx, Launch(t, c) PROVE Goal
  <2>1. Alone(t) /\ t \in Thread
    BY <1>26, <1>0, AloneWorker DEF Command, Thread
  <2>2. /\ mem[c] = "none" /\ mem' = [mem EXCEPT ![c] = "live"]
        /\ ref' = [ref EXCEPT ![c] = 2] /\ qmem' = [qmem EXCEPT ![c] = "live"]
        /\ in_global' = [in_global EXCEPT ![c] = TRUE]
        /\ new[t] = NULL /\ new' = [new EXCEPT ![t] = c] /\ pc' = [pc EXCEPT ![t] = "init"]
        /\ sop[t] = "none" /\ UNCHANGED <<queue, release, gmq, q, nq, sop, sto>>
    BY <1>26, <1>0 DEF Control, WorkerControl, Launch, MqCreate, Goto
  <2>3. /\ mem'[c] = "live" /\ qmem'[c] = "live" /\ ref'[c] = 2 /\ in_global'[c] = TRUE
        /\ new'[t] = c /\ pc'[t] = "init"
        /\ \A d \in Ctx \ {c} : /\ mem'[d] = mem[d] /\ qmem'[d] = qmem[d]
                                /\ ref'[d] = ref[d] /\ in_global'[d] = in_global[d]
    BY <1>0, <2>1, <2>2 DEF TypeOK
  <2>4. ~ Owned(c) /\ ~ release[c] /\ queue[c] = <<>>
    BY <1>0, <2>2 DEF ContextLife
  <2>5. \A d \in Ctx : Has(t, d)' <=> Has(t, d) \/ d = c
    BY <2>2, <2>3, SetsAssumption DEF Has
  <2>6. ~ Has(t, c) =>
          \A d \in Ctx : /\ q'[t] = d => nq'[t] # d /\ new'[t] # d
                         /\ nq'[t] = d => new'[t] # d
    BY <1>0, <2>2, <2>3 DEF OneOwner, Has
  <2>7. OneOwner' /\ \A d \in Ctx : Owned(d)' <=> Owned(d) \/ d = c
    BY <1>0, <2>1, <2>2, <2>4, <2>5, <2>6, PlaceTake DEF Alone
  <2>8. FlagExact'
    BY <1>0, <2>2, <2>3, <2>7 DEF FlagExact
  <2>9. \A d \in Ctx \ {c} : ContextLife(d)'
    BY <1>0, <2>2, <2>3, <2>7 DEF ContextLife
  <2>10. ContextLife(c)'
    BY <2>2, <2>3, <2>4 DEF ContextLife
  <2>11. ~ Deletes(t)'
    BY <2>2 DEF Deletes
  <2>12. Deletion'
    BY <1>0, <2>1, <2>2, <2>3, <2>11, DeletionFrame
  <2>13. Dropping'
    BY <1>0, <2>1, <2>2, <2>3, DroppingFrame
  <2> QED
    BY <2>7, <2>8, <2>9, <2>10, <2>12, <2>13 DEF Goal, Lifetime
<1>27. ASSUME NEW t \in Worker, HarborStart(t) PROVE Goal
  <2>1. Alone(t) /\ t \in Thread
    BY <1>27, <1>0, AloneWorker DEF Command, Thread
  <2>2. PICK c \in Ctx : new[t] = c
    BY <1>27, <1>0, InHand DEF HarborStart
  <2>3. ref[c] # 0
    BY <1>27, <1>0, <2>2, Counted DEF HarborStart
  <2>4. /\ ref' = [ref EXCEPT ![c] = ref[c] + 1] /\ sop[t] = "none"
        /\ UNCHANGED <<mem, queueVars, q, nq, new, pc, sop>>
    BY <1>27, <2>2 DEF HarborStart, Reserve
  <2>5. ~ Deletes(t)' /\ \A d \in Ctx : ref[d] = 0 => ref'[d] = 0
    BY <1>0, <2>3, <2>4 DEF TypeOK, Deletes
  <2> QED
    BY <2>1, <2>4, <2>5, QuietStep DEF Goal
<1>28. ASSUME NEW t \in Worker, InitOk(t) PROVE Goal
  <2>1. Alone(t) /\ t \in Thread
    BY <1>28, <1>0, AloneWorker DEF Command, Thread
  <2>2. PICK c \in Ctx : new[t] = c
    BY <1>28, <1>0, InHand DEF InitOk
  <2>3. ref[c] \in Nat /\ ref[c] > 0
    BY <1>28, <1>0, <2>2, Counted DEF InitOk
  <2>4. /\ UNCHANGED <<mem, qmem, queue, in_global, release, gmq, q, nq, new>>
        /\ ref' = [ref EXCEPT ![c] = ref[c] - 1] /\ sop[t] = "none"
    BY <1>28, <2>2 DEF InitOk
  <2>5. ref'[c] = ref[c] - 1 /\ \A d \in Ctx \ {c} : ref'[d] = ref[d]
    BY <1>0, <2>4 DEF TypeOK
  <2>6. pc'[t] # "drop"
    BY <1>28, <1>0, <2>1 DEF TypeOK, InitOk, Goto
  <2>7. \A d \in Ctx : ref[d] = 0 => ref'[d] = 0
    BY <2>3, <2>5
  <2>8. CASE ref[c] # 1
    <3>1. ~ Deletes(t)'
      BY <1>28, <2>2, <2>8 DEF Deletes, InitOk
    <3> QED
      BY <2>1, <2>4, <2>6, <2>7, <3>1, QuietStep DEF Goal
  <2>9. CASE ref[c] = 1
    <3>1. sop' = [sop EXCEPT ![t] = "mark"] /\ sto' = [sto EXCEPT ![t] = c]
      BY <1>28, <2>2, <2>9 DEF InitOk
    <3>2. sop'[t] = "mark" /\ sto'[t] = c /\ ref'[c] = 0
      BY <1>0, <2>1, <2>5, <2>9, <3>1 DEF TypeOK
    <3>3. mem[c] = "live" /\ ~ release[c]
      BY <1>0, <2>3, CountedLive
    <3>4. \A u \in Thread \ {t} : Deletes(u)' =>
            Deletes(u) /\ sto[u] \in Ctx \ {c} /\ sto'[u] = sto[u] /\ sop'[u] = sop[u]
      BY <1>0, <2>1, <2>9 DEF TypeOK, Control, SubControl, Alone, Deletes, Deletion
    <3>5. Deletion'
      BY <1>0, <2>4, <2>5, <3>2, <3>3, <3>4 DEF Deletion
    <3>6. OneOwner' /\ \A d \in Ctx : Owned(d)' <=> Owned(d)
      BY <1>0, <2>4, PlaceFrame
    <3>7. FlagExact'
      BY <1>0, <2>4, <3>6, FlagFrame
    <3>8. \A d \in Ctx : ContextLife(d)'
      BY <1>0, <2>4, <2>7, <3>6, LifeFrame
    <3>9. Dropping'
      BY <1>0, <2>1, <2>4, <2>6, DroppingFrame
    <3> QED
      BY <3>5, <3>6, <3>7, <3>8, <3>9 DEF Goal, Lifetime
  <2> QED
    BY <2>8, <2>9
<1>29. ASSUME NEW t \in Worker, SetInit(t) PROVE Goal
  <2>1. Alone(t) /\ t \in Thread
    BY <1>29, <1>0, AloneWorker DEF Command, Thread
  <2>2. ~ Deletes(t)' /\ pc'[t] # "drop"
    BY <1>29, <1>0, <2>1 DEF TypeOK, Deletes, Goto, SetInit
  <2>3. UNCHANGED <<mem, ref, queueVars, q, nq, new>>
    BY <1>29 DEF SetInit
  <2> QED
    BY <2>1, <2>2, <2>3, QuietStep DEF Goal
<1>30. ASSUME NEW t \in Worker, PushNewQueue(t) PROVE Goal
  <2>1. Alone(t) /\ t \in Thread
    BY <1>30, <1>0, AloneWorker DEF Command, Thread
  <2>2. PICK c \in Ctx : new[t] = c
    BY <1>30, <1>0, InHand DEF PushNewQueue
  <2>3. /\ gmq' = Append(gmq, c) /\ new' = [new EXCEPT ![t] = NULL]
        /\ pc' = [pc EXCEPT ![t] = "call"] /\ sop[t] = "none"
        /\ UNCHANGED <<q, nq, mem, ref, qmem, queue, in_global, release, sop, sto>>
    BY <1>30, <2>2 DEF PushNewQueue, Goto
  <2>4. new'[t] = NULL /\ pc'[t] = "call"
    BY <1>0, <2>1, <2>3 DEF TypeOK
  <2>5. Has(t, c)
    BY <2>2 DEF Has
  <2>6. /\ \A d \in Ctx : Has(t, d)' <=> Has(t, d) /\ d # c
        /\ \A d \in Ctx : /\ q'[t] = d => nq'[t] # d /\ new'[t] # d
                          /\ nq'[t] = d => new'[t] # d
    BY <1>0, <2>2, <2>3, <2>4, SetsAssumption DEF OneOwner, Has
  <2>7. OneOwner' /\ \A d \in Ctx : Owned(d)' <=> Owned(d)
    BY <1>0, <2>1, <2>3, <2>5, <2>6, PlaceGive DEF Alone
  <2> QED
    BY <2>1, <2>3, <2>4, <2>7, MoveStep DEF Goal
<1>31. ASSUME NEW t \in Worker, InitFail(t) PROVE Goal
  <2>1. Alone(t) /\ t \in Thread
    BY <1>31, <1>0, AloneWorker DEF Command, Thread
  <2>2. ~ Deletes(t)' /\ pc'[t] # "drop"
    BY <1>31, <1>0, <2>1 DEF TypeOK, Deletes, Goto, InitFail, StartRelease
  <2>3. UNCHANGED <<mem, ref, queueVars, q, nq, new>>
    BY <1>31 DEF InitFail
  <2> QED
    BY <2>1, <2>2, <2>3, QuietStep DEF Goal
<1>32. ASSUME NEW t \in Worker, FailRetire(t) PROVE Goal
  <2>1. Alone(t) /\ t \in Thread
    BY <1>32, <1>0, AloneWorker DEF Command, Thread
  <2>2. ~ Deletes(t)' /\ pc'[t] # "drop"
    BY <1>32, <1>0, <2>1 DEF TypeOK, Deletes, Goto, FailRetire, TakeOut, StartRelease
  <2>3. UNCHANGED <<mem, ref, queueVars, q, nq, new>>
    BY <1>32 DEF FailRetire
  <2> QED
    BY <2>1, <2>2, <2>3, QuietStep DEF Goal
<1>33. CASE UNCHANGED vars
  <2>1. UNCHANGED <<mem, ref, queueVars, q, nq, new, pc, sop, sto>>
    BY <1>33 DEF vars
  <2>2. OneOwner' /\ \A c \in Ctx : Owned(c)' <=> Owned(c)
    BY <1>0, <2>1, PlaceFrame
  <2>3. FlagExact' /\ \A c \in Ctx : ContextLife(c)'
    BY <1>0, <2>1, <2>2, FlagFrame, LifeFrame
  <2>4. Deletion' /\ Dropping'
    BY <1>0, <2>1 DEF Deletion, Deletes, Dropping, Dying
  <2> QED
    BY <2>2, <2>3, <2>4 DEF Goal, Lifetime
<1> QED
  BY <1>1, <1>2, <1>3, <1>4, <1>5, <1>6, <1>7, <1>8, <1>9, <1>10, <1>11, <1>12,
     <1>13, <1>14, <1>15, <1>16, <1>17, <1>18, <1>19, <1>20, <1>21, <1>22, <1>23,
     <1>24, <1>25, <1>26, <1>27, <1>28, <1>29, <1>30, <1>31, <1>32, <1>33
     DEF Next, SubStep, Dispatch, Command

(* The places of a launch between the registration and the end of init. *)
LaunchPlaces == {"init", "setinit", "fail"}

(* Initialised survives when no launch leaves its places. *)
LEMMA InitialisedFrame ==
    ASSUME Initialised, NEW t \in Thread, Alone(t), UNCHANGED init, slot' \subseteq slot,
           t \in Worker => ctx'[t] = ctx[t] \/ ctx'[t] = NULL,
           t \in Worker /\ pc[t] \in LaunchPlaces /\ new[t] \in slot' =>
             new'[t] = new[t] /\ pc'[t] \in LaunchPlaces
    PROVE  Initialised'
<1>1. ASSUME NEW c \in slot', NEW u \in Worker, new[u] = c, pc[u] \in LaunchPlaces
      PROVE  new'[u] = c /\ pc'[u] \in LaunchPlaces
  <2>1. CASE u = t
    BY <1>1, <2>1
  <2>2. CASE u # t
    BY <1>1, <2>2 DEF Alone, Thread
  <2> QED
    BY <2>1, <2>2
<1>2. \A c \in slot' : init'[c] \/ \E u \in Worker : new'[u] = c /\ pc'[u] \in LaunchPlaces
  BY <1>1 DEF Initialised, LaunchPlaces
<1>3. \A u \in Worker : ctx'[u] # NULL => init'[ctx'[u]]
  BY DEF Initialised, Alone
<1> QED
  BY <1>2, <1>3 DEF Initialised, LaunchPlaces

(* Every step preserves Initialised. *)
LEMMA InitialisedStep == ServerInv /\ [Next]_vars => Initialised'
<1> SUFFICES ASSUME ServerInv, [Next]_vars PROVE Initialised'
  OBVIOUS
<1> USE DEF At, ctxVars, queueVars, dispVars, cmdVars, subVars
<1>0. TypeOK /\ Control /\ RefExact /\ OneOwner /\ Initialised
  BY DEF ServerInv
<1>1. ASSUME NEW t \in Thread, DoPush(t) PROVE Initialised'
  <2>1. Alone(t) /\ UNCHANGED <<init, slot, ctx, new, pc>>
    BY <1>1, <1>0, AloneSub DEF SubStep, DoPush
  <2> QED
    BY <1>0, <2>1, InitialisedFrame
<1>2. ASSUME NEW t \in Thread, DoRelease(t) PROVE Initialised'
  <2>1. Alone(t) /\ UNCHANGED <<init, slot, ctx, new, pc>>
    BY <1>2, <1>0, AloneSub DEF SubStep, DoRelease
  <2> QED
    BY <1>0, <2>1, InitialisedFrame
<1>3. ASSUME NEW t \in Thread, DoMark(t) PROVE Initialised'
  <2>1. Alone(t) /\ UNCHANGED <<init, slot, ctx, new, pc>>
    BY <1>3, <1>0, AloneSub DEF SubStep, DoMark
  <2> QED
    BY <1>0, <2>1, InitialisedFrame
<1>4. ASSUME NEW t \in Thread, DoFree(t) PROVE Initialised'
  <2>1. Alone(t) /\ UNCHANGED <<init, slot, ctx, new, pc>>
    BY <1>4, <1>0, AloneSub DEF SubStep, DoFree
  <2> QED
    BY <1>0, <2>1, InitialisedFrame
<1>5. ASSUME NEW t \in Worker, Fetch(t) PROVE Initialised'
  <2>1. Alone(t) /\ t \in Thread
    BY <1>5, <1>0, AloneWorker DEF Dispatch, Thread
  <2>2. UNCHANGED init /\ slot' \subseteq slot /\ (ctx'[t] = ctx[t] \/ ctx'[t] = NULL)
    BY <1>5, <1>0, <2>1 DEF TypeOK, Fetch
  <2>3. pc[t] \in LaunchPlaces /\ new[t] \in slot' => new'[t] = new[t] /\ pc'[t] \in LaunchPlaces
    BY <1>5, <1>0, <2>1 DEF TypeOK, LaunchPlaces, Goto, Fetch
  <2> QED
    BY <1>0, <2>1, <2>2, <2>3, InitialisedFrame
<1>6. ASSUME NEW t \in Worker, MqRelease(t) PROVE Initialised'
  <2>1. Alone(t) /\ t \in Thread
    BY <1>6, <1>0, AloneWorker DEF Dispatch, Thread
  <2>2. UNCHANGED init /\ slot' \subseteq slot /\ (ctx'[t] = ctx[t] \/ ctx'[t] = NULL)
    BY <1>6, <1>0, <2>1 DEF TypeOK, MqRelease
  <2>3. pc[t] \in LaunchPlaces /\ new[t] \in slot' => new'[t] = new[t] /\ pc'[t] \in LaunchPlaces
    BY <1>6, <1>0, <2>1 DEF TypeOK, LaunchPlaces, Goto, MqRelease
  <2> QED
    BY <1>0, <2>1, <2>2, <2>3, InitialisedFrame
<1>7. ASSUME NEW t \in Worker, DropMessage(t) PROVE Initialised'
  <2>1. Alone(t) /\ t \in Thread
    BY <1>7, <1>0, AloneWorker DEF Dispatch, Thread
  <2>2. UNCHANGED init /\ slot' \subseteq slot /\ (ctx'[t] = ctx[t] \/ ctx'[t] = NULL)
    BY <1>7, <1>0, <2>1 DEF TypeOK, DropMessage
  <2>3. pc[t] \in LaunchPlaces /\ new[t] \in slot' => new'[t] = new[t] /\ pc'[t] \in LaunchPlaces
    BY <1>7, <1>0, <2>1 DEF TypeOK, LaunchPlaces, Goto, DropMessage
  <2> QED
    BY <1>0, <2>1, <2>2, <2>3, InitialisedFrame
<1>8. ASSUME NEW t \in Worker, FreeQueue(t) PROVE Initialised'
  <2>1. Alone(t) /\ t \in Thread
    BY <1>8, <1>0, AloneWorker DEF Dispatch, Thread
  <2>2. UNCHANGED init /\ slot' \subseteq slot /\ (ctx'[t] = ctx[t] \/ ctx'[t] = NULL)
    BY <1>8, <1>0, <2>1 DEF TypeOK, FreeQueue
  <2>3. pc[t] \in LaunchPlaces /\ new[t] \in slot' => new'[t] = new[t] /\ pc'[t] \in LaunchPlaces
    BY <1>8, <1>0, <2>1 DEF TypeOK, LaunchPlaces, Goto, FreeQueue
  <2> QED
    BY <1>0, <2>1, <2>2, <2>3, InitialisedFrame
<1>9. ASSUME NEW t \in Worker, Pop(t) PROVE Initialised'
  <2>1. Alone(t) /\ t \in Thread
    BY <1>9, <1>0, AloneWorker DEF Dispatch, Thread
  <2>2. UNCHANGED init /\ slot' \subseteq slot /\ (ctx'[t] = ctx[t] \/ ctx'[t] = NULL)
    BY <1>9, <1>0, <2>1 DEF TypeOK, Pop
  <2>3. pc[t] \in LaunchPlaces /\ new[t] \in slot' => new'[t] = new[t] /\ pc'[t] \in LaunchPlaces
    BY <1>9, <1>0, <2>1 DEF TypeOK, LaunchPlaces, Goto, Pop
  <2> QED
    BY <1>0, <2>1, <2>2, <2>3, InitialisedFrame
<1>10. ASSUME NEW t \in Worker, PopEmpty(t) PROVE Initialised'
  <2>1. Alone(t) /\ t \in Thread
    BY <1>10, <1>0, AloneWorker DEF Dispatch, Thread
  <2>2. UNCHANGED init /\ slot' \subseteq slot /\ (ctx'[t] = ctx[t] \/ ctx'[t] = NULL)
    BY <1>10, <1>0, <2>1 DEF TypeOK, PopEmpty
  <2>3. pc[t] \in LaunchPlaces /\ new[t] \in slot' => new'[t] = new[t] /\ pc'[t] \in LaunchPlaces
    BY <1>10, <1>0, <2>1 DEF TypeOK, LaunchPlaces, Goto, PopEmpty
  <2> QED
    BY <1>0, <2>1, <2>2, <2>3, InitialisedFrame
<1>11. ASSUME NEW t \in Worker, Length(t) PROVE Initialised'
  <2>1. Alone(t) /\ t \in Thread
    BY <1>11, <1>0, AloneWorker DEF Dispatch, Thread
  <2>2. UNCHANGED init /\ slot' \subseteq slot /\ (ctx'[t] = ctx[t] \/ ctx'[t] = NULL)
    BY <1>11, <1>0, <2>1 DEF TypeOK, Length
  <2>3. pc[t] \in LaunchPlaces /\ new[t] \in slot' => new'[t] = new[t] /\ pc'[t] \in LaunchPlaces
    BY <1>11, <1>0, <2>1 DEF TypeOK, LaunchPlaces, Goto, Length
  <2> QED
    BY <1>0, <2>1, <2>2, <2>3, InitialisedFrame
<1>12. ASSUME NEW t \in Worker, Return(t) PROVE Initialised'
  <2>1. Alone(t) /\ t \in Thread
    BY <1>12, <1>0, AloneWorker DEF Dispatch, Thread
  <2>2. UNCHANGED init /\ slot' \subseteq slot /\ (ctx'[t] = ctx[t] \/ ctx'[t] = NULL)
    BY <1>12, <1>0, <2>1 DEF TypeOK, Return
  <2>3. pc[t] \in LaunchPlaces /\ new[t] \in slot' => new'[t] = new[t] /\ pc'[t] \in LaunchPlaces
    BY <1>12, <1>0, <2>1 DEF TypeOK, LaunchPlaces, Goto, Return
  <2> QED
    BY <1>0, <2>1, <2>2, <2>3, InitialisedFrame
<1>13. ASSUME NEW t \in Worker, NextQueue(t) PROVE Initialised'
  <2>1. Alone(t) /\ t \in Thread
    BY <1>13, <1>0, AloneWorker DEF Dispatch, Thread
  <2>2. UNCHANGED init /\ slot' \subseteq slot /\ (ctx'[t] = ctx[t] \/ ctx'[t] = NULL)
    BY <1>13, <1>0, <2>1 DEF TypeOK, NextQueue
  <2>3. pc[t] \in LaunchPlaces /\ new[t] \in slot' => new'[t] = new[t] /\ pc'[t] \in LaunchPlaces
    BY <1>13, <1>0, <2>1 DEF TypeOK, LaunchPlaces, Goto, NextQueue
  <2> QED
    BY <1>0, <2>1, <2>2, <2>3, InitialisedFrame
<1>14. ASSUME NEW t \in Worker, PushBack(t) PROVE Initialised'
  <2>1. Alone(t) /\ t \in Thread
    BY <1>14, <1>0, AloneWorker DEF Dispatch, Thread
  <2>2. UNCHANGED init /\ slot' \subseteq slot /\ (ctx'[t] = ctx[t] \/ ctx'[t] = NULL)
    BY <1>14, <1>0, <2>1 DEF TypeOK, PushBack
  <2>3. pc[t] \in LaunchPlaces /\ new[t] \in slot' => new'[t] = new[t] /\ pc'[t] \in LaunchPlaces
    BY <1>14, <1>0, <2>1 DEF TypeOK, LaunchPlaces, Goto, PushBack
  <2> QED
    BY <1>0, <2>1, <2>2, <2>3, InitialisedFrame
<1>15. ASSUME NEW t \in Worker, ReleaseCtx(t) PROVE Initialised'
  <2>1. Alone(t) /\ t \in Thread
    BY <1>15, <1>0, AloneWorker DEF Dispatch, Thread
  <2>2. UNCHANGED init /\ slot' \subseteq slot /\ (ctx'[t] = ctx[t] \/ ctx'[t] = NULL)
    BY <1>15, <1>0, <2>1 DEF TypeOK, ReleaseCtx
  <2>3. pc[t] \in LaunchPlaces /\ new[t] \in slot' => new'[t] = new[t] /\ pc'[t] \in LaunchPlaces
    BY <1>15, <1>0, <2>1 DEF TypeOK, LaunchPlaces, Goto, ReleaseCtx
  <2> QED
    BY <1>0, <2>1, <2>2, <2>3, InitialisedFrame
<1>16. ASSUME NEW t \in Worker, NEW d \in Ctx, Send(t, d) PROVE Initialised'
  <2>1. Alone(t) /\ t \in Thread
    BY <1>16, <1>0, AloneWorker DEF Command, Thread
  <2>2. UNCHANGED init /\ slot' \subseteq slot /\ (ctx'[t] = ctx[t] \/ ctx'[t] = NULL)
    BY <1>16, <1>0, <2>1 DEF TypeOK, Send
  <2>3. pc[t] \in LaunchPlaces /\ new[t] \in slot' => new'[t] = new[t] /\ pc'[t] \in LaunchPlaces
    BY <1>16, <1>0, <2>1 DEF TypeOK, LaunchPlaces, Goto, Send
  <2> QED
    BY <1>0, <2>1, <2>2, <2>3, InitialisedFrame
<1>17. ASSUME NEW t \in Worker, SendRemote(t) PROVE Initialised'
  <2>1. Alone(t) /\ t \in Thread
    BY <1>17, <1>0, AloneWorker DEF Command, Thread
  <2>2. UNCHANGED init /\ slot' \subseteq slot /\ (ctx'[t] = ctx[t] \/ ctx'[t] = NULL)
    BY <1>17, <1>0, <2>1 DEF TypeOK, SendRemote
  <2>3. pc[t] \in LaunchPlaces /\ new[t] \in slot' => new'[t] = new[t] /\ pc'[t] \in LaunchPlaces
    BY <1>17, <1>0, <2>1 DEF TypeOK, LaunchPlaces, Goto, SendRemote
  <2> QED
    BY <1>0, <2>1, <2>2, <2>3, InitialisedFrame
<1>18. ASSUME NEW t \in Worker, NEW d \in Ctx, SetMonitor(t, d) PROVE Initialised'
  <2>1. Alone(t) /\ t \in Thread
    BY <1>18, <1>0, AloneWorker DEF Command, Thread
  <2>2. UNCHANGED init /\ slot' \subseteq slot /\ (ctx'[t] = ctx[t] \/ ctx'[t] = NULL)
    BY <1>18, <1>0, <2>1 DEF TypeOK, SetMonitor
  <2>3. pc[t] \in LaunchPlaces /\ new[t] \in slot' => new'[t] = new[t] /\ pc'[t] \in LaunchPlaces
    BY <1>18, <1>0, <2>1 DEF TypeOK, LaunchPlaces, Goto, SetMonitor
  <2> QED
    BY <1>0, <2>1, <2>2, <2>3, InitialisedFrame
<1>19. ASSUME NEW t \in Worker, NEW d \in Ctx, Kill(t, d) PROVE Initialised'
  <2>1. Alone(t) /\ t \in Thread
    BY <1>19, <1>0, AloneWorker DEF Command, Thread
  <2>2. UNCHANGED init /\ slot' \subseteq slot /\ (ctx'[t] = ctx[t] \/ ctx'[t] = NULL)
    BY <1>19, <1>0, <2>1 DEF TypeOK, Kill
  <2>3. pc[t] \in LaunchPlaces /\ new[t] \in slot' => new'[t] = new[t] /\ pc'[t] \in LaunchPlaces
    BY <1>19, <1>0, <2>1 DEF TypeOK, LaunchPlaces, Goto, Kill
  <2> QED
    BY <1>0, <2>1, <2>2, <2>3, InitialisedFrame
<1>20. ASSUME NEW t \in Worker, Retire(t) PROVE Initialised'
  <2>1. Alone(t) /\ t \in Thread
    BY <1>20, <1>0, AloneWorker DEF Command, Thread
  <2>2. UNCHANGED init /\ slot' \subseteq slot /\ (ctx'[t] = ctx[t] \/ ctx'[t] = NULL)
    BY <1>20, <1>0, <2>1 DEF TypeOK, Retire, TakeOut
  <2>3. pc[t] \in LaunchPlaces /\ new[t] \in slot' => new'[t] = new[t] /\ pc'[t] \in LaunchPlaces
    BY <1>20, <1>0, <2>1 DEF TypeOK, LaunchPlaces, Goto, Retire, TakeOut
  <2> QED
    BY <1>0, <2>1, <2>2, <2>3, InitialisedFrame
<1>21. ASSUME NEW t \in Worker, Abort(t) PROVE Initialised'
  <2>1. Alone(t) /\ t \in Thread
    BY <1>21, <1>0, AloneWorker DEF Command, Thread
  <2>2. UNCHANGED init /\ slot' \subseteq slot /\ (ctx'[t] = ctx[t] \/ ctx'[t] = NULL)
    BY <1>21, <1>0, <2>1 DEF TypeOK, Abort
  <2>3. pc[t] \in LaunchPlaces /\ new[t] \in slot' => new'[t] = new[t] /\ pc'[t] \in LaunchPlaces
    BY <1>21, <1>0, <2>1 DEF TypeOK, LaunchPlaces, Goto, Abort
  <2> QED
    BY <1>0, <2>1, <2>2, <2>3, InitialisedFrame
<1>22. ASSUME NEW t \in Worker, NEW d \in Ctx, AbortVisit(t, d) PROVE Initialised'
  <2>1. Alone(t) /\ t \in Thread
    BY <1>22, <1>0, AloneWorker DEF Command, Thread
  <2>2. UNCHANGED init /\ slot' \subseteq slot /\ (ctx'[t] = ctx[t] \/ ctx'[t] = NULL)
    BY <1>22, <1>0, <2>1 DEF TypeOK, AbortVisit, TakeOut
  <2>3. pc[t] \in LaunchPlaces /\ new[t] \in slot' => new'[t] = new[t] /\ pc'[t] \in LaunchPlaces
    BY <1>22, <1>0, <2>1 DEF TypeOK, LaunchPlaces, Goto, AbortVisit, TakeOut
  <2> QED
    BY <1>0, <2>1, <2>2, <2>3, InitialisedFrame
<1>23. ASSUME NEW t \in Worker, AbortPass(t) PROVE Initialised'
  <2>1. Alone(t) /\ t \in Thread
    BY <1>23, <1>0, AloneWorker DEF Command, Thread
  <2>2. UNCHANGED init /\ slot' \subseteq slot /\ (ctx'[t] = ctx[t] \/ ctx'[t] = NULL)
    BY <1>23, <1>0, <2>1 DEF TypeOK, AbortPass
  <2>3. pc[t] \in LaunchPlaces /\ new[t] \in slot' => new'[t] = new[t] /\ pc'[t] \in LaunchPlaces
    BY <1>23, <1>0, <2>1 DEF TypeOK, LaunchPlaces, Goto, AbortPass
  <2> QED
    BY <1>0, <2>1, <2>2, <2>3, InitialisedFrame
<1>24. ASSUME NEW t \in Worker, HarborStart(t) PROVE Initialised'
  <2>1. Alone(t) /\ t \in Thread
    BY <1>24, <1>0, AloneWorker DEF Command, Thread
  <2>2. UNCHANGED init /\ slot' \subseteq slot /\ (ctx'[t] = ctx[t] \/ ctx'[t] = NULL)
    BY <1>24, <1>0, <2>1 DEF TypeOK, HarborStart
  <2>3. pc[t] \in LaunchPlaces /\ new[t] \in slot' => new'[t] = new[t] /\ pc'[t] \in LaunchPlaces
    BY <1>24, <1>0, <2>1 DEF TypeOK, LaunchPlaces, Goto, HarborStart
  <2> QED
    BY <1>0, <2>1, <2>2, <2>3, InitialisedFrame
<1>25. ASSUME NEW t \in Worker, PushNewQueue(t) PROVE Initialised'
  <2>1. Alone(t) /\ t \in Thread
    BY <1>25, <1>0, AloneWorker DEF Command, Thread
  <2>2. UNCHANGED init /\ slot' \subseteq slot /\ (ctx'[t] = ctx[t] \/ ctx'[t] = NULL)
    BY <1>25, <1>0, <2>1 DEF TypeOK, PushNewQueue
  <2>3. pc[t] \in LaunchPlaces /\ new[t] \in slot' => new'[t] = new[t] /\ pc'[t] \in LaunchPlaces
    BY <1>25, <1>0, <2>1 DEF TypeOK, LaunchPlaces, Goto, PushNewQueue
  <2> QED
    BY <1>0, <2>1, <2>2, <2>3, InitialisedFrame
<1>26. ASSUME NEW t \in Worker, InitFail(t) PROVE Initialised'
  <2>1. Alone(t) /\ t \in Thread
    BY <1>26, <1>0, AloneWorker DEF Command, Thread
  <2>2. UNCHANGED init /\ slot' \subseteq slot /\ (ctx'[t] = ctx[t] \/ ctx'[t] = NULL)
    BY <1>26, <1>0, <2>1 DEF TypeOK, InitFail
  <2>3. pc[t] \in LaunchPlaces /\ new[t] \in slot' => new'[t] = new[t] /\ pc'[t] \in LaunchPlaces
    BY <1>26, <1>0, <2>1 DEF TypeOK, LaunchPlaces, Goto, InitFail
  <2> QED
    BY <1>0, <2>1, <2>2, <2>3, InitialisedFrame
<1>27. ASSUME NEW t \in Worker, FailRetire(t) PROVE Initialised'
  <2>1. Alone(t) /\ t \in Thread
    BY <1>27, <1>0, AloneWorker DEF Command, Thread
  <2>2. UNCHANGED init /\ slot' \subseteq slot /\ (ctx'[t] = ctx[t] \/ ctx'[t] = NULL)
    BY <1>27, <1>0, <2>1 DEF TypeOK, FailRetire, TakeOut
  <2>3. pc[t] \in LaunchPlaces /\ new[t] \in slot' => new'[t] = new[t] /\ pc'[t] \in LaunchPlaces
    BY <1>27, <1>0, <2>1 DEF TypeOK, LaunchPlaces, Goto, FailRetire, TakeOut
  <2> QED
    BY <1>0, <2>1, <2>2, <2>3, InitialisedFrame
<1>28. ASSUME NEW t \in Ext, NEW d \in Ctx, ExtSend(t, d) PROVE Initialised'
  <2>1. Alone(t) /\ t \in Thread
    BY <1>28, <1>0, AloneExt DEF Thread
  <2>2. UNCHANGED <<init, slot, ctx, new, pc>>
    BY <1>28 DEF ExtSend
  <2> QED
    BY <1>0, <2>1, <2>2, InitialisedFrame
<1>29. ASSUME NEW t \in Worker, Grab(t) PROVE Initialised'
  <2>1. Alone(t) /\ t \in Thread
    BY <1>29, <1>0, AloneWorker DEF Dispatch, Thread
  <2>2. UNCHANGED <<init, slot, new>> /\ pc[t] = "grab"
    BY <1>29 DEF Grab
  <2>3. CASE q[t] \in slot
    <3>1. PICK c \in Ctx : q[t] = c
      BY <1>0, <2>3 DEF TypeOK
    <3>2. \A u \in Worker : new[u] # c
      BY <1>0, <3>1 DEF OneOwner, Has
    <3>3. init[c]
      BY <1>0, <2>3, <3>1, <3>2 DEF Initialised
    <3>4. ctx'[t] = c /\ \A u \in Worker \ {t} : ctx'[u] = ctx[u]
      BY <1>29, <1>0, <2>3, <3>1 DEF TypeOK, Grab
    <3>5. \A u \in Worker : ctx'[u] # NULL => init'[ctx'[u]]
      BY <1>0, <2>2, <3>3, <3>4 DEF Initialised
    <3>6. \A u \in Worker : pc[u] \in LaunchPlaces => pc'[u] \in LaunchPlaces
      BY <1>29, <1>0, <2>1, <2>2 DEF Alone, LaunchPlaces, Thread
    <3> QED
      BY <1>0, <2>2, <3>5, <3>6 DEF Initialised, LaunchPlaces
  <2>4. CASE q[t] \notin slot
    <3>1. UNCHANGED ctx
      BY <1>29, <2>4 DEF Grab
    <3> QED
      BY <1>0, <2>1, <2>2, <3>1, InitialisedFrame DEF LaunchPlaces
  <2> QED
    BY <2>3, <2>4
<1>30. ASSUME NEW t \in Worker, NEW c \in Ctx, Launch(t, c) PROVE Initialised'
  <2>1. Alone(t) /\ t \in Thread
    BY <1>30, <1>0, AloneWorker DEF Command, Thread
  <2>2. UNCHANGED <<init, ctx>> /\ slot' = slot \cup {c} /\ pc[t] = "call"
    BY <1>30 DEF Launch
  <2>3. new'[t] = c /\ pc'[t] = "init"
    BY <1>30, <1>0, <2>1 DEF TypeOK, Launch, Goto
  <2>4. \A u \in Worker : pc[u] \in LaunchPlaces => new'[u] = new[u] /\ pc'[u] = pc[u]
    BY <2>1, <2>2 DEF Alone, LaunchPlaces, Thread
  <2> QED
    BY <1>0, <2>2, <2>3, <2>4 DEF Initialised, LaunchPlaces
<1>31. ASSUME NEW t \in Worker, InitOk(t) PROVE Initialised'
  <2>1. Alone(t) /\ t \in Thread
    BY <1>31, <1>0, AloneWorker DEF Command, Thread
  <2>2. PICK c \in Ctx : new[t] = c
    BY <1>31, <1>0, InHand DEF InitOk
  <2>3. UNCHANGED <<init, slot, ctx, new>> /\ ref' = [ref EXCEPT ![c] = ref[c] - 1]
    BY <1>31, <2>2 DEF InitOk
  <2>4. CASE ref[c] = 1
    <3>1. pc[t] = "init"
      BY <1>31 DEF InitOk
    <3>2. c \notin slot
      BY <1>0, <2>2, <2>4, <3>1, Counted
    <3> QED
      BY <1>0, <2>1, <2>2, <2>3, <3>2, InitialisedFrame
  <2>5. CASE ref[c] # 1
    <3>1. pc'[t] = "setinit"
      BY <1>31, <1>0, <2>1, <2>2, <2>5 DEF TypeOK, InitOk, Goto
    <3> QED
      BY <1>0, <2>1, <2>3, <3>1, InitialisedFrame DEF LaunchPlaces
  <2> QED
    BY <2>4, <2>5
<1>32. ASSUME NEW t \in Worker, SetInit(t) PROVE Initialised'
  <2>1. Alone(t) /\ t \in Thread
    BY <1>32, <1>0, AloneWorker DEF Command, Thread
  <2>2. PICK c \in Ctx : new[t] = c
    BY <1>32, <1>0, InHand DEF SetInit
  <2>3. UNCHANGED <<slot, ctx, new>> /\ init' = [init EXCEPT ![c] = TRUE]
    BY <1>32, <2>2 DEF SetInit
  <2>4. init'[c] /\ \A d \in Ctx : init[d] => init'[d]
    BY <1>0, <2>3 DEF TypeOK
  <2>5. \A u \in Worker \ {t} : pc'[u] = pc[u]
    BY <2>1 DEF Alone, Thread
  <2>6. \A d \in slot' : init'[d] \/ \E u \in Worker : new'[u] = d /\ pc'[u] \in LaunchPlaces
    <3> SUFFICES ASSUME NEW d \in slot', ~ init'[d]
                 PROVE  \E u \in Worker : new'[u] = d /\ pc'[u] \in LaunchPlaces
      OBVIOUS
    <3>1. d \in slot /\ ~ init[d] /\ d # c
      BY <1>0, <2>3, <2>4 DEF TypeOK
    <3>2. PICK u \in Worker : new[u] = d /\ pc[u] \in LaunchPlaces
      BY <1>0, <3>1 DEF Initialised, LaunchPlaces
    <3> QED
      BY <2>2, <2>3, <2>5, <3>1, <3>2
  <2>7. \A u \in Worker : ctx'[u] # NULL => init'[ctx'[u]]
    BY <1>0, <2>3, <2>4 DEF TypeOK, Initialised
  <2> QED
    BY <2>6, <2>7 DEF Initialised, LaunchPlaces
<1>33. CASE UNCHANGED vars
  BY <1>0, <1>33 DEF Initialised, vars
<1> QED
  BY <1>1, <1>2, <1>3, <1>4, <1>5, <1>6, <1>7, <1>8, <1>9, <1>10, <1>11, <1>12,
     <1>13, <1>14, <1>15, <1>16, <1>17, <1>18, <1>19, <1>20, <1>21, <1>22, <1>23,
     <1>24, <1>25, <1>26, <1>27, <1>28, <1>29, <1>30, <1>31, <1>32, <1>33
     DEF Next, SubStep, Dispatch, Command

(* The state skynet_start leaves behind satisfies the invariant. *)
LEMMA InitServerInv == Init => ServerInv
<1> SUFFICES ASSUME Init PROVE ServerInv
  OBVIOUS
<1>1. TypeOK
  <2>1. Cardinality(Boot) \in Nat /\ Boot \subseteq Ctx
    BY SetsAssumption, FS_CardinalityType
  <2>2. gmq \in Seq(Ctx)
    <3>1. gmq \in [1 .. Cardinality(Boot) -> Ctx]
      BY <2>1 DEF Init
    <3> QED
      BY <2>1, <3>1, SeqDef
  <2>3. \A c \in Ctx : FirstMessage(c) \in Message
    BY DEF FirstMessage, Message
  <2>4. queue \in [Ctx -> Seq(Message)]
    BY <2>3 DEF Init
  <2>5. pc \in [Thread -> PC]
    BY DEF Init, PC
  <2>6. nsent \in 0 .. MaxSend /\ total \in Int
    BY <2>1, NumbersAssumption DEF Init
  <2> QED
    BY <2>1, <2>2, <2>4, <2>5, <2>6 DEF Init, TypeOK, Memory
<1>2. Control
  BY SetsAssumption DEF Init, Control, SubControl, WorkerControl, Thread
<1>3. RefExact
  <2> SUFFICES ASSUME NEW c \in Ctx PROVE ref[c] = Refs(c)
    BY DEF RefExact
  <2>1. Dispatchers(c) = {} /\ Callers(c) = {} /\ Launchers(c) = {}
    BY SetsAssumption DEF Init, Dispatchers, Callers, Launchers
  <2>2. /\ Cardinality(Dispatchers(c)) = 0 /\ Cardinality(Callers(c)) = 0
        /\ Cardinality(Launchers(c)) = 0
    BY <2>1, FS_EmptySet
  <2>3. One(c = remote) = 0 /\ One(c \in slot) = ref[c]
    BY SetsAssumption DEF Init, One
  <2>4. ref[c] \in Int
    BY <1>1 DEF TypeOK
  <2> QED
    BY <2>2, <2>3, <2>4 DEF Refs
<1>4. OneOwner
  BY SetsAssumption DEF Init, OneOwner, Has
<1>5. \A c \in Ctx : Owned(c) <=> c \in Boot
  BY SetsAssumption DEF Init, Owned, Has
<1>6. FlagExact
  BY <1>5 DEF Init, FlagExact
<1>7. \A c \in Ctx : ContextLife(c)
  BY <1>5 DEF Init, ContextLife
<1>8. Deletion /\ Dropping
  BY DEF Init, Deletion, Deletes, Dropping, Thread
<1>9. Initialised
  BY SetsAssumption DEF Init, Initialised
<1> QED
  BY <1>1, <1>2, <1>3, <1>4, <1>6, <1>7, <1>8, <1>9 DEF ServerInv, Lifetime

(* The invariant of the node holds in every reachable state, for every number
   of services, worker and external threads, messages and every weight table. *)
THEOREM ServerInvariant == Spec => []ServerInv
<1>1. Init => ServerInv
  BY InitServerInv
<1>2. ServerInv /\ [Next]_vars => ServerInv'
  <2> SUFFICES ASSUME ServerInv, [Next]_vars PROVE ServerInv'
    OBVIOUS
  <2>1. TypeOK' /\ Control'
    BY TypeStep, ControlStep DEF ServerInv
  <2>2. RefExact'
    BY RefStep
  <2>3. Lifetime' /\ OneOwner' /\ FlagExact'
    BY QueueStep
  <2>4. Initialised'
    BY InitialisedStep
  <2> QED
    BY <2>1, <2>2, <2>3, <2>4 DEF ServerInv
<1> QED
  BY <1>1, <1>2, PTL DEF Spec

(* A queue is at most once in the global queue, or in one hand of one worker:
   skynet_globalmq_push never links a queue that is linked already. *)
THEOREM QueueHasOneOwner == Spec => []OneOwner
<1>1. ServerInv => OneOwner
  BY DEF ServerInv
<1> QED
  BY <1>1, ServerInvariant, PTL

(* ctx->ref is the number of holders: none forgotten, none counted twice. *)
THEOREM ReferencesExact == Spec => []RefExact
<1>1. ServerInv => RefExact
  BY DEF ServerInv
<1> QED
  BY <1>1, ServerInvariant, PTL

(* A queue with messages or marked for release is in the global queue or in a
   worker's hands: no push or mark is lost to a racing skynet_mq_pop. *)
THEOREM NothingStranded == Spec => []NotStranded
<1>1. ServerInv => NotStranded
  BY DEF ServerInv, Lifetime, ContextLife, FlagExact, NotStranded
<1> QED
  BY <1>1, ServerInvariant, PTL

(* A context that somebody counts on, and a queue that somebody has in hand or
   pushes to, is allocated: no release by another thread frees it.  The
   launcher's write of ctx->init (skynet_server.c:155, SetInit) counts on
   nothing and is not covered: it may come after the free.                 *)
THEOREM CountedUseIsSafe == Spec => []NoUseAfterFree
<1>1. ServerInv => NoUseAfterFree
  <2> SUFFICES ASSUME ServerInv PROVE NoUseAfterFree
    OBVIOUS
  <2>0. TypeOK /\ Control /\ RefExact /\ Lifetime /\ Deletion
    BY DEF ServerInv, Lifetime
  <2>1. ASSUME NEW c \in Ctx, Refs(c) > 0 PROVE mem[c] = "live" /\ qmem[c] = "live"
    BY <2>0, <2>1, CountedLive DEF RefExact
  <2>2. ASSUME NEW t \in Thread, Deletes(t) PROVE mem[sto[t]] = "live"
    BY <2>0, <2>2 DEF Deletion
  <2>3. ASSUME NEW t \in Thread, sop[t] = "mark" PROVE qmem[sto[t]] = "live"
    <3>1. sto[t] \in Ctx /\ mem[sto[t]] = "live" /\ ~ release[sto[t]]
      BY <2>0, <2>3 DEF TypeOK, Control, SubControl, Deletion, Deletes
    <3> QED
      BY <2>0, <3>1 DEF TypeOK, Lifetime, ContextLife, Memory
  <2>4. \A c \in Ctx : Owned(c) => qmem[c] = "live"
    BY <2>0 DEF Lifetime, ContextLife
  <2> QED
    BY <2>1, <2>2, <2>3, <2>4 DEF NoUseAfterFree, Deletes
<1> QED
  BY <1>1, ServerInvariant, PTL

(* skynet_context_push never adds to a queue marked for release, so that
   _drop_queue answers every message left. *)
THEOREM NoLateMessage == Spec => []NoPushToDropped
<1>1. ServerInv => NoPushToDropped
  <2> SUFFICES ASSUME ServerInv, NEW t \in Thread, sop[t] = "push" PROVE ~ release[sto[t]]
    BY DEF NoPushToDropped
  <2>1. PICK c \in Ctx : sto[t] = c
    BY DEF ServerInv, TypeOK, Control, SubControl
  <2>2. ref[c] # 0
    BY <2>1, Counted DEF ServerInv
  <2> QED
    BY <2>1, <2>2, CountedLive DEF ServerInv
<1> QED
  BY <1>1, ServerInvariant, PTL

(* assert(ctx->init) of dispatch_message never fails. *)
THEOREM InitFirst == Spec => []InitBeforeCallback
<1>1. ServerInv => InitBeforeCallback
  BY DEF ServerInv, Initialised, InitBeforeCallback
<1> QED
  BY <1>1, ServerInvariant, PTL

(* The assertion of CHECKCALLING_BEGIN never fails: no service runs on two
   worker threads at a time. *)
THEOREM OneThreadPerService == Spec => []ExclusiveCallback
<1>1. ServerInv => ExclusiveCallback
  <2> SUFFICES ASSUME ServerInv, NEW t \in Worker, NEW u \in Worker, NEW c \in Ctx,
                      Runs(t, c), Runs(u, c)
               PROVE  t = u
    BY DEF ExclusiveCallback
  <2>1. ASSUME NEW v \in Worker, Runs(v, c) PROVE Has(v, c)
    BY <2>1, SetsAssumption DEF ServerInv, Control, WorkerControl, Runs, Has
  <2> QED
    BY <2>1 DEF ServerInv, OneOwner
<1> QED
  BY <1>1, ServerInvariant, PTL

(* What the definition of NoResurrection says of one context and one step. *)
StaysDead(c) ==
    /\ mem[c] # "none" /\ ref[c] = 0 => ref'[c] = 0
    /\ mem[c] = "freed" => mem'[c] = "freed"
    /\ qmem[c] = "freed" => qmem'[c] = "freed" /\ queue'[c] = queue[c]

(* Every step leaves dead what is dead. *)
LEMMA DeadStep == ServerInv /\ [Next]_vars => \A c \in Ctx : StaysDead(c)
<1> DEFINE Goal == \A c \in Ctx : StaysDead(c)
<1> SUFFICES ASSUME ServerInv, [Next]_vars PROVE Goal
  OBVIOUS
<1> USE DEF At, ctxVars, queueVars, dispVars, cmdVars, subVars
<1>0. /\ TypeOK /\ Control /\ RefExact /\ Lifetime /\ Deletion
      /\ \A c \in Ctx : Owned(c) => qmem[c] = "live"
  BY DEF ServerInv, Lifetime, ContextLife
<1>1. CASE UNCHANGED <<mem, ref, qmem, queue>>
  BY <1>1 DEF StaysDead
<1>2. ASSUME NEW t \in Thread, DoPush(t) PROVE Goal
  <2>1. PICK c \in Ctx : sto[t] = c /\ sop[t] = "push"
    BY <1>2, <1>0 DEF TypeOK, Control, SubControl, DoPush
  <2>2. qmem[c] = "live"
    BY <1>0, <2>1, Counted, CountedLive
  <2>3. UNCHANGED <<mem, ref, qmem>> /\ \A d \in Ctx \ {c} : queue'[d] = queue[d]
    BY <1>2, <1>0, <2>1 DEF TypeOK, DoPush, MqPush
  <2> QED
    BY <2>2, <2>3 DEF StaysDead
<1>3. ASSUME NEW t \in Thread, DoRelease(t) PROVE Goal
  <2>1. PICK c \in Ctx : sto[t] = c /\ sop[t] = "rel"
    BY <1>3, <1>0 DEF TypeOK, Control, SubControl, DoRelease
  <2>2. ref[c] # 0
    BY <1>0, <2>1, Counted
  <2>3. UNCHANGED <<mem, qmem, queue>> /\ \A d \in Ctx \ {c} : ref'[d] = ref[d]
    BY <1>3, <1>0, <2>1 DEF TypeOK, DoRelease
  <2> QED
    BY <2>2, <2>3 DEF StaysDead
<1>4. ASSUME NEW t \in Thread, DoFree(t) PROVE Goal
  <2>1. PICK c \in Ctx : sto[t] = c
    BY <1>4, <1>0 DEF TypeOK, Control, SubControl, DoFree
  <2>2. UNCHANGED <<ref, qmem, queue>> /\ mem' = [mem EXCEPT ![c] = "freed"]
    BY <1>4, <2>1 DEF DoFree
  <2> QED
    BY <1>0, <2>2 DEF TypeOK, StaysDead
<1>5. ASSUME NEW t \in Worker, Grab(t) PROVE Goal
  <2>1. q[t] \in slot => q[t] \in Ctx /\ ref[q[t]] # 0
    BY <1>0, Counted DEF TypeOK
  <2> QED
    BY <1>5, <1>0, <2>1 DEF TypeOK, Grab, StaysDead
<1>6. ASSUME NEW t \in Worker, DropMessage(t) PROVE Goal
  <2>1. PICK c \in Ctx : Dying(t) = c
    BY <1>6, <1>0, InHand DEF DropMessage
  <2>2. qmem[c] = "live"
    BY <1>0, <2>1 DEF Dying, Owned, Has
  <2>3. UNCHANGED <<mem, qmem>> /\ \A d \in Ctx \ {c} : queue'[d] = queue[d]
    BY <1>6, <1>0, <2>1 DEF TypeOK, DropMessage
  <2>4. \A d \in Ctx : ref[d] = 0 => ref'[d] = 0
    BY <1>6, <1>0, PushKeepsZero DEF DropMessage, Thread
  <2> QED
    BY <2>2, <2>3, <2>4 DEF StaysDead
<1>7. ASSUME NEW t \in Worker, FreeQueue(t) PROVE Goal
  <2>1. UNCHANGED <<mem, ref, queue>> /\ qmem' = [qmem EXCEPT ![Dying(t)] = "freed"]
    BY <1>7 DEF FreeQueue
  <2> QED
    BY <1>0, <2>1 DEF TypeOK, StaysDead
<1>8. ASSUME NEW t \in Worker, Pop(t) PROVE Goal
  <2>1. PICK c \in Ctx : q[t] = c
    BY <1>8, <1>0, InHand DEF Pop
  <2>2. qmem[c] = "live"
    BY <1>0, <2>1 DEF Owned, Has
  <2>3. UNCHANGED <<mem, ref, qmem>> /\ \A d \in Ctx \ {c} : queue'[d] = queue[d]
    BY <1>8, <1>0, <2>1 DEF TypeOK, Pop
  <2> QED
    BY <2>2, <2>3 DEF StaysDead
<1>9. ASSUME NEW t \in Worker, NEW d \in Ctx, Send(t, d) PROVE Goal
  <2>1. \A c \in Ctx : ref[c] = 0 => ref'[c] = 0
    BY <1>9, <1>0, PushKeepsZero DEF Send, Thread
  <2> QED
    BY <1>9, <2>1 DEF Send, StaysDead
<1>10. ASSUME NEW t \in Ext, NEW d \in Ctx, ExtSend(t, d) PROVE Goal
  <2>1. \A c \in Ctx : ref[c] = 0 => ref'[c] = 0
    BY <1>10, <1>0, PushKeepsZero DEF ExtSend, Thread
  <2> QED
    BY <1>10, <2>1 DEF ExtSend, StaysDead
<1>11. ASSUME NEW t \in Worker, NEW d \in Ctx, Kill(t, d) PROVE Goal
  <2>1. CASE monitor # NULL
    <3>1. \A c \in Ctx : ref[c] = 0 => ref'[c] = 0
      BY <1>11, <1>0, <2>1, PushKeepsZero DEF Kill, Thread
    <3> QED
      BY <1>11, <3>1 DEF Kill, StaysDead
  <2>2. CASE monitor = NULL
    BY <1>11, <1>1, <2>2 DEF Kill
  <2> QED
    BY <2>1, <2>2
<1>12. ASSUME NEW t \in Worker, SendRemote(t) PROVE Goal
  <2>1. PICK c \in Ctx : remote = c
    BY <1>12, <1>0 DEF TypeOK, SendRemote
  <2>2. qmem[c] = "live"
    BY <1>0, <2>1, Counted, CountedLive
  <2>3. UNCHANGED <<mem, ref, qmem>> /\ \A d \in Ctx \ {c} : queue'[d] = queue[d]
    BY <1>12, <1>0, <2>1 DEF TypeOK, SendRemote, MqPush
  <2> QED
    BY <2>2, <2>3 DEF StaysDead
<1>13. ASSUME NEW t \in Worker, NEW c \in Ctx, Launch(t, c) PROVE Goal
  <2>1. /\ mem[c] = "none" /\ mem' = [mem EXCEPT ![c] = "live"]
        /\ ref' = [ref EXCEPT ![c] = 2] /\ qmem' = [qmem EXCEPT ![c] = "live"]
        /\ UNCHANGED queue
    BY <1>13 DEF Launch, MqCreate
  <2>2. qmem[c] = "none"
    BY <1>0, <2>1 DEF Lifetime, ContextLife
  <2> QED
    BY <1>0, <2>1, <2>2 DEF TypeOK, StaysDead
<1>14. ASSUME NEW t \in Worker, HarborStart(t) PROVE Goal
  <2>1. PICK c \in Ctx : new[t] = c
    BY <1>14, <1>0, InHand DEF HarborStart
  <2>2. ref[c] # 0
    BY <1>14, <1>0, <2>1, Counted DEF HarborStart
  <2>3. UNCHANGED <<mem, qmem, queue>> /\ \A d \in Ctx \ {c} : ref'[d] = ref[d]
    BY <1>14, <1>0, <2>1 DEF TypeOK, HarborStart, Reserve
  <2> QED
    BY <2>2, <2>3 DEF StaysDead
<1>15. ASSUME NEW t \in Worker, InitOk(t) PROVE Goal
  <2>1. PICK c \in Ctx : new[t] = c
    BY <1>15, <1>0, InHand DEF InitOk
  <2>2. ref[c] # 0
    BY <1>15, <1>0, <2>1, Counted DEF InitOk
  <2>3. UNCHANGED <<mem, qmem, queue>> /\ \A d \in Ctx \ {c} : ref'[d] = ref[d]
    BY <1>15, <1>0, <2>1 DEF TypeOK, InitOk
  <2> QED
    BY <2>2, <2>3 DEF StaysDead
<1>16. CASE UNCHANGED vars
  BY <1>1, <1>16 DEF vars
<1>17. ASSUME NEW t \in Worker,
             \/ Fetch(t) \/ MqRelease(t) \/ PopEmpty(t) \/ Length(t) \/ Return(t)
             \/ NextQueue(t) \/ PushBack(t) \/ ReleaseCtx(t)
      PROVE  Goal
  BY <1>1, <1>17
     DEF Fetch, MqRelease, PopEmpty, Length, Return, NextQueue, PushBack, ReleaseCtx
<1>18. ASSUME NEW t \in Worker,
             \/ \E d \in Ctx : SetMonitor(t, d) \/ AbortVisit(t, d)
             \/ Retire(t) \/ Abort(t) \/ AbortPass(t) \/ SetInit(t) \/ PushNewQueue(t)
             \/ InitFail(t) \/ FailRetire(t)
      PROVE  Goal
  BY <1>1, <1>18 DEF SetMonitor, AbortVisit, Retire, Abort, AbortPass, SetInit,
                    PushNewQueue, InitFail, FailRetire
<1>19. ASSUME NEW t \in Thread, DoMark(t) PROVE Goal
  BY <1>1, <1>19 DEF DoMark
<1> HIDE DEF Goal
<1> QED
  BY <1>2, <1>3, <1>4, <1>5, <1>6, <1>7, <1>8, <1>9, <1>10, <1>11, <1>12, <1>13,
     <1>14, <1>15, <1>16, <1>17, <1>18, <1>19
     DEF Next, SubStep, Dispatch, Command

(* A context whose count reached zero is never grabbed again; what was freed
   stays freed, and a freed queue is not written. *)
THEOREM DeadForever == Spec => NoResurrection
<1>1. ServerInv /\ [Next]_vars =>
        [\A c \in Ctx : /\ mem[c] # "none" /\ ref[c] = 0 => ref'[c] = 0
                        /\ mem[c] = "freed" => mem'[c] = "freed"
                        /\ qmem[c] = "freed" => qmem'[c] = "freed" /\ queue'[c] = queue[c]]_vars
  BY DeadStep DEF StaysDead
<1> QED
  BY <1>1, ServerInvariant, PTL DEF Spec, NoResurrection
=============================================================================
