---------------------------- MODULE SkynetServer ----------------------------
(***************************************************************************)
(* The life of services and of their message queues in one skynet node:    *)
(* skynet_server.c (contexts, reference counts, dispatch, launch, kill,    *)
(* abort) together with the queue protocol of skynet_mq.c (in_global,      *)
(* release, the global queue) and the lookup side of skynet_handle.c.      *)
(*                                                                         *)
(* A context, its handle and its message queue are named by one value of   *)
(* Ctx: every context is allocated once, and the reuse of handle numbers   *)
(* is the subject of HandleStorage.  A queue is the sequence of messages   *)
(* its ring buffer holds.                                                  *)
(*                                                                         *)
(* One step is one critical section (a spin lock or the handle lock), one  *)
(* atomic reference count operation, or the choice a callback makes.  A    *)
(* thread has a main program counter pc and, while it is inside            *)
(* skynet_context_push, skynet_context_release or delete_context, a second *)
(* one, sop: those three are called from many places and call each other.  *)
(***************************************************************************)
EXTENDS Integers, Sequences, FiniteSets

CONSTANTS
    Ctx,        \* contexts that may exist in the life of the node
    Boot,       \* contexts skynet_start has launched before threads start
    Harbor,     \* contexts whose init calls skynet_harbor_start
    Monitors,   \* contexts some service may install with MONITOR
    Aborters,   \* contexts whose callback may issue ABORT
    Worker,     \* worker threads
    Ext,        \* timer and socket threads: they only push messages
    Weight,     \* [Worker -> Int], the weight table of start()
    MaxSend,    \* bound on the number of messages services send
    NULL

ASSUME SetsAssumption ==
    /\ Boot \subseteq Ctx /\ Harbor \subseteq Ctx
    /\ Monitors \subseteq Ctx /\ Aborters \subseteq Ctx
    /\ Worker \cap Ext = {}
    /\ NULL \notin Ctx
    /\ IsFiniteSet(Worker \cup Ext) /\ IsFiniteSet(Boot)

ASSUME NumbersAssumption ==
    /\ Weight \in [Worker -> -1 .. 3]
    /\ MaxSend \in Nat

VARIABLES
    mem,        \* life of a context's memory
    ref,        \* ctx->ref
    init,       \* ctx->init
    slot,       \* the contexts the handle table holds
    qmem,       \* life of a message queue's memory
    queue,      \* the messages a queue holds
    in_global,  \* q->in_global
    release,    \* q->release
    gmq,        \* the global queue Q
    total,      \* G_NODE.total
    monitor,    \* G_NODE.monitor_exit
    remote,     \* REMOTE of skynet_harbor.c
    pc,         \* where a thread is
    q,          \* the queue a worker dispatches (q of thread_worker)
    nq,         \* the queue popped while q is still held (nq of dispatch)
    ctx,        \* the context a worker grabbed for dispatch
    left,       \* messages still to take from q in this round (NULL: not in one)
    new,        \* the context a worker is launching
    tgt,        \* the handle a worker is killing
    scan,       \* contexts skynet_handle_retireall has yet to visit
    hit,        \* whether this pass of retireall retired something
    sop,        \* step inside context_push / context_release / delete_context
    sto,        \* the context that step is about
    smsg,       \* the message being pushed
    nsent       \* messages sent so far (names them; bounded by MaxSend)

ctxVars   == <<mem, ref, init, slot, total, monitor, remote>>
queueVars == <<qmem, queue, in_global, release, gmq>>
dispVars  == <<q, nq, ctx, left>>
cmdVars   == <<new, tgt, scan, hit>>
subVars   == <<sop, sto, smsg>>
vars == <<ctxVars, queueVars, pc, dispVars, cmdVars, subVars, nsent>>

Thread == Worker \cup Ext

(* A message: who sent it, its number, and what it is.  "error" carries the
   number of the message whose queue was dropped, "exit" is the PTYPE_CLIENT
   notice of handle_exit.  Payload and session are left out.               *)
Message == [src : Ctx \cup {NULL}, id : Nat,
            kind : {"data", "error", "exit"}]

Memory == {"none", "live", "freed"}

PC == {"fetch", "grab", "mqrel", "drop", "pop", "len", "call", "next", "back",
       "relctx", "retire", "abort", "init", "setinit", "pushq", "fail", "ext"}

Elems(s) == {s[i] : i \in DOMAIN s}
Once(s) == \A i, j \in DOMAIN s : s[i] = s[j] => i = j

(* The first message of a service: snlua_init posts the arguments to the
   new service itself ("it must be first message").                        *)
FirstMessage(c) == [src |-> c, id |-> 0, kind |-> "data"]

-----------------------------------------------------------------------------
(* Queue protocol, skynet_mq.c *)

Goto(t, l) == pc' = [pc EXCEPT ![t] = l]

(* Deliberately wrong variants, named after the slip they make: replacing
   the operator by its variant must break a property.                      *)
MqPushNoEnter(c, m) ==
    /\ queue' = [queue EXCEPT ![c] = Append(@, m)]
    /\ in_global' = [in_global EXCEPT ![c] = TRUE]
    /\ UNCHANGED gmq

MqMarkReleaseNoEnter(c) ==
    /\ release' = [release EXCEPT ![c] = TRUE]
    /\ UNCHANGED gmq

MqCreateOutside(c) ==
    /\ qmem' = [qmem EXCEPT ![c] = "live"]
    /\ UNCHANGED <<in_global, queue, release>>

(* skynet_mq_create: empty, and flagged as if it were in the global queue,
   so that nobody enters it there before skynet_context_new does.          *)
MqCreate(c) ==
    /\ qmem' = [qmem EXCEPT ![c] = "live"]
    /\ in_global' = [in_global EXCEPT ![c] = TRUE]
    /\ UNCHANGED <<queue, release>>

(* skynet_mq_push: append, and enter the global queue unless flagged. *)
MqPush(c, m) ==
    /\ queue' = [queue EXCEPT ![c] = Append(@, m)]
    /\ in_global' = [in_global EXCEPT ![c] = TRUE]
    /\ gmq' = IF in_global[c] THEN gmq ELSE Append(gmq, c)

(* skynet_mq_mark_release: in_global is left as it is. *)
MqMarkRelease(c) ==
    /\ release' = [release EXCEPT ![c] = TRUE]
    /\ gmq' = IF in_global[c] THEN gmq ELSE Append(gmq, c)

(* The queue skynet_mq_release works on: the failed launch's own queue, or
   the one whose context is gone.                                          *)
Dying(t) == IF new[t] # NULL THEN new[t] ELSE q[t]

-----------------------------------------------------------------------------
(* skynet_context_push, skynet_context_release, delete_context *)

StartPushUncounted(t, c, m) ==
    IF c \in slot
    THEN /\ sop' = [sop EXCEPT ![t] = "push"]
         /\ sto' = [sto EXCEPT ![t] = c]
         /\ smsg' = [smsg EXCEPT ![t] = m]
         /\ UNCHANGED ref
    ELSE UNCHANGED <<ref, subVars>>

StartPushStale(t, c, m) ==
    IF c # NULL /\ mem[c] = "live"
    THEN /\ ref' = [ref EXCEPT ![c] = @ + 1]
         /\ sop' = [sop EXCEPT ![t] = "push"]
         /\ sto' = [sto EXCEPT ![t] = c]
         /\ smsg' = [smsg EXCEPT ![t] = m]
    ELSE UNCHANGED <<ref, subVars>>

(* skynet_handle_grab on behalf of skynet_context_push; a handle that is not
   in the table makes the push fail and changes nothing.                   *)
StartPush(t, c, m) ==
    IF c \in slot
    THEN /\ ref' = [ref EXCEPT ![c] = @ + 1]
         /\ sop' = [sop EXCEPT ![t] = "push"]
         /\ sto' = [sto EXCEPT ![t] = c]
         /\ smsg' = [smsg EXCEPT ![t] = m]
    ELSE UNCHANGED <<ref, subVars>>

StartRelease(t, c) ==
    /\ sop' = [sop EXCEPT ![t] = "rel"]
    /\ sto' = [sto EXCEPT ![t] = c]
    /\ UNCHANGED smsg

EndSub(t) ==
    /\ sop' = [sop EXCEPT ![t] = "none"]
    /\ sto' = [sto EXCEPT ![t] = NULL]

DoPush(t) ==
    /\ sop[t] = "push"
    /\ MqPush(sto[t], smsg[t])
    /\ sop' = [sop EXCEPT ![t] = "rel"]
    /\ smsg' = [smsg EXCEPT ![t] = NULL]
    /\ UNCHANGED <<ctxVars, qmem, release, pc, dispVars, cmdVars, sto, nsent>>

(* The thread whose decrement reaches zero goes on to delete_context. *)
DoRelease(t) ==
    /\ sop[t] = "rel"
    /\ ref' = [ref EXCEPT ![sto[t]] = @ - 1]
    /\ IF ref[sto[t]] = 1
       THEN /\ sop' = [sop EXCEPT ![t] = "mark"]
            /\ UNCHANGED sto
       ELSE EndSub(t)
    /\ UNCHANGED <<mem, init, slot, total, monitor, remote, queueVars, pc,
                   dispVars, cmdVars, smsg, nsent>>

DoMark(t) ==
    /\ sop[t] = "mark"
    /\ MqMarkRelease(sto[t])
    /\ sop' = [sop EXCEPT ![t] = "free"]
    /\ UNCHANGED <<ctxVars, qmem, queue, in_global, pc, dispVars, cmdVars,
                   sto, smsg, nsent>>

DoFree(t) ==
    /\ sop[t] = "free"
    /\ mem' = [mem EXCEPT ![sto[t]] = "freed"]
    /\ total' = total - 1
    /\ EndSub(t)
    /\ UNCHANGED <<ref, init, slot, monitor, remote, queueVars, pc, dispVars,
                   cmdVars, smsg, nsent>>

SubStep(t) == DoPush(t) \/ DoRelease(t) \/ DoMark(t) \/ DoFree(t)

-----------------------------------------------------------------------------
(* skynet_context_message_dispatch and thread_worker *)

At(t, l) == pc[t] = l /\ sop[t] = "none"

(* skynet_globalmq_pop; on an empty global queue the worker sleeps (see
   WorkerPool) and comes back here.                                        *)
Fetch(t) ==
    /\ At(t, "fetch")
    /\ gmq # <<>>
    /\ gmq' = Tail(gmq)
    /\ q' = [q EXCEPT ![t] = Head(gmq)]
    /\ Goto(t, "grab")
    /\ UNCHANGED <<ctxVars, qmem, queue, in_global, release, nq, ctx, left,
                   cmdVars, subVars, nsent>>

Grab(t) ==
    /\ At(t, "grab")
    /\ IF q[t] \in slot
       THEN /\ ref' = [ref EXCEPT ![q[t]] = @ + 1]
            /\ ctx' = [ctx EXCEPT ![t] = q[t]]
            /\ Goto(t, "pop")
       ELSE /\ Goto(t, "mqrel")
            /\ UNCHANGED <<ref, ctx>>
    /\ UNCHANGED <<mem, init, slot, total, monitor, remote, queueVars, q, nq, left,
                   cmdVars, subVars, nsent>>

(* After the last use of a dying queue: back to the callback that tried to
   launch, or to the loop of thread_worker.                                *)
LeaveDying(t) ==
    IF new[t] # NULL
    THEN /\ new' = [new EXCEPT ![t] = NULL]
         /\ Goto(t, "call")
         /\ UNCHANGED q
    ELSE /\ q' = [q EXCEPT ![t] = NULL]
         /\ Goto(t, "fetch")
         /\ UNCHANGED new

(* skynet_mq_release *)
MqRelease(t) ==
    /\ At(t, "mqrel")
    /\ IF release[Dying(t)]
       THEN /\ Goto(t, "drop")
            /\ UNCHANGED <<gmq, q, new>>
       ELSE /\ gmq' = Append(gmq, Dying(t))
            /\ LeaveDying(t)
    /\ UNCHANGED <<ctxVars, qmem, queue, in_global, release, nq, ctx, left,
                   tgt, scan, hit, subVars, nsent>>

DropSilently(t) ==
    /\ At(t, "drop")
    /\ queue[Dying(t)] # <<>>
    /\ queue' = [queue EXCEPT ![Dying(t)] = Tail(@)]
    /\ UNCHANGED <<ctxVars, qmem, in_global, release, gmq, pc, dispVars, cmdVars, subVars, nsent>>

(* _drop_queue takes one message: drop_message posts PTYPE_ERROR to its
   source (destination 0 is ignored by skynet_send).                       *)
DropMessage(t) ==
    /\ At(t, "drop")
    /\ queue[Dying(t)] # <<>>
    /\ LET m == Head(queue[Dying(t)])
           e == [src |-> Dying(t), id |-> m.id, kind |-> "error"]
       IN StartPush(t, m.src, e)
    /\ queue' = [queue EXCEPT ![Dying(t)] = Tail(@)]
    /\ UNCHANGED <<mem, init, slot, total, monitor, remote, qmem, in_global,
                   release, gmq, pc, dispVars, cmdVars, nsent>>

(* _drop_queue finds the queue empty: _release frees it. *)
FreeQueue(t) ==
    /\ At(t, "drop")
    /\ queue[Dying(t)] = <<>>
    /\ in_global' = [in_global EXCEPT ![Dying(t)] = FALSE]
    /\ qmem' = [qmem EXCEPT ![Dying(t)] = "freed"]
    /\ LeaveDying(t)
    /\ UNCHANGED <<ctxVars, queue, release, gmq, nq, ctx, left, tgt, scan,
                   hit, subVars, nsent>>

PopClearsFlag(t) ==
    /\ At(t, "pop")
    /\ queue[q[t]] # <<>>
    /\ queue' = [queue EXCEPT ![q[t]] = Tail(@)]
    /\ in_global' = [in_global EXCEPT ![q[t]] = FALSE]
    /\ Goto(t, IF left[t] = NULL THEN "len" ELSE "call")
    /\ UNCHANGED <<ctxVars, qmem, release, gmq, q, nq, ctx, left, cmdVars,
                   subVars, nsent>>

(* skynet_mq_pop: only after the first message is the length looked at. *)
Pop(t) ==
    /\ At(t, "pop")
    /\ queue[q[t]] # <<>>
    /\ queue' = [queue EXCEPT ![q[t]] = Tail(@)]
    /\ Goto(t, IF left[t] = NULL THEN "len" ELSE "call")
    /\ UNCHANGED <<ctxVars, qmem, in_global, release, gmq, q, nq, ctx, left,
                   cmdVars, subVars, nsent>>

(* skynet_mq_pop on an empty queue clears in_global; the worker lets go of
   the queue and releases the context.                                     *)
PopEmpty(t) ==
    /\ At(t, "pop")
    /\ queue[q[t]] = <<>>
    /\ in_global' = [in_global EXCEPT ![q[t]] = FALSE]
    /\ StartRelease(t, ctx[t])
    /\ ctx' = [ctx EXCEPT ![t] = NULL]
    /\ q' = [q EXCEPT ![t] = NULL]
    /\ left' = [left EXCEPT ![t] = NULL]
    /\ Goto(t, "fetch")
    /\ UNCHANGED <<ctxVars, qmem, queue, release, gmq, nq, cmdVars,
                   nsent>>

ShiftRight(n, w) == n \div <<1, 2, 4, 8>>[w + 1]

(* n = skynet_mq_length(q) >> weight, read under the queue lock after the
   first message was taken; n stays 1 for a negative weight.               *)
Length(t) ==
    /\ At(t, "len")
    /\ LET n == IF Weight[t] < 0 THEN 1
                ELSE ShiftRight(Len(queue[q[t]]), Weight[t])
       IN left' = [left EXCEPT ![t] = IF n > 1 THEN n - 1 ELSE 0]
    /\ Goto(t, "call")
    /\ UNCHANGED <<ctxVars, queueVars, q, nq, ctx, cmdVars, subVars, nsent>>

(* dispatch_message returns: next message of the round, or end of round. *)
Return(t) ==
    /\ At(t, "call")
    /\ IF left[t] > 0
       THEN /\ left' = [left EXCEPT ![t] = @ - 1]
            /\ Goto(t, "pop")
       ELSE /\ left' = [left EXCEPT ![t] = NULL]
            /\ Goto(t, "next")
    /\ UNCHANGED <<ctxVars, queueVars, q, nq, ctx, cmdVars, subVars, nsent>>

(* End of round: keep q when no other queue waits, else put q back. *)
NextQueue(t) ==
    /\ At(t, "next")
    /\ IF gmq = <<>>
       THEN /\ Goto(t, "relctx")
            /\ UNCHANGED <<gmq, nq>>
       ELSE /\ nq' = [nq EXCEPT ![t] = Head(gmq)]
            /\ gmq' = Tail(gmq)
            /\ Goto(t, "back")
    /\ UNCHANGED <<ctxVars, qmem, queue, in_global, release, q, ctx, left,
                   cmdVars, subVars, nsent>>

PushBack(t) ==
    /\ At(t, "back")
    /\ gmq' = Append(gmq, q[t])
    /\ q' = [q EXCEPT ![t] = nq[t]]
    /\ nq' = [nq EXCEPT ![t] = NULL]
    /\ Goto(t, "relctx")
    /\ UNCHANGED <<ctxVars, qmem, queue, in_global, release, ctx, left,
                   cmdVars, subVars, nsent>>

ReleaseCtx(t) ==
    /\ At(t, "relctx")
    /\ StartRelease(t, ctx[t])
    /\ ctx' = [ctx EXCEPT ![t] = NULL]
    /\ Goto(t, "grab")
    /\ UNCHANGED <<ctxVars, queueVars, q, nq, left, cmdVars, nsent>>

-----------------------------------------------------------------------------
(* What a callback, or an init function, may ask of the node *)

Sender(t) == IF pc[t] = "init" THEN new[t] ELSE ctx[t]

Data(s) == [src |-> s, id |-> nsent + 1, kind |-> "data"]

(* skynet_send to a local handle, from a callback or from an init function. *)
Send(t, d) ==
    /\ At(t, "call") \/ At(t, "init")
    /\ nsent < MaxSend
    /\ d \in slot
    /\ StartPush(t, d, Data(Sender(t)))
    /\ nsent' = nsent + 1
    /\ UNCHANGED <<mem, init, slot, total, monitor, remote, queueVars, pc,
                   dispVars, cmdVars>>

(* skynet_send to a handle of another node: skynet_context_send pushes to
   REMOTE without grabbing it.                                             *)
SendRemote(t) ==
    /\ At(t, "call") \/ At(t, "init")
    /\ remote # NULL
    /\ nsent < MaxSend
    /\ MqPush(remote, Data(Sender(t)))
    /\ nsent' = nsent + 1
    /\ UNCHANGED <<ctxVars, qmem, release, pc, dispVars, cmdVars, subVars>>

(* The timer and the socket thread push with source 0. *)
ExtSend(t, d) ==
    /\ At(t, "ext")
    /\ nsent < MaxSend
    /\ d \in slot
    /\ StartPush(t, d, Data(NULL))
    /\ nsent' = nsent + 1
    /\ UNCHANGED <<mem, init, slot, total, monitor, remote, queueVars, pc,
                   dispVars, cmdVars>>

(* cmd_monitor *)
SetMonitor(t, d) ==
    /\ At(t, "call")
    /\ d \in Monitors \ {monitor}
    /\ mem[d] # "none"
    /\ monitor' = d
    /\ UNCHANGED <<mem, ref, init, slot, total, remote, queueVars, pc, dispVars,
                   cmdVars, subVars, nsent>>

(* cmd_exit (d is the caller) and cmd_kill: handle_exit first notifies the
   monitor, as the victim, then retires the victim.  The victim may be gone
   already; such a kill counts against the bound MaxSend.                  *)
Kill(t, d) ==
    /\ At(t, "call")
    /\ mem[d] # "none"
    /\ d \notin slot => nsent < MaxSend
    /\ nsent' = IF d \in slot THEN nsent ELSE nsent + 1
    /\ tgt' = [tgt EXCEPT ![t] = d]
    /\ IF monitor # NULL
       THEN StartPush(t, monitor, [src |-> d, id |-> 0, kind |-> "exit"])
       ELSE UNCHANGED <<ref, subVars>>
    /\ Goto(t, "retire")
    /\ UNCHANGED <<mem, init, slot, total, monitor, remote, queueVars, dispVars,
                   new, scan, hit>>

TakeOutBlindly(t, c) ==
    /\ slot' = slot \ {c}
    /\ StartRelease(t, c)

TakeOutLeak(t, c) ==
    /\ slot' = slot \ {c}
    /\ UNCHANGED subVars

(* skynet_handle_retire: the table's own reference is released only by the
   thread that took the context out of the table.                          *)
TakeOut(t, c) ==
    IF c \in slot
    THEN /\ slot' = slot \ {c}
         /\ StartRelease(t, c)
    ELSE UNCHANGED <<slot, subVars>>

Retire(t) ==
    /\ At(t, "retire")
    /\ TakeOut(t, tgt[t])
    /\ tgt' = [tgt EXCEPT ![t] = NULL]
    /\ Goto(t, "call")
    /\ UNCHANGED <<mem, ref, init, total, monitor, remote, queueVars, dispVars,
                   new, scan, hit, nsent>>

(* cmd_abort: skynet_handle_retireall visits the table until one whole pass
   retires nothing.                                                        *)
Abort(t) ==
    /\ At(t, "call")
    /\ ctx[t] \in Aborters
    /\ scan' = [scan EXCEPT ![t] = Ctx]
    /\ hit' = [hit EXCEPT ![t] = FALSE]
    /\ Goto(t, "abort")
    /\ UNCHANGED <<ctxVars, queueVars, dispVars, new, tgt, subVars, nsent>>

AbortVisit(t, c) ==
    /\ At(t, "abort")
    /\ c \in scan[t]
    /\ TakeOut(t, c)
    /\ scan' = [scan EXCEPT ![t] = @ \ {c}]
    /\ hit' = [hit EXCEPT ![t] = @ \/ c \in slot]
    /\ UNCHANGED <<mem, ref, init, total, monitor, remote, queueVars, pc,
                   dispVars, new, tgt, nsent>>

AbortPass(t) ==
    /\ At(t, "abort")
    /\ scan[t] = {}
    /\ IF hit[t]
       THEN /\ scan' = [scan EXCEPT ![t] = Ctx]
            /\ hit' = [hit EXCEPT ![t] = FALSE]
            /\ UNCHANGED pc
       ELSE /\ Goto(t, "call")
            /\ UNCHANGED <<scan, hit>>
    /\ UNCHANGED <<ctxVars, queueVars, dispVars, new, tgt, subVars, nsent>>

(* cmd_launch enters skynet_context_new: two references (the table's and the
   launcher's), a queue that counts as being in the global queue.  From
   skynet_handle_register to context_inc is one step: no thread but this one
   knows the handle yet.                                                   *)
Launch(t, c) ==
    /\ At(t, "call")
    /\ mem[c] = "none"
    /\ mem' = [mem EXCEPT ![c] = "live"]
    /\ ref' = [ref EXCEPT ![c] = 2]
    /\ slot' = slot \cup {c}
    /\ total' = total + 1
    /\ MqCreate(c)
    /\ new' = [new EXCEPT ![t] = c]
    /\ Goto(t, "init")
    /\ UNCHANGED <<init, monitor, remote, gmq, dispVars, tgt,
                   scan, hit, subVars, nsent>>

ReserveCounted(c) ==
    /\ ref' = [ref EXCEPT ![c] = @ + 1]
    /\ UNCHANGED total

(* skynet_context_reserve: grab, and stop counting the context in total. *)
Reserve(c) ==
    /\ ref' = [ref EXCEPT ![c] = @ + 1]
    /\ total' = total - 1

(* skynet_harbor_start, called by the harbor service's init: a node has one
   harbor service, and its init runs once.                                 *)
HarborStart(t) ==
    /\ At(t, "init")
    /\ new[t] \in Harbor
    /\ remote = NULL
    /\ remote' = new[t]
    /\ Reserve(new[t])
    /\ UNCHANGED <<mem, init, slot, monitor, queueVars, pc, dispVars, cmdVars,
                   subVars, nsent>>

(* init returned 0: the launcher's reference goes; when it was the last one
   the context was killed during init, and it is deleted here.             *)
InitOk(t) ==
    /\ At(t, "init")
    /\ ref' = [ref EXCEPT ![new[t]] = @ - 1]
    /\ IF ref[new[t]] = 1
       THEN /\ sop' = [sop EXCEPT ![t] = "mark"]
            /\ sto' = [sto EXCEPT ![t] = new[t]]
            /\ Goto(t, "pushq")
       ELSE /\ Goto(t, "setinit")
            /\ UNCHANGED <<sop, sto>>
    /\ UNCHANGED <<mem, init, slot, total, monitor, remote, queueVars, dispVars,
                   cmdVars, smsg, nsent>>

(* ctx->init = true, through a pointer that is no longer counted: a context
   killed since InitOk has been freed, and the write lands in that memory. *)
SetInit(t) ==
    /\ At(t, "setinit")
    /\ init' = [init EXCEPT ![new[t]] = TRUE]
    /\ Goto(t, "pushq")
    /\ UNCHANGED <<mem, ref, slot, total, monitor, remote, queueVars, dispVars,
                   cmdVars, subVars, nsent>>

PushNewQueue(t) ==
    /\ At(t, "pushq")
    /\ gmq' = Append(gmq, new[t])
    /\ new' = [new EXCEPT ![t] = NULL]
    /\ Goto(t, "call")
    /\ UNCHANGED <<ctxVars, qmem, queue, in_global, release, dispVars, tgt, scan,
                   hit, subVars, nsent>>

(* init failed: release, retire, and release the queue. *)
InitFail(t) ==
    /\ At(t, "init")
    /\ StartRelease(t, new[t])
    /\ Goto(t, "fail")
    /\ UNCHANGED <<ctxVars, queueVars, dispVars, cmdVars, nsent>>

FailRetire(t) ==
    /\ At(t, "fail")
    /\ TakeOut(t, new[t])
    /\ Goto(t, "mqrel")
    /\ UNCHANGED <<mem, ref, init, total, monitor, remote, queueVars, dispVars,
                   cmdVars, nsent>>

-----------------------------------------------------------------------------
Dispatch(t) ==
    \/ Fetch(t) \/ Grab(t) \/ MqRelease(t) \/ DropMessage(t) \/ FreeQueue(t)
    \/ Pop(t) \/ PopEmpty(t) \/ Length(t) \/ Return(t)
    \/ NextQueue(t) \/ PushBack(t) \/ ReleaseCtx(t)

Command(t) ==
    \/ \E d \in Ctx : Send(t, d) \/ SetMonitor(t, d) \/ Kill(t, d)
    \/ \E c \in Ctx : Launch(t, c) \/ AbortVisit(t, c)
    \/ SendRemote(t) \/ Retire(t) \/ Abort(t) \/ AbortPass(t)
    \/ HarborStart(t) \/ InitOk(t) \/ SetInit(t) \/ PushNewQueue(t)
    \/ InitFail(t) \/ FailRetire(t)

(* skynet_start has launched Boot; every service of Boot waits in the global
   queue with its first message.                                           *)
Init ==
    /\ mem = [c \in Ctx |-> IF c \in Boot THEN "live" ELSE "none"]
    /\ ref = [c \in Ctx |-> IF c \in Boot THEN 1 ELSE 0]
    /\ init = [c \in Ctx |-> c \in Boot]
    /\ slot = Boot
    /\ qmem = [c \in Ctx |-> IF c \in Boot THEN "live" ELSE "none"]
    /\ queue = [c \in Ctx |-> IF c \in Boot THEN <<FirstMessage(c)>> ELSE <<>>]
    /\ in_global = [c \in Ctx |-> c \in Boot]
    /\ release = [c \in Ctx |-> FALSE]
    /\ gmq \in [1 .. Cardinality(Boot) -> Boot]
    /\ Elems(gmq) = Boot /\ Once(gmq)
    /\ total = Cardinality(Boot)
    /\ monitor = NULL
    /\ remote = NULL
    /\ pc = [t \in Thread |-> IF t \in Worker THEN "fetch" ELSE "ext"]
    /\ q = [t \in Worker |-> NULL]
    /\ nq = [t \in Worker |-> NULL]
    /\ ctx = [t \in Worker |-> NULL]
    /\ left = [t \in Worker |-> NULL]
    /\ new = [t \in Worker |-> NULL]
    /\ tgt = [t \in Worker |-> NULL]
    /\ scan = [t \in Worker |-> {}]
    /\ hit = [t \in Worker |-> FALSE]
    /\ sop = [t \in Thread |-> "none"]
    /\ sto = [t \in Thread |-> NULL]
    /\ smsg = [t \in Thread |-> NULL]
    /\ nsent = 0

Next ==
    \/ \E t \in Thread : SubStep(t)
    \/ \E t \in Worker : Dispatch(t) \/ Command(t)
    \/ \E t \in Ext, d \in Ctx : ExtSend(t, d)

Spec == Init /\ [][Next]_vars

(* while (!m->quit): the timer thread sets quit once no context is left (see
   WorkerPool), and a worker may then end between two dispatches, with a
   queue in hand or without.                                               *)
MustGoOn(t) == total # 0 \/ pc[t] \notin {"fetch", "grab"}

(* Scheduling: a thread inside the node's own code keeps running, spin locks
   are held for a few instructions, and a callback or an init function
   returns in the end, whatever it did before.  Workers dispatch as long as
   the node has contexts.                                                  *)
Fairness ==
    /\ \A t \in Thread : WF_vars(SubStep(t))
    /\ \A t \in Worker :
        /\ WF_vars(MustGoOn(t) /\ Dispatch(t))
        /\ SF_vars(Return(t))
        /\ WF_vars(Retire(t) \/ AbortPass(t) \/ (\E c \in Ctx : AbortVisit(t, c)))
        /\ WF_vars(InitOk(t) \/ InitFail(t))
        /\ WF_vars(SetInit(t) \/ PushNewQueue(t) \/ FailRetire(t))

FairSpec == Spec /\ Fairness

-----------------------------------------------------------------------------
(* Properties *)

(* Every variable has its type. *)
TypeOK ==
    /\ mem \in [Ctx -> Memory] /\ qmem \in [Ctx -> Memory]
    /\ ref \in [Ctx -> Int]
    /\ init \in [Ctx -> BOOLEAN]
    /\ slot \subseteq Ctx
    /\ queue \in [Ctx -> Seq(Message)]
    /\ in_global \in [Ctx -> BOOLEAN] /\ release \in [Ctx -> BOOLEAN]
    /\ gmq \in Seq(Ctx)
    /\ total \in Int
    /\ monitor \in Ctx \cup {NULL} /\ remote \in Ctx \cup {NULL}
    /\ pc \in [Thread -> PC]
    /\ q \in [Worker -> Ctx \cup {NULL}] /\ nq \in [Worker -> Ctx \cup {NULL}]
    /\ ctx \in [Worker -> Ctx \cup {NULL}]
    /\ left \in [Worker -> Nat \cup {NULL}]
    /\ new \in [Worker -> Ctx \cup {NULL}] /\ tgt \in [Worker -> Ctx \cup {NULL}]
    /\ scan \in [Worker -> SUBSET Ctx] /\ hit \in [Worker -> BOOLEAN]
    /\ sop \in [Thread -> {"none", "push", "rel", "mark", "free"}]
    /\ sto \in [Thread -> Ctx \cup {NULL}]
    /\ smsg \in [Thread -> Message \cup {NULL}]
    /\ nsent \in 0 .. MaxSend

(* A worker has a queue in hand: as its q, as its nq, or in a launch. *)
Has(t, c) == q[t] = c \/ nq[t] = c \/ new[t] = c

(* A queue is in one place: at most once in the global queue, or in one hand
   of one thread, never both.  The linked list of skynet_globalmq_push relies
   on it, and so does every service that assumes it runs on one thread.    *)
OneOwner ==
    /\ Once(gmq)
    /\ \A t \in Worker, c \in Ctx : Has(t, c) => c \notin Elems(gmq)
    /\ \A t, u \in Worker, c \in Ctx : Has(t, c) /\ Has(u, c) => t = u
    /\ \A t \in Worker, c \in Ctx :
        /\ q[t] = c => nq[t] # c /\ new[t] # c
        /\ nq[t] = c => new[t] # c

Owned(c) == c \in Elems(gmq) \/ \E t \in Worker : Has(t, c)

(* A queue that still has work to do (messages to deliver, or its own
   release) is in the global queue or in a thread's hand, so some worker
   comes to it: nothing is stranded by a push racing the pop that finds the
   queue empty, or by a release racing either.                             *)
NotStranded ==
    \A c \in Ctx :
        qmem[c] = "live" /\ (queue[c] # <<>> \/ release[c]) => Owned(c)

(* The flag, as the code uses it: set means owned, clear means in nobody's
   hands until the queue is marked for release.                            *)
FlagExact ==
    \A c \in Ctx :
        qmem[c] = "live" => (Owned(c) <=> in_global[c] \/ release[c])

(* A thread runs code of service c: its callback (and what the callback
   called) or its init function.                                           *)
Runs(t, c) ==
    \/ ctx[t] = c /\ pc[t] \notin {"pop", "next", "back", "relctx"}
    \/ new[t] = c /\ pc[t] = "init"

(* What CHECKCALLING_BEGIN asserts: a service never runs on two threads. *)
ExclusiveCallback ==
    \A t, u \in Worker, c \in Ctx : Runs(t, c) /\ Runs(u, c) => t = u

(* assert(ctx->init) of dispatch_message: no callback before init is over. *)
InitBeforeCallback ==
    \A t \in Worker : ctx[t] # NULL /\ pc[t] = "call" => init[ctx[t]]

(* Who holds a counted reference to a context: a worker that dispatches it,
   a thread inside skynet_context_push or on its way to release, a launcher
   before InitOk, the handle table, the harbor module.                     *)
Dispatchers(c) == {t \in Worker : ctx[t] = c}
Callers(c)     == {t \in Thread : sto[t] = c /\ sop[t] \in {"push", "rel"}}
Launchers(c)   == {t \in Worker : new[t] = c /\ pc[t] = "init"}
One(p) == IF p THEN 1 ELSE 0

Refs(c) ==
    Cardinality(Dispatchers(c)) + Cardinality(Callers(c)) + Cardinality(Launchers(c))
    + One(c \in slot) + One(c = remote)

(* ctx->ref is exactly the number of holders: no holder is forgotten (use
   after free) and none is counted twice (leak).                           *)
RefExact == \A c \in Ctx : ref[c] = Refs(c)

(* Memory is used only while it is allocated: contexts by whoever counts on
   them, queues by whoever has them in hand or pushes to them, the global
   queue included.  The launcher's uncounted write of ctx->init (SetInit) is
   excepted: it may come after the free.                                   *)
NoUseAfterFree ==
    /\ \A c \in Ctx : Refs(c) > 0 => mem[c] = "live" /\ qmem[c] = "live"
    /\ \A t \in Thread :
        /\ sop[t] \in {"mark", "free"} => mem[sto[t]] = "live"
        /\ sop[t] = "mark" => qmem[sto[t]] = "live"
    /\ \A c \in Ctx : Owned(c) => qmem[c] = "live"

(* drop_message answers what a queue still held when its service died; by
   then no thread can add to it, so no message is freed unanswered.        *)
NoPushToDropped ==
    \A t \in Thread : sop[t] = "push" => ~ release[sto[t]]

(* Messages of one service to another are queued in the order they were
   sent, and the one on its way is younger than all of them.               *)
SendOrder ==
    /\ \A c \in Ctx : \A i, j \in DOMAIN queue[c] :
        LET m == queue[c][i]  n == queue[c][j]
        IN i < j /\ m.src = n.src /\ m.src # NULL /\ {m.kind, n.kind} = {"data"} => m.id < n.id
    /\ \A t \in Thread : sop[t] = "push" /\ smsg[t].kind = "data" /\ smsg[t].src # NULL =>
        \A i \in DOMAIN queue[sto[t]] :
            LET m == queue[sto[t]][i]
            IN m.src = smsg[t].src /\ m.kind = "data" => m.id < smsg[t].id

(* G_NODE.total, whose zero ends the threads, is the number of contexts
   alive besides the reserved harbor.                                      *)
TotalExact ==
    total = Cardinality({c \in Ctx : mem[c] = "live" /\ c # remote})

(* A context whose last reference is gone is never grabbed again, and what
   was freed stays freed.                                                  *)
NoResurrection ==
    [][\A c \in Ctx :
        /\ mem[c] # "none" /\ ref[c] = 0 => ref'[c] = 0
        /\ mem[c] = "freed" => mem'[c] = "freed"
        /\ qmem[c] = "freed" => qmem'[c] = "freed" /\ queue'[c] = queue[c]]_vars

(* A retired service is freed, and its queue too, however many messages,
   callbacks and other kills are under way; the reserved harbor is not.  Only
   when it was the last one the queue may stay, because the workers stop.  *)
Reclaimed ==
    \A c \in Ctx :
        mem[c] = "live" /\ c \notin slot /\ c # remote
        ~> mem[c] = "freed" /\ (qmem[c] = "freed" \/ total = 0)

(* Every message a queue accepts is taken out of it, to be handled or to be
   dropped with an error, unless the last service ends first.              *)
Drained ==
    \A c \in Ctx, i \in 1 .. MaxSend :
        (\E k \in DOMAIN queue[c] : queue[c][k].id = i /\ queue[c][k].kind = "data")
        ~> \/ total = 0
           \/ \A k \in DOMAIN queue[c] : queue[c][k].id # i \/ queue[c][k].kind # "data"

-----------------------------------------------------------------------------
(* The inductive invariant *)

(* Where a thread is determines which of its local variables are in use. *)
SubControl(t) ==
    /\ sop[t] = "none" <=> sto[t] = NULL
    /\ sop[t] = "push" => smsg[t] \in Message

WorkerControl(t) ==
    /\ pc[t] # "ext"
    /\ q[t] = NULL <=> pc[t] = "fetch"
    /\ nq[t] = NULL <=> pc[t] # "back"
    /\ ctx[t] = NULL <=>
        pc[t] \in {"fetch", "grab"} \/ (pc[t] \in {"mqrel", "drop"} /\ new[t] = NULL)
    /\ ctx[t] # NULL /\ pc[t] # "relctx" => q[t] = ctx[t]
    /\ new[t] # NULL => pc[t] \in {"init", "setinit", "pushq", "fail", "mqrel", "drop"}
    /\ pc[t] \in {"init", "setinit", "pushq", "fail"} => new[t] # NULL
    /\ pc[t] = "retire" => tgt[t] # NULL
    /\ ctx[t] # NULL /\ pc[t] \notin {"pop", "len", "next", "back", "relctx"}
        => left[t] \in Nat

Control ==
    /\ \A t \in Ext : pc[t] = "ext"
    /\ \A t \in Thread : SubControl(t)
    /\ \A t \in Worker : WorkerControl(t)

(* Memory, reference count, release mark and queue of a context move
   together.                                                               *)
ContextLife(c) ==
    /\ mem[c] = "none" <=> qmem[c] = "none"
    /\ mem[c] = "none" => ~ release[c] /\ queue[c] = <<>>
    /\ ref[c] # 0 => mem[c] = "live"
    /\ release[c] => ref[c] = 0
    /\ qmem[c] = "freed" => release[c]
    /\ Owned(c) => qmem[c] = "live"
    /\ queue[c] # <<>> => in_global[c]

Deletes(t) == sop[t] \in {"mark", "free"}

(* One thread at most is in delete_context for a context, which nobody else
   refers to any more.                                                     *)
Deletion ==
    /\ \A t \in Thread : Deletes(t) =>
        /\ ref[sto[t]] = 0 /\ mem[sto[t]] = "live"
        /\ release[sto[t]] <=> sop[t] = "free"
    /\ \A t, u \in Thread : Deletes(t) /\ Deletes(u) /\ sto[t] = sto[u] => t = u

(* Only a queue marked for release is dropped. *)
Dropping == \A t \in Worker : pc[t] = "drop" => release[Dying(t)]

Lifetime == (\A c \in Ctx : ContextLife(c)) /\ Deletion /\ Dropping

(* A service in the table has been initialised or is being launched. *)
Initialised ==
    /\ \A c \in slot : init[c] \/
        \E t \in Worker : new[t] = c /\ pc[t] \in {"init", "setinit", "fail"}
    /\ \A t \in Worker : ctx[t] # NULL => init[ctx[t]]

(* What the steps of the node preserve, whatever the numbers of services,
   threads and messages: from it follow OneOwner, NotStranded, RefExact,
   NoUseAfterFree, NoPushToDropped, InitBeforeCallback, ExclusiveCallback
   and NoResurrection.                                                     *)
ServerInv ==
    TypeOK /\ Control /\ RefExact /\ Lifetime /\ OneOwner /\ FlagExact /\ Initialised
=============================================================================
