----------------------------- MODULE WorkerPool ------------------------------
(***************************************************************************)
(* The threads of a node, skynet_start.c: workers that sleep on a          *)
(* condition variable when the global queue is empty, the timer and socket *)
(* threads that wake them, the monitor thread, and the way all of them end *)
(* when the last service is gone.                                          *)
(*                                                                         *)
(* A message queue is named by its service; what it holds, and whether its *)
(* service is still there, is a choice of each visit (SkynetServer has the *)
(* details).  G_NODE.total is what matters of it: whether it is zero.      *)
(* The pthread mutex and condition variable are modelled by their          *)
(* contract, spurious wakeups included.                                    *)
(*                                                                         *)
(* A worker tells its skynet_monitor what it is doing in two steps, the    *)
(* destination and then the version; the monitor thread reads them in two  *)
(* steps, the version and then the destination.                            *)
(***************************************************************************)
EXTENDS Integers, FiniteSets, Sequences, SequencesExt

CONSTANTS
    Worker,     \* worker threads
    Endless,    \* workers that may be caught in a callback for ever
    Watched,    \* workers whose skynet_monitor is followed (they are independent)
    Service,    \* services whose queues are visited
    Reserved,   \* of these the harbor, which G_NODE.total does not count
    MaxVersion, \* the version is a number below this one and wraps
    NULL

ASSUME PoolAssumption ==
    /\ IsFiniteSet(Worker) /\ Worker # {} /\ Endless \subseteq Worker /\ Watched \subseteq Worker
    /\ IsFiniteSet(Service) /\ Reserved \subseteq Service /\ NULL \notin Worker \cup Service
    /\ MaxVersion \in Nat \ {0}

VARIABLES
    gq,         \* the global queue
    total,      \* G_NODE.total # 0
    mutex,      \* the worker that holds m->mutex between two steps
    sleep,      \* m->sleep
    quit,       \* m->quit
    pc,         \* workers
    q, nq,      \* the queue in a worker's hands, and the one it takes next
    tpc, spc,   \* timer and socket thread
    sockexit,   \* skynet_socket_exit was called
    mpc,        \* monitor thread: <<place, worker it looks at>>
    mleft,      \* workers it has yet to look at
    version, check_version, destination,    \* struct skynet_monitor of a worker
    endless     \* services with ctx->endless set

trigger == <<version, destination>>
monitor == <<mpc, mleft, check_version>>
watch == <<monitor, trigger, endless>>
vars == <<gq, q, nq, total, mutex, sleep, quit, pc, tpc, spc, sockexit, watch>>

count == Cardinality(Worker)

Goto(t, l) == pc' = [pc EXCEPT ![t] = l]

-----------------------------------------------------------------------------
(* thread_worker *)

(* while (!m->quit), with a queue in hand. *)
Again == IF quit THEN "exit" ELSE "work"

(* skynet_globalmq_pop from g: the next queue, or none and the worker will
   sleep.                                                                  *)
PopQueue(t, g) ==
    /\ Goto(t, IF g = <<>> THEN "lock" ELSE Again)
    /\ q' = [q EXCEPT ![t] = IF g = <<>> THEN NULL ELSE Head(g)]
    /\ gq' = IF g = <<>> THEN g ELSE Tail(g)

(* while (!m->quit), with no queue in hand: the next one is taken. *)
Loop(t) ==
    /\ pc[t] = "loop"
    /\ IF quit THEN Goto(t, "exit") /\ UNCHANGED <<gq, q>> ELSE PopQueue(t, gq)
    /\ UNCHANGED <<nq, total, mutex, sleep, quit, tpc, spc, sockexit, watch>>

(* A service is there while some are, the harbor always. *)
There(s) == total \/ s \in Reserved

(* in_global: the queue is in the global queue or in a worker's hands. *)
InGlobal(s) == s \in ToSet(gq) \/ \E t \in Worker : s \in {q[t], nq[t]}

(* A message for s (or a new service of that name): its queue enters the
   global queue unless it is there.                                        *)
Push(s) ==
    /\ There(s)
    /\ gq' = IF InGlobal(s) THEN gq ELSE Append(gq, s)

(* Grab the context, pop a message, and the first half of
   skynet_monitor_trigger.                                                 *)
Visit(t) ==
    /\ pc[t] = "work" /\ There(q[t])
    /\ destination' = [u \in Watched |-> IF u = t THEN q[t] ELSE destination[u]]
    /\ Goto(t, IF t \in Watched THEN "begin" ELSE "callback")
    /\ UNCHANGED <<gq, q, nq, total, mutex, sleep, quit, tpc, spc, sockexit, monitor, version, endless>>

(* The second half, before and after the callback. *)
TriggerVersion(t) ==
    /\ pc[t] \in {"begin", "end"}
    /\ version' = [version EXCEPT ![t] = (@ + 1) % MaxVersion]
    /\ Goto(t, IF pc[t] = "begin" THEN "callback" ELSE "next")
    /\ UNCHANGED <<gq, q, nq, total, mutex, sleep, quit, tpc, spc, sockexit, monitor, destination, endless>>

(* A callback sends a message, or asks by cmd_endless, which takes the mark
   back.                                                                   *)
Callback(t) ==
    /\ pc[t] = "callback"
    /\ \/ (\E s \in Service : Push(s)) /\ UNCHANGED endless
       \/ endless' = endless \ {q[t]} /\ UNCHANGED gq
    /\ UNCHANGED <<q, nq, total, mutex, sleep, quit, pc, tpc, spc, sockexit, monitor, trigger>>

(* The callback returns: skynet_monitor_trigger(sm, 0, 0). *)
Return(t) ==
    /\ pc[t] = "callback"
    /\ destination' = [u \in Watched |-> IF u = t THEN NULL ELSE destination[u]]
    /\ Goto(t, IF t \in Watched THEN "end" ELSE "next")
    /\ UNCHANGED <<gq, q, nq, total, mutex, sleep, quit, tpc, spc, sockexit, monitor, version, endless>>

(* The context a worker holds during its visit. *)
Visiting == {"begin", "callback", "end", "next", "back"}
Context(t) == IF pc[t] \in Visiting THEN q[t] ELSE NULL

(* delete_context: G_NODE.total becomes zero only when the context is counted
   and nobody holds another one that is.                                   *)
Delete(t) ==
    /\ total /\ q[t] \notin Reserved
    /\ \/ UNCHANGED total /\ endless' = endless \ {q[t]}
       \/ /\ \A u \in Worker \ {t} : Context(u) \in Reserved \cup {NULL}
          /\ total' = FALSE /\ endless' = endless \cap Reserved

(* skynet_context_release of a context whose queue is in the global queue or
   in a worker's hands.                                                    *)
Release(t) == UNCHANGED <<total, endless>> \/ Delete(t)

(* skynet_mq_pop finds no message and the worker lets go of the queue;
   skynet_mq_mark_release puts it back if this was the last release.       *)
EmptyQueue(t) ==
    /\ pc[t] = "work" /\ There(q[t])
    /\ \/ PopQueue(t, gq) /\ UNCHANGED <<total, endless>>
       \/ PopQueue(t, Append(gq, q[t])) /\ Delete(t)
    /\ UNCHANGED <<nq, mutex, sleep, quit, tpc, spc, sockexit, monitor, trigger>>

(* The context is gone: skynet_mq_release drops the queue, or puts it back
   when somebody has still to release the context.                         *)
GoneQueue(t) ==
    /\ pc[t] = "work" /\ q[t] \notin Reserved
    /\ \/ PopQueue(t, gq) /\ endless' = endless \ {q[t]}
       \/ total /\ PopQueue(t, Append(gq, q[t])) /\ UNCHANGED endless
    /\ UNCHANGED <<nq, total, mutex, sleep, quit, tpc, spc, sockexit, monitor, trigger>>

(* End of the round: another queue is taken first, or none waits and the worker
   keeps its own.                                                          *)
NextQueue(t) ==
    /\ pc[t] = "next"
    /\ IF gq = <<>>
       THEN Goto(t, Again) /\ Release(t) /\ UNCHANGED <<gq, nq>>
       ELSE /\ nq' = [nq EXCEPT ![t] = Head(gq)] /\ gq' = Tail(gq)
            /\ Goto(t, "back") /\ UNCHANGED <<total, endless>>
    /\ UNCHANGED <<q, mutex, sleep, quit, tpc, spc, sockexit, monitor, trigger>>

(* Its own goes back to the end. *)
PushBack(t) ==
    /\ pc[t] = "back"
    /\ gq' = Append(gq, q[t])
    /\ q' = [q EXCEPT ![t] = nq[t]] /\ nq' = [nq EXCEPT ![t] = NULL]
    /\ Goto(t, Again)
    /\ Release(t)
    /\ UNCHANGED <<mutex, sleep, quit, tpc, spc, sockexit, monitor, trigger>>

Lock(t) ==
    /\ pc[t] = "lock"
    /\ mutex = NULL
    /\ mutex' = t
    /\ sleep' = sleep + 1
    /\ Goto(t, "held")
    /\ UNCHANGED <<gq, q, nq, total, quit, tpc, spc, sockexit, watch>>

(* Deliberately wrong variants (LeaveAsleep, TimerWakeIfAllSleep,
   TimerForgetsSocket, MonitorNeverNotes): replacing the operator by its
   variant must break a property.                                          *)

(* if (!m->quit) pthread_cond_wait: joins the waiters and lets go of the
   mutex in one step; else back to the loop.                               *)
Wait(t) ==
    /\ pc[t] = "held"
    /\ mutex' = NULL
    /\ IF quit
       THEN Goto(t, "loop") /\ sleep' = sleep - 1
       ELSE Goto(t, "waiting") /\ UNCHANGED sleep
    /\ UNCHANGED <<gq, q, nq, total, quit, tpc, spc, sockexit, watch>>

SpuriousWakeup(t) ==
    /\ pc[t] = "waiting"
    /\ Goto(t, "woken")
    /\ UNCHANGED <<gq, q, nq, total, mutex, sleep, quit, tpc, spc, sockexit, watch>>

LeaveAsleep(t) ==
    /\ pc[t] = "woken" /\ mutex = NULL
    /\ Goto(t, "loop")
    /\ UNCHANGED <<gq, q, nq, total, mutex, sleep, quit, tpc, spc, sockexit, watch>>

(* pthread_cond_wait returns with the mutex; --sleep and unlock. *)
Leave(t) ==
    /\ pc[t] = "woken" /\ mutex = NULL
    /\ sleep' = sleep - 1
    /\ Goto(t, "loop")
    /\ UNCHANGED <<gq, q, nq, total, mutex, quit, tpc, spc, sockexit, watch>>

-----------------------------------------------------------------------------
(* wakeup reads m->sleep without the mutex, then signals. *)
Enough(busy) == sleep >= count - busy

(* pthread_cond_signal *)
Signal ==
    IF \E t \in Worker : pc[t] = "waiting"
    THEN \E t \in Worker : pc[t] = "waiting" /\ Goto(t, "woken")
    ELSE UNCHANGED pc

(* thread_timer: skynet_updatetime may push messages that are due. *)
TimerUpdate ==
    /\ tpc = "update"
    /\ tpc' = "check"
    /\ (\E s \in Service : Push(s)) \/ UNCHANGED gq
    /\ UNCHANGED <<q, nq, total, mutex, sleep, quit, pc, spc, sockexit, watch>>

TimerWakeIfAllSleep ==
    /\ tpc = "check"
    /\ tpc' = IF ~ total THEN "sockexit" ELSE IF Enough(0) THEN "signal" ELSE "update"
    /\ UNCHANGED <<gq, q, nq, total, mutex, sleep, quit, pc, spc, sockexit, watch>>

(* CHECK_ABORT, then the test of wakeup(m, m->count-1). *)
TimerCheck ==
    /\ tpc = "check"
    /\ tpc' = IF ~ total THEN "sockexit"
              ELSE IF Enough(count - 1) THEN "signal" ELSE "update"
    /\ UNCHANGED <<gq, q, nq, total, mutex, sleep, quit, pc, spc, sockexit, watch>>

TimerSignal ==
    /\ tpc = "signal"
    /\ Signal
    /\ tpc' = "update"
    /\ UNCHANGED <<gq, q, nq, total, mutex, sleep, quit, spc, sockexit, watch>>

TimerForgetsSocket ==
    /\ tpc = "sockexit"
    /\ tpc' = "lock"
    /\ UNCHANGED <<gq, q, nq, total, mutex, sleep, quit, pc, spc, sockexit, watch>>

TimerSocketExit ==
    /\ tpc = "sockexit"
    /\ sockexit' = TRUE
    /\ tpc' = "lock"
    /\ UNCHANGED <<gq, q, nq, total, mutex, sleep, quit, pc, spc, watch>>

(* The mutex, quit = 1, broadcast, unlock. *)
TimerQuit ==
    /\ tpc = "lock"
    /\ mutex = NULL
    /\ quit' = TRUE
    /\ pc' = [t \in Worker |-> IF pc[t] = "waiting" THEN "woken" ELSE pc[t]]
    /\ tpc' = "exit"
    /\ UNCHANGED <<gq, q, nq, total, mutex, sleep, spc, sockexit, watch>>

(* thread_socket: skynet_socket_poll delivers a message (r > 0). *)
SocketDeliver ==
    /\ spc = "poll"
    /\ \E s \in Service : Push(s)
    /\ spc' = "check"
    /\ UNCHANGED <<q, nq, total, mutex, sleep, quit, pc, tpc, sockexit, watch>>

(* It had nothing to deliver (r < 0) and CHECK_ABORT ends the loop. *)
SocketAbort ==
    /\ spc = "poll"
    /\ ~ total
    /\ spc' = "exit"
    /\ UNCHANGED <<gq, q, nq, total, mutex, sleep, quit, pc, tpc, sockexit, watch>>

(* It was told to exit (r = 0). *)
SocketExit ==
    /\ spc = "poll"
    /\ sockexit
    /\ spc' = "exit"
    /\ UNCHANGED <<gq, q, nq, total, mutex, sleep, quit, pc, tpc, sockexit, watch>>

SocketCheck ==
    /\ spc = "check"
    /\ spc' = IF Enough(0) THEN "signal" ELSE "poll"
    /\ UNCHANGED <<gq, q, nq, total, mutex, sleep, quit, pc, tpc, sockexit, watch>>

SocketSignal ==
    /\ spc = "signal"
    /\ Signal
    /\ spc' = "poll"
    /\ UNCHANGED <<gq, q, nq, total, mutex, sleep, quit, tpc, sockexit, watch>>

(* thread_monitor: CHECK_ABORT between two rounds. *)
MonitorAbort ==
    /\ mpc = <<"run", NULL>> /\ mleft = Watched
    /\ ~ total
    /\ mpc' = <<"exit", NULL>>
    /\ UNCHANGED <<gq, q, nq, total, mutex, sleep, quit, pc, tpc, spc, sockexit,
                   mleft, check_version, trigger, endless>>

(* The next worker of a round, which starts only while there are services. *)
Look(t) ==
    /\ mpc = <<"run", NULL>> /\ t \in mleft
    /\ mleft = Watched => total
    /\ mleft' = IF mleft = {t} THEN Watched ELSE mleft \ {t}

MonitorNeverNotes(t) ==
    /\ Look(t)
    /\ mpc' = IF version[t] = check_version[t] THEN <<"report", t>> ELSE mpc
    /\ UNCHANGED <<gq, q, nq, total, mutex, sleep, quit, pc, tpc, spc, sockexit,
                   check_version, trigger, endless>>

(* skynet_monitor_check: if the version has not changed since the last look
   the destination is read next, else the version is noted.                *)
MonitorCheck(t) ==
    /\ Look(t)
    /\ IF version[t] = check_version[t]
       THEN mpc' = <<"report", t>> /\ UNCHANGED check_version
       ELSE check_version' = [check_version EXCEPT ![t] = version[t]] /\ UNCHANGED mpc
    /\ UNCHANGED <<gq, q, nq, total, mutex, sleep, quit, pc, tpc, spc, sockexit,
                   trigger, endless>>

(* if (sm->destination) skynet_context_endless, which finds no context once
   the service is gone.                                                    *)
MonitorReport(t) ==
    /\ mpc = <<"report", t>>
    /\ mpc' = <<"run", NULL>>
    /\ endless' = endless \cup {s \in Service : destination[t] = s /\ There(s)}
    /\ UNCHANGED <<gq, q, nq, total, mutex, sleep, quit, pc, tpc, spc, sockexit,
                   mleft, check_version, trigger>>

-----------------------------------------------------------------------------
(* start(): services are waiting, no thread has run yet. *)
Init ==
    /\ gq \in SetToSeqs(Service)
    /\ q = [t \in Worker |-> NULL] /\ nq = q
    /\ total = TRUE
    /\ mutex = NULL /\ sleep = 0 /\ quit = FALSE
    /\ pc = [t \in Worker |-> "loop"]
    /\ tpc = "update" /\ spc = "poll" /\ sockexit = FALSE
    /\ mpc = <<"run", NULL>> /\ mleft = Watched
    /\ version = [t \in Watched |-> 0] /\ check_version = version
    /\ destination = [t \in Watched |-> NULL]
    /\ endless = {}

WorkerStep(t) ==
    \/ Loop(t) \/ Visit(t) \/ TriggerVersion(t)
    \/ EmptyQueue(t) \/ GoneQueue(t) \/ NextQueue(t) \/ PushBack(t)
    \/ Lock(t) \/ Wait(t) \/ Leave(t)

TimerStep ==
    \/ TimerUpdate \/ TimerCheck \/ TimerSignal
    \/ TimerSocketExit \/ TimerQuit

SocketStep ==
    SocketDeliver \/ SocketAbort \/ SocketExit \/ SocketCheck \/ SocketSignal

MonitorStep == MonitorAbort \/ \E t \in Watched : MonitorCheck(t) \/ MonitorReport(t)

Next ==
    \/ \E t \in Worker : WorkerStep(t) \/ Callback(t) \/ Return(t) \/ SpuriousWakeup(t)
    \/ TimerStep \/ SocketStep \/ MonitorStep

(* Threads run, and the mutex is handed to everyone who keeps asking for it;
   callbacks return, except on the workers of Endless.  The socket thread may
   block in poll until it is told to exit, by a command it looks at before
   events.                                                                 *)
Fairness ==
    /\ \A t \in Worker : SF_vars(WorkerStep(t) \/ (t \notin Endless /\ Return(t)))
    /\ SF_vars(TimerStep)
    /\ WF_vars(SocketCheck \/ SocketSignal) /\ SF_vars(SocketExit)
    /\ WF_vars(MonitorStep)

Spec == Init /\ [][Next]_vars /\ Fairness

-----------------------------------------------------------------------------
(* Properties *)

(* Every variable has its type. *)
TypeOK ==
    /\ gq \in Seq(Service)
    /\ q \in [Worker -> Service \cup {NULL}] /\ nq \in [Worker -> Service \cup {NULL}]
    /\ \A t \in Worker : pc[t] \in Visiting \cup {"work"} => q[t] # NULL
    /\ \A t \in Worker : pc[t] = "back" => nq[t] # NULL
    /\ total \in BOOLEAN /\ quit \in BOOLEAN /\ sockexit \in BOOLEAN
    /\ mutex \in Worker \cup {NULL}
    /\ sleep \in 0 .. count
    /\ pc \in [Worker -> Visiting \cup {"loop", "work", "lock", "held", "waiting", "woken", "exit"}]
    /\ tpc \in {"update", "check", "signal", "sockexit", "lock", "exit"}
    /\ spc \in {"poll", "check", "signal", "exit"}
    /\ mpc \in {"run", "report", "exit"} \X (Worker \cup {NULL}) /\ mleft \subseteq Worker
    /\ version \in [Watched -> 0 .. MaxVersion - 1]
    /\ check_version \in [Watched -> 0 .. MaxVersion - 1]
    /\ destination \in [Watched -> Service \cup {NULL}]
    /\ endless \subseteq Service

(* m->sleep counts the workers between ++ and --, and the mutex is held by
   the thread that is inside it: wakeup's unlocked read sees a number that
   is right at some moment.  Once quit is set nobody is left waiting.      *)
SleepExact ==
    /\ TypeOK
    /\ sleep = Cardinality({t \in Worker : pc[t] \in {"held", "waiting", "woken"}})
    /\ \A t \in Worker : pc[t] = "held" <=> mutex = t
    /\ quit => \A t \in Worker : pc[t] # "waiting"

(* Every queue in the global queue is taken, although the push may race a worker
   on its way to sleep, workers of Endless never come back, and queues that
   never run empty are put back again and again.                           *)
WorkTaken == \A s \in Service : s \in ToSet(gq) ~> s \notin ToSet(gq) \/ ~ total

(* When the last service is gone every thread ends, and start() can join
   them all (unless a callback never returns).                             *)
AllExit ==
    ~ total ~>
        /\ tpc = "exit" /\ spc = "exit" /\ mpc[1] = "exit"
        /\ \A t \in Worker \ Endless : pc[t] = "exit"

(* A service whose callback never comes back is marked by the monitor, also
   after it has taken the mark back, although the monitor reads version and
   destination while the worker changes them.                              *)
EndlessReported ==
    \A t \in Watched :
        pc[t] = "callback" /\ total ~> q[t] \in endless \/ pc[t] # "callback" \/ ~ total
=============================================================================
