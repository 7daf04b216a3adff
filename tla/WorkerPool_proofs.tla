-------------------------- MODULE WorkerPool_proofs --------------------------
(***************************************************************************)
(* The sleeping of workers, skynet_start.c, for every number of workers:   *)
(* m->sleep is the number of threads between its increment and its         *)
(* decrement, although it is read without the mutex and a worker may be    *)
(* woken by a signal, by the broadcast of the shutdown, or by nothing.     *)
(* SleepExact is inductive as it stands.                                   *)
(***************************************************************************)
EXTENDS WorkerPool, FiniteSetTheorems, TLAPS

Asleep == {"held", "waiting", "woken"}
Sleepers == {t \in Worker : pc[t] \in Asleep}

(* SleepExact without the types of the monitor's variables. *)
SleepCount ==
    /\ sleep = Cardinality(Sleepers)
    /\ \A t \in Worker : pc[t] = "held" <=> mutex = t
    /\ quit => \A t \in Worker : pc[t] # "waiting"

(* That is all of it. *)
LEMMA SleepExactParts == SleepExact <=> TypeOK /\ SleepCount
  BY DEF SleepExact, SleepCount, Sleepers, Asleep

(* A set of workers is finite, and there are at most count of them. *)
LEMMA WorkersFinite ==
    ASSUME NEW S \in SUBSET Worker
    PROVE  IsFiniteSet(S) /\ Cardinality(S) \in 0 .. count
  BY FS_Subset, FS_CardinalityType, PoolAssumption DEF count

(* A worker that was awake and is not any more is one more sleeper. *)
LEMMA FallAsleep ==
    ASSUME TypeOK, NEW t \in Worker, NEW l, Goto(t, l), l \in Asleep, pc[t] \notin Asleep
    PROVE  Cardinality(Sleepers') = Cardinality(Sleepers) + 1
<1>1. Sleepers' = Sleepers \cup {t} /\ t \notin Sleepers
  BY DEF Goto, Sleepers, TypeOK
<1>2. IsFiniteSet(Sleepers)
  BY WorkersFinite DEF Sleepers
<1> QED
  BY <1>1, <1>2, FS_AddElement

(* And the other way round. *)
LEMMA WakeUp ==
    ASSUME TypeOK, NEW t \in Worker, NEW l, Goto(t, l), l \notin Asleep, pc[t] \in Asleep
    PROVE  Cardinality(Sleepers') = Cardinality(Sleepers) - 1
<1>1. Sleepers' = Sleepers \ {t} /\ t \in Sleepers
  BY DEF Goto, Sleepers, TypeOK
<1>2. IsFiniteSet(Sleepers)
  BY WorkersFinite DEF Sleepers
<1> QED
  BY <1>1, <1>2, FS_RemoveElement

(* A move inside the code that sleeps, or outside it, changes nothing. *)
LEMMA SameSleepers ==
    ASSUME TypeOK, NEW t \in Worker, NEW l, Goto(t, l), l \in Asleep <=> pc[t] \in Asleep
    PROVE  Sleepers' = Sleepers
  BY DEF Goto, Sleepers, TypeOK

(* start() leaves every worker awake. *)
LEMMA SleepInit == Init => SleepExact
<1> SUFFICES ASSUME Init PROVE TypeOK /\ SleepCount
  BY SleepExactParts
<1>1. count \in Nat
  BY FS_CardinalityType, PoolAssumption DEF count
<1>2. TypeOK
  <2>1. version \in [Watched -> 0 .. MaxVersion - 1]
    BY PoolAssumption DEF Init
  <2>2. sleep \in 0 .. count
    BY <1>1 DEF Init
  <2>3. gq \in Seq(Service)
    <3>1. Cardinality(Service) \in Nat
      BY FS_CardinalityType, PoolAssumption
    <3>2. gq \in [1 .. Cardinality(Service) -> Service]
      BY DEF Init, SetToSeqs
    <3> QED
      BY <3>1, <3>2
  <2>4. q \in [Worker -> Service \cup {NULL}] /\ nq \in [Worker -> Service \cup {NULL}]
    BY DEF Init
  <2> QED
    BY <2>1, <2>2, <2>3, <2>4, PoolAssumption DEF Init, TypeOK, Visiting
<1>3. Sleepers = {}
  BY DEF Init, Sleepers, Asleep
<1> QED
  BY <1>2, <1>3, FS_EmptySet, PoolAssumption DEF Init, SleepCount

(* A step of a worker outside the code that sleeps: it neither waits nor
   holds the mutex.                                                        *)
Awake(t) ==
    /\ \E l : Goto(t, l) /\ l \notin Asleep
    /\ pc[t] \notin Asleep
    /\ UNCHANGED <<mutex, sleep, quit>>

(* Such a step counts nothing. *)
LEMMA AwakeKeepsCount ==
    ASSUME TypeOK, SleepCount, NEW t \in Worker, Awake(t)
    PROVE  SleepCount'
<1>1. PICK l : Goto(t, l) /\ l \notin Asleep
  BY DEF Awake
<1>2. Sleepers' = Sleepers
  BY <1>1, SameSleepers DEF Awake
<1>3. \A u \in Worker : u # t => pc'[u] = pc[u]
  BY <1>1 DEF Goto, TypeOK
<1>4. pc'[t] = l
  BY <1>1 DEF Goto, TypeOK
<1> QED
  BY <1>1, <1>2, <1>3, <1>4 DEF SleepCount, Awake, Asleep

(* A signal moves one waiting worker, if there is one, and counts nothing. *)
LEMMA SignalKeepsCount ==
    ASSUME TypeOK, SleepCount, Signal, UNCHANGED <<mutex, sleep, quit>>
    PROVE  SleepCount'
<1>1. CASE UNCHANGED pc
  BY <1>1 DEF SleepCount, Sleepers
<1>2. ASSUME NEW t \in Worker, pc[t] = "waiting", Goto(t, "woken") PROVE SleepCount'
  <2>1. Sleepers' = Sleepers
    BY <1>2, SameSleepers DEF Asleep
  <2> QED
    BY <1>2, <2>1 DEF SleepCount, Goto, TypeOK
<1> QED
  BY <1>1, <1>2 DEF Signal

(* Every step keeps the count, the mutex and the waiters in agreement. *)
LEMMA CountStep == TypeOK /\ SleepCount /\ [Next]_vars => SleepCount'
<1> SUFFICES ASSUME TypeOK, SleepCount, [Next]_vars PROVE SleepCount'
  OBVIOUS
<1> USE DEF Asleep
<1>1. ASSUME NEW t \in Worker, \/ Loop(t) \/ Visit(t) \/ TriggerVersion(t) \/ Return(t)
                               \/ EmptyQueue(t) \/ GoneQueue(t) \/ NextQueue(t) \/ PushBack(t)
      PROVE  SleepCount'
  <2> USE DEF Visiting, Again
  <2>1. CASE Loop(t)
    BY <2>1, AwakeKeepsCount DEF Loop, PopQueue, Awake
  <2>2. CASE Visit(t)
    BY <2>2, AwakeKeepsCount DEF Visit, Awake
  <2>3. CASE TriggerVersion(t)
    BY <2>3, AwakeKeepsCount DEF TriggerVersion, Awake
  <2>4. CASE Return(t)
    BY <2>4, AwakeKeepsCount DEF Return, Awake
  <2>5. CASE EmptyQueue(t)
    BY <2>5, AwakeKeepsCount DEF EmptyQueue, PopQueue, Awake
  <2>6. CASE GoneQueue(t)
    BY <2>6, AwakeKeepsCount DEF GoneQueue, PopQueue, Awake
  <2>7. CASE NextQueue(t)
    BY <2>7, AwakeKeepsCount DEF NextQueue, Awake
  <2>8. CASE PushBack(t)
    BY <2>8, AwakeKeepsCount DEF PushBack, Awake
  <2> QED
    BY <1>1, <2>1, <2>2, <2>3, <2>4, <2>5, <2>6, <2>7, <2>8
<1>2. ASSUME NEW t \in Worker, Lock(t) PROVE SleepCount'
  <2>1. sleep' = Cardinality(Sleepers')
    BY <1>2, FallAsleep DEF Lock, SleepCount
  <2> QED
    BY <1>2, <2>1, PoolAssumption DEF Lock, Goto, SleepCount, TypeOK
<1>3. ASSUME NEW t \in Worker, Wait(t) PROVE SleepCount'
  <2>1. sleep' = Cardinality(Sleepers')
    BY <1>3, WakeUp, SameSleepers DEF Wait, SleepCount
  <2> QED
    <3>1. \A u \in Worker : pc'[u] = IF u = t THEN (IF quit THEN "loop" ELSE "waiting") ELSE pc[u]
      BY <1>3 DEF Wait, Goto, TypeOK
    <3> QED
      BY <1>3, <2>1, <3>1, PoolAssumption DEF Wait, SleepCount
<1>4. ASSUME NEW t \in Worker, Leave(t) PROVE SleepCount'
  <2>1. sleep' = Cardinality(Sleepers')
    BY <1>4, WakeUp DEF Leave, SleepCount
  <2> QED
    BY <1>4, <2>1, PoolAssumption DEF Leave, Goto, SleepCount, TypeOK
<1>5. ASSUME NEW t \in Worker, SpuriousWakeup(t) PROVE SleepCount'
  <2>1. Signal /\ UNCHANGED <<mutex, sleep, quit>>
    BY <1>5 DEF SpuriousWakeup, Signal
  <2> QED
    BY <2>1, SignalKeepsCount
<1>6. ASSUME NEW t \in Worker, Callback(t) PROVE SleepCount'
  BY <1>6 DEF Callback, SleepCount, Sleepers
<1>7. CASE TimerSignal \/ SocketSignal
  BY <1>7, SignalKeepsCount DEF TimerSignal, SocketSignal
<1>8. CASE TimerQuit
  <2>1. Sleepers' = Sleepers
    BY <1>8 DEF TimerQuit, Sleepers, TypeOK
  <2> QED
    BY <1>8, <2>1 DEF TimerQuit, SleepCount, TypeOK
<1>9. CASE UNCHANGED <<pc, mutex, sleep, quit>>
  BY <1>9 DEF SleepCount, Sleepers
<1>10. CASE TimerUpdate \/ TimerCheck \/ TimerSocketExit \/ SocketDeliver \/ SocketAbort
            \/ SocketExit \/ SocketCheck \/ MonitorStep \/ UNCHANGED vars
  BY <1>9, <1>10 DEF TimerUpdate, TimerCheck, TimerSocketExit, SocketDeliver, SocketAbort,
     SocketExit, SocketCheck, MonitorStep, MonitorAbort, MonitorCheck, MonitorReport, vars
<1> QED
  BY <1>1, <1>2, <1>3, <1>4, <1>5, <1>6, <1>7, <1>8, <1>10
  DEF Next, WorkerStep, TimerStep, SocketStep

(* What TypeOK says of the workers and the queues in their hands, and of the
   rest.                                                                   *)
Hands ==
    /\ gq \in Seq(Service)
    /\ q \in [Worker -> Service \cup {NULL}] /\ nq \in [Worker -> Service \cup {NULL}]
    /\ \A t \in Worker : pc[t] \in Visiting \cup {"work"} => q[t] # NULL
    /\ \A t \in Worker : pc[t] = "back" => nq[t] # NULL
    /\ pc \in [Worker -> Visiting \cup {"loop", "work", "lock", "held", "waiting", "woken", "exit"}]

Others ==
    /\ total \in BOOLEAN /\ quit \in BOOLEAN /\ sockexit \in BOOLEAN
    /\ mutex \in Worker \cup {NULL}
    /\ tpc \in {"update", "check", "signal", "sockexit", "lock", "exit"}
    /\ spc \in {"poll", "check", "signal", "exit"}
    /\ mpc \in {"run", "report", "exit"} \X (Worker \cup {NULL}) /\ mleft \subseteq Worker
    /\ version \in [Watched -> 0 .. MaxVersion - 1]
    /\ check_version \in [Watched -> 0 .. MaxVersion - 1]
    /\ destination \in [Watched -> Service \cup {NULL}]
    /\ endless \subseteq Service

(* That is all of it. *)
LEMMA TypeParts == TypeOK <=> Hands /\ Others /\ sleep \in 0 .. count
  BY DEF TypeOK, Hands, Others

(* A message or a pop leaves a queue of services. *)
LEMMA QueueTypes ==
    ASSUME TypeOK
    PROVE  /\ \A s \in Service : Push(s) => gq' \in Seq(Service)
           /\ \A t \in Worker, g \in Seq(Service) : PopQueue(t, g) =>
                 /\ gq' \in Seq(Service) /\ q' \in [Worker -> Service \cup {NULL}]
                 /\ pc' = [pc EXCEPT ![t] = pc'[t]] /\ pc'[t] \in {"lock", "exit", "work"}
                 /\ q' = [q EXCEPT ![t] = q'[t]] /\ (pc'[t] = "work" => q'[t] # NULL)
<1>1. ASSUME NEW s \in Service, Push(s) PROVE gq' \in Seq(Service)
  BY <1>1 DEF Push, TypeOK
<1>2. ASSUME NEW t \in Worker, NEW g \in Seq(Service), PopQueue(t, g)
      PROVE  /\ gq' \in Seq(Service) /\ q' \in [Worker -> Service \cup {NULL}]
             /\ pc' = [pc EXCEPT ![t] = pc'[t]] /\ pc'[t] \in {"lock", "exit", "work"}
             /\ q' = [q EXCEPT ![t] = q'[t]] /\ (pc'[t] = "work" => q'[t] # NULL)
  <2>1. g # <<>> => Head(g) \in Service /\ Tail(g) \in Seq(Service)
    OBVIOUS
  <2>2. gq' \in Seq(Service)
    BY <1>2, <2>1 DEF PopQueue
  <2>3. pc' = [pc EXCEPT ![t] = pc'[t]] /\ pc'[t] \in {"lock", "exit", "work"}
    BY <1>2 DEF PopQueue, Goto, Again, TypeOK
  <2>4. /\ q' \in [Worker -> Service \cup {NULL}] /\ q' = [q EXCEPT ![t] = q'[t]]
        /\ q'[t] = IF g = <<>> THEN NULL ELSE Head(g)
    BY <1>2, <2>1 DEF PopQueue, TypeOK
  <2>5. pc'[t] = IF g = <<>> THEN "lock" ELSE Again
    BY <1>2 DEF PopQueue, Goto, TypeOK
  <2> QED
    BY <2>1, <2>2, <2>3, <2>4, <2>5, PoolAssumption
<1> QED
  BY <1>1, <1>2

(* A release leaves the types of what it touches. *)
LEMMA ReleaseTypes ==
    ASSUME Others, NEW t \in Worker, Release(t)
    PROVE  total' \in BOOLEAN /\ endless' \in SUBSET Service
  BY DEF Others, Release, Delete

(* A pop by a worker leaves it with a queue, or with none and on its way to
   sleep or to the end.                                                    *)
LEMMA PopHands ==
    ASSUME TypeOK, NEW t \in Worker, NEW g \in Seq(Service), PopQueue(t, g), UNCHANGED nq
    PROVE  Hands'
<1>1. Hands
  BY TypeParts
<1>2. gq' \in Seq(Service) /\ q' \in [Worker -> Service \cup {NULL}]
  BY QueueTypes
<1>3. pc' = [pc EXCEPT ![t] = pc'[t]] /\ pc'[t] \in {"lock", "exit", "work"}
  BY QueueTypes
<1>4. q' = [q EXCEPT ![t] = q'[t]] /\ (pc'[t] = "work" => q'[t] # NULL)
  BY QueueTypes
<1>5. \A u \in Worker \ {t} : pc'[u] = pc[u] /\ q'[u] = q[u]
  BY <1>1, <1>3, <1>4 DEF Hands
<1>6. pc' \in [Worker -> Visiting \cup {"loop", "work", "lock", "held", "waiting", "woken", "exit"}]
  BY <1>1, <1>3 DEF Hands
<1> QED
  BY <1>1, <1>2, <1>3, <1>4, <1>5, <1>6 DEF Hands, Visiting

(* A worker that goes somewhere with the queue it has. *)
LEMMA GotoHands ==
    ASSUME Hands, NEW t \in Worker, NEW l, Goto(t, l), UNCHANGED <<gq, q, nq>>,
           \/ l \in {"loop", "lock", "held", "waiting", "woken", "exit"}
           \/ l \in {"work", "begin", "callback", "end", "next"} /\ q[t] # NULL
    PROVE  Hands'
<1>1. pc' = [pc EXCEPT ![t] = l]
  BY DEF Goto
<1>2. pc'[t] = l /\ \A u \in Worker \ {t} : pc'[u] = pc[u]
  BY <1>1 DEF Hands
<1>3. pc' \in [Worker -> Visiting \cup {"loop", "work", "lock", "held", "waiting", "woken", "exit"}]
  BY <1>1 DEF Hands, Visiting
<1> QED
  BY <1>2, <1>3 DEF Hands, Visiting

(* A signal, or none. *)
LEMMA SignalHands ==
    ASSUME Hands, Signal, UNCHANGED <<gq, q, nq>>
    PROVE  Hands'
<1>1. CASE UNCHANGED pc
  BY <1>1 DEF Hands
<1>2. ASSUME NEW t \in Worker, Goto(t, "woken") PROVE Hands'
  BY <1>2, GotoHands
<1> QED
  BY <1>1, <1>2 DEF Signal

(* The queues in the workers' hands are real ones after every step. *)
LEMMA HandsStep == TypeOK /\ [Next]_vars => Hands'
<1> SUFFICES ASSUME TypeOK, [Next]_vars PROVE Hands'
  OBVIOUS
<1>0. Hands
  BY TypeParts
<1>1. ASSUME NEW t \in Worker, WorkerStep(t) \/ Callback(t) \/ Return(t) \/ SpuriousWakeup(t)
      PROVE  Hands'
  <2> USE <1>0
  <2>1. CASE Loop(t)
    <3>1. CASE quit
      BY <2>1, <3>1, GotoHands DEF Loop
    <3>2. CASE ~ quit
      BY <2>1, <3>2, PopHands DEF Loop, Hands
    <3> QED
      BY <3>1, <3>2
  <2>2. CASE Visit(t)
    <3>1. q[t] # NULL
      BY <2>2 DEF Visit, Hands
    <3> QED
      BY <2>2, <3>1, GotoHands DEF Visit, Visiting
  <2>3. CASE TriggerVersion(t)
    <3>1. q[t] # NULL
      BY <2>3 DEF TriggerVersion, Hands, Visiting
    <3> QED
      BY <2>3, <3>1, GotoHands DEF TriggerVersion, Visiting
  <2>4. CASE Return(t)
    <3>1. q[t] # NULL
      BY <2>4 DEF Return, Hands, Visiting
    <3> QED
      BY <2>4, <3>1, GotoHands DEF Return, Visiting
  <2>5. CASE EmptyQueue(t) \/ GoneQueue(t)
    <3>1. pc[t] = "work" /\ q[t] \in Service /\ UNCHANGED nq
      BY <2>5 DEF EmptyQueue, GoneQueue, Hands
    <3>2. gq \in Seq(Service) /\ Append(gq, q[t]) \in Seq(Service)
      BY <3>1 DEF Hands
    <3>3. PopQueue(t, gq) \/ PopQueue(t, Append(gq, q[t]))
      BY <2>5 DEF EmptyQueue, GoneQueue
    <3> QED
      BY <3>1, <3>2, <3>3, PopHands
  <2>6. CASE NextQueue(t)
    <3>1. pc[t] = "next" /\ q[t] # NULL
      BY <2>6 DEF NextQueue, Hands, Visiting
    <3>2. CASE gq = <<>>
      <4>1. UNCHANGED <<gq, q, nq>> /\ (Goto(t, "exit") \/ Goto(t, "work"))
        BY <2>6, <3>2 DEF NextQueue, Again
      <4>2. CASE Goto(t, "exit")
        BY <4>1, <4>2, GotoHands
      <4>3. CASE Goto(t, "work")
        BY <3>1, <4>1, <4>3, GotoHands DEF Visiting
      <4> QED
        BY <4>1, <4>2, <4>3
    <3>3. CASE gq # <<>>
      <4>1. Head(gq) \in Service /\ Tail(gq) \in Seq(Service)
        BY <3>3 DEF Hands
      <4>2. /\ nq' = [nq EXCEPT ![t] = Head(gq)] /\ gq' = Tail(gq) /\ q' = q
            /\ pc' = [pc EXCEPT ![t] = "back"]
        BY <2>6, <3>3 DEF NextQueue, Goto
      <4>3. /\ nq'[t] # NULL /\ pc'[t] = "back"
            /\ \A u \in Worker \ {t} : pc'[u] = pc[u] /\ nq'[u] = nq[u]
        BY <4>1, <4>2, PoolAssumption DEF Hands
      <4> QED
        BY <3>1, <4>1, <4>2, <4>3 DEF Hands, Visiting
    <3> QED
      BY <3>2, <3>3
  <2>7. CASE PushBack(t)
    <3>1. q[t] \in Service /\ nq[t] \in Service
      BY <2>7 DEF PushBack, Hands, Visiting
    <3>2. /\ gq' = Append(gq, q[t]) /\ q' = [q EXCEPT ![t] = nq[t]]
          /\ nq' = [nq EXCEPT ![t] = NULL] /\ pc' = [pc EXCEPT ![t] = Again]
      BY <2>7 DEF PushBack, Goto
    <3>3. /\ q'[t] # NULL /\ pc'[t] \in {"exit", "work"}
          /\ \A u \in Worker \ {t} : pc'[u] = pc[u] /\ nq'[u] = nq[u] /\ q'[u] = q[u]
      BY <3>1, <3>2, PoolAssumption DEF Hands, Again
    <3>4. gq' \in Seq(Service)
      BY <3>1, <3>2 DEF Hands
    <3>5. /\ q' \in [Worker -> Service \cup {NULL}] /\ nq' \in [Worker -> Service \cup {NULL}]
          /\ pc' \in [Worker -> Visiting \cup {"loop", "work", "lock", "held", "waiting", "woken", "exit"}]
      BY <3>1, <3>2, <3>3 DEF Hands, Again
    <3> QED
      BY <3>3, <3>4, <3>5 DEF Hands, Visiting
  <2>8. CASE Lock(t)
    BY <2>8, GotoHands DEF Lock
  <2>9. CASE Wait(t)
    BY <2>9, GotoHands DEF Wait
  <2>10. CASE Leave(t)
    BY <2>10, GotoHands DEF Leave
  <2>11. CASE SpuriousWakeup(t)
    BY <2>11, GotoHands DEF SpuriousWakeup
  <2>12. CASE Callback(t)
    <3>1. gq' \in Seq(Service)
      BY <2>12, QueueTypes DEF Callback, Hands
    <3> QED
      BY <2>12, <3>1 DEF Callback, Hands
  <2> QED
    BY <1>1, <2>1, <2>2, <2>3, <2>4, <2>5, <2>6, <2>7, <2>8, <2>9, <2>10, <2>11, <2>12
    DEF WorkerStep
<1>2. CASE TimerUpdate \/ SocketDeliver
  <2>1. gq' \in Seq(Service)
    BY <1>0, <1>2, QueueTypes DEF TimerUpdate, SocketDeliver, Hands
  <2> QED
    BY <1>0, <1>2, <2>1 DEF TimerUpdate, SocketDeliver, Hands
<1>3. CASE TimerSignal \/ SocketSignal
  BY <1>0, <1>3, SignalHands DEF TimerSignal, SocketSignal
<1>4. CASE TimerQuit
  <2>1. \A u \in Worker : pc'[u] = pc[u] \/ pc'[u] = "woken"
    BY <1>4 DEF TimerQuit
  <2>2. pc' \in [Worker -> Visiting \cup {"loop", "work", "lock", "held", "waiting", "woken", "exit"}]
    BY <1>0, <1>4 DEF TimerQuit, Hands
  <2> QED
    BY <1>0, <1>4, <2>1, <2>2 DEF TimerQuit, Hands, Visiting
<1>5. CASE UNCHANGED <<gq, q, nq, pc>>
  BY <1>0, <1>5 DEF Hands
<1>6. CASE TimerCheck \/ TimerSocketExit \/ SocketAbort \/ SocketExit \/ SocketCheck
           \/ MonitorStep \/ UNCHANGED vars
  BY <1>5, <1>6 DEF TimerCheck, TimerSocketExit, SocketAbort, SocketExit, SocketCheck,
     MonitorStep, MonitorAbort, MonitorCheck, MonitorReport, vars
<1> QED
  BY <1>1, <1>2, <1>3, <1>4, <1>6 DEF Next, TimerStep, SocketStep

(* And so are the types of everything else. *)
LEMMA OthersStep == TypeOK /\ [Next]_vars => Others'
<1> SUFFICES ASSUME TypeOK, [Next]_vars PROVE Others'
  OBVIOUS
<1>0. Others /\ Hands
  BY TypeParts
<1> USE <1>0, PoolAssumption
<1>1. CASE UNCHANGED <<total, quit, sockexit, mutex, tpc, spc, watch>>
  BY <1>1 DEF Others, watch, monitor, trigger
<1>2. ASSUME NEW t \in Worker, WorkerStep(t) \/ Callback(t) \/ Return(t) \/ SpuriousWakeup(t)
      PROVE  Others'
  <2>1. CASE Loop(t) \/ Leave(t) \/ SpuriousWakeup(t)
    BY <1>1, <2>1 DEF Loop, Leave, SpuriousWakeup
  <2>2. CASE Visit(t) \/ Return(t)
    <3>1. PICK d \in Service \cup {NULL} :
             destination' = [u \in Watched |-> IF u = t THEN d ELSE destination[u]]
      BY <2>2 DEF Visit, Return, Hands
    <3>2. destination' \in [Watched -> Service \cup {NULL}]
      BY <3>1 DEF Others
    <3> QED
      BY <2>2, <3>2 DEF Visit, Return, Others, monitor
  <2>3. CASE TriggerVersion(t)
    <3>1. \A n \in Nat : n % MaxVersion \in 0 .. MaxVersion - 1
      OBVIOUS
    <3>2. t \in Watched => version[t] + 1 \in Nat
      BY DEF Others
    <3>3. version' \in [Watched -> 0 .. MaxVersion - 1]
      BY <2>3, <3>1, <3>2 DEF TriggerVersion, Others
    <3> QED
      BY <2>3, <3>3 DEF TriggerVersion, Others, monitor
  <2>4. CASE EmptyQueue(t) \/ GoneQueue(t) \/ NextQueue(t) \/ PushBack(t)
    <3>1. Release(t) \/ (UNCHANGED total /\ endless' \in SUBSET Service)
      BY <2>4 DEF EmptyQueue, GoneQueue, NextQueue, PushBack, Release, Others
    <3>2. total' \in BOOLEAN /\ endless' \in SUBSET Service
      BY <3>1, ReleaseTypes DEF Others
    <3>3. UNCHANGED <<quit, sockexit, mutex, tpc, spc, monitor, trigger>>
      BY <2>4 DEF EmptyQueue, GoneQueue, NextQueue, PushBack
    <3> QED
      BY <3>2, <3>3 DEF Others, monitor, trigger
  <2>5. CASE Lock(t) \/ Wait(t)
    BY <2>5 DEF Lock, Wait, Others, watch, monitor, trigger
  <2>6. CASE Callback(t)
    <3>1. endless' \in SUBSET Service
      BY <2>6 DEF Callback, Others
    <3> QED
      BY <2>6, <3>1 DEF Callback, Others, monitor, trigger
  <2> QED
    BY <1>2, <2>1, <2>2, <2>3, <2>4, <2>5, <2>6 DEF WorkerStep
<1>3. CASE TimerStep
  BY <1>3 DEF TimerStep, TimerUpdate, TimerCheck, TimerSignal, TimerSocketExit, TimerQuit,
     Others, watch, monitor, trigger
<1>4. CASE SocketStep
  BY <1>4 DEF SocketStep, SocketDeliver, SocketAbort, SocketExit, SocketCheck, SocketSignal,
     Others, watch, monitor, trigger
<1>5. CASE MonitorStep
  <2>1. CASE MonitorAbort
    BY <2>1 DEF MonitorAbort, Others, trigger
  <2>2. ASSUME NEW t \in Watched, MonitorCheck(t) PROVE Others'
    <3>1. mleft' \subseteq Worker
      BY <2>2 DEF MonitorCheck, Look, Others
    <3>2. mpc' \in {"run", "report", "exit"} \X (Worker \cup {NULL})
      BY <2>2 DEF MonitorCheck, Others
    <3>3. check_version' \in [Watched -> 0 .. MaxVersion - 1]
      BY <2>2 DEF MonitorCheck, Others
    <3> QED
      BY <2>2, <3>1, <3>2, <3>3 DEF MonitorCheck, Others, trigger
  <2>3. ASSUME NEW t \in Watched, MonitorReport(t) PROVE Others'
    BY <2>3 DEF MonitorReport, Others, trigger
  <2> QED
    BY <1>5, <2>1, <2>2, <2>3 DEF MonitorStep
<1> QED
  BY <1>1, <1>2, <1>3, <1>4, <1>5 DEF Next, vars

(* Every step keeps the types, given the range of the count. *)
LEMMA TypeStep == TypeOK /\ SleepCount' /\ [Next]_vars => TypeOK'
<1> SUFFICES ASSUME TypeOK, SleepCount', [Next]_vars PROVE TypeOK'
  OBVIOUS
<1>1. sleep' \in 0 .. count
  <2>1. Sleepers' \in SUBSET Worker
    BY DEF Sleepers
  <2> QED
    BY <2>1, WorkersFinite DEF SleepCount
<1> QED
  BY <1>1, HandsStep, OthersStep DEF TypeOK, Hands, Others

(* For every number of workers: m->sleep counts exactly the workers between
   its increment and its decrement, m->mutex is held by whoever is inside
   it, and once quit is set nobody is left waiting on the condition.       *)
THEOREM SleepIsExact == Spec => []SleepExact
<1>1. SleepExact /\ [Next]_vars => SleepExact'
  <2> SUFFICES ASSUME SleepExact, [Next]_vars PROVE TypeOK' /\ SleepCount'
    BY DEF SleepExact, SleepCount, Sleepers, Asleep
  <2>1. SleepCount'
    BY SleepExactParts, CountStep
  <2> QED
    BY <2>1, SleepExactParts, TypeStep
<1> QED
  BY <1>1, SleepInit, PTL DEF Spec
=============================================================================
