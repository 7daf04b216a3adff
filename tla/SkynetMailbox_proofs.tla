------------------------ MODULE SkynetMailbox_proofs -------------------------
(***************************************************************************)
(* What the node promises to those who look at it from outside, for every  *)
(* number of services, threads and messages: G_NODE.total is the number of *)
(* contexts alive, messages are queued in the order they were sent, and    *)
(* the node as a whole implements Mailbox.  All three rest on ServerInv of *)
(* SkynetServer_proofs.                                                    *)
(***************************************************************************)
EXTENDS SkynetMailbox, SkynetServer_proofs

-----------------------------------------------------------------------------
(* G_NODE.total *)

(* The contexts that G_NODE.total counts. *)
Counting == {c \in Ctx : mem[c] = "live" /\ c # remote}

TotalInv == IsFiniteSet(Counting) /\ total = Cardinality(Counting)

(* skynet_start counts the services it has launched. *)
LEMMA TotalInit == Init => TotalInv
<1> SUFFICES ASSUME Init PROVE TotalInv
  OBVIOUS
<1>1. Counting = Boot
  BY SetsAssumption DEF Init, Counting
<1> QED
  BY <1>1, SetsAssumption DEF Init, TotalInv

(* Every step keeps the count: a launch adds one, the end of delete_context
   takes one off, and the harbor leaves it when it is reserved.            *)
LEMMA TotalStep == ServerInv /\ TotalInv /\ [Next]_vars => TotalInv'
<1> SUFFICES ASSUME ServerInv, TotalInv, [Next]_vars PROVE TotalInv'
  OBVIOUS
<1> USE DEF At, ctxVars, queueVars, dispVars, cmdVars, subVars
<1>0. TypeOK /\ Control /\ RefExact /\ Lifetime /\ Deletion
  BY DEF ServerInv, Lifetime
<1>1. CASE UNCHANGED <<mem, total, remote>>
  BY <1>1 DEF TotalInv, Counting
<1>2. ASSUME NEW t \in Thread, DoFree(t) PROVE TotalInv'
  <2>1. PICK c \in Ctx : sto[t] = c
    BY <1>2, <1>0 DEF TypeOK, Control, SubControl, DoFree
  <2>2. mem[c] = "live" /\ ref[c] = 0
    BY <1>2, <1>0, <2>1 DEF Deletion, Deletes, DoFree
  <2>3. c # remote
    BY <1>0, <2>2, Counted
  <2>4. mem' = [mem EXCEPT ![c] = "freed"] /\ total' = total - 1 /\ remote' = remote
    BY <1>2, <2>1 DEF DoFree
  <2>5. Counting' = Counting \ {c} /\ c \in Counting
    BY <1>0, <2>2, <2>3, <2>4 DEF TypeOK, Counting
  <2> QED
    BY <2>4, <2>5, FS_RemoveElement DEF TotalInv
<1>3. ASSUME NEW t \in Worker, NEW c \in Ctx, Launch(t, c) PROVE TotalInv'
  <2>1. mem[c] = "none" /\ mem' = [mem EXCEPT ![c] = "live"] /\ total' = total + 1 /\ remote' = remote
    BY <1>3 DEF Launch
  <2>2. c # remote
    BY <1>0, <2>1, Counted, CountedLive
  <2>3. Counting' = Counting \cup {c} /\ c \notin Counting
    BY <1>0, <2>1, <2>2 DEF TypeOK, Counting
  <2> QED
    BY <2>1, <2>3, FS_AddElement DEF TotalInv
<1>4. ASSUME NEW t \in Worker, HarborStart(t) PROVE TotalInv'
  <2>1. PICK c \in Ctx : new[t] = c
    BY <1>4, <1>0, InHand DEF HarborStart
  <2>2. mem[c] = "live"
    BY <1>4, <1>0, <2>1, Counted, CountedLive DEF HarborStart
  <2>3. remote = NULL /\ remote' = c /\ total' = total - 1 /\ mem' = mem
    BY <1>4, <2>1 DEF HarborStart, Reserve
  <2>4. Counting' = Counting \ {c} /\ c \in Counting
    BY <2>2, <2>3, SetsAssumption DEF Counting
  <2> QED
    BY <2>3, <2>4, FS_RemoveElement DEF TotalInv
<1>5. ASSUME NEW t \in Thread, DoPush(t) \/ DoRelease(t) \/ DoMark(t) PROVE TotalInv'
  BY <1>1, <1>5 DEF DoPush, DoRelease, DoMark
<1>6. ASSUME NEW t \in Worker, Dispatch(t) PROVE TotalInv'
  BY <1>1, <1>6 DEF Dispatch, Fetch, Grab, MqRelease, DropMessage, FreeQueue, Pop, PopEmpty,
     Length, Return, NextQueue, PushBack, ReleaseCtx
<1>7. ASSUME NEW t \in Worker, NEW d \in Ctx,
             Send(t, d) \/ SetMonitor(t, d) \/ Kill(t, d) \/ AbortVisit(t, d)
      PROVE  TotalInv'
  BY <1>1, <1>7 DEF Send, SetMonitor, Kill, AbortVisit
<1>8. ASSUME NEW t \in Worker,
             \/ SendRemote(t) \/ Retire(t) \/ Abort(t) \/ AbortPass(t) \/ InitOk(t)
             \/ SetInit(t) \/ PushNewQueue(t) \/ InitFail(t) \/ FailRetire(t)
      PROVE  TotalInv'
  BY <1>1, <1>8 DEF SendRemote, Retire, Abort, AbortPass, InitOk, SetInit, PushNewQueue,
     InitFail, FailRetire
<1>9. ASSUME NEW t \in Ext, NEW d \in Ctx, ExtSend(t, d) PROVE TotalInv'
  BY <1>1, <1>9 DEF ExtSend
<1>10. CASE UNCHANGED vars
  BY <1>1, <1>10 DEF vars
<1> QED
  BY <1>2, <1>3, <1>4, <1>5, <1>6, <1>7, <1>8, <1>9, <1>10 DEF Next, SubStep, Command

(* G_NODE.total, on whose zero the threads end, is the number of contexts
   alive besides the reserved harbor, whatever launches, failed launches,
   kills and late releases race each other.                                *)
THEOREM TotalIsExact == Spec => []TotalExact
<1>1. TotalInv => TotalExact
  BY DEF TotalInv, TotalExact, Counting
<1> QED
  BY <1>1, TotalInit, TotalStep, ServerInvariant, PTL DEF Spec

-----------------------------------------------------------------------------
(* The order of messages *)

(* A thread inside skynet_context_push with a message some service sent. *)
Writes(t) == sop[t] = "push" /\ smsg[t].kind = "data" /\ smsg[t].src # NULL

(* The messages of one service are in the order of their numbers. *)
Ordered(s) ==
    \A i, j \in DOMAIN s :
        /\ i < j /\ s[i].src = s[j].src /\ s[i].src # NULL
        /\ s[i].kind = "data" /\ s[j].kind = "data"
        => s[i].id < s[j].id

(* m is younger than what its sender has in s already. *)
Younger(s, m) == \A e \in Elems(s) : e.src = m.src /\ e.kind = "data" => e.id < m.id

(* Messages are numbered in the order they are sent. *)
Numbered ==
    /\ \A c \in Ctx : \A e \in Elems(queue[c]) : e.id <= nsent
    /\ \A t \in Thread : sop[t] = "push" => smsg[t].id <= nsent

(* A service sends from the thread that runs it. *)
Authored ==
    \A t \in Thread : Writes(t) =>
        t \in Worker /\ pc[t] \in {"call", "init"} /\ smsg[t].src = Sender(t)

InOrder ==
    /\ \A c \in Ctx : Ordered(queue[c])
    /\ \A t \in Thread : Writes(t) => Younger(queue[sto[t]], smsg[t])

SendInv == Numbered /\ Authored /\ InOrder

(* InOrder says what SendOrder says. *)
LEMMA InOrderMeans == InOrder => SendOrder
<1> SUFFICES ASSUME InOrder PROVE SendOrder
  OBVIOUS
<1>1. ASSUME NEW c \in Ctx, NEW i \in DOMAIN queue[c], NEW j \in DOMAIN queue[c],
             i < j, queue[c][i].src = queue[c][j].src, queue[c][i].src # NULL,
             {queue[c][i].kind, queue[c][j].kind} = {"data"}
      PROVE  queue[c][i].id < queue[c][j].id
  <2>1. queue[c][i].kind = "data" /\ queue[c][j].kind = "data"
    BY <1>1
  <2> QED
    BY <1>1, <2>1 DEF InOrder, Ordered
<1>2. ASSUME NEW t \in Thread, Writes(t), NEW i \in DOMAIN queue[sto[t]],
             queue[sto[t]][i].src = smsg[t].src, queue[sto[t]][i].kind = "data"
      PROVE  queue[sto[t]][i].id < smsg[t].id
  <2>1. queue[sto[t]][i] \in Elems(queue[sto[t]])
    BY DEF Elems
  <2> QED
    BY <1>2, <2>1 DEF InOrder, Younger
<1> QED
  BY <1>1, <1>2 DEF SendOrder, Writes

(* Appending the youngest message of its sender keeps a queue in order. *)
LEMMA OrderedAppend ==
    ASSUME NEW s \in Seq(Message), NEW m \in Message, Ordered(s),
           m.kind = "data" /\ m.src # NULL => Younger(s, m)
    PROVE  Ordered(Append(s, m))
<1> DEFINE r == Append(s, m)
<1>1. /\ Len(s) \in Nat /\ DOMAIN s = 1 .. Len(s) /\ DOMAIN r = 1 .. Len(s) + 1
      /\ \A i \in 1 .. Len(s) : r[i] = s[i]
      /\ r[Len(s) + 1] = m
  BY LenProperties, AppendProperties
<1>2. \A i \in DOMAIN s : s[i] \in Elems(s)
  BY DEF Elems
<1> HIDE DEF r
<1>3. ASSUME NEW i \in DOMAIN r, NEW j \in DOMAIN r, i < j, r[i].src = r[j].src,
             r[i].src # NULL, r[i].kind = "data", r[j].kind = "data"
      PROVE  r[i].id < r[j].id
  <2>1. i \in DOMAIN s /\ r[i] = s[i]
    BY <1>1, <1>3
  <2>2. CASE j \in DOMAIN s
    BY <1>1, <1>3, <2>1, <2>2 DEF Ordered
  <2>3. CASE j = Len(s) + 1
    BY <1>1, <1>2, <1>3, <2>1, <2>3 DEF Younger
  <2> QED
    BY <1>1, <2>2, <2>3
<1> QED
  BY <1>3 DEF Ordered, r

(* Taking the oldest message keeps a queue in order. *)
LEMMA OrderedTail ==
    ASSUME NEW s \in Seq(Message), s # <<>>, Ordered(s)
    PROVE  Ordered(Tail(s)) /\ Elems(Tail(s)) \subseteq Elems(s)
<1> DEFINE r == Tail(s)
<1>1. /\ Len(s) \in Nat /\ Len(s) > 0 /\ DOMAIN s = 1 .. Len(s) /\ DOMAIN r = 1 .. Len(s) - 1
      /\ \A i \in 1 .. Len(s) - 1 : r[i] = s[i + 1]
  BY LenProperties, EmptySeq, HeadTailProperties
<1> HIDE DEF r
<1>2. Elems(r) \subseteq Elems(s)
  BY <1>1 DEF Elems
<1>3. \A i \in DOMAIN r : i + 1 \in DOMAIN s
  BY <1>1
<1>4. \A i, j \in DOMAIN r : i < j => i + 1 < j + 1
  BY <1>1
<1>5. Ordered(r)
  BY <1>1, <1>3, <1>4 DEF Ordered
<1> QED
  BY <1>2, <1>5 DEF r

(* skynet_start leaves one message at most in a queue. *)
LEMMA SendInit == Init => SendInv
<1> SUFFICES ASSUME Init PROVE SendInv
  OBVIOUS
<1>1. \A c \in Ctx : DOMAIN queue[c] \subseteq {1} /\ \A i \in DOMAIN queue[c] : queue[c][i].id = 0
  BY DEF Init, FirstMessage
<1>2. Numbered
  BY <1>1 DEF Init, Numbered, Elems
<1>3. \A t \in Thread : sop[t] = "none"
  BY DEF Init
<1>4. \A c \in Ctx : Ordered(queue[c])
  BY <1>1 DEF Ordered
<1> QED
  BY <1>2, <1>3, <1>4 DEF SendInv, Authored, InOrder, Writes

(* Two threads do not write for one service. *)
LEMMA OneWriter ==
    ASSUME ServerInv, NEW t \in Worker, NEW u \in Worker,
           pc[t] \in {"call", "init"}, pc[u] \in {"call", "init"}, Sender(t) = Sender(u)
    PROVE  t = u
<1>1. PICK c \in Ctx : Sender(t) = c
  BY InHand DEF ServerInv
<1>2. Runs(t, c) /\ Runs(u, c)
  BY <1>1 DEF Sender, Runs
<1>3. ASSUME NEW v \in Worker, Runs(v, c) PROVE Has(v, c)
  BY <1>3, SetsAssumption DEF ServerInv, Control, WorkerControl, Runs, Has
<1> QED
  BY <1>2, <1>3 DEF ServerInv, OneOwner

(* Queues hold messages. *)
LEMMA QueueElems ==
    ASSUME TypeOK, NEW c \in Ctx
    PROVE  /\ queue[c] \in Seq(Message)
           /\ \A e \in Elems(queue[c]) : e \in Message /\ e.id \in Nat
<1>1. queue[c] \in Seq(Message)
  BY DEF TypeOK
<1>2. \A i \in DOMAIN queue[c] : queue[c][i] \in Message
  BY <1>1, LenProperties
<1> QED
  BY <1>1, <1>2 DEF Elems, Message

(* A step of t that leaves the queues alone concerns the order only if it
   starts a push.                                                          *)
LEMMA SendFrame ==
    ASSUME ServerInv, SendInv, NEW t \in Thread, Alone(t), UNCHANGED queue,
           nsent' \in Nat, nsent <= nsent',
           sop'[t] = "push" => smsg'[t].id \in Nat /\ smsg'[t].id <= nsent',
           Writes(t)' =>
             /\ t \in Worker /\ pc'[t] \in {"call", "init"} /\ smsg'[t].src = Sender(t)'
             /\ Younger(queue[sto'[t]], smsg'[t])
    PROVE  SendInv'
<1>0. TypeOK /\ nsent \in Nat
  BY DEF ServerInv, TypeOK
<1>1. ASSUME NEW u \in Thread \ {t}
      PROVE  /\ sop'[u] = sop[u] /\ sto'[u] = sto[u] /\ smsg'[u] = smsg[u] /\ pc'[u] = pc[u]
             /\ Writes(u)' <=> Writes(u)
             /\ u \in Worker => Sender(u)' = Sender(u)
  BY DEF Alone, Writes, Sender
<1>2. Numbered'
  <2>1. ASSUME NEW c \in Ctx, NEW e \in Elems(queue[c]) PROVE e.id <= nsent'
    BY <1>0, <2>1, QueueElems DEF SendInv, Numbered
  <2>2. ASSUME NEW u \in Thread, sop'[u] = "push" PROVE smsg'[u].id <= nsent'
    <3>1. CASE u # t
      <4>1. sop[u] = "push" /\ smsg'[u] = smsg[u] /\ smsg[u].id <= nsent
        BY <1>1, <2>2, <3>1 DEF SendInv, Numbered
      <4>2. smsg[u].id \in Nat
        BY <4>1 DEF ServerInv, Control, SubControl, Message
      <4> QED
        BY <1>0, <4>1, <4>2
    <3> QED
      BY <2>2, <3>1
  <2> QED
    BY <2>1, <2>2 DEF Numbered
<1>3. Authored'
  <2> SUFFICES ASSUME NEW u \in Thread, Writes(u)'
               PROVE  u \in Worker /\ pc'[u] \in {"call", "init"} /\ smsg'[u].src = Sender(u)'
    BY DEF Authored
  <2>1. CASE u # t
    <3>1. Writes(u) /\ pc'[u] = pc[u] /\ smsg'[u] = smsg[u] /\ (u \in Worker => Sender(u)' = Sender(u))
      BY <1>1, <2>1
    <3> QED
      BY <3>1 DEF SendInv, Authored
  <2> QED
    BY <2>1
<1>4. InOrder'
  <2>1. ASSUME NEW u \in Thread, Writes(u)' PROVE Younger(queue[sto'[u]], smsg'[u])
    <3>1. CASE u # t
      <4>1. Writes(u) /\ sto'[u] = sto[u] /\ smsg'[u] = smsg[u]
        BY <1>1, <2>1, <3>1
      <4> QED
        BY <4>1 DEF SendInv, InOrder
    <3> QED
      BY <2>1, <3>1
  <2>2. ASSUME NEW u \in Thread, Writes(u)' PROVE Younger(queue[sto[u]], smsg[u])'
    BY <2>1, <2>2 DEF Younger
  <2>3. \A c \in Ctx : Ordered(queue[c])'
    BY DEF SendInv, InOrder, Ordered
  <2> QED
    BY <2>2, <2>3 DEF InOrder
<1> QED
  BY <1>2, <1>3, <1>4 DEF SendInv

(* A step of t that changes one queue: what is new in it has a number, no
   other thread writes for the sender of what is new, and t itself is not
   writing afterwards.                                                     *)
LEMMA SendQueue ==
    ASSUME ServerInv, SendInv, NEW t \in Thread, Alone(t), NEW c \in Ctx, NEW s,
           queue' = [queue EXCEPT ![c] = s], Ordered(s),
           nsent' \in Nat, nsent <= nsent',
           \A e \in Elems(s) : e \in Elems(queue[c]) \/
             /\ e.id \in Nat /\ e.id <= nsent'
             /\ \A u \in Thread \ {t} :
                  Writes(u) => e.src # smsg[u].src \/ e.kind # "data",
           sop'[t] = "push" => smsg'[t].id \in Nat /\ smsg'[t].id <= nsent',
           ~ Writes(t)'
    PROVE  SendInv'
<1>0. TypeOK /\ nsent \in Nat
  BY DEF ServerInv, TypeOK
<1>1. ASSUME NEW u \in Thread \ {t}
      PROVE  /\ sop'[u] = sop[u] /\ sto'[u] = sto[u] /\ smsg'[u] = smsg[u] /\ pc'[u] = pc[u]
             /\ Writes(u)' <=> Writes(u)
             /\ u \in Worker => Sender(u)' = Sender(u)
  BY DEF Alone, Writes, Sender
<1>2. queue'[c] = s /\ \A d \in Ctx \ {c} : queue'[d] = queue[d]
  BY <1>0 DEF TypeOK
<1>3. Numbered'
  <2>1. ASSUME NEW d \in Ctx, NEW e \in Elems(queue'[d]) PROVE e.id <= nsent'
    <3>1. CASE e \in Elems(queue[d])
      BY <1>0, <3>1, QueueElems DEF SendInv, Numbered
    <3>2. CASE e \notin Elems(queue[d])
      BY <1>2, <2>1, <3>2
    <3> QED
      BY <3>1, <3>2
  <2>2. ASSUME NEW u \in Thread, sop'[u] = "push" PROVE smsg'[u].id <= nsent'
    <3>1. CASE u # t
      <4>1. sop[u] = "push" /\ smsg'[u] = smsg[u] /\ smsg[u].id <= nsent
        BY <1>1, <2>2, <3>1 DEF SendInv, Numbered
      <4>2. smsg[u].id \in Nat
        BY <4>1 DEF ServerInv, Control, SubControl, Message
      <4> QED
        BY <1>0, <4>1, <4>2
    <3> QED
      BY <2>2, <3>1
  <2> QED
    BY <2>1, <2>2 DEF Numbered, Elems
<1>4. Authored'
  <2> SUFFICES ASSUME NEW u \in Thread, Writes(u)'
               PROVE  u \in Worker /\ pc'[u] \in {"call", "init"} /\ smsg'[u].src = Sender(u)'
    BY DEF Authored
  <2>1. u # t
    OBVIOUS
  <2>2. Writes(u) /\ pc'[u] = pc[u] /\ smsg'[u] = smsg[u] /\ (u \in Worker => Sender(u)' = Sender(u))
    BY <1>1, <2>1
  <2> QED
    BY <2>2 DEF SendInv, Authored
<1>5. ASSUME NEW u \in Thread, Writes(u)' PROVE Younger(queue[sto[u]], smsg[u])'
  <2>1. u # t
    BY <1>5
  <2>2. Writes(u) /\ sto'[u] = sto[u] /\ smsg'[u] = smsg[u]
    BY <1>1, <1>5, <2>1
  <2>3. Younger(queue[sto[u]], smsg[u])
    BY <2>2 DEF SendInv, InOrder
  <2>4. PICK d \in Ctx : sto[u] = d
    BY <2>2 DEF ServerInv, TypeOK, Control, SubControl, Writes
  <2>5. ASSUME NEW e \in Elems(queue'[d]), e.src = smsg[u].src, e.kind = "data"
        PROVE  e.id < smsg[u].id
    <3>1. e \in Elems(queue[d])
      BY <1>2, <2>1, <2>2, <2>5
    <3> QED
      BY <2>3, <2>4, <2>5, <3>1 DEF Younger
  <2> QED
    BY <2>2, <2>4, <2>5 DEF Younger, Elems
<1>6. ASSUME NEW d \in Ctx PROVE Ordered(queue[d])'
  <2>1. CASE d = c
    BY <1>2, <2>1 DEF Ordered
  <2>2. CASE d # c
    BY <1>2, <2>2 DEF SendInv, InOrder, Ordered
  <2> QED
    BY <2>1, <2>2
<1> QED
  BY <1>3, <1>4, <1>5, <1>6 DEF SendInv, InOrder

(* Taking the oldest message of a queue. *)
LEMMA SendTake ==
    ASSUME ServerInv, SendInv, NEW t \in Thread, Alone(t), NEW c \in Ctx, queue[c] # <<>>,
           queue' = [queue EXCEPT ![c] = Tail(@)], nsent' = nsent,
           sop'[t] = "push" => smsg'[t].id \in Nat /\ smsg'[t].id <= nsent,
           ~ Writes(t)'
    PROVE  SendInv'
<1>1. TypeOK /\ nsent \in Nat /\ Ordered(queue[c])
  BY DEF ServerInv, TypeOK, SendInv, InOrder
<1>2. Ordered(Tail(queue[c])) /\ Elems(Tail(queue[c])) \subseteq Elems(queue[c])
  BY <1>1, QueueElems, OrderedTail
<1>3. nsent' \in Nat /\ nsent <= nsent'
  BY <1>1
<1> DEFINE s == Tail(queue[c])
<1>4. queue' = [queue EXCEPT ![c] = s] /\ Ordered(s) /\ \A e \in Elems(s) : e \in Elems(queue[c])
  BY <1>2
<1> HIDE DEF s
<1> QED
  BY <1>3, <1>4, SendQueue

(* The start of a push with a message that is not some service's data. *)
LEMMA SendNotice ==
    ASSUME ServerInv, NEW t \in Thread, sop[t] = "none", NEW c, NEW m \in Message,
           StartPush(t, c, m), m.kind # "data" \/ m.src = NULL
    PROVE  /\ sop'[t] = "push" => smsg'[t] = m
           /\ ~ Writes(t)'
<1>0. TypeOK
  BY DEF ServerInv
<1>1. CASE c \in slot
  BY <1>0, <1>1 DEF TypeOK, StartPush, Writes
<1>2. CASE c \notin slot
  BY <1>0, <1>2 DEF StartPush, Writes, subVars
<1> QED
  BY <1>1, <1>2

(* Every step keeps the messages in order. *)
LEMMA SendStep == ServerInv /\ SendInv /\ [Next]_vars => SendInv'
<1> SUFFICES ASSUME ServerInv, SendInv, [Next]_vars PROVE SendInv'
  OBVIOUS
<1> USE DEF At, ctxVars, queueVars, dispVars, cmdVars, subVars
<1>0. TypeOK /\ Control /\ nsent \in Nat /\ Worker \subseteq Thread /\ Ext \subseteq Thread
  BY DEF ServerInv, TypeOK, Thread
<1>1. ASSUME NEW t \in Thread, Alone(t), UNCHANGED <<queue, nsent>>, sop'[t] # "push" PROVE SendInv'
  <2>1. nsent' \in Nat /\ nsent <= nsent'
    BY <1>0, <1>1
  <2>2. ~ Writes(t)'
    BY <1>1 DEF Writes
  <2> QED
    BY <1>1, <2>1, <2>2, SendFrame
<1>2. ASSUME NEW t \in Thread, DoPush(t) PROVE SendInv'
  <2>0. Alone(t)
    BY <1>0, <1>2, AloneSub DEF SubStep
  <2>1. PICK c \in Ctx : sto[t] = c
    BY <1>0, <1>2 DEF TypeOK, Control, SubControl, DoPush
  <2>2. PICK m \in Message : smsg[t] = m /\ sop[t] = "push"
    BY <1>0, <1>2 DEF Control, SubControl, DoPush
  <2> DEFINE s == Append(queue[c], m)
  <2>3. queue' = [queue EXCEPT ![c] = s] /\ nsent' = nsent /\ sop'[t] = "rel"
    BY <1>0, <1>2, <2>1, <2>2 DEF DoPush, MqPush, TypeOK
  <2>4. Ordered(s)
    <3>1. Ordered(queue[c]) /\ queue[c] \in Seq(Message)
      BY <1>0, QueueElems DEF SendInv, InOrder
    <3>2. m.kind = "data" /\ m.src # NULL => Younger(queue[c], m)
      BY <2>1, <2>2 DEF SendInv, InOrder, Writes
    <3> QED
      BY <3>1, <3>2, OrderedAppend
  <2>5. Elems(s) = Elems(queue[c]) \cup {m}
    BY <1>0, QueueElems, ElemsAppend
  <2>6. m.id \in Nat /\ m.id <= nsent
    BY <2>2 DEF SendInv, Numbered, Message
  <2>7. ASSUME NEW u \in Thread \ {t}, Writes(u), m.src = smsg[u].src, m.kind = "data" PROVE FALSE
    <3>1. Writes(t)
      BY <2>2, <2>7 DEF Writes
    <3>2. t \in Worker /\ pc[t] \in {"call", "init"} /\ m.src = Sender(t)
      BY <3>1, <2>2 DEF SendInv, Authored
    <3>3. u \in Worker /\ pc[u] \in {"call", "init"} /\ m.src = Sender(u)
      BY <2>7 DEF SendInv, Authored
    <3> QED
      BY <3>2, <3>3, OneWriter
  <2>8. nsent' \in Nat /\ nsent <= nsent' /\ ~ Writes(t)'
    BY <1>0, <2>3 DEF Writes
  <2> HIDE DEF s
  <2>9. \A e \in Elems(s) : e \in Elems(queue[c]) \/
             /\ e.id \in Nat /\ e.id <= nsent'
             /\ \A u \in Thread \ {t} : Writes(u) => e.src # smsg[u].src \/ e.kind # "data"
    BY <2>3, <2>5, <2>6, <2>7
  <2> QED
    BY <2>0, <2>3, <2>4, <2>8, <2>9, SendQueue
<1>3. ASSUME NEW t \in Worker, SendRemote(t) PROVE SendInv'
  <2>0. Alone(t) /\ t \in Thread
    BY <1>0, <1>3, AloneWorker DEF Command
  <2>1. PICK c \in Ctx : remote = c
    BY <1>0, <1>3 DEF TypeOK, SendRemote
  <2>2. PICK m \in Message : m = Data(Sender(t)) /\ pc[t] \in {"call", "init"} /\ sop[t] = "none"
    BY <1>0, <1>3, InHand, MessageType DEF SendRemote
  <2>3. m.id = nsent + 1 /\ m.src = Sender(t)
    BY <2>2 DEF Data
  <2> DEFINE s == Append(queue[c], m)
  <2>4. queue' = [queue EXCEPT ![c] = s] /\ nsent' = nsent + 1 /\ sop' = sop
    BY <1>0, <1>3, <2>1, <2>2 DEF SendRemote, MqPush, TypeOK
  <2>5. Ordered(s)
    <3>1. Ordered(queue[c]) /\ queue[c] \in Seq(Message)
      BY <1>0, QueueElems DEF SendInv, InOrder
    <3>2. Younger(queue[c], m)
      BY <1>0, <2>3, QueueElems DEF SendInv, Numbered, Younger
    <3> QED
      BY <3>1, <3>2, OrderedAppend
  <2>6. Elems(s) = Elems(queue[c]) \cup {m}
    BY <1>0, QueueElems, ElemsAppend
  <2>7. ASSUME NEW u \in Thread \ {t}, Writes(u), m.src = smsg[u].src PROVE FALSE
    <3>1. u \in Worker /\ pc[u] \in {"call", "init"} /\ m.src = Sender(u)
      BY <2>7 DEF SendInv, Authored
    <3> QED
      BY <2>2, <2>3, <3>1, OneWriter
  <2>8. nsent' \in Nat /\ nsent <= nsent' /\ m.id \in Nat /\ m.id <= nsent'
    BY <1>0, <2>3, <2>4
  <2>9. sop'[t] = "none" /\ ~ Writes(t)'
    BY <2>2, <2>4 DEF Writes
  <2> HIDE DEF s
  <2>10. \A e \in Elems(s) : e \in Elems(queue[c]) \/
             /\ e.id \in Nat /\ e.id <= nsent'
             /\ \A u \in Thread \ {t} : Writes(u) => e.src # smsg[u].src \/ e.kind # "data"
    BY <2>6, <2>7, <2>8
  <2> QED
    BY <2>0, <2>4, <2>5, <2>8, <2>9, <2>10, SendQueue
<1>4. ASSUME NEW t \in Worker, Pop(t) PROVE SendInv'
  <2>0. Alone(t) /\ t \in Thread
    BY <1>0, <1>4, AloneWorker DEF Dispatch
  <2>1. PICK c \in Ctx : q[t] = c
    BY <1>0, <1>4, InHand DEF Pop
  <2>2. queue[c] # <<>> /\ queue' = [queue EXCEPT ![c] = Tail(@)] /\ nsent' = nsent /\ sop'[t] = "none"
    BY <1>4, <2>1 DEF Pop
  <2> QED
    BY <2>0, <2>2, SendTake DEF Writes
<1>5. ASSUME NEW t \in Worker, DropMessage(t) PROVE SendInv'
  <2>0. Alone(t) /\ t \in Thread /\ sop[t] = "none"
    BY <1>0, <1>5, AloneWorker DEF Dispatch, DropMessage
  <2>1. PICK c \in Ctx : Dying(t) = c
    BY <1>0, <1>5, InHand DEF DropMessage
  <2>2. queue[c] # <<>> /\ queue' = [queue EXCEPT ![c] = Tail(@)] /\ nsent' = nsent
    BY <1>5, <2>1 DEF DropMessage
  <2> DEFINE h == Head(queue[c])
             e == [src |-> c, id |-> h.id, kind |-> "error"]
  <2>3. h \in Elems(queue[c])
    <3>1. queue[c] \in Seq(Message)
      BY <1>0 DEF TypeOK
    <3>2. h = queue[c][1] /\ 1 \in DOMAIN queue[c]
      BY <2>2, <3>1, EmptySeq, LenProperties, HeadTailProperties
    <3> QED
      BY <3>2 DEF Elems
  <2>4. h.id \in Nat /\ h.id <= nsent
    BY <1>0, <2>3, QueueElems DEF SendInv, Numbered
  <2>5. e \in Message /\ e.kind = "error"
    BY <2>4 DEF Message
  <2>6. StartPush(t, h.src, e)
    BY <1>5, <2>1 DEF DropMessage
  <2>7. ~ Writes(t)' /\ (sop'[t] = "push" => smsg'[t] = e)
    BY <2>0, <2>5, <2>6, SendNotice
  <2>8. sop'[t] = "push" => smsg'[t].id \in Nat /\ smsg'[t].id <= nsent
    BY <2>4, <2>7
  <2> QED
    BY <2>0, <2>2, <2>7, <2>8, SendTake
<1>6. ASSUME NEW t \in Worker, NEW d \in Ctx, Send(t, d) PROVE SendInv'
  <2>0. Alone(t) /\ t \in Thread
    BY <1>0, <1>6, AloneWorker DEF Command
  <2>1. PICK m \in Message : m = Data(Sender(t)) /\ pc[t] \in {"call", "init"}
    BY <1>0, <1>6, InHand, MessageType DEF Send
  <2>2. m.id = nsent + 1 /\ m.src = Sender(t)
    BY <2>1 DEF Data
  <2>3. /\ nsent' = nsent + 1 /\ queue' = queue /\ pc' = pc /\ Sender(t)' = Sender(t)
        /\ sto'[t] = d /\ smsg'[t] = m
    BY <1>0, <1>6, <2>0, <2>1 DEF TypeOK, Send, StartPush, Sender
  <2>4. Younger(queue[d], m)
    BY <1>0, <2>2, QueueElems DEF SendInv, Numbered, Younger
  <2>5. nsent' \in Nat /\ nsent <= nsent' /\ m.id \in Nat /\ m.id <= nsent'
    BY <1>0, <2>2, <2>3
  <2> QED
    BY <2>0, <2>1, <2>2, <2>3, <2>4, <2>5, SendFrame
<1>7. ASSUME NEW t \in Ext, NEW d \in Ctx, ExtSend(t, d) PROVE SendInv'
  <2>0. Alone(t) /\ t \in Thread /\ sop[t] = "none"
    BY <1>0, <1>7, AloneExt DEF ExtSend
  <2>1. Data(NULL) \in Message /\ Data(NULL).id = nsent + 1 /\ Data(NULL).src = NULL
    BY <1>0, MessageType DEF Data
  <2>2. ~ Writes(t)' /\ (sop'[t] = "push" => smsg'[t] = Data(NULL))
    BY <1>7, <2>0, <2>1, SendNotice DEF ExtSend
  <2>3. nsent' = nsent + 1 /\ queue' = queue
    BY <1>7 DEF ExtSend
  <2>4. nsent' \in Nat /\ nsent <= nsent' /\ nsent + 1 \in Nat /\ nsent + 1 <= nsent'
    BY <1>0, <2>3
  <2> QED
    BY <2>0, <2>1, <2>2, <2>3, <2>4, SendFrame
<1>8. ASSUME NEW t \in Worker, NEW d \in Ctx, Kill(t, d) PROVE SendInv'
  <2>0. Alone(t) /\ t \in Thread /\ sop[t] = "none"
    BY <1>0, <1>8, AloneWorker DEF Command, Kill
  <2>1. nsent' \in Nat /\ nsent <= nsent' /\ queue' = queue
    BY <1>0, <1>8 DEF Kill
  <2> DEFINE e == [src |-> d, id |-> 0, kind |-> "exit"]
  <2>2. e \in Message /\ e.kind = "exit" /\ e.id = 0
    BY DEF Message
  <2>3. ~ Writes(t)' /\ (sop'[t] = "push" => smsg'[t] = e)
    <3>1. CASE monitor # NULL
      BY <1>8, <2>0, <2>2, <3>1, SendNotice DEF Kill
    <3>2. CASE monitor = NULL
      BY <1>8, <2>0, <3>2 DEF Kill, Writes
    <3> QED
      BY <3>1, <3>2
  <2>4. 0 \in Nat /\ 0 <= nsent'
    BY <2>1
  <2> HIDE DEF e
  <2> QED
    BY <2>0, <2>1, <2>2, <2>3, <2>4, SendFrame
<1>9. ASSUME NEW t \in Thread, DoRelease(t) \/ DoMark(t) \/ DoFree(t) PROVE SendInv'
  <2>1. Alone(t)
    BY <1>0, <1>9, AloneSub DEF SubStep
  <2>2. UNCHANGED <<queue, nsent>> /\ sop'[t] # "push"
    BY <1>0, <1>9 DEF TypeOK, DoRelease, DoMark, DoFree, EndSub
  <2> QED
    BY <1>1, <2>1, <2>2
<1>10. ASSUME NEW t \in Worker,
             \/ Fetch(t) \/ Grab(t) \/ MqRelease(t) \/ FreeQueue(t) \/ PopEmpty(t) \/ Length(t)
             \/ Return(t) \/ NextQueue(t) \/ PushBack(t) \/ ReleaseCtx(t)
      PROVE  SendInv'
  <2>1. Alone(t) /\ t \in Thread
    BY <1>0, <1>10, AloneWorker DEF Dispatch
  <2>2. UNCHANGED <<queue, nsent>> /\ sop'[t] # "push"
    BY <1>0, <1>10 DEF TypeOK, Fetch, Grab, MqRelease, FreeQueue, PopEmpty, Length, Return,
       NextQueue, PushBack, ReleaseCtx, StartRelease
  <2> QED
    BY <1>1, <2>1, <2>2
<1>11. ASSUME NEW t \in Worker, NEW d \in Ctx, SetMonitor(t, d) \/ Launch(t, d) \/ AbortVisit(t, d)
      PROVE  SendInv'
  <2>1. Alone(t) /\ t \in Thread
    BY <1>0, <1>11, AloneWorker DEF Command
  <2>2. UNCHANGED <<queue, nsent>> /\ sop'[t] # "push"
    BY <1>0, <1>11 DEF TypeOK, SetMonitor, Launch, MqCreate, AbortVisit, TakeOut, StartRelease
  <2> QED
    BY <1>1, <2>1, <2>2
<1>12. ASSUME NEW t \in Worker,
             \/ Retire(t) \/ Abort(t) \/ AbortPass(t) \/ HarborStart(t) \/ InitOk(t) \/ SetInit(t)
             \/ PushNewQueue(t) \/ InitFail(t) \/ FailRetire(t)
      PROVE  SendInv'
  <2>1. Alone(t) /\ t \in Thread
    BY <1>0, <1>12, AloneWorker DEF Command
  <2>2. UNCHANGED <<queue, nsent>> /\ sop'[t] # "push"
    BY <1>0, <1>12 DEF TypeOK, Retire, Abort, AbortPass, HarborStart, InitOk, SetInit,
       PushNewQueue, InitFail, FailRetire, TakeOut, StartRelease
  <2> QED
    BY <1>1, <2>1, <2>2
<1>13. CASE UNCHANGED vars
  BY <1>13 DEF vars, SendInv, Numbered, Authored, InOrder, Writes, Sender, Ordered, Younger, Elems
<1> QED
  BY <1>2, <1>3, <1>4, <1>5, <1>6, <1>7, <1>8, <1>9, <1>10, <1>11, <1>12, <1>13
     DEF Next, SubStep, Dispatch, Command

(* Messages are numbered, written by the thread that runs their sender, and
   in order, in every reachable state.                                     *)
LEMMA SendInvariant == Spec => []SendInv
  BY SendInit, SendStep, ServerInvariant, PTL DEF Spec

(* The messages of one service to another are queued in the order they were
   sent, although skynet_context_push grabs, pushes and releases in separate
   steps, and a send by way of the harbor does not grab at all.            *)
THEOREM MessagesInOrder == Spec => []SendOrder
<1>1. SendInv => SendOrder
  BY InOrderMeans DEF SendInv
<1> QED
  BY <1>1, SendInvariant, PTL

-----------------------------------------------------------------------------
(* The node implements Mailbox *)

(* The variables of Mailbox, and its messages: numbered up to MaxSend. *)
LifeMap == [c \in Ctx |-> Life(c)]
WayMap == [t \in Thread |-> Bringing(t)]
BoxMessage == [src : Ctx \cup {NULL}, id : 0 .. MaxSend, kind : {"data", "error", "exit"}]
boxVars == <<LifeMap, queue, WayMap>>

(* What a correspondent sees of a context, in the node's own terms. *)
LifeFact ==
    \A c \in Ctx :
        /\ Life(c) = "new" <=> mem[c] = "none"
        /\ Life(c) = "open" <=> c \in slot
        /\ Life(c) = "closed" <=> release[c]
        /\ Life(c) = "shut" <=> mem[c] # "none" /\ c \notin slot /\ ~ release[c]
        /\ ref[c] # 0 => Life(c) \in {"open", "shut"}

(* A context in the table is live and not marked for release. *)
LEMMA LifeMeans == ServerInv => LifeFact
<1> SUFFICES ASSUME ServerInv, NEW c \in Ctx
             PROVE  /\ Life(c) = "new" <=> mem[c] = "none"
                    /\ Life(c) = "open" <=> c \in slot
                    /\ Life(c) = "closed" <=> release[c]
                    /\ Life(c) = "shut" <=> mem[c] # "none" /\ c \notin slot /\ ~ release[c]
                    /\ ref[c] # 0 => Life(c) \in {"open", "shut"}
  BY DEF LifeFact
<1>1. TypeOK /\ RefExact /\ Lifetime
  BY DEF ServerInv
<1>2. c \in slot => ref[c] # 0
  BY <1>1, Counted
<1>3. ref[c] # 0 => mem[c] = "live" /\ ~ release[c]
  BY <1>1, CountedLive
<1>4. mem[c] = "none" => ~ release[c]
  BY <1>1 DEF Lifetime, ContextLife
<1> QED
  BY <1>2, <1>3, <1>4 DEF Life

(* Who is not pushing brings nothing, who is pushing brings something. *)
LEMMA BringingMeans ==
    ASSUME ServerInv, NEW t \in Thread
    PROVE  /\ sop[t] # "push" => WayMap[t] = NULL
           /\ sop[t] = "push" => WayMap[t] = <<sto[t], smsg[t]>> /\ WayMap[t] # NULL
                                 /\ sto[t] \in Ctx /\ smsg[t] \in Message
<1>1. sop[t] = "push" => sto[t] \in Ctx /\ smsg[t] \in Message
  BY DEF ServerInv, TypeOK, Control, SubControl
<1> QED
  BY <1>1, NullAssumption DEF WayMap, Bringing

(* A step of t that starts or ends no push leaves all carriers as they are. *)
LEMMA WaySame ==
    ASSUME NEW t \in Thread, Alone(t), sop[t] # "push", sop'[t] # "push"
    PROVE  WayMap' = WayMap
<1>1. ASSUME NEW u \in Thread PROVE Bringing(u)' = Bringing(u)
  BY DEF Alone, Bringing
<1> QED
  BY <1>1 DEF WayMap

(* The life of a service changes with its memory, its slot and its mark. *)
LEMMA LifeSame ==
    ASSUME UNCHANGED <<slot, release>>,
           \A c \in Ctx : mem'[c] = "none" <=> mem[c] = "none"
    PROVE  LifeMap' = LifeMap
<1>1. ASSUME NEW c \in Ctx PROVE Life(c)' = Life(c)
  BY DEF Life
<1> QED
  BY <1>1 DEF LifeMap

(* Everything else stutters. *)
LEMMA BoxStutter ==
    ASSUME NEW t \in Thread, Alone(t), sop[t] # "push", sop'[t] # "push",
           UNCHANGED <<queue, slot, release>>,
           \A c \in Ctx : mem'[c] = "none" <=> mem[c] = "none"
    PROVE  UNCHANGED boxVars
  BY WaySame, LifeSame DEF boxVars

(* skynet_context_push grabs an open service, which accepts the message; for
   any other nothing happens.                                              *)
LEMMA BoxAccept ==
    ASSUME ServerInv, LifeFact, NEW t \in Thread, Alone(t), sop[t] = "none", NEW c,
           NEW m \in BoxMessage, StartPush(t, c, m), UNCHANGED <<mem, slot, release, queue>>
    PROVE  [Box!Next]_boxVars
<1>1. CASE c \in slot
  <2>0. c \in Ctx /\ TypeOK
    BY <1>1 DEF ServerInv, TypeOK
  <2>1. WayMap[t] = NULL
    BY BringingMeans
  <2>2. WayMap' = [WayMap EXCEPT ![t] = <<c, m>>]
    <3>1. Bringing(t)' = <<c, m>>
      BY <1>1, <2>0 DEF TypeOK, StartPush, Bringing
    <3>2. ASSUME NEW u \in Thread \ {t} PROVE Bringing(u)' = Bringing(u)
      BY DEF Alone, Bringing
    <3> QED
      BY <3>1, <3>2 DEF WayMap
  <2>3. LifeMap[c] = "open" /\ LifeMap' = LifeMap
    BY <1>1, <2>0, LifeSame DEF LifeFact, LifeMap
  <2>4. Box!Accept(t, c)
    BY <2>1, <2>2, <2>3 DEF Box!Accept, LifeMap, WayMap, BoxMessage
  <2> QED
    BY <2>0, <2>4 DEF Box!Next
<1>2. CASE c \notin slot
  BY <1>2, BoxStutter DEF StartPush, subVars
<1> QED
  BY <1>1, <1>2

(* skynet_handle_retire shuts an open service. *)
LEMMA BoxShut ==
    ASSUME ServerInv, LifeFact, LifeFact', NEW t \in Thread, Alone(t), sop[t] = "none", NEW c,
           TakeOut(t, c), UNCHANGED <<mem, release, queue>>
    PROVE  [Box!Next]_boxVars
<1>0. TypeOK
  BY DEF ServerInv
<1>1. CASE c \in slot
  <2>0. c \in Ctx
    BY <1>0, <1>1 DEF TypeOK
  <2>1. WayMap' = WayMap
    BY <1>0, <1>1, WaySame DEF TypeOK, TakeOut, StartRelease
  <2>2. Life(c) = "open" /\ mem[c] # "none" /\ ~ release[c]
    BY <1>1, <2>0 DEF LifeFact
  <2>3. Life(c)' = "shut"
    BY <1>1, <2>0, <2>2 DEF LifeFact, TakeOut
  <2>4. ASSUME NEW d \in Ctx \ {c} PROVE Life(d)' = Life(d)
    BY <1>1 DEF TakeOut, Life
  <2>5. LifeMap[c] = "open" /\ LifeMap' = [LifeMap EXCEPT ![c] = "shut"]
    BY <2>0, <2>2, <2>3, <2>4 DEF LifeMap
  <2>6. Box!Shut(c)
    BY <2>1, <2>5 DEF Box!Shut, Box!Become, LifeMap, WayMap
  <2> QED
    BY <2>0, <2>6 DEF Box!Next
<1>2. CASE c \notin slot
  BY <1>2, BoxStutter DEF TakeOut, subVars
<1> QED
  BY <1>1, <1>2

(* At the start, services are open with their first message, or not there. *)
LEMMA BoxInit == Init => Box!Init
<1> SUFFICES ASSUME Init PROVE Box!Init
  OBVIOUS
<1>1. ASSUME NEW c \in Ctx PROVE Life(c) = IF c \in Boot THEN "open" ELSE "new"
  BY DEF Init, Life
<1>2. LifeMap \in [Ctx -> {"new", "open"}]
  BY <1>1 DEF LifeMap
<1>3. WayMap = [t \in Thread |-> NULL]
  BY DEF Init, WayMap, Bringing
<1>4. \A c \in Ctx : FirstMessage(c) \in BoxMessage
  BY NumbersAssumption DEF FirstMessage, BoxMessage
<1>5. queue \in [Ctx -> Seq(BoxMessage)]
  BY <1>4 DEF Init
<1>6. \A c \in Ctx : LifeMap[c] = "new" => queue[c] = <<>>
  BY <1>1 DEF Init, LifeMap
<1> QED
  BY <1>2, <1>3, <1>5, <1>6 DEF Box!Init, LifeMap, WayMap, BoxMessage

(* Every step of the node is a step of the mailboxes, or none. *)
LEMMA BoxStep ==
    ASSUME ServerInv, LifeFact, LifeFact', [Next]_vars
    PROVE  [Box!Next]_boxVars
<1> USE DEF At, ctxVars, queueVars, dispVars, cmdVars, subVars
<1>0. /\ TypeOK /\ Control /\ RefExact /\ Lifetime /\ Deletion /\ Dropping
      /\ nsent \in Nat /\ MaxSend \in Nat /\ Worker \subseteq Thread /\ Ext \subseteq Thread
  BY NumbersAssumption DEF ServerInv, Lifetime, TypeOK, Thread
<1>1. ASSUME NEW t \in Thread, DoPush(t) PROVE [Box!Next]_boxVars
  <2>0. Alone(t)
    BY <1>0, <1>1, AloneSub DEF SubStep
  <2>1. PICK c \in Ctx, m \in Message : sto[t] = c /\ smsg[t] = m /\ sop[t] = "push"
    BY <1>0, <1>1 DEF TypeOK, Control, SubControl, DoPush
  <2>2. WayMap[t] = <<c, m>> /\ WayMap[t] # NULL
    BY <2>1, BringingMeans
  <2>3. WayMap' = [WayMap EXCEPT ![t] = NULL]
    <3>1. Bringing(t)' = NULL
      BY <1>0, <1>1 DEF TypeOK, DoPush, Bringing
    <3>2. ASSUME NEW u \in Thread \ {t} PROVE Bringing(u)' = Bringing(u)
      BY <2>0 DEF Alone, Bringing
    <3> QED
      BY <3>1, <3>2 DEF WayMap
  <2>4. LifeMap' = LifeMap
    BY <1>1, LifeSame DEF DoPush
  <2>5. queue' = [queue EXCEPT ![WayMap[t][1]] = Append(@, WayMap[t][2])]
    BY <1>1, <2>1, <2>2 DEF DoPush, MqPush
  <2>6. Box!Arrive(t)
    BY <2>2, <2>3, <2>4, <2>5 DEF Box!Arrive, LifeMap, WayMap
  <2> QED
    BY <2>6 DEF Box!Next
<1>2. ASSUME NEW t \in Thread, DoMark(t) PROVE [Box!Next]_boxVars
  <2>0. Alone(t)
    BY <1>0, <1>2, AloneSub DEF SubStep
  <2>1. PICK c \in Ctx : sto[t] = c
    BY <1>0, <1>2 DEF TypeOK, Control, SubControl, DoMark
  <2>2. ref[c] = 0 /\ mem[c] = "live" /\ ~ release[c]
    BY <1>0, <1>2, <2>1 DEF Deletion, Deletes, DoMark
  <2>3. c \notin slot /\ \A u \in Thread : sop[u] = "push" => sto[u] # c
    BY <1>0, <2>2, Counted
  <2>4. release' = [release EXCEPT ![c] = TRUE] /\ UNCHANGED <<mem, slot, queue>>
    BY <1>2, <2>1 DEF DoMark, MqMarkRelease
  <2>5. LifeMap[c] = "shut" /\ LifeMap' = [LifeMap EXCEPT ![c] = "closed"]
    <3>1. Life(c) = "shut"
      BY <2>2, <2>3 DEF LifeFact
    <3>2. Life(c)' = "closed"
      BY <1>0, <2>4 DEF TypeOK, LifeFact
    <3>3. ASSUME NEW d \in Ctx \ {c} PROVE Life(d)' = Life(d)
      BY <1>0, <2>4 DEF TypeOK, Life
    <3> QED
      BY <3>1, <3>2, <3>3 DEF LifeMap
  <2>6. WayMap' = WayMap
    BY <1>0, <1>2, <2>0, WaySame DEF TypeOK, DoMark
  <2>7. ASSUME NEW u \in Thread, WayMap[u] # NULL PROVE WayMap[u][1] # c
    <3>1. sop[u] = "push" /\ WayMap[u] = <<sto[u], smsg[u]>>
      BY <2>7, BringingMeans
    <3> QED
      BY <2>3, <3>1
  <2>8. Box!Close(c)
    BY <2>4, <2>5, <2>6, <2>7 DEF Box!Close, Box!Become, LifeMap, WayMap
  <2> QED
    BY <2>8 DEF Box!Next
<1>3. ASSUME NEW t \in Worker, Pop(t) PROVE [Box!Next]_boxVars
  <2>0. Alone(t) /\ t \in Thread
    BY <1>0, <1>3, AloneWorker DEF Dispatch
  <2>1. PICK c \in Ctx : q[t] = c /\ ctx[t] = c
    BY <1>0, <1>3, InHand, SetsAssumption DEF Pop, Control, WorkerControl
  <2>2. ref[c] # 0
    BY <1>0, <2>1, Counted
  <2>3. LifeMap[c] \in {"open", "shut"} /\ LifeMap' = LifeMap
    BY <1>3, <2>2, LifeSame DEF LifeFact, LifeMap, Pop
  <2>4. queue[c] # <<>> /\ queue' = [queue EXCEPT ![c] = Tail(@)]
    BY <1>3, <2>1 DEF Pop
  <2>5. WayMap' = WayMap
    BY <1>3, <2>0, WaySame DEF Pop
  <2>6. Box!Handle(c)
    BY <2>3, <2>4, <2>5 DEF Box!Handle, LifeMap, WayMap
  <2> QED
    BY <2>6 DEF Box!Next
<1>4. ASSUME NEW t \in Worker, DropMessage(t) PROVE [Box!Next]_boxVars
  <2>0. Alone(t) /\ t \in Thread /\ sop[t] = "none"
    BY <1>0, <1>4, AloneWorker DEF Dispatch, DropMessage
  <2>1. PICK c \in Ctx : Dying(t) = c
    BY <1>0, <1>4, InHand DEF DropMessage
  <2>2. LifeMap[c] = "closed" /\ LifeMap' = LifeMap
    BY <1>0, <1>4, <2>1, LifeSame DEF Dropping, LifeFact, LifeMap, DropMessage
  <2>3. WayMap[t] = NULL
    BY <2>0, BringingMeans
  <2> DEFINE m == Head(queue[c])
             e == [src |-> c, id |-> m.id, kind |-> "error"]
  <2>4. queue[c] # <<>> /\ queue' = [queue EXCEPT ![c] = Tail(@)] /\ StartPush(t, m.src, e)
    BY <1>4, <2>1 DEF DropMessage
  <2> HIDE DEF m
  <2>5. m.src \in Ctx /\ LifeMap[m.src] = "open" <=> m.src \in slot
    BY <1>0 DEF TypeOK, LifeFact, LifeMap
  <2>6. WayMap' = IF m.src \in slot THEN [WayMap EXCEPT ![t] = <<m.src, e>>] ELSE WayMap
    <3>1. CASE m.src \in slot
      <4>1. Bringing(t)' = <<m.src, e>>
        BY <1>0, <2>0, <2>4, <3>1 DEF TypeOK, StartPush, Bringing
      <4>2. ASSUME NEW u \in Thread \ {t} PROVE Bringing(u)' = Bringing(u)
        BY <2>0 DEF Alone, Bringing
      <4> QED
        BY <3>1, <4>1, <4>2 DEF WayMap
    <3>2. CASE m.src \notin slot
      BY <2>0, <2>4, <3>2, WaySame DEF StartPush
    <3> QED
      BY <3>1, <3>2
  <2>7. Box!Refuse(t, c)
    BY <2>2, <2>3, <2>4, <2>5, <2>6 DEF Box!Refuse, Box!Refusal, LifeMap, WayMap, m
  <2> QED
    BY <2>0, <2>7 DEF Box!Next
<1>5. ASSUME NEW t \in Worker, NEW d \in Ctx, Send(t, d) PROVE [Box!Next]_boxVars
  <2>0. Alone(t) /\ t \in Thread /\ sop[t] = "none"
    BY <1>0, <1>5, AloneWorker DEF Command, Send
  <2>1. Data(Sender(t)) \in BoxMessage
    BY <1>0, <1>5, InHand DEF Send, Data, BoxMessage
  <2> QED
    BY <1>5, <2>0, <2>1, BoxAccept DEF Send
<1>6. ASSUME NEW t \in Ext, NEW d \in Ctx, ExtSend(t, d) PROVE [Box!Next]_boxVars
  <2>0. Alone(t) /\ t \in Thread /\ sop[t] = "none"
    BY <1>0, <1>6, AloneExt DEF ExtSend
  <2>1. Data(NULL) \in BoxMessage
    BY <1>0, <1>6 DEF ExtSend, Data, BoxMessage
  <2> QED
    BY <1>6, <2>0, <2>1, BoxAccept DEF ExtSend
<1>7. ASSUME NEW t \in Worker, NEW d \in Ctx, Kill(t, d) PROVE [Box!Next]_boxVars
  <2>0. Alone(t) /\ t \in Thread /\ sop[t] = "none"
    BY <1>0, <1>7, AloneWorker DEF Command, Kill
  <2>1. CASE monitor # NULL
    <3>1. [src |-> d, id |-> 0, kind |-> "exit"] \in BoxMessage
      BY <1>0 DEF BoxMessage
    <3> QED
      BY <1>7, <2>0, <2>1, <3>1, BoxAccept DEF Kill
  <2>2. CASE monitor = NULL
    BY <1>7, <2>0, <2>2, BoxStutter DEF Kill
  <2> QED
    BY <2>1, <2>2
<1>8. ASSUME NEW t \in Worker, SendRemote(t) PROVE [Box!Next]_boxVars
  <2>0. Alone(t) /\ t \in Thread
    BY <1>0, <1>8, AloneWorker DEF Command
  <2>1. PICK c \in Ctx : remote = c
    BY <1>0, <1>8 DEF TypeOK, SendRemote
  <2>2. Data(Sender(t)) \in BoxMessage
    BY <1>0, <1>8, InHand DEF SendRemote, Data, BoxMessage
  <2>3. LifeMap[c] \in {"open", "shut"} /\ LifeMap' = LifeMap
    <3>1. ref[c] # 0
      BY <1>0, <2>1, Counted
    <3> QED
      BY <1>8, <3>1, LifeSame DEF LifeFact, LifeMap, SendRemote
  <2>4. WayMap' = WayMap
    BY <1>8, <2>0, WaySame DEF SendRemote
  <2>5. queue' = [queue EXCEPT ![c] = Append(@, Data(Sender(t)))]
    BY <1>8, <2>1 DEF SendRemote, MqPush
  <2>6. Box!Forward(c)
    BY <2>2, <2>3, <2>4, <2>5 DEF Box!Forward, LifeMap, WayMap, BoxMessage
  <2> QED
    BY <2>6 DEF Box!Next
<1>9. ASSUME NEW t \in Worker, Retire(t) \/ FailRetire(t) \/ \E d \in Ctx : AbortVisit(t, d)
      PROVE  [Box!Next]_boxVars
  <2>0. Alone(t) /\ t \in Thread
    BY <1>0, <1>9, AloneWorker DEF Command
  <2>1. \E c : TakeOut(t, c) /\ sop[t] = "none" /\ UNCHANGED <<mem, release, queue>>
    BY <1>9 DEF Retire, FailRetire, AbortVisit
  <2> QED
    BY <2>0, <2>1, BoxShut
<1>10. ASSUME NEW t \in Worker, NEW c \in Ctx, Launch(t, c) PROVE [Box!Next]_boxVars
  <2>0. Alone(t) /\ t \in Thread
    BY <1>0, <1>10, AloneWorker DEF Command
  <2>1. /\ mem[c] = "none" /\ mem' = [mem EXCEPT ![c] = "live"] /\ slot' = slot \cup {c}
        /\ UNCHANGED <<queue, release, sop>> /\ sop[t] = "none"
    BY <1>10 DEF Launch, MqCreate
  <2>2. WayMap' = WayMap
    BY <2>0, <2>1, WaySame
  <2>3. LifeMap[c] = "new" /\ LifeMap' = [LifeMap EXCEPT ![c] = "open"]
    <3>1. Life(c) = "new" /\ Life(c)' = "open"
      BY <2>1 DEF LifeFact
    <3>2. ASSUME NEW d \in Ctx \ {c} PROVE Life(d)' = Life(d)
      BY <1>0, <2>1 DEF TypeOK, Life
    <3> QED
      BY <3>1, <3>2 DEF LifeMap
  <2>4. Box!Open(c)
    BY <2>1, <2>2, <2>3 DEF Box!Open, Box!Become, LifeMap, WayMap
  <2> QED
    BY <2>4 DEF Box!Next
<1>11. ASSUME NEW t \in Thread, DoRelease(t) \/ DoFree(t) PROVE UNCHANGED boxVars
  <2>1. Alone(t)
    BY <1>0, <1>11, AloneSub DEF SubStep
  <2>2. UNCHANGED <<queue, slot, release>> /\ sop[t] # "push" /\ sop'[t] # "push"
    BY <1>0, <1>11 DEF TypeOK, DoRelease, DoFree, EndSub
  <2>3. \A c \in Ctx : mem'[c] = "none" <=> mem[c] = "none"
    <3>1. CASE DoRelease(t)
      BY <3>1 DEF DoRelease
    <3>2. CASE DoFree(t)
      <4>1. sto[t] \in Ctx /\ mem[sto[t]] = "live"
        BY <1>0, <3>2 DEF TypeOK, Control, SubControl, DoFree, Deletion, Deletes
      <4> QED
        BY <1>0, <3>2, <4>1 DEF TypeOK, DoFree
    <3> QED
      BY <1>11, <3>1, <3>2
  <2> QED
    BY <2>1, <2>2, <2>3, BoxStutter
<1>12. ASSUME NEW t \in Worker,
             \/ Fetch(t) \/ Grab(t) \/ MqRelease(t) \/ FreeQueue(t) \/ PopEmpty(t) \/ Length(t)
             \/ Return(t) \/ NextQueue(t) \/ PushBack(t) \/ ReleaseCtx(t)
      PROVE  UNCHANGED boxVars
  <2>1. Alone(t) /\ t \in Thread
    BY <1>0, <1>12, AloneWorker DEF Dispatch
  <2>2. UNCHANGED <<queue, slot, release, mem>> /\ sop[t] # "push" /\ sop'[t] # "push"
    BY <1>0, <1>12 DEF TypeOK, Fetch, Grab, MqRelease, FreeQueue, PopEmpty, Length, Return,
       NextQueue, PushBack, ReleaseCtx, StartRelease
  <2> QED
    BY <2>1, <2>2, BoxStutter
<1>13. ASSUME NEW t \in Worker,
             \/ Abort(t) \/ AbortPass(t) \/ HarborStart(t) \/ InitOk(t) \/ SetInit(t)
             \/ PushNewQueue(t) \/ InitFail(t) \/ \E d \in Ctx : SetMonitor(t, d)
      PROVE  UNCHANGED boxVars
  <2>1. Alone(t) /\ t \in Thread
    BY <1>0, <1>13, AloneWorker DEF Command
  <2>2. UNCHANGED <<queue, slot, release, mem>> /\ sop[t] # "push" /\ sop'[t] # "push"
    BY <1>0, <1>13 DEF TypeOK, Abort, AbortPass, HarborStart, InitOk, SetInit, PushNewQueue,
       InitFail, SetMonitor, StartRelease
  <2> QED
    BY <2>1, <2>2, BoxStutter
<1>14. CASE UNCHANGED vars
  <2>1. WayMap' = WayMap
    BY <1>14 DEF vars, WayMap, Bringing
  <2> QED
    BY <1>14, <2>1, LifeSame DEF vars, boxVars
<1> QED
  BY <1>1, <1>2, <1>3, <1>4, <1>5, <1>6, <1>7, <1>8, <1>9, <1>10, <1>11, <1>12, <1>13, <1>14
     DEF Next, SubStep, Dispatch, Command

(* The node implements the mailboxes its services believe in: an accepted
   message gets into its box, in order, before the service can close, and is
   handled or refused, whatever launches, kills, aborts and releases race it,
   for every number of services, threads and messages.                     *)
THEOREM NodeIsMailbox == Spec => ImplementsMailbox
<1>1. ServerInv /\ LifeFact /\ LifeFact' /\ [Next]_vars
        => [Box!Next]_<<[c \in Ctx |-> Life(c)], queue, [t \in Thread |-> Bringing(t)]>>
  BY BoxStep DEF boxVars, LifeMap, WayMap
<1> QED
  BY <1>1, BoxInit, LifeMeans, ServerInvariant, PTL DEF Spec, ImplementsMailbox, Box!Spec
=============================================================================
