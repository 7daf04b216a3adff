------------------------ MODULE LuaScheduler_proofs --------------------------
(***************************************************************************)
(* The inductive invariant of LuaScheduler and the theorems that follow    *)
(* from it.  Three parts of it are about the tables of one service, one    *)
(* after the other: coroutines and sessions, requests and closures, and    *)
(* where control is.  The others relate services: a request has one place, *)
(* a service is reported down only when it is, and a caller that is parked *)
(* is owed a message.                                                      *)
(***************************************************************************)
EXTENDS LuaScheduler, FiniteSetTheorems, SequenceTheorems, TLAPS

(* Sessions are given out in order, and a session not given out is unused. *)
Numbered(v, n) ==
    /\ v.session_id <= n + 1
    /\ \A q \in Session : q > v.session_id => v.session_id_coroutine[q] = NULL

(* A coroutine waits under one session at most; the session of a call or of a
   sleep holds its coroutine, and is one or the other; a forked coroutine
   waits for nothing.                                                      *)
Parked(v) ==
    /\ \A q, p \in Session :
           v.session_id_coroutine[q] = v.session_id_coroutine[p] /\ q # p
           => v.session_id_coroutine[q] \in {NULL, BREAK}
    /\ \A q \in Session : v.watching_session[q] # NULL =>
           /\ v.session_id_coroutine[q] \in Co
           /\ \A c \in Co : v.sleep_session[c] # q
    /\ \A c \in Co : v.sleep_session[c] # 0 => v.session_id_coroutine[v.sleep_session[c]] = c
    /\ \A c \in v.fork_queue : \A q \in Session : v.session_id_coroutine[q] # c

(* What waits in error_queue are sessions of calls, returned or not. *)
Failing(v) ==
    \A i \in DOMAIN v.error_queue :
        /\ v.error_queue[i] <= v.session_id
        /\ v.session_id_coroutine[v.error_queue[i]] # BREAK
        /\ \A c \in Co : v.sleep_session[c] # v.error_queue[i]

(* A request is served by one coroutine, which answers it or leaves it to a
   closure.                                                                *)
Serving(v) ==
    /\ \A c \in v.session_response : v.session_coroutine[c] # NULL
    /\ \A r \in v.unresponse : r.session # 0
    /\ \A c, d \in Co :
           /\ v.session_coroutine[c] # NULL /\ v.session_coroutine[c] = v.session_coroutine[d]
           /\ c # d
           => v.session_coroutine[c].session = 0
    /\ \A c \in Co : Owes(v, c) => v.session_coroutine[c] \notin v.unresponse

ServedFor(v, a) ==
    {c \in Co : v.session_coroutine[c] # NULL /\ v.session_coroutine[c].src = a}

Watchers(v, a) == Cardinality(ServedFor(v, a)) + Cardinality(From(v.unresponse, a))

(* watching_service falls short of what it counts only for a source that was
   reported down (each TEST of a closure lowers it), and exceeds it only after
   an error has left a dispatch (the request of its coroutine stays counted). *)
Watched(v) ==
    \A a \in Svc :
        /\ a \notin v.dead_service => v.watching_service[a] >= Watchers(v, a)
        /\ ~ v.faulted => v.watching_service[a] <= Watchers(v, a)

Waiting(v, n) == Numbered(v, n) /\ Parked(v) /\ Failing(v)

Serves(v) == IsFiniteSet(v.unresponse) /\ Serving(v) /\ Watched(v)

(* Coroutine c is in no table of waiting ones. *)
Idle(v, c) == c \notin v.fork_queue /\ \A q \in Session : v.session_id_coroutine[q] # c

(* What wakeup_session holds are sleepers. *)
Awaited(v) == \A c \in v.wakeup_session : v.sleep_session[c] # 0

(* What each place of the dispatch loop has left to do. *)
Draining(v) ==
    /\ Awaited(v)
    /\ v.ph \in {"err", "fork", "idle"} => v.wakeup_session = {}
    /\ v.ph \in {"fork", "idle"} => v.error_queue = <<>>

(* The tables of one service; its running coroutine is in none of them. *)
Own(s) ==
    /\ Waiting(lua[s], nops[s]) /\ Serves(lua[s])
    /\ lua[s].run # NULL => Idle(lua[s], lua[s].run)
    /\ lua[s].ph = "err" => lua[s].error_queue # <<>>
    /\ alive[s] /\ ~ lua[s].faulted => Draining(lua[s])

OwnInv == \A s \in Svc : Own(s)

-----------------------------------------------------------------------------

Asks(m) == m.type \in {"req", "odd"}

ReqOf(m) == [src |-> m.src, session |-> m.session]

(* No coroutine and no closure has the request r of a call. *)
Unserved(v, r) ==
    r.session # 0 => r \notin v.unresponse /\ \A d \in Co : v.session_coroutine[d] # r

(* What is known of a message m queued for d: an answer has a session, only a
   service that is gone is reported down, and a request is nowhere else.   *)
MsgOK(m, d, L, A) ==
    /\ m.type = "resp" => m.session # 0
    /\ m.type = "err" /\ m.session = 0 => ~ A[m.src]
    /\ Asks(m) /\ m.session # 0 =>
          m.session <= L[m.src].session_id /\ Unserved(L[d], ReqOf(m))

(* A request of a call is queued once. *)
Once(q) ==
    \A i, j \in DOMAIN q :
        /\ Asks(q[i]) /\ q[i].session # 0
        /\ Asks(q[j]) /\ ReqOf(q[j]) = ReqOf(q[i])
        => i = j

(* The requests that v has were made by their sources. *)
Issued(v, L) ==
    /\ \A c \in Co : v.session_coroutine[c] # NULL =>
          v.session_coroutine[c].session <= L[v.session_coroutine[c].src].session_id
    /\ \A r \in v.unresponse : r.session <= L[r.src].session_id

BoxOK(b, L, A) ==
    \A d \in Svc :
        /\ Once(b[d])
        /\ \A i \in DOMAIN b[d] : MsgOK(b[d][i], d, L, A)
        /\ Issued(L[d], L)
        /\ \A a \in L[d].dead_service : ~ A[a]

(* A request of a call exists once: in the queue of its callee, in a coroutine
   or in a closure.                                                        *)
BoxInv == BoxOK(box, lua, alive)

(* m is the request of session q of s. *)
Asking(m, s, q) == Asks(m) /\ m.src = s /\ m.session = q

(* m resumes the caller of session q, whose callee is d. *)
Telling(m, q, d) ==
    \/ m.type \in {"resp", "err"} /\ m.session = q
    \/ m.type = "err" /\ m.session = 0 /\ m.src = d

(* A message or a queued error that resumes the caller of session q. *)
Coming(s, q) ==
    LET d == Callee(s, q) IN
    \/ \E i \in DOMAIN box[d] : Asking(box[d][i], s, q)
    \/ \E i \in DOMAIN box[s] : Telling(box[s][i], q, d)
    \/ \E i \in DOMAIN lua[s].error_queue : lua[s].error_queue[i] = q

(* Service d has the request and has not yet reported its exit. *)
Holds(v, r) ==
    /\ v.ph # "exit"
    /\ \/ r \in v.unresponse
       \/ \E c \in Co : Owes(v, c) /\ v.session_coroutine[c] = r

Held(d, r) == alive[d] /\ Holds(lua[d], r)

(* A caller by handle is owed something that comes, or that its callee holds. *)
CallInv ==
    \A s \in Svc : \A q \in Session :
        InCall(s, q) /\ ~ Excused(s, q) /\ Callee(s, q) \notin ByName
        => Coming(s, q) \/ Held(Callee(s, q), [src |-> s, session |-> q])

LuaInv == TypeOK /\ OwnInv /\ BoxInv

-----------------------------------------------------------------------------
(* Where control goes *)

(* u differs from v only in where control is. *)
SameTables(u, v) ==
    /\ u.dispatch = v.dispatch
    /\ u.left = v.left
    /\ u.session_id = v.session_id
    /\ u.session_id_coroutine = v.session_id_coroutine
    /\ u.session_coroutine = v.session_coroutine
    /\ u.session_response = v.session_response
    /\ u.closures = v.closures
    /\ u.unresponse = v.unresponse
    /\ u.wakeup_session = v.wakeup_session
    /\ u.sleep_session = v.sleep_session
    /\ u.waiting = v.waiting
    /\ u.watching_service = v.watching_service
    /\ u.watching_session = v.watching_session
    /\ u.dead_service = v.dead_service
    /\ u.error_queue = v.error_queue
    /\ u.fork_queue = v.fork_queue

(* The fork loop, or the end of the message. *)
LEMMA ToForkControl ==
    ASSUME NEW v \in LuaState, NEW u, u = ToFork(v)
    PROVE  /\ u \in LuaState /\ SameTables(u, v) /\ u.faulted = v.faulted
           /\ u.run = NULL /\ u.ph \in {"fork", "idle"}
<1>1. PICK p \in {"fork", "idle"} : u = [v EXCEPT !.run = NULL, !.errs = 0, !.ph = p]
  BY DEF ToFork
<1>2. u \in LuaState
  <2>1. 0 \in Nat
    OBVIOUS
  <2> QED
    BY <1>1, <2>1 DEF LuaState
<1>3. SameTables(u, v) /\ u.faulted = v.faulted
  BY <1>1 DEF LuaState, SameTables
<1>4. u.run = NULL /\ u.ph \in {"fork", "idle"}
  BY <1>1 DEF LuaState
<1> QED
  BY <1>2, <1>3, <1>4

(* dispatch_error_queue, and on when there is nothing for it. *)
LEMMA ToErrorControl ==
    ASSUME NEW v \in LuaState, NEW u, u = ToError(v)
    PROVE  /\ u \in LuaState /\ SameTables(u, v) /\ u.faulted = v.faulted
           /\ u.run = NULL /\ u.ph \in {"err", "fork", "idle"}
           /\ u.ph \in {"fork", "idle"} <=> v.error_queue = <<>>
<1>1. CASE v.error_queue = <<>>
  <2>1. u = ToFork(v)
    BY <1>1 DEF ToError
  <2> QED
    BY <1>1, <2>1, ToForkControl
<1>2. CASE v.error_queue # <<>>
  <2>1. u = [v EXCEPT !.run = NULL, !.ph = "err"]
    BY <1>2 DEF ToError
  <2>2. u \in LuaState
    BY <2>1 DEF LuaState
  <2>3. SameTables(u, v) /\ u.faulted = v.faulted
    BY <2>1 DEF LuaState, SameTables
  <2>4. u.run = NULL /\ u.ph = "err"
    BY <2>1 DEF LuaState
  <2> QED
    BY <1>2, <2>2, <2>3, <2>4
<1> QED
  BY <1>1, <1>2

(* The end of suspend: dispatch_wakeup, and on when there is nothing for it. *)
LEMMA YieldControl ==
    ASSUME NEW v \in LuaState, NEW u, u = Yield(v)
    PROVE  /\ u \in LuaState /\ SameTables(u, v) /\ u.faulted = v.faulted
           /\ u.run = NULL /\ u.ph \in {"wake", "err", "fork", "idle"}
           /\ u.ph \in {"err", "fork", "idle"} => v.wakeup_session = {}
           /\ u.ph \in {"fork", "idle"} => v.error_queue = <<>>
           /\ u.ph = "err" => v.error_queue # <<>>
<1>1. CASE v.wakeup_session = {}
  <2>1. u = ToError(v)
    BY <1>1 DEF Yield, ToWakeup
  <2> QED
    BY <1>1, <2>1, ToErrorControl
<1>2. CASE v.wakeup_session # {}
  <2>1. u = [v EXCEPT !.run = NULL, !.ph = "wake"]
    BY <1>2 DEF Yield, ToWakeup
  <2>2. u \in LuaState
    BY <2>1 DEF LuaState
  <2>3. SameTables(u, v) /\ u.faulted = v.faulted
    BY <2>1 DEF LuaState, SameTables
  <2>4. u.run = NULL /\ u.ph = "wake"
    BY <2>1 DEF LuaState
  <2> QED
    BY <2>2, <2>3, <2>4
<1> QED
  BY <1>1, <1>2

(* An error leaves the dispatch. *)
LEMMA RaiseControl ==
    ASSUME NEW v \in LuaState, NEW u, u = Raise(v)
    PROVE  /\ u \in LuaState /\ SameTables(u, v) /\ u.faulted
           /\ u.run = NULL /\ u.ph \in {"fork", "idle"}
<1>1. PICK w : w = [v EXCEPT !.faulted = TRUE]
  OBVIOUS
<1>2. w \in LuaState /\ SameTables(w, v) /\ w.faulted
  BY <1>1 DEF LuaState, SameTables
<1>3. u = ToFork(w)
  BY <1>1 DEF Raise
<1>4. /\ u \in LuaState /\ SameTables(u, w) /\ u.faulted = w.faulted
      /\ u.run = NULL /\ u.ph \in {"fork", "idle"}
  BY <1>2, <1>3, ToForkControl
<1>5. SameTables(u, v)
  BY <1>2, <1>4 DEF SameTables
<1> QED
  BY <1>2, <1>4, <1>5

(* A coroutine is resumed. *)
LEMMA ResumeControl ==
    ASSUME NEW v \in LuaState, NEW c \in Co, NEW u, u = Resume(v, c)
    PROVE  /\ u \in LuaState /\ SameTables(u, v) /\ u.faulted = v.faulted
           /\ u.run = c /\ u.ph = "run"
<1>1. u = [v EXCEPT !.ph = "run", !.run = c]
  BY DEF Resume
<1>2. u \in LuaState
  BY <1>1 DEF LuaState
<1>3. SameTables(u, v) /\ u.faulted = v.faulted
  BY <1>1 DEF LuaState, SameTables
<1>4. u.run = c /\ u.ph = "run"
  BY <1>1 DEF LuaState
<1> QED
  BY <1>2, <1>3, <1>4

-----------------------------------------------------------------------------
(* Sessions and coroutines *)

(* The tables of waiting coroutines are as they were. *)
SameWaiting(u, v) ==
    /\ u.session_id = v.session_id
    /\ u.session_id_coroutine = v.session_id_coroutine
    /\ u.sleep_session = v.sleep_session
    /\ u.watching_session = v.watching_session
    /\ u.error_queue = v.error_queue
    /\ u.fork_queue = v.fork_queue

(* Steps that leave these tables alone. *)
LEMMA WaitingKept ==
    ASSUME NEW v, NEW n \in Nat, NEW m \in {n, n + 1}, Waiting(v, n), v \in LuaState,
           NEW u, SameWaiting(u, v)
    PROVE  Waiting(u, m)
<1>1. Numbered(u, m)
  <2>1. v.session_id \in Nat
    BY DEF LuaState
  <2>2. v.session_id <= m + 1
    BY <2>1 DEF Waiting, Numbered
  <2> QED
    BY <2>2 DEF Waiting, Numbered, SameWaiting
<1>2. Parked(u)
  BY DEF Waiting, Parked, SameWaiting
<1>3. Failing(u)
  BY DEF Waiting, Failing, SameWaiting
<1> QED
  BY <1>1, <1>2, <1>3 DEF Waiting

(* A session not yet given out, and the next one. *)
LEMMA NextSession ==
    ASSUME NEW v \in LuaState, NEW n \in Nat, Waiting(v, n), n < MaxOp,
           NEW q, q = v.session_id + 1
    PROVE  /\ q \in Session /\ q \in Nat /\ q # 0
           /\ v.session_id_coroutine[q] = NULL /\ v.watching_session[q] = NULL
           /\ \A c \in Co : v.sleep_session[c] # q
           /\ \A i \in DOMAIN v.error_queue : v.error_queue[i] # q
<1>1. v.session_id \in Nat
  BY DEF LuaState
<1>2. v.session_id <= n + 1
  BY DEF Waiting, Numbered
<1>3. q \in Session /\ q \in Nat /\ q # 0
  BY <1>1, <1>2, LuaAssumption DEF Session
<1>4. v.session_id_coroutine[q] = NULL
  BY <1>1, <1>3 DEF Waiting, Numbered
<1>5. NULL \notin Co
  BY LuaAssumption
<1>6. v.watching_session[q] = NULL
  BY <1>3, <1>4, <1>5 DEF Waiting, Parked
<1>7. \A c \in Co : v.sleep_session[c] # q
  BY <1>3, <1>4, <1>5 DEF Waiting, Parked
<1>8. ASSUME NEW i \in DOMAIN v.error_queue PROVE v.error_queue[i] # q
  <2>1. v.error_queue[i] <= v.session_id
    BY DEF Waiting, Failing
  <2> QED
    BY <1>1, <2>1
<1> QED
  BY <1>3, <1>4, <1>6, <1>7, <1>8

(* What it parks for: nothing that is recorded, a sleep or a call. *)
ParksFor(u, v, q, c) ==
    \/ u.sleep_session = v.sleep_session /\ u.watching_session = v.watching_session
    \/ /\ u.sleep_session = [v.sleep_session EXCEPT ![c] = q]
       /\ u.watching_session = v.watching_session
    \/ /\ u.sleep_session = v.sleep_session
       /\ \E d \in Svc : u.watching_session = [v.watching_session EXCEPT ![q] = d]

(* Coroutine c parks under a new session, in a call, a sleep or until a timer. *)
LEMMA ParkWaiting ==
    ASSUME NEW v \in LuaState, NEW n \in Nat, Waiting(v, n), n < MaxOp,
           NEW q, q = v.session_id + 1, NEW c \in Co, Idle(v, c),
           NEW u, u.session_id = q,
           u.session_id_coroutine = [v.session_id_coroutine EXCEPT ![q] = c],
           u.error_queue = v.error_queue, u.fork_queue = v.fork_queue,
           ParksFor(u, v, q, c)
    PROVE  Waiting(u, n + 1)
<1>1. /\ q \in Session /\ q \in Nat /\ q # 0
      /\ v.session_id_coroutine[q] = NULL /\ v.watching_session[q] = NULL
      /\ \A e \in Co : v.sleep_session[e] # q
      /\ \A i \in DOMAIN v.error_queue : v.error_queue[i] # q
  BY NextSession
<1>2. /\ v.session_id_coroutine \in [Session -> Co \cup {NULL, BREAK}]
      /\ v.sleep_session \in [Co -> {0} \cup Session]
      /\ v.watching_session \in [Session -> Svc \cup {NULL}]
      /\ v.session_id \in Nat /\ v.fork_queue \subseteq Co /\ v.error_queue \in Seq(Session)
  BY DEF LuaState
<1>3. NULL \notin Co /\ BREAK \notin Co /\ NULL \notin Svc
  BY LuaAssumption
<1>4. \A p \in Session : u.session_id_coroutine[p] = IF p = q THEN c ELSE v.session_id_coroutine[p]
  BY <1>1, <1>2
<1>5. Numbered(u, n + 1)
  <2>1. q <= n + 1 + 1
    BY <1>2 DEF Waiting, Numbered
  <2>2. \A p \in Session : p > q => p # q /\ p > v.session_id
    BY <1>2 DEF Session
  <2> QED
    BY <1>4, <2>1, <2>2 DEF Waiting, Numbered
<1>6. \A e \in Co : u.sleep_session[e] = v.sleep_session[e] \/ (e = c /\ u.sleep_session[e] = q)
  BY <1>2 DEF ParksFor
<1>7. \A p \in Session : u.watching_session[p] = v.watching_session[p]
                         \/ (p = q /\ u.sleep_session = v.sleep_session)
  BY <1>1, <1>2 DEF ParksFor
<1>8. \A p \in Session : v.session_id_coroutine[p] # c
  BY DEF Idle
<1>9. \A e \in Co : v.sleep_session[e] # 0 => v.sleep_session[e] \in Session \ {q}
  BY <1>1, <1>2
<1>10. Parked(u)
  <2>1. ASSUME NEW p \in Session, NEW r \in Session, p # r,
               u.session_id_coroutine[p] = u.session_id_coroutine[r]
        PROVE  u.session_id_coroutine[p] \in {NULL, BREAK}
    BY <1>4, <1>8, <2>1 DEF Waiting, Parked
  <2>2. ASSUME NEW p \in Session, u.watching_session[p] # NULL
        PROVE  /\ u.session_id_coroutine[p] \in Co
               /\ \A e \in Co : u.sleep_session[e] # p
    <3>1. CASE p = q
      <4>1. u.session_id_coroutine[p] = c
        BY <1>4, <3>1
      <4>2. u.sleep_session = v.sleep_session
        BY <1>1, <1>7, <2>2, <3>1
      <4> QED
        BY <1>1, <3>1, <4>1, <4>2
    <3>2. CASE p # q
      <4>1. v.watching_session[p] # NULL /\ u.session_id_coroutine[p] = v.session_id_coroutine[p]
        BY <1>4, <1>7, <2>2, <3>2
      <4>2. v.session_id_coroutine[p] \in Co /\ \A e \in Co : v.sleep_session[e] # p
        BY <4>1 DEF Waiting, Parked
      <4> QED
        BY <1>6, <3>2, <4>1, <4>2
    <3> QED
      BY <3>1, <3>2
  <2>3. ASSUME NEW e \in Co, u.sleep_session[e] # 0
        PROVE  u.session_id_coroutine[u.sleep_session[e]] = e
    <3>1. CASE u.sleep_session[e] = v.sleep_session[e]
      BY <1>4, <1>9, <2>3, <3>1 DEF Waiting, Parked
    <3>2. CASE e = c /\ u.sleep_session[e] = q
      BY <1>1, <1>4, <3>2
    <3> QED
      BY <1>6, <3>1, <3>2
  <2>4. ASSUME NEW e \in u.fork_queue, NEW p \in Session PROVE u.session_id_coroutine[p] # e
    BY <1>4, <2>4 DEF Idle, Waiting, Parked
  <2> QED
    BY <2>1, <2>2, <2>3, <2>4 DEF Parked
<1>11. ASSUME NEW i \in DOMAIN u.error_queue
       PROVE  /\ u.error_queue[i] <= u.session_id
              /\ u.session_id_coroutine[u.error_queue[i]] # BREAK
              /\ \A e \in Co : u.sleep_session[e] # u.error_queue[i]
  <2>1. PICK p \in Session : p = v.error_queue[i] /\ p # q
    <3>1. i \in DOMAIN v.error_queue
      OBVIOUS
    <3>2. v.error_queue[i] \in Session
      BY <1>2, <3>1
    <3> QED
      BY <1>1, <3>1, <3>2
  <2>2. p <= v.session_id /\ v.session_id_coroutine[p] # BREAK /\ \A e \in Co : v.sleep_session[e] # p
    BY <2>1 DEF Waiting, Failing
  <2>3. p \in Nat
    BY LuaAssumption DEF Session
  <2>4. p <= q
    BY <1>2, <2>2, <2>3
  <2> QED
    BY <1>4, <1>6, <2>1, <2>2, <2>4
<1> QED
  BY <1>5, <1>10, <1>11 DEF Waiting, Failing

(* The coroutine parked under session q is taken out: by the answer, by the
   timer, by a wakeup (which leaves BREAK for the timer), or by an error.  *)
Unparks(u, v, q, c, x) ==
    /\ v.session_id_coroutine[q] = c
    /\ x = BREAK => v.sleep_session[c] = q
    /\ u.session_id = v.session_id
    /\ u.session_id_coroutine = [v.session_id_coroutine EXCEPT ![q] = x]
    /\ u.sleep_session = [v.sleep_session EXCEPT ![c] = 0]
    /\ u.watching_session = [v.watching_session EXCEPT ![q] = NULL]
    /\ u.error_queue \in Seq(Session)
    /\ \A i \in DOMAIN u.error_queue :
          \E j \in DOMAIN v.error_queue : u.error_queue[i] = v.error_queue[j]
    /\ u.fork_queue = v.fork_queue

(* It is then in no table. *)
LEMMA UnparkWaiting ==
    ASSUME NEW v \in LuaState, NEW n, Waiting(v, n),
           NEW q \in Session, NEW c \in Co, NEW x \in {NULL, BREAK},
           NEW u, Unparks(u, v, q, c, x)
    PROVE  Waiting(u, n) /\ Idle(u, c)
<1> USE DEF Unparks
<1>1. /\ v.session_id_coroutine \in [Session -> Co \cup {NULL, BREAK}]
      /\ v.sleep_session \in [Co -> {0} \cup Session]
      /\ v.watching_session \in [Session -> Svc \cup {NULL}]
      /\ v.session_id \in Nat /\ v.fork_queue \subseteq Co /\ v.error_queue \in Seq(Session)
  BY DEF LuaState
<1>2. NULL \notin Co /\ BREAK \notin Co
  BY LuaAssumption
<1>3. \A p \in Session : u.session_id_coroutine[p] = IF p = q THEN x ELSE v.session_id_coroutine[p]
  BY <1>1
<1>4. \A p \in Session : u.watching_session[p] = IF p = q THEN NULL ELSE v.watching_session[p]
  BY <1>1
<1>5. \A e \in Co : u.sleep_session[e] = IF e = c THEN 0 ELSE v.sleep_session[e]
  BY <1>1
<1>6. Numbered(u, n)
  <2>1. \A p \in Session : p > v.session_id => p # q
    BY <1>2 DEF Waiting, Numbered
  <2> QED
    BY <1>3, <2>1 DEF Waiting, Numbered
<1>7. \A p \in Session : p # q => v.session_id_coroutine[p] # c
  BY <1>2 DEF Waiting, Parked
<1>8. 0 \notin Session
  BY DEF Session
<1>9. Parked(u)
  <2>1. ASSUME NEW p \in Session, NEW r \in Session, p # r,
               u.session_id_coroutine[p] = u.session_id_coroutine[r]
        PROVE  u.session_id_coroutine[p] \in {NULL, BREAK}
    BY <1>3, <2>1 DEF Waiting, Parked
  <2>2. ASSUME NEW p \in Session, u.watching_session[p] # NULL
        PROVE  /\ u.session_id_coroutine[p] \in Co
               /\ \A e \in Co : u.sleep_session[e] # p
    BY <1>3, <1>4, <1>5, <1>8, <2>2 DEF Waiting, Parked
  <2>3. ASSUME NEW e \in Co, u.sleep_session[e] # 0
        PROVE  u.session_id_coroutine[u.sleep_session[e]] = e
    <3>1. e # c /\ u.sleep_session[e] = v.sleep_session[e]
      BY <1>5, <2>3
    <3>2. v.sleep_session[e] \in Session /\ v.session_id_coroutine[v.sleep_session[e]] = e
      BY <1>1, <2>3, <3>1 DEF Waiting, Parked
    <3> QED
      BY <1>3, <3>1, <3>2
  <2>4. ASSUME NEW e \in u.fork_queue, NEW p \in Session PROVE u.session_id_coroutine[p] # e
    BY <1>1, <1>2, <1>3, <2>4 DEF Waiting, Parked
  <2> QED
    BY <2>1, <2>2, <2>3, <2>4 DEF Parked
<1>10. ASSUME NEW i \in DOMAIN u.error_queue
       PROVE  /\ u.error_queue[i] <= u.session_id
              /\ u.session_id_coroutine[u.error_queue[i]] # BREAK
              /\ \A e \in Co : u.sleep_session[e] # u.error_queue[i]
  <2>1. PICK j \in DOMAIN v.error_queue : u.error_queue[i] = v.error_queue[j]
    OBVIOUS
  <2>2. PICK p \in Session : p = v.error_queue[j]
    BY <1>1
  <2>3. p <= v.session_id /\ v.session_id_coroutine[p] # BREAK /\ \A e \in Co : v.sleep_session[e] # p
    BY <2>2 DEF Waiting, Failing
  <2>4. u.session_id_coroutine[p] # BREAK
    BY <1>2, <1>3, <2>3
  <2> QED
    BY <1>5, <1>8, <2>1, <2>2, <2>3, <2>4
<1>11. Idle(u, c)
  BY <1>2, <1>3, <1>7 DEF Idle, Waiting, Parked
<1> QED
  BY <1>6, <1>9, <1>10, <1>11 DEF Waiting, Failing

-----------------------------------------------------------------------------
(* Requests, closures and the count of watchers *)

SameServing(u, v) ==
    /\ u.session_coroutine = v.session_coroutine
    /\ u.session_response = v.session_response
    /\ u.unresponse = v.unresponse
    /\ u.watching_service = v.watching_service
    /\ v.dead_service \subseteq u.dead_service

(* Steps that leave these tables alone. *)
LEMMA ServesKept ==
    ASSUME NEW v, Serves(v), NEW u, SameServing(u, v), u.faulted \/ u.faulted = v.faulted
    PROVE  Serves(u)
<1>1. Serving(u)
  BY DEF Serves, Serving, SameServing, Owes
<1>2. \A a \in Svc : Watchers(u, a) = Watchers(v, a)
  BY DEF SameServing, Watchers, ServedFor
<1>3. Watched(u)
  BY <1>2 DEF Serves, Watched, SameServing
<1> QED
  BY <1>1, <1>3 DEF Serves, SameServing

(* The two sets that are counted are finite. *)
LEMMA WatchersFinite ==
    ASSUME NEW v, IsFiniteSet(v.unresponse), NEW a
    PROVE  /\ IsFiniteSet(ServedFor(v, a)) /\ Cardinality(ServedFor(v, a)) \in Nat
           /\ IsFiniteSet(From(v.unresponse, a)) /\ Cardinality(From(v.unresponse, a)) \in Nat
<1>1. IsFiniteSet(Co)
  BY LuaAssumption, FS_Interval DEF Co
<1>2. ServedFor(v, a) \subseteq Co
  BY DEF ServedFor
<1>3. From(v.unresponse, a) \subseteq v.unresponse
  BY DEF From
<1>4. IsFiniteSet(ServedFor(v, a)) /\ IsFiniteSet(From(v.unresponse, a))
  BY <1>1, <1>2, <1>3, FS_Subset
<1> QED
  BY <1>4, FS_CardinalityType

(* A request is given to a coroutine. *)
Starts(u, v, c, r) ==
    /\ u.session_coroutine = [v.session_coroutine EXCEPT ![c] = r]
    /\ u.session_response = v.session_response /\ u.unresponse = v.unresponse
    /\ u.watching_service = [v.watching_service EXCEPT ![r.src] = @ + 1]
    /\ u.dead_service = v.dead_service /\ u.faulted = v.faulted

(* One that serves none is given a request. *)
LEMMA TakeServes ==
    ASSUME NEW v \in LuaState, Serves(v), NEW c \in Co, v.session_coroutine[c] = NULL,
           NEW r \in Request, r # NULL, Unserved(v, r), NEW u, Starts(u, v, c, r)
    PROVE  Serves(u)
<1> USE DEF Unserved, Starts
<1>1. /\ v.session_coroutine \in [Co -> Request \cup {NULL}] /\ r.src \in Svc
      /\ v.watching_service \in [Svc -> Nat] /\ v.session_response \subseteq Co
  BY DEF LuaState, Request
<1>2. \A d \in Co : u.session_coroutine[d] = IF d = c THEN r ELSE v.session_coroutine[d]
  BY <1>1
<1>3. c \notin v.session_response
  BY DEF Serves, Serving
<1>4. Serving(u)
  <2>1. \A d \in u.session_response : u.session_coroutine[d] # NULL
    BY <1>1, <1>2, <1>3 DEF Serves, Serving
  <2>2. \A d, e \in Co :
           /\ u.session_coroutine[d] # NULL /\ u.session_coroutine[d] = u.session_coroutine[e]
           /\ d # e
           => u.session_coroutine[d].session = 0
    BY <1>2 DEF Serves, Serving
  <2>3. \A d \in Co : Owes(u, d) => u.session_coroutine[d] \notin u.unresponse
    BY <1>2 DEF Serves, Serving, Owes
  <2> QED
    BY <2>1, <2>2, <2>3 DEF Serves, Serving
<1>5. ASSUME NEW a \in Svc
      PROVE  /\ a \notin u.dead_service => u.watching_service[a] >= Watchers(u, a)
             /\ ~ u.faulted => u.watching_service[a] <= Watchers(u, a)
  <2>1. /\ IsFiniteSet(ServedFor(v, a)) /\ Cardinality(ServedFor(v, a)) \in Nat
        /\ Cardinality(From(v.unresponse, a)) \in Nat
    BY WatchersFinite DEF Serves
  <2>2. /\ a \notin v.dead_service => v.watching_service[a] >= Watchers(v, a)
        /\ ~ v.faulted => v.watching_service[a] <= Watchers(v, a)
    BY DEF Serves, Watched
  <2>3. v.watching_service[a] \in Nat
    BY <1>1
  <2>4. CASE a = r.src
    <3>1. ServedFor(u, a) = ServedFor(v, a) \cup {c} /\ c \notin ServedFor(v, a)
      BY <1>2, <2>4 DEF ServedFor
    <3>2. Cardinality(ServedFor(u, a)) = Cardinality(ServedFor(v, a)) + 1
      BY <2>1, <3>1, FS_AddElement
    <3>3. u.watching_service[a] = v.watching_service[a] + 1
      BY <1>1, <2>4
    <3> QED
      BY <2>1, <2>2, <2>3, <3>2, <3>3 DEF Watchers
  <2>5. CASE a # r.src
    <3>1. ServedFor(u, a) = ServedFor(v, a)
      BY <1>2, <2>5 DEF ServedFor
    <3>2. u.watching_service[a] = v.watching_service[a]
      BY <1>1, <2>5
    <3> QED
      BY <2>2, <3>1, <3>2 DEF Watchers
  <2> QED
    BY <2>4, <2>5
<1> QED
  BY <1>4, <1>5 DEF Serves, Watched

(* skynet.ret: the request is answered. *)
LEMMA RetServes ==
    ASSUME NEW v \in LuaState, Serves(v), NEW c \in Co, v.session_coroutine[c] # NULL,
           NEW u, u.session_coroutine = v.session_coroutine,
           u.session_response = v.session_response \cup {c}, u.unresponse = v.unresponse,
           u.watching_service = v.watching_service, u.dead_service = v.dead_service,
           u.faulted = v.faulted
    PROVE  Serves(u)
<1>1. Serving(u)
  BY DEF Serves, Serving, Owes
<1>2. \A a \in Svc : Watchers(u, a) = Watchers(v, a)
  BY DEF Watchers, ServedFor
<1> QED
  BY <1>1, <1>2 DEF Serves, Watched

(* skynet.response: the request is left to a closure. *)
LEMMA ResponseServes ==
    ASSUME NEW v \in LuaState, Serves(v), NEW c \in Co, Owes(v, c),
           NEW r, r = v.session_coroutine[c],
           NEW u, u.session_coroutine = v.session_coroutine,
           u.session_response = v.session_response \cup {c},
           u.unresponse = v.unresponse \cup {r},
           u.watching_service = [v.watching_service EXCEPT ![r.src] = @ + 1],
           u.dead_service = v.dead_service, u.faulted = v.faulted
    PROVE  Serves(u)
<1>1. /\ r \in Request /\ r.src \in Svc /\ r.session # 0 /\ r \notin v.unresponse
      /\ v.watching_service \in [Svc -> Nat]
  BY DEF LuaState, Owes, Request, Serves, Serving
<1>2. IsFiniteSet(u.unresponse)
  BY FS_AddElement DEF Serves
<1>3. Serving(u)
  <2>1. \A d \in u.session_response : u.session_coroutine[d] # NULL
    BY DEF Serves, Serving, Owes
  <2>2. \A p \in u.unresponse : p.session # 0
    BY <1>1 DEF Serves, Serving
  <2>3. \A d \in Co : Owes(u, d) => u.session_coroutine[d] \notin u.unresponse
    BY <1>1 DEF Serves, Serving, Owes
  <2> QED
    BY <2>1, <2>2, <2>3 DEF Serves, Serving
<1>4. ASSUME NEW a \in Svc
      PROVE  /\ a \notin u.dead_service => u.watching_service[a] >= Watchers(u, a)
             /\ ~ u.faulted => u.watching_service[a] <= Watchers(u, a)
  <2>1. /\ Cardinality(ServedFor(v, a)) \in Nat
        /\ IsFiniteSet(From(v.unresponse, a)) /\ Cardinality(From(v.unresponse, a)) \in Nat
    BY WatchersFinite DEF Serves
  <2>2. /\ a \notin v.dead_service => v.watching_service[a] >= Watchers(v, a)
        /\ ~ v.faulted => v.watching_service[a] <= Watchers(v, a)
    BY DEF Serves, Watched
  <2>3. v.watching_service[a] \in Nat
    BY <1>1
  <2>4. ServedFor(u, a) = ServedFor(v, a)
    BY DEF ServedFor
  <2>5. CASE a = r.src
    <3>1. From(u.unresponse, a) = From(v.unresponse, a) \cup {r} /\ r \notin From(v.unresponse, a)
      BY <1>1, <2>5 DEF From
    <3>2. Cardinality(From(u.unresponse, a)) = Cardinality(From(v.unresponse, a)) + 1
      <4>1. PICK F : F = From(v.unresponse, a)
        OBVIOUS
      <4>2. Cardinality(F \cup {r}) = Cardinality(F) + 1
        BY <2>1, <3>1, <4>1, FS_AddElement
      <4> QED
        BY <3>1, <4>1, <4>2
    <3>3. u.watching_service[a] = v.watching_service[a] + 1
      BY <1>1, <2>5
    <3> QED
      BY <2>1, <2>2, <2>3, <2>4, <3>2, <3>3 DEF Watchers
  <2>6. CASE a # r.src
    <3>1. From(u.unresponse, a) = From(v.unresponse, a)
      BY <2>6 DEF From
    <3>2. u.watching_service[a] = v.watching_service[a]
      BY <1>1, <2>6
    <3> QED
      BY <2>2, <2>4, <3>1, <3>2 DEF Watchers
  <2> QED
    BY <2>5, <2>6
<1> QED
  BY <1>2, <1>3, <1>4 DEF Serves, Watched

(* The closure of a request answers, or finds that its source is dead. *)
LEMMA AnswerServes ==
    ASSUME NEW v \in LuaState, Serves(v), NEW r \in Request,
           r \in v.unresponse \/ r.src \in v.dead_service,
           NEW u, u.session_coroutine = v.session_coroutine,
           u.session_response = v.session_response,
           u.unresponse = v.unresponse \ {r},
           u.watching_service = [v.watching_service EXCEPT ![r.src] = Released(v, 1, r.src)],
           u.dead_service = v.dead_service, u.faulted = v.faulted
    PROVE  Serves(u)
<1>1. r.src \in Svc /\ v.watching_service \in [Svc -> Nat]
  BY DEF LuaState, Request
<1>2. IsFiniteSet(u.unresponse)
  BY FS_RemoveElement DEF Serves
<1>3. Serving(u)
  BY DEF Serves, Serving, Owes
<1>4. ASSUME NEW a \in Svc
      PROVE  /\ a \notin u.dead_service => u.watching_service[a] >= Watchers(u, a)
             /\ ~ u.faulted => u.watching_service[a] <= Watchers(u, a)
  <2>1. /\ Cardinality(ServedFor(v, a)) \in Nat
        /\ IsFiniteSet(From(v.unresponse, a)) /\ Cardinality(From(v.unresponse, a)) \in Nat
    BY WatchersFinite DEF Serves
  <2>2. /\ a \notin v.dead_service => v.watching_service[a] >= Watchers(v, a)
        /\ ~ v.faulted => v.watching_service[a] <= Watchers(v, a)
    BY DEF Serves, Watched
  <2>3. v.watching_service[a] \in Nat
    BY <1>1
  <2>4. ServedFor(u, a) = ServedFor(v, a)
    BY DEF ServedFor
  <2>5. CASE a = r.src /\ r \in v.unresponse
    <3>1. From(u.unresponse, a) = From(v.unresponse, a) \ {r} /\ r \in From(v.unresponse, a)
      BY <2>5 DEF From
    <3>2. Cardinality(From(u.unresponse, a)) = Cardinality(From(v.unresponse, a)) - 1
      <4>1. PICK F : F = From(v.unresponse, a)
        OBVIOUS
      <4>2. Cardinality(F \ {r}) = Cardinality(F) - 1
        BY <2>1, <3>1, <4>1, FS_RemoveElement
      <4> QED
        BY <3>1, <4>1, <4>2
    <3>3. Cardinality(From(v.unresponse, a)) # 0
      BY <2>1, <3>1, FS_EmptySet
    <3>4. u.watching_service[a] =
             IF v.watching_service[a] > 0 THEN v.watching_service[a] - 1 ELSE 0
      BY <1>1, <2>3, <2>5 DEF Released
    <3> QED
      BY <2>1, <2>2, <2>3, <2>4, <3>2, <3>3, <3>4 DEF Watchers
  <2>7. CASE a = r.src /\ r \notin v.unresponse
    <3>1. u.unresponse = v.unresponse /\ a \in u.dead_service
      BY <2>7
    <3>2. u.watching_service[a] <= v.watching_service[a]
      BY <1>1, <2>3, <2>7 DEF Released
    <3>3. Watchers(u, a) = Watchers(v, a)
      BY <2>4, <3>1 DEF Watchers
    <3>4. u.watching_service[a] \in Nat
      BY <1>1, <2>3, <2>7 DEF Released
    <3>5. Watchers(v, a) \in Nat
      BY <2>1 DEF Watchers
    <3> QED
      BY <2>2, <2>3, <3>1, <3>2, <3>3, <3>4, <3>5
  <2>6. CASE a # r.src
    <3>1. From(u.unresponse, a) = From(v.unresponse, a)
      BY <2>6 DEF From
    <3>2. u.watching_service[a] = v.watching_service[a]
      BY <1>1, <2>6
    <3> QED
      BY <2>2, <2>4, <3>1, <3>2 DEF Watchers
  <2> QED
    BY <2>5, <2>6, <2>7
<1> QED
  BY <1>2, <1>3, <1>4 DEF Serves, Watched

(* A coroutine ends: its request is not watched any more, unless it failed. *)
LEMMA FinishServes ==
    ASSUME NEW v \in LuaState, Serves(v), NEW c \in Co, NEW r, r = v.session_coroutine[c],
           NEW u, u.session_coroutine = [v.session_coroutine EXCEPT ![c] = NULL],
           u.session_response = v.session_response \ {c}, u.unresponse = v.unresponse,
           u.dead_service = v.dead_service,
           \/ u.faulted /\ u.watching_service = v.watching_service
           \/ r = NULL /\ u.watching_service = v.watching_service /\ u.faulted = v.faulted
           \/ /\ r # NULL /\ u.faulted = v.faulted
              /\ u.watching_service = [v.watching_service EXCEPT ![r.src] = Released(v, 1, r.src)]
    PROVE  Serves(u)
<1>1. /\ v.session_coroutine \in [Co -> Request \cup {NULL}]
      /\ v.watching_service \in [Svc -> Nat] /\ v.session_response \subseteq Co
      /\ r # NULL => r \in Request /\ r.src \in Svc
  BY DEF LuaState, Request
<1>2. \A d \in Co : u.session_coroutine[d] = IF d = c THEN NULL ELSE v.session_coroutine[d]
  BY <1>1
<1>3. Serving(u)
  <2>1. \A d \in u.session_response : u.session_coroutine[d] # NULL
    BY <1>1, <1>2 DEF Serves, Serving
  <2>2. \A d, e \in Co :
           /\ u.session_coroutine[d] # NULL /\ u.session_coroutine[d] = u.session_coroutine[e]
           /\ d # e
           => u.session_coroutine[d].session = 0
    BY <1>2 DEF Serves, Serving
  <2>3. \A d \in Co : Owes(u, d) => u.session_coroutine[d] \notin u.unresponse
    BY <1>2 DEF Serves, Serving, Owes
  <2> QED
    BY <2>1, <2>2, <2>3 DEF Serves, Serving
<1>4. ASSUME NEW a \in Svc
      PROVE  /\ a \notin u.dead_service => u.watching_service[a] >= Watchers(u, a)
             /\ ~ u.faulted => u.watching_service[a] <= Watchers(u, a)
  <2>1. /\ IsFiniteSet(ServedFor(v, a)) /\ Cardinality(ServedFor(v, a)) \in Nat
        /\ Cardinality(From(v.unresponse, a)) \in Nat
    BY WatchersFinite DEF Serves
  <2>2. /\ a \notin v.dead_service => v.watching_service[a] >= Watchers(v, a)
        /\ ~ v.faulted => v.watching_service[a] <= Watchers(v, a)
    BY DEF Serves, Watched
  <2>3. v.watching_service[a] \in Nat
    BY <1>1
  <2>4. CASE r # NULL /\ a = r.src
    <3>1. ServedFor(u, a) = ServedFor(v, a) \ {c} /\ c \in ServedFor(v, a)
      BY <1>2, <2>4 DEF ServedFor
    <3>2. Cardinality(ServedFor(u, a)) = Cardinality(ServedFor(v, a)) - 1
      BY <2>1, <3>1, FS_RemoveElement
    <3>3. Cardinality(ServedFor(v, a)) # 0
      BY <2>1, <3>1, FS_EmptySet
    <3>4. CASE u.faulted /\ u.watching_service = v.watching_service
      BY <2>1, <2>2, <2>3, <3>2, <3>4 DEF Watchers
    <3>5. CASE /\ u.faulted = v.faulted
               /\ u.watching_service = [v.watching_service EXCEPT ![r.src] = Released(v, 1, r.src)]
      <4>1. u.watching_service[a] =
               IF v.watching_service[a] > 0 THEN v.watching_service[a] - 1 ELSE 0
        BY <1>1, <2>3, <2>4, <3>5 DEF Released
      <4> QED
        BY <2>1, <2>2, <2>3, <3>2, <3>3, <3>5, <4>1 DEF Watchers
    <3> QED
      BY <2>4, <3>4, <3>5
  <2>5. CASE r = NULL \/ a # r.src
    <3>1. ServedFor(u, a) = ServedFor(v, a)
      BY <1>2, <2>5 DEF ServedFor
    <3>2. u.watching_service[a] = v.watching_service[a]
      BY <1>1, <2>5
    <3>3. Watchers(u, a) = Watchers(v, a)
      BY <3>1 DEF Watchers
    <3> QED
      BY <2>2, <3>2, <3>3
  <2> QED
    BY <2>4, <2>5
<1> QED
  BY <1>3, <1>4 DEF Serves, Watched

(* skynet.exit calls every closure. *)
LEMMA ExitServes ==
    ASSUME NEW v \in LuaState, Serves(v),
           NEW u, u.session_coroutine = v.session_coroutine,
           u.session_response = v.session_response, u.unresponse = {},
           u.watching_service =
              [a \in Svc |-> Released(v, Cardinality(From(v.unresponse, a)), a)],
           u.dead_service = v.dead_service, u.faulted = v.faulted
    PROVE  Serves(u) /\ u.watching_service \in [Svc -> Nat]
<1>1. IsFiniteSet({}) /\ Cardinality({}) = 0
  BY FS_EmptySet
<1>2. Serving(u)
  BY DEF Serves, Serving, Owes
<1>3. ASSUME NEW a \in Svc
      PROVE  /\ u.watching_service[a] \in Nat
             /\ a \notin u.dead_service => u.watching_service[a] >= Watchers(u, a)
             /\ ~ u.faulted => u.watching_service[a] <= Watchers(u, a)
  <2>1. Cardinality(ServedFor(v, a)) \in Nat /\ Cardinality(From(v.unresponse, a)) \in Nat
    BY WatchersFinite DEF Serves
  <2>2. /\ a \notin v.dead_service => v.watching_service[a] >= Watchers(v, a)
        /\ ~ v.faulted => v.watching_service[a] <= Watchers(v, a)
    BY DEF Serves, Watched
  <2>3. v.watching_service[a] \in Nat
    BY DEF LuaState
  <2>4. ServedFor(u, a) = ServedFor(v, a) /\ From(u.unresponse, a) = {}
    BY DEF ServedFor, From
  <2>5. u.watching_service[a] = Released(v, Cardinality(From(v.unresponse, a)), a)
    OBVIOUS
  <2>6. PICK x \in Nat, y \in Nat, z \in Nat :
           /\ x = Cardinality(ServedFor(v, a)) /\ y = Cardinality(From(v.unresponse, a))
           /\ z = v.watching_service[a]
    BY <2>1, <2>3
  <2>7. /\ a \notin u.dead_service => z >= x + y
        /\ ~ u.faulted => z <= x + y
        /\ u.watching_service[a] = IF z > y THEN z - y ELSE 0
    BY <2>2, <2>5, <2>6 DEF Watchers, Released
  <2>8. Watchers(u, a) = x
    <3>1. Watchers(u, a) = Cardinality(ServedFor(v, a)) + Cardinality({})
      BY <2>4, Zenon DEF Watchers
    <3> QED
      BY <1>1, <2>6, <3>1
  <2> QED
    BY <2>7, <2>8
<1> QED
  BY <1>1, <1>2, <1>3 DEF Serves, Watched

-----------------------------------------------------------------------------
(* Tables and control together *)

(* The tables do not depend on where control is. *)
LEMMA TablesKept ==
    ASSUME NEW v \in LuaState, NEW n \in Nat, Waiting(v, n), Serves(v), NEW u, SameTables(u, v),
           u.faulted \/ u.faulted = v.faulted
    PROVE  Waiting(u, n) /\ Serves(u)
<1>1. SameWaiting(u, v) /\ SameServing(u, v)
  BY DEF SameTables, SameWaiting, SameServing
<1> QED
  BY <1>1, WaitingKept, ServesKept

(* A coroutine yields and control goes to the end of suspend. *)
LEMMA YieldTables ==
    ASSUME NEW w \in LuaState, NEW n \in Nat, Waiting(w, n), Serves(w), NEW u, u = Yield(w)
    PROVE  /\ u \in LuaState /\ SameTables(u, w) /\ u.faulted = w.faulted
           /\ Waiting(u, n) /\ Serves(u) /\ u.run = NULL /\ u.ph # "exit"
           /\ u.ph = "err" => u.error_queue # <<>>
           /\ Awaited(w) => Draining(u)
<1>1. /\ u \in LuaState /\ SameTables(u, w) /\ u.faulted = w.faulted
      /\ u.run = NULL /\ u.ph \in {"wake", "err", "fork", "idle"}
      /\ u.ph \in {"err", "fork", "idle"} => w.wakeup_session = {}
      /\ u.ph \in {"fork", "idle"} => w.error_queue = <<>>
      /\ u.ph = "err" => w.error_queue # <<>>
  BY YieldControl
<1>2. Waiting(u, n) /\ Serves(u)
  BY <1>1, TablesKept
<1>3. Awaited(w) => Draining(u)
  BY <1>1 DEF Awaited, Draining, SameTables
<1> QED
  BY <1>1, <1>2, <1>3 DEF SameTables

(* A coroutine that waits for nothing is resumed. *)
LEMMA ResumeTables ==
    ASSUME NEW w \in LuaState, NEW n \in Nat, Waiting(w, n), Serves(w), NEW c \in Co, Idle(w, c),
           NEW u, u = Resume(w, c)
    PROVE  /\ u \in LuaState /\ SameTables(u, w) /\ u.faulted = w.faulted
           /\ Waiting(u, n) /\ Serves(u) /\ u.run = c /\ Idle(u, c) /\ u.ph = "run"
           /\ Awaited(w) => Draining(u)
<1>1. /\ u \in LuaState /\ SameTables(u, w) /\ u.faulted = w.faulted
      /\ u.run = c /\ u.ph = "run"
  BY ResumeControl
<1>2. Waiting(u, n) /\ Serves(u)
  BY <1>1, TablesKept
<1>3. Idle(u, c)
  BY <1>1 DEF Idle, SameTables
<1>4. Awaited(w) => Draining(u)
  BY <1>1 DEF Awaited, Draining, SameTables
<1> QED
  BY <1>1, <1>2, <1>3, <1>4

(* An error leaves the dispatch. *)
LEMMA RaiseTables ==
    ASSUME NEW w \in LuaState, NEW n \in Nat, Waiting(w, n), Serves(w), NEW u, u = Raise(w)
    PROVE  /\ u \in LuaState /\ SameTables(u, w) /\ u.faulted
           /\ Waiting(u, n) /\ Serves(u) /\ u.run = NULL /\ u.ph \in {"fork", "idle"}
<1>1. /\ u \in LuaState /\ SameTables(u, w) /\ u.faulted
      /\ u.run = NULL /\ u.ph \in {"fork", "idle"}
  BY RaiseControl
<1> QED
  BY <1>1, TablesKept

(* The message is done. *)
LEMMA ToForkTables ==
    ASSUME NEW w \in LuaState, NEW n \in Nat, Waiting(w, n), Serves(w), NEW u, u = ToFork(w)
    PROVE  /\ u \in LuaState /\ SameTables(u, w) /\ u.faulted = w.faulted
           /\ Waiting(u, n) /\ Serves(u) /\ u.run = NULL /\ u.ph \in {"fork", "idle"}
           /\ w.wakeup_session = {} /\ w.error_queue = <<>> => Draining(u)
<1>1. /\ u \in LuaState /\ SameTables(u, w) /\ u.faulted = w.faulted
      /\ u.run = NULL /\ u.ph \in {"fork", "idle"}
  BY ToForkControl
<1>2. Waiting(u, n) /\ Serves(u)
  BY <1>1, TablesKept
<1>3. w.wakeup_session = {} /\ w.error_queue = <<>> => Draining(u)
  BY <1>1 DEF Awaited, Draining, SameTables
<1> QED
  BY <1>1, <1>2, <1>3

(* The errors are next. *)
LEMMA ToErrorTables ==
    ASSUME NEW w \in LuaState, NEW n \in Nat, Waiting(w, n), Serves(w), NEW u, u = ToError(w)
    PROVE  /\ u \in LuaState /\ SameTables(u, w) /\ u.faulted = w.faulted
           /\ Waiting(u, n) /\ Serves(u) /\ u.run = NULL /\ u.ph # "exit"
           /\ u.ph = "err" => u.error_queue # <<>>
<1>1. /\ u \in LuaState /\ SameTables(u, w) /\ u.faulted = w.faulted
      /\ u.run = NULL /\ u.ph \in {"err", "fork", "idle"}
      /\ u.ph \in {"fork", "idle"} <=> w.error_queue = <<>>
  BY ToErrorControl
<1> QED
  BY <1>1, TablesKept DEF SameTables

(* What is known of a service in its step. *)
LEMMA OwnState ==
    ASSUME TypeOK, NEW s \in Svc, Own(s), NEW v, v = lua[s]
    PROVE  /\ v \in LuaState /\ nops[s] \in Nat /\ Waiting(v, nops[s]) /\ Serves(v)
           /\ v.run # NULL => Idle(v, v.run)
           /\ v.ph = "err" => v.error_queue # <<>>
           /\ alive[s] /\ ~ v.faulted => Draining(v)
           /\ \A x : Set(s, x) => lua'[s] = x
           /\ \A name : Op(s, name) => nops[s] < MaxOp /\ nops'[s] = nops[s] + 1
  BY DEF TypeOK, Own, Set, Op

(* And what is to be shown. *)
LEMMA OwnNext ==
    ASSUME NEW s \in Svc, NEW u, lua'[s] = u, NEW m, nops'[s] = m,
           alive'[s] => alive[s], Waiting(u, m), Serves(u),
           u.run # NULL => Idle(u, u.run), u.ph = "err" => u.error_queue # <<>>,
           alive[s] /\ ~ u.faulted => Draining(u)
    PROVE  Own(s)'
  BY DEF Own

(* A step that neither returns from a call nor records a failure. *)
Steady(u, v) ==
    /\ u.dead_service = v.dead_service
    /\ u.watching_session = v.watching_session /\ u.error_queue = v.error_queue
    /\ v.session_id <= u.session_id
    /\ u.ph # "exit" /\ v.ph # "exit"

Quiet(u, v) == Steady(u, v) /\ SameServing(u, v)

-----------------------------------------------------------------------------
(* What a running coroutine does to the tables of its service *)

(* The coroutine that runs is in no table. *)
LEMMA RunningIdle ==
    ASSUME TypeOK, NEW s \in Svc, Own(s), NEW c \in Co, Running(s, c)
    PROVE  /\ lua[s].ph = "run" /\ lua[s].run = c /\ lua[s].run # NULL /\ Idle(lua[s], c)
           /\ alive[s] /\ ~ lua[s].faulted => Awaited(lua[s])
<1>1. c # NULL
  BY LuaAssumption
<1> QED
  BY <1>1 DEF Running, Own, Draining

(* skynet.sleep *)
LEMMA SleepOwn ==
    ASSUME TypeOK, NEW s \in Svc, Own(s), NEW c \in Co, Sleep(s, c)
    PROVE  lua'[s] \in LuaState /\ Own(s)' /\ Quiet(lua'[s], lua[s])
<1>1. PICK v, n : v = lua[s] /\ n = nops[s]
  OBVIOUS
<1>2. /\ v \in LuaState /\ n \in Nat /\ Waiting(v, n) /\ Serves(v)
      /\ alive[s] /\ ~ v.faulted => Draining(v)
      /\ \A x : Set(s, x) => lua'[s] = x
      /\ n < MaxOp /\ nops'[s] = n + 1
  BY <1>1, OwnState DEF Sleep
<1>3. v.ph = "run" /\ Idle(v, c) /\ (alive[s] /\ ~ v.faulted => Awaited(v))
  BY <1>1, RunningIdle DEF Sleep
<1>4. PICK q : q = v.session_id + 1
  OBVIOUS
<1>5. q \in Session /\ q \in Nat /\ q # 0
  BY <1>2, <1>4, NextSession
<1>6. PICK w : w = [v EXCEPT !.session_id = q, !.session_id_coroutine[q] = c,
                             !.sleep_session[c] = q]
  OBVIOUS
<1>7. lua'[s] = Yield(w)
  BY <1>1, <1>2, <1>4, <1>6 DEF Sleep
<1>8. w \in LuaState
  BY <1>2, <1>5, <1>6 DEF LuaState
<1>9. /\ w.session_id = q
      /\ w.session_id_coroutine = [v.session_id_coroutine EXCEPT ![q] = c]
      /\ w.sleep_session = [v.sleep_session EXCEPT ![c] = q]
      /\ w.watching_session = v.watching_session
      /\ w.error_queue = v.error_queue /\ w.fork_queue = v.fork_queue
  BY <1>2, <1>6 DEF LuaState
<1>10. /\ SameServing(w, v) /\ w.dead_service = v.dead_service
       /\ w.wakeup_session = v.wakeup_session /\ w.faulted = v.faulted
  BY <1>2, <1>6 DEF LuaState, SameServing
<1>11. Waiting(w, n + 1)
  <2>1. ParksFor(w, v, q, c)
    BY <1>9 DEF ParksFor
  <2> QED
    BY <1>2, <1>3, <1>4, <1>9, <2>1, ParkWaiting
<1>12. Serves(w)
  BY <1>2, <1>10, ServesKept
<1>13. Awaited(v) => Awaited(w)
  BY <1>2, <1>5, <1>9, <1>10 DEF Awaited, LuaState
<1>14. PICK u : u = lua'[s] /\ u = Yield(w) /\ n + 1 \in Nat
  BY <1>2, <1>7
<1>15. /\ u \in LuaState /\ SameTables(u, w) /\ u.faulted = w.faulted
       /\ Waiting(u, n + 1) /\ Serves(u) /\ u.run = NULL /\ u.ph # "exit"
       /\ u.ph = "err" => u.error_queue # <<>>
       /\ Awaited(w) => Draining(u)
  BY <1>8, <1>11, <1>12, <1>14, YieldTables
<1>16. Own(s)'
  <2>1. alive' = alive
    BY DEF Sleep
  <2> QED
    BY <1>2, <1>3, <1>10, <1>13, <1>14, <1>15, <2>1, OwnNext
<1>17. Quiet(u, v)
  <2>1. v.session_id \in Nat
    BY <1>2 DEF LuaState
  <2>2. v.session_id <= q
    BY <1>4, <2>1
  <2> QED
    BY <1>3, <1>9, <1>10, <1>15, <2>2 DEF Quiet, Steady, SameServing, SameTables
<1> QED
  BY <1>1, <1>14, <1>15, <1>16, <1>17

(* skynet.wait *)
LEMMA WaitOwn ==
    ASSUME TypeOK, NEW s \in Svc, Own(s), NEW c \in Co, Wait(s, c)
    PROVE  lua'[s] \in LuaState /\ Own(s)' /\ Quiet(lua'[s], lua[s])
<1>1. PICK v, n : v = lua[s] /\ n = nops[s]
  OBVIOUS
<1>2. /\ v \in LuaState /\ n \in Nat /\ Waiting(v, n) /\ Serves(v)
      /\ alive[s] /\ ~ v.faulted => Draining(v)
      /\ \A x : Set(s, x) => lua'[s] = x
      /\ n < MaxOp /\ nops'[s] = n + 1
  BY <1>1, OwnState DEF Wait
<1>3. v.ph = "run" /\ v.run = c /\ Idle(v, c) /\ (alive[s] /\ ~ v.faulted => Awaited(v))
  BY <1>1, RunningIdle DEF Wait
<1>4. PICK q : q = v.session_id + 1
  OBVIOUS
<1>5. q \in Session /\ q \in Nat /\ q # 0
  BY <1>2, <1>4, NextSession
<1>6. PICK w : w = [v EXCEPT !.session_id = q, !.session_id_coroutine[q] = c,
                          !.sleep_session[c] = q, !.waiting = @ \cup {c}]
  OBVIOUS
<1>7. lua'[s] = Yield(w)
  BY <1>1, <1>2, <1>4, <1>6 DEF Wait
<1>8. w \in LuaState
  BY <1>2, <1>5, <1>6 DEF LuaState
<1>9. /\ w.session_id = q
      /\ w.session_id_coroutine = [v.session_id_coroutine EXCEPT ![q] = c]
      /\ w.sleep_session = [v.sleep_session EXCEPT ![c] = q]
      /\ w.watching_session = v.watching_session
      /\ w.error_queue = v.error_queue /\ w.fork_queue = v.fork_queue
  BY <1>2, <1>6 DEF LuaState
<1>10. /\ SameServing(w, v) /\ w.dead_service = v.dead_service
       /\ w.wakeup_session = v.wakeup_session /\ w.faulted = v.faulted
  BY <1>2, <1>6 DEF LuaState, SameServing
<1>11. Waiting(w, n + 1)
  <2>1. ParksFor(w, v, q, c)
    BY <1>9 DEF ParksFor
  <2> QED
    BY <1>2, <1>3, <1>4, <1>9, <2>1, ParkWaiting
<1>12. Serves(w)
  BY <1>2, <1>10, ServesKept
<1>13. Awaited(v) => Awaited(w)
  BY <1>2, <1>5, <1>9, <1>10 DEF Awaited, LuaState
<1>14. PICK u : u = lua'[s] /\ u = Yield(w) /\ n + 1 \in Nat
  BY <1>2, <1>7
<1>15. /\ u \in LuaState /\ SameTables(u, w) /\ u.faulted = w.faulted
       /\ Waiting(u, n + 1) /\ Serves(u) /\ u.run = NULL /\ u.ph # "exit"
       /\ u.ph = "err" => u.error_queue # <<>>
       /\ Awaited(w) => Draining(u)
  BY <1>8, <1>11, <1>12, <1>14, YieldTables
<1>16. alive'[s] => alive[s]
  BY DEF Wait
<1>17. Own(s)'
  BY <1>2, <1>3, <1>10, <1>13, <1>14, <1>15, <1>16, OwnNext
<1>18. v.session_id <= q
  <2>1. v.session_id \in Nat
    BY <1>2 DEF LuaState
  <2> QED
    BY <1>4, <2>1
<1>19. Quiet(u, v)
  BY <1>3, <1>9, <1>10, <1>15, <1>18 DEF Quiet, Steady, SameServing, SameTables
<1> QED
  BY <1>1, <1>14, <1>15, <1>17, <1>19

(* co_create gives a coroutine that nothing refers to. *)
LEMMA CoCreated ==
    ASSUME NEW v \in LuaState, NEW d \in co_create(v)
    PROVE  d \in Co /\ Idle(v, d) /\ d # v.run /\ v.session_coroutine[d] = NULL
<1>1. d \in Co /\ d \notin CoBusy(v)
  BY DEF co_create
<1>2. d # v.run /\ d \notin v.fork_queue /\ v.session_coroutine[d] = NULL
  BY <1>1 DEF CoBusy
<1>3. \A q \in Session : v.session_id_coroutine[q] # d
  <2>1. DOMAIN v.session_id_coroutine = Session
    BY DEF LuaState
  <2> QED
    BY <1>1, <2>1 DEF CoBusy, ToSet
<1> QED
  BY <1>1, <1>2, <1>3 DEF Idle

(* skynet.timeout *)
LEMMA TimeoutOwn ==
    ASSUME TypeOK, NEW s \in Svc, Own(s), NEW c \in Co, Timeout(s, c)
    PROVE  lua'[s] \in LuaState /\ Own(s)' /\ Quiet(lua'[s], lua[s])
<1>1. PICK v, n : v = lua[s] /\ n = nops[s]
  OBVIOUS
<1>2. /\ v \in LuaState /\ n \in Nat /\ Waiting(v, n) /\ Serves(v)
      /\ alive[s] /\ ~ v.faulted => Draining(v)
      /\ \A x : Set(s, x) => lua'[s] = x
      /\ n < MaxOp /\ nops'[s] = n + 1
  BY <1>1, OwnState DEF Timeout
<1>3. v.ph = "run" /\ v.run = c /\ Idle(v, c) /\ (alive[s] /\ ~ v.faulted => Awaited(v))
  BY <1>1, RunningIdle DEF Timeout
<1>4. PICK q : q = v.session_id + 1
  OBVIOUS
<1>5. q \in Session /\ q \in Nat /\ q # 0
  BY <1>2, <1>4, NextSession
<1>6. PICK d \in co_create(v) : lua'[s] = [v EXCEPT !.session_id = q, !.session_id_coroutine[q] = d]
  BY <1>1, <1>2, <1>4 DEF Timeout
<1>7. d \in Co /\ Idle(v, d) /\ d # c
  BY <1>2, <1>3, <1>6, CoCreated
<1>8. PICK u : u = lua'[s] /\ u = [v EXCEPT !.session_id = q, !.session_id_coroutine[q] = d]
  BY <1>6
<1>9. u = [v EXCEPT !.session_id = q, !.session_id_coroutine[q] = d]
  BY <1>8
<1>10. u \in LuaState
  BY <1>2, <1>5, <1>7, <1>9 DEF LuaState
<1>11. /\ u.session_id = q
       /\ u.session_id_coroutine = [v.session_id_coroutine EXCEPT ![q] = d]
       /\ u.sleep_session = v.sleep_session /\ u.watching_session = v.watching_session
       /\ u.error_queue = v.error_queue /\ u.fork_queue = v.fork_queue
       /\ u.wakeup_session = v.wakeup_session
  BY <1>2, <1>8 DEF LuaState
<1>12. SameServing(u, v) /\ u.dead_service = v.dead_service
  BY <1>2, <1>8 DEF LuaState, SameServing
<1>13. u.run = c /\ u.ph = "run" /\ u.faulted = v.faulted
  BY <1>2, <1>3, <1>8 DEF LuaState
<1>14. Waiting(u, n + 1)
  <2>1. ParksFor(u, v, q, d)
    BY <1>11 DEF ParksFor
  <2> QED
    BY <1>2, <1>7, <1>4, <1>11, <2>1, ParkWaiting
<1>15. Serves(u)
  BY <1>2, <1>12, <1>13, ServesKept
<1>16. Idle(u, c)
  <2>1. v.session_id_coroutine \in [Session -> Co \cup {NULL, BREAK}]
    BY <1>2 DEF LuaState
  <2> QED
    BY <1>3, <1>5, <1>7, <1>11, <2>1 DEF Idle
<1>17. Awaited(v) => Draining(u)
  BY <1>11, <1>13 DEF Awaited, Draining
<1>18. alive'[s] => alive[s]
  BY DEF Timeout
<1>19. Own(s)'
  BY <1>2, <1>3, <1>8, <1>13, <1>14, <1>15, <1>16, <1>17, <1>18, OwnNext
<1>20. v.session_id <= q
  <2>1. v.session_id \in Nat
    BY <1>2 DEF LuaState
  <2> QED
    BY <1>4, <2>1
<1>21. Quiet(u, v)
  BY <1>3, <1>11, <1>12, <1>13, <1>20 DEF Quiet, Steady
<1> QED
  BY <1>1, <1>8, <1>10, <1>19, <1>21

(* skynet.fork *)
LEMMA ForkOwn ==
    ASSUME TypeOK, NEW s \in Svc, Own(s), NEW c \in Co, Fork(s, c)
    PROVE  lua'[s] \in LuaState /\ Own(s)' /\ Quiet(lua'[s], lua[s])
<1>1. PICK v, n : v = lua[s] /\ n = nops[s]
  OBVIOUS
<1>2. /\ v \in LuaState /\ n \in Nat /\ Waiting(v, n) /\ Serves(v)
      /\ alive[s] /\ ~ v.faulted => Draining(v)
      /\ \A x : Set(s, x) => lua'[s] = x
      /\ n < MaxOp /\ nops'[s] = n + 1
  BY <1>1, OwnState DEF Fork
<1>3. v.ph = "run" /\ v.run = c /\ Idle(v, c) /\ (alive[s] /\ ~ v.faulted => Awaited(v))
  BY <1>1, RunningIdle DEF Fork
<1>4. PICK d \in co_create(v) : lua'[s] = [v EXCEPT !.fork_queue = @ \cup {d}]
  BY <1>1, <1>2 DEF Fork
<1>5. d \in Co /\ Idle(v, d) /\ d # c
  BY <1>2, <1>3, <1>4, CoCreated
<1>6. PICK u : u = lua'[s] /\ u = [v EXCEPT !.fork_queue = @ \cup {d}]
  BY <1>4
<1>7. u = [v EXCEPT !.fork_queue = @ \cup {d}]
  BY <1>6
<1>8. u \in LuaState
  BY <1>2, <1>5, <1>7 DEF LuaState
<1>9. /\ u.session_id = v.session_id
      /\ u.session_id_coroutine = v.session_id_coroutine
      /\ u.sleep_session = v.sleep_session /\ u.watching_session = v.watching_session
      /\ u.error_queue = v.error_queue /\ u.fork_queue = v.fork_queue \cup {d}
      /\ u.wakeup_session = v.wakeup_session
  BY <1>2, <1>6 DEF LuaState
<1>10. SameServing(u, v) /\ u.dead_service = v.dead_service
  BY <1>2, <1>6 DEF LuaState, SameServing
<1>11. u.run = c /\ u.ph = "run" /\ u.faulted = v.faulted
  BY <1>2, <1>3, <1>6 DEF LuaState
<1>12. v.session_id \in Nat
  BY <1>2 DEF LuaState
<1>13. Waiting(u, n + 1)
  <2>1. Numbered(u, n + 1)
    <3>1. v.session_id <= n + 1 + 1
      BY <1>2, <1>12 DEF Waiting, Numbered
    <3> QED
      BY <1>2, <1>9, <3>1 DEF Waiting, Numbered
  <2>2. Parked(u)
    BY <1>2, <1>5, <1>9 DEF Waiting, Parked, Idle
  <2>3. Failing(u)
    BY <1>2, <1>9 DEF Waiting, Failing
  <2> QED
    BY <2>1, <2>2, <2>3 DEF Waiting
<1>14. Serves(u)
  BY <1>2, <1>10, <1>11, ServesKept
<1>15. Idle(u, c)
  BY <1>3, <1>5, <1>9 DEF Idle
<1>16. Awaited(v) => Draining(u)
  BY <1>9, <1>11 DEF Awaited, Draining
<1>17. alive'[s] => alive[s]
  BY DEF Fork
<1>18. Own(s)'
  BY <1>2, <1>3, <1>6, <1>11, <1>13, <1>14, <1>15, <1>16, <1>17, OwnNext
<1>19. Quiet(u, v)
  BY <1>3, <1>9, <1>10, <1>11, <1>12 DEF Quiet, Steady
<1> QED
  BY <1>1, <1>6, <1>8, <1>18, <1>19

(* skynet.wakeup *)
LEMMA WakeupOwn ==
    ASSUME TypeOK, NEW s \in Svc, Own(s), NEW c \in Co, NEW d \in Co, Wakeup(s, c, d)
    PROVE  lua'[s] \in LuaState /\ Own(s)' /\ Quiet(lua'[s], lua[s])
<1>1. PICK v, n : v = lua[s] /\ n = nops[s]
  OBVIOUS
<1>2. /\ v \in LuaState /\ n \in Nat /\ Waiting(v, n) /\ Serves(v)
      /\ alive[s] /\ ~ v.faulted => Draining(v)
      /\ \A x : Set(s, x) => lua'[s] = x
      /\ nops'[s] = n
  BY <1>1, OwnState DEF Wakeup
<1>3. v.ph = "run" /\ v.run = c /\ Idle(v, c) /\ (alive[s] /\ ~ v.faulted => Awaited(v))
  BY <1>1, RunningIdle DEF Wakeup
<1>4. PICK u : u = lua'[s] /\ u = [v EXCEPT !.wakeup_session = @ \cup {d}]
  BY <1>1, <1>2 DEF Wakeup
<1>5. v.sleep_session[d] # 0
  BY <1>1 DEF Wakeup
<1>6. u = [v EXCEPT !.wakeup_session = @ \cup {d}]
  BY <1>4
<1>7. u \in LuaState
  BY <1>2, <1>6 DEF LuaState
<1>8. SameWaiting(u, v)
  BY <1>2, <1>4 DEF LuaState, SameWaiting
<1>9. /\ SameServing(u, v) /\ u.dead_service = v.dead_service
      /\ u.wakeup_session = v.wakeup_session \cup {d}
  BY <1>2, <1>4 DEF LuaState, SameServing
<1>10. u.run = c /\ u.ph = "run" /\ u.faulted = v.faulted
  BY <1>2, <1>3, <1>4 DEF LuaState
<1>11. Waiting(u, n)
  BY <1>2, <1>8, WaitingKept
<1>12. Serves(u)
  BY <1>2, <1>9, <1>10, ServesKept
<1>13. Idle(u, c)
  BY <1>3, <1>8 DEF Idle, SameWaiting
<1>14. Awaited(v) => Draining(u)
  BY <1>5, <1>8, <1>9, <1>10 DEF Awaited, Draining, SameWaiting
<1>15. alive'[s] => alive[s]
  BY DEF Wakeup
<1>16. Own(s)'
  BY <1>2, <1>3, <1>4, <1>10, <1>11, <1>12, <1>13, <1>14, <1>15, OwnNext
<1>17. v.session_id \in Nat
  BY <1>2 DEF LuaState
<1>18. Quiet(u, v)
  BY <1>3, <1>8, <1>9, <1>10, <1>17 DEF Quiet, Steady, SameWaiting
<1> QED
  BY <1>1, <1>4, <1>7, <1>16, <1>18

(* skynet.dispatch *)
LEMMA DispatchOwn ==
    ASSUME TypeOK, NEW s \in Svc, Own(s), NEW c \in Co, Dispatch(s, c)
    PROVE  lua'[s] \in LuaState /\ Own(s)' /\ Quiet(lua'[s], lua[s])
<1>1. PICK v, n : v = lua[s] /\ n = nops[s]
  OBVIOUS
<1>2. /\ v \in LuaState /\ n \in Nat /\ Waiting(v, n) /\ Serves(v)
      /\ v.run # NULL => Idle(v, v.run)
      /\ alive[s] /\ ~ v.faulted => Draining(v)
      /\ \A x : Set(s, x) => lua'[s] = x
      /\ nops'[s] = n /\ v.ph = "run"
  BY <1>1, OwnState DEF Dispatch, Running
<1>3. PICK u : u = lua'[s] /\ u = [v EXCEPT !.dispatch = TRUE]
  BY <1>1, <1>2 DEF Dispatch
<1>4. u \in LuaState
  BY <1>2, <1>3 DEF LuaState
<1>5. SameWaiting(u, v)
  BY <1>2, <1>3 DEF LuaState, SameWaiting
<1>6. SameServing(u, v)
  BY <1>2, <1>3 DEF LuaState, SameServing
<1>7. /\ u.dead_service = v.dead_service /\ u.wakeup_session = v.wakeup_session
      /\ u.faulted = v.faulted /\ u.ph = v.ph /\ u.run = v.run
  BY <1>2, <1>3 DEF LuaState
<1>8. Waiting(u, n) /\ Serves(u)
  BY <1>2, <1>5, <1>6, <1>7, WaitingKept, ServesKept
<1>9. /\ u.run # NULL => Idle(u, u.run)
      /\ alive[s] /\ ~ u.faulted => Draining(u)
  BY <1>2, <1>5, <1>7 DEF Idle, Awaited, Draining, SameWaiting
<1>10. Own(s)'
  BY <1>2, <1>3, <1>7, <1>8, <1>9, OwnNext DEF Dispatch
<1>11. v.session_id \in Nat
  BY <1>2 DEF LuaState
<1>12. Quiet(u, v)
  BY <1>2, <1>5, <1>6, <1>7, <1>11 DEF Quiet, Steady, SameWaiting
<1> QED
  BY <1>1, <1>3, <1>4, <1>10, <1>12

(* skynet.call *)
LEMMA CallOwn ==
    ASSUME TypeOK, NEW s \in Svc, Own(s), NEW c \in Co, NEW d \in Svc, NEW type,
           NEW q, q = lua[s].session_id + 1, Call(s, c, d, type)
    PROVE  /\ lua'[s] \in LuaState /\ Own(s)' /\ SameServing(lua'[s], lua[s])
           /\ lua'[s].dead_service = lua[s].dead_service
           /\ lua'[s].error_queue = lua[s].error_queue
           /\ lua'[s].ph # "exit" /\ lua[s].ph # "exit"
           /\ lua'[s].session_id = q /\ q = lua[s].session_id + 1 /\ q \in Session
           /\ lua[s].watching_session[q] = NULL
           /\ lua'[s].watching_session =
                 IF alive[d] THEN [lua[s].watching_session EXCEPT ![q] = d] ELSE lua[s].watching_session
<1>1. PICK v, n : v = lua[s] /\ n = nops[s]
  OBVIOUS
<1>2. /\ v \in LuaState /\ n \in Nat /\ Waiting(v, n) /\ Serves(v)
      /\ alive[s] /\ ~ v.faulted => Draining(v)
      /\ \A x : Set(s, x) => lua'[s] = x
      /\ n < MaxOp /\ nops'[s] = n + 1
  BY <1>1, OwnState DEF Call
<1>3. v.ph = "run" /\ v.run = c /\ Idle(v, c) /\ (alive[s] /\ ~ v.faulted => Awaited(v))
  BY <1>1, RunningIdle DEF Call
<1>4. q = v.session_id + 1
  BY <1>1
<1>5. q \in Session /\ q \in Nat /\ q # 0 /\ v.watching_session[q] = NULL
  BY <1>2, <1>4, NextSession
<1>6. q \in Session /\ q \in Nat
  BY <1>5
<1>7. PICK w : w = [v EXCEPT !.session_id = q]
  OBVIOUS
<1>8. alive'[s] => alive[s]
  BY DEF Call
<1>9. CASE ~ alive[d]
  <2>1. w \in LuaState
    BY <1>2, <1>6, <1>7 DEF LuaState
  <2>2. lua'[s] = w
    BY <1>1, <1>2, <1>4, <1>7, <1>9 DEF Call
  <2>3. /\ w.session_id = q
        /\ w.session_id_coroutine = v.session_id_coroutine
        /\ w.sleep_session = v.sleep_session /\ w.watching_session = v.watching_session
        /\ w.error_queue = v.error_queue /\ w.fork_queue = v.fork_queue
    BY <1>2, <1>7 DEF LuaState
  <2>4. /\ SameServing(w, v) /\ w.dead_service = v.dead_service
        /\ w.wakeup_session = v.wakeup_session
    BY <1>2, <1>7 DEF LuaState, SameServing
  <2>5. w.run = c /\ w.ph = "run" /\ w.faulted = v.faulted
    BY <1>2, <1>3, <1>7 DEF LuaState
  <2>6. Waiting(w, n + 1)
    <3>1. v.session_id \in Nat /\ v.error_queue \in Seq(Session)
      BY <1>2 DEF LuaState
    <3>2. Numbered(w, n + 1)
      <4>1. q <= n + 1 + 1
        BY <1>2, <1>4, <3>1 DEF Waiting, Numbered
      <4>2. \A p \in Session : p > q => p > v.session_id
        BY <1>4, <3>1 DEF Session
      <4> QED
        BY <1>2, <2>3, <4>1, <4>2 DEF Waiting, Numbered
    <3>3. Parked(w)
      BY <1>2, <2>3 DEF Waiting, Parked
    <3>4. Failing(w)
      <4>1. ASSUME NEW i \in DOMAIN v.error_queue PROVE v.error_queue[i] <= q
        <5>1. v.error_queue[i] \in Session
          BY <3>1
        <5>2. v.error_queue[i] \in Nat
          BY <5>1, LuaAssumption DEF Session
        <5>3. v.error_queue[i] <= v.session_id
          BY <1>2 DEF Waiting, Failing
        <5> QED
          BY <1>4, <3>1, <5>2, <5>3
      <4> QED
        BY <1>2, <2>3, <4>1 DEF Waiting, Failing
    <3> QED
      BY <3>2, <3>3, <3>4 DEF Waiting
  <2>7. Serves(w)
    BY <1>2, <2>4, <2>5, ServesKept
  <2>8. Idle(w, c)
    BY <1>3, <2>3 DEF Idle
  <2>9. Awaited(v) => Draining(w)
    BY <2>3, <2>4, <2>5 DEF Awaited, Draining
  <2>10. Own(s)'
    BY <1>2, <1>3, <2>2, <2>5, <2>6, <2>7, <2>8, <2>9, <1>8, OwnNext
  <2> QED
    BY <1>1, <1>3, <1>4, <1>5, <1>9, <2>1, <2>2, <2>3, <2>4, <2>5, <2>10
<1>10. CASE alive[d]
  <2>1. PICK x : x = [w EXCEPT !.watching_session[q] = d, !.session_id_coroutine[q] = c]
    OBVIOUS
  <2>2. w \in LuaState
    BY <1>2, <1>6, <1>7 DEF LuaState
  <2>3. x \in LuaState
    BY <1>6, <2>2, <2>1 DEF LuaState
  <2>4. lua'[s] = Yield(x)
    BY <1>1, <1>2, <1>4, <1>7, <2>1, <1>10 DEF Call
  <2>5. /\ w.session_id = q
        /\ w.session_id_coroutine = v.session_id_coroutine
        /\ w.sleep_session = v.sleep_session /\ w.watching_session = v.watching_session
        /\ w.error_queue = v.error_queue /\ w.fork_queue = v.fork_queue
    BY <1>2, <1>7 DEF LuaState
  <2>6. /\ x.session_id = w.session_id
        /\ x.session_id_coroutine = [w.session_id_coroutine EXCEPT ![q] = c]
        /\ x.sleep_session = w.sleep_session
        /\ x.watching_session = [w.watching_session EXCEPT ![q] = d]
        /\ x.error_queue = w.error_queue /\ x.fork_queue = w.fork_queue
    BY <2>2, <2>1 DEF LuaState
  <2>7. /\ SameServing(w, v) /\ w.dead_service = v.dead_service
        /\ w.wakeup_session = v.wakeup_session /\ w.faulted = v.faulted
    BY <1>2, <1>7 DEF LuaState, SameServing
  <2>8. /\ SameServing(x, w) /\ x.dead_service = w.dead_service
        /\ x.wakeup_session = w.wakeup_session /\ x.faulted = w.faulted
    BY <2>2, <2>1 DEF LuaState, SameServing
  <2>9. SameServing(x, v) /\ x.faulted = v.faulted
    BY <2>7, <2>8 DEF SameServing
  <2>10. Waiting(x, n + 1)
    <3>1. ParksFor(x, v, q, c)
      BY <2>5, <2>6 DEF ParksFor
    <3> QED
      BY <1>2, <1>3, <1>4, <2>5, <2>6, <3>1, ParkWaiting
  <2>11. Serves(x)
    BY <1>2, <2>9, ServesKept
  <2>12. Awaited(v) => Awaited(x)
    BY <2>5, <2>6, <2>7, <2>8 DEF Awaited
  <2>13. PICK u : u = lua'[s] /\ u = Yield(x) /\ n + 1 \in Nat
    BY <1>2, <2>4
  <2>14. /\ u \in LuaState /\ SameTables(u, x) /\ u.faulted = x.faulted
         /\ Waiting(u, n + 1) /\ Serves(u) /\ u.run = NULL /\ u.ph # "exit"
         /\ u.ph = "err" => u.error_queue # <<>>
         /\ Awaited(x) => Draining(u)
    BY <2>3, <2>10, <2>11, <2>13, YieldTables
  <2>15. Own(s)'
    BY <1>2, <1>3, <2>9, <2>12, <2>13, <2>14, <1>8, OwnNext
  <2>16. /\ SameServing(u, v) /\ u.dead_service = v.dead_service /\ u.error_queue = v.error_queue
         /\ u.session_id = q /\ u.watching_session = [v.watching_session EXCEPT ![q] = d]
    BY <2>5, <2>6, <2>7, <2>8, <2>14 DEF SameServing, SameTables
  <2> QED
    BY <1>1, <1>3, <1>4, <1>5, <1>10, <2>13, <2>14, <2>15, <2>16
<1> QED
  BY <1>9, <1>10

(* An operation that leaves the tables alone. *)
LEMMA CountOwn ==
    ASSUME TypeOK, NEW s \in Svc, Own(s), NEW name, Op(s, name), lua' = lua,
           alive'[s] => alive[s]
    PROVE  Own(s)'
<1>1. PICK v, n : v = lua[s] /\ n = nops[s]
  OBVIOUS
<1>2. /\ v \in LuaState /\ n \in Nat /\ Waiting(v, n) /\ Serves(v)
      /\ v.run # NULL => Idle(v, v.run)
      /\ v.ph = "err" => v.error_queue # <<>>
      /\ alive[s] /\ ~ v.faulted => Draining(v)
      /\ nops'[s] = n + 1
  BY <1>1, OwnState
<1>3. SameWaiting(v, v)
  BY DEF SameWaiting
<1>4. Waiting(v, n + 1)
  BY <1>2, <1>3, WaitingKept
<1> QED
  BY <1>1, <1>2, <1>4, OwnNext

(* skynet.ret *)
LEMMA RetOwn ==
    ASSUME TypeOK, NEW s \in Svc, Own(s), NEW c \in Co, NEW type, Ret(s, c, type)
    PROVE  /\ lua'[s] \in LuaState /\ Own(s)' /\ Steady(lua'[s], lua[s])
           /\ Owes(lua[s], c)
           /\ lua'[s].session_coroutine = lua[s].session_coroutine
           /\ lua'[s].session_response = lua[s].session_response \cup {c}
           /\ lua'[s].unresponse = lua[s].unresponse
<1>1. PICK v, n : v = lua[s] /\ n = nops[s]
  OBVIOUS
<1>2. /\ v \in LuaState /\ n \in Nat /\ Waiting(v, n) /\ Serves(v)
      /\ alive[s] /\ ~ v.faulted => Draining(v)
      /\ \A x : Set(s, x) => lua'[s] = x
      /\ nops'[s] = n
  BY <1>1, OwnState DEF Ret
<1>3. v.ph = "run" /\ v.run = c /\ Idle(v, c) /\ (alive[s] /\ ~ v.faulted => Awaited(v))
  BY <1>1, RunningIdle DEF Ret
<1>4. Owes(v, c) /\ v.session_coroutine[c] # NULL
  BY <1>1 DEF Ret, Owes
<1>5. PICK u : u = lua'[s] /\ u = [v EXCEPT !.session_response = @ \cup {c}]
  BY <1>1, <1>2, <1>4 DEF Ret
<1>6. u = [v EXCEPT !.session_response = @ \cup {c}]
  BY <1>5
<1>7. u \in LuaState
  BY <1>2, <1>4, <1>6 DEF LuaState
<1>8. SameWaiting(u, v)
  BY <1>2, <1>6 DEF LuaState, SameWaiting
<1>9. /\ u.dead_service = v.dead_service
      /\ u.wakeup_session = v.wakeup_session
      /\ u.session_response = v.session_response \cup {c}
      /\ u.session_coroutine = v.session_coroutine
      /\ u.unresponse = v.unresponse /\ u.watching_service = v.watching_service
  BY <1>2, <1>6 DEF LuaState
<1>10. u.run = c /\ u.ph = "run" /\ u.faulted = v.faulted
  BY <1>2, <1>3, <1>6 DEF LuaState
<1>11. Waiting(u, n)
  BY <1>2, <1>8, WaitingKept
<1>12. Serves(u)
  BY <1>2, <1>4, <1>9, <1>10, RetServes
<1>13. Idle(u, c)
  BY <1>3, <1>8 DEF Idle, SameWaiting
<1>14. Awaited(v) => Draining(u)
  BY <1>8, <1>9, <1>10 DEF Awaited, Draining, SameWaiting
<1>15. alive'[s] => alive[s]
  BY DEF Ret
<1>16. Own(s)'
  BY <1>2, <1>3, <1>5, <1>10, <1>11, <1>12, <1>13, <1>14, <1>15, OwnNext
<1>17. v.session_id \in Nat
  BY <1>2 DEF LuaState
<1>18. Steady(u, v)
  BY <1>3, <1>8, <1>9, <1>10, <1>17 DEF Steady, SameWaiting
<1> QED
  BY <1>1, <1>5, <1>7, <1>9, <1>16, <1>18, <1>4

(* skynet.response *)
LEMMA ResponseOwn ==
    ASSUME TypeOK, NEW s \in Svc, Own(s), NEW c \in Co,
           NEW r, r = lua[s].session_coroutine[c], Response(s, c),
           lua[s].watching_service[r.src] # 0
    PROVE  /\ lua'[s] \in LuaState /\ Own(s)' /\ Steady(lua'[s], lua[s])
           /\ Owes(lua[s], c)
           /\ lua'[s].session_coroutine = lua[s].session_coroutine
           /\ lua'[s].session_response = lua[s].session_response \cup {c}
           /\ lua'[s].unresponse = lua[s].unresponse \cup {r}
<1>1. PICK v, n : v = lua[s] /\ n = nops[s]
  OBVIOUS
<1>2. /\ v \in LuaState /\ n \in Nat /\ Waiting(v, n) /\ Serves(v)
      /\ alive[s] /\ ~ v.faulted => Draining(v)
      /\ \A x : Set(s, x) => lua'[s] = x
      /\ nops'[s] = n
  BY <1>1, OwnState DEF Response
<1>3. v.ph = "run" /\ v.run = c /\ Idle(v, c) /\ (alive[s] /\ ~ v.faulted => Awaited(v))
  BY <1>1, RunningIdle DEF Response
<1>4. Owes(v, c) /\ r = v.session_coroutine[c] /\ r \in Request /\ r.src \in Svc
  BY <1>1, <1>2 DEF Response, Owes, LuaState, Request
<1>5. PICK u : u = lua'[s] /\ u = [v EXCEPT !.session_response = @ \cup {c}, !.closures = @ \cup {r},
                                  !.unresponse = @ \cup {r},
                                  !.watching_service[r.src] = @ + 1]
  BY <1>1, <1>2, <1>4 DEF Response
<1>6. u = [v EXCEPT !.session_response = @ \cup {c}, !.closures = @ \cup {r},
                                  !.unresponse = @ \cup {r},
                                  !.watching_service[r.src] = @ + 1]
  BY <1>5
<1>7. u \in LuaState
  <2>1. [v.watching_service EXCEPT ![r.src] = @ + 1] \in [Svc -> Nat]
    BY <1>2, <1>4 DEF LuaState
  <2> QED
    BY <1>2, <1>4, <1>6, <2>1 DEF LuaState
<1>8. SameWaiting(u, v)
  BY <1>2, <1>6 DEF LuaState, SameWaiting
<1>9. /\ u.dead_service = v.dead_service
      /\ u.wakeup_session = v.wakeup_session
      /\ u.session_response = v.session_response \cup {c}
      /\ u.session_coroutine = v.session_coroutine
      /\ u.unresponse = v.unresponse \cup {r}
      /\ u.watching_service = [v.watching_service EXCEPT ![r.src] = @ + 1]
  BY <1>2, <1>6 DEF LuaState
<1>10. u.run = c /\ u.ph = "run" /\ u.faulted = v.faulted
  BY <1>2, <1>3, <1>6 DEF LuaState
<1>11. Waiting(u, n)
  BY <1>2, <1>8, WaitingKept
<1>12. Serves(u)
  BY <1>2, <1>4, <1>9, <1>10, ResponseServes
<1>13. Idle(u, c)
  BY <1>3, <1>8 DEF Idle, SameWaiting
<1>14. Awaited(v) => Draining(u)
  BY <1>8, <1>9, <1>10 DEF Awaited, Draining, SameWaiting
<1>15. alive'[s] => alive[s]
  BY DEF Response
<1>16. Own(s)'
  BY <1>2, <1>3, <1>5, <1>10, <1>11, <1>12, <1>13, <1>14, <1>15, OwnNext
<1>17. v.session_id \in Nat
  BY <1>2 DEF LuaState
<1>18. Steady(u, v)
  BY <1>3, <1>8, <1>9, <1>10, <1>17 DEF Steady, SameWaiting
<1> QED
  BY <1>1, <1>5, <1>7, <1>9, <1>16, <1>18, <1>4

(* skynet.response for a source that is no longer counted: the coroutine is
   left behind.                                                            *)
LEMMA ResponseRefused ==
    ASSUME TypeOK, NEW s \in Svc, Own(s), NEW c \in Co,
           NEW r, r = lua[s].session_coroutine[c], Response(s, c),
           lua[s].watching_service[r.src] = 0
    PROVE  lua'[s] \in LuaState /\ Own(s)' /\ Quiet(lua'[s], lua[s])
<1>1. PICK v, n : v = lua[s] /\ n = nops[s]
  OBVIOUS
<1>2. /\ v \in LuaState /\ n \in Nat /\ Waiting(v, n) /\ Serves(v)
      /\ \A x : Set(s, x) => lua'[s] = x
      /\ nops'[s] = n
  BY <1>1, OwnState DEF Response
<1>3. v.ph = "run"
  BY <1>1 DEF Response, Running
<1>4. PICK u : u = lua'[s] /\ u = Raise(v)
  BY <1>1, <1>2 DEF Response
<1>5. /\ u \in LuaState /\ SameTables(u, v) /\ u.faulted
      /\ Waiting(u, n) /\ Serves(u) /\ u.run = NULL /\ u.ph \in {"fork", "idle"}
  BY <1>2, <1>4, RaiseTables
<1>6. alive'[s] => alive[s]
  BY DEF Response
<1>7. Own(s)'
  BY <1>2, <1>4, <1>5, <1>6, OwnNext
<1>8. v.session_id \in Nat
  BY <1>2 DEF LuaState
<1>9. Quiet(u, v)
  BY <1>3, <1>5, <1>8 DEF Quiet, Steady, SameServing, SameTables
<1> QED
  BY <1>1, <1>4, <1>5, <1>7, <1>9

(* A closure answers. *)
LEMMA AnswerOwn ==
    ASSUME TypeOK, NEW s \in Svc, Own(s), NEW c \in Co, NEW r, NEW type, Answer(s, c, r, type)
    PROVE  /\ lua'[s] \in LuaState /\ Own(s)' /\ Steady(lua'[s], lua[s])
           /\ r \in lua[s].unresponse
           /\ lua'[s].session_coroutine = lua[s].session_coroutine
           /\ lua'[s].session_response = lua[s].session_response
           /\ lua'[s].unresponse = lua[s].unresponse \ {r}
<1>1. PICK v, n : v = lua[s] /\ n = nops[s]
  OBVIOUS
<1>2. /\ v \in LuaState /\ n \in Nat /\ Waiting(v, n) /\ Serves(v)
      /\ alive[s] /\ ~ v.faulted => Draining(v)
      /\ \A x : Set(s, x) => lua'[s] = x
      /\ nops'[s] = n
  BY <1>1, OwnState DEF Answer
<1>3. v.ph = "run" /\ v.run = c /\ Idle(v, c) /\ (alive[s] /\ ~ v.faulted => Awaited(v))
  BY <1>1, RunningIdle DEF Answer
<1>4. r \in v.unresponse /\ r \in Request /\ r.src \in Svc
  BY <1>1, <1>2 DEF Answer, LuaState, Request
<1>5. PICK u : u = lua'[s] /\ u = [v EXCEPT !.unresponse = @ \ {r},
                                  !.watching_service[r.src] = Released(v, 1, r.src)]
  <2>1. PICK x : x = [v EXCEPT !.unresponse = @ \ {r}]
    OBVIOUS
  <2>2. lua'[s] = release_watching(x, r.src)
    BY <1>1, <1>2, <2>1 DEF Answer
  <2>3. Released(x, 1, r.src) = Released(v, 1, r.src)
    BY <1>2, <2>1 DEF Released, LuaState
  <2>4. lua'[s] = [x EXCEPT !.watching_service[r.src] = Released(v, 1, r.src)]
    BY <2>2, <2>3 DEF release_watching
  <2> QED
    BY <1>2, <2>1, <2>4 DEF LuaState
<1>6. u = [v EXCEPT !.unresponse = @ \ {r},
                                  !.watching_service[r.src] = Released(v, 1, r.src)]
  BY <1>5
<1>7. u \in LuaState
  <2>1. [v.watching_service EXCEPT ![r.src] = Released(v, 1, r.src)] \in [Svc -> Nat]
    BY <1>2, <1>4 DEF LuaState, Released
  <2> QED
    BY <1>2, <1>4, <1>6, <2>1 DEF LuaState
<1>8. SameWaiting(u, v)
  BY <1>2, <1>6 DEF LuaState, SameWaiting
<1>9. /\ u.dead_service = v.dead_service
      /\ u.wakeup_session = v.wakeup_session
      /\ u.session_response = v.session_response
      /\ u.session_coroutine = v.session_coroutine
      /\ u.unresponse = v.unresponse \ {r}
      /\ u.watching_service = [v.watching_service EXCEPT ![r.src] = Released(v, 1, r.src)]
  BY <1>2, <1>6 DEF LuaState
<1>10. u.run = c /\ u.ph = "run" /\ u.faulted = v.faulted
  BY <1>2, <1>3, <1>6 DEF LuaState
<1>11. Waiting(u, n)
  BY <1>2, <1>8, WaitingKept
<1>12. Serves(u)
  BY <1>2, <1>4, <1>9, <1>10, AnswerServes
<1>13. Idle(u, c)
  BY <1>3, <1>8 DEF Idle, SameWaiting
<1>14. Awaited(v) => Draining(u)
  BY <1>8, <1>9, <1>10 DEF Awaited, Draining, SameWaiting
<1>15. alive'[s] => alive[s]
  BY DEF Answer
<1>16. Own(s)'
  BY <1>2, <1>3, <1>5, <1>10, <1>11, <1>12, <1>13, <1>14, <1>15, OwnNext
<1>17. v.session_id \in Nat
  BY <1>2 DEF LuaState
<1>18. Steady(u, v)
  BY <1>3, <1>8, <1>9, <1>10, <1>17 DEF Steady, SameWaiting
<1> QED
  BY <1>1, <1>5, <1>7, <1>9, <1>16, <1>18, <1>4

(* A closure finds that its source is dead. *)
LEMMA TestOwn ==
    ASSUME TypeOK, NEW s \in Svc, Own(s), NEW c \in Co, NEW r, TestResponse(s, c, r)
    PROVE  /\ lua'[s] \in LuaState /\ Own(s)' /\ Steady(lua'[s], lua[s])
           /\ r.src \in lua[s].dead_service
           /\ lua'[s].session_coroutine = lua[s].session_coroutine
           /\ lua'[s].session_response = lua[s].session_response
           /\ lua'[s].unresponse = lua[s].unresponse \ {r}
<1>1. PICK v, n : v = lua[s] /\ n = nops[s]
  OBVIOUS
<1>2. /\ v \in LuaState /\ n \in Nat /\ Waiting(v, n) /\ Serves(v)
      /\ alive[s] /\ ~ v.faulted => Draining(v)
      /\ \A x : Set(s, x) => lua'[s] = x
      /\ nops'[s] = n
  BY <1>1, OwnState DEF TestResponse
<1>3. v.ph = "run" /\ v.run = c /\ Idle(v, c) /\ (alive[s] /\ ~ v.faulted => Awaited(v))
  BY <1>1, RunningIdle DEF TestResponse
<1>4. r \in Request /\ r.src \in Svc /\ r.src \in v.dead_service
  BY <1>1, <1>2 DEF TestResponse, LuaState, Request
<1>5. PICK u : u = lua'[s] /\ u = [v EXCEPT !.unresponse = @ \ {r},
                                  !.watching_service[r.src] = Released(v, 1, r.src)]
  <2>1. PICK x : x = [v EXCEPT !.unresponse = @ \ {r}]
    OBVIOUS
  <2>2. lua'[s] = release_watching(x, r.src)
    BY <1>1, <1>2, <2>1 DEF TestResponse
  <2>3. Released(x, 1, r.src) = Released(v, 1, r.src)
    BY <1>2, <2>1 DEF Released, LuaState
  <2>4. lua'[s] = [x EXCEPT !.watching_service[r.src] = Released(v, 1, r.src)]
    BY <2>2, <2>3 DEF release_watching
  <2> QED
    BY <1>2, <2>1, <2>4 DEF LuaState
<1>6. u = [v EXCEPT !.unresponse = @ \ {r},
                                  !.watching_service[r.src] = Released(v, 1, r.src)]
  BY <1>5
<1>7. u \in LuaState
  <2>1. [v.watching_service EXCEPT ![r.src] = Released(v, 1, r.src)] \in [Svc -> Nat]
    BY <1>2, <1>4 DEF LuaState, Released
  <2> QED
    BY <1>2, <1>4, <1>6, <2>1 DEF LuaState
<1>8. SameWaiting(u, v)
  BY <1>2, <1>6 DEF LuaState, SameWaiting
<1>9. /\ u.dead_service = v.dead_service
      /\ u.wakeup_session = v.wakeup_session
      /\ u.session_response = v.session_response
      /\ u.session_coroutine = v.session_coroutine
      /\ u.unresponse = v.unresponse \ {r}
      /\ u.watching_service = [v.watching_service EXCEPT ![r.src] = Released(v, 1, r.src)]
  BY <1>2, <1>6 DEF LuaState
<1>10. u.run = c /\ u.ph = "run" /\ u.faulted = v.faulted
  BY <1>2, <1>3, <1>6 DEF LuaState
<1>11. Waiting(u, n)
  BY <1>2, <1>8, WaitingKept
<1>12. Serves(u)
  BY <1>2, <1>4, <1>9, <1>10, AnswerServes
<1>13. Idle(u, c)
  BY <1>3, <1>8 DEF Idle, SameWaiting
<1>14. Awaited(v) => Draining(u)
  BY <1>8, <1>9, <1>10 DEF Awaited, Draining, SameWaiting
<1>15. alive'[s] => alive[s]
  BY DEF TestResponse
<1>16. Own(s)'
  BY <1>2, <1>3, <1>5, <1>10, <1>11, <1>12, <1>13, <1>14, <1>15, OwnNext
<1>17. v.session_id \in Nat
  BY <1>2 DEF LuaState
<1>18. Steady(u, v)
  BY <1>3, <1>8, <1>9, <1>10, <1>17 DEF Steady, SameWaiting
<1> QED
  BY <1>1, <1>5, <1>7, <1>9, <1>16, <1>18, <1>4

(* The coroutine returns. *)
LEMMA FinishOwn ==
    ASSUME TypeOK, NEW s \in Svc, Own(s), NEW c \in Co, Finish(s, c)
    PROVE  /\ lua'[s] \in LuaState /\ Own(s)' /\ Steady(lua'[s], lua[s])
           /\ ~ Owes(lua[s], c)
           /\ lua'[s].session_coroutine = [lua[s].session_coroutine EXCEPT ![c] = NULL]
           /\ lua'[s].session_response = lua[s].session_response \ {c}
           /\ lua'[s].unresponse = lua[s].unresponse
<1>1. PICK v, n : v = lua[s] /\ n = nops[s]
  OBVIOUS
<1>2. /\ v \in LuaState /\ n \in Nat /\ Waiting(v, n) /\ Serves(v)
      /\ alive[s] /\ ~ v.faulted => Draining(v)
      /\ \A x : Set(s, x) => lua'[s] = x
      /\ nops'[s] = n
  BY <1>1, OwnState DEF Finish
<1>3. v.ph = "run" /\ v.run = c /\ Idle(v, c) /\ (alive[s] /\ ~ v.faulted => Awaited(v))
  BY <1>1, RunningIdle DEF Finish
<1>4. PICK r : r = v.session_coroutine[c]
  OBVIOUS
<1>5. v.watching_service \in [Svc -> Nat] /\ (r # NULL => r.src \in Svc)
  BY <1>2, <1>4 DEF LuaState, Request
<1>6. PICK w : w = [v EXCEPT !.session_coroutine[c] = NULL,
                          !.session_response = @ \ {c}]
  OBVIOUS
<1>7. w \in LuaState
  BY <1>2, <1>6 DEF LuaState
<1>8. /\ w.session_coroutine = [v.session_coroutine EXCEPT ![c] = NULL]
      /\ w.session_response = v.session_response \ {c} /\ w.unresponse = v.unresponse
      /\ w.watching_service = v.watching_service /\ w.faulted = v.faulted
      /\ w.dead_service = v.dead_service /\ w.wakeup_session = v.wakeup_session
  BY <1>2, <1>6 DEF LuaState
<1>9. SameWaiting(w, v)
  BY <1>2, <1>6 DEF LuaState, SameWaiting
<1>10. PICK x : x = IF r = NULL THEN w ELSE release_watching(w, r.src)
  OBVIOUS
<1>11. lua'[s] = Yield(x)
  BY <1>1, <1>2, <1>4, <1>6, <1>10 DEF Finish
<1>12. /\ x \in LuaState /\ SameWaiting(x, w)
       /\ x.session_coroutine = w.session_coroutine /\ x.session_response = w.session_response
       /\ x.unresponse = w.unresponse /\ x.faulted = w.faulted
       /\ x.dead_service = w.dead_service /\ x.wakeup_session = w.wakeup_session
       /\ x.watching_service = IF r = NULL THEN v.watching_service ELSE
             [v.watching_service EXCEPT ![r.src] = Released(v, 1, r.src)]
  <2>1. CASE r = NULL
    BY <1>7, <1>8, <1>10, <2>1 DEF SameWaiting
  <2>2. CASE r # NULL
    <3>1. x = [w EXCEPT !.watching_service[r.src] = Released(v, 1, r.src)]
      BY <1>8, <1>10, <2>2 DEF release_watching, Released
    <3>2. [w.watching_service EXCEPT ![r.src] = Released(v, 1, r.src)] \in [Svc -> Nat]
      BY <1>5, <1>8, <2>2 DEF Released
    <3>3. x \in LuaState
      BY <1>7, <3>1, <3>2 DEF LuaState
    <3>4. SameWaiting(x, w)
      BY <1>7, <3>1 DEF LuaState, SameWaiting
    <3>5. /\ x.session_coroutine = w.session_coroutine /\ x.session_response = w.session_response
          /\ x.unresponse = w.unresponse /\ x.faulted = w.faulted
          /\ x.dead_service = w.dead_service /\ x.wakeup_session = w.wakeup_session
          /\ x.watching_service = [w.watching_service EXCEPT ![r.src] = Released(v, 1, r.src)]
      BY <1>7, <3>1 DEF LuaState
    <3> QED
      BY <1>8, <2>2, <3>3, <3>4, <3>5
  <2> QED
    BY <2>1, <2>2
<1>13. SameWaiting(x, v)
  BY <1>9, <1>12 DEF SameWaiting
<1>14. Waiting(x, n)
  BY <1>2, <1>13, WaitingKept
<1>15. Serves(x)
  BY <1>2, <1>4, <1>8, <1>12, FinishServes
<1>16. Awaited(v) => Awaited(x)
  BY <1>8, <1>12, <1>13 DEF Awaited, SameWaiting
<1>17. PICK u : u = lua'[s] /\ u = Yield(x)
  BY <1>11
<1>18. /\ u \in LuaState /\ SameTables(u, x) /\ u.faulted = x.faulted
       /\ Waiting(u, n) /\ Serves(u) /\ u.run = NULL /\ u.ph # "exit"
       /\ u.ph = "err" => u.error_queue # <<>>
       /\ Awaited(x) => Draining(u)
  BY <1>2, <1>12, <1>14, <1>15, <1>17, YieldTables
<1>19. alive'[s] => alive[s]
  BY DEF Finish
<1>20. Own(s)'
  BY <1>2, <1>3, <1>8, <1>12, <1>16, <1>17, <1>18, <1>19, OwnNext
<1>21. v.session_id \in Nat
  BY <1>2 DEF LuaState
<1>22. Steady(u, v)
  BY <1>3, <1>13, <1>8, <1>12, <1>18, <1>21 DEF Steady, SameWaiting, SameTables
<1>23. ~ Owes(v, c)
  BY <1>1 DEF Finish
<1> QED
  BY <1>1, <1>17, <1>18, <1>8, <1>12, <1>20, <1>22, <1>23 DEF SameTables

(* The coroutine dies of an error. *)
LEMMA FailOwn ==
    ASSUME TypeOK, NEW s \in Svc, Own(s), NEW c \in Co, Fail(s, c)
    PROVE  /\ lua'[s] \in LuaState /\ Own(s)' /\ Steady(lua'[s], lua[s])
           /\ lua'[s].session_coroutine = [lua[s].session_coroutine EXCEPT ![c] = NULL]
           /\ lua'[s].session_response = lua[s].session_response \ {c}
           /\ lua'[s].unresponse = lua[s].unresponse
<1>1. PICK v, n : v = lua[s] /\ n = nops[s]
  OBVIOUS
<1>2. /\ v \in LuaState /\ n \in Nat /\ Waiting(v, n) /\ Serves(v)
      /\ alive[s] /\ ~ v.faulted => Draining(v)
      /\ \A x : Set(s, x) => lua'[s] = x
      /\ nops'[s] = n
  BY <1>1, OwnState DEF Fail
<1>3. v.ph = "run" /\ v.run = c /\ Idle(v, c) /\ (alive[s] /\ ~ v.faulted => Awaited(v))
  BY <1>1, RunningIdle DEF Fail
<1>4. PICK w : w = [v EXCEPT !.session_coroutine[c] = NULL,
                          !.session_response = @ \ {c}, !.wakeup_session = @ \ {c}]
  OBVIOUS
<1>5. w \in LuaState
  BY <1>2, <1>4 DEF LuaState
<1>6. lua'[s] = Raise(w)
  BY <1>1, <1>2, <1>4 DEF Fail
<1>7. /\ w.session_coroutine = [v.session_coroutine EXCEPT ![c] = NULL]
      /\ w.session_response = v.session_response \ {c} /\ w.unresponse = v.unresponse
      /\ w.watching_service = v.watching_service /\ w.dead_service = v.dead_service
  BY <1>2, <1>4 DEF LuaState
<1>8. SameWaiting(w, v)
  BY <1>2, <1>4 DEF LuaState, SameWaiting
<1>9. PICK u : u = lua'[s] /\ u = Raise(w)
  BY <1>6
<1>10. /\ u \in LuaState /\ SameTables(u, w) /\ u.faulted
       /\ u.run = NULL /\ u.ph \in {"fork", "idle"}
  BY <1>5, <1>9, RaiseControl
<1>11. SameWaiting(u, v)
  BY <1>8, <1>10 DEF SameWaiting, SameTables
<1>12. Waiting(u, n)
  BY <1>2, <1>11, WaitingKept
<1>13. /\ u.session_coroutine = [v.session_coroutine EXCEPT ![c] = NULL]
       /\ u.session_response = v.session_response \ {c} /\ u.unresponse = v.unresponse
       /\ u.watching_service = v.watching_service /\ u.dead_service = v.dead_service
  BY <1>7, <1>10 DEF SameTables
<1>14. Serves(u)
  BY <1>2, <1>10, <1>13, FinishServes
<1>15. alive'[s] => alive[s]
  BY DEF Fail
<1>16. Own(s)'
  BY <1>2, <1>9, <1>10, <1>12, <1>14, <1>15, OwnNext
<1>17. v.session_id \in Nat
  BY <1>2 DEF LuaState
<1>18. Steady(u, v)
  BY <1>3, <1>11, <1>13, <1>10, <1>17 DEF Steady, SameWaiting
<1> QED
  BY <1>1, <1>9, <1>10, <1>13, <1>16, <1>18

(* skynet.exit, until the callers are told. *)
LEMMA ExitReportOwn ==
    ASSUME TypeOK, NEW s \in Svc, Own(s), NEW c \in Co, ExitReport(s, c)
    PROVE  /\ lua'[s] \in LuaState /\ Own(s)' /\ lua[s].ph = "run" /\ lua'[s].ph = "exit"
           /\ lua'[s].session_coroutine = lua[s].session_coroutine /\ lua'[s].unresponse = {}
           /\ lua'[s].session_response = lua[s].session_response
           /\ lua'[s].dead_service = lua[s].dead_service
           /\ lua'[s].watching_session = lua[s].watching_session
           /\ lua'[s].error_queue = lua[s].error_queue /\ lua'[s].session_id = lua[s].session_id
<1>1. PICK v, n : v = lua[s] /\ n = nops[s]
  OBVIOUS
<1>2. /\ v \in LuaState /\ n \in Nat /\ Waiting(v, n) /\ Serves(v)
      /\ alive[s] /\ ~ v.faulted => Draining(v)
      /\ \A x : Set(s, x) => lua'[s] = x
      /\ n < MaxOp /\ nops'[s] = n + 1
  BY <1>1, OwnState DEF ExitReport
<1>3. v.ph = "run" /\ v.run = c /\ Idle(v, c) /\ (alive[s] /\ ~ v.faulted => Awaited(v))
  BY <1>1, RunningIdle DEF ExitReport
<1>4. PICK f : f = [a \in Svc |-> Released(v, Cardinality(From(v.unresponse, a)), a)]
  OBVIOUS
<1>5. PICK u : u = [v EXCEPT !.ph = "exit", !.fork_queue = {}, !.unresponse = {},
                           !.watching_service = f]
  OBVIOUS
<1>6. lua'[s] = u
  BY <1>1, <1>2, <1>4, <1>5 DEF ExitReport
<1>7. /\ u.session_id = v.session_id /\ u.session_id_coroutine = v.session_id_coroutine
      /\ u.sleep_session = v.sleep_session /\ u.watching_session = v.watching_session
      /\ u.error_queue = v.error_queue /\ u.fork_queue = {}
      /\ u.wakeup_session = v.wakeup_session /\ u.dead_service = v.dead_service
  BY <1>2, <1>5 DEF LuaState
<1>8. /\ u.session_coroutine = v.session_coroutine
      /\ u.session_response = v.session_response /\ u.unresponse = {}
      /\ u.watching_service = f /\ u.faulted = v.faulted
      /\ u.ph = "exit" /\ u.run = v.run
  BY <1>2, <1>5 DEF LuaState
<1>9. Serves(u) /\ f \in [Svc -> Nat]
  <2>1. u.watching_service = [a \in Svc |-> Released(v, Cardinality(From(v.unresponse, a)), a)]
    BY <1>4, <1>8
  <2>2. Serves(u) /\ u.watching_service \in [Svc -> Nat]
    BY <1>2, <1>7, <1>8, <2>1, ExitServes
  <2> QED
    BY <1>8, <2>2
<1>10. u \in LuaState
  <2>1. f \in [Svc -> Nat]
    BY <1>9
  <2> QED
    BY <1>2, <1>5, <2>1 DEF LuaState
<1>11. Waiting(u, n + 1)
  <2>1. v.session_id \in Nat
    BY <1>2 DEF LuaState
  <2>2. Numbered(u, n + 1)
    <3>1. v.session_id <= n + 1 + 1
      BY <1>2, <2>1 DEF Waiting, Numbered
    <3> QED
      BY <1>2, <1>7, <3>1 DEF Waiting, Numbered
  <2>3. Parked(u)
    BY <1>2, <1>7 DEF Waiting, Parked
  <2>4. Failing(u)
    BY <1>2, <1>7 DEF Waiting, Failing
  <2> QED
    BY <2>2, <2>3, <2>4 DEF Waiting
<1>12. Idle(u, c)
  BY <1>3, <1>7 DEF Idle
<1>13. Awaited(v) => Draining(u)
  BY <1>7, <1>8 DEF Awaited, Draining
<1>14. alive'[s] => alive[s]
  BY DEF ExitReport
<1>15. Own(s)'
  BY <1>2, <1>3, <1>6, <1>8, <1>11, <1>9, <1>12, <1>13, <1>14, OwnNext
<1> QED
  BY <1>1, <1>3, <1>6, <1>10, <1>7, <1>8, <1>15

(* skynet.exit, the retirement of the handle. *)
LEMMA ExitRetireOwn ==
    ASSUME TypeOK, NEW s \in Svc, Own(s), ExitRetire(s)
    PROVE  /\ lua'[s] \in LuaState /\ Own(s)' /\ SameTables(lua'[s], lua[s])
           /\ lua[s].ph = "exit" /\ lua'[s].ph # "exit"
<1>1. PICK v, n : v = lua[s] /\ n = nops[s]
  OBVIOUS
<1>2. /\ v \in LuaState /\ n \in Nat /\ Waiting(v, n) /\ Serves(v)
      /\ alive[s] /\ ~ v.faulted => Draining(v)
      /\ \A x : Set(s, x) => lua'[s] = x
      /\ nops'[s] = n
  BY <1>1, OwnState DEF ExitRetire
<1>3. PICK u : u = lua'[s] /\ u = IF v.errs > 0 THEN ToError([v EXCEPT !.errs = @ - 1]) ELSE ToFork(v)
  BY <1>1, <1>2 DEF ExitRetire
<1>4. /\ u \in LuaState /\ SameTables(u, v) /\ Waiting(u, n) /\ Serves(u) /\ u.run = NULL
      /\ u.ph # "exit" /\ (u.ph = "err" => u.error_queue # <<>>)
  <2>1. CASE v.errs > 0
    <3>1. PICK w : w = [v EXCEPT !.errs = @ - 1]
      OBVIOUS
    <3>2. v.errs - 1 \in Nat
      BY <1>2, <2>1 DEF LuaState
    <3>3. w \in LuaState
      BY <1>2, <3>1, <3>2 DEF LuaState
    <3>4. SameTables(w, v) /\ w.faulted = v.faulted
      BY <1>2, <3>1 DEF LuaState, SameTables
    <3>5. Waiting(w, n) /\ Serves(w)
      BY <1>2, <3>4, TablesKept
    <3>6. u = ToError(w)
      BY <1>3, <2>1, <3>1
    <3>7. /\ u \in LuaState /\ SameTables(u, w) /\ Waiting(u, n) /\ Serves(u) /\ u.run = NULL
          /\ u.ph # "exit" /\ (u.ph = "err" => u.error_queue # <<>>)
      BY <1>2, <3>3, <3>5, <3>6, ToErrorTables
    <3>8. SameTables(u, v)
      BY <3>4, <3>7 DEF SameTables
    <3> QED
      BY <3>7, <3>8
  <2>2. CASE ~ (v.errs > 0)
    <3>1. u = ToFork(v)
      BY <1>3, <2>2
    <3> QED
      BY <1>2, <3>1, ToForkTables
  <2> QED
    BY <2>1, <2>2
<1>5. alive'[s] = FALSE
  BY DEF ExitRetire, TypeOK
<1>6. Own(s)'
  BY <1>2, <1>3, <1>4, <1>5 DEF Own
<1>7. v.ph = "exit"
  BY <1>1 DEF ExitRetire
<1> QED
  BY <1>1, <1>3, <1>4, <1>6, <1>7

(* The fork loop. *)
LEMMA ForkNextOwn ==
    ASSUME TypeOK, NEW s \in Svc, Own(s), ForkNext(s)
    PROVE  lua'[s] \in LuaState /\ Own(s)' /\ Quiet(lua'[s], lua[s])
<1>1. PICK v, n : v = lua[s] /\ n = nops[s]
  OBVIOUS
<1>2. /\ v \in LuaState /\ n \in Nat /\ Waiting(v, n) /\ Serves(v)
      /\ alive[s] /\ ~ v.faulted => Draining(v)
      /\ \A x : Set(s, x) => lua'[s] = x
      /\ nops'[s] = n
  BY <1>1, OwnState DEF ForkNext
<1>3. v.ph = "fork"
  BY <1>1 DEF ForkNext
<1>4. PICK c \in v.fork_queue : lua'[s] = Resume([v EXCEPT !.fork_queue = @ \ {c}], c)
  BY <1>1, <1>2 DEF ForkNext
<1>5. c \in Co
  BY <1>2, <1>4 DEF LuaState
<1>6. PICK w : w = [v EXCEPT !.fork_queue = @ \ {c}]
  OBVIOUS
<1>7. w \in LuaState
  BY <1>2, <1>6 DEF LuaState
<1>8. /\ w.session_id = v.session_id
      /\ w.session_id_coroutine = v.session_id_coroutine
      /\ w.sleep_session = v.sleep_session /\ w.watching_session = v.watching_session
      /\ w.error_queue = v.error_queue /\ w.fork_queue = v.fork_queue \ {c}
  BY <1>2, <1>6 DEF LuaState
<1>9. /\ SameServing(w, v) /\ w.dead_service = v.dead_service
      /\ w.wakeup_session = v.wakeup_session /\ w.faulted = v.faulted
  BY <1>2, <1>6 DEF LuaState, SameServing
<1>10. Waiting(w, n)
  <2>1. Numbered(w, n)
    BY <1>2, <1>8 DEF Waiting, Numbered
  <2>2. Parked(w)
    BY <1>2, <1>8 DEF Waiting, Parked
  <2>3. Failing(w)
    BY <1>2, <1>8 DEF Waiting, Failing
  <2> QED
    BY <2>1, <2>2, <2>3 DEF Waiting
<1>11. Serves(w)
  BY <1>2, <1>9, ServesKept
<1>12. Idle(w, c)
  BY <1>2, <1>4, <1>8 DEF Idle, Waiting, Parked
<1>13. PICK u : u = lua'[s] /\ u = Resume(w, c)
  BY <1>4, <1>6
<1>14. /\ u \in LuaState /\ SameTables(u, w) /\ u.faulted = w.faulted
       /\ Waiting(u, n) /\ Serves(u) /\ u.run = c /\ Idle(u, c) /\ u.ph = "run"
       /\ Awaited(w) => Draining(u)
  BY <1>2, <1>5, <1>7, <1>10, <1>11, <1>12, <1>13, ResumeTables
<1>15. Draining(v) => Awaited(w)
  BY <1>8, <1>9 DEF Awaited, Draining
<1>16. alive'[s] => alive[s]
  BY DEF ForkNext
<1>17. Own(s)'
  BY <1>2, <1>9, <1>15, <1>13, <1>14, <1>16, OwnNext
<1>18. v.session_id \in Nat
  BY <1>2 DEF LuaState
<1>19. Quiet(u, v)
  BY <1>3, <1>8, <1>9, <1>14, <1>18 DEF Quiet, Steady, SameServing, SameTables
<1> QED
  BY <1>1, <1>13, <1>14, <1>17, <1>19

(* dispatch_wakeup: a sleeper is resumed. *)
LEMMA DispatchWakeupOwn ==
    ASSUME TypeOK, NEW s \in Svc, Own(s), dispatch_wakeup(s)
    PROVE  lua'[s] \in LuaState /\ Own(s)' /\ Quiet(lua'[s], lua[s])
<1>1. PICK v, n : v = lua[s] /\ n = nops[s]
  OBVIOUS
<1>2. /\ v \in LuaState /\ n \in Nat /\ Waiting(v, n) /\ Serves(v)
      /\ alive[s] /\ ~ v.faulted => Draining(v)
      /\ \A x : Set(s, x) => lua'[s] = x
      /\ nops'[s] = n
  BY <1>1, OwnState DEF dispatch_wakeup
<1>3. v.ph = "wake"
  BY <1>1 DEF dispatch_wakeup
<1>4. PICK c \in lua[s].wakeup_session : Set(s, Woken(lua[s], c))
  BY DEF dispatch_wakeup
<1>5. c \in v.wakeup_session /\ lua'[s] = Woken(v, c)
  BY <1>1, <1>2, <1>4
<1>6. c \in Co
  <2>1. v.wakeup_session \subseteq Co /\ c \in v.wakeup_session
    BY <1>2, <1>5 DEF LuaState
  <2> QED
    BY <2>1
<1>7. PICK q : q = v.sleep_session[c]
  OBVIOUS
<1>8. PICK w : w = [v EXCEPT !.wakeup_session = @ \ {c}]
  OBVIOUS
<1>9. w \in LuaState
  BY <1>2, <1>8 DEF LuaState
<1>10. SameWaiting(w, v)
  BY <1>2, <1>8 DEF LuaState, SameWaiting
<1>11. /\ SameServing(w, v) /\ w.dead_service = v.dead_service
       /\ w.wakeup_session = v.wakeup_session \ {c} /\ w.faulted = v.faulted
  BY <1>2, <1>8 DEF LuaState, SameServing
<1>12. Waiting(w, n)
  BY <1>2, <1>10, WaitingKept
<1>13. Serves(w)
  BY <1>2, <1>11, ServesKept
<1>14. v.session_id \in Nat /\ n \in Nat
  BY <1>2 DEF LuaState
<1>15. alive'[s] => alive[s]
  BY DEF dispatch_wakeup
<1>16. CASE q = 0
  <2>1. PICK u : u = lua'[s] /\ u = ToError(w)
    BY <1>5, <1>7, <1>8, <1>16 DEF Woken
  <2>2. /\ u \in LuaState /\ SameTables(u, w) /\ u.faulted = w.faulted
        /\ Waiting(u, n) /\ Serves(u) /\ u.run = NULL /\ u.ph # "exit"
        /\ u.ph = "err" => u.error_queue # <<>>
    BY <1>14, <1>9, <1>12, <1>13, <2>1, ToErrorTables
  <2>3. ~ Draining(v)
    BY <1>5, <1>7, <1>16 DEF Draining, Awaited
  <2>4. Own(s)'
    BY <1>2, <1>11, <2>3, <2>1, <2>2, <1>15, OwnNext
  <2>5. Quiet(u, v)
    BY <1>3, <1>10, <1>11, <2>2, <1>14 DEF Quiet, Steady, SameServing, SameWaiting,
       SameTables
  <2> QED
    BY <1>1, <2>1, <2>2, <2>4, <2>5
<1>17. CASE q # 0
  <2>1. q \in Session
    BY <1>2, <1>6, <1>7, <1>17 DEF LuaState
  <2>2. PICK b \in {NULL, BREAK} : b = IF c \in v.waiting THEN NULL ELSE BREAK
    OBVIOUS
  <2>3. PICK x : x = [w EXCEPT !.sleep_session[c] = 0, !.session_id_coroutine[q] = b,
                      !.waiting = @ \ {c}, !.errs = @ + 1]
    OBVIOUS
  <2>4. w.errs + 1 \in Nat /\ 0 \in {0} \cup Session
    BY <1>9 DEF LuaState
  <2>5. x \in LuaState
    BY <1>9, <1>6, <2>1, <2>2, <2>3, <2>4 DEF LuaState
  <2>6. /\ x.session_id = w.session_id
        /\ x.session_id_coroutine = [w.session_id_coroutine EXCEPT ![q] = b]
        /\ x.sleep_session = [w.sleep_session EXCEPT ![c] = 0]
        /\ x.watching_session = w.watching_session
        /\ x.error_queue = w.error_queue /\ x.fork_queue = w.fork_queue
    BY <1>9, <2>3 DEF LuaState
  <2>7. /\ SameServing(x, w) /\ x.dead_service = w.dead_service
        /\ x.wakeup_session = w.wakeup_session /\ x.faulted = w.faulted
    BY <1>9, <2>3 DEF LuaState, SameServing
  <2>8. /\ w.watching_session \in [Session -> Svc \cup {NULL}]
        /\ w.sleep_session \in [Co -> {0} \cup Session]
        /\ w.error_queue \in Seq(Session)
    BY <1>9 DEF LuaState
  <2>9. w.sleep_session[c] = q /\ w.session_id_coroutine[q] = c
    <3>1. w.sleep_session[c] = q
      BY <1>7, <1>10 DEF SameWaiting
    <3> QED
      BY <3>1, <1>17, <1>6, <1>12 DEF Waiting, Parked
  <2>10. w.watching_session = [w.watching_session EXCEPT ![q] = NULL]
    <3>1. w.watching_session[q] = NULL
      BY <2>9, <1>6, <2>1, <1>12 DEF Waiting, Parked
    <3> QED
      BY <3>1, <2>8
  <2>11. Waiting(x, n) /\ Idle(x, c)
    <3>1. x.watching_session = [w.watching_session EXCEPT ![q] = NULL]
      BY <2>6, <2>10
    <3>2. \A i \in DOMAIN x.error_queue :
             \E j \in DOMAIN w.error_queue : x.error_queue[i] = w.error_queue[j]
      BY <2>6
    <3>3. x.error_queue \in Seq(Session) /\ (b = BREAK => w.sleep_session[c] = q)
      BY <2>6, <2>8, <2>9
    <3>4. /\ x.session_id = w.session_id /\ x.fork_queue = w.fork_queue
          /\ x.session_id_coroutine = [w.session_id_coroutine EXCEPT ![q] = b]
          /\ x.sleep_session = [w.sleep_session EXCEPT ![c] = 0]
      BY <2>6
    <3>5. w.session_id_coroutine[q] = c
      BY <2>9
    <3>6. b \in {NULL, BREAK}
      BY <2>2
    <3>7. Unparks(x, w, q, c, b)
      BY <3>5, <3>4, <3>1, <3>2, <3>3 DEF Unparks
    <3> QED
      BY <1>9, <1>12, <2>1, <1>6, <3>6, <3>7, UnparkWaiting
  <2>12. Serves(x)
    BY <1>13, <2>7, ServesKept
  <2>13. Draining(v) => Awaited(x)
    <3>1. \A e \in Co : e # c => x.sleep_session[e] = v.sleep_session[e]
      BY <2>6, <2>8, <1>10 DEF SameWaiting
    <3>2. v.wakeup_session \subseteq Co
      BY <1>2 DEF LuaState
    <3> QED
      BY <3>1, <3>2, <1>11, <2>7 DEF Draining, Awaited
  <2>14. PICK u : u = lua'[s] /\ u = Resume(x, c)
    BY <1>5, <1>7, <1>8, <1>17, <2>2, <2>3 DEF Woken
  <2>15. /\ u \in LuaState /\ SameTables(u, x) /\ u.faulted = x.faulted
         /\ Waiting(u, n) /\ Serves(u) /\ u.run = c /\ Idle(u, c) /\ u.ph = "run"
         /\ Awaited(x) => Draining(u)
    BY <1>14, <1>6, <2>5, <2>11, <2>12, <2>14, ResumeTables
  <2>16. Own(s)'
    BY <1>2, <1>11, <2>7, <2>13, <2>14, <2>15, <1>15, OwnNext
  <2>17. Quiet(u, v)
    BY <1>3, <1>10, <1>11, <2>6, <2>7, <2>15, <1>14 DEF Quiet, Steady, SameServing,
       SameWaiting, SameTables
  <2> QED
    BY <1>1, <2>14, <2>15, <2>16, <2>17
<1> QED
  BY <1>16, <1>17

(* dispatch_error_queue: a caller is resumed with an error. *)
LEMMA DispatchErrorOwn ==
    ASSUME TypeOK, NEW s \in Svc, Own(s), dispatch_error_queue(s)
    PROVE  /\ lua'[s] \in LuaState /\ Own(s)' /\ SameServing(lua'[s], lua[s])
           /\ lua[s].error_queue # <<>> /\ lua[s].ph = "err" /\ lua'[s].ph # "exit"
           /\ lua'[s].dead_service = lua[s].dead_service /\ lua'[s].session_id = lua[s].session_id
           /\ lua'[s].error_queue = Tail(lua[s].error_queue)
           /\ \E q \in Session :
                 /\ q = lua[s].error_queue[1]
                 /\ lua'[s].watching_session = [lua[s].watching_session EXCEPT ![q] = NULL]
<1>1. PICK v, n : v = lua[s] /\ n = nops[s]
  OBVIOUS
<1>2. /\ v \in LuaState /\ n \in Nat /\ Waiting(v, n) /\ Serves(v)
      /\ alive[s] /\ ~ v.faulted => Draining(v)
      /\ \A x : Set(s, x) => lua'[s] = x
      /\ nops'[s] = n
  BY <1>1, OwnState DEF dispatch_error_queue
<1>3. v.error_queue # <<>> /\ v.ph = "err"
  BY <1>1, OwnState DEF dispatch_error_queue
<1>4. PICK q : q = Head(v.error_queue)
  OBVIOUS
<1>5. PICK c : c = v.session_id_coroutine[q]
  OBVIOUS
<1>6. PICK w : w = [v EXCEPT !.error_queue = Tail(@)]
  OBVIOUS
<1>7. lua'[s] = IF c = NULL THEN Raise(w)
               ELSE Resume([w EXCEPT !.session_id_coroutine[q] = NULL,
                                     !.watching_session[q] = NULL], c)
  BY <1>1, <1>2, <1>4, <1>5, <1>6 DEF dispatch_error_queue
<1>8. /\ v.error_queue \in Seq(Session)
      /\ v.session_id_coroutine \in [Session -> Co \cup {NULL, BREAK}]
      /\ v.watching_session \in [Session -> Svc \cup {NULL}]
      /\ v.sleep_session \in [Co -> {0} \cup Session]
      /\ v.session_id \in Nat
  BY <1>2 DEF LuaState
<1>9. 1 \in DOMAIN v.error_queue /\ v.error_queue[1] = q /\ q \in Session
  <2>1. v.error_queue \in Seq(Session) /\ v.error_queue # <<>>
    BY <1>8, <1>3
  <2> QED
    BY <2>1, <1>4
<1>10. c # BREAK /\ \A e \in Co : v.sleep_session[e] # q
  BY <1>2, <1>9, <1>5 DEF Waiting, Failing
<1>11. /\ Tail(v.error_queue) \in Seq(Session)
       /\ \A i \in DOMAIN Tail(v.error_queue) :
             \E j \in DOMAIN v.error_queue : Tail(v.error_queue)[i] = v.error_queue[j]
  <2>1. v.error_queue \in Seq(Session) /\ v.error_queue # <<>>
    BY <1>8, <1>3
  <2>2. /\ Tail(v.error_queue) \in Seq(Session) /\ Len(Tail(v.error_queue)) = Len(v.error_queue) - 1
        /\ \A i \in 1 .. Len(Tail(v.error_queue)) : Tail(v.error_queue)[i] = v.error_queue[i + 1]
    BY <2>1, HeadTailProperties
  <2>3. ASSUME NEW i \in DOMAIN Tail(v.error_queue)
        PROVE  i + 1 \in DOMAIN v.error_queue /\ Tail(v.error_queue)[i] = v.error_queue[i + 1]
    BY <2>1, <2>2
  <2> QED
    BY <2>2, <2>3
<1>12. w \in LuaState
  <2>1. Tail(v.error_queue) \in Seq(Session)
    BY <1>11
  <2> QED
    BY <1>2, <1>6, <2>1 DEF LuaState
<1>13. /\ w.session_id = v.session_id
       /\ w.session_id_coroutine = v.session_id_coroutine
       /\ w.sleep_session = v.sleep_session /\ w.watching_session = v.watching_session
       /\ w.error_queue = Tail(v.error_queue) /\ w.fork_queue = v.fork_queue
  BY <1>2, <1>6 DEF LuaState
<1>14. /\ SameServing(w, v) /\ w.dead_service = v.dead_service
       /\ w.wakeup_session = v.wakeup_session /\ w.faulted = v.faulted
  BY <1>2, <1>6 DEF LuaState, SameServing
<1>15. Serves(w)
  BY <1>2, <1>14, ServesKept
<1>16. alive'[s] => alive[s]
  BY DEF dispatch_error_queue
<1>17. CASE c = NULL
  <2>1. Waiting(w, n)
    <3>1. Numbered(w, n)
      BY <1>2, <1>13 DEF Waiting, Numbered
    <3>2. Parked(w)
      BY <1>2, <1>13 DEF Waiting, Parked
    <3>3. Failing(w)
      BY <1>2, <1>13, <1>11 DEF Waiting, Failing
    <3> QED
      BY <3>1, <3>2, <3>3 DEF Waiting
  <2>2. PICK u : u = lua'[s] /\ u = Raise(w)
    BY <1>7, <1>17
  <2>3. /\ u \in LuaState /\ SameTables(u, w) /\ u.faulted
        /\ Waiting(u, n) /\ Serves(u) /\ u.run = NULL /\ u.ph \in {"fork", "idle"}
    BY <1>2, <1>12, <2>1, <1>15, <2>2, RaiseTables
  <2>4. Own(s)'
    BY <1>2, <2>2, <2>3, <1>16, OwnNext
  <2>5. v.watching_session = [v.watching_session EXCEPT ![q] = NULL]
    <3>1. v.watching_session[q] = NULL
      <4>1. NULL \notin Co
        BY LuaAssumption
      <4>2. \A p \in Session : v.watching_session[p] # NULL => v.session_id_coroutine[p] \in Co
        BY <1>2 DEF Waiting, Parked
      <4> QED
        BY <1>9, <1>5, <1>17, <4>1, <4>2
    <3> QED
      BY <3>1, <1>8
  <2>6. /\ SameServing(u, v) /\ u.dead_service = v.dead_service /\ u.session_id = v.session_id
        /\ u.error_queue = Tail(v.error_queue) /\ u.ph # "exit"
        /\ u.watching_session = [v.watching_session EXCEPT ![q] = NULL]
    BY <1>13, <1>14, <2>3, <2>5 DEF SameServing, SameTables
  <2> QED
    BY <1>1, <1>4, <1>3, <1>9, <2>2, <2>3, <2>4, <2>6
<1>18. CASE c # NULL
  <2>1. c \in Co /\ NULL \in Svc \cup {NULL}
    BY <1>8, <1>9, <1>5, <1>10, <1>18
  <2>2. PICK x : x = [w EXCEPT !.session_id_coroutine[q] = NULL, !.watching_session[q] = NULL]
    OBVIOUS
  <2>3. x \in LuaState
    <3>1. q \in Session
      BY <1>9
    <3> QED
      BY <1>12, <3>1, <2>2 DEF LuaState
  <2>4. /\ x.session_id = w.session_id
        /\ x.session_id_coroutine = [w.session_id_coroutine EXCEPT ![q] = NULL]
        /\ x.sleep_session = w.sleep_session
        /\ x.watching_session = [w.watching_session EXCEPT ![q] = NULL]
        /\ x.error_queue = w.error_queue /\ x.fork_queue = w.fork_queue
    BY <1>12, <2>2 DEF LuaState
  <2>5. /\ SameServing(x, w) /\ x.dead_service = w.dead_service
        /\ x.wakeup_session = w.wakeup_session /\ x.faulted = w.faulted
    BY <1>12, <2>2 DEF LuaState, SameServing
  <2>6. v.sleep_session = [v.sleep_session EXCEPT ![c] = 0]
    <3>1. v.sleep_session[c] = 0
      <4>1. SUFFICES ASSUME v.sleep_session[c] # 0 PROVE FALSE
        OBVIOUS
      <4>2. PICK p : p = v.sleep_session[c] /\ p \in Session
        BY <4>1, <2>1, <1>8
      <4>3. v.session_id_coroutine[p] = c
        BY <1>2, <4>1, <4>2, <2>1 DEF Waiting, Parked
      <4>4. p # q
        BY <1>10, <4>2, <2>1
      <4>5. c \in {NULL, BREAK}
        BY <1>2, <1>5, <4>2, <4>3, <4>4, <1>9 DEF Waiting, Parked
      <4> QED
        BY <4>5, <1>18, <1>10
    <3> QED
      BY <3>1, <1>8
  <2>7. Waiting(x, n) /\ Idle(x, c)
    <3>1. /\ x.session_id_coroutine = [v.session_id_coroutine EXCEPT ![q] = NULL]
          /\ x.sleep_session = [v.sleep_session EXCEPT ![c] = 0]
          /\ x.watching_session = [v.watching_session EXCEPT ![q] = NULL]
          /\ x.session_id = v.session_id /\ x.fork_queue = v.fork_queue
      BY <2>4, <1>13, <2>6
    <3>2. /\ x.error_queue \in Seq(Session)
          /\ \A i \in DOMAIN x.error_queue :
                \E j \in DOMAIN v.error_queue : x.error_queue[i] = v.error_queue[j]
      BY <2>4, <1>13, <1>11
    <3>3. NULL \in {NULL, BREAK} /\ NULL # BREAK /\ v.session_id_coroutine[q] = c /\ q \in Session
      BY <1>5, <1>9, LuaAssumption
    <3>4. Unparks(x, v, q, c, NULL)
      BY <3>1, <3>2, <3>3 DEF Unparks
    <3> QED
      BY <1>2, <2>1, <3>3, <3>4, UnparkWaiting
  <2>8. Serves(x)
    BY <1>15, <2>5, ServesKept
  <2>9. Draining(v) => Awaited(x)
    BY <1>13, <1>14, <2>4, <2>5 DEF Draining, Awaited
  <2>10. PICK u : u = lua'[s] /\ u = Resume(x, c)
    BY <1>7, <1>18, <2>2
  <2>11. /\ u \in LuaState /\ SameTables(u, x) /\ u.faulted = x.faulted
         /\ Waiting(u, n) /\ Serves(u) /\ u.run = c /\ Idle(u, c) /\ u.ph = "run"
         /\ Awaited(x) => Draining(u)
    BY <1>2, <2>1, <2>3, <2>7, <2>8, <2>10, ResumeTables
  <2>12. Own(s)'
    BY <1>2, <1>14, <2>5, <2>9, <2>10, <2>11, <1>16, OwnNext
  <2>13. /\ SameServing(u, v) /\ u.dead_service = v.dead_service /\ u.session_id = v.session_id
         /\ u.error_queue = Tail(v.error_queue) /\ u.ph # "exit"
         /\ u.watching_session = [v.watching_session EXCEPT ![q] = NULL]
    BY <1>13, <1>14, <2>4, <2>5, <2>11 DEF SameServing, SameTables
  <2> QED
    BY <1>1, <1>4, <1>3, <1>9, <2>10, <2>11, <2>12, <2>13
<1> QED
  BY <1>17, <1>18

-----------------------------------------------------------------------------
(* What a message does to the tables of the service that takes it *)

(* A walk of a finite set visits each of its elements. *)
LEMMA WalkCovers ==
    ASSUME NEW S, IsFiniteSet(S), NEW f \in SetToSeqs(S)
    PROVE  f \in Seq(S) /\ \A x \in S : \E i \in DOMAIN f : f[i] = x
<1>1. PICK k : k = Cardinality(S)
  OBVIOUS
<1>2. k \in Nat
  BY <1>1, FS_CardinalityType
<1>3. f \in [1 .. k -> S] /\ \A i, j \in 1 .. k : i # j => f[i] # f[j]
  BY <1>1 DEF SetToSeqs
<1>4. f \in Seq(S)
  BY <1>2, <1>3, IsASeq
<1>5. f \in Injection(1 .. k, S)
  BY <1>3 DEF Injection, IsInjective
<1>6. Cardinality(1 .. k) = k
  <2>1. Cardinality(1 .. k) = IF 1 > k THEN 0 ELSE k - 1 + 1
    BY <1>2, FS_Interval
  <2> QED
    BY <2>1, <1>2
<1>7. f \in Surjection(1 .. k, S)
  BY <1>5, <1>6, <1>1, FS_Injection
<1>8. \A x \in S : \E i \in 1 .. k : f[i] = x
  BY <1>7 DEF Surjection
<1> QED
  BY <1>3, <1>4, <1>8

(* A message is taken: the rest of the visit is noted. *)
LEMMA LeftOwn ==
    ASSUME TypeOK, NEW s \in Svc, Own(s), lua[s].ph = "idle", NEW k \in 0 .. MaxRound - 1,
           NEW v, v = [lua[s] EXCEPT !.left = k]
    PROVE  /\ v \in LuaState /\ nops[s] \in Nat /\ Waiting(v, nops[s]) /\ Serves(v)
           /\ SameWaiting(v, lua[s]) /\ SameServing(v, lua[s])
           /\ v.dead_service = lua[s].dead_service /\ v.wakeup_session = lua[s].wakeup_session
           /\ v.faulted = lua[s].faulted
           /\ alive[s] /\ ~ v.faulted => v.wakeup_session = {} /\ v.error_queue = <<>>
           /\ \A x : Set(s, x) => lua'[s] = x
<1>1. PICK y, n : y = lua[s] /\ n = nops[s]
  OBVIOUS
<1>2. /\ y \in LuaState /\ n \in Nat /\ Waiting(y, n) /\ Serves(y)
      /\ alive[s] /\ ~ y.faulted => Draining(y)
      /\ \A x : Set(s, x) => lua'[s] = x
  BY <1>1, OwnState
<1>3. v = [y EXCEPT !.left = k]
  BY <1>1
<1>4. v \in LuaState
  BY <1>2, <1>3 DEF LuaState
<1>5. SameWaiting(v, y)
  BY <1>2, <1>3 DEF LuaState, SameWaiting
<1>6. SameServing(v, y)
  BY <1>2, <1>3 DEF LuaState, SameServing
<1>7. /\ v.dead_service = y.dead_service /\ v.wakeup_session = y.wakeup_session
      /\ v.faulted = y.faulted /\ y.ph = "idle"
  BY <1>1, <1>2, <1>3 DEF LuaState
<1>8. Waiting(v, n)
  BY <1>2, <1>5, WaitingKept
<1>9. Serves(v)
  BY <1>2, <1>6, <1>7, ServesKept
<1>10. alive[s] /\ ~ v.faulted => v.wakeup_session = {} /\ v.error_queue = <<>>
  BY <1>2, <1>5, <1>7 DEF Draining, SameWaiting
<1> QED
  BY <1>1, <1>2, <1>4, <1>5, <1>6, <1>7, <1>8, <1>9, <1>10

(* A message of a protocol the service does not know. *)
LEMMA TakeUnknownOwn ==
    ASSUME TypeOK, NEW s \in Svc, Own(s), lua[s].ph = "idle", NEW k \in 0 .. MaxRound - 1,
           NEW v, v = [lua[s] EXCEPT !.left = k],
           NEW m \in Message, alive' = alive, nops' = nops,
           TakeUnknown(s, v, m)
    PROVE  lua'[s] \in LuaState /\ Own(s)' /\ Quiet(lua'[s], lua[s])
<1>1. PICK n : n = nops[s]
  OBVIOUS
<1>2. /\ v \in LuaState /\ n \in Nat /\ Waiting(v, n) /\ Serves(v)
      /\ SameWaiting(v, lua[s]) /\ SameServing(v, lua[s])
      /\ v.dead_service = lua[s].dead_service /\ v.wakeup_session = lua[s].wakeup_session
      /\ v.faulted = lua[s].faulted
      /\ alive[s] /\ ~ v.faulted => v.wakeup_session = {} /\ v.error_queue = <<>>
      /\ \A x : Set(s, x) => lua'[s] = x
  BY <1>1, LeftOwn
<1>3. (alive'[s] => alive[s]) /\ nops'[s] = n
  BY <1>1
<1>4. m.src \in Svc /\ m.session \in {0} \cup Session
  BY DEF Message
<1>5. v.session_id \in Nat /\ n \in Nat
  BY <1>2 DEF LuaState
<1>6. lua'[s] = IF m.session = 0 THEN Raise(v) ELSE ToFork(v)
  BY <1>2 DEF TakeUnknown
<1>7. PICK u : u = lua'[s]
  OBVIOUS
<1>8. /\ u \in LuaState /\ SameTables(u, v) /\ (u.faulted \/ u.faulted = v.faulted)
      /\ Waiting(u, n) /\ Serves(u) /\ u.run = NULL /\ u.ph \in {"fork", "idle"}
      /\ alive[s] /\ ~ u.faulted => Draining(u)
  <2>1. CASE m.session = 0
    <3>1. u = Raise(v)
      BY <1>6, <1>7, <2>1
    <3> QED
      BY <1>2, <3>1, RaiseTables
  <2>2. CASE m.session # 0
    <3>1. u = ToFork(v)
      BY <1>6, <1>7, <2>2
    <3> QED
      BY <1>2, <3>1, ToForkTables
  <2> QED
    BY <2>1, <2>2
<1>9. Own(s)'
  BY <1>7, <1>8, <1>3, OwnNext
<1>10. Quiet(u, lua[s])
  BY <1>2, <1>8, <1>5 DEF Quiet, Steady, SameServing, SameWaiting, SameTables
<1> QED
  BY <1>7, <1>8, <1>9, <1>10

(* A request of s starts coroutine c. *)
Starting(s, v, c, m) == c \in co_create(v) /\ Set(s, Started(v, c, m))

(* Coroutine c, which served none, has request r. *)
Given(u, v, c, r) ==
    /\ c \in Co /\ v.session_coroutine[c] = NULL
    /\ u.session_coroutine = [v.session_coroutine EXCEPT ![c] = r]

(* A request starts a coroutine. *)
LEMMA TakeRequestOwn ==
    ASSUME TypeOK, NEW s \in Svc, Own(s), lua[s].ph = "idle", NEW k \in 0 .. MaxRound - 1,
           NEW v, v = [lua[s] EXCEPT !.left = k],
           NEW m \in Message, alive' = alive, nops' = nops,
           Unserved(lua[s], ReqOf(m)), NEW c, Starting(s, v, c, m)
    PROVE  /\ lua'[s] \in LuaState /\ Own(s)' /\ Steady(lua'[s], lua[s])
           /\ lua'[s].unresponse = lua[s].unresponse
           /\ lua'[s].session_response = lua[s].session_response
           /\ Given(lua'[s], lua[s], c, ReqOf(m))
<1>1. PICK n : n = nops[s]
  OBVIOUS
<1>2. /\ v \in LuaState /\ n \in Nat /\ Waiting(v, n) /\ Serves(v)
      /\ SameWaiting(v, lua[s]) /\ SameServing(v, lua[s])
      /\ v.dead_service = lua[s].dead_service /\ v.wakeup_session = lua[s].wakeup_session
      /\ v.faulted = lua[s].faulted
      /\ alive[s] /\ ~ v.faulted => v.wakeup_session = {} /\ v.error_queue = <<>>
      /\ \A x : Set(s, x) => lua'[s] = x
  BY <1>1, LeftOwn
<1>3. (alive'[s] => alive[s]) /\ nops'[s] = n
  BY <1>1
<1>4. m.src \in Svc /\ m.session \in {0} \cup Session
  BY DEF Message
<1>5. v.session_id \in Nat /\ n \in Nat
  BY <1>2 DEF LuaState
<1>6. PICK r : r = ReqOf(m)
  OBVIOUS
<1>7. r \in Request /\ r.src = m.src /\ r.session = m.session /\ m.src \in Svc
  BY <1>6, <1>4 DEF Request, ReqOf
<1>8. lua'[s] = Started(v, c, m) /\ c \in co_create(v)
  BY <1>2 DEF Starting
<1>9. lua'[s] = Resume([v EXCEPT !.session_coroutine[c] = r, !.watching_service[m.src] = @ + 1], c)
  BY <1>8, <1>6 DEF ReqOf, Started
<1>10. c \in Co /\ Idle(v, c) /\ v.session_coroutine[c] = NULL
  BY <1>2, <1>8, CoCreated
<1>11. PICK f : f = [v.watching_service EXCEPT ![m.src] = @ + 1]
  OBVIOUS
<1>12. PICK w : w = [v EXCEPT !.session_coroutine[c] = r, !.watching_service = f]
  OBVIOUS
<1>13. PICK u : u = lua'[s] /\ u = Resume(w, c)
  BY <1>9, <1>11, <1>12
<1>14. f \in [Svc -> Nat]
  <2>1. v.watching_service \in [Svc -> Nat]
    BY <1>2 DEF LuaState
  <2> QED
    BY <2>1, <1>11, <1>4
<1>15. w \in LuaState
  <2>1. r \in Request /\ c \in Co /\ v \in LuaState
    BY <1>7, <1>10, <1>2
  <2> QED
    BY <2>1, <1>14, <1>12 DEF LuaState
<1>16. SameWaiting(w, v)
  BY <1>2, <1>12 DEF LuaState, SameWaiting
<1>17. /\ w.session_coroutine = [v.session_coroutine EXCEPT ![c] = r]
       /\ w.session_response = v.session_response /\ w.unresponse = v.unresponse
       /\ w.watching_service = f /\ w.faulted = v.faulted
       /\ w.dead_service = v.dead_service /\ w.wakeup_session = v.wakeup_session
  BY <1>2, <1>12 DEF LuaState
<1>18. Waiting(w, n)
  BY <1>2, <1>16, WaitingKept
<1>19. Unserved(v, r)
  BY <1>2, <1>6, <1>7 DEF SameServing, Unserved
<1>20. Serves(w)
  <2>1. w.watching_service = [v.watching_service EXCEPT ![r.src] = @ + 1]
    BY <1>17, <1>11, <1>7
  <2>2. r # NULL
    BY <1>7, LuaAssumption
  <2>3. v \in LuaState /\ Serves(v) /\ c \in Co /\ v.session_coroutine[c] = NULL /\ r \in Request
    BY <1>2, <1>10, <1>7
  <2>4. Starts(w, v, c, r)
    BY <1>17, <2>1 DEF Starts
  <2> QED
    BY <1>19, <2>3, <2>4, <2>2, TakeServes
<1>21. Idle(w, c)
  BY <1>10, <1>16 DEF Idle, SameWaiting
<1>22. /\ u \in LuaState /\ SameTables(u, w) /\ u.faulted = w.faulted
       /\ Waiting(u, n) /\ Serves(u) /\ u.run = c /\ Idle(u, c) /\ u.ph = "run"
       /\ Awaited(w) => Draining(u)
  BY <1>5, <1>10, <1>15, <1>18, <1>20, <1>21, <1>13, ResumeTables
<1>23. alive[s] /\ ~ u.faulted => Draining(u)
  BY <1>2, <1>17, <1>22 DEF Awaited
<1>24. Own(s)'
  BY <1>13, <1>22, <1>23, <1>3, OwnNext
<1>25. Steady(u, lua[s])
  BY <1>2, <1>16, <1>17, <1>22, <1>5 DEF Steady, SameWaiting, SameTables
<1>26. /\ lua[s].session_coroutine[c] = NULL /\ u.unresponse = lua[s].unresponse
       /\ u.session_coroutine = [lua[s].session_coroutine EXCEPT ![c] = r]
       /\ u.session_response = lua[s].session_response
  BY <1>2, <1>10, <1>17, <1>22 DEF SameServing, SameTables
<1> QED
  BY <1>6, <1>10, <1>13, <1>22, <1>24, <1>25, <1>26 DEF Given

(* A request of a service without a dispatch function. *)
LEMMA TakeRefusedOwn ==
    ASSUME TypeOK, NEW s \in Svc, Own(s), lua[s].ph = "idle", NEW k \in 0 .. MaxRound - 1,
           NEW v, v = [lua[s] EXCEPT !.left = k],
           NEW m \in Message, alive' = alive, nops' = nops,
           ~ v.dispatch, TakeRequest(s, v, m)
    PROVE  lua'[s] \in LuaState /\ Own(s)' /\ Quiet(lua'[s], lua[s])
<1>1. PICK n : n = nops[s]
  OBVIOUS
<1>2. /\ v \in LuaState /\ n \in Nat /\ Waiting(v, n) /\ Serves(v)
      /\ SameWaiting(v, lua[s]) /\ SameServing(v, lua[s])
      /\ v.dead_service = lua[s].dead_service
      /\ v.faulted = lua[s].faulted
      /\ alive[s] /\ ~ v.faulted => v.wakeup_session = {} /\ v.error_queue = <<>>
      /\ \A x : Set(s, x) => lua'[s] = x
  BY <1>1, LeftOwn
<1>3. PICK u : u = lua'[s] /\ u = ToFork(v)
  BY <1>2 DEF TakeRequest
<1>4. /\ u \in LuaState /\ SameTables(u, v) /\ u.faulted = v.faulted
      /\ Waiting(u, n) /\ Serves(u) /\ u.run = NULL /\ u.ph \in {"fork", "idle"}
      /\ v.wakeup_session = {} /\ v.error_queue = <<>> => Draining(u)
  BY <1>2, <1>3, ToForkTables
<1>5. Own(s)'
  BY <1>1, <1>2, <1>3, <1>4, OwnNext
<1>6. v.session_id \in Nat
  BY <1>2 DEF LuaState
<1>7. Quiet(u, lua[s])
  BY <1>2, <1>4, <1>6 DEF Quiet, Steady, SameServing, SameWaiting, SameTables
<1> QED
  BY <1>3, <1>4, <1>5, <1>7

(* The call of session q has returned. *)
Returned(u, v, q) == u.watching_session = [v.watching_session EXCEPT ![q] = NULL]

(* An answer, or the response of a timer. *)
LEMMA TakeResponseOwn ==
    ASSUME TypeOK, NEW s \in Svc, Own(s), lua[s].ph = "idle", NEW k \in 0 .. MaxRound - 1,
           NEW v, v = [lua[s] EXCEPT !.left = k],
           NEW m \in Message, alive' = alive, nops' = nops,
           m.session # 0, TakeResponse(s, v, m)
    PROVE  /\ lua'[s] \in LuaState /\ Own(s)'
           /\ SameServing(lua'[s], lua[s]) /\ lua'[s].dead_service = lua[s].dead_service
           /\ lua'[s].session_id = lua[s].session_id /\ lua'[s].error_queue = lua[s].error_queue
           /\ lua'[s].ph # "exit"
           /\ Returned(lua'[s], lua[s], m.session)
<1>1. PICK n : n = nops[s]
  OBVIOUS
<1>2. /\ v \in LuaState /\ n \in Nat /\ Waiting(v, n) /\ Serves(v)
      /\ SameWaiting(v, lua[s]) /\ SameServing(v, lua[s])
      /\ v.dead_service = lua[s].dead_service /\ v.wakeup_session = lua[s].wakeup_session
      /\ v.faulted = lua[s].faulted
      /\ alive[s] /\ ~ v.faulted => v.wakeup_session = {} /\ v.error_queue = <<>>
      /\ \A x : Set(s, x) => lua'[s] = x
  BY <1>1, LeftOwn
<1>3. (alive'[s] => alive[s]) /\ nops'[s] = n
  BY <1>1
<1>4. m.src \in Svc /\ m.session \in {0} \cup Session
  BY DEF Message
<1>5. v.session_id \in Nat /\ n \in Nat
  BY <1>2 DEF LuaState
<1>6. PICK q : q = m.session
  OBVIOUS
<1>7. q \in Session
  BY <1>6, <1>4
<1>8. PICK c : c = v.session_id_coroutine[q]
  OBVIOUS
<1>9. PICK w : w = [v EXCEPT !.session_id_coroutine[q] = NULL]
  OBVIOUS
<1>10. lua'[s] = IF c = BREAK THEN ToFork(w) ELSE IF c = NULL THEN Raise(v)
                 ELSE Resume([w EXCEPT !.watching_session[q] = NULL, !.sleep_session[c] = 0], c)
  BY <1>2, <1>6, <1>8, <1>9 DEF TakeResponse
<1>11. /\ v.session_id_coroutine \in [Session -> Co \cup {NULL, BREAK}]
       /\ v.watching_session \in [Session -> Svc \cup {NULL}]
       /\ v.sleep_session \in [Co -> {0} \cup Session]
       /\ v.error_queue \in Seq(Session)
  BY <1>2 DEF LuaState
<1>12. w \in LuaState
  <2>1. v \in LuaState
    BY <1>2
  <2> QED
    BY <2>1, <1>7, <1>9 DEF LuaState
<1>13. /\ w.session_id = v.session_id
       /\ w.session_id_coroutine = [v.session_id_coroutine EXCEPT ![q] = NULL]
       /\ w.sleep_session = v.sleep_session /\ w.watching_session = v.watching_session
       /\ w.error_queue = v.error_queue /\ w.fork_queue = v.fork_queue
  BY <1>2, <1>9 DEF LuaState
<1>14. /\ SameServing(w, v) /\ w.dead_service = v.dead_service
       /\ w.wakeup_session = v.wakeup_session /\ w.faulted = v.faulted
  BY <1>2, <1>9 DEF LuaState, SameServing
<1>15. Serves(w)
  BY <1>2, <1>14, ServesKept
<1>16. NULL \notin Co /\ BREAK \notin Co /\ NULL # BREAK
  BY LuaAssumption
<1>17. c \in {NULL, BREAK} => v.watching_session[q] = NULL /\ \A e \in Co : v.sleep_session[e] # q
  <2>1. SUFFICES ASSUME c \in {NULL, BREAK}
                 PROVE  v.watching_session[q] = NULL /\ \A e \in Co : v.sleep_session[e] # q
    OBVIOUS
  <2>2. c \notin Co
    BY <2>1, <1>16
  <2>3. Parked(v)
    BY <1>2 DEF Waiting
  <2>4. v.watching_session[q] # NULL => c \in Co
    BY <2>3, <1>7, <1>8 DEF Parked
  <2>5. ASSUME NEW e \in Co PROVE v.sleep_session[e] # q
    <3>1. v.sleep_session[e] # 0 => v.session_id_coroutine[v.sleep_session[e]] = e
      BY <2>3 DEF Parked
    <3>2. q # 0
      BY <1>6
    <3> QED
      BY <3>1, <3>2, <2>2, <1>8
  <2> QED
    BY <2>2, <2>4, <2>5
<1>18. v.watching_session[q] = NULL => v.watching_session = [v.watching_session EXCEPT ![q] = NULL]
  BY <1>11
<1>19. CASE c = BREAK
  <2>1. \A p \in Session : w.session_id_coroutine[p] = IF p = q THEN NULL ELSE v.session_id_coroutine[p]
    BY <1>13, <1>11
  <2>2. Waiting(w, n)
    <3>1. Numbered(w, n)
      BY <1>2, <1>13, <2>1 DEF Waiting, Numbered
    <3>2. Parked(w)
      <4>1. Parked(v)
        BY <1>2 DEF Waiting
      <4>2. \A p, y \in Session :
               w.session_id_coroutine[p] = w.session_id_coroutine[y] /\ p # y
               => w.session_id_coroutine[p] \in {NULL, BREAK}
        BY <4>1, <2>1 DEF Parked
      <4>3. \A p \in Session : w.watching_session[p] # NULL =>
               /\ w.session_id_coroutine[p] \in Co
               /\ \A e \in Co : w.sleep_session[e] # p
        BY <4>1, <2>1, <1>13, <1>17, <1>19 DEF Parked
      <4>4. ASSUME NEW e \in Co, w.sleep_session[e] # 0
            PROVE  w.session_id_coroutine[w.sleep_session[e]] = e
        <5>1. w.sleep_session[e] = v.sleep_session[e] /\ v.sleep_session[e] \in Session
          BY <4>4, <1>13, <1>11
        <5>2. v.sleep_session[e] # q
          BY <1>17, <1>19
        <5>3. v.session_id_coroutine[v.sleep_session[e]] = e
          BY <4>1, <4>4, <5>1 DEF Parked
        <5> QED
          BY <5>1, <5>2, <5>3, <2>1
      <4>5. \A e \in w.fork_queue : \A p \in Session : w.session_id_coroutine[p] # e
        <5>1. v.fork_queue \subseteq Co
          BY <1>2 DEF LuaState
        <5>2. \A e \in v.fork_queue : \A p \in Session : v.session_id_coroutine[p] # e
          BY <4>1 DEF Parked
        <5> QED
          BY <5>1, <5>2, <1>13, <2>1, <1>16
      <4> QED
        BY <4>2, <4>3, <4>4, <4>5 DEF Parked
    <3>3. Failing(w)
      <4>1. Failing(v)
        BY <1>2 DEF Waiting
      <4>2. \A i \in DOMAIN v.error_queue : v.error_queue[i] \in Session
        BY <1>11
      <4> QED
        BY <4>1, <4>2, <2>1, <1>13, <1>16 DEF Failing
    <3> QED
      BY <3>1, <3>2, <3>3 DEF Waiting
  <2>3. PICK u : u = lua'[s] /\ u = ToFork(w)
    BY <1>10, <1>19
  <2>4. /\ u \in LuaState /\ SameTables(u, w) /\ u.faulted = w.faulted
        /\ Waiting(u, n) /\ Serves(u) /\ u.run = NULL /\ u.ph \in {"fork", "idle"}
        /\ w.wakeup_session = {} /\ w.error_queue = <<>> => Draining(u)
    BY <1>5, <1>12, <2>2, <1>15, <2>3, ToForkTables
  <2>5. alive[s] /\ ~ u.faulted => Draining(u)
    BY <1>2, <1>13, <1>14, <2>4
  <2>6. Own(s)'
    BY <2>3, <2>4, <2>5, <1>3, OwnNext
  <2>7. /\ SameServing(u, lua[s]) /\ u.dead_service = lua[s].dead_service
        /\ u.session_id = lua[s].session_id /\ u.error_queue = lua[s].error_queue
        /\ u.ph # "exit"
        /\ u.watching_session = [lua[s].watching_session EXCEPT ![q] = NULL]
    BY <1>2, <1>13, <1>14, <2>4, <1>17, <1>18, <1>19 DEF SameServing, SameWaiting,
       SameTables
  <2> QED
    BY <1>6, <2>3, <2>4, <2>6, <2>7 DEF Returned
<1>20. CASE c = NULL
  <2>1. PICK u : u = lua'[s] /\ u = Raise(v)
    BY <1>10, <1>20, <1>16
  <2>2. /\ u \in LuaState /\ SameTables(u, v) /\ u.faulted
        /\ Waiting(u, n) /\ Serves(u) /\ u.run = NULL /\ u.ph \in {"fork", "idle"}
    BY <1>2, <2>1, RaiseTables
  <2>3. Own(s)'
    BY <2>1, <2>2, <1>3, OwnNext
  <2>4. /\ SameServing(u, lua[s]) /\ u.dead_service = lua[s].dead_service
        /\ u.session_id = lua[s].session_id /\ u.error_queue = lua[s].error_queue
        /\ u.ph # "exit"
        /\ u.watching_session = [lua[s].watching_session EXCEPT ![q] = NULL]
    BY <1>2, <2>2, <1>17, <1>18, <1>20 DEF SameServing, SameWaiting, SameTables
  <2> QED
    BY <1>6, <2>1, <2>2, <2>3, <2>4 DEF Returned
<1>21. CASE c \notin {NULL, BREAK}
  <2>1. c \in Co
    BY <1>11, <1>7, <1>8, <1>21
  <2>2. PICK x : x = [w EXCEPT !.watching_session[q] = NULL, !.sleep_session[c] = 0]
    OBVIOUS
  <2>3. x \in LuaState
    <3>1. 0 \in {0} \cup Session /\ NULL \in Svc \cup {NULL}
      OBVIOUS
    <3> QED
      BY <1>12, <1>7, <2>1, <2>2, <3>1 DEF LuaState
  <2>4. /\ x.session_id = w.session_id
        /\ x.session_id_coroutine = w.session_id_coroutine
        /\ x.sleep_session = [w.sleep_session EXCEPT ![c] = 0]
        /\ x.watching_session = [w.watching_session EXCEPT ![q] = NULL]
        /\ x.error_queue = w.error_queue /\ x.fork_queue = w.fork_queue
    BY <1>12, <2>2 DEF LuaState
  <2>5. /\ SameServing(x, w) /\ x.dead_service = w.dead_service
        /\ x.wakeup_session = w.wakeup_session /\ x.faulted = w.faulted
    BY <1>12, <2>2 DEF LuaState, SameServing
  <2>6. Unparks(x, v, q, c, NULL)
    BY <1>8, <1>13, <2>4, <1>11, <1>16 DEF Unparks
  <2>7. Waiting(x, n) /\ Idle(x, c)
    <3>1. v \in LuaState /\ Waiting(v, n)
      BY <1>2
    <3> QED
      BY <3>1, <1>7, <2>1, <2>6, UnparkWaiting
  <2>8. Serves(x)
    BY <1>15, <2>5, ServesKept
  <2>9. alive[s] /\ ~ x.faulted => Awaited(x)
    BY <1>2, <1>14, <2>5 DEF Awaited
  <2>10. PICK u : u = lua'[s] /\ u = Resume(x, c)
    BY <1>10, <1>21, <2>2
  <2>11. /\ u \in LuaState /\ SameTables(u, x) /\ u.faulted = x.faulted
         /\ Waiting(u, n) /\ Serves(u) /\ u.run = c /\ Idle(u, c) /\ u.ph = "run"
         /\ Awaited(x) => Draining(u)
    BY <1>5, <2>1, <2>3, <2>7, <2>8, <2>10, ResumeTables
  <2>12. Own(s)'
    BY <2>9, <2>10, <2>11, <1>3, OwnNext
  <2>13. /\ SameServing(u, lua[s]) /\ u.dead_service = lua[s].dead_service
         /\ u.session_id = lua[s].session_id /\ u.error_queue = lua[s].error_queue
         /\ u.ph # "exit"
         /\ u.watching_session = [lua[s].watching_session EXCEPT ![q] = NULL]
    BY <1>2, <1>13, <1>14, <2>4, <2>5, <2>11 DEF SameServing, SameWaiting, SameTables
  <2> QED
    BY <1>6, <2>10, <2>11, <2>12, <2>13 DEF Returned
<1> QED
  BY <1>19, <1>20, <1>21

(* The place of an element behind x others. *)
LEMMA Shifted ==
    ASSUME NEW x \in Nat, NEW y \in Nat, NEW i \in 1 .. y
    PROVE  x + i \in 1 .. x + y /\ ~ (x + i <= x) /\ (x + i) - x = i
  OBVIOUS

(* An error message is recorded for the calls it is about. *)
LEMMA TakeErrorOwn ==
    ASSUME TypeOK, NEW s \in Svc, Own(s), lua[s].ph = "idle", NEW k \in 0 .. MaxRound - 1,
           NEW v, v = [lua[s] EXCEPT !.left = k],
           NEW m \in Message, alive' = alive, nops' = nops,
           TakeError(s, v, m)
    PROVE  /\ lua'[s] \in LuaState /\ Own(s)' /\ SameServing(lua'[s], lua[s])
           /\ lua'[s].session_id = lua[s].session_id /\ lua'[s].ph # "exit"
           /\ lua'[s].watching_session = lua[s].watching_session
           /\ lua'[s].dead_service = lua[s].dead_service \cup (IF m.session = 0 THEN {m.src} ELSE {})
           /\ \A i \in DOMAIN lua[s].error_queue :
                 i \in DOMAIN lua'[s].error_queue /\ lua'[s].error_queue[i] = lua[s].error_queue[i]
           /\ \A q \in Session : lua[s].watching_session[q] # NULL
                                    /\ (m.session = q \/ (m.session = 0 /\ lua[s].watching_session[q] = m.src /\ m.src \notin ByName))
                 => \E i \in DOMAIN lua'[s].error_queue : lua'[s].error_queue[i] = q
<1>1. PICK n : n = nops[s]
  OBVIOUS
<1>2. /\ v \in LuaState /\ n \in Nat /\ Waiting(v, n) /\ Serves(v)
      /\ SameWaiting(v, lua[s]) /\ SameServing(v, lua[s])
      /\ v.dead_service = lua[s].dead_service /\ v.wakeup_session = lua[s].wakeup_session
      /\ v.faulted = lua[s].faulted
      /\ alive[s] /\ ~ v.faulted => v.wakeup_session = {} /\ v.error_queue = <<>>
      /\ \A x : Set(s, x) => lua'[s] = x
  BY <1>1, LeftOwn
<1>3. (alive'[s] => alive[s]) /\ nops'[s] = n
  BY <1>1
<1>4. m.src \in Svc /\ m.session \in {0} \cup Session
  BY DEF Message
<1>5. v.session_id \in Nat /\ n \in Nat
  BY <1>2 DEF LuaState
<1>6. PICK hit : hit = Hit(v, m)
  OBVIOUS
<1>7. /\ hit \subseteq Session
      /\ \A q \in hit : v.watching_session[q] # NULL
      /\ \A q \in Session : v.watching_session[q] # NULL
            /\ (m.session = q \/ (m.session = 0 /\ v.watching_session[q] = m.src /\ m.src \notin ByName))
            => q \in hit
  <2>1. m.src # NULL /\ \A q \in Session : q # 0
    BY <1>4, LuaAssumption DEF Session
  <2>2. CASE m.session = 0
    <3>1. hit = {q \in Session : v.watching_session[q] = m.src /\ m.src \notin ByName}
      BY <1>6, <2>2 DEF Hit
    <3> QED
      BY <2>1, <2>2, <3>1
  <2>3. CASE m.session # 0
    <3>1. hit = {m.session} \cap {q \in Session : v.watching_session[q] # NULL}
      BY <1>6, <2>3 DEF Hit
    <3> QED
      BY <2>1, <2>3, <3>1
  <2> QED
    BY <2>2, <2>3
<1>8. PICK order \in SetToSeqs(Hit(v, m)) : Set(s, Recorded(v, m, order))
  BY DEF TakeError
<1>9. order \in Seq(hit) /\ \A q \in hit : \E i \in DOMAIN order : order[i] = q
  <2>1. IsFiniteSet(hit)
    <3>1. 1 \in Int /\ MaxOp + 1 \in Int
      BY LuaAssumption
    <3>2. IsFiniteSet(Session)
      BY <3>1, FS_Interval DEF Session
    <3> QED
      BY <3>2, <1>7, FS_Subset
  <2> QED
    BY <2>1, <1>6, WalkCovers
<1>10. order \in Seq(Session) /\ \A i \in DOMAIN order : order[i] \in hit
  BY <1>9, <1>7
<1>11. v.error_queue \in Seq(Session) /\ v.dead_service \subseteq Svc
  BY <1>2 DEF LuaState
<1>12. PICK eq : eq = v.error_queue \o order
  OBVIOUS
<1>13. /\ eq \in Seq(Session) /\ Len(eq) = Len(v.error_queue) + Len(order)
       /\ \A i \in 1 .. Len(v.error_queue) + Len(order) :
             eq[i] = IF i <= Len(v.error_queue) THEN v.error_queue[i] ELSE order[i - Len(v.error_queue)]
  BY <1>12, <1>10, <1>11, ConcatProperties
<1>14. Len(v.error_queue) \in Nat /\ Len(order) \in Nat /\ DOMAIN eq = 1 .. Len(eq)
       /\ DOMAIN order = 1 .. Len(order) /\ DOMAIN v.error_queue = 1 .. Len(v.error_queue)
  BY <1>11, <1>10, <1>13, LenProperties
<1>15. \A i \in DOMAIN eq :
          \/ \E j \in DOMAIN v.error_queue : eq[i] = v.error_queue[j]
          \/ eq[i] \in hit
  <2>1. ASSUME NEW i \in DOMAIN eq
        PROVE  \/ \E j \in DOMAIN v.error_queue : eq[i] = v.error_queue[j]
               \/ eq[i] \in hit
    <3>1. i \in 1 .. Len(v.error_queue) + Len(order)
      BY <1>14, <1>13
    <3>2. CASE i <= Len(v.error_queue)
      BY <3>1, <3>2, <1>14, <1>13
    <3>3. CASE ~ (i <= Len(v.error_queue))
      <4>1. i - Len(v.error_queue) \in DOMAIN order
        BY <3>1, <3>3, <1>14
      <4> QED
        BY <4>1, <3>3, <3>1, <1>13, <1>10
    <3> QED
      BY <3>2, <3>3
  <2> QED
    BY <2>1
<1>16. \A i \in DOMAIN v.error_queue : i \in DOMAIN eq /\ eq[i] = v.error_queue[i]
  BY <1>14, <1>13
<1>17. \A q \in hit : \E i \in DOMAIN eq : eq[i] = q
  <2>1. ASSUME NEW q \in hit PROVE \E i \in DOMAIN eq : eq[i] = q
    <3>1. PICK i \in DOMAIN order : order[i] = q
      BY <1>9
    <3>2. PICK x \in Nat, y \in Nat : x = Len(v.error_queue) /\ y = Len(order) /\ i \in 1 .. y
      BY <3>1, <1>14
    <3>3. PICK j : j = x + i
      OBVIOUS
    <3>4. j \in 1 .. x + y /\ ~ (j <= x) /\ j - x = i
      BY <3>2, <3>3, Shifted
    <3>5. /\ j \in 1 .. Len(v.error_queue) + Len(order)
          /\ ~ (j <= Len(v.error_queue)) /\ j - Len(v.error_queue) = i
      BY <3>2, <3>4
    <3> QED
      BY <3>1, <3>5, <1>14, <1>13
  <2> QED
    BY <2>1
<1>18. PICK ds : ds = v.dead_service \cup {a \in {m.src} : m.session = 0}
  OBVIOUS
<1>19. ds = IF m.session = 0 THEN v.dead_service \cup {m.src} ELSE v.dead_service
  BY <1>18
<1>20. ds \subseteq Svc
  BY <1>18, <1>11, <1>4
<1>21. PICK w : w = [v EXCEPT !.error_queue = eq, !.dead_service = ds]
  OBVIOUS
<1>22. lua'[s] = Yield(w)
  BY <1>2, <1>8, <1>12, <1>19, <1>21 DEF Recorded
<1>23. w \in LuaState
  <2>1. v \in LuaState /\ eq \in Seq(Session)
    BY <1>2, <1>13
  <2> QED
    BY <2>1, <1>20, <1>21 DEF LuaState
<1>24. /\ w.session_id = v.session_id
       /\ w.session_id_coroutine = v.session_id_coroutine
       /\ w.sleep_session = v.sleep_session /\ w.watching_session = v.watching_session
       /\ w.error_queue = eq /\ w.fork_queue = v.fork_queue
  BY <1>2, <1>21 DEF LuaState
<1>25. /\ SameServing(w, v) /\ w.dead_service = ds
       /\ w.wakeup_session = v.wakeup_session /\ w.faulted = v.faulted
  BY <1>2, <1>18, <1>21 DEF LuaState, SameServing
<1>26. Serves(w)
  BY <1>2, <1>25, ServesKept
<1>27. Waiting(w, n)
  <2>1. Numbered(w, n)
    BY <1>2, <1>24 DEF Waiting, Numbered
  <2>2. Parked(w)
    BY <1>2, <1>24 DEF Waiting, Parked
  <2>3. ASSUME NEW q \in hit
        PROVE  /\ q <= v.session_id /\ v.session_id_coroutine[q] # BREAK
               /\ \A c \in Co : v.sleep_session[c] # q
    <3>1. q \in Session /\ v.watching_session[q] # NULL
      BY <1>7
    <3>2. /\ v.session_id_coroutine[q] \in Co
          /\ \A c \in Co : v.sleep_session[c] # q
      BY <3>1, <1>2 DEF Waiting, Parked
    <3>3. NULL \notin Co /\ BREAK \notin Co
      BY LuaAssumption
    <3>4. ~ (q > v.session_id)
      BY <1>2, <3>1, <3>2, <3>3 DEF Waiting, Numbered
    <3>5. q \in Nat
      BY <3>1, LuaAssumption DEF Session
    <3>6. q <= v.session_id
      BY <3>4, <3>5, <1>5
    <3> QED
      BY <3>2, <3>3, <3>6
  <2>4. Failing(w)
    <3>1. Failing(v)
      BY <1>2 DEF Waiting
    <3> QED
      BY <3>1, <2>3, <1>15, <1>24 DEF Failing
  <2> QED
    BY <2>1, <2>2, <2>4 DEF Waiting
<1>28. PICK u : u = lua'[s] /\ u = Yield(w)
  BY <1>22
<1>29. /\ u \in LuaState /\ SameTables(u, w) /\ u.faulted = w.faulted
       /\ Waiting(u, n) /\ Serves(u) /\ u.run = NULL /\ u.ph # "exit"
       /\ u.ph = "err" => u.error_queue # <<>>
       /\ Awaited(w) => Draining(u)
  BY <1>5, <1>23, <1>27, <1>26, <1>28, YieldTables
<1>30. alive[s] /\ ~ u.faulted => Draining(u)
  BY <1>2, <1>25, <1>29 DEF Awaited
<1>31. Own(s)'
  BY <1>28, <1>29, <1>30, <1>3, OwnNext
<1>32. /\ SameServing(u, lua[s]) /\ u.session_id = lua[s].session_id
       /\ u.watching_session = lua[s].watching_session /\ u.ph # "exit" /\ u.error_queue = eq
  BY <1>2, <1>24, <1>25, <1>29 DEF SameServing, SameWaiting, SameTables
<1>33. u.dead_service = lua[s].dead_service \cup (IF m.session = 0 THEN {m.src} ELSE {})
  BY <1>2, <1>25, <1>29, <1>19 DEF SameTables
<1>34. \A i \in DOMAIN lua[s].error_queue :
          i \in DOMAIN u.error_queue /\ u.error_queue[i] = lua[s].error_queue[i]
  BY <1>2, <1>16, <1>32 DEF SameWaiting
<1>35. \A q \in Session : lua[s].watching_session[q] # NULL
                             /\ (m.session = q \/ (m.session = 0 /\ lua[s].watching_session[q] = m.src /\ m.src \notin ByName))
          => \E i \in DOMAIN u.error_queue : u.error_queue[i] = q
  BY <1>2, <1>7, <1>17, <1>32 DEF SameWaiting
<1> QED
  BY <1>28, <1>29, <1>31, <1>32, <1>33, <1>34, <1>35

-----------------------------------------------------------------------------
(* Queues *)

(* Queue c is b with messages of M behind it. *)
Extends(c, b, M) ==
    /\ \A i \in DOMAIN b : i \in DOMAIN c /\ c[i] = b[i]
    /\ \A i \in DOMAIN c : i \in DOMAIN b \/ c[i] \in M

Queued(m, q) == \E i \in DOMAIN q : q[i] = m

(* A message is appended. *)
LEMMA AppendExtends ==
    ASSUME NEW b \in Seq(Message), NEW m \in Message, NEW c, c = Append(b, m)
    PROVE  c \in Seq(Message) /\ Extends(c, b, {m}) /\ Queued(m, c)
<1>1. /\ c \in Seq(Message) /\ Len(c) = Len(b) + 1
      /\ \A i \in 1 .. Len(b) : c[i] = b[i]
      /\ c[Len(b) + 1] = m
  BY AppendProperties
<1>2. PICK k \in Nat : k = Len(b) /\ DOMAIN b = 1 .. k /\ DOMAIN c = 1 .. k + 1
  BY <1>1, LenProperties
<1>3. \A i \in 1 .. k : i \in 1 .. k + 1
  OBVIOUS
<1>4. \A i \in 1 .. k + 1 : i \in 1 .. k \/ i = k + 1
  OBVIOUS
<1>5. k + 1 \in 1 .. k + 1
  OBVIOUS
<1> QED
  BY <1>1, <1>2, <1>3, <1>4, <1>5 DEF Extends, Queued

(* Messages are appended. *)
LEMMA ConcatExtends ==
    ASSUME NEW M, M \subseteq Message, NEW b \in Seq(Message), NEW e \in Seq(M), NEW c, c = b \o e
    PROVE  /\ c \in Seq(Message) /\ Extends(c, b, M)
           /\ \A i \in DOMAIN e : Queued(e[i], c)
<1>1. /\ c \in Seq(Message) /\ Len(c) = Len(b) + Len(e)
      /\ \A i \in 1 .. Len(b) + Len(e) : c[i] = IF i <= Len(b) THEN b[i] ELSE e[i - Len(b)]
  <2>1. e \in Seq(Message)
    OBVIOUS
  <2> QED
    BY <2>1, ConcatProperties
<1>2. \A i \in DOMAIN e : e[i] \in M
  OBVIOUS
<1>3. PICK k \in Nat, n \in Nat :
         /\ k = Len(b) /\ n = Len(e)
         /\ DOMAIN b = 1 .. k /\ DOMAIN e = 1 .. n /\ DOMAIN c = 1 .. k + n
  BY <1>1, LenProperties
<1>4. \A i \in 1 .. k + n : c[i] = IF i <= k THEN b[i] ELSE e[i - k]
  BY <1>1, <1>3
<1>5. \A i \in 1 .. k : i \in 1 .. k + n /\ i <= k
  OBVIOUS
<1>6. \A i \in 1 .. k + n : i \in 1 .. k \/ (~ (i <= k) /\ i - k \in 1 .. n)
  OBVIOUS
<1>7. \A i \in 1 .. n : k + i \in 1 .. k + n /\ ~ (k + i <= k) /\ (k + i) - k = i
  BY Shifted
<1>8. Extends(c, b, M)
  BY <1>3, <1>4, <1>5, <1>6, <1>2 DEF Extends
<1>9. ASSUME NEW i \in DOMAIN e PROVE Queued(e[i], c)
  <2>1. PICK j : j = k + i
    OBVIOUS
  <2>2. j \in 1 .. k + n /\ ~ (j <= k) /\ j - k = i
    BY <1>3, <1>7, <2>1
  <2>3. c[j] = e[i] /\ j \in DOMAIN c
    BY <1>3, <1>4, <2>2
  <2> QED
    BY <2>3 DEF Queued
<1> QED
  BY <1>1, <1>8, <1>9

(* Twice. *)
LEMMA ExtendsTwice ==
    ASSUME NEW b, NEW c, NEW d, NEW M, Extends(c, b, M), Extends(d, c, M)
    PROVE  Extends(d, b, M)
  BY DEF Extends

(* The first message is taken off. *)
LEMMA TailDrops ==
    ASSUME NEW S, NEW b \in Seq(S), b # <<>>, NEW c, c = Tail(b)
    PROVE  /\ c \in Seq(S) /\ 1 \in DOMAIN b /\ Head(b) = b[1] /\ Head(b) \in S
           /\ \A i \in DOMAIN c : i + 1 \in DOMAIN b /\ i + 1 # 1 /\ c[i] = b[i + 1]
           /\ \A i \in DOMAIN b : i = 1 \/ (i - 1 \in DOMAIN c /\ c[i - 1] = b[i])
           /\ \A i, j \in DOMAIN c : i + 1 = j + 1 => i = j
<1>1. /\ c \in Seq(S) /\ Len(c) = Len(b) - 1 /\ Head(b) \in S
      /\ \A i \in 1 .. Len(c) : c[i] = b[i + 1]
  BY HeadTailProperties
<1>2. Len(b) \in Nat /\ Len(b) # 0 /\ Head(b) = b[1]
  OBVIOUS
<1>3. PICK k \in Nat : Len(b) = k + 1 /\ DOMAIN b = 1 .. k + 1 /\ DOMAIN c = 1 .. k /\ Len(c) = k
  <2>1. PICK k : k = Len(b) - 1
    OBVIOUS
  <2>2. k \in Nat /\ Len(b) = k + 1
    BY <1>2, <2>1
  <2>3. Len(c) = k
    BY <1>1, <2>1
  <2>4. DOMAIN b = 1 .. Len(b) /\ DOMAIN c = 1 .. Len(c)
    BY <1>1, LenProperties
  <2> QED
    BY <2>2, <2>3, <2>4
<1>4. \A i \in 1 .. k : i + 1 \in 1 .. k + 1 /\ i + 1 # 1
  OBVIOUS
<1>5. \A i \in 1 .. k + 1 : i = 1 \/ (i - 1 \in 1 .. k /\ (i - 1) + 1 = i)
  OBVIOUS
<1>6. 1 \in 1 .. k + 1 /\ \A i, j \in 1 .. k : i + 1 = j + 1 => i = j
  OBVIOUS
<1>7. \A i \in 1 .. k : c[i] = b[i + 1]
  BY <1>1, <1>3
<1> QED
  BY <1>1, <1>2, <1>3, <1>4, <1>5, <1>6, <1>7

(* skynet_send. *)
LEMMA PostExtends ==
    ASSUME TypeOK, NEW b \in [Svc -> Seq(Message)], NEW to \in Svc, NEW m \in Message, NEW c, c = Post(b, to, m)
    PROVE  /\ c \in [Svc -> Seq(Message)]
           /\ \A d \in Svc : Extends(c[d], b[d], {m})
           /\ alive[to] => Queued(m, c[to])
           /\ \A d \in Svc : d # to => c[d] = b[d]
<1>1. \A d \in Svc : Extends(b[d], b[d], {m})
  BY DEF Extends
<1>2. CASE ~ alive[to]
  <2>1. c = b
    BY <1>2 DEF Post
  <2> QED
    BY <1>2, <1>1, <2>1
<1>3. CASE alive[to]
  <2>1. c = [b EXCEPT ![to] = Append(b[to], m)]
    BY <1>3 DEF Post
  <2>2. PICK q, p : p = b[to] /\ p \in Seq(Message) /\ q = Append(p, m)
    OBVIOUS
  <2>3. q \in Seq(Message) /\ Extends(q, p, {m}) /\ Queued(m, q)
    BY <2>2, AppendExtends
  <2>4. c[to] = q /\ (\A d \in Svc : d # to => c[d] = b[d]) /\ c \in [Svc -> Seq(Message)]
    BY <2>1, <2>2, <2>3
  <2> QED
    BY <1>3, <1>1, <2>2, <2>3, <2>4
<1> QED
  BY <1>2, <1>3

(* The error messages of s to callers. *)
ErrorsOf(s) == {m \in Message : m.type = "err" /\ m.src = s /\ m.session # 0}

(* The callers of a walk are told by s that it exits. *)
LEMMA PostErrorsExtends ==
    ASSUME TypeOK, NEW b \in [Svc -> Seq(Message)], NEW s \in Svc, NEW R, R \subseteq Request,
           \A r \in R : r.session # 0, IsFiniteSet(R), NEW w \in Walks(R), NEW c, c = PostErrors(b, s, w)
    PROVE  /\ c \in [Svc -> Seq(Message)]
           /\ \A d \in Svc : Extends(c[d], b[d], ErrorsOf(s))
           /\ \A r \in R : alive[r.src] => Queued(Msg("err", s, r.session), c[r.src])
<1>1. ASSUME NEW d \in Svc
      PROVE  /\ c[d] \in Seq(Message) /\ Extends(c[d], b[d], ErrorsOf(s))
             /\ \A r \in R : r.src = d /\ alive[d] => Queued(Msg("err", s, r.session), c[d])
  <2>1. CASE ~ alive[d]
    <3>1. c[d] = b[d]
      BY <2>1 DEF PostErrors
    <3>2. Extends(b[d], b[d], ErrorsOf(s))
      BY DEF Extends
    <3> QED
      BY <2>1, <3>1, <3>2
  <2>2. CASE alive[d]
    <3>1. From(R, d) \subseteq R /\ IsFiniteSet(From(R, d))
      <4>1. From(R, d) \subseteq R
        BY DEF From
      <4> QED
        BY <4>1, FS_Subset
    <3>2. w[d] \in SetToSeqs(From(R, d))
      BY DEF Walks
    <3>3. w[d] \in Seq(From(R, d)) /\ \A r \in From(R, d) : \E i \in DOMAIN w[d] : w[d][i] = r
      BY <3>1, <3>2, WalkCovers
    <3>4. PICK k \in Nat : k = Len(w[d]) /\ DOMAIN w[d] = 1 .. k
      BY <3>3, LenProperties
    <3>5. \A i \in 1 .. k : w[d][i] \in R
      BY <3>1, <3>3, <3>4
    <3>6. PICK e : e = [i \in 1 .. k |-> Msg("err", s, w[d][i].session)]
      OBVIOUS
    <3>7. \A i \in 1 .. k : Msg("err", s, w[d][i].session) \in ErrorsOf(s)
      <4>1. \A r \in R : r.session \in {0} \cup Session /\ r.session # 0
        BY DEF Request
      <4> QED
        BY <3>5, <4>1 DEF Msg, ErrorsOf, Message
    <3>8. ErrorsOf(s) \subseteq Message
      BY DEF ErrorsOf
    <3>9. e \in Seq(ErrorsOf(s)) /\ DOMAIN e = 1 .. k
      <4>1. e \in [1 .. k -> ErrorsOf(s)]
        BY <3>6, <3>7
      <4> QED
        BY <4>1, <3>6, <3>7, IsASeq
    <3>10. c[d] = b[d] \o e
      BY <2>2, <3>6, <3>4 DEF PostErrors
    <3>11. PICK q, p : q = c[d] /\ p = b[d] /\ p \in Seq(Message) /\ q = p \o e
      BY <3>10
    <3>12. /\ q \in Seq(Message) /\ Extends(q, p, ErrorsOf(s))
           /\ \A i \in DOMAIN e : Queued(e[i], q)
      BY <3>11, <3>9, <3>8, ConcatExtends
    <3>13. ASSUME NEW r \in R, r.src = d PROVE Queued(Msg("err", s, r.session), q)
      <4>1. r \in From(R, d)
        BY <3>13 DEF From
      <4>2. PICK i \in 1 .. k : w[d][i] = r
        BY <4>1, <3>3, <3>4
      <4>3. i \in DOMAIN e /\ e[i] = Msg("err", s, r.session)
        BY <4>2, <3>6, <3>9
      <4> QED
        BY <4>3, <3>12
    <3> QED
      BY <3>11, <3>12, <3>13
  <2> QED
    BY <2>1, <2>2
<1>2. c \in [Svc -> Seq(Message)]
  <2>1. c = [a \in Svc |-> c[a]]
    BY DEF PostErrors
  <2> QED
    BY <1>1, <2>1
<1>3. \A r \in R : r.src \in Svc
  BY DEF Request
<1> QED
  BY <1>1, <1>2, <1>3

-----------------------------------------------------------------------------
(* Requests and answers on their way *)

(* Request r is not in queue q. *)
Unqueued(r, q) == r.session # 0 => \A i \in DOMAIN q : Asks(q[i]) => ReqOf(q[i]) # r

(* Everything in queue b but m is in queue c. *)
AllBut(c, b, m) == \A i \in DOMAIN b : b[i] = m \/ Queued(b[i], c)

(* Queues c are b without the first message of s. *)
Dropped(c, b, s) == c = [b EXCEPT ![s] = Tail(@)]

(* The first message of s leaves its queue. *)
LEMMA DropBox ==
    ASSUME NEW b \in [Svc -> Seq(Message)], NEW L, NEW A, BoxOK(b, L, A), NEW s \in Svc, b[s] # <<>>,
           NEW c, Dropped(c, b, s), NEW m, m = Head(b[s])
    PROVE  /\ c \in [Svc -> Seq(Message)] /\ BoxOK(c, L, A)
           /\ m \in Message /\ MsgOK(m, s, L, A) /\ (Asks(m) => Unqueued(ReqOf(m), c[s]))
           /\ AllBut(c[s], b[s], m) /\ \A d \in Svc : d # s => c[d] = b[d]
<1>1. PICK p, q : p = b[s] /\ q = Tail(p) /\ p \in Seq(Message) /\ p # <<>>
  OBVIOUS
<1>2. /\ q \in Seq(Message) /\ 1 \in DOMAIN p /\ m = p[1] /\ m \in Message
      /\ \A i \in DOMAIN q : i + 1 \in DOMAIN p /\ i + 1 # 1 /\ q[i] = p[i + 1]
      /\ \A i \in DOMAIN p : i = 1 \/ (i - 1 \in DOMAIN q /\ q[i - 1] = p[i])
      /\ \A i, j \in DOMAIN q : i + 1 = j + 1 => i = j
  BY <1>1, TailDrops
<1>3. c[s] = q /\ (\A d \in Svc : d # s => c[d] = b[d]) /\ c \in [Svc -> Seq(Message)]
  BY <1>1, <1>2 DEF Dropped
<1>4. Once(p) /\ \A i \in DOMAIN p : MsgOK(p[i], s, L, A)
  BY <1>1 DEF BoxOK
<1>5. Once(q)
  <2>1. SUFFICES ASSUME NEW i \in DOMAIN q, NEW j \in DOMAIN q, Asks(q[i]), q[i].session # 0,
                        Asks(q[j]), ReqOf(q[j]) = ReqOf(q[i])
                 PROVE  i = j
    BY DEF Once
  <2>2. PICK k, l : k = i + 1 /\ l = j + 1
    OBVIOUS
  <2>3. k \in DOMAIN p /\ l \in DOMAIN p /\ q[i] = p[k] /\ q[j] = p[l]
    BY <2>2, <1>2
  <2>4. k = l
    BY <2>1, <2>3, <1>4 DEF Once
  <2> QED
    BY <2>4, <2>2, <1>2
<1>6. \A i \in DOMAIN q : MsgOK(q[i], s, L, A)
  BY <1>2, <1>4
<1>7. Asks(m) => Unqueued(ReqOf(m), q)
  <2>1. SUFFICES ASSUME Asks(m), m.session # 0, NEW i \in DOMAIN q, Asks(q[i]), ReqOf(q[i]) = ReqOf(m)
                 PROVE  FALSE
    BY DEF Unqueued, ReqOf
  <2>2. PICK k : k \in DOMAIN p /\ k # 1 /\ q[i] = p[k]
    BY <1>2
  <2> QED
    BY <2>1, <2>2, <1>2, <1>4 DEF Once
<1>8. AllBut(q, p, m)
  <2>1. ASSUME NEW i \in DOMAIN p PROVE p[i] = m \/ Queued(p[i], q)
    <3>1. i = 1 \/ \E j \in DOMAIN q : q[j] = p[i]
      BY <1>2
    <3> QED
      BY <3>1, <1>2 DEF Queued
  <2> QED
    BY <2>1 DEF AllBut
<1>9. BoxOK(c, L, A)
  <2>1. ASSUME NEW d \in Svc PROVE Once(c[d]) /\ \A i \in DOMAIN c[d] : MsgOK(c[d][i], d, L, A)
    <3>1. CASE d = s
      BY <3>1, <1>3, <1>5, <1>6
    <3>2. CASE d # s
      BY <3>2, <1>3 DEF BoxOK
    <3> QED
      BY <3>1, <3>2
  <2> QED
    BY <2>1 DEF BoxOK
<1> QED
  BY <1>1, <1>2, <1>3, <1>4, <1>7, <1>8, <1>9

(* u has no requests that v had not, but those of X. *)
ServesOnly(u, v, X) ==
    /\ v.session_id <= u.session_id
    /\ \A c \in Co : u.session_coroutine[c] \in {NULL, v.session_coroutine[c]} \cup X
    /\ \A r \in u.unresponse : r \in v.unresponse \/ \E c \in Co : v.session_coroutine[c] = r

(* The requests of X were made, and are no longer in queue q. *)
FromQueue(X, L, q) ==
    X \subseteq Request /\ \A r \in X : r.session <= L[r.src].session_id /\ Unqueued(r, q)

Fewer(B, A) == \A d \in Svc : B[d] => A[d]

(* Only services that are gone are added to dead_service. *)
OnlyGone(S, D, B) == \A a \in S : a \in D \/ ~ B[a]

(* Service s takes the requests of X from its queue, and handles what it has. *)
LEMMA TablesBox ==
    ASSUME NEW b \in [Svc -> Seq(Message)], NEW L \in [Svc -> LuaState], NEW A, BoxOK(b, L, A),
           NEW s \in Svc, NEW u \in LuaState, NEW K, K = [L EXCEPT ![s] = u],
           NEW X, ServesOnly(u, L[s], X), FromQueue(X, L, b[s]),
           NEW B, Fewer(B, A), OnlyGone(u.dead_service, L[s].dead_service, B)
    PROVE  BoxOK(b, K, B)
<1> USE DEF FromQueue, Fewer, OnlyGone
<1>1. PICK v : v = L[s] /\ v \in LuaState /\ ServesOnly(u, v, X)
  OBVIOUS
<1>2. K[s] = u /\ \A d \in Svc : d # s => K[d] = L[d]
  OBVIOUS
<1>3. \A d \in Svc : L[d].session_id \in Nat /\ K[d].session_id \in Nat
  <2>1. \A d \in Svc : L[d] \in LuaState /\ K[d] \in LuaState
    OBVIOUS
  <2> QED
    BY <2>1 DEF LuaState
<1>4. \A d \in Svc : L[d].session_id <= K[d].session_id
  <2>1. ASSUME NEW d \in Svc PROVE L[d].session_id <= K[d].session_id
    <3>1. CASE d = s
      BY <3>1, <1>1, <1>2 DEF ServesOnly
    <3>2. CASE d # s
      BY <3>2, <1>2, <1>3
    <3> QED
      BY <3>1, <3>2
  <2> QED
    BY <2>1
<1>5. \A q \in {0} \cup Session : q \in Nat
  BY LuaAssumption DEF Session
<1>6. \A r \in Request : r.session <= L[r.src].session_id => r.session <= K[r.src].session_id
  <2>1. ASSUME NEW r \in Request, r.session <= L[r.src].session_id PROVE r.session <= K[r.src].session_id
    <3>1. r.src \in Svc /\ r.session \in {0} \cup Session
      BY DEF Request
    <3>2. PICK i \in Nat, j \in Nat, k \in Nat : i = r.session /\ j = L[r.src].session_id /\ k = K[r.src].session_id /\ i <= j /\ j <= k
      BY <2>1, <3>1, <1>5, <1>3, <1>4
    <3>3. i <= k
      BY <3>2
    <3> QED
      BY <3>2, <3>3
  <2> QED
    BY <2>1
<1>7. \A d \in Svc : /\ L[d].session_coroutine \in [Co -> Request \cup {NULL}]
                       /\ L[d].unresponse \subseteq Request
  <2>1. \A d \in Svc : L[d] \in LuaState
    OBVIOUS
  <2> QED
    BY <2>1 DEF LuaState
<1>8. ASSUME NEW d \in Svc, NEW i \in DOMAIN b[d] PROVE MsgOK(b[d][i], d, K, B)
  <2>1. PICK m \in Message : m = b[d][i]
    <3>1. b[d] \in Seq(Message)
      OBVIOUS
    <3> QED
      BY <3>1
  <2>2. ReqOf(m) \in Request /\ ReqOf(m).session = m.session /\ ReqOf(m).src = m.src /\ m.src \in Svc
    BY DEF Message, Request, ReqOf
  <2>3. MsgOK(m, d, L, A)
    BY <2>1 DEF BoxOK
  <2>4. m.type = "resp" => m.session # 0
    BY <2>3 DEF MsgOK
  <2>5. m.type = "err" /\ m.session = 0 => ~ B[m.src]
    BY <2>3, <2>2 DEF MsgOK
  <2>6. Asks(m) /\ m.session # 0 => m.session <= K[m.src].session_id
    BY <2>3, <2>2, <1>6 DEF MsgOK
  <2>7. Asks(m) /\ m.session # 0 => Unserved(K[d], ReqOf(m))
    <3>1. SUFFICES ASSUME Asks(m), m.session # 0 PROVE Unserved(K[d], ReqOf(m))
      OBVIOUS
    <3>2. Unserved(L[d], ReqOf(m))
      BY <3>1, <2>3 DEF MsgOK
    <3>3. CASE d # s
      BY <3>3, <3>2, <1>2
    <3>4. CASE d = s
      <4>1. PICK r \in Request : r = ReqOf(m) /\ r.session # 0
        BY <2>2, <3>1
      <4>2. r \notin v.unresponse /\ \A e \in Co : v.session_coroutine[e] # r
        BY <4>1, <3>2, <1>1, <3>4 DEF Unserved
      <4>3. r \notin X
        BY <3>4, <4>1, <2>1, <3>1 DEF Unqueued
      <4>4. r # NULL
        BY <4>1, LuaAssumption
      <4>5. r \notin u.unresponse /\ \A e \in Co : u.session_coroutine[e] # r
        BY <1>1, <4>2, <4>3, <4>4 DEF ServesOnly
      <4> QED
        BY <4>1, <4>5, <1>2, <3>4 DEF Unserved
    <3> QED
      BY <3>3, <3>4
  <2> QED
    BY <2>1, <2>4, <2>5, <2>6, <2>7 DEF MsgOK
<1>9. ASSUME NEW d \in Svc PROVE Issued(K[d], K)
  <2>1. Issued(L[d], L)
    BY DEF BoxOK
  <2>2. ASSUME NEW r \in Request, \/ r \in L[d].unresponse
                                   \/ \E e \in Co : L[d].session_coroutine[e] = r
        PROVE  r.session <= K[r.src].session_id
    <3>1. r # NULL
      BY LuaAssumption
    <3>2. r.session <= L[r.src].session_id
      BY <2>2, <2>1, <3>1 DEF Issued
    <3> QED
      BY <3>2, <1>6
  <2>3. \A r \in X : r \in Request /\ r.session <= K[r.src].session_id
    BY <1>6
  <2>4. CASE d # s
    <3>1. K[d] = L[d]
      BY <2>4, <1>2
    <3>2. ASSUME NEW c \in Co, K[d].session_coroutine[c] # NULL
          PROVE  K[d].session_coroutine[c].session <= K[K[d].session_coroutine[c].src].session_id
      <4>1. K[d].session_coroutine[c] \in Request
        BY <3>1, <3>2, <1>7
      <4> QED
        BY <4>1, <3>1, <2>2
    <3>3. ASSUME NEW r \in K[d].unresponse PROVE r.session <= K[r.src].session_id
      <4>1. r \in Request /\ r \in L[d].unresponse
        BY <3>1, <1>7
      <4> QED
        BY <4>1, <2>2
    <3> QED
      BY <3>2, <3>3 DEF Issued
  <2>5. CASE d = s
    <3>1. K[d] = u /\ L[d] = v
      BY <2>5, <1>2, <1>1
    <3>2. ASSUME NEW c \in Co, u.session_coroutine[c] # NULL
          PROVE  u.session_coroutine[c].session <= K[u.session_coroutine[c].src].session_id
      <4>1. u.session_coroutine[c] \in X \/ u.session_coroutine[c] = v.session_coroutine[c]
        BY <3>2, <1>1 DEF ServesOnly
      <4>2. u.session_coroutine[c] \in Request
        BY <3>2 DEF LuaState
      <4> QED
        BY <4>1, <4>2, <3>1, <2>2, <2>3
    <3>3. ASSUME NEW r \in u.unresponse PROVE r.session <= K[r.src].session_id
      <4>1. r \in Request
        BY DEF LuaState
      <4>2. r \in v.unresponse \/ \E c \in Co : v.session_coroutine[c] = r
        BY <1>1 DEF ServesOnly
      <4> QED
        BY <4>1, <4>2, <3>1, <2>2
    <3> QED
      BY <3>1, <3>2, <3>3 DEF Issued
  <2> QED
    BY <2>4, <2>5
<1>10. ASSUME NEW d \in Svc, NEW a \in K[d].dead_service PROVE ~ B[a]
  <2>1. a \in Svc
    <3>1. K[d] \in LuaState
      OBVIOUS
    <3> QED
      BY <3>1 DEF LuaState
  <2>2. \A e \in Svc : e \in L[d].dead_service => ~ A[e]
    BY DEF BoxOK
  <2> QED
    BY <2>1, <2>2, <1>2
<1> QED
  BY <1>8, <1>9, <1>10 DEF BoxOK

(* A message that neither is a request of a call nor reports a live service. *)
Harmless(m, A) ==
    /\ m.type = "resp" => m.session # 0
    /\ m.type = "err" /\ m.session = 0 => ~ A[m.src]
    /\ Asks(m) => m.session = 0

AllHarmless(M, A) == \A m \in M : Harmless(m, A)

(* The queues of c are those of b with messages of M behind them. *)
Grown(c, b, M) == \A d \in Svc : Extends(c[d], b[d], M)

(* Messages that are no requests of calls are sent. *)
LEMMA ExtendBox ==
    ASSUME NEW b, NEW c, NEW L, NEW A, BoxOK(b, L, A), NEW M, Grown(c, b, M), AllHarmless(M, A)
    PROVE  BoxOK(c, L, A)
<1>1. ASSUME NEW d \in Svc PROVE Once(c[d]) /\ \A i \in DOMAIN c[d] : MsgOK(c[d][i], d, L, A)
  <2>1. PICK p, q : p = b[d] /\ q = c[d]
    OBVIOUS
  <2>2. /\ \A i \in DOMAIN p : i \in DOMAIN q /\ q[i] = p[i]
        /\ \A i \in DOMAIN q : i \in DOMAIN p \/ Harmless(q[i], A)
    BY <2>1 DEF Grown, Extends, AllHarmless
  <2>3. Once(p) /\ \A i \in DOMAIN p : MsgOK(p[i], d, L, A)
    BY <2>1 DEF BoxOK
  <2>4. \A m : Harmless(m, A) => MsgOK(m, d, L, A)
    BY DEF Harmless, MsgOK
  <2>5. Once(q)
    <3>1. \A i \in DOMAIN q : Asks(q[i]) /\ q[i].session # 0 => i \in DOMAIN p /\ q[i] = p[i]
      BY <2>2 DEF Harmless
    <3>2. \A m, n : ReqOf(n) = ReqOf(m) => n.session = m.session
      BY DEF ReqOf
    <3> QED
      BY <3>1, <3>2, <2>3 DEF Once
  <2>6. \A i \in DOMAIN q : MsgOK(q[i], d, L, A)
    BY <2>2, <2>3, <2>4
  <2> QED
    BY <2>1, <2>5, <2>6
<1> QED
  BY <1>1 DEF BoxOK

(* The request of a new call is sent. *)
LEMMA AskBox ==
    ASSUME TypeOK, NEW b \in [Svc -> Seq(Message)], NEW L \in [Svc -> LuaState], BoxOK(b, L, alive),
           NEW K, BoxOK(b, K, alive), NEW d \in Svc, NEW m \in Message, Asks(m),
           m.session > L[m.src].session_id, m.session <= K[m.src].session_id,
           SameServing(K[d], L[d]), NEW c, c = Post(b, d, m)
    PROVE  BoxOK(c, K, alive)
<1>1. CASE ~ alive[d]
  <2>1. c = b
    BY <1>1 DEF Post
  <2> QED
    BY <2>1
<1>2. CASE alive[d]
  <2>1. c[d] = Append(b[d], m) /\ \A e \in Svc : e # d => c[e] = b[e]
    BY <1>2 DEF Post
  <2>2. PICK p, q : p = b[d] /\ p \in Seq(Message) /\ q = Append(p, m) /\ q = c[d]
    BY <2>1
  <2>3. /\ Append(p, m) \in Seq(Message) /\ Len(Append(p, m)) = Len(p) + 1
        /\ \A i \in 1 .. Len(p) : Append(p, m)[i] = p[i]
        /\ Append(p, m)[Len(p) + 1] = m
    <3>1. p \in Seq(Message)
      BY <2>2
    <3> QED
      BY <3>1, AppendProperties
  <2>4. /\ q \in Seq(Message) /\ Len(q) = Len(p) + 1
        /\ \A i \in 1 .. Len(p) : q[i] = p[i]
        /\ q[Len(p) + 1] = m
    BY <2>2, <2>3
  <2>5. PICK k \in Nat : k = Len(p) /\ DOMAIN p = 1 .. k /\ DOMAIN q = 1 .. k + 1
    BY <2>2, <2>4, LenProperties
  <2>6. \A i \in 1 .. k + 1 : i \in 1 .. k \/ i = k + 1
    OBVIOUS
  <2>7. \A i \in DOMAIN q : (i \in DOMAIN p /\ q[i] = p[i]) \/ (i = k + 1 /\ q[i] = m)
    BY <2>4, <2>5, <2>6
  <2>8. m.src \in Svc /\ m.session \in {0} \cup Session /\ L[m.src].session_id \in Nat
    <3>1. m.src \in Svc /\ m.session \in {0} \cup Session
      BY DEF Message
    <3>2. L[m.src] \in LuaState
      BY <3>1
    <3> QED
      BY <3>1, <3>2 DEF LuaState
  <2>9. m.session \in Nat /\ ~ (m.session <= L[m.src].session_id) /\ m.session # 0
    <3>1. m.session \in Nat
      BY <2>8, LuaAssumption DEF Session
    <3> QED
      BY <3>1, <2>8
  <2>10. Once(p) /\ \A i \in DOMAIN p : MsgOK(p[i], d, L, alive) /\ MsgOK(p[i], d, K, alive)
    BY <2>2 DEF BoxOK
  <2>11. ASSUME NEW i \in DOMAIN p, Asks(p[i]) PROVE ReqOf(p[i]) # ReqOf(m)
    <3>1. SUFFICES ASSUME ReqOf(p[i]) = ReqOf(m) PROVE FALSE
      OBVIOUS
    <3>2. p[i].session = m.session /\ p[i].src = m.src
      BY <3>1 DEF ReqOf
    <3> QED
      BY <3>2, <2>11, <2>10, <2>9 DEF MsgOK
  <2>12. Once(q)
    <3>1. SUFFICES ASSUME NEW i \in DOMAIN q, NEW j \in DOMAIN q, Asks(q[i]), q[i].session # 0,
                          Asks(q[j]), ReqOf(q[j]) = ReqOf(q[i])
                   PROVE  i = j
      BY DEF Once
    <3>2. CASE q[i] = m /\ q[j] = m /\ i = k + 1 /\ j = k + 1
      BY <3>2
    <3>3. CASE i \in DOMAIN p /\ q[i] = p[i] /\ j \in DOMAIN p /\ q[j] = p[j]
      BY <3>3, <3>1, <2>10 DEF Once
    <3>4. ~ (q[i] = m /\ j \in DOMAIN p /\ q[j] = p[j]) /\ ~ (q[j] = m /\ i \in DOMAIN p /\ q[i] = p[i])
      BY <3>1, <2>11
    <3> QED
      BY <2>7, <3>2, <3>3, <3>4
  <2>13. Unserved(L[d], ReqOf(m))
    <3>1. Issued(L[d], L)
      BY DEF BoxOK
    <3>2. ReqOf(m).session = m.session /\ ReqOf(m).src = m.src /\ ReqOf(m) # NULL
      <4>1. ReqOf(m) \in Request
        BY <2>8 DEF Request, ReqOf
      <4> QED
        BY <4>1, LuaAssumption DEF ReqOf
    <3> QED
      BY <3>1, <3>2, <2>9 DEF Issued, Unserved
  <2>14. Unserved(K[d], ReqOf(m))
    BY <2>13 DEF Unserved, SameServing
  <2>15. MsgOK(m, d, K, alive)
    BY <2>9, <2>14 DEF MsgOK, Asks
  <2>16. \A i \in DOMAIN q : MsgOK(q[i], d, K, alive)
    BY <2>7, <2>10, <2>15
  <2>17. ASSUME NEW e \in Svc PROVE Once(c[e]) /\ \A i \in DOMAIN c[e] : MsgOK(c[e][i], e, K, alive)
    <3>1. CASE e = d
      BY <3>1, <2>2, <2>12, <2>16
    <3>2. CASE e # d
      BY <3>2, <2>1 DEF BoxOK
    <3> QED
      BY <3>1, <3>2
  <2> QED
    BY <2>17 DEF BoxOK
<1> QED
  BY <1>1, <1>2

-----------------------------------------------------------------------------
(* A step of one service *)

(* Only the tables of s change. *)
Frame(s) ==
    /\ lua' = [lua EXCEPT ![s] = lua'[s]]
    /\ nops' \in [Svc -> Nat] /\ \A t \in Svc : t # s => nops'[t] = nops[t]

(* What never goes back. *)
Growing ==
    /\ alive' \in [Svc -> BOOLEAN] /\ Fewer(alive', alive)
    /\ killed \subseteq killed' /\ killed' \subseteq Svc
    /\ astray' \in [Svc -> SUBSET Request] /\ \A d \in Svc : astray[d] \subseteq astray'[d]

(* An action that sets the tables of s. *)
LEMMA SetFrame ==
    ASSUME TypeOK, NEW s \in Svc, NEW x, Set(s, x), nops' = nops \/ \E name : Op(s, name)
    PROVE  Frame(s)
<1>1. lua' = [lua EXCEPT ![s] = lua'[s]]
  BY DEF TypeOK, Set
<1>2. nops' \in [Svc -> Nat] /\ \A t \in Svc : t # s => nops'[t] = nops[t]
  <2>1. CASE nops' = nops
    BY <2>1 DEF TypeOK
  <2>2. CASE \E name : Op(s, name)
    <3>1. nops' = [nops EXCEPT ![s] = nops[s] + 1]
      BY <2>2 DEF Op
    <3>2. nops \in [Svc -> Nat] /\ nops[s] + 1 \in Nat
      BY DEF TypeOK
    <3> QED
      BY <3>1, <3>2
  <2> QED
    BY <2>1, <2>2
<1> QED
  BY <1>1, <1>2 DEF Frame

(* An action that leaves all tables alone. *)
LEMMA SameFrame ==
    ASSUME TypeOK, NEW s \in Svc, lua' = lua, nops' = nops \/ \E name : Op(s, name)
    PROVE  Frame(s)
<1>1. Set(s, lua[s])
  BY DEF TypeOK, Set
<1> QED
  BY <1>1, SetFrame

(* The tables of the other services, and the types, are as they were. *)
LEMMA InvStep ==
    ASSUME LuaInv, NEW s \in Svc, Frame(s), Growing, lua'[s] \in LuaState, Own(s)',
           box' \in [Svc -> Seq(Message)], timers' \in [Svc -> SUBSET Session], BoxOK(box', lua', alive')
    PROVE  LuaInv'
<1>1. lua' \in [Svc -> LuaState] /\ \A t \in Svc : t # s => lua'[t] = lua[t]
  <2>1. lua \in [Svc -> LuaState]
    BY DEF LuaInv, TypeOK
  <2> QED
    BY <2>1 DEF Frame
<1>2. TypeOK'
  BY <1>1 DEF TypeOK, Frame, Growing
<1>3. ASSUME NEW t \in Svc PROVE Own(t)'
  <2>1. CASE t = s
    BY <2>1
  <2>2. CASE t # s
    <3>1. lua'[t] = lua[t] /\ nops'[t] = nops[t] /\ (alive'[t] => alive[t])
      BY <2>2, <1>1 DEF Frame, Growing, Fewer
    <3>2. Own(t)
      BY DEF LuaInv, OwnInv
    <3>3. /\ Waiting(lua[t], nops[t]) /\ Serves(lua[t])
          /\ lua[t].run # NULL => Idle(lua[t], lua[t].run)
          /\ lua[t].ph = "err" => lua[t].error_queue # <<>>
          /\ alive[t] /\ ~ lua[t].faulted => Draining(lua[t])
      BY <3>2 DEF Own
    <3> QED
      BY <3>1, <3>3, OwnNext
  <2> QED
    BY <2>1, <2>2
<1> QED
  BY <1>2, <1>3 DEF LuaInv, OwnInv, BoxInv

(* The caller of session q of a is owed something. *)
Pending(a, q) == Coming(a, q) \/ Held(Callee(a, q), [src |-> a, session |-> q])

(* The source of r has a message of d about it. *)
Told(r, d) == \E i \in DOMAIN box[r.src] : Telling(box[r.src][i], r.session, d)

(* What a step does to calls.  It begins none (or one whose request is sent),
   leaves an exit only by retiring, lets go of a request only by answering it,
   and takes a message or an error only to act on it.                      *)
CallsKept ==
    \A a \in Svc, q \in Session : InCall(a, q)' =>
        (InCall(a, q) /\ Callee(a, q)' = Callee(a, q)) \/ Coming(a, q)'

ExitsKept == \A a \in Svc : lua[a].ph = "exit" => lua'[a].ph = "exit" \/ ~ alive'[a]

HeldOn ==
    \A d \in Svc, r \in Request :
        Held(d, r) /\ alive'[r.src] /\ d \notin killed' => Held(d, r)' \/ Told(r, d)'

ComingOn ==
    \A a \in Svc, q \in Session :
        InCall(a, q)' /\ ~ Excused(a, q)' /\ Callee(a, q)' \notin ByName /\ Coming(a, q)
        => Pending(a, q)'

(* A step that does no more than that loses no call. *)
LEMMA CallStep ==
    ASSUME TypeOK, CallInv, Growing, CallsKept, ExitsKept, HeldOn, ComingOn
    PROVE  CallInv'
<1>1. SUFFICES ASSUME NEW a \in Svc, NEW q \in Session, InCall(a, q)', ~ Excused(a, q)',
                      Callee(a, q)' \notin ByName
               PROVE  Pending(a, q)'
  BY DEF CallInv, Pending
<1>2. CASE Coming(a, q)'
  BY <1>2 DEF Pending
<1>3. CASE InCall(a, q) /\ Callee(a, q)' = Callee(a, q)
  <2>1. PICK d : d = Callee(a, q) /\ d = Callee(a, q)'
    BY <1>3
  <2>2. d \in Svc
    <3>1. lua[a] \in LuaState
      BY DEF TypeOK
    <3>2. lua[a].watching_session[q] \in Svc \cup {NULL}
      BY <3>1 DEF LuaState
    <3> QED
      BY <3>2, <2>1, <1>3 DEF InCall, Callee
  <2>3. /\ alive'[a] /\ lua'[a].ph # "exit" /\ d \notin killed'
        /\ [src |-> a, session |-> q] \notin astray'[d]
    BY <1>1, <2>1 DEF Excused
  <2>4. ~ Excused(a, q)
    <3>1. alive[a] /\ lua[a].ph # "exit"
      BY <2>3 DEF Growing, Fewer, ExitsKept
    <3>2. d \notin killed /\ [src |-> a, session |-> q] \notin astray[d]
      BY <2>3, <2>2 DEF Growing
    <3> QED
      BY <3>1, <3>2, <2>1 DEF Excused
  <2>5. Pending(a, q)
    BY <2>4, <1>1, <1>3 DEF CallInv, Pending
  <2>6. CASE Coming(a, q)
    BY <2>6, <1>1 DEF ComingOn
  <2>7. CASE Held(d, [src |-> a, session |-> q])
    <3>1. PICK r : r = [src |-> a, session |-> q]
      OBVIOUS
    <3>2. r \in Request /\ r.src = a /\ r.session = q
      BY <3>1 DEF Request
    <3>3. Held(d, r)' \/ Told(r, d)'
      BY <2>7, <3>1, <3>2, <2>2, <2>3 DEF HeldOn
    <3>4. CASE Held(d, r)'
      BY <3>4, <3>1, <2>1 DEF Pending
    <3>5. CASE Told(r, d)'
      BY <3>5, <3>2, <2>1 DEF Pending, Told, Coming
    <3> QED
      BY <3>3, <3>4, <3>5
  <2> QED
    BY <2>5, <2>1, <2>6, <2>7 DEF Pending
<1> QED
  BY <1>1, <1>2, <1>3 DEF CallsKept

(* Calls, when messages are only sent and no call returns or is failed. *)
LEMMA SteadyCalls ==
    ASSUME TypeOK, NEW M, Grown(box', box, M),
           \A a \in Svc : /\ lua'[a].watching_session = lua[a].watching_session
                          /\ lua'[a].error_queue = lua[a].error_queue
    PROVE  CallsKept /\ ComingOn
<1>1. CallsKept
  BY DEF CallsKept, InCall, Callee
<1>2. ASSUME NEW a \in Svc, NEW q \in Session, InCall(a, q)', Coming(a, q) PROVE Coming(a, q)'
  <2>1. PICK d : d = Callee(a, q) /\ d = Callee(a, q)'
    BY DEF Callee
  <2>2. d \in Svc
    <3>1. lua[a] \in LuaState
      BY DEF TypeOK
    <3>2. lua[a].watching_session[q] \in Svc \cup {NULL}
      BY <3>1 DEF LuaState
    <3> QED
      BY <3>2, <2>1, <1>2 DEF InCall, Callee
  <2>3. \A e \in Svc : \A i \in DOMAIN box[e] : i \in DOMAIN box'[e] /\ box'[e][i] = box[e][i]
    BY DEF Grown, Extends
  <2>4. CASE \E i \in DOMAIN box[d] : Asking(box[d][i], a, q)
    BY <2>4, <2>1, <2>2, <2>3 DEF Coming
  <2>5. CASE \E i \in DOMAIN box[a] : Telling(box[a][i], q, d)
    BY <2>5, <2>1, <2>3 DEF Coming
  <2>6. CASE \E i \in DOMAIN lua[a].error_queue : lua[a].error_queue[i] = q
    BY <2>6 DEF Coming
  <2> QED
    BY <1>2, <2>1, <2>4, <2>5, <2>6 DEF Coming
<1> QED
  BY <1>1, <1>2 DEF ComingOn, Pending


-----------------------------------------------------------------------------
(* Each step keeps the invariant *)

(* The tables of calls are as they were, and an exit goes on. *)
Calm(u, v) ==
    /\ u.dead_service = v.dead_service
    /\ u.watching_session = v.watching_session /\ u.error_queue = v.error_queue
    /\ v.session_id <= u.session_id
    /\ v.ph = "exit" => u.ph = "exit"

(* What s had and has no longer, it has answered. *)
HandsOver(s) ==
    \A r \in Request : Holds(lua[s], r) /\ alive[r.src] => Holds(lua'[s], r) \/ Told(r, s)'

(* The callees other than s hold what they held. *)
LEMMA HandsOn ==
    ASSUME TypeOK, NEW s \in Svc, Frame(s), alive' = alive, HandsOver(s)
    PROVE  HeldOn
<1>1. \A t \in Svc : t # s => lua'[t] = lua[t]
  BY DEF TypeOK, Frame
<1>2. ASSUME NEW d \in Svc, NEW r \in Request, Held(d, r), alive'[r.src] PROVE Held(d, r)' \/ Told(r, d)'
  <2>1. CASE d = s
    BY <2>1, <1>2 DEF HandsOver, Held
  <2>2. CASE d # s
    BY <2>2, <1>2, <1>1 DEF Held
  <2> QED
    BY <2>1, <2>2
<1> QED
  BY <1>2 DEF HeldOn

(* A step in which s has what it had hands nothing over. *)
LEMMA SameHands ==
    ASSUME NEW s \in Svc, SameServing(lua'[s], lua[s]), lua'[s].ph # "exit"
    PROVE  HandsOver(s)
<1>1. ASSUME NEW r, Holds(lua[s], r) PROVE Holds(lua'[s], r)
  BY <1>1 DEF Holds, SameServing, Owes
<1> QED
  BY <1>1 DEF HandsOver

(* The tables of the services and the histories, when no handle is retired. *)
LEMMA StillGrowing ==
    ASSUME TypeOK, alive' = alive, killed' = killed, astray' = astray
    PROVE  Growing
<1> QED
  BY DEF TypeOK, Growing, Fewer

(* The same tables serve no other requests. *)
LEMMA SameServesOnly ==
    ASSUME NEW u \in LuaState, NEW v, SameServing(u, v), v.session_id <= u.session_id
    PROVE  ServesOnly(u, v, {})
<1> QED
  BY DEF ServesOnly, SameServing

(* A step of s that begins and ends no call, in which it may send messages. *)
LEMMA CalmStep ==
    ASSUME LuaInv, NEW s \in Svc, Frame(s), lua'[s] \in LuaState, Own(s)', Calm(lua'[s], lua[s]),
           ServesOnly(lua'[s], lua[s], {}), alive' = alive, killed' = killed, astray' = astray,
           timers' \in [Svc -> SUBSET Session], box' \in [Svc -> Seq(Message)],
           NEW M, Grown(box', box, M), AllHarmless(M, alive)
    PROVE  LuaInv' /\ (CallInv /\ HandsOver(s) => CallInv')
<1>1. TypeOK /\ BoxInv
  BY DEF LuaInv
<1>2. box \in [Svc -> Seq(Message)] /\ lua \in [Svc -> LuaState]
  BY <1>1 DEF TypeOK
<1>3. lua' = [lua EXCEPT ![s] = lua'[s]]
  BY DEF Frame
<1>4. Growing
  BY <1>1, StillGrowing
<1>5. BoxOK(box, lua', alive)
  <2>1. FromQueue({}, lua, box[s])
    BY DEF FromQueue
  <2>2. Fewer(alive, alive)
    BY DEF Fewer
  <2>3. OnlyGone(lua'[s].dead_service, lua[s].dead_service, alive)
    BY DEF OnlyGone, Calm
  <2>4. BoxOK(box, lua, alive)
    BY <1>1 DEF BoxInv
  <2> QED
    BY <2>1, <2>2, <2>3, <2>4, <1>2, <1>3, TablesBox
<1>6. BoxOK(box', lua', alive)
  BY <1>5, ExtendBox
<1>7. LuaInv'
  BY <1>6, <1>4, InvStep
<1>8. ASSUME CallInv, HandsOver(s) PROVE CallInv'
  <2>1. \A t \in Svc : t # s => lua'[t] = lua[t]
    BY <1>2 DEF Frame
  <2>2. \A a \in Svc : /\ lua'[a].watching_session = lua[a].watching_session
                       /\ lua'[a].error_queue = lua[a].error_queue
    BY <2>1 DEF Calm
  <2>3. CallsKept /\ ComingOn
    BY <2>2, <1>1, SteadyCalls
  <2>4. ExitsKept
    BY <2>1 DEF ExitsKept, Calm
  <2>5. HeldOn
    BY <1>8, <1>1, HandsOn
  <2> QED
    BY <1>8, <1>1, <1>4, <2>3, <2>4, <2>5, CallStep
<1> QED
  BY <1>7, <1>8

(* Nothing is sent. *)
LEMMA NoneSent ==
    ASSUME NEW b, NEW c, c = b, NEW A
    PROVE  Grown(c, b, {}) /\ AllHarmless({}, A)
<1> QED
  BY DEF Grown, Extends, AllHarmless

(* A step of s that concerns no other service. *)
LEMMA QuietStep ==
    ASSUME LuaInv, NEW s \in Svc, Frame(s), lua'[s] \in LuaState, Own(s)', Quiet(lua'[s], lua[s]),
           alive' = alive, killed' = killed, astray' = astray, box' = box,
           timers' \in [Svc -> SUBSET Session]
    PROVE  LuaInv' /\ (CallInv => CallInv')
<1>1. box \in [Svc -> Seq(Message)]
  BY DEF LuaInv, TypeOK
<1>2. Grown(box', box, {}) /\ AllHarmless({}, alive)
  BY NoneSent
<1>3. Calm(lua'[s], lua[s]) /\ SameServing(lua'[s], lua[s]) /\ lua'[s].ph # "exit"
      /\ lua[s].session_id <= lua'[s].session_id
  BY DEF Quiet, Steady, Calm
<1>4. ServesOnly(lua'[s], lua[s], {})
  BY <1>3, SameServesOnly
<1>5. HandsOver(s)
  BY <1>3, SameHands
<1> QED
  BY <1>1, <1>2, <1>3, <1>4, <1>5, CalmStep

(* skynet.timeout concerns no other service. *)
LEMMA TimeoutStep ==
    ASSUME LuaInv, NEW s \in Svc, NEW c \in Co, Timeout(s, c)
    PROVE  LuaInv' /\ (CallInv => CallInv')
<1>1. TypeOK /\ Own(s)
  BY DEF LuaInv, OwnInv
<1>2. alive' = alive /\ killed' = killed /\ astray' = astray /\ box' = box
  BY DEF Timeout
<1>3. PICK x : Set(s, x)
  BY DEF Timeout
<1>4. nops' = nops \/ \E name : Op(s, name)
  BY DEF Timeout
<1>5. Frame(s)
  BY <1>1, <1>3, <1>4, SetFrame
<1>6. timers' \in [Svc -> SUBSET Session]
  <2>1. PICK q : q = lua[s].session_id + 1
    OBVIOUS
  <2>2. timers' = [timers EXCEPT ![s] = timers[s] \cup {q}]
    BY <2>1 DEF Timeout
  <2>3. lua[s] \in LuaState /\ nops[s] \in Nat /\ Waiting(lua[s], nops[s]) /\ nops[s] < MaxOp
    BY <1>1, OwnState DEF Timeout
  <2>4. q \in Session
    BY <2>1, <2>3, NextSession
  <2> QED
    BY <2>2, <2>4, <1>1 DEF TypeOK
<1>7. lua'[s] \in LuaState /\ Own(s)' /\ Quiet(lua'[s], lua[s])
  BY <1>1, TimeoutOwn
<1> QED
  BY <1>2, <1>5, <1>6, <1>7, QuietStep

(* skynet.dispatch, sleeps, waits, forks and wakeups concern no other service. *)
LEMMA QuietSteps ==
    ASSUME LuaInv, NEW s \in Svc, NEW c \in Co, NEW d \in Co,
           \/ Dispatch(s, c)
           \/ Sleep(s, c) \/ Wait(s, c) \/ Fork(s, c) \/ Wakeup(s, c, d)
           \/ dispatch_wakeup(s) \/ ForkNext(s)
    PROVE  LuaInv' /\ (CallInv => CallInv')
<1>1. CASE Sleep(s, c)
  <2>1. TypeOK /\ Own(s)
    BY DEF LuaInv, OwnInv
  <2>2. alive' = alive /\ killed' = killed /\ astray' = astray /\ box' = box
    BY <1>1 DEF Sleep
  <2>3. PICK x : Set(s, x)
    BY <1>1 DEF Sleep
  <2>4. nops' = nops \/ \E name : Op(s, name)
    BY <1>1 DEF Sleep
  <2>5. Frame(s)
    BY <2>1, <2>3, <2>4, SetFrame
  <2>6. timers' \in [Svc -> SUBSET Session]
    <3>1. PICK q : q = lua[s].session_id + 1
      OBVIOUS
    <3>2. timers' = [timers EXCEPT ![s] = timers[s] \cup {q}]
      BY <3>1, <1>1 DEF Sleep
    <3>3. lua[s] \in LuaState /\ nops[s] \in Nat /\ Waiting(lua[s], nops[s]) /\ nops[s] < MaxOp
      BY <2>1, <1>1, OwnState DEF Sleep
    <3>4. q \in Session
      BY <3>1, <3>3, NextSession
    <3> QED
      BY <3>2, <3>4, <2>1 DEF TypeOK
  <2>7. lua'[s] \in LuaState /\ Own(s)' /\ Quiet(lua'[s], lua[s])
    BY <1>1, <2>1, SleepOwn
  <2> QED
    BY <2>2, <2>5, <2>6, <2>7, QuietStep
<1>2. CASE Wait(s, c)
  <2>1. TypeOK /\ Own(s)
    BY DEF LuaInv, OwnInv
  <2>2. alive' = alive /\ killed' = killed /\ astray' = astray /\ box' = box
    BY <1>2 DEF Wait
  <2>3. PICK x : Set(s, x)
    BY <1>2 DEF Wait
  <2>4. nops' = nops \/ \E name : Op(s, name)
    BY <1>2 DEF Wait
  <2>5. Frame(s)
    BY <2>1, <2>3, <2>4, SetFrame
  <2>6. timers' \in [Svc -> SUBSET Session]
    <3>1. timers' = timers
      BY <1>2 DEF Wait
    <3> QED
      BY <3>1, <2>1 DEF TypeOK
  <2>7. lua'[s] \in LuaState /\ Own(s)' /\ Quiet(lua'[s], lua[s])
    BY <1>2, <2>1, WaitOwn
  <2> QED
    BY <2>2, <2>5, <2>6, <2>7, QuietStep
<1>3. CASE Fork(s, c)
  <2>1. TypeOK /\ Own(s)
    BY DEF LuaInv, OwnInv
  <2>2. alive' = alive /\ killed' = killed /\ astray' = astray /\ box' = box
    BY <1>3 DEF Fork
  <2>3. PICK x : Set(s, x)
    BY <1>3 DEF Fork
  <2>4. nops' = nops \/ \E name : Op(s, name)
    BY <1>3 DEF Fork
  <2>5. Frame(s)
    BY <2>1, <2>3, <2>4, SetFrame
  <2>6. timers' \in [Svc -> SUBSET Session]
    <3>1. timers' = timers
      BY <1>3 DEF Fork
    <3> QED
      BY <3>1, <2>1 DEF TypeOK
  <2>7. lua'[s] \in LuaState /\ Own(s)' /\ Quiet(lua'[s], lua[s])
    BY <1>3, <2>1, ForkOwn
  <2> QED
    BY <2>2, <2>5, <2>6, <2>7, QuietStep
<1>4. CASE Wakeup(s, c, d)
  <2>1. TypeOK /\ Own(s)
    BY DEF LuaInv, OwnInv
  <2>2. alive' = alive /\ killed' = killed /\ astray' = astray /\ box' = box
    BY <1>4 DEF Wakeup
  <2>3. PICK x : Set(s, x)
    BY <1>4 DEF Wakeup
  <2>4. nops' = nops \/ \E name : Op(s, name)
    BY <1>4 DEF Wakeup
  <2>5. Frame(s)
    BY <2>1, <2>3, <2>4, SetFrame
  <2>6. timers' \in [Svc -> SUBSET Session]
    <3>1. timers' = timers
      BY <1>4 DEF Wakeup
    <3> QED
      BY <3>1, <2>1 DEF TypeOK
  <2>7. lua'[s] \in LuaState /\ Own(s)' /\ Quiet(lua'[s], lua[s])
    BY <1>4, <2>1, WakeupOwn
  <2> QED
    BY <2>2, <2>5, <2>6, <2>7, QuietStep
<1>5. CASE dispatch_wakeup(s)
  <2>1. TypeOK /\ Own(s)
    BY DEF LuaInv, OwnInv
  <2>2. alive' = alive /\ killed' = killed /\ astray' = astray /\ box' = box
    BY <1>5 DEF dispatch_wakeup
  <2>3. PICK x : Set(s, x)
    BY <1>5 DEF dispatch_wakeup
  <2>4. nops' = nops \/ \E name : Op(s, name)
    BY <1>5 DEF dispatch_wakeup
  <2>5. Frame(s)
    BY <2>1, <2>3, <2>4, SetFrame
  <2>6. timers' \in [Svc -> SUBSET Session]
    <3>1. timers' = timers
      BY <1>5 DEF dispatch_wakeup
    <3> QED
      BY <3>1, <2>1 DEF TypeOK
  <2>7. lua'[s] \in LuaState /\ Own(s)' /\ Quiet(lua'[s], lua[s])
    BY <1>5, <2>1, DispatchWakeupOwn
  <2> QED
    BY <2>2, <2>5, <2>6, <2>7, QuietStep
<1>6. CASE ForkNext(s)
  <2>1. TypeOK /\ Own(s)
    BY DEF LuaInv, OwnInv
  <2>2. alive' = alive /\ killed' = killed /\ astray' = astray /\ box' = box
    BY <1>6 DEF ForkNext
  <2>3. PICK x : Set(s, x)
    BY <1>6 DEF ForkNext
  <2>4. nops' = nops \/ \E name : Op(s, name)
    BY <1>6 DEF ForkNext
  <2>5. Frame(s)
    BY <2>1, <2>3, <2>4, SetFrame
  <2>6. timers' \in [Svc -> SUBSET Session]
    <3>1. timers' = timers
      BY <1>6 DEF ForkNext
    <3> QED
      BY <3>1, <2>1 DEF TypeOK
  <2>7. lua'[s] \in LuaState /\ Own(s)' /\ Quiet(lua'[s], lua[s])
    BY <1>6, <2>1, ForkNextOwn
  <2> QED
    BY <2>2, <2>5, <2>6, <2>7, QuietStep
<1>7. CASE Dispatch(s, c)
  <2>1. TypeOK /\ Own(s)
    BY DEF LuaInv, OwnInv
  <2>2. alive' = alive /\ killed' = killed /\ astray' = astray /\ box' = box
    BY <1>7 DEF Dispatch
  <2>3. PICK x : Set(s, x)
    BY <1>7 DEF Dispatch
  <2>4. nops' = nops \/ \E name : Op(s, name)
    BY <1>7 DEF Dispatch
  <2>5. Frame(s)
    BY <2>1, <2>3, <2>4, SetFrame
  <2>6. timers' \in [Svc -> SUBSET Session]
    <3>1. timers' = timers
      BY <1>7 DEF Dispatch
    <3> QED
      BY <3>1, <2>1 DEF TypeOK
  <2>7. lua'[s] \in LuaState /\ Own(s)' /\ Quiet(lua'[s], lua[s])
    BY <1>7, <2>1, DispatchOwn
  <2> QED
    BY <2>2, <2>5, <2>6, <2>7, QuietStep
<1> QED
  BY <1>1, <1>2, <1>3, <1>4, <1>5, <1>6, <1>7

(* A harmless message is sent, or not. *)
LEMMA PostGrown ==
    ASSUME TypeOK, NEW to \in Svc, NEW m \in Message, Harmless(m, alive), box' = Post(box, to, m) \/ box' = box
    PROVE  box' \in [Svc -> Seq(Message)] /\ Grown(box', box, {m}) /\ AllHarmless({m}, alive)
<1>1. box \in [Svc -> Seq(Message)]
  BY DEF TypeOK
<1>2. AllHarmless({m}, alive)
  BY DEF AllHarmless
<1>3. CASE box' = Post(box, to, m)
  BY <1>3, <1>1, <1>2, PostExtends DEF Grown
<1>4. CASE box' = box
  BY <1>4, <1>1, <1>2 DEF Grown, Extends
<1> QED
  BY <1>3, <1>4

(* The source of a request is told. *)
LEMMA PostTold ==
    ASSUME TypeOK, NEW s \in Svc, NEW r \in Request, NEW type \in {"resp", "err"}, alive[r.src],
           box' = Post(box, r.src, Msg(type, s, r.session))
    PROVE  Told(r, s)'
<1>1. PICK m : m = Msg(type, s, r.session)
  OBVIOUS
<1>2. m \in Message /\ r.src \in Svc /\ m.type = type /\ m.session = r.session
  BY <1>1 DEF Msg, Message, Request
<1>3. box \in [Svc -> Seq(Message)]
  BY DEF TypeOK
<1>4. Queued(m, box'[r.src])
  BY <1>1, <1>2, <1>3, PostExtends
<1> QED
  BY <1>4, <1>2 DEF Queued, Told, Telling

(* A step in which s gives up one request at most, x. *)
LEMMA HandsBut ==
    ASSUME NEW s \in Svc, lua[s] \in LuaState, lua'[s] \in LuaState, NEW c, NEW x, lua'[s].ph # "exit",
           \A r \in lua[s].unresponse : r \in lua'[s].unresponse \/ r = x,
           \A d \in Co : d # c => /\ lua'[s].session_coroutine[d] = lua[s].session_coroutine[d]
                                  /\ d \in lua'[s].session_response => d \in lua[s].session_response,
           Owes(lua[s], c) => lua[s].session_coroutine[c] = x,
           x \in Request /\ alive[x.src] => Holds(lua'[s], x) \/ Told(x, s)'
    PROVE  HandsOver(s)
<1>1. SUFFICES ASSUME NEW r \in Request, Holds(lua[s], r), alive[r.src] PROVE Holds(lua'[s], r) \/ Told(r, s)'
  BY DEF HandsOver
<1>2. CASE r = x
  BY <1>2, <1>1
<1>3. CASE r # x
  <2>1. CASE r \in lua[s].unresponse
    BY <2>1, <1>3 DEF Holds
  <2>2. CASE \E d \in Co : Owes(lua[s], d) /\ lua[s].session_coroutine[d] = r
    <3>1. PICK d \in Co : Owes(lua[s], d) /\ lua[s].session_coroutine[d] = r
      BY <2>2
    <3>2. d # c
      BY <3>1, <1>3
    <3>3. Owes(lua'[s], d) /\ lua'[s].session_coroutine[d] = r
      BY <3>1, <3>2 DEF Owes
    <3> QED
      BY <3>3 DEF Holds
  <2> QED
    BY <1>1, <2>1, <2>2 DEF Holds
<1> QED
  BY <1>2, <1>3

(* skynet.ret: the caller is told, unless it is dead. *)
LEMMA RetStep ==
    ASSUME LuaInv, NEW s \in Svc, NEW c \in Co, NEW type \in {"resp", "err"}, Ret(s, c, type)
    PROVE  LuaInv' /\ (CallInv => CallInv')
<1>1. TypeOK /\ Own(s) /\ lua[s] \in LuaState /\ BoxInv
  BY DEF LuaInv, OwnInv, TypeOK
<1>2. /\ lua'[s] \in LuaState /\ Own(s)' /\ Steady(lua'[s], lua[s]) /\ Owes(lua[s], c)
      /\ lua'[s].session_coroutine = lua[s].session_coroutine
      /\ lua'[s].session_response = lua[s].session_response \cup {c}
      /\ lua'[s].unresponse = lua[s].unresponse
  BY <1>1, RetOwn
<1>3. alive' = alive /\ killed' = killed /\ astray' = astray /\ timers' = timers
  BY DEF Ret
<1>4. PICK x : Set(s, x)
  BY DEF Ret
<1>5. nops' = nops
  BY DEF Ret
<1>6. Frame(s)
  BY <1>1, <1>4, <1>5, SetFrame
<1>7. timers' \in [Svc -> SUBSET Session]
  BY <1>1, <1>3 DEF TypeOK
<1>8. PICK r : /\ r = lua[s].session_coroutine[c] /\ r \in Request /\ r.session # 0 /\ r.src \in Svc
               /\ r.session \in {0} \cup Session
  <2>1. lua[s].session_coroutine[c] \in Request \cup {NULL} /\ lua[s].session_coroutine[c] # NULL /\ lua[s].session_coroutine[c].session # 0
    BY <1>1, <1>2 DEF LuaState, Owes
  <2> QED
    BY <2>1 DEF Request
<1>9. PICK m : m = Msg(type, s, r.session)
  OBVIOUS
<1>10. m \in Message /\ Harmless(m, alive)
  BY <1>9, <1>8 DEF Msg, Message, Request, Harmless, Asks
<1>11. box' = IF r.src \in lua[s].dead_service THEN box ELSE Post(box, r.src, m)
  BY <1>8, <1>9 DEF Ret
<1>12. box' \in [Svc -> Seq(Message)] /\ Grown(box', box, {m}) /\ AllHarmless({m}, alive)
  BY <1>11, <1>10, <1>8, <1>1, PostGrown
<1>13. Calm(lua'[s], lua[s]) /\ lua'[s].ph # "exit" /\ lua[s].ph # "exit" /\ lua[s].session_id <= lua'[s].session_id
  BY <1>2 DEF Steady, Calm
<1>14. ServesOnly(lua'[s], lua[s], {})
  BY <1>2, <1>13 DEF ServesOnly
<1>15. HandsOver(s)
  <2>1. \A a \in lua[s].dead_service : ~ alive[a]
    BY <1>1 DEF BoxInv, BoxOK
  <2>2. alive[r.src] => Told(r, s)'
    BY <2>1, <1>11, <1>9, <1>8, <1>1, PostTold
  <2> QED
    BY <2>2, <1>2, <1>8, <1>1, <1>13, HandsBut
<1> QED
  BY <1>1, <1>2, <1>3, <1>7, <1>6, <1>12, <1>13, <1>14, <1>15, CalmStep

(* skynet.response: the closure has what the coroutine had, or is not made. *)
LEMMA ResponseStep ==
    ASSUME LuaInv, NEW s \in Svc, NEW c \in Co, Response(s, c)
    PROVE  LuaInv' /\ (CallInv => CallInv')
<1>1. TypeOK /\ Own(s) /\ lua[s] \in LuaState /\ BoxInv
  BY DEF LuaInv, OwnInv, TypeOK
<1>2. PICK r : r = lua[s].session_coroutine[c]
  OBVIOUS
<1>3. alive' = alive /\ killed' = killed /\ astray' = astray /\ timers' = timers
  BY DEF Response
<1>4. PICK x : Set(s, x)
  BY DEF Response
<1>5. nops' = nops
  BY DEF Response
<1>6. Frame(s)
  BY <1>1, <1>4, <1>5, SetFrame
<1>7. timers' \in [Svc -> SUBSET Session]
  BY <1>1, <1>3 DEF TypeOK
<1>8. box' = box
  BY DEF Response
<1>9. box' \in [Svc -> Seq(Message)] /\ Grown(box', box, {}) /\ AllHarmless({}, alive)
  BY <1>8, <1>1, NoneSent DEF TypeOK
<1>10. CASE lua[s].watching_service[r.src] # 0
  <2>1. /\ lua'[s] \in LuaState /\ Own(s)' /\ Steady(lua'[s], lua[s]) /\ Owes(lua[s], c)
        /\ lua'[s].session_coroutine = lua[s].session_coroutine
        /\ lua'[s].session_response = lua[s].session_response \cup {c}
        /\ lua'[s].unresponse = lua[s].unresponse \cup {r}
    BY <1>1, <1>2, <1>10, ResponseOwn
  <2>2. Calm(lua'[s], lua[s]) /\ lua'[s].ph # "exit" /\ lua[s].ph # "exit" /\ lua[s].session_id <= lua'[s].session_id
    BY <2>1 DEF Steady, Calm
  <2>3. ServesOnly(lua'[s], lua[s], {})
    BY <2>1, <1>2, <2>2 DEF ServesOnly
  <2>4. HandsOver(s)
    <3>1. Holds(lua'[s], r)
      BY <2>1, <2>2 DEF Holds
    <3> QED
      BY <3>1, <2>1, <1>2, <1>1, <2>2, HandsBut
  <2> QED
    BY <1>1, <2>1, <1>3, <1>7, <1>6, <1>9, <2>2, <2>3, <2>4, CalmStep
<1>11. CASE lua[s].watching_service[r.src] = 0
  <2>1. lua'[s] \in LuaState /\ Own(s)' /\ Quiet(lua'[s], lua[s])
    BY <1>1, <1>2, <1>11, ResponseRefused
  <2> QED
    BY <2>1, <1>3, <1>6, <1>7, <1>8, QuietStep
<1> QED
  BY <1>10, <1>11

(* A closure answers: the caller is told, unless it is dead. *)
LEMMA AnswerStep ==
    ASSUME LuaInv, NEW s \in Svc, NEW c \in Co, NEW r, NEW type \in {"resp", "err"}, Answer(s, c, r, type)
    PROVE  LuaInv' /\ (CallInv => CallInv')
<1>1. TypeOK /\ Own(s) /\ lua[s] \in LuaState /\ BoxInv
  BY DEF LuaInv, OwnInv, TypeOK
<1>2. /\ lua'[s] \in LuaState /\ Own(s)' /\ Steady(lua'[s], lua[s]) /\ r \in lua[s].unresponse
      /\ lua'[s].session_coroutine = lua[s].session_coroutine
      /\ lua'[s].session_response = lua[s].session_response
      /\ lua'[s].unresponse = lua[s].unresponse \ {r}
  BY <1>1, AnswerOwn
<1>3. alive' = alive /\ killed' = killed /\ astray' = astray /\ timers' = timers
  BY DEF Answer
<1>4. PICK x : Set(s, x)
  BY DEF Answer
<1>5. nops' = nops
  BY DEF Answer
<1>6. Frame(s)
  BY <1>1, <1>4, <1>5, SetFrame
<1>7. timers' \in [Svc -> SUBSET Session]
  BY <1>1, <1>3 DEF TypeOK
<1>8. r \in Request /\ r.session # 0 /\ r.src \in Svc /\ r.session \in {0} \cup Session
  <2>1. r \in Request
    BY <1>1, <1>2 DEF LuaState
  <2>2. r.session # 0
    BY <1>1, <1>2 DEF Own, Serves, Serving
  <2> QED
    BY <2>1, <2>2 DEF Request
<1>9. PICK m : m = Msg(type, s, r.session)
  OBVIOUS
<1>10. m \in Message /\ Harmless(m, alive)
  BY <1>9, <1>8 DEF Msg, Message, Request, Harmless, Asks
<1>11. box' = IF r.src \in lua[s].dead_service THEN box ELSE Post(box, r.src, m)
  BY <1>9 DEF Answer
<1>12. box' \in [Svc -> Seq(Message)] /\ Grown(box', box, {m}) /\ AllHarmless({m}, alive)
  BY <1>11, <1>10, <1>8, <1>1, PostGrown
<1>13. Calm(lua'[s], lua[s]) /\ lua'[s].ph # "exit" /\ lua[s].ph # "exit" /\ lua[s].session_id <= lua'[s].session_id
  BY <1>2 DEF Steady, Calm
<1>14. ServesOnly(lua'[s], lua[s], {})
  BY <1>2, <1>13 DEF ServesOnly
<1>15. HandsOver(s)
  <2>1. \A a \in lua[s].dead_service : ~ alive[a]
    BY <1>1 DEF BoxInv, BoxOK
  <2>2. alive[r.src] => Told(r, s)'
    BY <2>1, <1>11, <1>9, <1>8, <1>1, PostTold
  <2>3. SUFFICES ASSUME NEW p \in Request, Holds(lua[s], p), alive[p.src] PROVE Holds(lua'[s], p) \/ Told(p, s)'
    BY DEF HandsOver
  <2>4. CASE p = r
    BY <2>4, <2>2, <2>3
  <2>5. CASE p # r
    BY <2>5, <2>3, <1>2, <1>13 DEF Holds, Owes
  <2> QED
    BY <2>4, <2>5
<1> QED
  BY <1>1, <1>2, <1>3, <1>7, <1>6, <1>12, <1>13, <1>14, <1>15, CalmStep

(* A closure is dropped when its caller is dead. *)
LEMMA TestStep ==
    ASSUME LuaInv, NEW s \in Svc, NEW c \in Co, NEW r, TestResponse(s, c, r)
    PROVE  LuaInv' /\ (CallInv => CallInv')
<1>1. TypeOK /\ Own(s) /\ lua[s] \in LuaState /\ BoxInv
  BY DEF LuaInv, OwnInv, TypeOK
<1>2. /\ lua'[s] \in LuaState /\ Own(s)' /\ Steady(lua'[s], lua[s]) /\ r.src \in lua[s].dead_service
      /\ lua'[s].session_coroutine = lua[s].session_coroutine
      /\ lua'[s].session_response = lua[s].session_response
      /\ lua'[s].unresponse = lua[s].unresponse \ {r}
  BY <1>1, TestOwn
<1>3. alive' = alive /\ killed' = killed /\ astray' = astray /\ timers' = timers
  BY DEF TestResponse
<1>4. PICK x : Set(s, x)
  BY DEF TestResponse
<1>5. nops' = nops
  BY DEF TestResponse
<1>6. Frame(s)
  BY <1>1, <1>4, <1>5, SetFrame
<1>7. timers' \in [Svc -> SUBSET Session]
  BY <1>1, <1>3 DEF TypeOK
<1>8. box' = box
  BY DEF TestResponse
<1>9. box' \in [Svc -> Seq(Message)] /\ Grown(box', box, {}) /\ AllHarmless({}, alive)
  BY <1>8, <1>1, NoneSent DEF TypeOK
<1>10. Calm(lua'[s], lua[s]) /\ lua'[s].ph # "exit" /\ lua[s].ph # "exit" /\ lua[s].session_id <= lua'[s].session_id
  BY <1>2 DEF Steady, Calm
<1>11. ServesOnly(lua'[s], lua[s], {})
  BY <1>2, <1>10 DEF ServesOnly
<1>12. HandsOver(s)
  <2>1. \A a \in lua[s].dead_service : ~ alive[a]
    BY <1>1 DEF BoxInv, BoxOK
  <2>2. ~ alive[r.src]
    BY <2>1, <1>2
  <2>3. SUFFICES ASSUME NEW p \in Request, Holds(lua[s], p), alive[p.src] PROVE Holds(lua'[s], p) \/ Told(p, s)'
    BY DEF HandsOver
  <2>4. p # r
    BY <2>2, <2>3
  <2> QED
    BY <2>4, <2>3, <1>2, <1>10 DEF Holds, Owes
<1> QED
  BY <1>1, <1>2, <1>3, <1>7, <1>6, <1>9, <1>10, <1>11, <1>12, CalmStep

(* A coroutine returns, with nothing to answer. *)
LEMMA FinishStep ==
    ASSUME LuaInv, NEW s \in Svc, NEW c \in Co, Finish(s, c)
    PROVE  LuaInv' /\ (CallInv => CallInv')
<1>1. TypeOK /\ Own(s) /\ lua[s] \in LuaState /\ BoxInv
  BY DEF LuaInv, OwnInv, TypeOK
<1>2. /\ lua'[s] \in LuaState /\ Own(s)' /\ Steady(lua'[s], lua[s]) /\ ~ Owes(lua[s], c)
      /\ lua'[s].session_coroutine = [lua[s].session_coroutine EXCEPT ![c] = NULL]
      /\ lua'[s].session_response = lua[s].session_response \ {c}
      /\ lua'[s].unresponse = lua[s].unresponse
  BY <1>1, FinishOwn
<1>3. alive' = alive /\ killed' = killed /\ astray' = astray /\ timers' = timers
  BY DEF Finish
<1>4. PICK x : Set(s, x)
  BY DEF Finish
<1>5. nops' = nops
  BY DEF Finish
<1>6. Frame(s)
  BY <1>1, <1>4, <1>5, SetFrame
<1>7. timers' \in [Svc -> SUBSET Session]
  BY <1>1, <1>3 DEF TypeOK
<1>8. box' = box
  BY DEF Finish
<1>9. box' \in [Svc -> Seq(Message)] /\ Grown(box', box, {}) /\ AllHarmless({}, alive)
  BY <1>8, <1>1, NoneSent DEF TypeOK
<1>10. Calm(lua'[s], lua[s]) /\ lua'[s].ph # "exit" /\ lua[s].ph # "exit" /\ lua[s].session_id <= lua'[s].session_id
  BY <1>2 DEF Steady, Calm
<1>11. /\ lua'[s].session_coroutine[c] = NULL
       /\ \A d \in Co : d # c => lua'[s].session_coroutine[d] = lua[s].session_coroutine[d]
  <2>1. lua[s].session_coroutine \in [Co -> Request \cup {NULL}]
    BY <1>1 DEF LuaState
  <2>2. lua'[s].session_coroutine = [lua[s].session_coroutine EXCEPT ![c] = NULL]
    BY <1>2
  <2> QED
    BY <2>1, <2>2
<1>12. /\ lua'[s].session_response = lua[s].session_response \ {c} /\ lua'[s].unresponse = lua[s].unresponse
  BY <1>2
<1>13. ServesOnly(lua'[s], lua[s], {})
  BY <1>12, <1>11, <1>10 DEF ServesOnly
<1>14. HandsOver(s)
  <2>1. NULL \notin Request
    BY LuaAssumption
  <2>2. ~ Owes(lua[s], c) /\ lua'[s] \in LuaState
    BY <1>2
  <2> QED
    BY <2>1, <2>2, <1>12, <1>11, <1>1, <1>10, HandsBut
<1> QED
  BY <1>1, <1>2, <1>3, <1>7, <1>6, <1>9, <1>10, <1>13, <1>14, CalmStep

(* A coroutine dies of an error: the caller is told. *)
LEMMA FailStep ==
    ASSUME LuaInv, NEW s \in Svc, NEW c \in Co, Fail(s, c)
    PROVE  LuaInv' /\ (CallInv => CallInv')
<1>1. TypeOK /\ Own(s) /\ lua[s] \in LuaState /\ BoxInv
  BY DEF LuaInv, OwnInv, TypeOK
<1>2. /\ lua'[s] \in LuaState /\ Own(s)' /\ Steady(lua'[s], lua[s])
      /\ lua'[s].session_coroutine = [lua[s].session_coroutine EXCEPT ![c] = NULL]
      /\ lua'[s].session_response = lua[s].session_response \ {c}
      /\ lua'[s].unresponse = lua[s].unresponse
  BY <1>1, FailOwn
<1>3. alive' = alive /\ killed' = killed /\ astray' = astray /\ timers' = timers
  BY DEF Fail
<1>4. PICK x : Set(s, x)
  BY DEF Fail
<1>5. nops' = nops
  BY DEF Fail
<1>6. Frame(s)
  BY <1>1, <1>4, <1>5, SetFrame
<1>7. timers' \in [Svc -> SUBSET Session]
  BY <1>1, <1>3 DEF TypeOK
<1>8. PICK r : r = lua[s].session_coroutine[c] /\ r \in Request \cup {NULL}
  BY <1>1 DEF LuaState
<1>9. box' = IF r = NULL THEN box ELSE IF r.session = 0 THEN box ELSE Post(box, r.src, Msg("err", s, r.session))
  BY <1>8 DEF Fail
<1>10. \E M : box' \in [Svc -> Seq(Message)] /\ Grown(box', box, M) /\ AllHarmless(M, alive)
  <2>1. CASE box' = box
    BY <2>1, <1>1, NoneSent DEF TypeOK
  <2>2. CASE r \in Request /\ r.session # 0 /\ box' = Post(box, r.src, Msg("err", s, r.session))
    <3>1. PICK m : m = Msg("err", s, r.session)
      OBVIOUS
    <3>2. m \in Message /\ Harmless(m, alive) /\ r.src \in Svc
      BY <3>1, <2>2 DEF Msg, Message, Request, Harmless, Asks
    <3> QED
      BY <3>1, <3>2, <2>2, <1>1, PostGrown
  <2> QED
    BY <1>9, <1>8, <2>1, <2>2
<1>11. PICK M : box' \in [Svc -> Seq(Message)] /\ Grown(box', box, M) /\ AllHarmless(M, alive)
  BY <1>10
<1>12. Calm(lua'[s], lua[s]) /\ lua'[s].ph # "exit" /\ lua[s].ph # "exit" /\ lua[s].session_id <= lua'[s].session_id
  BY <1>2 DEF Steady, Calm
<1>13. /\ lua'[s].session_coroutine[c] = NULL
       /\ \A d \in Co : d # c => lua'[s].session_coroutine[d] = lua[s].session_coroutine[d]
  <2>1. lua[s].session_coroutine \in [Co -> Request \cup {NULL}]
    BY <1>1 DEF LuaState
  <2>2. lua'[s].session_coroutine = [lua[s].session_coroutine EXCEPT ![c] = NULL]
    BY <1>2
  <2> QED
    BY <2>1, <2>2
<1>14. /\ lua'[s].session_response = lua[s].session_response \ {c} /\ lua'[s].unresponse = lua[s].unresponse
  BY <1>2
<1>15. ServesOnly(lua'[s], lua[s], {})
  BY <1>14, <1>13, <1>12 DEF ServesOnly
<1>16. HandsOver(s)
  <2>1. CASE Owes(lua[s], c)
    <3>1. r \in Request /\ r # NULL /\ r.session # 0
      BY <2>1, <1>8 DEF Owes
    <3>2. alive[r.src] => Told(r, s)'
      BY <3>1, <1>9, <1>1, PostTold
    <3>3. lua'[s] \in LuaState
      BY <1>2
    <3> QED
      BY <3>1, <3>2, <3>3, <1>8, <1>14, <1>13, <1>1, <1>12, HandsBut
  <2>2. CASE ~ Owes(lua[s], c)
    <3>1. NULL \notin Request
      BY LuaAssumption
    <3>2. lua'[s] \in LuaState
      BY <1>2
    <3> QED
      BY <3>1, <3>2, <2>2, <1>14, <1>13, <1>1, <1>12, HandsBut
  <2> QED
    BY <2>1, <2>2
<1> QED
  BY <1>1, <1>2, <1>3, <1>7, <1>6, <1>11, <1>12, <1>15, <1>16, CalmStep

(* A message is sent by a service whose tables stay as they are. *)
LEMMA SentStep ==
    ASSUME LuaInv, NEW s \in Svc, Own(s)', lua' = lua, nops' = nops \/ \E name : Op(s, name),
           alive' = alive, killed' = killed, astray' = astray, timers' \in [Svc -> SUBSET Session],
           NEW to \in Svc, NEW m \in Message, Harmless(m, alive), box' = Post(box, to, m)
    PROVE  LuaInv' /\ (CallInv => CallInv')
<1>1. TypeOK /\ Own(s) /\ lua[s] \in LuaState /\ BoxInv
  BY DEF LuaInv, OwnInv, TypeOK
<1>2. Frame(s)
  BY <1>1, SameFrame
<1>3. box' \in [Svc -> Seq(Message)] /\ Grown(box', box, {m}) /\ AllHarmless({m}, alive)
  BY <1>1, PostGrown
<1>4. lua[s].session_id \in Nat /\ lua'[s] \in LuaState
  BY <1>1 DEF LuaState
<1>5. Calm(lua'[s], lua[s]) /\ lua[s].session_id <= lua'[s].session_id /\ SameServing(lua'[s], lua[s])
  BY <1>4 DEF Calm, SameServing
<1>6. ServesOnly(lua'[s], lua[s], {})
  BY <1>5, <1>4, SameServesOnly
<1>7. HandsOver(s)
  BY DEF HandsOver
<1> QED
  BY <1>1, <1>2, <1>3, <1>4, <1>5, <1>6, <1>7, CalmStep

(* skynet.send *)
LEMMA SendStep ==
    ASSUME LuaInv, NEW s \in Svc, NEW c \in Co, NEW d \in Svc, NEW type \in {"req", "odd"}, Send(s, c, d, type)
    PROVE  LuaInv' /\ (CallInv => CallInv')
<1>1. TypeOK /\ Own(s) /\ lua[s] \in LuaState /\ BoxInv
  BY DEF LuaInv, OwnInv, TypeOK
<1>2. alive' = alive /\ killed' = killed /\ astray' = astray /\ timers' = timers /\ lua' = lua /\ Op(s, "send")
  BY DEF Send
<1>3. timers' \in [Svc -> SUBSET Session]
  BY <1>1, <1>2 DEF TypeOK
<1>4. PICK m : m = Msg(type, s, 0) /\ box' = Post(box, d, m)
  BY DEF Send
<1>5. m \in Message /\ Harmless(m, alive)
  BY <1>4 DEF Msg, Message, Harmless, Asks
<1>6. Own(s)'
  BY <1>1, <1>2, CountOwn
<1> QED
  BY <1>2, <1>3, <1>4, <1>5, <1>6, SentStep

(* A timer expires. *)
LEMMA ExpireStep ==
    ASSUME LuaInv, NEW s \in Svc, NEW q \in Session, TimerExpire(s, q)
    PROVE  LuaInv' /\ (CallInv => CallInv')
<1>1. TypeOK /\ Own(s) /\ lua[s] \in LuaState /\ BoxInv
  BY DEF LuaInv, OwnInv, TypeOK
<1>2. alive' = alive /\ killed' = killed /\ astray' = astray /\ lua' = lua /\ nops' = nops
  BY DEF TimerExpire
<1>3. timers' \in [Svc -> SUBSET Session]
  BY <1>1 DEF TypeOK, TimerExpire
<1>4. PICK m : m = Msg("resp", s, q) /\ box' = Post(box, s, m)
  BY DEF TimerExpire
<1>5. q # 0
  BY DEF Session
<1>6. m \in Message /\ Harmless(m, alive)
  BY <1>4, <1>5 DEF Msg, Message, Harmless, Asks
<1>7. Own(s)'
  BY <1>1, <1>2 DEF Own
<1> QED
  BY <1>2, <1>3, <1>4, <1>6, <1>7, SentStep

(* The coroutines of a service are finitely many. *)
LEMMA CoFinite == IsFiniteSet(Co)
BY LuaAssumption, FS_Interval DEF Co

(* The requests a coroutine serves are finitely many. *)
LEMMA ServedFinite ==
    ASSUME NEW v \in LuaState, NEW R, R \subseteq {v.session_coroutine[d] : d \in {d \in Co : v.session_coroutine[d] # NULL}}
    PROVE  IsFiniteSet(R)
<1>1. IsFiniteSet(Co)
  BY CoFinite
<1>2. PICK D : D = {d \in Co : v.session_coroutine[d] # NULL}
  OBVIOUS
<1>3. IsFiniteSet(D)
  BY <1>1, <1>2, FS_Subset
<1>4. PICK S : S = {v.session_coroutine[d] : d \in D}
  OBVIOUS
<1>5. PICK f : f = [d \in D |-> v.session_coroutine[d]]
  OBVIOUS
<1>6. f \in Surjection(D, S)
  BY <1>5, <1>4 DEF Surjection
<1>7. IsFiniteSet(S)
  BY <1>6, <1>3, FS_Surjection
<1> QED
  BY <1>4, <1>7, <1>2, FS_Subset

(* Errors of s to callers are harmless. *)
LEMMA ErrorsHarmless ==
    ASSUME NEW s
    PROVE  AllHarmless(ErrorsOf(s), alive)
<1> QED
  BY DEF AllHarmless, ErrorsOf, Harmless, Asks

(* skynet.exit tells everyone whose request the service has. *)
LEMMA ExitReportStep ==
    ASSUME LuaInv, NEW s \in Svc, NEW c \in Co, ExitReport(s, c)
    PROVE  LuaInv' /\ (CallInv => CallInv')
<1>1. TypeOK /\ Own(s) /\ lua[s] \in LuaState /\ BoxInv
  BY DEF LuaInv, OwnInv, TypeOK
<1>2. /\ lua'[s] \in LuaState /\ Own(s)' /\ lua[s].ph = "run" /\ lua'[s].ph = "exit"
      /\ lua'[s].session_coroutine = lua[s].session_coroutine /\ lua'[s].unresponse = {}
      /\ lua'[s].session_response = lua[s].session_response
      /\ lua'[s].dead_service = lua[s].dead_service
      /\ lua'[s].watching_session = lua[s].watching_session
      /\ lua'[s].error_queue = lua[s].error_queue /\ lua'[s].session_id = lua[s].session_id
  BY <1>1, ExitReportOwn
<1>3. alive' = alive /\ killed' = killed /\ astray' = astray /\ timers' = timers /\ Op(s, "exit")
  BY DEF ExitReport
<1>4. timers' \in [Svc -> SUBSET Session]
  BY <1>1, <1>3 DEF TypeOK
<1>5. PICK x : Set(s, x)
  BY DEF ExitReport
<1>6. Frame(s)
  BY <1>1, <1>5, <1>3, SetFrame
<1>7. PICK R, U : R = {r \in {lua[s].session_coroutine[d] : d \in {d \in Co : lua[s].session_coroutine[d] # NULL}} : r.session # 0}
                  /\ U = {r \in lua[s].unresponse : r.src \notin lua[s].dead_service}
  OBVIOUS
<1>8. PICK p \in Walks(R), u \in Walks(U) : box' = PostErrors(PostErrors(box, s, p), s, u)
  BY <1>7 DEF ExitReport
<1>9. PICK b : b = PostErrors(box, s, p)
  OBVIOUS
<1>10. R \subseteq Request /\ (\A r \in R : r.session # 0) /\ IsFiniteSet(R)
  <2>1. lua[s].session_coroutine \in [Co -> Request \cup {NULL}]
    BY <1>1 DEF LuaState
  <2>2. R \subseteq {lua[s].session_coroutine[d] : d \in {d \in Co : lua[s].session_coroutine[d] # NULL}}
    BY <1>7
  <2> QED
    BY <2>1, <2>2, <1>7, <1>1, ServedFinite
<1>11. U \subseteq Request /\ (\A r \in U : r.session # 0) /\ IsFiniteSet(U)
  <2>1. lua[s].unresponse \subseteq Request
    BY <1>1 DEF LuaState
  <2>2. IsFiniteSet(lua[s].unresponse) /\ \A r \in lua[s].unresponse : r.session # 0
    BY <1>1 DEF Own, Serves, Serving
  <2>3. U \subseteq lua[s].unresponse
    BY <1>7
  <2> QED
    BY <2>1, <2>2, <2>3, FS_Subset
<1>12. box \in [Svc -> Seq(Message)]
  BY <1>1 DEF TypeOK
<1>13. /\ b \in [Svc -> Seq(Message)]
       /\ \A d \in Svc : Extends(b[d], box[d], ErrorsOf(s))
       /\ \A r \in R : alive[r.src] => Queued(Msg("err", s, r.session), b[r.src])
  BY <1>1, <1>9, <1>10, <1>12, PostErrorsExtends
<1>14. box' = PostErrors(b, s, u)
  BY <1>8, <1>9
<1>15. /\ box' \in [Svc -> Seq(Message)]
       /\ \A d \in Svc : Extends(box'[d], b[d], ErrorsOf(s))
       /\ \A r \in U : alive[r.src] => Queued(Msg("err", s, r.session), box'[r.src])
  BY <1>1, <1>14, <1>11, <1>13, PostErrorsExtends
<1>16. Grown(box', box, ErrorsOf(s)) /\ AllHarmless(ErrorsOf(s), alive)
  BY <1>13, <1>15, ExtendsTwice, ErrorsHarmless DEF Grown
<1>17. lua[s].session_id \in Nat
  BY <1>1 DEF LuaState
<1>18. Calm(lua'[s], lua[s])
  BY <1>2, <1>17 DEF Calm
<1>19. ServesOnly(lua'[s], lua[s], {})
  BY <1>2, <1>17 DEF ServesOnly
<1>20. HandsOver(s)
  <2>1. SUFFICES ASSUME NEW r \in Request, Holds(lua[s], r), alive[r.src] PROVE Told(r, s)'
    BY DEF HandsOver
  <2>2. r.src \in Svc
    BY DEF Request
  <2>3. PICK m : m = Msg("err", s, r.session)
    OBVIOUS
  <2>4. m = Msg("err", s, r.session) /\ m.type = "err" /\ m.session = r.session
    BY <2>3 DEF Msg
  <2>5. Queued(m, box'[r.src])
    <3>1. CASE r \in lua[s].unresponse
      <4>1. r.src \notin lua[s].dead_service
        BY <2>1, <1>1 DEF BoxInv, BoxOK
      <4>2. r \in U
        BY <3>1, <4>1, <1>7
      <4> QED
        BY <4>2, <2>1, <1>15, <2>4
    <3>2. CASE \E d \in Co : Owes(lua[s], d) /\ lua[s].session_coroutine[d] = r
      <4>1. r \in R
        BY <3>2, <1>7 DEF Owes
      <4>2. Queued(m, b[r.src])
        BY <4>1, <2>1, <1>13, <2>4
      <4>3. Extends(box'[r.src], b[r.src], ErrorsOf(s))
        BY <2>2, <1>15
      <4> QED
        BY <4>2, <4>3 DEF Queued, Extends
    <3> QED
      BY <3>1, <3>2, <2>1 DEF Holds
  <2> QED
    BY <2>5, <2>4 DEF Queued, Told, Telling
<1> QED
  BY <1>1, <1>2, <1>3, <1>4, <1>6, <1>15, <1>16, <1>18, <1>19, <1>20, CalmStep

(* The callee of a call is a service. *)
LEMMA CalleeService ==
    ASSUME TypeOK, NEW a \in Svc, NEW q \in Session, InCall(a, q)
    PROVE  Callee(a, q) \in Svc
<1>1. lua[a] \in LuaState
  BY DEF TypeOK
<1>2. lua[a].watching_session[q] \in Svc \cup {NULL}
  BY <1>1 DEF LuaState
<1> QED
  BY <1>2 DEF InCall, Callee

(* What comes for a call still comes when messages are only sent. *)
LEMMA ComingKept ==
    ASSUME NEW M, Grown(box', box, M), NEW a \in Svc, NEW q \in Session, NEW d \in Svc,
           d = Callee(a, q), d = Callee(a, q)',
           \A i \in DOMAIN lua[a].error_queue : lua[a].error_queue[i] = q =>
               \E j \in DOMAIN lua'[a].error_queue : lua'[a].error_queue[j] = q,
           Coming(a, q)
    PROVE  Coming(a, q)'
<1>1. \A e \in Svc : \A i \in DOMAIN box[e] : i \in DOMAIN box'[e] /\ box'[e][i] = box[e][i]
  BY DEF Grown, Extends
<1>2. CASE \E i \in DOMAIN box[d] : Asking(box[d][i], a, q)
  BY <1>2, <1>1 DEF Coming
<1>3. CASE \E i \in DOMAIN box[a] : Telling(box[a][i], q, d)
  BY <1>3, <1>1 DEF Coming
<1>4. CASE \E i \in DOMAIN lua[a].error_queue : lua[a].error_queue[i] = q
  BY <1>4 DEF Coming
<1> QED
  BY <1>2, <1>3, <1>4 DEF Coming

(* skynet.kill: the handle goes, the tables stay. *)
LEMMA KillStep ==
    ASSUME LuaInv, NEW s \in Svc, NEW c \in Co, NEW d \in Svc, Kill(s, c, d)
    PROVE  LuaInv' /\ (CallInv => CallInv')
<1>1. TypeOK /\ Own(s) /\ lua[s] \in LuaState /\ BoxInv
  BY DEF LuaInv, OwnInv, TypeOK
<1>2. box \in [Svc -> Seq(Message)] /\ lua \in [Svc -> LuaState] /\ BoxOK(box, lua, alive)
  BY <1>1 DEF TypeOK, BoxInv
<1>3. box' = box /\ timers' = timers /\ lua' = lua /\ astray' = astray /\ killed' = killed \cup {d} /\ Op(s, "kill")
  BY DEF Kill
<1>4. alive' = [alive EXCEPT ![d] = FALSE]
  BY DEF Kill
<1>5. alive' \in [Svc -> BOOLEAN] /\ Fewer(alive', alive) /\ \A e \in Svc : e # d => alive'[e] = alive[e]
  BY <1>4, <1>1 DEF TypeOK, Fewer
<1>6. Growing
  BY <1>3, <1>5, <1>1 DEF Growing, TypeOK
<1>7. Own(s)'
  BY <1>1, <1>3, <1>5, CountOwn DEF Fewer
<1>8. Frame(s)
  BY <1>1, <1>3, SameFrame
<1>9. lua[s].session_id \in Nat /\ SameServing(lua'[s], lua[s]) /\ lua'[s] \in LuaState
  BY <1>1, <1>3 DEF LuaState, SameServing
<1>10. lua[s].session_id <= lua'[s].session_id
  BY <1>9, <1>3
<1>11. ServesOnly(lua'[s], lua[s], {})
  BY <1>9, <1>10, SameServesOnly
<1>12. BoxOK(box, lua', alive')
  <2>1. FromQueue({}, lua, box[s])
    BY DEF FromQueue
  <2>2. OnlyGone(lua'[s].dead_service, lua[s].dead_service, alive')
    BY <1>3 DEF OnlyGone
  <2>3. lua' = [lua EXCEPT ![s] = lua'[s]]
    BY <1>8 DEF Frame
  <2> QED
    BY <2>1, <2>2, <1>5, <1>2, <2>3, <1>9, <1>11, TablesBox
<1>13. LuaInv'
  BY <1>12, <1>6, <1>8, <1>9, <1>7, <1>3, <1>2, <1>1, InvStep DEF TypeOK
<1>14. ASSUME CallInv PROVE CallInv'
  <2>1. Grown(box', box, {})
    BY <1>3, NoneSent
  <2>2. \A a \in Svc : /\ lua'[a].watching_session = lua[a].watching_session
                       /\ lua'[a].error_queue = lua[a].error_queue
    BY <1>3
  <2>3. CallsKept /\ ComingOn
    BY <2>2, <2>1, <1>1, SteadyCalls
  <2>4. ExitsKept
    BY <1>3 DEF ExitsKept
  <2>5. HeldOn
    <3>1. ASSUME NEW e \in Svc, NEW r \in Request, Held(e, r), e \notin killed' PROVE Held(e, r)'
      BY <3>1, <1>3, <1>5 DEF Held
    <3> QED
      BY <3>1 DEF HeldOn
  <2> QED
    BY <1>14, <1>1, <1>6, <2>3, <2>4, <2>5, CallStep
<1> QED
  BY <1>13, <1>14

(* skynet.call: a caller that parks has sent its request. *)
LEMMA CallerStep ==
    ASSUME LuaInv, NEW s \in Svc, NEW c \in Co, NEW d \in Svc, NEW type \in {"req", "odd"}, Call(s, c, d, type)
    PROVE  LuaInv' /\ (CallInv => CallInv')
<1>1. TypeOK /\ Own(s) /\ lua[s] \in LuaState /\ BoxInv
  BY DEF LuaInv, OwnInv, TypeOK
<1>2. box \in [Svc -> Seq(Message)] /\ lua \in [Svc -> LuaState] /\ BoxOK(box, lua, alive)
  BY <1>1 DEF TypeOK, BoxInv
<1>3. PICK q : q = lua[s].session_id + 1
  OBVIOUS
<1>4. /\ lua'[s] \in LuaState /\ Own(s)' /\ SameServing(lua'[s], lua[s])
      /\ lua'[s].dead_service = lua[s].dead_service
      /\ lua'[s].error_queue = lua[s].error_queue
      /\ lua'[s].ph # "exit" /\ lua[s].ph # "exit"
      /\ lua'[s].session_id = q /\ q = lua[s].session_id + 1 /\ q \in Session
      /\ lua[s].watching_session[q] = NULL
      /\ lua'[s].watching_session =
            IF alive[d] THEN [lua[s].watching_session EXCEPT ![q] = d] ELSE lua[s].watching_session
  BY <1>3, <1>1, CallOwn
<1>5. alive' = alive /\ killed' = killed /\ astray' = astray /\ timers' = timers
  BY DEF Call
<1>6. PICK x : Set(s, x)
  BY DEF Call
<1>7. \E name : Op(s, name)
  BY DEF Call
<1>8. Frame(s)
  BY <1>1, <1>6, <1>7, SetFrame
<1>9. lua' = [lua EXCEPT ![s] = lua'[s]] /\ \A t \in Svc : t # s => lua'[t] = lua[t]
  BY <1>2, <1>8 DEF Frame
<1>10. timers' \in [Svc -> SUBSET Session]
  BY <1>1, <1>5 DEF TypeOK
<1>11. PICK m : m = Msg(type, s, q) /\ box' = Post(box, d, m)
  BY <1>3 DEF Call
<1>12. m \in Message /\ Asks(m) /\ m.src = s /\ m.session = q /\ m.session # 0
  <2>1. q \in Session /\ q # 0
    BY <1>4 DEF Session
  <2> QED
    BY <2>1, <1>11 DEF Msg, Message, Asks
<1>13. /\ box' \in [Svc -> Seq(Message)] /\ (\A e \in Svc : Extends(box'[e], box[e], {m}))
       /\ alive[d] => Queued(m, box'[d])
  BY <1>1, <1>2, <1>11, <1>12, PostExtends
<1>14. lua[s].session_id \in Nat /\ lua[s].session_id < q /\ lua[s].session_id <= lua'[s].session_id
       /\ m.session > lua[s].session_id /\ m.session <= lua'[s].session_id
  <2>1. lua[s].session_id \in Nat
    BY <1>1 DEF LuaState
  <2> QED
    BY <2>1, <1>3, <1>4, <1>12
<1>15. Growing
  BY <1>1, <1>5, StillGrowing
<1>16. ServesOnly(lua'[s], lua[s], {})
  BY <1>4, <1>14, SameServesOnly
<1>17. BoxOK(box, lua', alive)
  <2>1. FromQueue({}, lua, box[s])
    BY DEF FromQueue
  <2>2. Fewer(alive, alive)
    BY DEF Fewer
  <2>3. OnlyGone(lua'[s].dead_service, lua[s].dead_service, alive)
    BY <1>4 DEF OnlyGone
  <2> QED
    BY <2>1, <2>2, <2>3, <1>2, <1>9, <1>4, <1>16, TablesBox
<1>18. BoxOK(box', lua', alive)
  <2>1. SameServing(lua'[d], lua[d])
    BY <1>4, <1>9 DEF SameServing
  <2>2. m.session > lua[m.src].session_id /\ m.session <= lua'[m.src].session_id
    BY <1>14, <1>12
  <2> QED
    BY <2>1, <2>2, <1>17, <1>2, <1>1, <1>11, <1>12, AskBox
<1>19. LuaInv'
  BY <1>18, <1>5, <1>15, <1>8, <1>4, <1>13, <1>10, InvStep
<1>20. ASSUME CallInv PROVE CallInv'
  <2>1. Grown(box', box, {m})
    BY <1>13 DEF Grown
  <2>2. /\ lua'[s].watching_session[q] # NULL => alive[d] /\ lua'[s].watching_session[q] = d
        /\ \A p \in Session : p # q => lua'[s].watching_session[p] = lua[s].watching_session[p]
    <3>1. lua[s].watching_session \in [Session -> Svc \cup {NULL}]
      BY <1>1 DEF LuaState
    <3>2. /\ q \in Session /\ lua[s].watching_session[q] = NULL
          /\ lua'[s].watching_session =
                IF alive[d] THEN [lua[s].watching_session EXCEPT ![q] = d] ELSE lua[s].watching_session
      BY <1>4
    <3> QED
      BY <3>1, <3>2
  <2>3. InCall(s, q)' => Coming(s, q)'
    <3>1. ASSUME InCall(s, q)' PROVE Coming(s, q)'
      <4>1. alive[d] /\ Callee(s, q)' = d
        BY <3>1, <2>2 DEF InCall, Callee
      <4>2. \E i \in DOMAIN box'[d] : box'[d][i] = m
        BY <4>1, <1>13 DEF Queued
      <4>3. Asking(m, s, q)
        BY <1>12 DEF Asking
      <4> QED
        BY <4>1, <4>2, <4>3 DEF Coming
    <3> QED
      BY <3>1
  <2>4. ASSUME NEW a \in Svc, NEW p \in Session, InCall(a, p)', ~ (a = s /\ p = q)
        PROVE  InCall(a, p) /\ Callee(a, p)' = Callee(a, p)
    <3>1. CASE a = s
      BY <3>1, <2>4, <2>2 DEF InCall, Callee
    <3>2. CASE a # s
      BY <3>2, <2>4, <1>9 DEF InCall, Callee
    <3> QED
      BY <3>1, <3>2
  <2>5. CallsKept
    BY <2>3, <2>4 DEF CallsKept
  <2>6. ComingOn
    <3>1. ASSUME NEW a \in Svc, NEW p \in Session, InCall(a, p)', Coming(a, p) PROVE Coming(a, p)'
      <4>1. CASE a = s /\ p = q
        BY <3>1, <4>1, <2>3
      <4>2. CASE ~ (a = s /\ p = q)
        <5>1. PICK e : e = Callee(a, p) /\ e = Callee(a, p)' /\ InCall(a, p)
          BY <3>1, <4>2, <2>4
        <5>2. e \in Svc
          BY <5>1, <1>1, CalleeService
        <5>3. lua'[a].error_queue = lua[a].error_queue
          BY <1>4, <1>9
        <5> QED
          BY <2>1, <5>1, <5>2, <5>3, <3>1, ComingKept
      <4> QED
        BY <4>1, <4>2
    <3> QED
      BY <3>1 DEF ComingOn, Pending
  <2>7. ExitsKept
    BY <1>9, <1>4 DEF ExitsKept
  <2>8. HeldOn
    BY <1>1, <1>4, <1>8, <1>5, SameHands, HandsOn
  <2> QED
    BY <1>20, <1>1, <1>15, <2>5, <2>6, <2>7, <2>8, CallStep
<1> QED
  BY <1>19, <1>20

(* dispatch_error_queue: the caller that is resumed is out of its call. *)
LEMMA ErrorStep ==
    ASSUME LuaInv, NEW s \in Svc, dispatch_error_queue(s)
    PROVE  LuaInv' /\ (CallInv => CallInv')
<1>1. TypeOK /\ Own(s) /\ lua[s] \in LuaState /\ BoxInv
  BY DEF LuaInv, OwnInv, TypeOK
<1>2. box \in [Svc -> Seq(Message)] /\ lua \in [Svc -> LuaState] /\ BoxOK(box, lua, alive)
  BY <1>1 DEF TypeOK, BoxInv
<1>3. /\ lua'[s] \in LuaState /\ Own(s)' /\ SameServing(lua'[s], lua[s])
      /\ lua[s].error_queue # <<>> /\ lua[s].ph = "err" /\ lua'[s].ph # "exit"
      /\ lua'[s].dead_service = lua[s].dead_service /\ lua'[s].session_id = lua[s].session_id
      /\ lua'[s].error_queue = Tail(lua[s].error_queue)
  BY <1>1, DispatchErrorOwn
<1>4. PICK q \in Session :
            /\ q = lua[s].error_queue[1]
            /\ lua'[s].watching_session = [lua[s].watching_session EXCEPT ![q] = NULL]
  BY <1>1, DispatchErrorOwn
<1>5. alive' = alive /\ killed' = killed /\ astray' = astray /\ timers' = timers /\ box' = box /\ nops' = nops
  BY DEF dispatch_error_queue
<1>6. PICK x : Set(s, x)
  BY DEF dispatch_error_queue
<1>7. Frame(s)
  BY <1>1, <1>6, <1>5, SetFrame
<1>8. lua' = [lua EXCEPT ![s] = lua'[s]] /\ \A t \in Svc : t # s => lua'[t] = lua[t]
  BY <1>2, <1>7 DEF Frame
<1>9. timers' \in [Svc -> SUBSET Session]
  BY <1>1, <1>5 DEF TypeOK
<1>10. Growing
  BY <1>1, <1>5, StillGrowing
<1>11. lua[s].session_id \in Nat /\ lua[s].session_id <= lua'[s].session_id
  BY <1>1, <1>3 DEF LuaState
<1>12. ServesOnly(lua'[s], lua[s], {})
  BY <1>3, <1>11, SameServesOnly
<1>13. BoxOK(box, lua', alive)
  <2>1. FromQueue({}, lua, box[s])
    BY DEF FromQueue
  <2>2. Fewer(alive, alive)
    BY DEF Fewer
  <2>3. OnlyGone(lua'[s].dead_service, lua[s].dead_service, alive)
    BY <1>3 DEF OnlyGone
  <2> QED
    BY <2>1, <2>2, <2>3, <1>2, <1>8, <1>3, <1>12, TablesBox
<1>14. LuaInv'
  BY <1>13, <1>5, <1>10, <1>7, <1>3, <1>2, <1>9, InvStep
<1>15. ASSUME CallInv PROVE CallInv'
  <2>1. Grown(box', box, {})
    BY <1>5, NoneSent
  <2>2. /\ lua'[s].watching_session[q] = NULL
        /\ \A p \in Session : p # q => lua'[s].watching_session[p] = lua[s].watching_session[p]
    <3>1. lua[s].watching_session \in [Session -> Svc \cup {NULL}]
      BY <1>1 DEF LuaState
    <3> QED
      BY <3>1, <1>4
  <2>3. ASSUME NEW a \in Svc, NEW p \in Session, InCall(a, p)'
        PROVE  InCall(a, p) /\ Callee(a, p)' = Callee(a, p) /\ (a = s => p # q)
    <3>1. CASE a = s
      BY <3>1, <2>3, <2>2 DEF InCall, Callee
    <3>2. CASE a # s
      BY <3>2, <2>3, <1>8 DEF InCall, Callee
    <3> QED
      BY <3>1, <3>2
  <2>4. CallsKept
    BY <2>3 DEF CallsKept
  <2>5. ASSUME NEW a \in Svc, NEW p \in Session, a = s => p # q,
               NEW i \in DOMAIN lua[a].error_queue, lua[a].error_queue[i] = p
        PROVE  \E j \in DOMAIN lua'[a].error_queue : lua'[a].error_queue[j] = p
    <3>1. CASE a # s
      BY <3>1, <1>8, <2>5
    <3>2. CASE a = s
      <4>1. PICK e, g : e = lua[s].error_queue /\ g = lua'[s].error_queue
        OBVIOUS
      <4>2. e \in Seq(Session) /\ e # <<>> /\ g = Tail(e)
        BY <4>1, <1>1, <1>3 DEF LuaState
      <4>3. \A n \in DOMAIN e : n = 1 \/ (n - 1 \in DOMAIN g /\ g[n - 1] = e[n])
        BY <4>2, TailDrops
      <4>4. i \in DOMAIN e /\ e[i] = p /\ p # q /\ q = e[1]
        BY <4>1, <2>5, <3>2, <1>4
      <4>5. i - 1 \in DOMAIN g /\ g[i - 1] = p
        BY <4>3, <4>4
      <4> QED
        BY <4>1, <4>5, <3>2
    <3> QED
      BY <3>1, <3>2
  <2>6. ComingOn
    <3>1. ASSUME NEW a \in Svc, NEW p \in Session, InCall(a, p)', Coming(a, p) PROVE Coming(a, p)'
      <4>1. PICK e : e = Callee(a, p) /\ e = Callee(a, p)' /\ InCall(a, p) /\ (a = s => p # q)
        BY <3>1, <2>3
      <4>2. e \in Svc
        BY <4>1, <1>1, CalleeService
      <4>3. \A i \in DOMAIN lua[a].error_queue : lua[a].error_queue[i] = p =>
                \E j \in DOMAIN lua'[a].error_queue : lua'[a].error_queue[j] = p
        BY <4>1, <2>5
      <4> QED
        BY <2>1, <4>1, <4>2, <4>3, <3>1, ComingKept
    <3> QED
      BY <3>1 DEF ComingOn, Pending
  <2>7. ExitsKept
    BY <1>8, <1>3 DEF ExitsKept
  <2>8. HeldOn
    BY <1>1, <1>3, <1>7, <1>5, SameHands, HandsOn
  <2> QED
    BY <1>15, <1>1, <1>10, <2>4, <2>6, <2>7, <2>8, CallStep
<1> QED
  BY <1>14, <1>15

(* skynet.exit retires the handle: by then its callers are told. *)
LEMMA RetireStep ==
    ASSUME LuaInv, NEW s \in Svc, ExitRetire(s)
    PROVE  LuaInv' /\ (CallInv => CallInv')
<1>1. TypeOK /\ Own(s) /\ lua[s] \in LuaState /\ BoxInv
  BY DEF LuaInv, OwnInv, TypeOK
<1>2. box \in [Svc -> Seq(Message)] /\ lua \in [Svc -> LuaState] /\ BoxOK(box, lua, alive)
  BY <1>1 DEF TypeOK, BoxInv
<1>3. lua'[s] \in LuaState /\ Own(s)' /\ SameTables(lua'[s], lua[s]) /\ lua[s].ph = "exit"
  BY <1>1, ExitRetireOwn
<1>4. killed' = killed /\ astray' = astray /\ timers' = timers /\ nops' = nops /\ alive' = [alive EXCEPT ![s] = FALSE]
  BY DEF ExitRetire
<1>5. PICK x : Set(s, x)
  BY DEF ExitRetire
<1>6. Frame(s)
  BY <1>1, <1>5, <1>4, SetFrame
<1>7. lua' = [lua EXCEPT ![s] = lua'[s]] /\ \A t \in Svc : t # s => lua'[t] = lua[t]
  BY <1>2, <1>6 DEF Frame
<1>8. timers' \in [Svc -> SUBSET Session]
  BY <1>1, <1>4 DEF TypeOK
<1>9. PICK m : m = Msg("err", s, 0)
  OBVIOUS
<1>10. m \in Message /\ m.type = "err" /\ m.src = s /\ m.session = 0
  BY <1>9 DEF Msg, Message
<1>11. PICK D : box' = [a \in Svc |-> IF a \in D /\ alive[a] THEN Append(box[a], m) ELSE box[a]]
  BY <1>9 DEF ExitRetire
<1>12. box' \in [Svc -> Seq(Message)] /\ Grown(box', box, {m})
  <2>1. ASSUME NEW a \in Svc PROVE box'[a] \in Seq(Message) /\ Extends(box'[a], box[a], {m})
    <3>1. box[a] \in Seq(Message) /\ (box'[a] = Append(box[a], m) \/ box'[a] = box[a])
      BY <1>2, <1>11
    <3>2. CASE box'[a] = Append(box[a], m)
      BY <3>1, <3>2, <1>10, AppendExtends
    <3>3. CASE box'[a] = box[a]
      BY <3>1, <3>3 DEF Extends
    <3> QED
      BY <3>1, <3>2, <3>3
  <2>2. box' \in [Svc -> Seq(Message)]
    BY <2>1, <1>11
  <2> QED
    BY <2>1, <2>2 DEF Grown
<1>13. alive' \in [Svc -> BOOLEAN] /\ Fewer(alive', alive) /\ ~ alive'[s] /\ \A e \in Svc : e # s => alive'[e] = alive[e]
  BY <1>4, <1>1 DEF TypeOK, Fewer
<1>14. Growing
  BY <1>4, <1>13, <1>1 DEF Growing, TypeOK
<1>15. lua[s].session_id \in Nat /\ lua[s].session_id <= lua'[s].session_id /\ SameServing(lua'[s], lua[s])
  BY <1>1, <1>3 DEF LuaState, SameTables, SameServing
<1>16. ServesOnly(lua'[s], lua[s], {})
  BY <1>3, <1>15, SameServesOnly
<1>17. BoxOK(box, lua', alive')
  <2>1. FromQueue({}, lua, box[s])
    BY DEF FromQueue
  <2>2. OnlyGone(lua'[s].dead_service, lua[s].dead_service, alive')
    BY <1>3 DEF OnlyGone, SameTables
  <2> QED
    BY <2>1, <1>13, <2>2, <1>2, <1>7, <1>3, <1>16, TablesBox
<1>18. BoxOK(box', lua', alive')
  <2>1. AllHarmless({m}, alive')
    BY <1>10, <1>13 DEF AllHarmless, Harmless, Asks
  <2> QED
    BY <2>1, <1>17, <1>12, ExtendBox
<1>19. LuaInv'
  BY <1>18, <1>14, <1>6, <1>3, <1>12, <1>8, InvStep
<1>20. ASSUME CallInv PROVE CallInv'
  <2>1. \A a \in Svc : /\ lua'[a].watching_session = lua[a].watching_session
                       /\ lua'[a].error_queue = lua[a].error_queue
    BY <1>7, <1>3 DEF SameTables
  <2>2. CallsKept /\ ComingOn
    BY <2>1, <1>12, <1>1, SteadyCalls
  <2>3. ExitsKept
    BY <1>7, <1>13 DEF ExitsKept
  <2>4. HeldOn
    <3>1. ASSUME NEW e \in Svc, NEW r \in Request, Held(e, r) PROVE Held(e, r)'
      <4>1. e # s
        BY <3>1, <1>3 DEF Held, Holds
      <4> QED
        BY <3>1, <4>1, <1>7, <1>13 DEF Held
    <3> QED
      BY <3>1 DEF HeldOn
  <2> QED
    BY <1>20, <1>1, <1>14, <2>2, <2>3, <2>4, CallStep
<1> QED
  BY <1>19, <1>20

(* What comes for a call still comes when s takes message m, unless m is it. *)
LEMMA ComingRest ==
    ASSUME NEW s \in Svc, NEW m, NEW b, AllBut(b[s], box[s], m), \A e \in Svc : e # s => b[e] = box[e],
           NEW M, Grown(box', b, M), NEW a \in Svc, NEW q \in Session, NEW d \in Svc,
           d = Callee(a, q), d = Callee(a, q)',
           \A i \in DOMAIN lua[a].error_queue : lua[a].error_queue[i] = q =>
               \E j \in DOMAIN lua'[a].error_queue : lua'[a].error_queue[j] = q,
           Coming(a, q)
    PROVE  Coming(a, q)' \/ (d = s /\ Asking(m, a, q)) \/ (a = s /\ Telling(m, q, d))
<1>1. \A e \in Svc : \A i \in DOMAIN box[e] : (e = s /\ box[e][i] = m) \/ Queued(box[e][i], box'[e])
  <2>1. \A e \in Svc : \A i \in DOMAIN b[e] : Queued(b[e][i], box'[e])
    BY DEF Grown, Extends, Queued
  <2>2. ASSUME NEW e \in Svc, NEW i \in DOMAIN box[e] PROVE (e = s /\ box[e][i] = m) \/ Queued(box[e][i], b[e])
    BY DEF AllBut, Queued
  <2> QED
    BY <2>1, <2>2 DEF Queued
<1>2. CASE \E i \in DOMAIN box[d] : Asking(box[d][i], a, q)
  <2>1. PICK i \in DOMAIN box[d] : Asking(box[d][i], a, q)
    BY <1>2
  <2>2. (d = s /\ box[d][i] = m) \/ Queued(box[d][i], box'[d])
    BY <1>1
  <2> QED
    BY <2>1, <2>2 DEF Coming, Queued
<1>3. CASE \E i \in DOMAIN box[a] : Telling(box[a][i], q, d)
  <2>1. PICK i \in DOMAIN box[a] : Telling(box[a][i], q, d)
    BY <1>3
  <2>2. (a = s /\ box[a][i] = m) \/ Queued(box[a][i], box'[a])
    BY <1>1
  <2> QED
    BY <2>1, <2>2 DEF Coming, Queued
<1>4. CASE \E i \in DOMAIN lua[a].error_queue : lua[a].error_queue[i] = q
  BY <1>4 DEF Coming
<1> QED
  BY <1>2, <1>3, <1>4 DEF Coming


(* Message m of s is taken off its queue, which leaves the queues b. *)
Rest(b, s, m) ==
    /\ b \in [Svc -> Seq(Message)] /\ BoxOK(b, lua, alive)
    /\ AllBut(b[s], box[s], m) /\ \A d \in Svc : d # s => b[d] = box[d]

(* What is known of the message and of the rest. *)
LEMMA Taking ==
    ASSUME LuaInv, NEW s \in Svc, box[s] # <<>>, NEW m, m = Head(box[s]),
           NEW b, Dropped(b, box, s)
    PROVE  /\ Rest(b, s, m) /\ MsgOK(m, s, lua, alive) /\ (Asks(m) => Unqueued(ReqOf(m), b[s]))
           /\ m \in Message /\ m.src \in Svc /\ m.session \in {0} \cup Session
           /\ m.type \in {"req", "odd", "resp", "err"}
<1>1. box \in [Svc -> Seq(Message)] /\ BoxOK(box, lua, alive)
  BY DEF LuaInv, TypeOK, BoxInv
<1>2. /\ b \in [Svc -> Seq(Message)] /\ BoxOK(b, lua, alive)
      /\ m \in Message /\ MsgOK(m, s, lua, alive) /\ (Asks(m) => Unqueued(ReqOf(m), b[s]))
      /\ AllBut(b[s], box[s], m) /\ \A d \in Svc : d # s => b[d] = box[d]
  BY <1>1, DropBox
<1>3. m.src \in Svc /\ m.session \in {0} \cup Session /\ m.type \in {"req", "odd", "resp", "err"}
  <2>1. m \in Message
    BY <1>2
  <2> QED
    BY <2>1 DEF Message
<1> QED
  BY <1>2, <1>3 DEF Rest

(* The invariant, when s takes a message and may send others. *)
LEMMA TakenInv ==
    ASSUME LuaInv, NEW s \in Svc, Frame(s), Growing, lua'[s] \in LuaState, Own(s)', alive' = alive, timers' = timers,
           NEW m, NEW b, Rest(b, s, m), NEW X, ServesOnly(lua'[s], lua[s], X), FromQueue(X, lua, b[s]),
           OnlyGone(lua'[s].dead_service, lua[s].dead_service, alive),
           box' \in [Svc -> Seq(Message)], NEW M, Grown(box', b, M), AllHarmless(M, alive)
    PROVE  LuaInv'
<1>1. TypeOK /\ Own(s) /\ lua[s] \in LuaState /\ BoxInv
  BY DEF LuaInv, OwnInv, TypeOK
<1>2. box \in [Svc -> Seq(Message)] /\ lua \in [Svc -> LuaState] /\ BoxOK(box, lua, alive)
  BY <1>1 DEF TypeOK, BoxInv
<1>3. b \in [Svc -> Seq(Message)] /\ BoxOK(b, lua, alive)
  BY DEF Rest
<1>4. lua' = [lua EXCEPT ![s] = lua'[s]]
  BY DEF Frame
<1>5. Fewer(alive, alive)
  BY DEF Fewer
<1>6. BoxOK(b, lua', alive)
  BY <1>2, <1>3, <1>4, <1>5, TablesBox
<1>7. BoxOK(box', lua', alive')
  BY <1>6, ExtendBox
<1>8. timers' \in [Svc -> SUBSET Session]
  BY <1>1 DEF TypeOK
<1> QED
  BY <1>7, <1>8, InvStep

(* Calls, when s takes a message: those that go on are owed what they were, except m. *)
LEMMA TakenCalls ==
    ASSUME TypeOK, CallInv, NEW s \in Svc, Frame(s), Growing, HandsOver(s), alive' = alive, lua[s].ph # "exit",
           NEW m, NEW b, Rest(b, s, m), NEW M, Grown(box', b, M),
           \A q \in Session : lua'[s].watching_session[q] \in {NULL, lua[s].watching_session[q]},
           \A i \in DOMAIN lua[s].error_queue :
               i \in DOMAIN lua'[s].error_queue /\ lua'[s].error_queue[i] = lua[s].error_queue[i],
           \A a \in Svc, q \in Session :
               InCall(a, q)' /\ ~ Excused(a, q)' /\ Callee(a, q)' = s /\ Asking(m, a, q) => Pending(a, q)',
           \A q \in Session : InCall(s, q)' /\ ~ Excused(s, q)' /\ Callee(s, q)' \notin ByName
                /\ Telling(m, q, Callee(s, q)') => Pending(s, q)'
    PROVE  CallInv'
<1>1. lua \in [Svc -> LuaState]
  BY DEF TypeOK
<1>2. \A t \in Svc : t # s => lua'[t] = lua[t]
  BY <1>1 DEF Frame
<1>3. ASSUME NEW a \in Svc, NEW p \in Session, InCall(a, p)'
      PROVE  InCall(a, p) /\ Callee(a, p)' = Callee(a, p)
  <2>1. CASE a = s
    BY <2>1, <1>3 DEF InCall, Callee
  <2>2. CASE a # s
    BY <2>2, <1>3, <1>2 DEF InCall, Callee
  <2> QED
    BY <2>1, <2>2
<1>4. CallsKept
  BY <1>3 DEF CallsKept
<1>5. ComingOn
  <2>1. SUFFICES ASSUME NEW a \in Svc, NEW p \in Session, InCall(a, p)', ~ Excused(a, p)',
                        Callee(a, p)' \notin ByName, Coming(a, p) PROVE Pending(a, p)'
    BY DEF ComingOn
  <2>2. PICK e : e = Callee(a, p) /\ e = Callee(a, p)' /\ InCall(a, p)
    BY <2>1, <1>3
  <2>3. e \in Svc
    BY <2>2, CalleeService
  <2>4. \A i \in DOMAIN lua[a].error_queue : lua[a].error_queue[i] = p =>
            \E j \in DOMAIN lua'[a].error_queue : lua'[a].error_queue[j] = p
    BY <1>2
  <2>5. AllBut(b[s], box[s], m) /\ \A d \in Svc : d # s => b[d] = box[d]
    BY DEF Rest
  <2>6. Coming(a, p)' \/ (e = s /\ Asking(m, a, p)) \/ (a = s /\ Telling(m, p, e))
    BY <2>1, <2>2, <2>3, <2>4, <2>5, ComingRest
  <2>7. CASE Coming(a, p)'
    BY <2>7 DEF Pending
  <2>8. CASE e = s /\ Asking(m, a, p)
    BY <2>8, <2>1, <2>2
  <2>9. CASE a = s /\ Telling(m, p, e)
    BY <2>9, <2>1, <2>2
  <2> QED
    BY <2>6, <2>7, <2>8, <2>9
<1>6. ExitsKept
  BY <1>2 DEF ExitsKept
<1>7. HeldOn
  BY HandsOn
<1> QED
  BY <1>4, <1>5, <1>6, <1>7, CallStep

(* drop_message: the source of a dropped request is told. *)
LEMMA DropStep ==
    ASSUME LuaInv, NEW s \in Svc, Drop(s)
    PROVE  LuaInv' /\ (CallInv => CallInv')
<1>1. TypeOK /\ Own(s) /\ lua[s] \in LuaState /\ BoxInv
  BY DEF LuaInv, OwnInv, TypeOK
<1>2. box \in [Svc -> Seq(Message)] /\ lua \in [Svc -> LuaState] /\ BoxOK(box, lua, alive)
  BY <1>1 DEF TypeOK, BoxInv
<1>3. /\ alive' = alive /\ timers' = timers /\ lua' = lua /\ nops' = nops /\ killed' = killed /\ astray' = astray
      /\ ~ alive[s] /\ lua[s].ph = "idle" /\ box[s] # <<>>
  BY DEF Drop
<1>4. PICK m, b, e : m = Head(box[s]) /\ Dropped(b, box, s) /\ e = Msg("err", s, 0)
  BY DEF Dropped
<1>5. box' = Post(b, m.src, e)
  BY <1>4 DEF Drop, Dropped
<1>6. Rest(b, s, m) /\ m.src \in Svc /\ b \in [Svc -> Seq(Message)]
  BY <1>4, <1>3, Taking DEF Rest
<1>7. e \in Message /\ e.type = "err" /\ e.src = s /\ e.session = 0
  BY <1>4 DEF Msg, Message
<1>8. /\ box' \in [Svc -> Seq(Message)] /\ (\A d \in Svc : Extends(box'[d], b[d], {e}))
      /\ alive[m.src] => Queued(e, box'[m.src])
  BY <1>1, <1>5, <1>6, <1>7, PostExtends
<1>9. Grown(box', b, {e}) /\ AllHarmless({e}, alive)
  BY <1>8, <1>7, <1>3 DEF Grown, AllHarmless, Harmless, Asks
<1>10. Frame(s)
  BY <1>1, <1>3, SameFrame
<1>11. Growing
  BY <1>1, <1>3, StillGrowing
<1>12. lua[s].session_id \in Nat /\ lua[s].session_id <= lua'[s].session_id /\ SameServing(lua'[s], lua[s]) /\ lua'[s] \in LuaState
  BY <1>1, <1>3 DEF LuaState, SameServing
<1>13. ServesOnly(lua'[s], lua[s], {}) /\ FromQueue({}, lua, b[s])
  BY <1>12, SameServesOnly DEF FromQueue
<1>14. OnlyGone(lua'[s].dead_service, lua[s].dead_service, alive)
  BY <1>3 DEF OnlyGone
<1>15. Own(s)'
  BY <1>1, <1>3 DEF Own
<1>16. LuaInv'
  BY <1>10, <1>11, <1>12, <1>15, <1>3, <1>6, <1>13, <1>14, <1>8, <1>9, TakenInv
<1>17. ASSUME CallInv PROVE CallInv'
  <2>1. \A q \in Session : lua'[s].watching_session[q] \in {NULL, lua[s].watching_session[q]}
    BY <1>3
  <2>2. \A i \in DOMAIN lua[s].error_queue :
            i \in DOMAIN lua'[s].error_queue /\ lua'[s].error_queue[i] = lua[s].error_queue[i]
    BY <1>3
  <2>3. HandsOver(s)
    BY <1>3 DEF HandsOver
  <2>4. ASSUME NEW a \in Svc, NEW q \in Session, ~ Excused(a, q)', Callee(a, q)' = s, Asking(m, a, q) PROVE Pending(a, q)'
    <3>1. alive[a] /\ m.src = a
      BY <2>4, <1>3 DEF Excused, Asking
    <3>2. Queued(e, box'[a])
      BY <3>1, <1>8
    <3>3. Telling(e, q, s)
      BY <1>7 DEF Telling
    <3> QED
      BY <3>2, <3>3, <2>4 DEF Queued, Pending, Coming
  <2>5. \A q \in Session : Excused(s, q)'
    BY <1>3 DEF Excused
  <2> QED
    BY <1>17, <1>1, <1>10, <1>11, <2>3, <1>3, <1>6, <1>9, <2>1, <2>2, <2>4, <2>5, TakenCalls
<1> QED
  BY <1>16, <1>17

(* A request starts a coroutine, which has it unless its service had exited. *)
LEMMA StartStep ==
    ASSUME LuaInv, NEW s \in Svc, lua[s].ph = "idle", box[s] # <<>>, NEW k \in 0 .. MaxRound - 1,
           NEW v, v = [lua[s] EXCEPT !.left = k], NEW m, m = Head(box[s]), m.type = "req",
           alive' = alive, timers' = timers, nops' = nops, killed' = killed, TakeRequest(s, v, m),
           NEW c, Starting(s, v, c, m)
    PROVE  LuaInv' /\ (CallInv => CallInv')
<1>1. TypeOK /\ Own(s) /\ lua[s] \in LuaState /\ BoxInv
  BY DEF LuaInv, OwnInv, TypeOK
<1>2. PICK b : Dropped(b, box, s)
  BY DEF Dropped
<1>3. /\ Rest(b, s, m) /\ MsgOK(m, s, lua, alive) /\ (Asks(m) => Unqueued(ReqOf(m), b[s]))
      /\ m \in Message /\ m.src \in Svc /\ m.session \in {0} \cup Session
  BY <1>2, Taking
<1>4. PICK x : Set(s, x)
  BY DEF Starting
<1>5. Frame(s)
  BY <1>1, <1>4, SetFrame
<1>6. PICK p : p = ReqOf(m)
  OBVIOUS
<1>7. p = [src |-> m.src, session |-> m.session] /\ p \in Request /\ p.src = m.src /\ p.session = m.session /\ p # NULL
  <2>1. p = [src |-> m.src, session |-> m.session]
    BY <1>6 DEF ReqOf
  <2>2. p \in Request
    BY <2>1, <1>3 DEF Request
  <2> QED
    BY <2>1, <2>2, LuaAssumption
<1>8. /\ astray' \in {astray, [astray EXCEPT ![s] = @ \cup {p}]}
      /\ ~ alive[s] => astray' = [astray EXCEPT ![s] = @ \cup {p}]
  BY <1>7 DEF TakeRequest
<1>9. astray' \in [Svc -> SUBSET Request] /\ (\A d \in Svc : astray[d] \subseteq astray'[d]) /\ (~ alive[s] => p \in astray'[s])
  <2>1. astray \in [Svc -> SUBSET Request]
    BY <1>1 DEF TypeOK
  <2> QED
    BY <2>1, <1>8, <1>7
<1>10. Growing
  BY <1>1, <1>9 DEF Growing, TypeOK, Fewer
<1>11. Unserved(lua[s], ReqOf(m)) /\ m.session <= lua[m.src].session_id
  <2>1. CASE m.session = 0
    <3>1. lua[m.src] \in LuaState
      BY <1>1, <1>3 DEF TypeOK
    <3>2. lua[m.src].session_id \in Nat
      BY <3>1 DEF LuaState
    <3>3. Unserved(lua[s], ReqOf(m))
      BY <2>1 DEF Unserved, ReqOf
    <3> QED
      BY <3>2, <3>3, <2>1
  <2>2. CASE m.session # 0
    BY <2>2, <1>3 DEF MsgOK, Asks
  <2> QED
    BY <2>1, <2>2
<1>12. /\ lua'[s] \in LuaState /\ Own(s)' /\ Steady(lua'[s], lua[s])
       /\ lua'[s].unresponse = lua[s].unresponse
       /\ lua'[s].session_response = lua[s].session_response
       /\ Given(lua'[s], lua[s], c, ReqOf(m))
  BY <1>1, <1>3, <1>11, TakeRequestOwn
<1>13. /\ c \in Co /\ lua[s].session_coroutine[c] = NULL
       /\ lua'[s].session_coroutine = [lua[s].session_coroutine EXCEPT ![c] = p]
  BY <1>12, <1>6 DEF Given
<1>14. /\ lua'[s].session_coroutine[c] = p
       /\ \A d \in Co : d # c => lua'[s].session_coroutine[d] = lua[s].session_coroutine[d]
  <2>1. lua[s].session_coroutine \in [Co -> Request \cup {NULL}]
    BY <1>1 DEF LuaState
  <2> QED
    BY <2>1, <1>13
<1>15. /\ lua'[s].dead_service = lua[s].dead_service /\ lua'[s].watching_session = lua[s].watching_session
       /\ lua'[s].error_queue = lua[s].error_queue /\ lua[s].session_id <= lua'[s].session_id
       /\ lua'[s].ph # "exit" /\ lua'[s].unresponse = lua[s].unresponse
       /\ lua'[s].session_response = lua[s].session_response
  BY <1>12 DEF Steady
<1>16. ServesOnly(lua'[s], lua[s], {p})
  BY <1>14, <1>15 DEF ServesOnly
<1>17. FromQueue({p}, lua, b[s])
  <2>1. Unqueued(p, b[s])
    BY <1>3, <1>6 DEF Asks
  <2> QED
    BY <2>1, <1>11, <1>7 DEF FromQueue
<1>18. OnlyGone(lua'[s].dead_service, lua[s].dead_service, alive)
  BY <1>15 DEF OnlyGone
<1>19. box' = b
  BY <1>2 DEF TakeRequest, Dropped
<1>20. box' \in [Svc -> Seq(Message)] /\ Grown(box', b, {}) /\ AllHarmless({}, alive)
  <2>1. b \in [Svc -> Seq(Message)]
    BY <1>3 DEF Rest
  <2> QED
    BY <2>1, <1>19, NoneSent
<1>21. LuaInv'
  BY <1>5, <1>10, <1>12, <1>3, <1>16, <1>17, <1>18, <1>20, TakenInv
<1>22. ASSUME CallInv PROVE CallInv'
  <2>1. \A q \in Session : lua'[s].watching_session[q] \in {NULL, lua[s].watching_session[q]}
    BY <1>15
  <2>2. \A i \in DOMAIN lua[s].error_queue :
            i \in DOMAIN lua'[s].error_queue /\ lua'[s].error_queue[i] = lua[s].error_queue[i]
    BY <1>15
  <2>3. \A q \in Session : \A d : ~ Telling(m, q, d)
    BY DEF Telling
  <2>4. lua[s].ph # "exit"
    OBVIOUS
  <2>5. HandsOver(s)
    <3>1. NULL \notin Request /\ ~ Owes(lua[s], c)
      BY <1>13, LuaAssumption DEF Owes
    <3>2. lua'[s] \in LuaState
      BY <1>12
    <3> QED
      BY <3>1, <3>2, <1>14, <1>15, <1>1, HandsBut
  <2>6. ASSUME NEW a \in Svc, NEW n \in Session, ~ Excused(a, n)', Callee(a, n)' = s, Asking(m, a, n) PROVE Pending(a, n)'
    <3>1. p = [src |-> a, session |-> n] /\ n # 0 /\ p.session = n
      BY <2>6, <1>7 DEF Asking, Session
    <3>2. alive'[s]
      BY <2>6, <3>1, <1>9 DEF Excused
    <3>3. c \notin lua[s].session_response
      BY <1>1, <1>13 DEF Own, Serves, Serving
    <3>4. Owes(lua'[s], c)
      BY <3>1, <3>3, <1>14, <1>15, <1>7 DEF Owes
    <3>5. Held(s, p)'
      BY <3>4, <3>2, <1>13, <1>14, <1>15 DEF Held, Holds
    <3> QED
      BY <3>5, <3>1, <2>6 DEF Pending
  <2> QED
    BY <1>22, <1>1, <1>5, <1>10, <2>5, <1>3, <1>20, <2>1, <2>2, <2>6, <2>3, <2>4, TakenCalls
<1> QED
  BY <1>21, <1>22

(* A request comes astray where there is no dispatch function. *)
LEMMA RefuseStep ==
    ASSUME LuaInv, NEW s \in Svc, lua[s].ph = "idle", box[s] # <<>>, NEW k \in 0 .. MaxRound - 1,
           NEW v, v = [lua[s] EXCEPT !.left = k], NEW m, m = Head(box[s]), m.type = "req",
           alive' = alive, timers' = timers, nops' = nops, killed' = killed, TakeRequest(s, v, m),
           ~ v.dispatch
    PROVE  LuaInv' /\ (CallInv => CallInv')
<1>1. TypeOK /\ Own(s) /\ lua[s] \in LuaState /\ BoxInv
  BY DEF LuaInv, OwnInv, TypeOK
<1>2. PICK b : Dropped(b, box, s)
  BY DEF Dropped
<1>3. /\ Rest(b, s, m) /\ m \in Message /\ m.src \in Svc /\ m.session \in {0} \cup Session
  BY <1>2, Taking
<1>4. PICK x : Set(s, x)
  BY DEF TakeRequest
<1>5. Frame(s)
  BY <1>1, <1>4, SetFrame
<1>6. PICK p : p = [src |-> m.src, session |-> m.session]
  OBVIOUS
<1>7. astray' = [astray EXCEPT ![s] = @ \cup {p}] /\ p \in Request
  BY <1>3, <1>6 DEF TakeRequest, Request
<1>8. astray' \in [Svc -> SUBSET Request] /\ (\A d \in Svc : astray[d] \subseteq astray'[d]) /\ p \in astray'[s]
  <2>1. astray \in [Svc -> SUBSET Request]
    BY <1>1 DEF TypeOK
  <2> QED
    BY <2>1, <1>7
<1>9. Growing
  BY <1>1, <1>8 DEF Growing, TypeOK, Fewer
<1>10. lua'[s] \in LuaState /\ Own(s)' /\ Quiet(lua'[s], lua[s])
  BY <1>1, <1>3, TakeRefusedOwn
<1>11. /\ lua'[s].dead_service = lua[s].dead_service /\ lua'[s].watching_session = lua[s].watching_session
       /\ lua'[s].error_queue = lua[s].error_queue /\ lua[s].session_id <= lua'[s].session_id
       /\ lua'[s].ph # "exit" /\ SameServing(lua'[s], lua[s])
  BY <1>10 DEF Quiet, Steady
<1>12. ServesOnly(lua'[s], lua[s], {}) /\ FromQueue({}, lua, b[s])
  BY <1>10, <1>11, SameServesOnly DEF FromQueue
<1>13. OnlyGone(lua'[s].dead_service, lua[s].dead_service, alive)
  BY <1>11 DEF OnlyGone
<1>14. box' = b
  BY <1>2 DEF TakeRequest, Dropped
<1>15. box' \in [Svc -> Seq(Message)] /\ Grown(box', b, {}) /\ AllHarmless({}, alive)
  <2>1. b \in [Svc -> Seq(Message)]
    BY <1>3 DEF Rest
  <2> QED
    BY <2>1, <1>14, NoneSent
<1>16. LuaInv'
  BY <1>5, <1>9, <1>10, <1>3, <1>12, <1>13, <1>15, TakenInv
<1>17. ASSUME CallInv PROVE CallInv'
  <2>1. \A q \in Session : lua'[s].watching_session[q] \in {NULL, lua[s].watching_session[q]}
    BY <1>11
  <2>2. \A i \in DOMAIN lua[s].error_queue :
            i \in DOMAIN lua'[s].error_queue /\ lua'[s].error_queue[i] = lua[s].error_queue[i]
    BY <1>11
  <2>3. \A q \in Session : \A d : ~ Telling(m, q, d)
    BY DEF Telling
  <2>4. lua[s].ph # "exit"
    OBVIOUS
  <2>5. HandsOver(s)
    BY <1>11, SameHands
  <2>6. ASSUME NEW a \in Svc, NEW n \in Session, Callee(a, n)' = s, Asking(m, a, n) PROVE Excused(a, n)'
    <3>1. p = [src |-> a, session |-> n]
      BY <2>6, <1>6 DEF Asking
    <3> QED
      BY <3>1, <2>6, <1>8 DEF Excused
  <2> QED
    BY <1>17, <1>1, <1>5, <1>9, <2>5, <1>3, <1>15, <2>1, <2>2, <2>6, <2>3, <2>4, TakenCalls
<1> QED
  BY <1>16, <1>17

(* A request is taken. *)
LEMMA TakeRequestStep ==
    ASSUME LuaInv, NEW s \in Svc, lua[s].ph = "idle", box[s] # <<>>, NEW k \in 0 .. MaxRound - 1,
           NEW v, v = [lua[s] EXCEPT !.left = k], NEW m, m = Head(box[s]), m.type = "req",
           alive' = alive, timers' = timers, nops' = nops, killed' = killed, TakeRequest(s, v, m)
    PROVE  LuaInv' /\ (CallInv => CallInv')
<1>1. CASE ~ v.dispatch
  BY <1>1, RefuseStep
<1>2. CASE v.dispatch
  <2>1. PICK c : Starting(s, v, c, m)
    BY <1>2 DEF TakeRequest, Starting
  <2> QED
    BY <2>1, StartStep
<1> QED
  BY <1>1, <1>2

(* A message of an unknown protocol: its source is told. *)
LEMMA TakeUnknownStep ==
    ASSUME LuaInv, NEW s \in Svc, lua[s].ph = "idle", box[s] # <<>>, NEW k \in 0 .. MaxRound - 1,
           NEW v, v = [lua[s] EXCEPT !.left = k], NEW m, m = Head(box[s]), m.type = "odd",
           alive' = alive, timers' = timers, nops' = nops, killed' = killed, TakeUnknown(s, v, m)
    PROVE  LuaInv' /\ (CallInv => CallInv')
<1>1. TypeOK /\ Own(s) /\ lua[s] \in LuaState /\ BoxInv
  BY DEF LuaInv, OwnInv, TypeOK
<1>2. PICK b : Dropped(b, box, s)
  BY DEF Dropped
<1>3. /\ Rest(b, s, m) /\ MsgOK(m, s, lua, alive) /\ (Asks(m) => Unqueued(ReqOf(m), b[s]))
      /\ m \in Message /\ m.src \in Svc /\ m.session \in {0} \cup Session
  BY <1>2, Taking
<1>4. PICK x : Set(s, x)
  BY DEF TakeUnknown
<1>5. Frame(s)
  BY <1>1, <1>4, SetFrame
<1>6. astray' = astray
  BY DEF TakeUnknown
<1>7. Growing
  BY <1>1, <1>6, StillGrowing
<1>8. lua'[s] \in LuaState /\ Own(s)' /\ Quiet(lua'[s], lua[s])
  BY <1>1, <1>3, TakeUnknownOwn
<1>9. /\ lua'[s].dead_service = lua[s].dead_service /\ lua'[s].watching_session = lua[s].watching_session
      /\ lua'[s].error_queue = lua[s].error_queue /\ lua[s].session_id <= lua'[s].session_id
      /\ lua'[s].ph # "exit" /\ SameServing(lua'[s], lua[s])
  BY <1>8 DEF Quiet, Steady
<1>10. ServesOnly(lua'[s], lua[s], {}) /\ FromQueue({}, lua, b[s])
  BY <1>8, <1>9, SameServesOnly DEF FromQueue
<1>11. OnlyGone(lua'[s].dead_service, lua[s].dead_service, alive)
  BY <1>9 DEF OnlyGone
<1>12. PICK e : e = Msg("err", s, m.session)
  OBVIOUS
<1>13. e \in Message /\ e.type = "err" /\ e.src = s /\ e.session = m.session
  BY <1>12, <1>3 DEF Msg, Message
<1>14. box' = IF m.session = 0 THEN b ELSE Post(b, m.src, e)
  BY <1>2, <1>12 DEF TakeUnknown, Dropped
<1>15. b \in [Svc -> Seq(Message)]
  BY <1>3 DEF Rest
<1>16. /\ box' \in [Svc -> Seq(Message)] /\ Grown(box', b, {e} \cap {z \in Message : m.session # 0})
       /\ m.session # 0 /\ alive[m.src] => Queued(e, box'[m.src])
  <2>1. CASE m.session = 0
    BY <2>1, <1>14, <1>15 DEF Grown, Extends
  <2>2. CASE m.session # 0
    <3>1. box' = Post(b, m.src, e) /\ {e} \cap {z \in Message : m.session # 0} = {e}
      BY <2>2, <1>14, <1>13
    <3>2. /\ box' \in [Svc -> Seq(Message)] /\ (\A d \in Svc : Extends(box'[d], b[d], {e}))
          /\ alive[m.src] => Queued(e, box'[m.src])
      BY <3>1, <1>15, <1>1, <1>3, <1>13, PostExtends
    <3> QED
      BY <3>1, <3>2 DEF Grown
  <2> QED
    BY <2>1, <2>2
<1>17. AllHarmless({e} \cap {z \in Message : m.session # 0}, alive)
  BY <1>13 DEF AllHarmless, Harmless, Asks
<1>18. LuaInv'
  BY <1>5, <1>7, <1>8, <1>3, <1>10, <1>11, <1>16, <1>17, TakenInv
<1>19. ASSUME CallInv PROVE CallInv'
  <2>1. \A q \in Session : lua'[s].watching_session[q] \in {NULL, lua[s].watching_session[q]}
    BY <1>9
  <2>2. \A i \in DOMAIN lua[s].error_queue :
            i \in DOMAIN lua'[s].error_queue /\ lua'[s].error_queue[i] = lua[s].error_queue[i]
    BY <1>9
  <2>3. \A q \in Session : \A d : ~ Telling(m, q, d)
    BY DEF Telling
  <2>4. lua[s].ph # "exit"
    OBVIOUS
  <2>5. HandsOver(s)
    BY <1>9, SameHands
  <2>6. ASSUME NEW a \in Svc, NEW n \in Session, ~ Excused(a, n)', Callee(a, n)' = s, Asking(m, a, n) PROVE Pending(a, n)'
    <3>1. alive[a] /\ m.src = a /\ m.session = n /\ n # 0
      BY <2>6 DEF Excused, Asking, Session
    <3>2. Queued(e, box'[a])
      BY <3>1, <1>16
    <3>3. Telling(e, n, s)
      BY <1>13, <3>1 DEF Telling
    <3> QED
      BY <3>2, <3>3, <2>6 DEF Queued, Pending, Coming
  <2> QED
    BY <1>19, <1>1, <1>5, <1>7, <2>5, <1>3, <1>16, <2>1, <2>2, <2>6, <2>3, <2>4, TakenCalls
<1> QED
  BY <1>18, <1>19

(* An answer is taken: its caller is out of the call. *)
LEMMA TakeResponseStep ==
    ASSUME LuaInv, NEW s \in Svc, lua[s].ph = "idle", box[s] # <<>>, NEW k \in 0 .. MaxRound - 1,
           NEW v, v = [lua[s] EXCEPT !.left = k], NEW m, m = Head(box[s]), m.type = "resp",
           alive' = alive, timers' = timers, nops' = nops, killed' = killed, TakeResponse(s, v, m)
    PROVE  LuaInv' /\ (CallInv => CallInv')
<1>1. TypeOK /\ Own(s) /\ lua[s] \in LuaState /\ BoxInv
  BY DEF LuaInv, OwnInv, TypeOK
<1>2. PICK b : Dropped(b, box, s)
  BY DEF Dropped
<1>3. /\ Rest(b, s, m) /\ MsgOK(m, s, lua, alive) /\ (Asks(m) => Unqueued(ReqOf(m), b[s]))
      /\ m \in Message /\ m.src \in Svc /\ m.session \in {0} \cup Session
  BY <1>2, Taking
<1>4. PICK x : Set(s, x)
  BY DEF TakeResponse
<1>5. Frame(s)
  BY <1>1, <1>4, SetFrame
<1>6. astray' = astray
  BY DEF TakeResponse
<1>7. Growing
  BY <1>1, <1>6, StillGrowing
<1>8. m \in Message
  BY <1>3
<1>9. m.session # 0 /\ m.session \in Session
  BY <1>3 DEF MsgOK
<1>10. /\ lua'[s] \in LuaState /\ Own(s)'
       /\ SameServing(lua'[s], lua[s]) /\ lua'[s].dead_service = lua[s].dead_service
       /\ lua'[s].session_id = lua[s].session_id /\ lua'[s].error_queue = lua[s].error_queue
       /\ lua'[s].ph # "exit"
  BY <1>1, <1>8, <1>9, TakeResponseOwn
<1>11. Returned(lua'[s], lua[s], m.session)
  BY <1>1, <1>8, <1>9, TakeResponseOwn
<1>12. lua[s].session_id \in Nat /\ lua[s].session_id <= lua'[s].session_id
  BY <1>1, <1>10 DEF LuaState
<1>13. ServesOnly(lua'[s], lua[s], {}) /\ FromQueue({}, lua, b[s])
  BY <1>10, <1>12, SameServesOnly DEF FromQueue
<1>14. OnlyGone(lua'[s].dead_service, lua[s].dead_service, alive)
  BY <1>10 DEF OnlyGone
<1>15. box' = b
  BY <1>2 DEF TakeResponse, Dropped
<1>16. box' \in [Svc -> Seq(Message)] /\ Grown(box', b, {}) /\ AllHarmless({}, alive)
  <2>1. b \in [Svc -> Seq(Message)]
    BY <1>3 DEF Rest
  <2> QED
    BY <2>1, <1>15, NoneSent
<1>17. LuaInv'
  BY <1>5, <1>7, <1>10, <1>3, <1>13, <1>14, <1>16, TakenInv
<1>18. ASSUME CallInv PROVE CallInv'
  <2>1. /\ lua'[s].watching_session[m.session] = NULL
        /\ \A q \in Session : q # m.session => lua'[s].watching_session[q] = lua[s].watching_session[q]
    <3>1. lua[s].watching_session \in [Session -> Svc \cup {NULL}]
      BY <1>1 DEF LuaState
    <3>2. lua'[s].watching_session = [lua[s].watching_session EXCEPT ![m.session] = NULL]
      BY <1>11 DEF Returned
    <3> QED
      BY <3>1, <3>2, <1>9
  <2>2. \A q \in Session : lua'[s].watching_session[q] \in {NULL, lua[s].watching_session[q]}
    BY <2>1
  <2>3. \A i \in DOMAIN lua[s].error_queue :
            i \in DOMAIN lua'[s].error_queue /\ lua'[s].error_queue[i] = lua[s].error_queue[i]
    BY <1>10
  <2>4. \A a \in Svc, q \in Session : ~ Asking(m, a, q)
    BY DEF Asking, Asks
  <2>5. lua[s].ph # "exit"
    OBVIOUS
  <2>6. HandsOver(s)
    BY <1>10, SameHands
  <2>7. ASSUME NEW n \in Session, InCall(s, n)', NEW d, Telling(m, n, d) PROVE FALSE
    BY <2>7, <2>1 DEF InCall, Telling
  <2> QED
    BY <1>18, <1>1, <1>5, <1>7, <2>6, <1>3, <1>16, <2>2, <2>3, <2>7, <2>4, <2>5, TakenCalls
<1> QED
  BY <1>17, <1>18

(* An error is taken: the calls it is about are in error_queue.  One of session 0 is about
   no call by name. *)
LEMMA TakeErrorStep ==
    ASSUME LuaInv, NEW s \in Svc, lua[s].ph = "idle", box[s] # <<>>, NEW k \in 0 .. MaxRound - 1,
           NEW v, v = [lua[s] EXCEPT !.left = k], NEW m, m = Head(box[s]), m.type = "err",
           alive' = alive, timers' = timers, nops' = nops, killed' = killed, TakeError(s, v, m)
    PROVE  LuaInv' /\ (CallInv => CallInv')
<1>1. TypeOK /\ Own(s) /\ lua[s] \in LuaState /\ BoxInv
  BY DEF LuaInv, OwnInv, TypeOK
<1>2. PICK b : Dropped(b, box, s)
  BY DEF Dropped
<1>3. /\ Rest(b, s, m) /\ MsgOK(m, s, lua, alive) /\ (Asks(m) => Unqueued(ReqOf(m), b[s]))
      /\ m \in Message /\ m.src \in Svc /\ m.session \in {0} \cup Session
  BY <1>2, Taking
<1>4. PICK x : Set(s, x)
  BY DEF TakeError
<1>5. Frame(s)
  BY <1>1, <1>4, SetFrame
<1>6. astray' = astray
  BY DEF TakeError
<1>7. Growing
  BY <1>1, <1>6, StillGrowing
<1>8. /\ lua'[s] \in LuaState /\ Own(s)' /\ SameServing(lua'[s], lua[s])
      /\ lua'[s].session_id = lua[s].session_id /\ lua'[s].ph # "exit"
      /\ lua'[s].watching_session = lua[s].watching_session
      /\ lua'[s].dead_service = lua[s].dead_service \cup (IF m.session = 0 THEN {m.src} ELSE {})
      /\ \A i \in DOMAIN lua[s].error_queue :
            i \in DOMAIN lua'[s].error_queue /\ lua'[s].error_queue[i] = lua[s].error_queue[i]
  BY <1>1, <1>3, TakeErrorOwn
<1>9. \A q \in Session : lua[s].watching_session[q] # NULL
                               /\ (m.session = q \/ (m.session = 0 /\ lua[s].watching_session[q] = m.src /\ m.src \notin ByName))
            => \E i \in DOMAIN lua'[s].error_queue : lua'[s].error_queue[i] = q
  BY <1>1, <1>3, TakeErrorOwn
<1>10. lua[s].session_id \in Nat /\ lua[s].session_id <= lua'[s].session_id
  BY <1>1, <1>8 DEF LuaState
<1>11. ServesOnly(lua'[s], lua[s], {}) /\ FromQueue({}, lua, b[s])
  BY <1>8, <1>10, SameServesOnly DEF FromQueue
<1>12. OnlyGone(lua'[s].dead_service, lua[s].dead_service, alive)
  <2>1. m.session = 0 => ~ alive[m.src]
    BY <1>3 DEF MsgOK
  <2> QED
    BY <2>1, <1>8 DEF OnlyGone
<1>13. box' = b
  BY <1>2 DEF TakeError, Dropped
<1>14. box' \in [Svc -> Seq(Message)] /\ Grown(box', b, {}) /\ AllHarmless({}, alive)
  <2>1. b \in [Svc -> Seq(Message)]
    BY <1>3 DEF Rest
  <2> QED
    BY <2>1, <1>13, NoneSent
<1>15. LuaInv'
  BY <1>5, <1>7, <1>8, <1>3, <1>11, <1>12, <1>14, TakenInv
<1>16. ASSUME CallInv PROVE CallInv'
  <2>1. \A q \in Session : lua'[s].watching_session[q] \in {NULL, lua[s].watching_session[q]}
    BY <1>8
  <2>2. \A i \in DOMAIN lua[s].error_queue :
            i \in DOMAIN lua'[s].error_queue /\ lua'[s].error_queue[i] = lua[s].error_queue[i]
    BY <1>8
  <2>3. \A a \in Svc, q \in Session : ~ Asking(m, a, q)
    BY DEF Asking, Asks
  <2>4. lua[s].ph # "exit"
    OBVIOUS
  <2>5. HandsOver(s)
    BY <1>8, SameHands
  <2>6. ASSUME NEW n \in Session, InCall(s, n)', Callee(s, n)' \notin ByName,
               Telling(m, n, Callee(s, n)') PROVE Pending(s, n)'
    <3>1. lua[s].watching_session[n] # NULL /\ (m.session = n \/ (m.session = 0 /\ lua[s].watching_session[n] = m.src /\ m.src \notin ByName))
      BY <2>6, <1>8 DEF InCall, Callee, Telling
    <3>2. \E i \in DOMAIN lua'[s].error_queue : lua'[s].error_queue[i] = n
      BY <3>1, <1>9, <1>16
    <3> QED
      BY <3>2 DEF Pending, Coming
  <2> QED
    BY <1>16, <1>1, <1>5, <1>7, <2>5, <1>3, <1>14, <2>1, <2>2, <2>6, <2>3, <2>4, TakenCalls
<1> QED
  BY <1>15, <1>16

(* A message is taken. *)
LEMMA TakeStep ==
    ASSUME LuaInv, NEW s \in Svc, Take(s)
    PROVE  LuaInv' /\ (CallInv => CallInv')
<1>1. lua[s] \in LuaState
  BY DEF LuaInv, TypeOK
<1>2. /\ alive' = alive /\ timers' = timers /\ nops' = nops /\ killed' = killed
      /\ lua[s].ph = "idle" /\ box[s] # <<>>
  BY DEF Take
<1>3. PICK m, b : m = Head(box[s]) /\ Dropped(b, box, s)
  BY DEF Dropped
<1>4. m.type \in {"req", "odd", "resp", "err"}
  BY <1>3, <1>2, Taking
<1>5. PICK k : /\ k \in IF lua[s].left > 0 THEN {lua[s].left - 1}
                     ELSE {j \in 0 .. MaxRound - 1 : j = 0 \/ j < Len(box[s]) - 1}
               /\ CASE m.type = "req" -> TakeRequest(s, [lua[s] EXCEPT !.left = k], m)
                    [] m.type = "err" -> TakeError(s, [lua[s] EXCEPT !.left = k], m)
                    [] m.type = "resp" -> TakeResponse(s, [lua[s] EXCEPT !.left = k], m)
                    [] m.type = "odd" -> TakeUnknown(s, [lua[s] EXCEPT !.left = k], m)
  BY <1>3 DEF Take
<1>6. k \in 0 .. MaxRound - 1
  <2>1. lua[s].left \in 0 .. MaxRound - 1
    BY <1>1 DEF LuaState
  <2> QED
    BY <2>1, <1>5, LuaAssumption
<1>7. CASE m.type = "req"
  <2>1. PICK v : v = [lua[s] EXCEPT !.left = k]
    OBVIOUS
  <2>2. TakeRequest(s, v, m)
    BY <1>5, <2>1, <1>7
  <2> QED
    BY <2>2, <2>1, <1>6, <1>3, <1>2, <1>7, TakeRequestStep
<1>8. CASE m.type = "err"
  <2>1. PICK v : v = [lua[s] EXCEPT !.left = k]
    OBVIOUS
  <2>2. TakeError(s, v, m)
    BY <1>5, <2>1, <1>8
  <2> QED
    BY <2>2, <2>1, <1>6, <1>3, <1>2, <1>8, TakeErrorStep
<1>9. CASE m.type = "resp"
  <2>1. PICK v : v = [lua[s] EXCEPT !.left = k]
    OBVIOUS
  <2>2. TakeResponse(s, v, m)
    BY <1>5, <2>1, <1>9
  <2> QED
    BY <2>2, <2>1, <1>6, <1>3, <1>2, <1>9, TakeResponseStep
<1>10. CASE m.type = "odd"
  <2>1. PICK v : v = [lua[s] EXCEPT !.left = k]
    OBVIOUS
  <2>2. TakeUnknown(s, v, m)
    BY <1>5, <2>1, <1>10
  <2> QED
    BY <2>2, <2>1, <1>6, <1>3, <1>2, <1>10, TakeUnknownStep
<1> QED
  BY <1>4, <1>7, <1>8, <1>9, <1>10

(* A step of a running coroutine. *)
LEMMA UserStepKeeps ==
    ASSUME LuaInv, NEW s \in Svc, NEW c \in Co, UserStep(s, c)
    PROVE  LuaInv' /\ (CallInv => CallInv')
<1>1. Peer[s] \subseteq Svc
  BY LuaAssumption
<1>2. CASE \E d \in Peer[s], type \in {"req", "odd"} : Call(s, c, d, type)
  BY <1>2, <1>1, CallerStep
<1>3. CASE \E d \in Peer[s], type \in {"req", "odd"} : Send(s, c, d, type)
  BY <1>3, <1>1, SendStep
<1>4. CASE \E d \in Peer[s] : Kill(s, c, d)
  BY <1>4, <1>1, KillStep
<1>5. CASE \E type \in {"resp", "err"} : Ret(s, c, type)
  BY <1>5, RetStep
<1>6. CASE \E type \in {"resp", "err"}, r \in lua[s].unresponse : Answer(s, c, r, type)
  BY <1>6, AnswerStep
<1>7. CASE Response(s, c)
  BY <1>7, ResponseStep
<1>8. CASE \E r \in lua[s].closures : TestResponse(s, c, r)
  BY <1>8, TestStep
<1>9. CASE Dispatch(s, c) \/ Sleep(s, c) \/ Wait(s, c) \/ Fork(s, c)
  BY <1>9, QuietSteps
<1>10. CASE \E d \in Co : Wakeup(s, c, d)
  BY <1>10, QuietSteps
<1>11. CASE Timeout(s, c)
  BY <1>11, TimeoutStep
<1>12. CASE Finish(s, c)
  BY <1>12, FinishStep
<1>13. CASE Fail(s, c)
  BY <1>13, FailStep
<1>14. CASE ExitReport(s, c)
  BY <1>14, ExitReportStep
<1> QED
  BY <1>2, <1>3, <1>4, <1>5, <1>6, <1>7, <1>8, <1>9, <1>10, <1>11, <1>12, <1>13, <1>14 DEF
     UserStep

(* Every step keeps the invariant, and loses no call. *)
LEMMA NextKeeps ==
    ASSUME LuaInv, [Next]_vars
    PROVE  LuaInv' /\ (CallInv => CallInv')
<1>1. CASE UNCHANGED vars
  <2>1. /\ alive' = alive /\ box' = box /\ timers' = timers /\ lua' = lua /\ nops' = nops
        /\ killed' = killed /\ astray' = astray
    BY <1>1 DEF vars
  <2>2. TypeOK'
    BY <2>1 DEF LuaInv, TypeOK
  <2>3. OwnInv'
    BY <2>1 DEF LuaInv, OwnInv, Own
  <2>4. BoxInv'
    BY <2>1 DEF LuaInv, BoxInv
  <2>5. CallInv => CallInv'
    BY <2>1 DEF CallInv, InCall, Callee, Excused, Coming, Held
  <2> QED
    BY <2>2, <2>3, <2>4, <2>5 DEF LuaInv
<1>2. CASE Next
  <2>1. PICK s \in Svc : Visit(s) \/ Expiry(s)
    BY <1>2 DEF Next
  <2>2. CASE Take(s)
    BY <2>2, TakeStep
  <2>3. 1 \in Co
    BY LuaAssumption DEF Co
  <2>4. CASE dispatch_wakeup(s) \/ ForkNext(s)
    BY <2>4, <2>3, QuietSteps
  <2>5. CASE dispatch_error_queue(s)
    BY <2>5, ErrorStep
  <2>6. CASE ExitRetire(s)
    BY <2>6, RetireStep
  <2>7. CASE Drop(s)
    BY <2>7, DropStep
  <2>8. CASE \E c \in Co : UserStep(s, c)
    BY <2>8, UserStepKeeps
  <2>9. CASE Expiry(s)
    BY <2>9, ExpireStep DEF Expiry
  <2> QED
    BY <2>1, <2>2, <2>4, <2>5, <2>6, <2>7, <2>8, <2>9 DEF Visit, Scheduler
<1> QED
  BY <1>1, <1>2

-----------------------------------------------------------------------------
(* Theorems *)

(* skynet.start: one timeout, whose response is queued. *)
LEMMA InitKeeps ==
    ASSUME Init
    PROVE  LuaInv /\ CallInv
<1>1. 1 \in Session /\ 1 \in Co /\ NULL \notin Co /\ 0 \in 0 .. MaxRound - 1
  <2>1. MaxOp \in Nat /\ NCo \in Nat \ {0} /\ MaxRound \in Nat \ {0}
    BY LuaAssumption
  <2>2. 1 \in Session
    BY <2>1 DEF Session
  <2>3. 1 \in Co
    BY <2>1 DEF Co
  <2>4. NULL \notin Co
    BY LuaAssumption
  <2>5. 0 \in 0 .. MaxRound - 1
    BY <2>1
  <2> QED
    BY <2>2, <2>3, <2>4, <2>5
<1>2. PICK i : i = [s \in Svc |-> [type |-> "resp", src |-> s, session |-> 1]]
  OBVIOUS
<1>3. ASSUME NEW s \in Svc PROVE i[s] \in Message /\ box[s] = <<i[s]>> /\ i[s].type = "resp" /\ i[s].session = 1
  BY <1>2, <1>1 DEF Init, Message
<1>4. ASSUME NEW s \in Svc
      PROVE  /\ lua[s] \in LuaState /\ lua[s].ph = "idle" /\ lua[s].run = NULL /\ lua[s].session_id = 1
             /\ \A q \in Session : lua[s].session_id_coroutine[q] = IF q = 1 THEN 1 ELSE NULL
             /\ \A c \in Co : lua[s].session_coroutine[c] = NULL
             /\ lua[s].session_response = {} /\ lua[s].unresponse = {} /\ lua[s].wakeup_session = {}
             /\ \A c \in Co : lua[s].sleep_session[c] = 0
             /\ \A a \in Svc : lua[s].watching_service[a] = 0
             /\ \A q \in Session : lua[s].watching_session[q] = NULL
             /\ lua[s].dead_service = {} /\ lua[s].error_queue = <<>> /\ lua[s].fork_queue = {}
  <2>1. PICK v : v = [ph |-> "idle", run |-> NULL, dispatch |-> s \in Early,
                  left |-> 0, errs |-> 0, session_id |-> 1,
                  session_id_coroutine |-> [q \in Session |-> IF q = 1 THEN 1 ELSE NULL],
                  session_coroutine |-> [c \in Co |-> NULL],
                  session_response |-> {}, closures |-> {}, unresponse |-> {},
                  wakeup_session |-> {}, sleep_session |-> [c \in Co |-> 0], waiting |-> {},
                  watching_service |-> [t \in Svc |-> 0],
                  watching_session |-> [q \in Session |-> NULL],
                  dead_service |-> {}, error_queue |-> <<>>, fork_queue |-> {},
                  faulted |-> FALSE]
    OBVIOUS
  <2>2. lua[s] = v
    BY <2>1 DEF Init
  <2>3. <<>> \in Seq(Session)
    OBVIOUS
  <2>4. v \in LuaState
    BY <2>1, <1>1, <2>3 DEF LuaState
  <2>5. /\ v.ph = "idle" /\ v.run = NULL /\ v.session_id = 1
        /\ v.session_id_coroutine = [q \in Session |-> IF q = 1 THEN 1 ELSE NULL]
        /\ v.session_coroutine = [c \in Co |-> NULL]
        /\ v.session_response = {} /\ v.unresponse = {} /\ v.wakeup_session = {}
        /\ v.sleep_session = [c \in Co |-> 0]
        /\ v.watching_service = [t \in Svc |-> 0]
        /\ v.watching_session = [q \in Session |-> NULL]
        /\ v.dead_service = {} /\ v.error_queue = <<>> /\ v.fork_queue = {}
    BY <2>1
  <2> QED
    BY <2>2, <2>4, <2>5
<1>5. TypeOK
  <2>1. alive \in [Svc -> BOOLEAN] /\ timers \in [Svc -> SUBSET Session] /\ nops \in [Svc -> Nat]
    BY DEF Init
  <2>2. killed \subseteq Svc /\ astray \in [Svc -> SUBSET Request]
    BY DEF Init
  <2>3. lua \in [Svc -> LuaState]
    <3>1. lua = [s \in Svc |-> lua[s]]
      BY DEF Init
    <3> QED
      BY <3>1, <1>4
  <2>4. box \in [Svc -> Seq(Message)]
    <3>1. box = [s \in Svc |-> box[s]]
      BY DEF Init
    <3>2. ASSUME NEW s \in Svc PROVE box[s] \in Seq(Message)
      <4>1. i[s] \in Message /\ box[s] = <<i[s]>>
        BY <1>3
      <4>2. \A z \in Message : <<z>> \in Seq(Message)
        OBVIOUS
      <4> QED
        BY <4>1, <4>2
    <3> QED
      BY <3>1, <3>2
  <2> QED
    BY <2>1, <2>2, <2>3, <2>4 DEF TypeOK
<1>6. ASSUME NEW s \in Svc PROVE Own(s)
  <2>1. PICK v : v = lua[s]
    OBVIOUS
  <2>2. nops[s] = 0 /\ 1 <= 0 + 1
    BY DEF Init
  <2>3. Numbered(v, nops[s])
    BY <1>4, <2>2, <2>1, LuaAssumption DEF Numbered, Session
  <2>4. Parked(v)
    BY <1>4, <2>1, <1>1 DEF Parked
  <2>5. Failing(v)
    <3>1. DOMAIN v.error_queue = {}
      BY <1>4, <2>1
    <3> QED
      BY <3>1 DEF Failing
  <2>6. Serving(v)
    BY <1>4, <2>1 DEF Serving, Owes
  <2>7. Watched(v)
    <3>1. SUFFICES ASSUME NEW a \in Svc PROVE Watchers(v, a) = 0
      BY <1>4, <2>1 DEF Watched
    <3>2. ServedFor(v, a) = {} /\ From(v.unresponse, a) = {}
      BY <1>4, <2>1 DEF ServedFor, From
    <3> QED
      BY <3>2, FS_EmptySet DEF Watchers
  <2>8. IsFiniteSet(v.unresponse)
    BY <1>4, <2>1, FS_EmptySet
  <2>9. Draining(v)
    BY <1>4, <2>1 DEF Draining, Awaited
  <2> QED
    BY <2>1, <1>4, <2>3, <2>4, <2>5, <2>6, <2>7, <2>8, <2>9 DEF Own, Waiting, Serves
<1>7. BoxInv
  <2>1. SUFFICES ASSUME NEW d \in Svc
                 PROVE  /\ Once(box[d])
                        /\ \A j \in DOMAIN box[d] : MsgOK(box[d][j], d, lua, alive)
                        /\ Issued(lua[d], lua)
                        /\ \A a \in lua[d].dead_service : ~ alive[a]
    BY DEF BoxInv, BoxOK
  <2>2. \A j \in DOMAIN box[d] : j = 1 /\ box[d][j] = i[d]
    BY <1>3
  <2>3. Once(box[d])
    BY <2>2 DEF Once
  <2>4. MsgOK(i[d], d, lua, alive)
    BY <1>3 DEF MsgOK, Asks
  <2>5. Issued(lua[d], lua)
    BY <1>4 DEF Issued
  <2> QED
    BY <2>2, <2>3, <2>4, <2>5, <1>4
<1>8. CallInv
  BY <1>4 DEF CallInv, InCall
<1> QED
  BY <1>5, <1>6, <1>7, <1>8 DEF LuaInv, OwnInv

(* The invariant of the scheduler: the tables of every service agree (the counts
   of watching_service up to repeated tests of closures and uncaught errors),
   and every request of a call is in one place.                            *)
THEOREM LuaInvariant == Spec => []LuaInv
<1>1. Init => LuaInv
  BY InitKeeps
<1>2. LuaInv /\ [Next]_vars => LuaInv'
  BY NextKeeps
<1> QED
  BY <1>1, <1>2, PTL DEF Spec

(* A coroutine waits for one thing at a time: it is parked under one session,
   the one its call or its sleep remembers, and never while it runs.       *)
THEOREM CoroutinesParkOnce == Spec => []ParkedOnce
<1>1. LuaInv => ParkedOnce
  <2>1. SUFFICES ASSUME LuaInv PROVE ParkedOnce
    OBVIOUS
  <2>2. TypeOK
    BY <2>1 DEF LuaInv
  <2>3. ASSUME NEW s \in Svc, NEW v, v = lua[s]
        PROVE  /\ Parked(v) /\ (v.run # NULL => Idle(v, v.run))
               /\ \A c \in Co : v.run = c /\ c \in ToSet(v.session_id_coroutine) => FALSE
    <3>1. v \in LuaState /\ Parked(v) /\ (v.run # NULL => Idle(v, v.run))
      BY <2>1, <2>2, <2>3 DEF LuaInv, OwnInv, Own, Waiting, TypeOK
    <3>2. DOMAIN v.session_id_coroutine = Session
      BY <3>1 DEF LuaState
    <3>3. ASSUME NEW c \in Co, v.run = c PROVE c \notin ToSet(v.session_id_coroutine)
      <4>1. \A q \in Session : v.session_id_coroutine[q] # c
        BY <3>1, <3>3, LuaAssumption DEF Idle
      <4> QED
        BY <4>1, <3>2 DEF ToSet
    <3> QED
      BY <3>1, <3>3
  <2>4. ASSUME NEW s \in Svc, NEW v, v = lua[s]
        PROVE  /\ \A q, p \in Session :
                      v.session_id_coroutine[q] = v.session_id_coroutine[p] /\ q # p
                      => v.session_id_coroutine[q] \in {NULL, BREAK}
               /\ \A q \in Session : InCall(s, q) => v.session_id_coroutine[q] \in Co
               /\ \A c \in Co :
                      /\ v.sleep_session[c] # 0 => v.session_id_coroutine[v.sleep_session[c]] = c
                      /\ v.ph = "run" /\ v.run = c => c \notin ToSet(v.session_id_coroutine)
    BY <2>3, <2>4 DEF Parked, InCall
  <2> QED
    BY <2>2, <2>4 DEF ParkedOnce
<1> QED
  BY <1>1, LuaInvariant, PTL

(* The two dispatches at the end of suspend leave no wakeup and no error behind
   in a service that waits for a message.                                  *)
THEOREM SuspendDrains == Spec => []EpilogueDrains
<1>1. LuaInv => EpilogueDrains
  BY DEF LuaInv, OwnInv, Own, Draining, EpilogueDrains
<1> QED
  BY <1>1, LuaInvariant, PTL

(* Unless an error has cut a dispatch short, watching_service counts the requests
   being served and the closures that have not answered, for every source that
   has not been reported down; for one that has, where a closure may be tested
   again and again, it never counts more.                                  *)
THEOREM WatchingIsExact == Spec => []WatchExact
<1>1. LuaInv => WatchExact
  <2>1. SUFFICES ASSUME LuaInv, NEW s \in Svc, NEW a \in Svc, ~ lua[s].faulted
                 PROVE  /\ lua[s].watching_service[a] <= Watchers(lua[s], a)
                        /\ a \notin lua[s].dead_service =>
                              lua[s].watching_service[a] = Watchers(lua[s], a)
    BY DEF WatchExact, Watchers, ServedFor
  <2>2. PICK v : v = lua[s]
    OBVIOUS
  <2>3. Serves(v) /\ v \in LuaState
    BY <2>1, <2>2 DEF LuaInv, TypeOK, OwnInv, Own
  <2>4. v.watching_service[a] \in Nat
    BY <2>3 DEF LuaState
  <2>5. Watchers(v, a) \in Nat
    BY <2>3, WatchersFinite DEF Serves, Watchers
  <2> QED
    BY <2>1, <2>2, <2>3, <2>4, <2>5 DEF Serves, Watched
<1> QED
  BY <1>1, LuaInvariant, PTL

(* A call to a handle never waits for nothing, unless it is excused. *)
CallsByHandle ==
    \A s \in Svc : \A q \in Session :
        InCall(s, q) /\ ~ Excused(s, q) /\ Callee(s, q) \notin ByName => OnItsWay(s, q)

(* skynet.call by handle never waits for nothing, in every interleaving of calls,
   answers, failures, exits and dropped queues, even if other calls are made by
   name: the caller has an answer or an error on its way to it.  Excused are
   the calls skynet.lua never answers: the callee was killed, or took the
   request after it had exited or before it had a dispatch function.       *)
THEOREM CallByHandleNotLost == Spec => []CallsByHandle
<1>1. Init => LuaInv /\ CallInv
  BY InitKeeps
<1>2. LuaInv /\ CallInv /\ [Next]_vars => (LuaInv /\ CallInv)'
  BY NextKeeps
<1>3. LuaInv /\ CallInv => CallsByHandle
  <2>1. SUFFICES ASSUME LuaInv, CallInv, NEW s \in Svc, NEW q \in Session,
                        InCall(s, q), ~ Excused(s, q), Callee(s, q) \notin ByName
                 PROVE  OnItsWay(s, q)
    BY DEF CallsByHandle
  <2>2. PICK d, r : d = Callee(s, q) /\ r = [src |-> s, session |-> q]
    OBVIOUS
  <2>3. \/ \E i \in DOMAIN box[d] : Asking(box[d][i], s, q)
        \/ \E i \in DOMAIN box[s] : Telling(box[s][i], q, d)
        \/ \E i \in DOMAIN lua[s].error_queue : lua[s].error_queue[i] = q
        \/ Held(d, r)
    BY <2>1, <2>2 DEF CallInv, Coming
  <2>4. CASE \E i \in DOMAIN box[d] : Asking(box[d][i], s, q)
    <3>1. \E m \in ToSet(box[d]) : m.type \in {"req", "odd"} /\ m.src = s /\ m.session = q
      BY <2>4 DEF ToSet, Asking, Asks
    <3> QED
      BY <3>1, <2>2 DEF OnItsWay
  <2>5. CASE \E i \in DOMAIN box[s] : Telling(box[s][i], q, d)
    <3>1. \E m \in ToSet(box[s]) :
             \/ m.type \in {"resp", "err"} /\ m.session = q
             \/ m.type = "err" /\ m.session = 0 /\ m.src = d /\ d \notin ByName
      BY <2>5, <2>1, <2>2 DEF ToSet, Telling
    <3> QED
      BY <3>1, <2>2 DEF OnItsWay
  <2>6. CASE \E i \in DOMAIN lua[s].error_queue : lua[s].error_queue[i] = q
    BY <2>6 DEF OnItsWay, ToSet
  <2>7. CASE Held(d, r)
    BY <2>7, <2>2 DEF Held, Holds, OnItsWay, HeldByClosure
  <2> QED
    BY <2>3, <2>4, <2>5, <2>6, <2>7
<1> QED
  BY <1>1, <1>2, <1>3, PTL DEF Spec

(* And when every call is by handle, no call waits for nothing, with the same
   excuses.                                                                *)
THEOREM NoCallLost ==
    ASSUME ByName = {}
    PROVE  Spec => []NoLostCall
<1>1. CallsByHandle => NoLostCall
  BY DEF CallsByHandle, NoLostCall
<1> QED
  BY <1>1, CallByHandleNotLost, PTL

=============================================================================
