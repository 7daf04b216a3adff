---------------------------- MODULE LuaScheduler -----------------------------
(***************************************************************************)
(* The scheduler every Lua service runs, lualib/skynet.lua: messages       *)
(* resume or create coroutines, coroutines park in calls, sleeps and       *)
(* waits, and when one yields the pending wakeups and errors are delivered *)
(* before the next message is taken.                                       *)
(*                                                                         *)
(* lua[s] holds the upvalues of service s under their own names (abridged  *)
(* where a pair of tables is always written together), and where its one   *)
(* thread of control is:                                                   *)
(*   idle  between messages          run   coroutine lua[s].run runs       *)
(*   wake  at dispatch_wakeup        err   at dispatch_error_queue         *)
(*   fork  in the fork loop          exit  inside skynet.exit              *)
(* A service is single threaded, so what it does between two sends is one  *)
(* step; the steps of different services interleave.  Mailboxes, the       *)
(* retirement of a handle and the error that answers a dropped message are *)
(* those of SkynetServer, one step each.  What a coroutine does is the     *)
(* user's: the actions of the middle section, in any order.                *)
(***************************************************************************)
EXTENDS Integers, SequencesExt

CONSTANTS
    Svc,            \* services
    Early,          \* those that have a dispatch function before skynet.start
    ByName,         \* those that are called by their name, not their handle
    Uses,           \* operations the user code of each service uses
    Peer,           \* services it sends to
    NCo,            \* coroutines a service may have at once
    MaxOp,          \* bound on the operations of user code of each service
    MaxRound,       \* messages a worker takes in one visit, at most
    NULL, BREAK

Co == 1 .. NCo

(* Every operation takes at most one session and skynet.start takes the first. *)
Session == 1 .. MaxOp + 1

Request == [src : Svc, session : {0} \cup Session]

OpName == {"dispatch", "call", "odd", "send", "response", "sleep", "wait", "wakeup", "timeout",
           "fork", "large", "kill", "fail", "exit"}

ASSUME LuaAssumption ==
    /\ Uses \in [Svc -> SUBSET OpName] /\ Peer \in [Svc -> SUBSET Svc]
    /\ Early \subseteq Svc /\ ByName \subseteq Svc
    /\ NCo \in Nat \ {0} /\ MaxOp \in Nat /\ MaxRound \in Nat \ {0}
    /\ NULL \notin Svc \cup Co \cup Request /\ BREAK \notin Co /\ NULL # BREAK

VARIABLES
    alive,      \* the handle is registered
    box,        \* message queue of each service
    timers,     \* sessions of timeouts that have not expired
    lua,        \* Lua state of each service
    nops,       \* user operations so far
    killed,     \* services killed by another one (history)
    astray      \* requests a service took too late or too early (history)

vars == <<alive, box, timers, lua, nops, killed, astray>>

Message == [type : {"req", "odd", "resp", "err"}, src : Svc, session : {0} \cup Session]

LuaState ==
    [ph : {"idle", "run", "wake", "err", "fork", "exit"},
     run : Co \cup {NULL},
     dispatch : BOOLEAN,            \* proto.lua.dispatch is set
     left : 0 .. MaxRound - 1,      \* messages left in the worker's visit
     errs : Nat,                    \* outer suspends yet to call dispatch_error_queue
     session_id : Nat,              \* last session of skynet_context_newsession
     session_id_coroutine : [Session -> Co \cup {NULL, BREAK}],
     session_coroutine : [Co -> Request \cup {NULL}],   \* _id and _address
     session_response : SUBSET Co,
     closures : SUBSET Request,     \* of skynet.response; user code may keep any of them
     unresponse : SUBSET Request,   \* those that owe an answer
     wakeup_session : SUBSET Co,
     sleep_session : [Co -> {0} \cup Session],
     waiting : SUBSET Co,           \* sleepers that are in skynet.wait
     watching_service : [Svc -> Nat],
     watching_session : [Session -> Svc \cup {NULL}],
     dead_service : SUBSET Svc,
     error_queue : Seq(Session),
     fork_queue : SUBSET Co,
     faulted : BOOLEAN]             \* an error left a dispatch (history)

TypeOK ==
    /\ alive \in [Svc -> BOOLEAN]
    /\ box \in [Svc -> Seq(Message)]
    /\ timers \in [Svc -> SUBSET Session]
    /\ lua \in [Svc -> LuaState]
    /\ nops \in [Svc -> Nat]
    /\ killed \subseteq Svc
    /\ astray \in [Svc -> SUBSET Request]

(* skynet.start: timeout(0) has made the main coroutine and its response is
   in the queue.                                                           *)
Init ==
    /\ alive = [s \in Svc |-> TRUE]
    /\ box = [s \in Svc |-> <<[type |-> "resp", src |-> s, session |-> 1]>>]
    /\ timers = [s \in Svc |-> {}]
    /\ lua = [s \in Svc |->
         [ph |-> "idle", run |-> NULL, dispatch |-> s \in Early,
          left |-> 0, errs |-> 0, session_id |-> 1,
          session_id_coroutine |-> [q \in Session |-> IF q = 1 THEN 1 ELSE NULL],
          session_coroutine |-> [c \in Co |-> NULL],
          session_response |-> {}, closures |-> {}, unresponse |-> {},
          wakeup_session |-> {}, sleep_session |-> [c \in Co |-> 0], waiting |-> {},
          watching_service |-> [t \in Svc |-> 0],
          watching_session |-> [q \in Session |-> NULL],
          dead_service |-> {}, error_queue |-> <<>>, fork_queue |-> {},
          faulted |-> FALSE]]
    /\ nops = [s \in Svc |-> 0]
    /\ killed = {}
    /\ astray = [s \in Svc |-> {}]

-----------------------------------------------------------------------------
(* Mailboxes and coroutines *)

(* skynet_send: the message is queued, or refused when the handle is gone. *)
Post(b, to, m) == IF alive[to] THEN [b EXCEPT ![to] = Append(@, m)] ELSE b

Msg(type, s, q) == [type |-> type, src |-> s, session |-> q]

(* A set of requests is walked by pairs(), in any order.  Only the order of
   those of one source can be observed.                                    *)
From(R, a) == {r \in R : r.src = a}

Walks(R) ==
    {f \in [Svc -> UNION {SetToSeqs(From(R, a)) : a \in Svc}] :
        \A a \in Svc : f[a] \in SetToSeqs(From(R, a))}

(* Error messages of s to the sources of the requests of a walk. *)
PostErrors(b, s, walk) ==
    [a \in Svc |->
        IF alive[a]
        THEN b[a] \o [i \in 1 .. Len(walk[a]) |-> Msg("err", s, walk[a][i].session)]
        ELSE b[a]]

(* co_create: a coroutine of the pool, or a new one. *)
CoBusy(v) ==
    {v.run} \cup v.fork_queue \cup ToSet(v.session_id_coroutine)
            \cup {c \in Co : v.session_coroutine[c] # NULL}

co_create(v) == {c \in Co \ CoBusy(v) : \A d \in 1 .. c - 1 : d \in CoBusy(v)}

Set(s, v) == lua' = [lua EXCEPT ![s] = v]

Resume(v, c) == [v EXCEPT !.ph = "run", !.run = c]

(* Where control goes next, phases that have nothing to do left out: the fork
   loop, dispatch_error_queue before it (once the queue is empty the calls of
   outer suspends return at once), dispatch_wakeup before that.            *)
ToFork(v) == [v EXCEPT !.run = NULL, !.errs = 0,
                       !.ph = IF v.fork_queue = {} THEN "idle" ELSE "fork"]

ToError(v) == IF v.error_queue = <<>> THEN ToFork(v) ELSE [v EXCEPT !.run = NULL, !.ph = "err"]

ToWakeup(v) == IF v.wakeup_session = {} THEN ToError(v) ELSE [v EXCEPT !.run = NULL, !.ph = "wake"]

(* Deliberately wrong variants (here, WakeupKeepsSession, AnswerKeepsWatching,
   ExitForgetsClosures, DropSilently): replacing the operator by its variant
   must break a property.                                                  *)
YieldForgetsErrors(v) == IF v.wakeup_session = {} THEN ToFork(v) ELSE ToWakeup(v)

(* A coroutine yielded: the end of suspend. *)
Yield(v) == ToWakeup(v)

(* An error leaves raw_dispatch_message (or the pcall of the fork loop):
   every suspend on the stack is gone.                                     *)
Raise(v) == ToFork([v EXCEPT !.faulted = TRUE])

(* watching_service[a], nil at zero, after n calls of release_watching. *)
Released(v, n, a) == IF v.watching_service[a] > n THEN v.watching_service[a] - n ELSE 0

release_watching(v, a) == [v EXCEPT !.watching_service[a] = Released(v, 1, a)]

Running(s, c) == lua[s].ph = "run" /\ lua[s].run = c

(* A bounded operation of user code. *)
Op(s, name) ==
    name \in Uses[s] /\ nops[s] < MaxOp /\ nops' = [nops EXCEPT ![s] = @ + 1]

-----------------------------------------------------------------------------
(* raw_dispatch_message, called by a worker for each message of its visit.
   The first message is taken while the handle is registered; the number of
   messages of the visit is fixed then (skynet_context_message_dispatch).  *)

(* A request starts a coroutine; its source is watched while it is served. *)
Started(v, c, m) ==
    Resume([v EXCEPT !.session_coroutine[c] = [src |-> m.src, session |-> m.session],
                     !.watching_service[m.src] = @ + 1], c)

(* Without a dispatch function unknown_request raises an error, and the source
   is told nothing; no suspend is on the stack that the error could cut short. *)
TakeRequest(s, v, m) ==
    /\ IF v.dispatch
       THEN \E c \in co_create(v) : Set(s, Started(v, c, m))
       ELSE Set(s, ToFork(v))
    /\ astray' = IF alive[s] /\ v.dispatch THEN astray
                 ELSE [astray EXCEPT ![s] = @ \cup {[src |-> m.src, session |-> m.session]}]
    /\ box' = [box EXCEPT ![s] = Tail(@)]

(* The calls an error is about: one, or (session 0) every call to its source. *)
Hit(v, m) ==
    IF m.session = 0
    THEN {q \in Session : v.watching_session[q] = m.src /\ m.src \notin ByName}
    ELSE {m.session} \cap {q \in Session : v.watching_session[q] # NULL}

(* An error runs in a coroutine of its own that watches the source only while it
   runs, and yields at once.                                               *)
Recorded(v, m, order) ==
    Yield([v EXCEPT !.error_queue = @ \o order,
                    !.dead_service = IF m.session = 0 THEN @ \cup {m.src} ELSE @])

TakeError(s, v, m) ==
    \E order \in SetToSeqs(Hit(v, m)) :
        /\ Set(s, Recorded(v, m, order))
        /\ box' = [box EXCEPT ![s] = Tail(@)]
        /\ UNCHANGED astray

TakeResponse(s, v, m) ==
    LET c == v.session_id_coroutine[m.session]
        w == [v EXCEPT !.session_id_coroutine[m.session] = NULL]
    IN /\ Set(s, IF c = BREAK THEN ToFork(w)
                 ELSE IF c = NULL THEN Raise(v)
                 ELSE Resume([w EXCEPT !.watching_session[m.session] = NULL,
                                       !.sleep_session[c] = 0], c))
       /\ box' = [box EXCEPT ![s] = Tail(@)]
       /\ UNCHANGED astray

(* A message of a protocol the service never registered. *)
TakeUnknown(s, v, m) ==
    /\ Set(s, IF m.session = 0 THEN Raise(v) ELSE ToFork(v))
    /\ LET rest == [box EXCEPT ![s] = Tail(@)]
       IN box' = IF m.session = 0 THEN rest ELSE Post(rest, m.src, Msg("err", s, m.session))
    /\ UNCHANGED astray

Take(s) ==
    /\ lua[s].ph = "idle" /\ box[s] # <<>>
    /\ alive[s] \/ lua[s].left > 0
    /\ \E n \in IF lua[s].left > 0 THEN {lua[s].left - 1}
                 ELSE {k \in 0 .. MaxRound - 1 : k = 0 \/ k < Len(box[s]) - 1} :
        LET m == Head(box[s])
            v == [lua[s] EXCEPT !.left = n]
        IN CASE m.type = "req" -> TakeRequest(s, v, m)
             [] m.type = "err" -> TakeError(s, v, m)
             [] m.type = "resp" -> TakeResponse(s, v, m)
             [] m.type = "odd" -> TakeUnknown(s, v, m)
    /\ UNCHANGED <<alive, timers, nops, killed>>

WakeupKeepsSession(s) ==
    LET v == lua[s] IN
    /\ v.ph = "wake"
    /\ \E c \in v.wakeup_session :
            LET q == v.sleep_session[c]
                w == [v EXCEPT !.wakeup_session = @ \ {c}]
            IN Set(s, IF q = 0 THEN ToError(w)
                      ELSE Resume([w EXCEPT !.sleep_session[c] = 0,
                                            !.waiting = @ \ {c},
                                            !.errs = @ + 1], c))
    /\ UNCHANGED <<alive, box, timers, nops, killed, astray>>

(* A sleeper that is woken leaves BREAK in the place of its session, for the
   response of its timer; skynet.wait has no timer and clears it.          *)
Woken(v, c) ==
    LET q == v.sleep_session[c]
        w == [v EXCEPT !.wakeup_session = @ \ {c}]
    IN IF q = 0 THEN ToError(w)
       ELSE Resume([w EXCEPT !.sleep_session[c] = 0,
                             !.session_id_coroutine[q] = IF c \in v.waiting THEN NULL ELSE BREAK,
                             !.waiting = @ \ {c},
                             !.errs = @ + 1], c)

(* Any pending wakeup may be next(wakeup_session). *)
dispatch_wakeup(s) ==
    /\ lua[s].ph = "wake"
    /\ \E c \in lua[s].wakeup_session : Set(s, Woken(lua[s], c))
    /\ UNCHANGED <<alive, box, timers, nops, killed, astray>>

dispatch_error_queue(s) ==
    LET v == lua[s] IN
    /\ v.ph = "err"
    /\ LET q == Head(v.error_queue)
           c == v.session_id_coroutine[q]
           w == [v EXCEPT !.error_queue = Tail(@)]
       IN Set(s, IF c = NULL THEN Raise(w)
                 ELSE Resume([w EXCEPT !.session_id_coroutine[q] = NULL,
                                       !.watching_session[q] = NULL], c))
    /\ UNCHANGED <<alive, box, timers, nops, killed, astray>>

(* The loop over fork_queue that ends skynet.dispatch_message. *)
ForkNext(s) ==
    LET v == lua[s] IN
    /\ v.ph = "fork"
    /\ \E c \in v.fork_queue : Set(s, Resume([v EXCEPT !.fork_queue = @ \ {c}], c))
    /\ UNCHANGED <<alive, box, timers, nops, killed, astray>>

-----------------------------------------------------------------------------
(* What a running coroutine may do.  User code is assumed to answer each
   request that has a session once, by skynet.ret, by a response closure or
   by failing, and not to park in skynet.wait before that.                 *)

Owes(v, c) ==
    /\ v.session_coroutine[c] # NULL
    /\ v.session_coroutine[c].session # 0
    /\ c \notin v.session_response

(* skynet.dispatch("lua", func) *)
Dispatch(s, c) ==
    /\ Running(s, c) /\ "dispatch" \in Uses[s]
    /\ Set(s, [lua[s] EXCEPT !.dispatch = TRUE])
    /\ UNCHANGED <<alive, box, timers, nops, killed, astray>>

(* skynet.call, skynet.rawcall: a call to a dead service raises at once. *)
Call(s, c, d, type) ==
    LET v == lua[s]
        q == v.session_id + 1
        w == [v EXCEPT !.session_id = q]
    IN /\ Running(s, c) /\ Op(s, IF type = "req" THEN "call" ELSE "odd")
       /\ Set(s, IF ~ alive[d] THEN w
                 ELSE Yield([w EXCEPT !.watching_session[q] = d,
                                      !.session_id_coroutine[q] = c]))
       /\ box' = Post(box, d, Msg(type, s, q))
       /\ UNCHANGED <<alive, timers, killed, astray>>

(* skynet.send *)
Send(s, c, d, type) ==
    /\ Running(s, c) /\ Op(s, "send")
    /\ box' = Post(box, d, Msg(type, s, 0))
    /\ UNCHANGED <<alive, timers, lua, killed, astray>>

(* skynet.ret: an error instead of an answer that is too large. *)
Ret(s, c, type) ==
    LET v == lua[s]
        r == v.session_coroutine[c]
    IN /\ Running(s, c) /\ Owes(v, c)
       /\ type = "resp" \/ "large" \in Uses[s]
       /\ Set(s, [v EXCEPT !.session_response = @ \cup {c}])
       /\ box' = IF r.src \in v.dead_service THEN box ELSE Post(box, r.src, Msg(type, s, r.session))
       /\ UNCHANGED <<alive, timers, nops, killed, astray>>

(* skynet.response: the closure outlives the coroutine.  If its source is no
   longer counted, suspend raises an error and the coroutine is never resumed. *)
Response(s, c) ==
    LET v == lua[s]
        r == v.session_coroutine[c]
    IN /\ Running(s, c) /\ Owes(v, c) /\ "response" \in Uses[s]
       /\ Set(s, IF v.watching_service[r.src] = 0 THEN Raise(v)
                 ELSE [v EXCEPT !.session_response = @ \cup {c},
                                !.closures = @ \cup {r},
                                !.unresponse = @ \cup {r},
                                !.watching_service[r.src] = @ + 1])
       /\ UNCHANGED <<alive, box, timers, nops, killed, astray>>

AnswerKeepsWatching(s, c, r, type) ==
    LET v == lua[s] IN
    /\ Running(s, c) /\ r \in v.unresponse
    /\ Set(s, [v EXCEPT !.unresponse = @ \ {r}])
    /\ box' = IF r.src \in v.dead_service THEN box ELSE Post(box, r.src, Msg(type, s, r.session))
    /\ UNCHANGED <<alive, timers, nops, killed, astray>>

(* response(ok, ...); any coroutine may hold the closure. *)
Answer(s, c, r, type) ==
    LET v == lua[s] IN
    /\ Running(s, c) /\ r \in v.unresponse
    /\ Set(s, release_watching([v EXCEPT !.unresponse = @ \ {r}], r.src))
    /\ box' = IF r.src \in v.dead_service THEN box ELSE Post(box, r.src, Msg(type, s, r.session))
    /\ UNCHANGED <<alive, timers, nops, killed, astray>>

(* response "TEST": once the source is down the closure gives up its answer, and
   its count, each time it is asked.                                       *)
TestResponse(s, c, r) ==
    LET v == lua[s] IN
    /\ Running(s, c) /\ r \in v.closures /\ r.src \in v.dead_service
    /\ Set(s, release_watching([v EXCEPT !.unresponse = @ \ {r}], r.src))
    /\ UNCHANGED <<alive, box, timers, nops, killed, astray>>

(* skynet.sleep and skynet.yield *)
Sleep(s, c) ==
    LET v == lua[s]
        q == v.session_id + 1
    IN /\ Running(s, c) /\ Op(s, "sleep")
       /\ timers' = [timers EXCEPT ![s] = @ \cup {q}]
       /\ Set(s, Yield([v EXCEPT !.session_id = q, !.session_id_coroutine[q] = c,
                                 !.sleep_session[c] = q]))
       /\ UNCHANGED <<alive, box, killed, astray>>

(* skynet.wait *)
Wait(s, c) ==
    LET v == lua[s]
        q == v.session_id + 1
    IN /\ Running(s, c) /\ ~ Owes(v, c) /\ Op(s, "wait")
       /\ Set(s, Yield([v EXCEPT !.session_id = q, !.session_id_coroutine[q] = c,
                                 !.sleep_session[c] = q, !.waiting = @ \cup {c}]))
       /\ UNCHANGED <<alive, box, timers, killed, astray>>

(* skynet.wakeup: only a coroutine in skynet.sleep or skynet.wait. *)
Wakeup(s, c, d) ==
    LET v == lua[s] IN
    /\ Running(s, c) /\ "wakeup" \in Uses[s]
    /\ v.sleep_session[d] # 0 /\ d \notin v.wakeup_session
    /\ Set(s, [v EXCEPT !.wakeup_session = @ \cup {d}])
    /\ UNCHANGED <<alive, box, timers, nops, killed, astray>>

(* skynet.timeout *)
Timeout(s, c) ==
    LET v == lua[s]
        q == v.session_id + 1
    IN /\ Running(s, c) /\ Op(s, "timeout")
       /\ \E d \in co_create(v) :
            Set(s, [v EXCEPT !.session_id = q, !.session_id_coroutine[q] = d])
       /\ timers' = [timers EXCEPT ![s] = @ \cup {q}]
       /\ UNCHANGED <<alive, box, killed, astray>>

(* skynet.fork *)
Fork(s, c) ==
    LET v == lua[s] IN
    /\ Running(s, c) /\ Op(s, "fork")
    /\ \E d \in co_create(v) : Set(s, [v EXCEPT !.fork_queue = @ \cup {d}])
    /\ UNCHANGED <<alive, box, timers, killed, astray>>

(* skynet.kill: the other service is retired, wherever it is. *)
Kill(s, c, d) ==
    /\ Running(s, c) /\ Op(s, "kill") /\ alive[d]
    /\ alive' = [alive EXCEPT ![d] = FALSE]
    /\ killed' = killed \cup {d}
    /\ UNCHANGED <<box, timers, lua, astray>>

(* The coroutine function returns: "EXIT". *)
Finish(s, c) ==
    LET v == lua[s]
        r == v.session_coroutine[c]
        w == [v EXCEPT !.session_coroutine[c] = NULL,
                       !.session_response = @ \ {c}]
    IN /\ Running(s, c) /\ ~ Owes(v, c)
       /\ Set(s, Yield(IF r = NULL THEN w ELSE release_watching(w, r.src)))
       /\ UNCHANGED <<alive, box, timers, nops, killed, astray>>

(* An error nobody catches: a request with a session is answered by an error,
   even one that was answered before.  The coroutine is dead.              *)
Fail(s, c) ==
    LET v == lua[s]
        r == v.session_coroutine[c]
    IN /\ Running(s, c) /\ "fail" \in Uses[s]
       /\ Set(s, Raise([v EXCEPT !.session_coroutine[c] = NULL,
                                 !.session_response = @ \ {c},
                                 !.wakeup_session = @ \ {c}]))
       /\ box' = IF r = NULL THEN box
                 ELSE IF r.session = 0 THEN box
                 ELSE Post(box, r.src, Msg("err", s, r.session))
       /\ UNCHANGED <<alive, timers, nops, killed, astray>>

ExitForgetsClosures(s, c) ==
    LET v == lua[s]
        served == {v.session_coroutine[d] : d \in {d \in Co : v.session_coroutine[d] # NULL}}
    IN /\ Running(s, c) /\ Op(s, "exit")
       /\ \E p \in Walks({r \in served : r.session # 0}) :
             box' = PostErrors(box, s, p)
       /\ Set(s, [v EXCEPT !.ph = "exit", !.fork_queue = {}, !.unresponse = {},
                           !.watching_service =
                               [a \in Svc |-> Released(v, Cardinality(From(v.unresponse, a)), a)]])
       /\ UNCHANGED <<alive, timers, killed, astray>>

(* skynet.exit, first part: the callers are told, those a coroutine serves and
   those whose answer a closure holds.                                     *)
ExitReport(s, c) ==
    LET v == lua[s]
        served == {v.session_coroutine[d] : d \in {d \in Co : v.session_coroutine[d] # NULL}}
    IN /\ Running(s, c) /\ Op(s, "exit")
       /\ \E p \in Walks({r \in served : r.session # 0}),
             u \in Walks({r \in v.unresponse : r.src \notin v.dead_service}) :
             box' = PostErrors(PostErrors(box, s, p), s, u)
       /\ Set(s, [v EXCEPT !.ph = "exit", !.fork_queue = {}, !.unresponse = {},
                           !.watching_service =
                               [a \in Svc |-> Released(v, Cardinality(From(v.unresponse, a)), a)]])
       /\ UNCHANGED <<alive, timers, killed, astray>>

(* Second part: the services it is calling are told that it is down, the
   handle is retired and the coroutine yields "QUIT", which skips the two
   dispatches of its suspend but not those of the suspends around it.      *)
ExitRetire(s) ==
    LET v == lua[s]
        called == {v.watching_session[q] : q \in Session} \ {NULL}
    IN /\ v.ph = "exit"
       /\ box' = [a \in Svc |->
             IF a \in called /\ alive[a] THEN Append(box[a], Msg("err", s, 0)) ELSE box[a]]
       /\ alive' = [alive EXCEPT ![s] = FALSE]
       /\ Set(s, IF v.errs > 0 THEN ToError([v EXCEPT !.errs = @ - 1]) ELSE ToFork(v))
       /\ UNCHANGED <<timers, nops, killed, astray>>

-----------------------------------------------------------------------------
(* Around the service *)

(* skynet_timer.c: the response of a timeout, refused once the handle is gone. *)
TimerExpire(s, q) ==
    /\ q \in timers[s]
    /\ timers' = [timers EXCEPT ![s] = @ \ {q}]
    /\ box' = Post(box, s, Msg("resp", s, q))
    /\ UNCHANGED <<alive, lua, nops, killed, astray>>

DropSilently(s) ==
    /\ ~ alive[s] /\ lua[s].ph = "idle" /\ lua[s].left = 0 /\ box[s] # <<>>
    /\ box' = [box EXCEPT ![s] = Tail(@)]
    /\ UNCHANGED <<alive, timers, lua, nops, killed, astray>>

(* drop_message, once no worker is in the service: the source is told that the
   handle is down, without the session of the message.                     *)
Drop(s) ==
    /\ ~ alive[s] /\ lua[s].ph = "idle" /\ lua[s].left = 0 /\ box[s] # <<>>
    /\ box' = Post([box EXCEPT ![s] = Tail(@)], Head(box[s]).src, Msg("err", s, 0))
    /\ UNCHANGED <<alive, timers, lua, nops, killed, astray>>

(* The steps of the scheduler itself, and a user's step of coroutine c. *)
Scheduler(s) ==
    Take(s) \/ dispatch_wakeup(s) \/ dispatch_error_queue(s) \/ ForkNext(s) \/ ExitRetire(s)

UserStep(s, c) ==
    \/ Dispatch(s, c)
    \/ \E d \in Peer[s], type \in {"req", "odd"} : Call(s, c, d, type) \/ Send(s, c, d, type)
    \/ \E d \in Peer[s] : Kill(s, c, d)
    \/ \E type \in {"resp", "err"} :
            Ret(s, c, type) \/ \E r \in lua[s].unresponse : Answer(s, c, r, type)
    \/ Response(s, c)
    \/ \E r \in lua[s].closures : TestResponse(s, c, r)
    \/ Sleep(s, c) \/ Wait(s, c) \/ Timeout(s, c) \/ Fork(s, c)
    \/ \E d \in Co : Wakeup(s, c, d)
    \/ Finish(s, c) \/ Fail(s, c) \/ ExitReport(s, c)

(* A worker in the service, or the one that drops its queue. *)
Visit(s) == Scheduler(s) \/ Drop(s) \/ \E c \in Co : UserStep(s, c)

Expiry(s) == \E q \in Session : TimerExpire(s, q)

Next == \E s \in Svc : Visit(s) \/ Expiry(s)

(* Workers visit every service that has messages, user code that runs comes to
   an end (it has finitely many operations), and time passes.              *)
Spec == Init /\ [][Next]_vars /\ \A s \in Svc : WF_vars(Visit(s)) /\ WF_vars(Expiry(s))

-----------------------------------------------------------------------------
(* Properties *)

InCall(s, q) == lua[s].watching_session[q] # NULL

Callee(s, q) == lua[s].watching_session[q]

(* What skynet.lua does not promise: the caller is going, the callee was killed
   (its coroutines vanish without a word), the callee took the request in the
   rest of the visit in which it had exited, and parked, or it took it before
   it had a dispatch function (unknown_request answers nothing).           *)
Excused(s, q) ==
    \/ ~ alive[s] \/ lua[s].ph = "exit"
    \/ Callee(s, q) \in killed
    \/ [src |-> s, session |-> q] \in astray[Callee(s, q)]

HeldByClosure(s, q) ==
    /\ alive[Callee(s, q)]
    /\ [src |-> s, session |-> q] \in lua[Callee(s, q)].unresponse

(* Something that will resume the caller of session q is still on its way: the
   request, the coroutine that serves it, the closure that owes the answer,
   the answer, an error, or an error that is queued in the caller.         *)
OnItsWay(s, q) ==
    LET d == Callee(s, q)
        r == [src |-> s, session |-> q]
    IN \/ \E m \in ToSet(box[d]) : m.type \in {"req", "odd"} /\ m.src = s /\ m.session = q
       \/ alive[d] /\ \E c \in Co : Owes(lua[d], c) /\ lua[d].session_coroutine[c] = r
       \/ HeldByClosure(s, q)
       \/ \E m \in ToSet(box[s]) :
             \/ m.type \in {"resp", "err"} /\ m.session = q
             \/ m.type = "err" /\ m.session = 0 /\ m.src = d /\ d \notin ByName
       \/ q \in ToSet(lua[s].error_queue)

(* skynet.call never waits for nothing: in every interleaving of calls, answers,
   failures, exits and dropped queues, a parked caller has an answer or an
   error on its way to it.                                                 *)
NoLostCall ==
    \A s \in Svc : \A q \in Session :
        InCall(s, q) /\ ~ Excused(s, q) => OnItsWay(s, q)

(* A coroutine waits for one thing at a time: it is parked under one session,
   the one its call or its sleep remembers, and never while it runs.       *)
ParkedOnce ==
    /\ TypeOK
    /\ \A s \in Svc :
        LET v == lua[s] IN
        /\ \A q, p \in Session :
               v.session_id_coroutine[q] = v.session_id_coroutine[p] /\ q # p
               => v.session_id_coroutine[q] \in {NULL, BREAK}
        /\ \A q \in Session : InCall(s, q) => v.session_id_coroutine[q] \in Co
        /\ \A c \in Co :
               /\ v.sleep_session[c] # 0 => v.session_id_coroutine[v.sleep_session[c]] = c
               /\ v.ph = "run" /\ v.run = c => c \notin ToSet(v.session_id_coroutine)

(* The two dispatches at the end of suspend leave nothing behind: a service
   that waits for a message has delivered every wakeup and every error it
   has recorded (unless an uncaught error cut a dispatch short).           *)
EpilogueDrains ==
    \A s \in Svc :
        alive[s] /\ lua[s].ph = "idle" /\ ~ lua[s].faulted
        => lua[s].wakeup_session = {} /\ lua[s].error_queue = <<>>

(* watching_service counts the requests being served and the closures that have
   not answered, source by source: skynet.response adds to a count that is
   there, and it goes back to zero.  For a source that is down the count may be
   too low, since each TEST of a closure lowers it, but never too high.     *)
WatchExact ==
    \A s, a \in Svc :
        LET v == lua[s]
            n == Cardinality({c \in Co : v.session_coroutine[c] # NULL
                                          /\ v.session_coroutine[c].src = a})
                 + Cardinality(From(v.unresponse, a))
        IN ~ v.faulted =>
            /\ v.watching_service[a] <= n
            /\ a \notin v.dead_service => v.watching_service[a] = n

(* What may keep a call waiting for ever, here or further down a chain of calls:
   a closure that is never called, a killed service, a request taken by a
   service that had exited or had no dispatch function yet, and errors or
   wakeups left behind by a dispatch that an uncaught error cut short.     *)
Disturbed ==
    \/ killed # {}
    \/ \E t \in Svc :
          \/ astray[t] # {}
          \/ alive[t] /\ lua[t].unresponse # {}
          \/ lua[t].ph = "idle" /\ (lua[t].error_queue # <<>> \/ lua[t].wakeup_session # {})

(* A call comes back, whatever the services do in the meantime: call each other,
   fail, exit with requests queued or being served.                        *)
CallReturns ==
    \A s \in Svc : \A q \in Session \ {1} :
        []<>(~ InCall(s, q) \/ ~ alive[s] \/ Disturbed)
=============================================================================
