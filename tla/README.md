# Skynet in TLA+

The repository collects annotated copies of several C and C++ programs. This
project is about the one whose own logic is concurrent and small enough to be
modelled whole: **Skynet 1.0.0**, an actor framework (`src/Skynet-1.0.0`). The
modules here describe its core, `skynet-src`: services with private message
queues, worker threads that run them, the handle table, the timer wheel, the
lock they share, the monitor, the socket server and the way a node shuts down;
and on top of it the scheduler of Lua services, `lualib/skynet.lua`.

Paths below are relative to `src/Skynet-1.0.0/skynet-src` unless they start
with `src/`.

## Inventory

| Part | State | Operations | What makes it correct |
|---|---|---|---|
| Service contexts, `skynet_server.c` | `ref`, `init`, `handle`, `queue` of a context; `G_NODE.total`, `monitor_exit` | launch, send, kill, exit, abort, monitor, dispatch, reserve | one thread at a time runs a service; counts are exact; what is retired is freed once, and only when nobody uses it |
| Message queues, `skynet_mq.c` | ring (`cap`, `head`, `tail`), `in_global`, `release`, overload threshold; the global queue | create, push, pop, mark_release, release (drop) | first in, first out; a queue is in one place and never forgotten; messages of a dead service are answered |
| Handle table, `skynet_handle.c` | `slot[]`, `slot_size`, `handle_index`, sorted `name[]` | register, grab, retire, retireall, namehandle, findname | a live handle finds its context; handles are not reused while they are alive; retireall empties the table |
| Timer, `skynet_timer.c` | `time`, `near[]`, `t[4][]` | timeout, update (shift, execute) | every timer fires once, at its tick, in the order it was set |
| Threads, `skynet_start.c` | `sleep`, `quit`, mutex and condition variable | worker, timer, socket and monitor loops | work is not left while workers sleep; all threads end when the last service is gone |
| Lock, `rwlock.h` | `write`, `read` | rlock, runlock, wlock, wunlock | a writer is alone; a writer gets in |
| Harbor stub, `skynet_harbor.c` | `REMOTE` | start, send, exit | the reserved context stays valid |
| Endless-loop monitor, `skynet_monitor.c` | `version`, `check_version`, `destination`, `ctx->endless` | trigger, check, cmd_endless | a callback that never returns is reported |
| Socket server, `socket_server.c` | slots (`type`, `id`, `high`, `low`), request pipe, event batch | connect, listen, bind, udp, start, send, close, shutdown, poll | a stream is whole and in order; a buffer has one owner; a close is orderly and final |
| Scheduler of a service, `lualib/skynet.lua` | session, coroutine and watching tables, wakeup, error and fork queues | dispatch, call, send, ret, response, sleep, wait, wakeup, timeout, fork, kill, exit | a call comes back with an answer or an error; a coroutine waits for one thing |
| C and Lua services, `service-src`, `service` | per service | gate, harbor, launcher, master and slave | not modelled |

How the parts interact. A worker takes a queue out of the global queue, grabs
the context through the handle table, runs the callback for some messages and
puts the queue back, or keeps it if no other waits. A callback sends (grab,
push, release), launches (register, create the queue, init, release, enter the
queue) and kills (notify the monitor, take out of the table, release). The
release that reaches zero marks the queue; a later worker finds the context
gone, answers the messages that are left with errors and frees the queue. The
timer and socket threads push messages and wake sleeping workers. When the
number of contexts reaches zero the timer thread tells everybody to stop. A Lua
service sees of all this a mailbox: what it sends is queued in order or refused,
and if the destination dies first it gets an error with session 0. Its scheduler
turns messages into resumed coroutines. A service that wants a socket reserves a
slot on its worker thread and writes a command into the pipe; everything else
happens on the socket thread.

What is hard: every one of those steps is its own critical section, and any
thread may come in between. `PROJECT.json` lists the hazards line by line.

The other programs of the repository (Boost, Lua, Redis, SGI STL, Memcached,
Libevent) are copies of independent projects and are not modelled.

## Modules

| Module | Models | Instance |
|---|---|---|
| `SkynetServer` | contexts, reference counts, dispatch, commands, and the ownership protocol of queues | `MCSkynetServer` |
| `SkynetMQ` | the ring buffer of a queue and its overload threshold | `MCSkynetMQ` |
| `FifoQueue` | abstract: a first-in first-out queue | (refined by `SkynetMQ`) |
| `Mailbox` | abstract: what the node promises to services that write to each other | (refined by `SkynetMailbox`) |
| `SkynetMailbox` | `SkynetServer` with the mapping under which it implements `Mailbox` | `MCSkynetServer` |
| `HandleStorage` | the handle table and the local names | `MCHandleStorage` |
| `SkynetTimer` | the timer wheel | `MCSkynetTimer` |
| `WorkerPool` | threads, sleeping, waking, shutdown, the endless-loop monitor | `MCWorkerPool` |
| `RWLock` | the reader-writer spin lock | `MCRWLock` |
| `LuaScheduler` | `lualib/skynet.lua` in services with mailboxes | `MCLuaScheduler` |
| `SocketServer` | the socket server and the workers that use it | `MCSocketServer` |
| `SkynetServer_proofs` | proofs about `SkynetServer`: types, control and reference counts; the invariant and the theorems | |
| `SkynetMailbox_proofs` | the count of contexts, the order of messages, and that the node implements `Mailbox` | |
| `SkynetMQ_proofs`, `RWLock_proofs`, `WorkerPool_proofs`, `HandleStorage_proofs`, `SocketServer_proofs`, `LuaScheduler_proofs` | theorems and proofs about those modules | |

Definitions keep the names of the source where they can (`in_global`,
`handle_index`, `TIME_NEAR_SHIFT`); `PROJECT.json` maps every definition that
models code to its lines. Operators named after a slip (`MqPushNoEnter`,
`CascadeNoWrap`, ...) are deliberately wrong variants of the definition that
follows them: with the variant in its place the property named in
`PROJECT.json` fails, which shows that the property depends on that code.

### SkynetServer

The state is that of all contexts (`mem`, `ref`, `init`), the table (`slot`),
the queues (`qmem`, `queue`, `in_global`, `release`, `gmq`), the node (`total`,
`monitor`, `remote`) and of each thread. A thread has a place `pc` in
`skynet_context_message_dispatch` or in a command, and while it is inside
`skynet_context_push`, `skynet_context_release` or `delete_context` a second one,
`sop`. A step is one critical section, one atomic operation on a reference
count, or one choice of a callback.

* A context, its handle and its queue have one name: each context is allocated
  once. Reuse of handle numbers is the subject of `HandleStorage`.
* Messages carry source, number and kind; payloads, sessions and the logger's
  messages (`skynet_error`) are left out.
* `Launch` is everything from `skynet_handle_register` to `context_inc`, because
  nobody else knows the handle before; then come `init` (sends, and for a
  harbor service `skynet_harbor_start`), the release, the write of `ctx->init`
  through the uncounted pointer (`SetInit`), and the entry into the global queue.
* A worker that finds the global queue empty is at `fetch` and simply waits;
  sleeping and waking are in `WorkerPool`.

### Mailbox, SkynetMailbox

`Mailbox` has no threads' places, no reference counts and no ownership of queues: a service is
new, open, shut (retired) or closed, a carrier brings one message at a time, a
service closes only when nothing is on its way to it, and what is left in the
box then is refused with an error to the writer. `SkynetMailbox` maps the handle
table and `release` to the life of a service, the queue to the box and a thread
inside `skynet_context_push` to a carrier. `LuaScheduler` relies on this
promise: there a message is queued, refused, or answered by an error in one step
each.

### SkynetMQ, FifoQueue

`Contents` maps the ring to the sequence of messages from `head` to `tail`.
`FifoQueue` is what callers rely on: push appends, pop returns the first.

### HandleStorage

All operations are single critical sections except two. `skynet_context_new`
stores the handle after `skynet_handle_register` returned (`Register`, then
`Assign`). `skynet_handle_retireall` reads a handle under one lock and retires
it under another (`RetireAllRead`, `RetireAllRetire`). `SizeAssumption` says that the
table and the range of handles are powers of two of at most 24 bits, as in
`skynet_handle.h`: the code hashes with a mask.

### SkynetTimer

The wheel with its shifts as constants, so that small widths exercise all five
arrays and the wrap of the time. `wait` is a ghost: the ticks a timer still has
to wait, counted down by the clock and not by the wheel; the properties compare
the two. The timer thread releases the lock while it fires (`firing`), and any
thread may add timers then.

### WorkerPool

The mutex and the condition variable are modelled by their POSIX contract,
spurious wakeups included. The global queue is a sequence of queues, each named by
its service. A visit handles one message (the weight -1). Then another queue is taken
and the old one goes back to the end, or none waits and the worker keeps the one it
has and does not sleep (`skynet_server.c:319-330`). What a queue holds, and whether its
service is still there, is a choice of each visit, since `SkynetServer` has the details: the queue may
be empty, and leaves the global queue until the next push; the service may be gone,
and its queue is dropped, or put back while somebody has still to release the context.
An idle queue is put back by `skynet_mq_mark_release` when its context is deleted.
The errors `drop_message` sends are pushes like any other.

Of `G_NODE.total` only zero matters. It becomes zero when a worker releases a context,
and not while another worker holds one that is counted. The harbor is `Reserved` and
not counted.

The monitor. `skynet_monitor_trigger` writes `destination` and then adds one to
`version`, before and after a callback; `skynet_monitor_check` reads `version` and
then `destination`. Each of these is a step. `Watched` are the workers whose
monitor is followed: monitors share nothing with each other. The monitor may
report a callback that has just begun, because it reads the destination after the
version: no property says otherwise, and a service only learns of it when it asks
(`cmd_endless`). What it may not do is stay silent about one that never returns.

### RWLock

One step per atomic instruction or read of a word, sequentially consistent. The
`__sync` builtins used for the increments are full barriers;
`__sync_lock_test_and_set` is only an acquire barrier, so on a weakly ordered
processor the write of `lock->write` is ordered before the read of `lock->read`
only by what the build makes of it. The model does not cover that.

### LuaScheduler

`lua[s]` has the upvalues of `skynet.lua` under their names; tables that are
always written together are one (`session_coroutine` is `session_coroutine_id`
and `session_coroutine_address`). A service is single threaded, so a step is what
it does up to the point where another service can see it. A service outside `Early`
has no dispatch function until it calls `skynet.dispatch`; a request it takes before
makes `unknown_request` raise an error, and the source is told nothing. `closures` are
the closures of `skynet.response` user code may keep: each can be asked "TEST" any number
of times, and once the source is down every time lowers `watching_service`
(`skynet.lua:188-198`). `skynet.response` for a source that is no longer counted
raises an error and leaves its coroutine behind. The nesting of `suspend`
(a coroutine woken by `dispatch_wakeup` runs inside the `suspend` of the one that
woke it) is the number `errs` of outer suspends that have still to call
`dispatch_error_queue`. Which of several wakeups `next` returns, and in which order
`pairs` goes through a table, is a choice. A worker fixes the number of messages of
its visit when it begins, so a service can get messages after it has exited, as it
can in `skynet_context_message_dispatch`.

User code is any sequence of the operations `Uses` gives a service, with two
obligations the library leaves to it: each request with a session is answered once
(by `skynet.ret`, by a closure of `skynet.response` or by failing), and not after a
`skynet.wait` that nobody ends. `Excused` and `Disturbed` list what
the library itself does not promise:

* `skynet.kill` takes the coroutines of the other service away without a word, and
  with them the requests they were serving;
* a request taken in the rest of the visit in which the service has exited may park
  for ever, and one taken before there is a dispatch function is never answered
  (both are in `astray`);
* an uncaught error leaves `raw_dispatch_message` from inside nested `suspend`
  calls; wakeups and errors recorded by then wait for the next message (`faulted`).

### SocketServer

A slot is reserved by a worker in two writes (`type`, then `id`), as in
`reserve_id`; commands go through a pipe that keeps their order; the socket thread
alternates commands, events and `clear_closed_event` as `socket_server_poll` does: the
first event of a batch is handled right after `sp_wait`, and commands are looked at
before each later one.
A package is `Size` bytes, so that a write can stop in the middle of one. What the
kernel does (connects now or later, accepts, reads, writes a part, fails) is a
choice; events come for descriptors in the poll, writes only for armed ones. The
histories (`wire`, `freed`, `told`, ...) record what the peer and the services saw.
A failed `assert` ends the process (`crashed`).

`WriteArmed` excepts bound descriptors (`B`): the code
never arms them for writing, so what is left after a partial write in
`close_socket` stays in the buffer, and the socket half closed.

## Runs

All bounds are named constants of the modules; every `.cfg` gives them.

| Run | Checks | Bounds |
|---|---|---|
| `server_life` | `ServerInv RefExact NotStranded InitBeforeCallback ExclusiveCallback NoUseAfterFree NoPushToDropped TotalExact SendOrder NoResurrection ImplementsMailbox` | 2 contexts, one a harbor, abort and monitor, 2 workers, 2 messages |
| `server_live` | `Reclaimed Drained` | 2 contexts, 2 workers and an external thread, 1 message |
| `mq_fifo` | `ThresholdBound ImplementsFifo` | from 2 to 8 entries, 2 messages |
| `handle_table` | `Findable UniqueHandle NamesExact RetireAllComplete` | 5 contexts, 1 launcher, 4 handle numbers, table from 2 slots, 2 names |
| `handle_rehash` | `RehashAssertion` (violated) | 4 contexts, 2 launchers, 8 handle numbers |
| `timer_wheel` | `WellPlaced OnTime SetOrder EveryTimerFires` | time of 9 bits (1 + 4 x 2), 2 timers, timeouts up to 10 |
| `pool` | `SleepExact WorkTaken AllExit EndlessReported` | 2 workers, one possibly caught for ever, a service and the harbor, versions modulo 2 |
| `rwlock` | `Exclusion LockInv WriterEnters` | 4 threads |
| `lua_call` | `NoLostCall ParkedOnce EpilogueDrains WatchExact CallReturns` | 2 services, one without a dispatch function at first, 2 counted operations each, 3 coroutines, visits of up to 2 messages |
| `lua_byname` | `NoLostCall` (violated) | the same, one service called by name |
| `socket_life` | `WireWhole WriteArmed BufferOnce OrderlyClose ClosedIsFinal` | 2 slots, 3 ids, 2 packages of 2 bytes, 3 other commands |
| `socket_abort` | `NoAbort` (violated) | 1 slot, 2 ids |

Types are checked as a conjunct of an invariant of each run (`ServerInv`, `ThresholdBound`,
`Findable`, `WellPlaced`, `SleepExact`, `LockInv`, `ParkedOnce`, `WireWhole`).

What the runs show of the whole: `server_life` is about the races between
dispatch, send, launch, kill and abort, and ends in the refinement of `Mailbox`;
`server_live` says that the work is done in the end. Four runs check the parts
`SkynetServer` takes for granted or stands beside (a queue is a sequence, a handle
finds its context, the table lock excludes, the timer), `pool` the threads, and
`lua_call` and `socket_life` the two users of a node: its services and the network.

Why these bounds are enough to be interesting. The races of the queue protocol
are between the thread that has the queue, one that pushes and one that kills;
two workers, a launched service that may fail or be reserved, and messages that
outlive their destination produce all of them (the proofs hold for any number).
The ring starts at two entries so that it wraps and doubles twice at every
offset. The handle numbers start over within a run. The timers reach every level
and the wrap to zero. A Lua service with three coroutines can call, be called and
sleep at once; two operations on each side let an exit, a failure or a kill meet a
call at every stage. Two packages of two bytes are one half written and one that
must wait, in both lists; three ids in two slots make a slot change hands; three commands open,
start or close it. Deadlock checking is off where the system may stop:
no message under way, every service killed, the node down, or a bound reached.

Three runs expect a violation; each states what a comment, an assertion or a
document of the repository says, and TLC shows a behaviour of the code that does otherwise.

* `handle_rehash`: with two launchers the assertion of `skynet_handle.c:60` can
  fail, because `ctx->handle` is still 0 while the table is doubled
  (`skynet_server.c:143-144`). The properties of `handle_table` are checked with
  one launcher for this reason.
* `lua_byname`: the error of a dropped queue carries the handle of the dead service
  and session 0; `skynet.lua` looks for calls to it by the address the caller
  wrote. A call by name is not found and waits for ever.
* `socket_abort`: a worker reserves a slot before it writes its id; a close for the
  former id that is still in the pipe then passes the test of the id, and the
  assertion of `socket_server.c:340`, that the slot is not reserved, fails.

Remarks without a run. `skynet_handle.c:251` says "reserve 0 for system"; in a node
with harbor 0, when the 24-bit numbers start over, a service gets handle 0.
`skynet_mq.c:15` says of `in_global` "0 means mq is not in global mq", but
`skynet_mq_mark_release` enters an idle queue and leaves the flag 0. It is harmless: `FlagExact`, a part of `ServerInv`, is the reading under which
the flag is right (a queue is owned exactly when it is flagged or marked).
`HISTORY.md:124` says that `skynet.wakeup` can wake a coroutine in `skynet.call`; in
`skynet.lua` it wakes only sleepers. Asking a response closure "TEST" twice after its
source died lowers `watching_service` twice. That is modelled: `WatchExact` lets the
count be too low only for a source that was reported down, and a `skynet.response` for
such a source may then raise an error.

## Fairness

* `SkynetServer`: threads inside the node's own code keep running (weak fairness
  of each thread's steps). A callback may send, launch and kill as long as it
  likes, but returns in the end: strong fairness of `Return`, since the actions of
  a callback leave and re-enter the place where it may return. Nothing is
  assumed of senders. Workers are sure to fetch a queue only while `G_NODE.total` is
  not 0 (`MustGoOn`): at 0 the timer thread sets `m->quit`, and a worker leaves
  `while(!m->quit)` between two dispatches (`skynet_start.c:134-161`). So `Reclaimed`
  and `Drained` except the queues that are left when the last service is gone.
* `SkynetTimer`: the timer thread keeps calling `skynet_updatetime`, and the
  monotonic clock advances.
* `WorkerPool`: every worker and the timer thread keep running, and a mutex that is
  free again and again is got in the end (strong fairness of each thread's steps, as
  pthreads schedulers give in practice); callbacks return except on the workers of
  `Endless`; the monitor thread keeps running, and so does the socket thread outside
  `poll`, where it may stay until it is told to exit (strong fairness of `SocketExit`:
  commands are looked at before events). Nothing is assumed of a service's
  messages: queues may never run empty.
* `LuaScheduler`: workers visit a service that has messages (`Drained` of
  `SkynetServer`, while the node has services), user code has finitely many operations and comes to its end, and
  timers expire (`EveryTimerFires`): weak fairness of each service's visit and of its
  timers.
* `SocketServer`: none. Whether data goes out depends on the peer; `WriteArmed` is the
  part that is up to the code.
* `RWLock`: a thread inside or waiting for the lock keeps running. Only weak
  fairness, so no thread is promised the write word; `WriterEnters` begins where a
  writer has it.

## Proofs

TLAPS checks every proof; nothing is assumed but the named assumptions on the
constants. TLC evaluates those in every run.

**The node (`SkynetServer_proofs`).** Assumptions: `SetsAssumption` (worker and
external threads are different and finite in number, finitely many services are
booted, `NULL` is no context) and `NumbersAssumption` (weights are those of
`start()`: -1 to 3). Contexts, messages and threads are otherwise arbitrary. The
main theorem is `ServerInvariant`, `Spec => []ServerInv`; `ServerInv` is the
conjunction of

* `TypeOK` and `Control`: a thread's place says which of its variables are in use
  (a worker at `pop` has a queue and its context, and they are the same one);
* `RefExact`: `ctx->ref` is the number of holders. It is needed because every
  argument that a queue may still be written to starts from a holder;
* `Lifetime`: a counted context is allocated and its queue is neither marked nor
  freed; one thread at most is in `delete_context` for it; only a marked queue is
  dropped;
* `OneOwner` and `FlagExact`: a queue is in one place, and it is in some place
  exactly when it is flagged or marked. `OneOwner` alone is not inductive: a push
  enters a queue when `in_global` is 0, and that nobody has the queue then is what
  `FlagExact` says; `FlagExact` in turn is kept by `skynet_mq_pop` only because a
  queue whose context is held is not marked (`RefExact`, `Lifetime`);
* `Initialised`: what is in the table is initialised or in the hands of its
  launcher, who also has its queue, so that no worker can have it.

One lemma per conjunct shows that every step preserves it (`TypeStep`,
`ControlStep`, `RefStep`, `QueueStep` and `InitialisedStep`), with one case per action. From the invariant follow `QueueHasOneOwner`, `NothingStranded`,
`ReferencesExact`, `CountedUseIsSafe`, `NoLateMessage`, `InitFirst`,
`OneThreadPerService` and, step by step, `DeadForever` (`NoResurrection`).
`CountedUseIsSafe` is about uses that are counted: the launcher's write of `ctx->init`
(`skynet_server.c:155`, `SetInit`) comes after its release and may hit a context that a
kill has freed.

**The node from outside (`SkynetMailbox_proofs`).** Three results rest on `ServerInv`.
`TotalIsExact`: `G_NODE.total` is the number of live contexts other than the harbor.
`MessagesInOrder`: `SendOrder`, because a service sends from the one thread that runs it
(`ExclusiveCallback`) and what that thread is pushing is younger than what is queued. `NodeIsMailbox`: every step of `Spec` is a step
of `Mailbox` or a stutter under the mapping of `SkynetMailbox`, one lemma per action;
`Lifetime` gives the guard of `Close` (nothing is on its way to a service that
closes) and `RefExact` that of `Arrive`. `NullAssumption` says that `NULL` is no pair
of a context and a message.

**The ring buffer (`SkynetMQ_proofs`).** `RingInvariant`: the indices stay inside the
array, for every initial size. `RingIsFifo`: the ring implements `FifoQueue` under
the mapping `Contents`; push appends, pop removes the first, and doubling changes
nothing, at every position of head and tail.

**The lock (`RWLock_proofs`).** `LockInvariant`: the read word counts the announced
readers and the write word has one owner, for any finite set of threads.
`MutualExclusion` follows: a reader inside was announced before the writer looked,
or turned back.

**The workers (`WorkerPool_proofs`).** `SleepIsExact`: `SleepExact` (the count of
sleepers, the holder of the mutex, nobody waiting after `quit`) is inductive as it
stands, for any number of workers.

**The handle table (`HandleStorage_proofs`).** The invariant `HandleInv` says that the
context in slot `i` has a handle that hashes to `i`, that a context waiting for its
handle is the one its launcher registered, and that handles below `handle_index` are
the only ones used before the numbers start over. That a doubling keeps the first is
arithmetic (`ModHalf`: a handle stays, or moves up by the old size), and it needs the
handles to be there. So the results have a condition, `Calm`: the table is not doubled
while a launcher has registered a context and not yet stored its handle. Under it
`HandlesFindable`, `HandlesUnique`, `RehashIsSafe` and `RetireAllLeavesNothing` hold for
all sizes and any number of contexts and launchers; the run `handle_rehash` shows what
happens without it. `OneLauncherIsCalm` and its corollary `OneLauncher` discharge the
condition for one launching thread.

**The socket server (`SocketServer_proofs`).** Assumption: `SocketAssumption` (at least one
slot, packages of at least one byte, `NULL` is neither an id nor a kind). `SockInv` is

* `ArmOK` for each slot: `WriteArmed`, and that nothing is queued before a socket has
  been started;
* `IdsFresh`: no service knows an id that an opener still holds, or one above
  `alloc_id`;
* `Reserved`: a slot is reserved by one opener in `reserve_id` and then by the one command it
  writes, and stays reserved until that command runs;
* `LiveOpen` and `OpensFirst`: the id of a slot with a descriptor has not been reported
  closed, and an opening command is the first one about its id. `ClosedIsFinal` needs
  them: a close can only be asked for, or happen to a slot, after the opening. `OpensFirst`
  is not inductive without `Reserved`: if the slot were not reserved when
  `s->id` is stored, an open socket would take the id of a command still in the pipe;
* `BufInv`: a package is in one command, in the lists of one slot, or freed once.

All handlers have one shape, `Handled`: a slot changes, a command leaves the pipe or
none does, what leaves the lists is freed, an id may be reported closed.
`HandledStep` shows that the shape preserves the invariant, and one lemma per handler that it
has the shape; the worker threads and `report_accept`, which give out ids, have proofs of
their own. `SendBuffer` is the lemma about `send_buffer` in all its outcomes. From the
invariant follow `QueuesAreArmed`, `BuffersFreedOnce`, `ClosedIdsAreSilent` and
`ReservationKept` (one of the assertions of `new_fd`; that others fail is what
`socket_abort` shows).

`StreamsAreWhole` and `ClosesAreOrderly` (`WireWhole`, `OrderlyClose`) need a second
invariant on top of `SockInv`, about where the bytes of each package are. `WireInv` is

* `Streams`: for each id, what was written followed by the high list of its slot is one
  stream (each package together, whole unless the id is broken, in order within its
  priority), and the low list comes after it. `WireWhole` alone is not inductive: the
  rest of a package that was begun has to be the head of the high list, which is why
  `send_buffer` raises an uncomplete package from the low list and `send_socket` puts the
  rest of a first write into the high list whatever the priority was;
* `LowsOK`: a low list holds whole low-priority packages between turns;
* `PipeNew` and `WireSent`: packages in the pipe are newer than those the socket has
  and in the order they were sent, so a package appended to a list keeps the order;
* `AllCarried`: a package that was accepted is on the wire or in the lists of its slot;
* the assertion of `send_buffer` on the head of the low list has not failed.

That a close is orderly follows because by `LiveOpen` an id reported closed has no slot
any more, so all it carried is on the wire; `AllBytes` turns "together and whole" into a
count of bytes.

**The scheduler (`LuaScheduler_proofs`).** Assumption: `LuaAssumption` (at least one
coroutine and one message in a visit; `NULL` is neither a service, a coroutine nor a
request, `BREAK` no coroutine). The sets of services and of operations, the number of
coroutines and the bounds are arbitrary. The invariant `LuaInv` is the types and

* `Own(s)` for each service, about its tables alone: `Waiting` (sessions are given out in
  order; a coroutine is parked under one session; a session is one of a call or one of a
  sleep; what is in `error_queue` is neither a sleep nor a `BREAK`), `Serves` (a request
  has one coroutine, or one closure after it was handed over, and `watching_service`
  counts them, up to two inequalities, `Watched`: it is too low only for a source that
  was reported down, because a "TEST" lowers it again, and too high only after an
  uncaught error, which leaves the request of its coroutine counted), the running coroutine is in no table, and `Draining` (what each place of
  the dispatch loop has left to do). `ParkedOnce` alone is not inductive: a woken sleeper
  puts `BREAK` into its session, and that it is not the session of a call somebody is
  parked in is what `Waiting` adds;
* `BoxInv` across services: a request of a call exists once, in the queue of its callee,
  in a coroutine or in a closure; its session was given out by its source; and a service
  is reported down, or known to be dead, only when its handle is gone. Without it
  `Serves` is not inductive (a second copy of a request would be served twice), and an
  answer withheld because the source is dead could be withheld from a live caller.

From `LuaInvariant` follow `CoroutinesParkOnce`, `SuspendDrains` and `WatchingIsExact`.
`CallByHandleNotLost` needs a second invariant, `CallInv`: a parked call to a handle,
unless excused (its callee was killed, or took the request when it had exited or before it
had a dispatch function), has a message or a queued error coming, or its callee is registered, has
not reported its exit and holds the request. It is stronger than `NoLostCall` in the last
part, which is where the order inside `skynet.exit` matters: the requests are reported
first, the handle goes after. One lemma per action (`CallerStep`, `RetStep`, `DropStep`, ...) shows that
a step loses no call: `HandsOver` (what a service lets go of it has answered) and
`ComingOn` (what was coming still comes, or was taken by the one it was for). Calls by
name are outside `CallInv`, because an error of session 0 does not find them, which is the
finding of `lua_byname`; `NoCallLost` is `NoLostCall` when there are none. Queues only
grow at the end in a step (`Extends`), up to the message taken, and the error messages of
`skynet.exit` are characterised by `PostErrorsExtends`.

Only model-checked, and why:

* all liveness (`Reclaimed`, `Drained`, `WorkTaken`, `AllExit`, `EndlessReported`,
  `WriterEnters`, `EveryTimerFires`, `CallReturns`): beyond the prover;
* `ThresholdBound`: the threshold doubles by a recursive function, whose values need an
  induction over data;
* `NamesExact`: the binary search of `skynet_handle_findname` is a recursion;
* `WellPlaced`, `OnTime` and `SetOrder` of `SkynetTimer`: arithmetic modulo powers of two
  with symbolic exponents, which the SMT backend does not decide.

## Not modelled

* Of `skynet_server.c`: commands that read or format (QUERY, GETENV, STARTTIME,
  MQLEN, LOGON), session numbers and their wrap at line 176 (an old session would have
  to stay pending while 2^31 others are taken), the logger's messages. A handle number
  reused while an old queue is still in the global queue is ruled out by giving each
  context a name of its own; the killed harbor, whose queue is never marked and
  circulates until the node ends, is excepted from `Reclaimed`.
* Of `skynet_start.c` and `skynet_harbor.c`: SIGHUP, daemon mode, and what runs after
  the threads were joined.
* Of `skynet.lua`: `skynet.term`, `redirect`, `info` and debug; `init_service` (its
  messages to the launcher); packing.
* Of `socket_server.c`: exit (X) and socket options (T), `socket_server_release`, the
  wrap of ids, the owner (`opaque`) of a socket, and `skynet_socket.c`, which copies a
  result into a message. Events of a batch for a slot that was closed and reserved
  again meanwhile are modelled.
* `service-src` (gate, harbor, logger, snlua) and `service/*.lua`: users of what is
  modelled here. The gate and the harbor handshake have protocols of their own and are
  the next candidates.
* Module loading, environment, log, malloc hook, bindings and utilities: input and
  output, or sequential code without a protocol.
* Lua, Redis, Memcached, Libevent, Boost and SGI STL: copies of independent projects.

## Plan

Done: the node, its parts, the monitor, the scheduler, the socket server, the mailbox
as the abstract specification between node and services; proofs about the node, the
mailbox, the ring, the lock, the workers, the handle table, the socket server and the
scheduler.

1. `Gate` and `Harbor` (`service-src`): the connection handshake and the queued messages
   of a slave that is not connected yet.
