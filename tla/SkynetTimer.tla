----------------------------- MODULE SkynetTimer -----------------------------
(***************************************************************************)
(* The timing wheel of skynet_timer.c: one array of lists for the timers   *)
(* of the current near block, four arrays for later and later ones, whose  *)
(* lists are redistributed when the time reaches their block.  The time is *)
(* an unsigned integer that wraps to 0 (32 bits in the code:               *)
(* TIME_NEAR_SHIFT + 4 * TIME_LEVEL_SHIFT).                                *)
(*                                                                         *)
(* Any thread may add a timer whenever the timer's spin lock is free, also *)
(* while the timer thread, in the middle of timer_update, has let go of    *)
(* the lock to push the expired timers' messages.                          *)
(***************************************************************************)
EXTENDS Integers, Sequences, FiniteSets

CONSTANTS
    TIME_NEAR_SHIFT,    \* 8 in the code
    TIME_LEVEL_SHIFT,   \* 6 in the code
    MaxTimers,          \* bound on the number of timers
    MaxTimeout          \* bound on a timeout; INT_MAX in the code

Pow(n) == 2 ^ n
Bits(i) == TIME_NEAR_SHIFT + i * TIME_LEVEL_SHIFT
Width == Pow(Bits(4))       \* the time is kept modulo this

ASSUME ShiftAssumption ==
    /\ TIME_NEAR_SHIFT \in Nat \ {0} /\ TIME_LEVEL_SHIFT \in Nat \ {0}
    /\ MaxTimers \in Nat
    /\ MaxTimeout \in 1 .. Width \div 2 - 1

VARIABLES
    time,       \* T->time
    wheel,      \* [List -> sequence of timer nodes]
    pc,         \* the timer thread: idle, or which timer_execute it is in
    firing,     \* the list dispatch_list walks, the lock released
    added,      \* timers added so far: they are numbered in this order
    wait,       \* ticks until a timer is due (-1: overdue), for each timer added
    fired       \* the timers whose message was pushed, in order

vars == <<time, wheel, pc, firing, added, wait, fired>>

(* A list of the wheel: level 4 stands for near[idx], level i for t[i][idx]. *)
Near == 4
List == {<<Near, k>> : k \in 0 .. Pow(TIME_NEAR_SHIFT) - 1}
        \cup {<<i, k>> : i \in 0 .. 3, k \in 0 .. Pow(TIME_LEVEL_SHIFT) - 1}

Node == [id : 1 .. MaxTimers, expire : 0 .. Width - 1]

(* x and y agree above their lowest b bits. *)
SameBlock(x, y, b) == x \div Pow(b) = y \div Pow(b)

Index(x, i) == (x \div Pow(Bits(i))) % Pow(TIME_LEVEL_SHIFT)

(* The level add_node stops at. *)
Level(expire, now) ==
    LET near == {i \in 0 .. 2 : SameBlock(expire, now, Bits(i + 1))}
    IN IF near = {} THEN 3 ELSE CHOOSE i \in near : \A j \in near : i <= j

(* Deliberately wrong variants (PlaceByDistance, CascadeNoWrap, ExecuteKeep,
   MovedLost): replacing the operator by its variant must break a property. *)
PlaceByDistance(expire, now) ==
    IF (expire - now) % Width < Pow(TIME_NEAR_SHIFT)
    THEN <<Near, expire % Pow(TIME_NEAR_SHIFT)>>
    ELSE <<Level(expire, now), Index(expire, Level(expire, now))>>

(* The list add_node links a node to. *)
Place(expire, now) ==
    IF SameBlock(expire, now, TIME_NEAR_SHIFT)
    THEN <<Near, expire % Pow(TIME_NEAR_SHIFT)>>
    ELSE <<Level(expire, now), Index(expire, Level(expire, now))>>

Current == <<Near, time % Pow(TIME_NEAR_SHIFT)>>

LockFree == pc = "idle" \/ firing # <<>>

(* timer_add; a timeout of 0 or less never gets here, skynet_timeout sends
   its message at once.                                                    *)
Add(d) ==
    /\ LockFree
    /\ added < MaxTimers
    /\ LET node == [id |-> added + 1, expire |-> (time + d) % Width]
           l == Place(node.expire, time)
       IN wheel' = [wheel EXCEPT ![l] = Append(@, node)]
    /\ added' = added + 1
    /\ wait' = Append(wait, d)
    /\ UNCHANGED <<time, pc, firing, fired>>

(* timer_update is called, once for every centisecond that has passed. *)
Update ==
    /\ pc = "idle"
    /\ pc' = "before"
    /\ UNCHANGED <<time, wheel, firing, added, wait, fired>>

ExecuteKeep ==
    /\ pc # "idle" /\ firing = <<>>
    /\ wheel[Current] # <<>>
    /\ firing' = wheel[Current]
    /\ UNCHANGED <<time, wheel, pc, added, wait, fired>>

(* timer_execute takes the list of the current time and releases the lock. *)
Execute ==
    /\ pc # "idle" /\ firing = <<>>
    /\ wheel[Current] # <<>>
    /\ firing' = wheel[Current]
    /\ wheel' = [wheel EXCEPT ![Current] = <<>>]
    /\ UNCHANGED <<time, pc, added, wait, fired>>

(* dispatch_list pushes one message and frees its node. *)
Fire ==
    /\ firing # <<>>
    /\ fired' = Append(fired, Head(firing).id)
    /\ firing' = Tail(firing)
    /\ UNCHANGED <<time, wheel, pc, added, wait>>

CascadeNoWrap(ct) ==
    LET turned == {i \in 0 .. 3 : ct % Pow(Bits(i)) = 0 /\ Index(ct, i) # 0}
    IN {<<i, Index(ct, i)>> : i \in turned}

(* The list timer_shift redistributes when the time becomes ct, if any: at
   most one, at the lowest level whose index is not 0.                     *)
Cascade(ct) ==
    LET turned == {i \in 0 .. 3 : ct % Pow(Bits(i)) = 0 /\ Index(ct, i) # 0}
    IN IF ct = 0 THEN {<<3, 0>>} ELSE {<<i, Index(ct, i)>> : i \in turned}

MovedLost(l, ct) == [wheel EXCEPT ![l] = <<>>]

(* move_list: every node of list l goes where add_node puts it at time ct. *)
Moved(l, ct) ==
    [k \in List |->
        (IF k = l THEN <<>> ELSE wheel[k])
        \o SelectSeq(wheel[l], LAMBDA n : Place(n.expire, ct) = k)]

(* ++T->time on an unsigned integer *)
NextTime == (time + 1) % Width

(* timer_shift *)
Shift ==
    /\ pc = "before" /\ firing = <<>>
    /\ wheel[Current] = <<>>
    /\ time' = NextTime
    /\ wheel' = IF Cascade(time') = {} THEN wheel
                ELSE Moved(CHOOSE l \in Cascade(time') : TRUE, time')
    /\ wait' = [i \in DOMAIN wait |->
                    IF wait[i] < 0 \/ (\E k \in DOMAIN fired : fired[k] = i)
                    THEN wait[i] ELSE wait[i] - 1]
    /\ pc' = "after"
    /\ UNCHANGED <<firing, added, fired>>

(* timer_update returns. *)
Done ==
    /\ pc = "after" /\ firing = <<>>
    /\ wheel[Current] = <<>>
    /\ pc' = "idle"
    /\ UNCHANGED <<time, wheel, firing, added, wait, fired>>

(* timer_create_timer *)
Init ==
    /\ time = 0
    /\ wheel = [l \in List |-> <<>>]
    /\ pc = "idle"
    /\ firing = <<>>
    /\ added = 0
    /\ wait = <<>>
    /\ fired = <<>>

TimerThread == Update \/ Execute \/ Fire \/ Shift \/ Done

Next == TimerThread \/ \E d \in 1 .. MaxTimeout : Add(d)

(* The timer thread never stops calling skynet_updatetime, and the clock it
   reads advances.                                                         *)
Spec == Init /\ [][Next]_vars /\ WF_vars(TimerThread)

-----------------------------------------------------------------------------
(* Properties *)

(* Every variable has its type. *)
TypeOK ==
    /\ time \in 0 .. Width - 1
    /\ wheel \in [List -> Seq(Node)]
    /\ pc \in {"idle", "before", "after"}
    /\ firing \in Seq(Node)
    /\ added \in 0 .. MaxTimers
    /\ wait \in [1 .. added -> -1 .. MaxTimeout]
    /\ fired \in Seq(1 .. added)

(* Every pending timer is in the very list add_node would choose for it now:
   what timer_shift moves keeps this true across every block boundary and
   across the wrap of the time to 0.                                       *)
WellPlaced ==
    /\ TypeOK
    /\ \A l \in List : \A i \in DOMAIN wheel[l] : l = Place(wheel[l][i].expire, time)

(* How often timer i is in the wheel, being fired, or fired. *)
Copies(i) ==
    Cardinality({<<l, k>> \in List \X (1 .. added) :
                    k \in DOMAIN wheel[l] /\ wheel[l][k].id = i})
    + Cardinality({k \in DOMAIN firing : firing[k].id = i})
    + Cardinality({k \in DOMAIN fired : fired[k] = i})

(* A timer's message is pushed at the tick it was set for, neither early nor
   late nor a whole turn of the wheel later; it is never lost and never
   pushed twice.                                                           *)
OnTime ==
    /\ \A i \in DOMAIN firing : wait[firing[i].id] = 0
    /\ \A l \in List : \A i \in DOMAIN wheel[l] :
        \/ wait[wheel[l][i].id] > 0
        \/ wait[wheel[l][i].id] = 0 /\ l = Current /\ pc = "after"
    /\ \A i \in 1 .. added : Copies(i) = 1

(* Timers due at the same tick fire in the order in which they were set,
   whichever levels of the wheel they went through.                        *)
SetOrder ==
    LET ordered(s) == \A i, j \in DOMAIN s :
            i < j /\ s[i].expire = s[j].expire => s[i].id < s[j].id
    IN ordered(firing) /\ \A l \in List : ordered(wheel[l])

(* Every timer that is set fires. *)
EveryTimerFires ==
    \A i \in 1 .. MaxTimers :
        added >= i ~> \E k \in DOMAIN fired : fired[k] = i
=============================================================================
