------------------------------ MODULE SkynetMQ ------------------------------
(***************************************************************************)
(* The ring buffer inside a message queue of skynet_mq.c: head and tail    *)
(* indices into an array of cap entries that doubles when it is full, and  *)
(* the overload warning with its moving threshold.  Every operation runs   *)
(* under the queue's spin lock, so an operation is one step; the flags     *)
(* in_global and release, which tie the queue to the workers, are in       *)
(* SkynetServer.                                                           *)
(***************************************************************************)
EXTENDS Integers, Sequences

CONSTANTS
    Message,
    DEFAULT_QUEUE_SIZE,     \* 64 in the code
    MQ_OVERLOAD,            \* 1024 in the code
    MaxCap,                 \* bound on cap
    NULL

ASSUME SizeAssumption ==
    /\ DEFAULT_QUEUE_SIZE \in Nat \ {0}
    /\ MQ_OVERLOAD \in Nat \ {0}
    /\ MaxCap \in Nat

ASSUME NullAssumption == NULL \notin Message

VARIABLES
    cap, head, tail,
    ring,                   \* the array q->queue, indexed from 0
    overload,               \* length to warn about, 0 when there is none
    overload_threshold,
    out                     \* the message skynet_mq_pop returned, or NULL

vars == <<cap, head, tail, ring, overload, overload_threshold, out>>

(* skynet_mq_length *)
Length == IF head <= tail THEN tail - head ELSE tail + cap - head

Init ==
    /\ cap = DEFAULT_QUEUE_SIZE
    /\ head = 0 /\ tail = 0
    /\ ring = [i \in 0 .. cap - 1 |-> NULL]
    /\ overload = 0
    /\ overload_threshold = MQ_OVERLOAD
    /\ out = NULL

(* Deliberately wrong variants (here and DoublingsByLength):
   replacing the operator by its variant must break a property.            *)
ExpandInPlace(r) ==
    /\ ring' = [i \in 0 .. 2 * cap - 1 |-> IF i < cap THEN r[i] ELSE NULL]
    /\ head' = 0
    /\ tail' = cap
    /\ cap' = 2 * cap

(* expand_queue: r is the array after the message was stored, and it is full.
   Its entries move to the front of an array twice as long, oldest first.  *)
Expand(r) ==
    /\ ring' = [i \in 0 .. 2 * cap - 1 |->
                    IF i < cap THEN r[(head + i) % cap] ELSE NULL]
    /\ head' = 0
    /\ tail' = cap
    /\ cap' = 2 * cap

Wrap(i) == IF i >= cap THEN 0 ELSE i

(* skynet_mq_push *)
Push(m) ==
    LET stored == [ring EXCEPT ![tail] = m]
        next == Wrap(tail + 1)
    IN /\ IF head = next
          THEN /\ 2 * cap <= MaxCap
               /\ Expand(stored)
          ELSE /\ ring' = stored
               /\ tail' = next
               /\ UNCHANGED <<cap, head>>
       /\ UNCHANGED <<overload, overload_threshold, out>>

DoublingsByLength(length) ==
    IF length > overload_threshold THEN length ELSE 0

(* The number of times the loop in skynet_mq_pop doubles the threshold. *)
Doublings(length) ==
    CHOOSE k \in 0 .. length :
        /\ length <= overload_threshold * 2 ^ k
        /\ \A j \in 0 .. k - 1 : length > overload_threshold * 2 ^ j

Warn(length) ==
    /\ overload' = IF length > overload_threshold THEN length ELSE overload
    /\ overload_threshold' = overload_threshold * 2 ^ Doublings(length)

(* skynet_mq_pop of a message *)
Pop ==
    /\ head # tail
    /\ out' = ring[head]
    /\ head' = Wrap(head + 1)
    /\ Warn(IF tail - head' < 0 THEN tail - head' + cap ELSE tail - head')
    /\ UNCHANGED <<cap, tail, ring>>

(* skynet_mq_pop of an empty queue resets the threshold. *)
PopEmpty ==
    /\ head = tail
    /\ out' = NULL
    /\ overload_threshold' = MQ_OVERLOAD
    /\ UNCHANGED <<cap, head, tail, ring, overload>>

(* skynet_mq_overload: the dispatching worker reads and clears it. *)
TakeOverload ==
    /\ overload # 0
    /\ overload' = 0
    /\ UNCHANGED <<cap, head, tail, ring, overload_threshold, out>>

Next == (\E m \in Message : Push(m)) \/ Pop \/ PopEmpty \/ TakeOverload

Spec == Init /\ [][Next]_vars

-----------------------------------------------------------------------------
(* Properties *)

(* The ring is well formed: indices stay inside the array. *)
RingOK ==
    /\ cap \in Nat \ {0}
    /\ head \in 0 .. cap - 1 /\ tail \in 0 .. cap - 1
    /\ ring \in [0 .. cap - 1 -> Message \cup {NULL}]
    /\ out \in Message \cup {NULL}

(* Every variable has its type, and the indices stay inside the array: an
   access through them never leaves it.                                    *)
TypeOK ==
    /\ RingOK
    /\ overload \in Nat /\ overload_threshold \in Nat \ {0}

(* The position of the i-th oldest message. *)
Pos(i) == IF head + i - 1 < cap THEN head + i - 1 ELSE head + i - 1 - cap

(* The refinement mapping: the messages from head to tail. *)
Contents == [i \in 1 .. Length |-> ring[Pos(i)]]

Fifo == INSTANCE FifoQueue WITH contents <- Contents

(* The ring buffer is a first-in first-out queue that loses, repeats and
   reorders nothing, through every wrap-around and every doubling.         *)
ImplementsFifo == Fifo!Spec

(* The threshold never runs away: one warning per doubling of the backlog,
   so it is below twice what the array has ever had to hold.  And every
   access stays inside the array.                                          *)
ThresholdBound ==
    /\ TypeOK
    /\ overload_threshold = MQ_OVERLOAD \/ overload_threshold < 2 * cap
=============================================================================
