--------------------------- MODULE SkynetMQ_proofs ---------------------------
(***************************************************************************)
(* The ring buffer of skynet_mq.c implements a first-in first-out queue,   *)
(* whatever its initial size, its contents and the number of doublings.    *)
(* RingOK is the inductive invariant; under it the messages from head to   *)
(* tail are a sequence of length Length, and each operation of the ring is *)
(* the operation of the same name on that sequence.                        *)
(***************************************************************************)
EXTENDS SkynetMQ, SequenceTheorems, TLAPS

Elt == Message \cup {NULL}

(* The remainder of what is at most one turn around the ring. *)
LEMMA OneTurn ==
    ASSUME NEW n \in Nat \ {0}, NEW x \in 0 .. 2 * n - 1
    PROVE  x % n = IF x < n THEN x ELSE x - n
<1>1. CASE x < n
  BY <1>1, SMTT(30)
<1>2. CASE x >= n
  BY <1>2, SMTT(30)
<1> QED
  BY <1>1, <1>2

(* The ring starts well formed. *)
LEMMA RingInit == Init => RingOK
  BY SizeAssumption DEF Init, RingOK

(* Every operation keeps the indices inside the array. *)
LEMMA RingStep == RingOK /\ [Next]_vars => RingOK'
<1> SUFFICES ASSUME RingOK, [Next]_vars PROVE RingOK'
  OBVIOUS
<1>1. ASSUME NEW m \in Message, Push(m) PROVE RingOK'
  <2> DEFINE stored == [ring EXCEPT ![tail] = m]
  <2>0. stored \in [0 .. cap - 1 -> Message \cup {NULL}]
    BY DEF RingOK
  <2>1. CASE head = Wrap(tail + 1)
    <3>1. Expand(stored) /\ out' = out
      BY <1>1, <2>1 DEF Push
    <3>2. ASSUME NEW i \in 0 .. cap - 1 PROVE (head + i) % cap \in 0 .. cap - 1
      <4>1. head + i \in 0 .. 2 * cap - 1
        BY DEF RingOK
      <4> QED
        BY <4>1, OneTurn DEF RingOK
    <3>3. ring' \in [0 .. 2 * cap - 1 -> Message \cup {NULL}]
      BY <3>1, <3>2, <2>0 DEF RingOK, Expand
    <3> QED
      BY <3>1, <3>3 DEF RingOK, Expand
  <2>2. CASE head # Wrap(tail + 1)
    BY <1>1, <2>0, <2>2 DEF Push, Wrap, RingOK
  <2> QED
    BY <2>1, <2>2
<1>2. CASE Pop
  BY <1>2 DEF Pop, Wrap, RingOK
<1>3. CASE PopEmpty
  BY <1>3 DEF PopEmpty, RingOK
<1>4. CASE TakeOverload
  BY <1>4 DEF TakeOverload, RingOK
<1>5. CASE UNCHANGED vars
  BY <1>5 DEF vars, RingOK
<1> QED
  BY <1>1, <1>2, <1>3, <1>4, <1>5 DEF Next

(* What the messages from head to tail are: a sequence of Length messages. *)
ContentsFact ==
    /\ Length \in 0 .. cap - 1
    /\ Contents \in Seq(Elt)
    /\ Len(Contents) = Length
    /\ \A i \in 1 .. Length : Pos(i) \in 0 .. cap - 1
    /\ \A i \in 1 .. Length : Contents[i] = ring[Pos(i)]

(* A well-formed ring holds such a sequence. *)
LEMMA ContentsSeq == RingOK => ContentsFact
<1> SUFFICES ASSUME RingOK PROVE ContentsFact
  OBVIOUS
<1>1. Length \in 0 .. cap - 1
  BY DEF Length, RingOK
<1>2. \A i \in 1 .. Length : Pos(i) \in 0 .. cap - 1
  BY <1>1 DEF Pos, RingOK
<1>3. Contents \in [1 .. Length -> Elt]
  BY <1>2 DEF Contents, RingOK, Elt
<1>4. Contents \in Seq(Elt)
  BY <1>1, <1>3, SeqDef DEF RingOK
<1>5. Len(Contents) = Length
  BY <1>1, <1>3, <1>4, LenProperties DEF RingOK
<1> QED
  BY <1>1, <1>2, <1>3, <1>4, <1>5 DEF Contents, ContentsFact

(* The ring starts empty. *)
LEMMA FifoInit == Init => Fifo!Init
<1> SUFFICES ASSUME Init PROVE Fifo!Init
  OBVIOUS
<1>1. ContentsFact
  BY RingInit, ContentsSeq
<1>2. Len(Contents) = 0
  BY <1>1 DEF Init, Length, ContentsFact
<1>3. Contents = <<>>
  BY <1>1, <1>2, EmptySeq DEF ContentsFact
<1> QED
  BY <1>3 DEF Init, Fifo!Init

(* skynet_mq_push, with or without a doubling, appends. *)
LEMMA FifoPush ==
    ASSUME RingOK, RingOK', ContentsFact, ContentsFact', NEW m \in Message, Push(m)
    PROVE  Fifo!Push(m)
<1> DEFINE stored == [ring EXCEPT ![tail] = m]
<1>0. Append(Contents, m) \in Seq(Elt) /\ Len(Append(Contents, m)) = Length + 1
      /\ \A i \in 1 .. Length : Append(Contents, m)[i] = Contents[i]
      /\ Append(Contents, m)[Length + 1] = m
  BY AppendProperties DEF ContentsFact, Elt
<1>1. \A i \in 1 .. Length : Pos(i) # tail
  BY DEF RingOK, Length, Pos
<1>2. Pos(Length + 1) = tail
  BY DEF RingOK, Length, Pos
<1>3. \A i \in 1 .. Length + 1 : stored[Pos(i)] = Append(Contents, m)[i]
  <2>1. ASSUME NEW i \in 1 .. Length PROVE stored[Pos(i)] = Append(Contents, m)[i]
    BY <1>0, <1>1 DEF ContentsFact, RingOK
  <2>2. stored[Pos(Length + 1)] = Append(Contents, m)[Length + 1]
    BY <1>0, <1>2 DEF RingOK
  <2> QED
    BY <2>1, <2>2 DEF ContentsFact
<1>4. Length' = Length + 1 /\ \A i \in 1 .. Length + 1 : ring'[Pos(i)'] = stored[Pos(i)]
  <2>1. CASE head = Wrap(tail + 1)
    <3>1. Expand(stored)
      BY <1>2, <2>1 DEF Push
    <3>2. Length + 1 = cap /\ Length' = cap
      BY <2>1, <3>1 DEF Expand, Length, Wrap, RingOK
    <3>3. ASSUME NEW i \in 1 .. cap PROVE ring'[Pos(i)'] = stored[Pos(i)]
      <4>1. Pos(i)' = i - 1
        BY <3>1 DEF Expand, Pos, RingOK
      <4>2. head + (i - 1) \in 0 .. 2 * cap - 1
        BY DEF RingOK
      <4>3. (head + (i - 1)) % cap = Pos(i)
        <5> DEFINE x == head + (i - 1)
        <5>1. Pos(i) = IF x < cap THEN x ELSE x - cap
          BY DEF RingOK, Pos
        <5>2. x \in 0 .. 2 * cap - 1 /\ cap \in Nat \ {0}
          BY <4>2 DEF RingOK
        <5> HIDE DEF x
        <5>3. x % cap = Pos(i)
          BY <5>1, <5>2, OneTurn
        <5> QED
          BY <5>3 DEF x
      <4> QED
        BY <3>1, <4>1, <4>3 DEF Expand, RingOK
    <3> QED
      BY <3>2, <3>3
  <2>2. CASE head # Wrap(tail + 1)
    <3>1. ring' = stored /\ tail' = Wrap(tail + 1) /\ cap' = cap /\ head' = head
      BY <2>2 DEF Push
    <3>2. Length' = Length + 1
      BY <2>2, <3>1 DEF Length, Wrap, RingOK
    <3>3. \A i \in 1 .. Length + 1 : Pos(i)' = Pos(i)
      BY <3>1 DEF Pos
    <3> QED
      BY <3>1, <3>2, <3>3
  <2> QED
    BY <2>1, <2>2
<1>5. Contents' = Append(Contents, m)
  <2>1. Contents' \in Seq(Elt) /\ Len(Contents') = Length + 1
    BY <1>4 DEF ContentsFact
  <2>2. \A i \in 1 .. Length + 1 : Contents'[i] = Append(Contents, m)[i]
    BY <1>3, <1>4 DEF ContentsFact
  <2> QED
    BY <2>1, <2>2, <1>0, SeqEqual
<1> QED
  BY <1>5 DEF Fifo!Push, Push

(* skynet_mq_pop of a message hands out the head. *)
LEMMA FifoPop ==
    ASSUME RingOK, RingOK', ContentsFact, ContentsFact', Pop
    PROVE  Fifo!Pop
<1>1. Length >= 1 /\ Length' = Length - 1
  BY DEF Pop, Wrap, Length, RingOK
<1>2. Contents # <<>>
  BY <1>1, EmptySeq DEF ContentsFact
<1>3. Pos(1) = head
  BY DEF Pos, RingOK
<1>4. out' = Head(Contents)
  BY <1>1, <1>2, <1>3, HeadTailProperties DEF Pop, ContentsFact
<1>5. \A i \in 1 .. Length - 1 : Pos(i)' = Pos(i + 1)
  BY DEF Pop, Wrap, Pos, RingOK, ContentsFact
<1>6. /\ Tail(Contents) \in Seq(Elt) /\ Len(Tail(Contents)) = Length - 1
      /\ \A i \in 1 .. Length - 1 : Tail(Contents)[i] = Contents[i + 1]
  BY <1>1, <1>2, HeadTailProperties DEF ContentsFact
<1>7. \A i \in 1 .. Length - 1 : Contents'[i] = Tail(Contents)[i]
  <2> SUFFICES ASSUME NEW i \in 1 .. Length - 1 PROVE Contents'[i] = Tail(Contents)[i]
    OBVIOUS
  <2>1. Contents'[i] = ring'[Pos(i)']
    BY <1>1 DEF ContentsFact
  <2>2. Tail(Contents)[i] = ring[Pos(i + 1)]
    BY <1>6 DEF ContentsFact
  <2> QED
    BY <2>1, <2>2, <1>5 DEF Pop
<1>8. Contents' = Tail(Contents)
  BY <1>1, <1>6, <1>7, SeqEqual DEF ContentsFact
<1> QED
  BY <1>2, <1>4, <1>8 DEF Fifo!Pop

(* skynet_mq_pop says empty exactly when nothing is queued. *)
LEMMA FifoPopEmpty ==
    ASSUME RingOK, ContentsFact, PopEmpty
    PROVE  Fifo!PopEmpty
<1>1. Length = 0
  BY DEF PopEmpty, Length, RingOK
<1>2. Contents = <<>>
  BY <1>1, EmptySeq DEF ContentsFact
<1>3. Contents' = Contents
  BY DEF PopEmpty, Contents, Length, Pos
<1> QED
  BY <1>2, <1>3 DEF Fifo!PopEmpty, PopEmpty

(* Every step of the ring is a step of the queue or leaves it as it is. *)
LEMMA FifoStep ==
    ASSUME RingOK, RingOK', ContentsFact, ContentsFact', [Next]_vars
    PROVE  [Fifo!Next]_<<Contents, out>>
<1>1. ASSUME NEW m \in Message, Push(m) PROVE Fifo!Next
  BY <1>1, FifoPush DEF Fifo!Next
<1>2. CASE Pop
  BY <1>2, FifoPop DEF Fifo!Next
<1>3. CASE PopEmpty
  BY <1>3, FifoPopEmpty DEF Fifo!Next
<1>4. CASE TakeOverload
  BY <1>4 DEF TakeOverload, Contents, Length, Pos
<1>5. CASE UNCHANGED vars
  BY <1>5 DEF vars, Contents, Length, Pos
<1> QED
  BY <1>1, <1>2, <1>3, <1>4, <1>5 DEF Next

(* The indices of the ring never leave its array. *)
THEOREM RingInvariant == Spec => []RingOK
  BY RingInit, RingStep, PTL DEF Spec

(* The ring buffer refines the first-in first-out queue, for every initial
   size and every sequence of pushes and pops.                             *)
THEOREM RingIsFifo == Spec => ImplementsFifo
<1>1. RingOK /\ RingOK' /\ ContentsFact /\ ContentsFact' /\ [Next]_vars
        => [Fifo!Next]_<<Contents, out>>
  BY FifoStep
<1> QED
  BY <1>1, FifoInit, RingInvariant, ContentsSeq, PTL DEF Spec, ImplementsFifo, Fifo!Spec
=============================================================================
