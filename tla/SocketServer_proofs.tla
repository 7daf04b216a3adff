------------------------ MODULE SocketServer_proofs --------------------------
(***************************************************************************)
(* The socket server of socket_server.c, for every number of slots,        *)
(* openers, ids and packages: a queue that waits is armed, a package has   *)
(* one owner, a closed id is silent, the peer reads whole packages in      *)
(* order, and an orderly close leaves nothing unwritten.                   *)
(*                                                                         *)
(* Each result has an invariant of its own over the types.  Arming is a    *)
(* fact about one slot at a time.  Packages are counted over the pipe, the *)
(* lists and free: a step moves a package from one to the next.  The       *)
(* silence of closed ids rests on the order of the pipe: the command that  *)
(* opens an id is the first one about it, since no service knows the id    *)
(* before it is written; so a close, which a service asks for or an event  *)
(* of the open slot causes, comes after it, and a slot of a closed id can  *)
(* only be free or reserved for another one.                               *)
(*                                                                         *)
(* The last two are about the bytes.  What was written for an id and then  *)
(* its high list is one stream: the rest of a package that was begun is at *)
(* its end or at the head of the high list, because send_buffer raises an  *)
(* uncomplete package and send_socket puts the rest of a first write       *)
(* there.  The low list holds whole packages, to come after the stream.    *)
(***************************************************************************)
EXTENDS SocketServer, FiniteSetTheorems, SequenceTheorems, WellFoundedInduction, TLAPS

(* A slot that has a descriptor. *)
Live(s) == s.type \notin {"INVALID", "RESERVE"}

OpenCmd == {"O", "L", "B", "U"}

(* t has taken an id no service knows of yet. *)
Holding(t) == opener[t].pc \in {"cas", "set"}

-----------------------------------------------------------------------------
(* Sequences and numbers *)

(* A nonempty set of numbers has a least one. *)
LEMMA LeastNumber ==
    ASSUME NEW S \in SUBSET Nat, S # {}
    PROVE  Min(S) \in S /\ \A n \in S : Min(S) <= n
<1>1. PICK m \in S : \A n \in S : ~ (<<n, m>> \in OpToRel(<, Nat))
  BY WFMin, NatLessThanWellFounded
<1>2. ASSUME NEW n \in S PROVE m <= n
  <2>1. n \in Nat /\ m \in Nat
    OBVIOUS
  <2>2. <<n, m>> \notin OpToRel(<, Nat)
    BY <1>1
  <2>3. ~ (n < m)
    BY <2>1, <2>2 DEF OpToRel
  <2> QED
    BY <2>1, <2>3
<1>3. \E x \in S : \A y \in S : x <= y
  BY <1>2
<1> QED
  BY <1>3 DEF Min

(* An id has a slot. *)
LEMMA HashSlot ==
    ASSUME NEW x \in Nat
    PROVE  HASH_ID(x) \in Slot
  BY SocketAssumption DEF HASH_ID, Slot

(* A list in two parts, byte by byte. *)
LEMMA Cut ==
    ASSUME NEW l \in Seq(Pkg), NEW n \in 0 .. Len(l)
    PROVE  /\ SubSeq(l, 1, n) \in Seq(Pkg) /\ Len(SubSeq(l, 1, n)) = n
           /\ \A i \in 1 .. n : SubSeq(l, 1, n)[i] = l[i]
           /\ Rest(l, n) \in Seq(Pkg) /\ Len(Rest(l, n)) = Len(l) - n
           /\ \A i \in 1 .. Len(l) - n : Rest(l, n)[i] = l[i + n]
<1>1. Len(l) \in Nat /\ n \in Nat /\ DOMAIN l = 1 .. Len(l)
  OBVIOUS
<1>2. /\ SubSeq(l, 1, n) \in Seq(Pkg) /\ Len(SubSeq(l, 1, n)) = n
      /\ \A i \in 1 .. n : SubSeq(l, 1, n)[i] = l[i]
  BY <1>1
<1>3. /\ Rest(l, n) \in Seq(Pkg) /\ Len(Rest(l, n)) = Len(l) - n
      /\ \A i \in 1 .. Len(l) - n : Rest(l, n)[i] = l[i + n]
  <2>1. PICK b \in Int, e \in Int : b = n + 1 /\ e = Len(l)
    <3>1. n + 1 \in Int /\ Len(l) \in Int
      BY <1>1
    <3> QED
      BY <3>1
  <2>2. \A i \in b .. e : l[i] \in Pkg
    BY <1>1, <2>1
  <2>3. PICK q : q = SubSeq(l, b, e)
    OBVIOUS
  <2>4. /\ q \in Seq(Pkg) /\ Len(q) = IF b <= e THEN e - b + 1 ELSE 0
        /\ \A i \in 1 .. e - b + 1 : q[i] = l[b + i - 1]
    BY <2>2, <2>3, SubSeqProperties
  <2>5. q = Rest(l, n)
    BY <2>1, <2>3 DEF Rest
  <2>6. Len(q) = e - n /\ 1 .. e - n = 1 .. e - b + 1
    <3>1. n \in 0 .. e
      BY <2>1
    <3>2. e - n = e - b + 1 /\ (b <= e \/ e - n = 0)
      BY <2>1, <3>1
    <3> QED
      BY <2>4, <3>1, <3>2
  <2>7. ASSUME NEW i \in 1 .. e - n PROVE q[i] = l[i + n]
    <3>1. b + i - 1 = i + n
      BY <1>1, <2>1
    <3> QED
      BY <2>4, <2>6, <3>1
  <2> QED
    BY <2>1, <2>4, <2>5, <2>6, <2>7
<1> QED
  BY <1>2, <1>3

(* A part of a list is a list, of some of its packages. *)
LEMMA Part ==
    ASSUME NEW l \in Seq(Pkg), NEW n \in 0 .. Len(l)
    PROVE  /\ SubSeq(l, 1, n) \in Seq(Pkg) /\ Rest(l, n) \in Seq(Pkg)
           /\ ToSet(SubSeq(l, 1, n)) \subseteq ToSet(l) /\ ToSet(Rest(l, n)) \subseteq ToSet(l)
           /\ n < Len(l) => Rest(l, n) # <<>>
           /\ n = Len(l) => Rest(l, n) = <<>>
<1>1. Len(l) \in Nat /\ n \in Nat /\ DOMAIN l = 1 .. Len(l)
  OBVIOUS
<1>2. /\ SubSeq(l, 1, n) \in Seq(Pkg) /\ Len(SubSeq(l, 1, n)) = n
      /\ \A i \in 1 .. n : SubSeq(l, 1, n)[i] = l[i]
  BY Cut
<1>3. /\ Rest(l, n) \in Seq(Pkg) /\ Len(Rest(l, n)) = Len(l) - n
      /\ \A i \in 1 .. Len(l) - n : Rest(l, n)[i] = l[i + n]
  BY Cut
<1>4. ToSet(SubSeq(l, 1, n)) \subseteq ToSet(l)
  <2>1. DOMAIN SubSeq(l, 1, n) = 1 .. n
    BY <1>2
  <2>2. \A i \in 1 .. n : i \in DOMAIN l
    BY <1>1
  <2> QED
    BY <1>2, <2>1, <2>2 DEF ToSet
<1>5. ToSet(Rest(l, n)) \subseteq ToSet(l)
  <2>1. DOMAIN Rest(l, n) = 1 .. Len(l) - n
    BY <1>3
  <2>2. \A i \in 1 .. Len(l) - n : i + n \in DOMAIN l
    BY <1>1
  <2> QED
    BY <1>3, <2>1, <2>2 DEF ToSet
<1>6. n < Len(l) => Rest(l, n) # <<>>
  BY <1>1, <1>3
<1>7. n = Len(l) => Rest(l, n) = <<>>
  BY <1>1, <1>3
<1> QED
  BY <1>2, <1>3, <1>4, <1>5, <1>6, <1>7

(* The first package of a list is a part of it. *)
LEMMA FirstPart ==
    ASSUME NEW l \in Seq(Pkg), NEW x
    PROVE  Cardinality({i \in DOMAIN l : l[i] = x}) \in 0 .. Len(l)
<1>1. Len(l) \in Nat /\ DOMAIN l = 1 .. Len(l)
  OBVIOUS
<1>2. IsFiniteSet(1 .. Len(l)) /\ Cardinality(1 .. Len(l)) = Len(l)
  BY <1>1, FS_Interval
<1>3. {i \in DOMAIN l : l[i] = x} \subseteq 1 .. Len(l)
  BY <1>1
<1>4. /\ Cardinality({i \in DOMAIN l : l[i] = x}) <= Len(l)
      /\ IsFiniteSet({i \in DOMAIN l : l[i] = x})
  BY <1>2, <1>3, FS_Subset
<1> QED
  BY <1>1, <1>4, FS_CardinalityType

(* The packages of an empty list, and of two lists in a row. *)
LEMMA Elements ==
    ASSUME NEW l \in Seq(Pkg), NEW m \in Seq(Pkg)
    PROVE  /\ ToSet(<<>>) = {}
           /\ l \o m \in Seq(Pkg) /\ ToSet(l \o m) = ToSet(l) \cup ToSet(m)
           /\ l # <<>> => l \o m # <<>> /\ m \o l # <<>>
<1>1. ToSet(<<>>) = {}
  BY DEF ToSet
<1>2. /\ l \o m \in Seq(Pkg) /\ Len(l \o m) = Len(l) + Len(m)
      /\ \A i \in 1 .. Len(l) + Len(m) :
            (l \o m)[i] = IF i <= Len(l) THEN l[i] ELSE m[i - Len(l)]
  BY ConcatProperties
<1>3. ToSet(l \o m) \subseteq ToSet(l) \cup ToSet(m)
  BY <1>2 DEF ToSet
<1>4. ToSet(l) \subseteq ToSet(l \o m)
  BY <1>2 DEF ToSet
<1>5. ToSet(m) \subseteq ToSet(l \o m)
  <2>m. ToSet(m) = {m[i] : i \in 1 .. Len(m)}
    BY DEF ToSet
  <2> SUFFICES ASSUME NEW i \in 1 .. Len(m) PROVE m[i] \in ToSet(l \o m)
    BY <2>m
  <2>1. i + Len(l) \in 1 .. Len(l) + Len(m) /\ (l \o m)[i + Len(l)] = m[i]
    BY <1>2
  <2>2. DOMAIN (l \o m) = 1 .. Len(l) + Len(m)
    BY <1>2
  <2> QED
    BY <2>1, <2>2 DEF ToSet
<1>6. l # <<>> => l \o m # <<>> /\ m \o l # <<>>
  OBVIOUS
<1> QED
  BY <1>1, <1>2, <1>3, <1>4, <1>5, <1>6

-----------------------------------------------------------------------------
(* What becomes of one slot *)

(* force_close: the slot is free and its lists are empty. *)
LEMMA ForceClose ==
    ASSUME NEW s \in SlotState, NEW n, n = force_close(s)
    PROVE  /\ n \in SlotState /\ n.type = "INVALID" /\ n.id = s.id /\ n.protocol = s.protocol
           /\ Queued(n) = {} /\ send_buffer_empty(n)
<1>1. <<>> \in Seq(Pkg) /\ ToSet(<<>>) = {}
  BY DEF ToSet
<1>2. n.type = "INVALID" /\ n.id = s.id /\ n.protocol = s.protocol
  BY DEF force_close, SlotState
<1>3. n.high = <<>> /\ n.low = <<>>
  BY DEF force_close, SlotState
<1>4. n \in SlotState
  BY <1>1 DEF force_close, SlotState, Type
<1> QED
  BY <1>1, <1>2, <1>3, <1>4 DEF Queued, send_buffer_empty

(* The event of a slot is turned off, its high list written. *)
LEMMA TurnOff ==
    ASSUME NEW s \in SlotState, NEW n, n = [s EXCEPT !.high = <<>>, !.armed = FALSE]
    PROVE  /\ n \in SlotState /\ n.type = s.type /\ n.id = s.id /\ n.protocol = s.protocol
           /\ n.high = <<>> /\ n.low = s.low
<1>1. <<>> \in Seq(Pkg)
  OBVIOUS
<1>2. n.type = s.type /\ n.id = s.id /\ n.protocol = s.protocol /\ n.low = s.low
  BY DEF SlotState
<1>3. n.high = <<>>
  BY DEF SlotState
<1>4. n \in SlotState
  BY <1>1 DEF SlotState
<1> QED
  BY <1>2, <1>3, <1>4

(* A slot has packages when its lists are not empty. *)
LEMMA EmptyQueued ==
    ASSUME NEW s \in SlotState
    PROVE  send_buffer_empty(s) <=> Queued(s) = {}
<1>1. s.high \in Seq(Pkg) /\ s.low \in Seq(Pkg)
  BY DEF SlotState
<1>2. \A l \in Seq(Pkg) : l = <<>> <=> ToSet(l) = {}
  <2> SUFFICES ASSUME NEW l \in Seq(Pkg) PROVE l = <<>> <=> ToSet(l) = {}
    OBVIOUS
  <2>1. l = <<>> => ToSet(l) = {}
    BY DEF ToSet
  <2>2. l # <<>> => 1 \in DOMAIN l
    OBVIOUS
  <2> QED
    BY <2>1, <2>2 DEF ToSet
<1> QED
  BY <1>1, <1>2 DEF Queued, send_buffer_empty

(* What send_buffer may leave of a slot: nothing is added to its lists, it is
   closed or keeps its type, and it stays armed while something is left.   *)
Shrinks(s, n) ==
    /\ n \in SlotState /\ n.id = s.id /\ n.protocol = s.protocol
    /\ Queued(n) \subseteq Queued(s)
    /\ \/ n.type = "INVALID" /\ send_buffer_empty(n)
       \/ n.type = s.type /\ (n.armed = s.armed \/ send_buffer_empty(n))

(* send_buffer, in all its outcomes. *)
LEMMA SendBuffer ==
    ASSUME NEW s \in SlotState, NEW w \in send_buffer(s)
    PROVE  /\ Shrinks(s, w.slot) /\ w.out \in Seq(Pkg) /\ w.error \in BOOLEAN
           /\ s.type = "RESERVE" /\ send_buffer_empty(s) => w.slot.type = "RESERVE" /\ ~ w.error
<1> DEFINE all(n) == n = Len(s.high)
           cut(n, m) == SubSeq(s.high, 1, n) \o SubSeq(s.low, 1, m)
           stop(n) == [slot |-> [s EXCEPT !.high = Rest(@, n)], out |-> cut(n, 0), error |-> FALSE]
           cleared(m) == [s EXCEPT !.high = <<>>, !.low = Rest(@, m)]
           low(m) == [slot |-> IF list_uncomplete(cleared(m).low) THEN raise_uncomplete(cleared(m))
                               ELSE cleared(m),
                      out |-> cut(Len(s.high), m), error |-> FALSE]
           off == [slot |-> IF s.type = "HALFCLOSE" THEN force_close(s)
                            ELSE [s EXCEPT !.high = <<>>, !.armed = FALSE],
                   out |-> s.high, error |-> FALSE]
           fail(n, m) == [slot |-> force_close(s), out |-> cut(n, m), error |-> TRUE]
<1>1. /\ s.high \in Seq(Pkg) /\ s.low \in Seq(Pkg) /\ <<>> \in Seq(Pkg)
      /\ Len(s.high) \in Nat /\ Len(s.low) \in Nat
  BY DEF SlotState
<1>2. \A n \in 0 .. Len(s.high), m \in 0 .. Len(s.low) : cut(n, m) \in Seq(Pkg)
  <2> SUFFICES ASSUME NEW n \in 0 .. Len(s.high), NEW m \in 0 .. Len(s.low)
               PROVE  cut(n, m) \in Seq(Pkg)
    OBVIOUS
  <2>1. SubSeq(s.high, 1, n) \in Seq(Pkg) /\ SubSeq(s.low, 1, m) \in Seq(Pkg)
    BY <1>1, Part
  <2> QED
    BY <2>1
<1> HIDE DEF cut
<1>3. Shrinks(s, force_close(s))
  <2>1. PICK n : n = force_close(s)
    OBVIOUS
  <2>2. Shrinks(s, n)
    BY <2>1, ForceClose DEF Shrinks
  <2> QED
    BY <2>1, <2>2
<1>4. ASSUME NEW n \in 0 .. Len(s.high)
      PROVE  Shrinks(s, [s EXCEPT !.high = Rest(@, n)])
  <2> DEFINE r == [s EXCEPT !.high = Rest(@, n)]
  <2>1. r = [type |-> s.type, id |-> s.id, protocol |-> s.protocol,
             high |-> Rest(s.high, n), low |-> s.low, armed |-> s.armed]
    BY DEF SlotState
  <2>2. Rest(s.high, n) \in Seq(Pkg) /\ ToSet(Rest(s.high, n)) \subseteq ToSet(s.high)
    BY <1>1, Part
  <2> QED
    BY <2>1, <2>2 DEF Shrinks, SlotState, Queued
<1>5. ASSUME NEW m \in 0 .. Len(s.low)
      PROVE  Shrinks(s, low(m).slot)
  <2>1. PICK l : l = Rest(s.low, m)
    OBVIOUS
  <2>2. l \in Seq(Pkg) /\ ToSet(l) \subseteq ToSet(s.low) /\ ToSet(<<>>) = {}
    BY <1>1, <2>1, Part, Elements
  <2>3. PICK r : r = cleared(m)
    OBVIOUS
  <2>4. /\ r \in SlotState /\ r.type = s.type /\ r.id = s.id /\ r.protocol = s.protocol
        /\ r.armed = s.armed /\ r.high = <<>> /\ r.low = l
    <3>1. PICK h \in Seq(Pkg) : h = <<>>
      BY <1>1
    <3>2. r = [s EXCEPT !.high = h, !.low = l]
      BY <2>1, <2>3, <3>1
    <3> QED
      BY <2>2, <3>1, <3>2 DEF SlotState
  <2>5. Shrinks(s, r)
    BY <2>2, <2>4 DEF Shrinks, Queued
  <2>6. PICK k : k = Cardinality({i \in DOMAIN l : l[i] = Head(l)})
    OBVIOUS
  <2>7. k \in 0 .. Len(l)
    BY <2>2, <2>6, FirstPart
  <2>8. /\ SubSeq(l, 1, k) \in Seq(Pkg) /\ Rest(l, k) \in Seq(Pkg)
        /\ ToSet(SubSeq(l, 1, k)) \subseteq ToSet(l) /\ ToSet(Rest(l, k)) \subseteq ToSet(l)
    BY <2>2, <2>7, Part
  <2>9. PICK n : n = raise_uncomplete(r)
    OBVIOUS
  <2>10. n = [r EXCEPT !.high = SubSeq(l, 1, k), !.low = Rest(l, k)]
    BY <2>4, <2>6, <2>9 DEF raise_uncomplete
  <2>11. /\ n \in SlotState /\ n.type = r.type /\ n.id = r.id /\ n.protocol = r.protocol
         /\ n.armed = r.armed /\ n.high = SubSeq(l, 1, k) /\ n.low = Rest(l, k)
    <3>1. PICK h \in Seq(Pkg), e \in Seq(Pkg) : h = SubSeq(l, 1, k) /\ e = Rest(l, k)
      BY <2>8
    <3>2. n = [r EXCEPT !.high = h, !.low = e]
      BY <2>10, <3>1
    <3> QED
      BY <2>4, <3>1, <3>2 DEF SlotState
  <2>12. Shrinks(s, n)
    BY <2>2, <2>4, <2>8, <2>11 DEF Shrinks, Queued
  <2> QED
    BY <2>3, <2>5, <2>9, <2>12
<1>6. ASSUME s.low = <<>> PROVE Shrinks(s, off.slot)
  <2>1. PICK n : n = [s EXCEPT !.high = <<>>, !.armed = FALSE]
    OBVIOUS
  <2>2. ToSet(<<>>) = {}
    BY DEF ToSet
  <2>3. Shrinks(s, n)
    BY <1>6, <2>1, <2>2, TurnOff DEF Shrinks, Queued, send_buffer_empty
  <2> QED
    BY <1>3, <2>1, <2>3
<1>7. \/ \E n \in 0 .. Len(s.high) : ~ all(n) /\ w = stop(n)
      \/ s.low = <<>> /\ w = off
      \/ s.low # <<>> /\ \E m \in 0 .. Len(s.low) : w = low(m)
      \/ \E n \in 0 .. Len(s.high) - 1 : w = fail(n, 0)
      \/ \E m \in 0 .. Len(s.low) - 1 : w = fail(Len(s.high), m)
  BY DEF send_buffer, Written, cut
<1>8. 0 \in 0 .. Len(s.high) /\ 0 \in 0 .. Len(s.low) /\ Len(s.high) \in 0 .. Len(s.high)
  BY <1>1
<1>9. s.type = "RESERVE" /\ send_buffer_empty(s) => Len(s.high) = 0 /\ Len(s.low) = 0
  BY <1>1 DEF send_buffer_empty
<1>10. CASE \E n \in 0 .. Len(s.high) : ~ all(n) /\ w = stop(n)
  <2>1. PICK n \in 0 .. Len(s.high) : ~ all(n) /\ w = stop(n)
    BY <1>10
  <2>2. /\ w.slot = [s EXCEPT !.high = Rest(@, n)] /\ w.out = cut(n, 0) /\ w.error = FALSE
    BY <2>1
  <2>3. Len(s.high) # 0
    BY <1>1, <2>1
  <2> QED
    BY <1>2, <1>4, <1>8, <1>9, <2>2, <2>3
<1>11. CASE s.low = <<>> /\ w = off
  <2>1. w.slot = off.slot /\ w.out = s.high /\ w.error = FALSE
    BY <1>11
  <2>2. s.type = "RESERVE" => off.slot.type = "RESERVE"
    BY TurnOff
  <2> QED
    BY <1>1, <1>6, <1>11, <2>1, <2>2
<1>12. CASE s.low # <<>> /\ \E m \in 0 .. Len(s.low) : w = low(m)
  <2>1. PICK m \in 0 .. Len(s.low) : w = low(m)
    BY <1>12
  <2>2. w.slot = low(m).slot /\ w.out = cut(Len(s.high), m) /\ w.error = FALSE
    BY <2>1
  <2>3. ~ send_buffer_empty(s)
    BY <1>12 DEF send_buffer_empty
  <2> QED
    BY <1>2, <1>5, <1>8, <2>2, <2>3
<1>13. CASE \E n \in 0 .. Len(s.high) - 1 : w = fail(n, 0)
  <2>1. PICK n \in 0 .. Len(s.high) - 1 : w = fail(n, 0)
    BY <1>13
  <2>2. w.slot = force_close(s) /\ w.out = cut(n, 0) /\ w.error = TRUE /\ n \in 0 .. Len(s.high)
    BY <1>1, <2>1
  <2>3. Len(s.high) # 0
    BY <1>1, <2>1
  <2> QED
    BY <1>2, <1>3, <1>8, <1>9, <2>2, <2>3
<1>14. CASE \E m \in 0 .. Len(s.low) - 1 : w = fail(Len(s.high), m)
  <2>1. PICK m \in 0 .. Len(s.low) - 1 : w = fail(Len(s.high), m)
    BY <1>14
  <2>2. /\ w.slot = force_close(s) /\ w.out = cut(Len(s.high), m) /\ w.error = TRUE
        /\ m \in 0 .. Len(s.low)
    BY <1>1, <2>1
  <2>3. Len(s.low) # 0
    BY <1>1, <2>1
  <2> QED
    BY <1>2, <1>3, <1>8, <1>9, <2>2, <2>3
<1> QED
  BY <1>7, <1>10, <1>11, <1>12, <1>13, <1>14

-----------------------------------------------------------------------------
(* The inductive invariant *)

(* Types; an opener that holds an id, and a slot with a descriptor, have one. *)
TypeInv ==
    /\ TypeOK
    /\ \A t \in Opener : Holding(t) => opener[t].id \in Id
    /\ \A k \in Slot : Live(slot[k]) => slot[k].id \in Id

(* WriteArmed for one slot; nothing is queued before a socket is started, and
   a bound descriptor stays one.                                           *)
ArmOK(s) ==
    /\ \/ s.type = "CONNECTING" /\ s.protocol # "bind"
       \/ s.type \in {"CONNECTED", "HALFCLOSE"} /\ s.protocol # "bind" /\ ~ send_buffer_empty(s)
       => s.armed
    /\ s.type \in {"PACCEPT", "PLISTEN", "LISTEN"} => send_buffer_empty(s)
    /\ s.type = "BIND" => s.protocol = "bind"

(* No service knows an id an opener still holds; ids are numbered upwards. *)
IdsFresh ==
    /\ \A t \in Opener : Holding(t) => opener[t].id <= alloc_id /\ issued[opener[t].id] = NULL
    /\ \A t, u \in Opener : Holding(t) /\ Holding(u) /\ opener[t].id = opener[u].id => t = u
    /\ \A x \in Id : issued[x] # NULL => x <= alloc_id
    /\ \A x \in told : issued[x] # NULL
    /\ \A i \in DOMAIN pipe : issued[pipe[i].id] # NULL

(* A slot with a descriptor is the slot of its id, which is not closed. *)
LiveOpen ==
    \A k \in Slot : Live(slot[k]) =>
        slot[k].id \notin told /\ issued[slot[k].id] # NULL /\ HASH_ID(slot[k].id) = k

(* The command that opens an id is the first one about it. *)
OpensFirst ==
    \A i \in DOMAIN pipe : pipe[i].c \in OpenCmd =>
        /\ pipe[i].id \notin told
        /\ \A j \in DOMAIN pipe : j < i => pipe[j].id # pipe[i].id
        /\ \A k \in Slot : Live(slot[k]) => slot[k].id # pipe[i].id

Opening(i) == pipe[i].c \in OpenCmd

(* A slot is reserved by one opener, and then by the one command it writes. *)
Reserved ==
    /\ \A t \in Opener : opener[t].pc = "set" => slot[HASH_ID(opener[t].id)].type = "RESERVE"
    /\ \A i \in DOMAIN pipe : Opening(i) => slot[HASH_ID(pipe[i].id)].type = "RESERVE"
    /\ \A t, u \in Opener : opener[t].pc = "set" /\ opener[u].pc = "set"
                           /\ HASH_ID(opener[t].id) = HASH_ID(opener[u].id) => t = u
    /\ \A i, j \in DOMAIN pipe : Opening(i) /\ Opening(j)
                                /\ HASH_ID(pipe[i].id) = HASH_ID(pipe[j].id) => i = j
    /\ \A t \in Opener, i \in DOMAIN pipe : opener[t].pc = "set" /\ Opening(i) =>
            HASH_ID(opener[t].id) # HASH_ID(pipe[i].id)

IdInv == IdsFresh /\ LiveOpen /\ OpensFirst /\ Reserved /\ after = {}

IsQueued(p) == \E k \in Slot : p \in Queued(slot[k])

(* A package is in one command, in one list, or freed. *)
BufInv ==
    /\ \A i \in DOMAIN pipe : pipe[i].c \in {"D", "P"} <=> pipe[i].pkg # 0
    /\ \A i, j \in DOMAIN pipe : pipe[i].pkg = pipe[j].pkg /\ pipe[i].pkg # 0 => i = j
    /\ \A k, l \in Slot : \A p \in Pkg :
            p \in Queued(slot[k]) /\ p \in Queued(slot[l]) => k = l
    /\ \A p \in Pkg : freed[p] = IF p <= Len(pkg) /\ ~ InPipe(p) /\ ~ IsQueued(p) THEN 1 ELSE 0
    /\ \A p \in Pkg : InPipe(p) => p <= Len(pkg) /\ ~ IsQueued(p)
    /\ \A p \in Pkg : IsQueued(p) => p <= Len(pkg)
    /\ Len(pkg) <= MaxPkg

SockInv == TypeInv /\ (\A k \in Slot : ArmOK(slot[k])) /\ IdInv /\ BufInv

(* One slot changes. *)
LEMMA PutSlot ==
    ASSUME slot \in [Slot -> SlotState], NEW k \in Slot, NEW n \in SlotState,
           slot' = [slot EXCEPT ![k] = n]
    PROVE  /\ slot' \in [Slot -> SlotState]
           /\ slot'[k] = n /\ \A l \in Slot : l # k => slot'[l] = slot[l]
  OBVIOUS

(* Every id that is held, asked for or known has a slot. *)
LEMMA Hashes ==
    ASSUME SockInv
    PROVE  /\ \A x \in Id : HASH_ID(x) \in Slot
           /\ \A t \in Opener : Holding(t) => opener[t].id \in Id /\ HASH_ID(opener[t].id) \in Slot
           /\ \A i \in DOMAIN pipe :
                pipe[i] \in Command /\ pipe[i].id \in Id /\ HASH_ID(pipe[i].id) \in Slot
<1>1. \A x \in Id : HASH_ID(x) \in Slot
  <2>1. \A x \in Id : x \in Nat
    BY SocketAssumption DEF Id
  <2> QED
    BY <2>1, HashSlot
<1>2. \A t \in Opener : Holding(t) => opener[t].id \in Id
  BY DEF SockInv, TypeInv
<1>3. \A i \in DOMAIN pipe : pipe[i] \in Command
  BY DEF SockInv, TypeInv, TypeOK
<1>4. \A i \in DOMAIN pipe : pipe[i].id \in Id
  BY <1>3 DEF Command
<1> QED
  BY <1>1, <1>2, <1>3, <1>4

(* The lists of a slot hold packages. *)
LEMMA QueuedPkg ==
    ASSUME NEW s \in SlotState
    PROVE  Queued(s) \subseteq Pkg
  BY DEF SlotState, Queued, ToSet

(* The first command leaves the pipe. *)
LEMMA PopPipe ==
    ASSUME pipe \in Seq(Command), pipe # <<>>, pipe' = Tail(pipe)
    PROVE  /\ pipe' \in Seq(Command) /\ Head(pipe) \in Command
           /\ Len(pipe) \in Nat \ {0} /\ DOMAIN pipe = 1 .. Len(pipe)
           /\ DOMAIN pipe' = 1 .. Len(pipe) - 1
           /\ \A i \in DOMAIN pipe' : i + 1 \in DOMAIN pipe /\ pipe'[i] = pipe[i + 1]
           /\ 1 \in DOMAIN pipe /\ Head(pipe) = pipe[1]
  OBVIOUS

(* A command enters the pipe. *)
LEMMA PushPipe ==
    ASSUME pipe \in Seq(Command), NEW r \in Command, pipe' = Append(pipe, r)
    PROVE  /\ pipe' \in Seq(Command)
           /\ Len(pipe) \in Nat /\ DOMAIN pipe = 1 .. Len(pipe)
           /\ DOMAIN pipe' = 1 .. Len(pipe) + 1
           /\ \A i \in DOMAIN pipe : i \in DOMAIN pipe' /\ pipe'[i] = pipe[i]
           /\ pipe'[Len(pipe) + 1] = r
  OBVIOUS

-----------------------------------------------------------------------------
(* A step of the socket thread *)

(* The packages P leave the pipe, with the first command or with none; x is
   the id it is about, or the one of a slot an event was for.              *)
PipeStep(P, x) ==
    \/ pipe' = pipe /\ P = {} /\ (told' # told => \E k \in Slot : Live(slot[k]) /\ slot[k].id = x)
    \/ pipe # <<>> /\ pipe' = Tail(pipe) /\ P = {Head(pipe).pkg} \ {0} /\ x = Head(pipe).id

(* The first command opens slot k. *)
Opens(k) ==
    pipe # <<>> /\ pipe' = Tail(pipe) /\ Head(pipe).c \in OpenCmd /\ k = HASH_ID(Head(pipe).id)

(* What a handler does: slot k becomes n, the packages that leave its lists and
   the command are freed, x may be reported closed, and only an opening command
   gives a slot a descriptor or ends its reservation.                      *)
Handled(k, n, x, P) ==
    /\ k \in Slot /\ n \in SlotState /\ slot' = [slot EXCEPT ![k] = n]
    /\ ArmOK(n)
    /\ PipeStep(P, x)
    /\ Queued(n) \subseteq Queued(slot[k]) \cup P
    /\ Freed((Queued(slot[k]) \cup P) \ Queued(n))
    /\ told' = told \/ (told' = told \cup {x} /\ k = HASH_ID(x) /\ ~ (Live(n) /\ n.id = x))
    /\ Live(n) =>
        \/ Live(slot[k]) /\ n.id = slot[k].id
        \/ Opens(k) /\ n.id = Head(pipe).id /\ told' = told
    /\ slot[k].type = "RESERVE" => n.type = "RESERVE" \/ Opens(k)
    /\ after' = after
    /\ UNCHANGED <<alloc_id, opener, ncmd, issued, pkg>>

(* The rest of its types. *)
HandledTypes ==
    /\ ev' \in Seq([slot : Slot \cup {NULL}, read : BOOLEAN, write : BOOLEAN])
    /\ at' \in {"cmd", "first", "event", "clear"} /\ clr' \in {0} \cup Id
    /\ wire' \in [Id -> Seq(Pkg)] /\ broken' \subseteq Id /\ refused' \subseteq Pkg
    /\ crashed' \in {"no", "reserve", "lists", "uncomplete"}

(* The id a step is about is one a service knows. *)
LEMMA HandledId ==
    ASSUME SockInv, NEW x, NEW P, PipeStep(P, x), told' # told
    PROVE  x \in Id /\ issued[x] # NULL
<1>1. TypeOK /\ TypeInv /\ IdsFresh /\ LiveOpen
  BY DEF SockInv, TypeInv, IdInv
<1>2. CASE \E k \in Slot : Live(slot[k]) /\ slot[k].id = x
  BY <1>1, <1>2 DEF TypeInv, LiveOpen
<1>3. CASE pipe # <<>> /\ pipe' = Tail(pipe) /\ x = Head(pipe).id
  <2>1. Head(pipe) \in Command /\ 1 \in DOMAIN pipe /\ Head(pipe) = pipe[1]
    BY <1>1, <1>3, PopPipe DEF TypeOK
  <2> QED
    BY <1>1, <1>3, <2>1 DEF IdsFresh, Command
<1> QED
  BY <1>2, <1>3 DEF PipeStep

(* A handler keeps the types. *)
LEMMA HandledTypeInv ==
    ASSUME SockInv, NEW k, NEW n, NEW x, NEW P, Handled(k, n, x, P), HandledTypes
    PROVE  TypeInv'
<1>1. TypeOK /\ TypeInv
  BY DEF SockInv, TypeInv
<1>2. /\ k \in Slot /\ n \in SlotState /\ slot' \in [Slot -> SlotState]
      /\ slot'[k] = n /\ \A l \in Slot : l # k => slot'[l] = slot[l]
  BY <1>1, PutSlot DEF Handled, TypeOK
<1>3. pipe' \in Seq(Command)
  BY <1>1, PopPipe DEF Handled, PipeStep, TypeOK
<1>4. told' \subseteq Id
  BY <1>1, HandledId DEF Handled, TypeOK
<1>5. freed' \in [Pkg -> Nat]
  BY <1>1 DEF Handled, Freed, TypeOK
<1>6. TypeOK'
  BY <1>1, <1>2, <1>3, <1>4, <1>5 DEF Handled, HandledTypes, TypeOK
<1>7. \A t \in Opener : Holding(t)' => opener'[t].id \in Id
  BY <1>1 DEF Handled, TypeInv, Holding
<1>8. \A l \in Slot : Live(slot'[l]) => slot'[l].id \in Id
  <2>1. Live(n) => n.id \in Id
    <3>1. pipe # <<>> /\ pipe' = Tail(pipe) => Head(pipe).id \in Id
      BY <1>1, PopPipe DEF TypeOK, Command
    <3> QED
      BY <1>1, <3>1 DEF Handled, Opens, TypeInv
  <2> QED
    BY <1>1, <1>2, <2>1 DEF TypeInv
<1> QED
  BY <1>6, <1>7, <1>8 DEF TypeInv, Live

(* A handler keeps what is known of ids. *)
LEMMA HandledIdInv ==
    ASSUME SockInv, NEW k, NEW n, NEW x, NEW P, Handled(k, n, x, P)
    PROVE  IdInv'
<1>1. TypeOK /\ TypeInv /\ IdsFresh /\ LiveOpen /\ OpensFirst /\ after = {}
  BY DEF SockInv, TypeInv, IdInv
<1>2. /\ k \in Slot /\ n \in SlotState
      /\ slot'[k] = n /\ \A l \in Slot : l # k => slot'[l] = slot[l]
      /\ UNCHANGED <<alloc_id, opener, issued>> /\ after' = after /\ PipeStep(P, x)
  BY <1>1, PutSlot DEF Handled, TypeOK
<1>3. told' = told \/ (told' = told \cup {x} /\ x \in Id /\ issued[x] # NULL)
  BY HandledId DEF Handled, Opens
<1>4. \/ pipe' = pipe
      \/ /\ pipe # <<>> /\ pipe' = Tail(pipe)
         /\ DOMAIN pipe = 1 .. Len(pipe) /\ Len(pipe) \in Nat
         /\ DOMAIN pipe' = 1 .. Len(pipe) - 1
         /\ \A i \in DOMAIN pipe' : i + 1 \in DOMAIN pipe /\ pipe'[i] = pipe[i + 1]
         /\ 1 \in DOMAIN pipe /\ Head(pipe) = pipe[1]
  BY <1>1, <1>2, PopPipe DEF PipeStep, TypeOK
<1>5. IdsFresh'
  <2>1. \A i \in DOMAIN pipe' : issued[pipe'[i].id] # NULL
    BY <1>1, <1>4 DEF IdsFresh
  <2>2. \A y \in told' : issued[y] # NULL
    BY <1>1, <1>3 DEF IdsFresh
  <2> QED
    BY <1>1, <1>2, <2>1, <2>2 DEF IdsFresh, Holding
<1>6. ASSUME NEW l \in Slot, Live(slot'[l])
      PROVE  /\ slot'[l].id \notin told' /\ issued[slot'[l].id] # NULL
             /\ HASH_ID(slot'[l].id) = l
  <2>1. CASE Live(slot[l]) /\ slot'[l].id = slot[l].id
    <3>1. slot[l].id \notin told /\ issued[slot[l].id] # NULL /\ HASH_ID(slot[l].id) = l
      BY <1>1, <2>1 DEF LiveOpen
    <3>2. told' # told => x # slot'[l].id
      BY <1>2, <1>6, <2>1, <3>1 DEF Handled, Opens
    <3> QED
      BY <1>3, <2>1, <3>1, <3>2
  <2>2. CASE ~ (Live(slot[l]) /\ slot'[l].id = slot[l].id)
    <3>1. l = k /\ slot'[l] = n
      BY <1>2, <1>6, <2>2
    <3>2. /\ pipe # <<>> /\ pipe' = Tail(pipe) /\ Head(pipe).c \in OpenCmd
          /\ n.id = Head(pipe).id /\ k = HASH_ID(n.id) /\ told' = told
      BY <1>6, <2>2, <3>1 DEF Handled, Opens
    <3>3. 1 \in DOMAIN pipe /\ Head(pipe) = pipe[1]
      BY <1>1, <3>2, PopPipe DEF TypeOK
    <3> QED
      BY <1>1, <3>1, <3>2, <3>3 DEF OpensFirst, IdsFresh
  <2> QED
    BY <2>1, <2>2
<1>7. ASSUME NEW i \in DOMAIN pipe', pipe'[i].c \in OpenCmd
      PROVE  /\ pipe'[i].id \notin told'
             /\ \A j \in DOMAIN pipe' : j < i => pipe'[j].id # pipe'[i].id
             /\ \A l \in Slot : Live(slot'[l]) => slot'[l].id # pipe'[i].id
  <2>1. CASE pipe' = pipe
    <3>1. /\ pipe[i].id \notin told
          /\ \A j \in DOMAIN pipe : j < i => pipe[j].id # pipe[i].id
          /\ \A l \in Slot : Live(slot[l]) => slot[l].id # pipe[i].id
      BY <1>1, <1>7, <2>1 DEF OpensFirst
    <3>2. told' # told => \E l \in Slot : Live(slot[l]) /\ slot[l].id = x
      <4>1. ~ (pipe # <<>> /\ pipe' = Tail(pipe))
        BY <1>1, <1>4, <2>1 DEF TypeOK
      <4> QED
        BY <1>2, <4>1 DEF PipeStep
    <3>3. \A l \in Slot : Live(slot'[l]) => Live(slot[l]) /\ slot'[l].id = slot[l].id
      <4>1. ~ (pipe # <<>> /\ pipe' = Tail(pipe))
        BY <1>1, <1>4, <2>1 DEF TypeOK
      <4> QED
        BY <1>2, <4>1 DEF Handled, Opens
    <3> QED
      BY <1>3, <2>1, <3>1, <3>2, <3>3
  <2>2. CASE pipe' # pipe
    <3>1. /\ pipe # <<>> /\ pipe' = Tail(pipe)
          /\ DOMAIN pipe = 1 .. Len(pipe) /\ Len(pipe) \in Nat
          /\ DOMAIN pipe' = 1 .. Len(pipe) - 1
          /\ \A j \in DOMAIN pipe' : j + 1 \in DOMAIN pipe /\ pipe'[j] = pipe[j + 1]
          /\ 1 \in DOMAIN pipe /\ Head(pipe) = pipe[1]
      BY <1>4, <2>2
    <3>2. i + 1 \in DOMAIN pipe /\ pipe'[i] = pipe[i + 1] /\ 1 < i + 1
      BY <3>1
    <3>3. /\ pipe[i + 1].id \notin told
          /\ \A j \in DOMAIN pipe : j < i + 1 => pipe[j].id # pipe[i + 1].id
          /\ \A l \in Slot : Live(slot[l]) => slot[l].id # pipe[i + 1].id
      BY <1>1, <1>7, <3>2 DEF OpensFirst
    <3>4. Head(pipe).id # pipe'[i].id /\ x = Head(pipe).id
      BY <1>2, <2>2, <3>1, <3>2, <3>3 DEF PipeStep
    <3>5. \A j \in DOMAIN pipe' : j < i => pipe'[j].id # pipe'[i].id
      BY <3>1, <3>2, <3>3
    <3>6. \A l \in Slot : Live(slot'[l]) =>
            (Live(slot[l]) /\ slot'[l].id = slot[l].id) \/ slot'[l].id = Head(pipe).id
      BY <1>2 DEF Handled, Opens
    <3> QED
      BY <1>3, <3>2, <3>3, <3>4, <3>5, <3>6
  <2> QED
    BY <2>1, <2>2
<1>8. LiveOpen'
  BY <1>2, <1>6 DEF LiveOpen, Live
<1>9. OpensFirst'
  BY <1>7 DEF OpensFirst, Live
<1>10. Reserved'
  <2>1. Reserved
    BY DEF SockInv, IdInv
  <2>2. ASSUME NEW l \in Slot, slot[l].type = "RESERVE", slot'[l].type # "RESERVE"
        PROVE  Opens(l)
    BY <1>2, <2>2 DEF Handled
  <2>3. /\ \A t \in Opener : opener[t].pc = "set" => HASH_ID(opener[t].id) \in Slot
        /\ \A i \in DOMAIN pipe : HASH_ID(pipe[i].id) \in Slot
    BY Hashes DEF Holding
  <2>4. CASE pipe' = pipe
    <3>1. \A l \in Slot : slot[l].type = "RESERVE" => slot'[l].type = "RESERVE"
      <4>1. ~ (pipe # <<>> /\ pipe' = Tail(pipe))
        BY <1>1, <1>4, <2>4 DEF TypeOK
      <4> QED
        BY <2>2, <4>1 DEF Opens
    <3> QED
      BY <1>2, <2>1, <2>3, <2>4, <3>1 DEF Reserved, Opening
  <2>5. CASE pipe' # pipe
    <3>1. /\ DOMAIN pipe = 1 .. Len(pipe) /\ Len(pipe) \in Nat
          /\ DOMAIN pipe' = 1 .. Len(pipe) - 1
          /\ \A i \in DOMAIN pipe' : i + 1 \in DOMAIN pipe /\ pipe'[i] = pipe[i + 1]
          /\ 1 \in DOMAIN pipe /\ Head(pipe) = pipe[1]
      BY <1>4, <2>5
    <3>2. ASSUME NEW t \in Opener, opener[t].pc = "set"
          PROVE  /\ slot'[HASH_ID(opener[t].id)].type = "RESERVE"
                 /\ \A i \in DOMAIN pipe' : pipe'[i].c \in OpenCmd =>
                        HASH_ID(opener[t].id) # HASH_ID(pipe'[i].id)
      BY <2>1, <2>2, <2>3, <3>1, <3>2 DEF Reserved, Opening, Opens
    <3>3. ASSUME NEW i \in DOMAIN pipe', pipe'[i].c \in OpenCmd
          PROVE  slot'[HASH_ID(pipe'[i].id)].type = "RESERVE"
      <4>1. i + 1 \in DOMAIN pipe /\ i + 1 # 1 /\ pipe'[i] = pipe[i + 1] /\ Opening(i + 1)
        BY <3>1, <3>3 DEF Opening
      <4>2. slot[HASH_ID(pipe'[i].id)].type = "RESERVE" /\ ~ Opens(HASH_ID(pipe'[i].id))
        BY <2>1, <3>1, <4>1 DEF Reserved, Opening, Opens
      <4> QED
        BY <2>2, <2>3, <4>1, <4>2
    <3>4. ASSUME NEW i \in DOMAIN pipe', NEW j \in DOMAIN pipe', pipe'[i].c \in OpenCmd,
                 pipe'[j].c \in OpenCmd, HASH_ID(pipe'[i].id) = HASH_ID(pipe'[j].id)
          PROVE  i = j
      <4>1. i + 1 = j + 1
        BY <2>1, <3>1, <3>4 DEF Reserved, Opening
      <4> QED
        BY <3>1, <4>1
    <3> QED
      BY <1>2, <2>1, <3>2, <3>3, <3>4 DEF Reserved, Opening
  <2> QED
    BY <2>4, <2>5
<1> QED
  BY <1>1, <1>2, <1>5, <1>8, <1>9, <1>10 DEF IdInv

(* A handler keeps what is known of packages. *)
LEMMA HandledBufInv ==
    ASSUME SockInv, NEW k, NEW n, NEW x, NEW P, Handled(k, n, x, P)
    PROVE  BufInv'
<1>1. TypeOK /\ BufInv /\ slot \in [Slot -> SlotState] /\ pipe \in Seq(Command)
  BY DEF SockInv, TypeInv, TypeOK
<1>2. /\ k \in Slot /\ n \in SlotState
      /\ slot'[k] = n /\ \A l \in Slot : l # k => slot'[l] = slot[l]
      /\ pkg' = pkg /\ PipeStep(P, x)
  BY <1>1, PutSlot DEF Handled
<1>3. \/ pipe' = pipe
      \/ /\ DOMAIN pipe = 1 .. Len(pipe) /\ Len(pipe) \in Nat
         /\ DOMAIN pipe' = 1 .. Len(pipe) - 1
         /\ \A i \in DOMAIN pipe' : i + 1 \in DOMAIN pipe /\ pipe'[i] = pipe[i + 1]
         /\ 1 \in DOMAIN pipe /\ P = {pipe[1].pkg} \ {0}
  BY <1>1, <1>2, PopPipe DEF PipeStep
<1>4. \A i \in DOMAIN pipe' : pipe'[i].c \in {"D", "P"} <=> pipe'[i].pkg # 0
  BY <1>1, <1>3 DEF BufInv
<1>5. \A i, j \in DOMAIN pipe' : pipe'[i].pkg = pipe'[j].pkg /\ pipe'[i].pkg # 0 => i = j
  <2>1. CASE pipe' = pipe
    BY <1>1, <2>1 DEF BufInv
  <2>2. CASE pipe' # pipe
    <3> SUFFICES ASSUME NEW i \in DOMAIN pipe', NEW j \in DOMAIN pipe',
                        pipe'[i].pkg = pipe'[j].pkg, pipe'[i].pkg # 0
                 PROVE  i = j
      OBVIOUS
    <3>1. i + 1 = j + 1
      BY <1>1, <1>3, <2>2 DEF BufInv
    <3> QED
      BY <1>3, <2>2, <3>1
  <2> QED
    BY <2>1, <2>2
<1>6. ASSUME NEW p \in Pkg PROVE InPipe(p)' <=> InPipe(p) /\ p \notin P
  <2>1. CASE pipe' = pipe
    <3>1. P = {}
      <4>1. ~ (pipe # <<>> /\ pipe' = Tail(pipe))
        BY <1>1, <2>1
      <4> QED
        BY <1>2, <4>1 DEF PipeStep
    <3> QED
      BY <2>1, <3>1 DEF InPipe
  <2>2. CASE pipe' # pipe
    <3>1. p # 0
      BY SocketAssumption DEF Pkg
    <3>2. ASSUME NEW i \in DOMAIN pipe', pipe'[i].pkg = p PROVE InPipe(p) /\ p # pipe[1].pkg
      <4>1. i + 1 \in DOMAIN pipe /\ pipe[i + 1].pkg = p /\ i + 1 # 1
        BY <1>3, <2>2, <3>2
      <4> QED
        BY <1>1, <1>3, <2>2, <3>1, <4>1 DEF InPipe, BufInv
    <3>3. ASSUME NEW i \in DOMAIN pipe, pipe[i].pkg = p, p # pipe[1].pkg PROVE InPipe(p)'
      <4>1. i - 1 \in DOMAIN pipe' /\ (i - 1) + 1 = i
        BY <1>3, <2>2, <3>3
      <4>2. pipe'[i - 1] = pipe[i]
        BY <1>3, <2>2, <4>1
      <4> QED
        BY <3>3, <4>1, <4>2 DEF InPipe
    <3> QED
      BY <1>3, <2>2, <3>1, <3>2, <3>3 DEF InPipe
  <2> QED
    BY <2>1, <2>2
<1>7. \A p \in P : p \in Pkg /\ InPipe(p)
  <2>1. pipe # <<>> /\ pipe' = Tail(pipe) => Head(pipe).pkg \in {0} \cup Pkg /\ 1 \in DOMAIN pipe /\ Head(pipe) = pipe[1]
    BY <1>1, PopPipe DEF Command
  <2> QED
    BY <1>2, <2>1 DEF PipeStep, InPipe
<1>8. /\ Queued(n) \subseteq Queued(slot[k]) \cup P
      /\ freed' = [p \in Pkg |-> IF p \in (Queued(slot[k]) \cup P) \ Queued(n)
                                 THEN freed[p] + 1 ELSE freed[p]]
  BY DEF Handled, Freed
<1>9. \A p \in Pkg : IsQueued(p)' <=> p \in Queued(n) \/ \E l \in Slot : l # k /\ p \in Queued(slot[l])
  <2>1. \A p \in Pkg : IsQueued(p)' <=> \E l \in Slot : p \in Queued(slot'[l])
    BY DEF IsQueued, Queued
  <2> QED
    BY <1>2, <2>1
<1>10. \A p \in Pkg : IsQueued(p) <=> p \in Queued(slot[k]) \/ \E l \in Slot : l # k /\ p \in Queued(slot[l])
  BY <1>2 DEF IsQueued
<1>11. /\ \A p \in Pkg : p \in Queued(slot[k]) => ~ \E l \in Slot : l # k /\ p \in Queued(slot[l])
       /\ \A p \in Pkg : InPipe(p) => ~ IsQueued(p)
       /\ \A p \in Pkg : InPipe(p) \/ IsQueued(p) => p <= Len(pkg)
  BY <1>1, <1>2 DEF BufInv
<1>12. \A i, j \in Slot : \A p \in Pkg : p \in Queued(slot'[i]) /\ p \in Queued(slot'[j]) => i = j
  <2> SUFFICES ASSUME NEW i \in Slot, NEW j \in Slot, NEW p \in Pkg, i # j,
                      p \in Queued(slot'[i]), p \in Queued(slot'[j])
               PROVE  FALSE
    OBVIOUS
  <2>1. CASE i # k /\ j # k
    BY <1>1, <1>2, <2>1 DEF BufInv
  <2>2. CASE i = k
    BY <1>2, <1>7, <1>8, <1>10, <1>11, <2>2
  <2>3. CASE j = k
    BY <1>2, <1>7, <1>8, <1>10, <1>11, <2>3
  <2> QED
    BY <2>1, <2>2, <2>3
<1>13. ASSUME NEW p \in Pkg
       PROVE  /\ freed'[p] = IF p <= Len(pkg) /\ ~ InPipe(p)' /\ ~ IsQueued(p)' THEN 1 ELSE 0
              /\ InPipe(p)' => p <= Len(pkg) /\ ~ IsQueued(p)'
              /\ IsQueued(p)' => p <= Len(pkg)
  <2>1. freed[p] = IF p <= Len(pkg) /\ ~ InPipe(p) /\ ~ IsQueued(p) THEN 1 ELSE 0
    BY <1>1 DEF BufInv
  <2>2. CASE p \in (Queued(slot[k]) \cup P) \ Queued(n)
    <3>1. p <= Len(pkg) /\ freed[p] = 0 /\ ~ InPipe(p)' /\ ~ IsQueued(p)'
      BY <1>6, <1>7, <1>9, <1>10, <1>11, <2>1, <2>2
    <3>2. freed'[p] = freed[p] + 1
      BY <1>8, <2>2
    <3> QED
      BY <3>1, <3>2
  <2>3. CASE p \in Queued(n)
    <3>1. p <= Len(pkg) /\ freed[p] = 0 /\ ~ InPipe(p)' /\ IsQueued(p)'
      BY <1>6, <1>7, <1>8, <1>9, <1>10, <1>11, <2>1, <2>3
    <3>2. freed'[p] = freed[p]
      BY <1>8, <2>3
    <3> QED
      BY <3>1, <3>2
  <2>4. CASE p \notin Queued(slot[k]) \cup P
    <3>1. (InPipe(p)' <=> InPipe(p)) /\ (IsQueued(p)' <=> IsQueued(p))
      BY <1>6, <1>8, <1>9, <1>10, <2>4
    <3>2. freed'[p] = freed[p]
      BY <1>8, <2>4
    <3> QED
      BY <1>11, <2>1, <3>1, <3>2
  <2> QED
    BY <2>2, <2>3, <2>4
<1>14. /\ \A p \in Pkg : freed'[p] = IF p <= Len(pkg') /\ ~ InPipe(p)' /\ ~ IsQueued(p)' THEN 1 ELSE 0
       /\ \A p \in Pkg : InPipe(p)' => p <= Len(pkg') /\ ~ IsQueued(p)'
       /\ \A p \in Pkg : IsQueued(p)' => p <= Len(pkg')
  BY <1>2, <1>13
<1>15. Len(pkg') <= MaxPkg
  BY <1>1, <1>2 DEF BufInv
<1> QED
  BY <1>4, <1>5, <1>12, <1>14, <1>15 DEF BufInv, Queued

(* A handler keeps the invariant. *)
LEMMA HandledStep ==
    ASSUME SockInv, NEW k, NEW n, NEW x, NEW P, Handled(k, n, x, P), HandledTypes
    PROVE  SockInv'
<1>1. \A l \in Slot : ArmOK(slot[l])
  BY DEF SockInv
<1>2. slot \in [Slot -> SlotState] /\ k \in Slot /\ n \in SlotState
      /\ slot' = [slot EXCEPT ![k] = n] /\ ArmOK(n)
  BY DEF SockInv, TypeInv, TypeOK, Handled
<1>3. \A l \in Slot : ArmOK(slot'[l])
  BY <1>1, <1>2, PutSlot
<1>4. (\A l \in Slot : ArmOK(slot[l]))'
  BY <1>3 DEF ArmOK, send_buffer_empty
<1> QED
  BY <1>4, HandledTypeInv, HandledIdInv, HandledBufInv DEF SockInv

-----------------------------------------------------------------------------
(* The handlers *)

(* A slot that is left alone. *)
LEMMA Untouched ==
    ASSUME SockInv, NEW k \in Slot
    PROVE  /\ slot[k] \in SlotState /\ ArmOK(slot[k])
           /\ slot' = slot => slot' = [slot EXCEPT ![k] = slot[k]]
           /\ freed' = freed => Freed({})
           /\ Queued(slot[k]) \subseteq Pkg
<1>1. slot \in [Slot -> SlotState] /\ freed \in [Pkg -> Nat] /\ \A l \in Slot : ArmOK(slot[l])
  BY DEF SockInv, TypeInv, TypeOK
<1>2. slot[k] \in SlotState /\ ArmOK(slot[k])
  BY <1>1
<1>3. slot' = slot => slot' = [slot EXCEPT ![k] = slot[k]]
  BY <1>1
<1>4. freed' = freed => Freed({})
  BY <1>1 DEF Freed
<1> QED
  BY <1>2, <1>3, <1>4, QueuedPkg

(* What is reported, when it is not about a closed id. *)
LEMMA Reported ==
    ASSUME NEW m, NEW x, Report(m, x), x \notin told \/ m \in {"close", "error"}
    PROVE  /\ after' = after
           /\ told' = told \/ told' = told \cup {x}
           /\ m # "close" => told' = told
  BY DEF Report

(* The socket thread takes the command r. *)
Takes(r) ==
    /\ pipe # <<>> /\ r = Head(pipe) /\ pipe' = Tail(pipe)
    /\ UNCHANGED <<opener, ev, ncmd>>

(* It is about an id, and no package but one to be sent comes with it. *)
LEMMA Taken ==
    ASSUME SockInv, NEW r, Takes(r)
    PROVE  /\ r \in Command /\ r.id \in Id /\ HASH_ID(r.id) \in Slot
           /\ PipeStep({r.pkg} \ {0}, r.id) /\ issued[r.id] # NULL
           /\ r.c \in {"D", "P"} <=> r.pkg # 0
           /\ r.c \in OpenCmd => r.id \notin told
<1>1. pipe \in Seq(Command)
  BY DEF SockInv, TypeInv, TypeOK
<1>2. r \in Command /\ 1 \in DOMAIN pipe /\ r = pipe[1] /\ r = Head(pipe)
  BY <1>1, PopPipe DEF Takes
<1>3. r.id \in Id /\ r.id \in Nat
  BY <1>2, SocketAssumption DEF Command, Id
<1>4. PipeStep({r.pkg} \ {0}, r.id)
  BY DEF Takes, PipeStep
<1>5. issued[r.id] # NULL /\ (r.c \in {"D", "P"} <=> r.pkg # 0)
      /\ (r.c \in OpenCmd => r.id \notin told)
  BY <1>2 DEF SockInv, IdInv, IdsFresh, OpensFirst, BufInv
<1> QED
  BY <1>2, <1>3, <1>4, <1>5, HashSlot

(* A failed assertion stops everything as it is. *)
LEMMA CrashStep ==
    ASSUME SockInv, NEW r, Takes(r), r.pkg = 0,
           NEW m \in {"reserve", "lists", "uncomplete"}, CmdCrash(m)
    PROVE  SockInv'
<1>1. HASH_ID(r.id) \in Slot /\ PipeStep({}, r.id)
  <2>1. {r.pkg} \ {0} = {}
    OBVIOUS
  <2> QED
    BY <2>1, Taken
<1> DEFINE k == HASH_ID(r.id)
<1>2. /\ slot[k] \in SlotState /\ ArmOK(slot[k]) /\ slot' = [slot EXCEPT ![k] = slot[k]]
      /\ Freed({})
  BY <1>1, Untouched DEF CmdCrash, Crash, history
<1>3. (Queued(slot[k]) \cup {}) \ Queued(slot[k]) = {}
  OBVIOUS
<1>4. Handled(k, slot[k], r.id, {})
  BY <1>1, <1>2, <1>3 DEF Handled, CmdCrash, Crash, history, Takes
<1>5. HandledTypes
  BY DEF HandledTypes, CmdCrash, Crash, history, Takes, SockInv, TypeInv, TypeOK
<1> QED
  BY <1>4, <1>5, HandledStep

(* open_socket, listen_socket, bind_socket and add_udp_socket. *)
LEMMA NewFdStep ==
    ASSUME SockInv, NEW r, Takes(r), r.c \in OpenCmd, new_fd(r)
    PROVE  SockInv'
<1> DEFINE k == HASH_ID(r.id)
<1>1. /\ r \in Command /\ r.id \in Id /\ k \in Slot /\ r.id \notin told
      /\ r.pkg = 0 /\ PipeStep({}, r.id)
  <2>1. r.pkg = 0
    BY Taken DEF OpenCmd
  <2>2. {r.pkg} \ {0} = {}
    BY <2>1
  <2> QED
    BY <2>1, <2>2, Taken
<1>2. PICK o \in OpenOutcome(r.c) :
        IF slot[k].type # "RESERVE" THEN CmdCrash("reserve")
        ELSE IF o.type # "INVALID" /\ ~ send_buffer_empty(slot[k]) THEN CmdCrash("lists")
        ELSE /\ slot' = [slot EXCEPT ![k] =
                    IF o.type = "INVALID" THEN [@ EXCEPT !.type = "INVALID"]
                    ELSE [type |-> o.type, id |-> r.id, protocol |-> o.protocol,
                          high |-> <<>>, low |-> <<>>, armed |-> o.type = "CONNECTING"]]
             /\ IF o.msg = "none" THEN Silent ELSE Report(o.msg, r.id)
             /\ IF o.msg = "error" THEN ClearNext(r.id) ELSE UNCHANGED <<at, clr>>
             /\ UNCHANGED <<alloc_id, issued, pkg, freed, wire, broken, refused, crashed>>
  BY DEF new_fd
<1>3. /\ o.type \in {"INVALID", "CONNECTED", "CONNECTING", "PLISTEN", "BIND"}
      /\ o.protocol \in {"tcp", "udp", "bind"} /\ o.msg \in {"none", "error", "open"}
      /\ o.type = "BIND" => o.protocol = "bind"
  BY DEF OpenOutcome, OpenCmd
<1>4. CASE slot[k].type # "RESERVE"
  BY <1>1, <1>2, <1>4, CrashStep
<1>5. CASE slot[k].type = "RESERVE" /\ o.type # "INVALID" /\ ~ send_buffer_empty(slot[k])
  BY <1>1, <1>2, <1>5, CrashStep
<1>6. CASE slot[k].type = "RESERVE" /\ ~ (o.type # "INVALID" /\ ~ send_buffer_empty(slot[k]))
  <2>1. /\ slot' = [slot EXCEPT ![k] =
                    IF o.type = "INVALID" THEN [@ EXCEPT !.type = "INVALID"]
                    ELSE [type |-> o.type, id |-> r.id, protocol |-> o.protocol,
                          high |-> <<>>, low |-> <<>>, armed |-> o.type = "CONNECTING"]]
        /\ IF o.msg = "none" THEN Silent ELSE Report(o.msg, r.id)
        /\ IF o.msg = "error" THEN ClearNext(r.id) ELSE UNCHANGED <<at, clr>>
        /\ UNCHANGED <<alloc_id, issued, pkg, freed, wire, broken, refused, crashed>>
    BY <1>2, <1>6
  <2>2. slot[k] \in SlotState /\ Freed({})
    BY <1>1, <2>1, Untouched
  <2>3. told' = told /\ after' = after
    BY <1>1, <1>3, <2>1, Reported DEF Silent
  <2>4. HandledTypes
    BY <1>1, <2>1 DEF HandledTypes, ClearNext, Takes, SockInv, TypeInv, TypeOK
  <2>5. CASE o.type = "INVALID"
    <3>1. PICK n : n = [slot[k] EXCEPT !.type = "INVALID"]
      OBVIOUS
    <3>2. /\ n \in SlotState /\ n.type = "INVALID" /\ n.high = slot[k].high /\ n.low = slot[k].low
      BY <2>2, <3>1 DEF SlotState, Type
    <3>3. slot' = [slot EXCEPT ![k] = n]
      BY <2>1, <2>5, <3>1
    <3>4. Queued(n) = Queued(slot[k]) /\ ArmOK(n) /\ ~ Live(n)
      BY <3>2 DEF Queued, ArmOK, Live
    <3>5. (Queued(slot[k]) \cup {}) \ Queued(n) = {}
      BY <3>4
    <3>6. Handled(k, n, r.id, {})
      BY <1>1, <2>1, <2>2, <2>3, <3>2, <3>3, <3>4, <3>5 DEF Handled, Takes, Opens
    <3> QED
      BY <2>4, <3>6, HandledStep
  <2>6. CASE o.type # "INVALID"
    <3>1. PICK n : n = [type |-> o.type, id |-> r.id, protocol |-> o.protocol,
                        high |-> <<>>, low |-> <<>>, armed |-> o.type = "CONNECTING"]
      OBVIOUS
    <3>2. /\ n.type = o.type /\ n.id = r.id /\ n.protocol = o.protocol
          /\ n.high = <<>> /\ n.low = <<>>
      BY <3>1
    <3>3. n \in SlotState
      <4>1. (o.type = "CONNECTING") \in BOOLEAN /\ <<>> \in Seq(Pkg)
        OBVIOUS
      <4> QED
        BY <1>1, <1>3, <3>1, <4>1 DEF SlotState, Type
    <3>4. o.type = "CONNECTING" => n.armed
      BY <3>1
    <3>5. slot' = [slot EXCEPT ![k] = n]
      BY <2>1, <2>6, <3>1
    <3>6. Queued(n) = {} /\ Queued(slot[k]) = {}
      BY <1>6, <2>6, <3>2 DEF Queued, ToSet, send_buffer_empty
    <3>7. ArmOK(n)
      BY <1>3, <3>2, <3>4 DEF ArmOK, send_buffer_empty
    <3>8. (Queued(slot[k]) \cup {}) \ Queued(n) = {} /\ Queued(n) \subseteq Queued(slot[k]) \cup {}
      BY <3>6
    <3>9. Handled(k, n, r.id, {})
      BY <1>1, <2>1, <2>2, <2>3, <3>2, <3>3, <3>5, <3>7, <3>8 DEF Handled, Takes, Opens
    <3> QED
      BY <2>4, <3>9, HandledStep
  <2> QED
    BY <2>5, <2>6
<1> QED
  BY <1>4, <1>5, <1>6

(* The package of a command is in no list. *)
LEMMA PipePkg ==
    ASSUME SockInv, NEW P, NEW x, PipeStep(P, x), NEW k \in Slot
    PROVE  P \subseteq Pkg /\ P \cap Queued(slot[k]) = {}
<1>1. pipe \in Seq(Command) /\ BufInv
  BY DEF SockInv, TypeInv, TypeOK
<1>2. CASE P = {}
  BY <1>2
<1>3. CASE pipe # <<>> /\ pipe' = Tail(pipe) /\ P = {Head(pipe).pkg} \ {0}
  <2>1. Head(pipe) \in Command /\ 1 \in DOMAIN pipe /\ Head(pipe) = pipe[1]
    BY <1>1, <1>3, PopPipe
  <2>2. Head(pipe).pkg \in {0} \cup Pkg
    BY <2>1 DEF Command
  <2>3. ASSUME NEW p \in P PROVE p \in Pkg /\ ~ IsQueued(p)
    <3>1. p \in Pkg /\ InPipe(p)
      BY <1>3, <2>1, <2>2, <2>3 DEF InPipe
    <3> QED
      BY <1>1, <3>1 DEF BufInv
  <2> QED
    BY <2>3 DEF IsQueued
<1> QED
  BY <1>2, <1>3 DEF PipeStep

(* A handler that leaves its slot alone. *)
LEMMA KeepHandled ==
    ASSUME SockInv, NEW k \in Slot, NEW x, NEW P, PipeStep(P, x),
           slot' = slot, Freed(P),
           \/ told' = told
           \/ told' = told \cup {x} /\ k = HASH_ID(x) /\ ~ (Live(slot[k]) /\ slot[k].id = x),
           after' = after, UNCHANGED <<alloc_id, opener, ncmd, issued, pkg>>
    PROVE  Handled(k, slot[k], x, P)
<1>1. slot[k] \in SlotState /\ ArmOK(slot[k]) /\ slot' = [slot EXCEPT ![k] = slot[k]]
  BY Untouched
<1>2. (Queued(slot[k]) \cup P) \ Queued(slot[k]) = P
  BY PipePkg
<1> QED
  BY <1>1, <1>2 DEF Handled

(* A handler that closes its slot. *)
LEMMA CloseHandled ==
    ASSUME SockInv, NEW k \in Slot, NEW x, NEW P, PipeStep(P, x), slot[k].type # "RESERVE",
           slot' = [slot EXCEPT ![k] = force_close(slot[k])], Freed(Queued(slot[k]) \cup P),
           told' = told \/ (told' = told \cup {x} /\ k = HASH_ID(x)),
           after' = after, UNCHANGED <<alloc_id, opener, ncmd, issued, pkg>>
    PROVE  Handled(k, force_close(slot[k]), x, P)
<1>1. slot[k] \in SlotState
  BY Untouched
<1>2. PICK n : n = force_close(slot[k])
  OBVIOUS
<1>3. n \in SlotState /\ n.type = "INVALID" /\ Queued(n) = {}
  BY <1>1, <1>2, ForceClose
<1>4. ArmOK(n) /\ ~ Live(n)
  BY <1>3 DEF ArmOK, Live
<1>5. (Queued(slot[k]) \cup P) \ Queued(n) = Queued(slot[k]) \cup P
  BY <1>3
<1>6. Handled(k, n, x, P)
  BY <1>2, <1>3, <1>4, <1>5 DEF Handled
<1> QED
  BY <1>2, <1>6

(* start_socket. *)
LEMMA StartStep ==
    ASSUME SockInv, NEW r, Takes(r), r.c = "S", start_socket(r)
    PROVE  SockInv'
<1> DEFINE k == HASH_ID(r.id)
<1>1. r \in Command /\ r.id \in Id /\ k \in Slot /\ PipeStep({}, r.id)
  <2>1. r.pkg = 0
    BY Taken
  <2>2. {r.pkg} \ {0} = {}
    BY <2>1
  <2> QED
    BY <2>2, Taken
<1>2. UNCHANGED <<alloc_id, opener, ncmd, issued, pkg>>
  BY DEF start_socket, Takes
<1>3. slot[k] \in SlotState /\ ArmOK(slot[k]) /\ Freed({}) /\ slot \in [Slot -> SlotState]
  BY <1>1, Untouched DEF start_socket, SockInv, TypeInv, TypeOK
<1>4. HandledTypes
  BY <1>1 DEF HandledTypes, start_socket, ClearNext, Takes, SockInv, TypeInv, TypeOK
<1>5. Live(slot[k]) /\ slot[k].id = r.id => r.id \notin told
  BY <1>1 DEF SockInv, IdInv, LiveOpen
<1>6. CASE ~ Current(r)
  <2>1. Report("error", r.id) /\ slot' = slot
    BY <1>6 DEF start_socket
  <2>2. told' = told /\ after' = after
    BY <2>1, Reported
  <2>3. Handled(k, slot[k], r.id, {})
    BY <1>1, <1>2, <1>3, <2>1, <2>2, KeepHandled
  <2> QED
    BY <1>4, <2>3, HandledStep
<1>7. CASE Current(r) /\ slot[k].type \in {"PACCEPT", "PLISTEN"}
  <2>1. r.id \notin told /\ slot[k].id = r.id /\ Live(slot[k])
    BY <1>5, <1>7 DEF Current, Live
  <2>2. CASE /\ slot' = [slot EXCEPT ![k].type = IF @ = "PACCEPT" THEN "CONNECTED" ELSE "LISTEN"]
             /\ Report("open", r.id)
    <3>1. PICK n : n = [slot[k] EXCEPT !.type = IF @ = "PACCEPT" THEN "CONNECTED" ELSE "LISTEN"]
      OBVIOUS
    <3>2. /\ n \in SlotState /\ n.type \in {"CONNECTED", "LISTEN"} /\ n.id = slot[k].id
          /\ n.high = slot[k].high /\ n.low = slot[k].low
      BY <1>3, <3>1 DEF SlotState, Type
    <3>3. slot' = [slot EXCEPT ![k] = n]
      BY <1>3, <2>2, <3>1
    <3>4. Queued(n) = Queued(slot[k]) /\ ArmOK(n)
      BY <1>3, <1>7, <3>2 DEF Queued, ArmOK, send_buffer_empty
    <3>5. told' = told /\ after' = after
      BY <2>1, <2>2, Reported
    <3>6. (Queued(slot[k]) \cup {}) \ Queued(n) = {}
      BY <3>4
    <3>7. Handled(k, n, r.id, {})
      BY <1>1, <1>2, <1>3, <1>7, <2>1, <3>2, <3>3, <3>4, <3>5, <3>6 DEF Handled
    <3> QED
      BY <1>4, <3>7, HandledStep
  <2>3. CASE slot' = [slot EXCEPT ![k] = force_close(slot[k])] /\ Report("error", r.id)
    <3>1. Queued(slot[k]) \cup {} = {}
      BY <1>3, <1>7 DEF ArmOK, send_buffer_empty, Queued, ToSet
    <3>2. told' = told /\ after' = after
      BY <2>3, Reported
    <3>3. Handled(k, force_close(slot[k]), r.id, {})
      BY <1>1, <1>2, <1>3, <1>7, <2>3, <3>1, <3>2, CloseHandled
    <3> QED
      BY <1>4, <3>3, HandledStep
  <2> QED
    BY <1>7, <2>2, <2>3 DEF start_socket
<1>8. CASE Current(r) /\ slot[k].type \notin {"PACCEPT", "PLISTEN"}
  <2>1. /\ IF slot[k].type = "CONNECTED" THEN Report("open", r.id) ELSE Silent
        /\ slot' = slot
    BY <1>8 DEF start_socket
  <2>2. slot[k].type = "CONNECTED" => r.id \notin told
    BY <1>5, <1>8 DEF Current, Live
  <2>3. told' = told /\ after' = after
    BY <2>1, <2>2, Reported DEF Silent
  <2>4. Handled(k, slot[k], r.id, {})
    BY <1>1, <1>2, <1>3, <2>1, <2>3, KeepHandled
  <2> QED
    BY <1>4, <2>4, HandledStep
<1> QED
  BY <1>6, <1>7, <1>8

(* set_udp_address. *)
LEMMA UdpStep ==
    ASSUME SockInv, NEW r, Takes(r), r.c = "C", set_udp_address(r)
    PROVE  SockInv'
<1>1. r \in Command /\ r.id \in Id /\ HASH_ID(r.id) \in Slot /\ PipeStep({}, r.id)
  <2>1. r.pkg = 0
    BY Taken
  <2>2. {r.pkg} \ {0} = {}
    BY <2>1
  <2> QED
    BY <2>2, Taken
<1>2. slot' = slot /\ UNCHANGED <<alloc_id, opener, ncmd, issued, pkg>> /\ Freed({})
  BY <1>1, Untouched DEF set_udp_address, Takes
<1>3. told' = told /\ after' = after
  BY Reported DEF set_udp_address, Silent
<1>4. HandledTypes
  BY <1>1 DEF HandledTypes, set_udp_address, ClearNext, Takes, SockInv, TypeInv, TypeOK
<1>5. Handled(HASH_ID(r.id), slot[HASH_ID(r.id)], r.id, {})
  BY <1>1, <1>2, <1>3, KeepHandled
<1> QED
  BY <1>4, <1>5, HandledStep

(* Bytes are written for an id. *)
LEMMA WireType ==
    ASSUME SockInv, NEW x, NEW o \in Seq(Pkg), wire' = [wire EXCEPT ![x] = @ \o o]
    PROVE  wire' \in [Id -> Seq(Pkg)]
<1>1. wire \in [Id -> Seq(Pkg)]
  BY DEF SockInv, TypeInv, TypeOK
<1>2. CASE x \in Id
  <2>1. PICK l \in Seq(Pkg) : l = wire[x] \o o
    BY <1>1, <1>2, Elements
  <2> QED
    BY <1>1, <1>2, <2>1
<1>3. CASE x \notin Id
  BY <1>1, <1>3
<1> QED
  BY <1>2, <1>3

(* close_socket. *)
LEMMA CloseStep ==
    ASSUME SockInv, NEW r, Takes(r), r.c = "K", close_socket(r)
    PROVE  SockInv'
<1> DEFINE k == HASH_ID(r.id)
           s == slot[k]
           shut(w) == w.error \/ r.shutdown \/ send_buffer_empty(w.slot)
           left(w) == IF shut(w) THEN force_close(w.slot) ELSE [w.slot EXCEPT !.type = "HALFCLOSE"]
<1>1. r \in Command /\ r.id \in Id /\ k \in Slot /\ PipeStep({}, r.id) /\ r.pkg = 0
  <2>1. r.pkg = 0
    BY Taken
  <2>2. {r.pkg} \ {0} = {}
    BY <2>1
  <2> QED
    BY <2>1, <2>2, Taken
<1>2. s \in SlotState /\ ArmOK(s)
  BY <1>1, Untouched
<1>3. CASE ~ Current(r)
  <2>1. /\ Report("close", r.id) /\ ClearNext(r.id) /\ slot' = slot
        /\ UNCHANGED <<alloc_id, opener, ncmd, issued, pkg, freed, wire, broken, refused, crashed>>
    BY <1>3 DEF close_socket, Takes
  <2>2. after' = after /\ (told' = told \/ told' = told \cup {r.id}) /\ Freed({})
    BY <1>1, <2>1, Reported, Untouched
  <2>3. ~ (Live(s) /\ s.id = r.id)
    BY <1>3 DEF Current, Live
  <2>4. HandledTypes
    BY <1>1, <2>1 DEF HandledTypes, ClearNext, Takes, SockInv, TypeInv, TypeOK
  <2>5. Handled(k, s, r.id, {})
    BY <1>1, <2>1, <2>2, <2>3, KeepHandled
  <2> QED
    BY <2>4, <2>5, HandledStep
<1>4. CASE Current(r) /\ s.type = "RESERVE"
  BY <1>1, <1>4, CrashStep DEF close_socket
<1>5. CASE Current(r) /\ s.type # "RESERVE" /\ list_uncomplete(s.low)
  BY <1>1, <1>5, CrashStep DEF close_socket
<1>6. CASE Current(r) /\ s.type # "RESERVE" /\ ~ list_uncomplete(s.low)
  <2>1. PICK w \in IF send_buffer_empty(s) THEN {[slot |-> s, out |-> <<>>, error |-> FALSE]}
                   ELSE send_buffer(s) :
            /\ slot' = [slot EXCEPT ![k] = left(w)]
            /\ wire' = [wire EXCEPT ![r.id] = @ \o w.out]
            /\ Freed(Queued(s) \ Queued(left(w)))
            /\ Break(r.id, w.error \/ r.shutdown)
            /\ IF shut(w) THEN Report("close", r.id) /\ ClearNext(r.id)
               ELSE Silent /\ UNCHANGED <<at, clr>>
            /\ UNCHANGED <<alloc_id, issued, pkg, refused, crashed>>
    BY <1>6 DEF close_socket
  <2>2. /\ Shrinks(s, w.slot) /\ w.out \in Seq(Pkg)
        /\ send_buffer_empty(s) => send_buffer_empty(w.slot)
    <3>1. CASE send_buffer_empty(s)
      <4>1. w.slot = s /\ w.out = <<>>
        BY <2>1, <3>1
      <4> QED
        BY <1>2, <3>1, <4>1 DEF Shrinks
    <3>2. CASE ~ send_buffer_empty(s)
      BY <1>2, <2>1, <3>2, SendBuffer
    <3> QED
      BY <3>1, <3>2
  <2>3. PICK n : n = left(w)
    OBVIOUS
  <2>4. Live(s) /\ s.id = r.id
    BY <1>6 DEF Current, Live
  <2>5. /\ n \in SlotState /\ ArmOK(n) /\ Queued(n) \subseteq Queued(s)
        /\ n.id = s.id /\ (shut(w) => ~ Live(n))
    <3>1. CASE shut(w)
      <4>1. n = force_close(w.slot) /\ w.slot \in SlotState /\ w.slot.id = s.id
        BY <2>2, <2>3, <3>1 DEF Shrinks
      <4>2. n \in SlotState /\ n.type = "INVALID" /\ n.id = s.id /\ Queued(n) = {}
        BY <4>1, ForceClose
      <4> QED
        BY <4>2 DEF ArmOK, Live
    <3>2. CASE ~ shut(w)
      <4>1. n = [w.slot EXCEPT !.type = "HALFCLOSE"] /\ w.slot \in SlotState
        BY <2>2, <2>3, <3>2 DEF Shrinks
      <4>2. /\ n \in SlotState /\ n.type = "HALFCLOSE" /\ n.id = w.slot.id
            /\ n.protocol = w.slot.protocol /\ n.high = w.slot.high /\ n.low = w.slot.low
        BY <4>1 DEF SlotState, Type
      <4>3. n.armed = w.slot.armed
        BY <4>1 DEF SlotState
      <4>4. w.slot.armed = s.armed /\ ~ send_buffer_empty(s)
        BY <2>2, <3>2 DEF Shrinks
      <4>5. n.protocol # "bind" => s.armed
        <5>1. n.protocol = s.protocol
          BY <2>2, <4>2 DEF Shrinks
        <5>2. s.type \in Type
          BY <1>2 DEF SlotState
        <5> QED
          BY <1>2, <2>4, <4>4, <5>1, <5>2 DEF ArmOK, Type, Live
      <4>6. ArmOK(n)
        BY <4>2, <4>3, <4>4, <4>5 DEF ArmOK
      <4> QED
        BY <2>2, <3>2, <4>2, <4>6 DEF Shrinks, Queued
    <3> QED
      BY <3>1, <3>2
  <2>6. /\ slot' = [slot EXCEPT ![k] = n] /\ Freed(Queued(s) \ Queued(n))
        /\ UNCHANGED <<alloc_id, opener, ncmd, issued, pkg>>
    BY <2>1, <2>3 DEF Takes
  <2>7. (Queued(s) \cup {}) \ Queued(n) = Queued(s) \ Queued(n)
    OBVIOUS
  <2>8. /\ after' = after
        /\ told' = told \/ (told' = told \cup {r.id} /\ shut(w))
    BY <2>1, Reported DEF Silent
  <2>9. wire' \in [Id -> Seq(Pkg)]
    BY <1>1, <2>1, <2>2, WireType
  <2>10. HandledTypes
    BY <1>1, <2>1, <2>9 DEF HandledTypes, ClearNext, Break, Takes, SockInv, TypeInv, TypeOK
  <2>11. Handled(k, n, r.id, {})
    BY <1>1, <1>6, <2>4, <2>5, <2>6, <2>7, <2>8 DEF Handled
  <2> QED
    BY <2>10, <2>11, HandledStep
<1> QED
  BY <1>3, <1>4, <1>5, <1>6

(* The bytes of a package, and what is left of them after a write. *)
LEMMA Bytes ==
    ASSUME NEW p \in Pkg, NEW b, b = [i \in 1 .. Size |-> p], NEW n \in 0 .. Size
    PROVE  /\ b \in Seq(Pkg) /\ Len(b) = Size /\ ToSet(b) = {p} /\ b # <<>>
           /\ SubSeq(b, 1, n) \in Seq(Pkg) /\ Rest(b, n) \in Seq(Pkg)
           /\ n # Size => ToSet(Rest(b, n)) = {p} /\ Rest(b, n) # <<>>
<1>1. Size \in Nat /\ 1 \in 1 .. Size
  BY SocketAssumption
<1>2. b \in Seq(Pkg) /\ Len(b) = Size /\ DOMAIN b = 1 .. Size
  BY <1>1
<1>3. ToSet(b) = {p}
  BY <1>1, <1>2 DEF ToSet
<1>4. n \in 0 .. Len(b) /\ (n # Size => n < Len(b))
  BY <1>1, <1>2
<1>5. /\ SubSeq(b, 1, n) \in Seq(Pkg) /\ Rest(b, n) \in Seq(Pkg)
      /\ ToSet(Rest(b, n)) \subseteq {p} /\ (n # Size => Rest(b, n) # <<>>)
  BY <1>2, <1>3, <1>4, Part
<1>6. ASSUME n # Size PROVE p \in ToSet(Rest(b, n))
  <2>1. PICK q : q = Rest(b, n)
    OBVIOUS
  <2>2. q \in Seq(Pkg) /\ q # <<>> /\ ToSet(q) \subseteq {p}
    BY <1>5, <1>6, <2>1
  <2>3. 1 \in DOMAIN q
    BY <2>2
  <2> QED
    BY <2>1, <2>2, <2>3 DEF ToSet
<1> QED
  BY <1>1, <1>2, <1>3, <1>5, <1>6

(* send_socket. *)
LEMMA SendStep ==
    ASSUME SockInv, NEW r, Takes(r), r.c \in {"D", "P"}, send_socket(r),
           UNCHANGED <<alloc_id, issued, pkg, crashed>>
    PROVE  SockInv'
<1> DEFINE k == HASH_ID(r.id)
           s == slot[k]
           P == {r.pkg}
           high == s.protocol # "udp" \/ r.c = "D"
<1>1. r \in Command /\ r.id \in Id /\ k \in Slot /\ PipeStep(P, r.id) /\ r.pkg \in Pkg
  <2>1. r.pkg # 0 /\ r \in Command /\ r.id \in Id /\ k \in Slot
    BY Taken
  <2>2. {r.pkg} \ {0} = P
    BY <2>1
  <2>3. PipeStep({r.pkg} \ {0}, r.id)
    BY Taken
  <2> QED
    BY <2>1, <2>2, <2>3 DEF Command
<1>2. s \in SlotState /\ ArmOK(s) /\ P \cap Queued(s) = {}
  BY <1>1, Untouched, PipePkg
<1>3. PICK b : b = [i \in 1 .. Size |-> r.pkg]
  OBVIOUS
<1>4. b \in Seq(Pkg) /\ Len(b) = Size /\ ToSet(b) = P /\ b # <<>> /\ Size \in Nat
  <2>1. 0 \in 0 .. Size
    BY SocketAssumption
  <2> QED
    BY <1>1, <1>3, <2>1, Bytes, SocketAssumption
<1>5. UNCHANGED <<alloc_id, opener, ncmd, issued, pkg, ev, crashed>>
  BY DEF Takes
<1>6. /\ wire \in [Id -> Seq(Pkg)] /\ freed \in [Pkg -> Nat] /\ broken \subseteq Id
      /\ refused \subseteq Pkg /\ crashed \in {"no", "reserve", "lists", "uncomplete"}
      /\ ev \in Seq([slot : Slot \cup {NULL}, read : BOOLEAN, write : BOOLEAN])
      /\ at \in {"cmd", "first", "event", "clear"} /\ clr \in {0} \cup Id
  BY DEF SockInv, TypeInv, TypeOK
<1>7. CASE /\ Freed({r.pkg}) /\ refused' = refused \cup {r.pkg}
           /\ Silent
           /\ UNCHANGED <<slot, at, clr, wire, broken>>
  <2>1. HandledTypes
    BY <1>1, <1>5, <1>6, <1>7 DEF HandledTypes
  <2>2. Handled(k, s, r.id, P)
    BY <1>1, <1>5, <1>7, KeepHandled DEF Silent
  <2> QED
    BY <2>1, <2>2, HandledStep
<1>8. CASE /\ Current(r) /\ s.type = "CONNECTED" /\ send_buffer_empty(s)
           /\ \E n \in Written(s, b) :
                  /\ slot' = [slot EXCEPT ![k] =
                        IF n = Size THEN @
                        ELSE IF high THEN [@ EXCEPT !.high = Rest(b, n), !.armed = TRUE]
                        ELSE [@ EXCEPT !.low = Rest(b, n), !.armed = TRUE]]
                  /\ wire' = [wire EXCEPT ![r.id] = @ \o SubSeq(b, 1, n)]
                  /\ Freed(IF n = Size THEN {r.pkg} ELSE {})
                  /\ Silent
                  /\ UNCHANGED <<at, clr, broken>>
           /\ UNCHANGED refused
  <2>1. PICK n \in Written(s, b) :
                  /\ slot' = [slot EXCEPT ![k] =
                        IF n = Size THEN @
                        ELSE IF high THEN [@ EXCEPT !.high = Rest(b, n), !.armed = TRUE]
                        ELSE [@ EXCEPT !.low = Rest(b, n), !.armed = TRUE]]
                  /\ wire' = [wire EXCEPT ![r.id] = @ \o SubSeq(b, 1, n)]
                  /\ Freed(IF n = Size THEN {r.pkg} ELSE {})
                  /\ Silent
                  /\ UNCHANGED <<at, clr, broken>>
    BY <1>8
  <2>2. n \in 0 .. Size
    BY <1>4, <2>1 DEF Written
  <2>3. /\ SubSeq(b, 1, n) \in Seq(Pkg) /\ Rest(b, n) \in Seq(Pkg)
        /\ n # Size => ToSet(Rest(b, n)) = P /\ Rest(b, n) # <<>>
    BY <1>1, <1>3, <2>2, Bytes
  <2>4. wire' \in [Id -> Seq(Pkg)]
    BY <1>1, <2>1, <2>3, WireType
  <2>5. HandledTypes
    BY <1>5, <1>6, <1>8, <2>1, <2>4 DEF HandledTypes
  <2>6. CASE n = Size
    <3>1. slot' = slot /\ Freed(P) /\ told' = told /\ after' = after
      BY <1>1, <2>1, <2>6 DEF Silent, SockInv, TypeInv, TypeOK
    <3>2. Handled(k, s, r.id, P)
      BY <1>1, <1>5, <3>1, KeepHandled
    <3> QED
      BY <2>5, <3>2, HandledStep
  <2>7. CASE n # Size
    <3>1. PICK m : m = IF high THEN [s EXCEPT !.high = Rest(b, n), !.armed = TRUE]
                       ELSE [s EXCEPT !.low = Rest(b, n), !.armed = TRUE]
      OBVIOUS
    <3>2. m.type = s.type /\ m.id = s.id /\ m.protocol = s.protocol
      BY <1>2, <3>1 DEF SlotState
    <3>3. m.armed
      BY <1>2, <3>1 DEF SlotState
    <3>4. \/ m.high = Rest(b, n) /\ m.low = s.low
          \/ m.low = Rest(b, n) /\ m.high = s.high
      BY <1>2, <3>1 DEF SlotState
    <3>5. m \in SlotState
      <4>1. PICK q \in Seq(Pkg) : q = Rest(b, n)
        BY <2>3
      <4>2. [s EXCEPT !.high = q, !.armed = TRUE] \in SlotState
        BY <1>2 DEF SlotState
      <4>3. [s EXCEPT !.low = q, !.armed = TRUE] \in SlotState
        BY <1>2 DEF SlotState
      <4> QED
        BY <3>1, <4>1, <4>2, <4>3
    <3>6. slot' = [slot EXCEPT ![k] = m]
      BY <2>1, <2>7, <3>1
    <3>7. Queued(m) = P /\ Queued(s) = {}
      <4>1. ToSet(<<>>) = {} /\ s.high = <<>> /\ s.low = <<>>
        BY <1>8 DEF ToSet, send_buffer_empty
      <4> QED
        BY <2>3, <2>7, <3>4, <4>1 DEF Queued
    <3>8. ArmOK(m)
      BY <1>8, <3>2, <3>3 DEF ArmOK
    <3>9. (Queued(s) \cup P) \ Queued(m) = {} /\ Queued(m) \subseteq Queued(s) \cup P
      BY <3>7
    <3>10. Freed({}) /\ told' = told /\ after' = after
      BY <2>1, <2>7 DEF Silent
    <3>11. Live(s)
      BY <1>8 DEF Live
    <3>12. Handled(k, m, r.id, P)
      BY <1>1, <1>5, <3>2, <3>5, <3>6, <3>8, <3>9, <3>10, <3>11 DEF Handled
    <3> QED
      BY <2>5, <3>12, HandledStep
  <2> QED
    BY <2>6, <2>7
<1>9. CASE /\ Current(r) /\ s.type = "CONNECTED" /\ send_buffer_empty(s)
           /\ slot' = [slot EXCEPT ![k] = force_close(s)]
           /\ Freed({r.pkg})
           /\ Break(r.id, TRUE)
           /\ Report("close", r.id) /\ ClearNext(r.id)
           /\ UNCHANGED wire /\ UNCHANGED refused
  <2>1. HandledTypes
    BY <1>1, <1>5, <1>6, <1>9 DEF HandledTypes, Break, ClearNext
  <2>2. Queued(s) \cup P = P
    BY <1>9 DEF Queued, ToSet, send_buffer_empty
  <2>3. after' = after /\ (told' = told \/ told' = told \cup {r.id})
    BY <1>9, Reported
  <2>4. Handled(k, force_close(s), r.id, P)
    BY <1>1, <1>5, <1>9, <2>2, <2>3, CloseHandled
  <2> QED
    BY <2>1, <2>4, HandledStep
<1>10. CASE /\ Current(r)
            /\ \/ s.type \in {"CONNECTING", "BIND", "RESERVE"}
               \/ s.type = "CONNECTED" /\ ~ send_buffer_empty(s)
            /\ slot' = [slot EXCEPT ![k] = IF r.c = "P" THEN [@ EXCEPT !.low = s.low \o b]
                                           ELSE [@ EXCEPT !.high = s.high \o b]]
            /\ Silent
            /\ UNCHANGED <<at, clr, freed, wire, broken, refused>>
  <2>1. HandledTypes
    BY <1>5, <1>6, <1>10 DEF HandledTypes
  <2>2. s.high \in Seq(Pkg) /\ s.low \in Seq(Pkg)
    BY <1>2 DEF SlotState
  <2>3. PICK h \in Seq(Pkg), l \in Seq(Pkg) : h = s.high \o b /\ l = s.low \o b
    BY <1>4, <2>2, Elements
  <2>4. /\ ToSet(h) = ToSet(s.high) \cup P /\ ToSet(l) = ToSet(s.low) \cup P
    BY <1>4, <2>2, <2>3, Elements
  <2>5. PICK m : m = IF r.c = "P" THEN [s EXCEPT !.low = l] ELSE [s EXCEPT !.high = h]
    OBVIOUS
  <2>6. /\ m \in SlotState /\ m.type = s.type /\ m.id = s.id /\ m.protocol = s.protocol
        /\ (m.high = h /\ m.low = s.low) \/ (m.high = s.high /\ m.low = l)
    BY <1>2, <2>5 DEF SlotState
  <2>7. m.armed = s.armed
    BY <1>2, <2>5 DEF SlotState
  <2>8. slot' = [slot EXCEPT ![k] = m]
    BY <1>10, <2>3, <2>5
  <2>9. Queued(m) = Queued(s) \cup P
    BY <2>4, <2>6 DEF Queued
  <2>10. ArmOK(m)
    BY <1>2, <1>10, <2>6, <2>7 DEF ArmOK
  <2>11. (Queued(s) \cup P) \ Queued(m) = {} /\ Freed({})
    BY <1>1, <1>10, <2>9, Untouched
  <2>12. Live(m) => Live(s)
    BY <2>6 DEF Live
  <2>13. Handled(k, m, r.id, P)
    BY <1>1, <1>5, <1>10, <2>6, <2>8, <2>9, <2>10, <2>11, <2>12 DEF Handled, Silent
  <2> QED
    BY <2>1, <2>13, HandledStep
<1> QED
  BY <1>3, <1>7, <1>8, <1>9, <1>10 DEF send_socket

(* Every command. *)
LEMMA CmdStep ==
    ASSUME SockInv, Cmd
    PROVE  SockInv'
<1>1. PICK r : r = Head(pipe)
  OBVIOUS
<1>2. Takes(r)
  BY <1>1 DEF Cmd, Takes
<1>3. \/ r.c \in {"O", "L", "B", "U"} /\ new_fd(r)
      \/ r.c = "S" /\ start_socket(r)
      \/ r.c = "K" /\ close_socket(r)
      \/ r.c \in {"D", "P"} /\ send_socket(r) /\ UNCHANGED <<alloc_id, issued, pkg, crashed>>
      \/ r.c = "C" /\ set_udp_address(r)
  BY <1>1 DEF Cmd
<1> QED
  BY <1>2, <1>3, NewFdStep, StartStep, CloseStep, SendStep, UdpStep DEF OpenCmd

-----------------------------------------------------------------------------
(* The events *)

(* Nothing is done to a slot, a package or an id. *)
LEMMA StayStep ==
    ASSUME SockInv, HandledTypes,
           UNCHANGED <<slot, alloc_id, opener, pipe, ncmd, issued, pkg, freed, told, after>>
    PROVE  SockInv'
<1>1. 0 \in Slot
  BY SocketAssumption DEF Slot
<1>2. PipeStep({}, 0)
  BY DEF PipeStep
<1>3. Freed({})
  BY <1>1, Untouched
<1>4. Handled(0, slot[0], 0, {})
  BY <1>1, <1>2, <1>3, KeepHandled
<1> QED
  BY <1>4, HandledStep

(* An event is about a slot, or was cleared; the ones after it stay. *)
LEMMA EventTypes ==
    ASSUME SockInv, NEW e, Event(e)
    PROVE  /\ e \in [slot : Slot \cup {NULL}, read : BOOLEAN, write : BOOLEAN]
           /\ e.slot # NULL => e.slot \in Slot
           /\ NextEvent \/ ReadDone(e) \/ ev' = ev =>
                ev' \in Seq([slot : Slot \cup {NULL}, read : BOOLEAN, write : BOOLEAN])
<1> DEFINE E == [slot : Slot \cup {NULL}, read : BOOLEAN, write : BOOLEAN]
<1>1. ev \in Seq(E) /\ ev # <<>> /\ e = Head(ev)
  BY DEF Event, SockInv, TypeInv, TypeOK
<1>2. e \in E /\ e = ev[1] /\ 1 \in DOMAIN ev /\ Tail(ev) \in Seq(E)
  <2> HIDE DEF E
  <2> QED
    BY <1>1
<1>3. [ev EXCEPT ![1].read = FALSE] \in Seq(E)
  <2>1. PICK f : f = [ev[1] EXCEPT !.read = FALSE]
    OBVIOUS
  <2>2. f \in E
    BY <1>2, <2>1
  <2>3. [ev EXCEPT ![1] = f] \in Seq(E)
    <3> HIDE DEF E
    <3> QED
      BY <1>1, <1>2, <2>2
  <2> QED
    BY <1>2, <2>1, <2>3
<1> QED
  BY <1>1, <1>2, <1>3 DEF NextEvent, ReadDone

(* Commands follow the first event of a batch. *)
LEMMA EventPlace ==
    ASSUME NEW e, Event(e)
    PROVE  at' \in {"cmd", "first", "event", "clear"}
BY DEF Event

(* A cleared event, or one of a free slot. *)
LEMMA SkipStep ==
    ASSUME SockInv, NEW e, SkipEvent(e)
    PROVE  SockInv'
<1>1. HandledTypes
  BY EventTypes, EventPlace DEF HandledTypes, SkipEvent, Event, history, SockInv, TypeInv, TypeOK
<1> QED
  BY <1>1, StayStep DEF SkipEvent, Event, history

(* What an event of a slot with a descriptor may rely on. *)
LEMMA LiveSlot ==
    ASSUME SockInv, NEW e, Event(e), e.slot # NULL
    PROVE  /\ e.slot \in Slot /\ slot[e.slot] \in SlotState /\ ArmOK(slot[e.slot])
           /\ Live(slot[e.slot]) =>
                /\ slot[e.slot].id \in Id /\ slot[e.slot].id \notin told
                /\ HASH_ID(slot[e.slot].id) = e.slot /\ PipeStep({}, slot[e.slot].id)
           /\ told' = told => PipeStep({}, slot[e.slot].id)
<1>1. e.slot \in Slot /\ slot[e.slot] \in SlotState /\ ArmOK(slot[e.slot]) /\ pipe' = pipe
  BY EventTypes, Untouched DEF Event
<1>2. Live(slot[e.slot]) => /\ slot[e.slot].id \in Id /\ slot[e.slot].id \notin told
                            /\ HASH_ID(slot[e.slot].id) = e.slot
  BY <1>1 DEF SockInv, TypeInv, IdInv, LiveOpen
<1> QED
  BY <1>1, <1>2 DEF PipeStep

(* report_connect. *)
LEMMA ConnectStep ==
    ASSUME SockInv, NEW e, report_connect(e)
    PROVE  SockInv'
<1> DEFINE k == e.slot
           s == slot[k]
<1>1. /\ Event(e) /\ e.slot # NULL /\ s.type = "CONNECTING" /\ NextEvent
      /\ UNCHANGED <<alloc_id, opener, pipe, ncmd, clr, issued, pkg, wire, refused, crashed>>
      /\ at' \in {"cmd", "first", "event", "clear"}
  BY EventPlace DEF report_connect, Event
<1>2. /\ k \in Slot /\ s \in SlotState /\ ArmOK(s) /\ Live(s) /\ s.id \in Id /\ s.id \notin told
      /\ HASH_ID(s.id) = k /\ PipeStep({}, s.id)
  BY <1>1, LiveSlot DEF Live
<1>3. ev' \in Seq([slot : Slot \cup {NULL}, read : BOOLEAN, write : BOOLEAN])
  BY <1>1, EventTypes
<1>4. HandledTypes
  BY <1>1, <1>2, <1>3 DEF HandledTypes, report_connect, Break, SockInv, TypeInv, TypeOK
<1>5. CASE /\ slot' = [slot EXCEPT ![k].type = "CONNECTED",
                                   ![k].armed = IF send_buffer_empty(s) THEN FALSE ELSE @]
           /\ Report("open", s.id)
           /\ UNCHANGED <<freed, broken>>
  <2>1. PICK n : n = [s EXCEPT !.type = "CONNECTED",
                               !.armed = IF send_buffer_empty(s) THEN FALSE ELSE @]
    OBVIOUS
  <2>2. /\ n.type = "CONNECTED" /\ n.id = s.id /\ n.protocol = s.protocol
        /\ n.high = s.high /\ n.low = s.low
    BY <1>2, <2>1 DEF SlotState
  <2>3. ~ send_buffer_empty(s) => n.armed = s.armed
    BY <1>2, <2>1 DEF SlotState
  <2>4. n \in SlotState
    BY <1>2, <2>1 DEF SlotState, Type
  <2>5. slot' = [slot EXCEPT ![k] = n]
    <3>1. slot \in [Slot -> SlotState]
      BY DEF SockInv, TypeInv, TypeOK
    <3> QED
      BY <1>2, <1>5, <2>1, <3>1 DEF SlotState
  <2>6. ArmOK(n) /\ Queued(n) = Queued(s)
    BY <1>1, <1>2, <2>2, <2>3 DEF ArmOK, send_buffer_empty, Queued
  <2>7. told' = told /\ after' = after /\ Freed({})
    <3>1. told' = told /\ after' = after
      BY <1>2, <1>5, Reported
    <3>2. Freed({})
      BY <1>2, <1>5, Untouched
    <3> QED
      BY <3>1, <3>2
  <2>8. (Queued(s) \cup {}) \ Queued(n) = {}
    BY <2>6
  <2>9. Handled(k, n, s.id, {})
    BY <1>1, <1>2, <2>2, <2>4, <2>5, <2>6, <2>7, <2>8 DEF Handled
  <2> QED
    BY <1>4, <2>9, HandledStep
<1>6. CASE /\ slot' = [slot EXCEPT ![k] = force_close(s)]
           /\ Freed(Queued(s)) /\ Break(s.id, TRUE)
           /\ Report("error", s.id)
  <2>1. Queued(s) \cup {} = Queued(s)
    OBVIOUS
  <2>2. told' = told /\ after' = after
    BY <1>6, Reported
  <2>3. Handled(k, force_close(s), s.id, {})
    BY <1>1, <1>2, <1>6, <2>1, <2>2, CloseHandled
  <2> QED
    BY <1>4, <2>3, HandledStep
<1> QED
  BY <1>5, <1>6 DEF report_connect

(* forward_message_tcp and forward_message_udp. *)
LEMMA ForwardStep ==
    ASSUME SockInv, NEW e, forward_message(e)
    PROVE  SockInv'
<1> DEFINE k == e.slot
           s == slot[k]
<1>1. /\ Event(e) /\ e.slot # NULL /\ Open(s) /\ UNCHANGED <<opener, pipe, ncmd, clr>>
      /\ at' \in {"cmd", "first", "event", "clear"}
  BY EventPlace DEF forward_message, Event
<1>2. k \in Slot /\ s \in SlotState /\ ArmOK(s)
  BY <1>1, LiveSlot
<1>3. CASE s.type = "RESERVE" /\ Crash("reserve") /\ NextEvent
  <2>1. HandledTypes
    BY <1>1, <1>3, EventTypes DEF HandledTypes, Crash, history, SockInv, TypeInv, TypeOK
  <2> QED
    BY <1>1, <1>3, <2>1, StayStep DEF Crash, history
<1>4. CASE /\ s.type # "RESERVE"
           /\ \/ Silent /\ ReadDone(e) /\ UNCHANGED <<slot, freed, broken>>
              \/ /\ IF s.protocol # "udp" /\ s.type = "HALFCLOSE" THEN Silent ELSE Report("data", s.id)
                 /\ IF s.protocol = "udp" THEN UNCHANGED ev ELSE ReadDone(e)
                 /\ UNCHANGED <<slot, freed, broken>>
              \/ \E m \in IF s.protocol = "udp" THEN {"error"} ELSE {"close", "error"} :
                 /\ slot' = [slot EXCEPT ![k] = force_close(s)]
                 /\ Freed(Queued(s)) /\ Break(s.id, TRUE)
                 /\ Report(m, s.id)
                 /\ NextEvent
           /\ UNCHANGED <<alloc_id, issued, pkg, wire, refused, crashed>>
  <2>1. /\ Live(s) /\ s.id \in Id /\ s.id \notin told
        /\ HASH_ID(s.id) = k /\ PipeStep({}, s.id)
    <3>1. Live(s)
      BY <1>1, <1>4 DEF Live, Open
    <3> QED
      BY <1>1, <3>1, LiveSlot
  <2>2. ev' \in Seq([slot : Slot \cup {NULL}, read : BOOLEAN, write : BOOLEAN])
    BY <1>1, <1>4, EventTypes
  <2>3. HandledTypes
    BY <1>1, <1>4, <2>1, <2>2 DEF HandledTypes, Break, SockInv, TypeInv, TypeOK
  <2>4. CASE slot' = slot /\ freed' = freed /\ (Silent \/ Report("data", s.id))
    <3>1. told' = told /\ after' = after
      BY <2>1, <2>4, Reported DEF Silent
    <3> QED
      BY <1>1, <1>4, <2>3, <2>4, <3>1, StayStep
  <2>5. CASE \E m \in {"close", "error"} :
                 /\ slot' = [slot EXCEPT ![k] = force_close(s)]
                 /\ Freed(Queued(s)) /\ Report(m, s.id)
    <3>1. Queued(s) \cup {} = Queued(s)
      OBVIOUS
    <3>2. after' = after /\ (told' = told \/ told' = told \cup {s.id})
      BY <2>5, Reported
    <3>3. Handled(k, force_close(s), s.id, {})
      BY <1>1, <1>2, <1>4, <2>1, <2>5, <3>1, <3>2, CloseHandled
    <3> QED
      BY <2>3, <3>3, HandledStep
  <2> QED
    BY <1>4, <2>4, <2>5
<1> QED
  BY <1>3, <1>4 DEF forward_message

(* send_buffer, for a descriptor that can be written. *)
LEMMA WriteStep ==
    ASSUME SockInv, NEW e, WriteEvent(e)
    PROVE  SockInv'
<1> DEFINE k == e.slot
           s == slot[k]
<1>1. /\ Event(e) /\ e.slot # NULL /\ Open(s) /\ NextEvent
      /\ UNCHANGED <<opener, pipe, ncmd, clr>>
      /\ at' \in {"cmd", "first", "event", "clear"}
  BY EventPlace DEF WriteEvent, Event
<1>2. k \in Slot /\ s \in SlotState /\ ArmOK(s)
  BY <1>1, LiveSlot
<1>3. ev' \in Seq([slot : Slot \cup {NULL}, read : BOOLEAN, write : BOOLEAN])
  BY <1>1, EventTypes
<1>4. CASE Crash("uncomplete") \/ Crash("reserve")
  <2>1. HandledTypes
    BY <1>1, <1>3, <1>4 DEF HandledTypes, Crash, history, SockInv, TypeInv, TypeOK
  <2> QED
    BY <1>1, <1>4, <2>1, StayStep DEF Crash, history
<1>5. CASE /\ ~ (s.type = "RESERVE" /\ ~ send_buffer_empty(s))
           /\ \E w \in send_buffer(s) :
                  /\ slot' = [slot EXCEPT ![k] = w.slot]
                  /\ wire' = [wire EXCEPT ![s.id] = @ \o w.out]
                  /\ Freed(Queued(s) \ Queued(w.slot))
                  /\ Break(s.id, w.error)
                  /\ IF w.slot.type = "INVALID" THEN Report("close", s.id) ELSE Silent
                  /\ UNCHANGED <<alloc_id, issued, pkg, refused, crashed>>
  <2>1. PICK w \in send_buffer(s) :
                  /\ slot' = [slot EXCEPT ![k] = w.slot]
                  /\ wire' = [wire EXCEPT ![s.id] = @ \o w.out]
                  /\ Freed(Queued(s) \ Queued(w.slot))
                  /\ Break(s.id, w.error)
                  /\ IF w.slot.type = "INVALID" THEN Report("close", s.id) ELSE Silent
                  /\ UNCHANGED <<alloc_id, issued, pkg, refused, crashed>>
    BY <1>5
  <2>2. /\ Shrinks(s, w.slot) /\ w.out \in Seq(Pkg)
        /\ s.type = "RESERVE" => w.slot.type = "RESERVE" /\ ~ w.error
    BY <1>2, <1>5, SendBuffer
  <2>3. PICK n : n = w.slot
    OBVIOUS
  <2>4. /\ n \in SlotState /\ n.id = s.id /\ n.protocol = s.protocol
        /\ Queued(n) \subseteq Queued(s)
        /\ \/ n.type = "INVALID" /\ send_buffer_empty(n)
           \/ n.type = s.type /\ (n.armed = s.armed \/ send_buffer_empty(n))
    BY <2>2, <2>3 DEF Shrinks
  <2>5. ArmOK(n)
    <3>1. send_buffer_empty(s) => send_buffer_empty(n)
      BY <1>2, <2>4, EmptyQueued
    <3>2. s.type # "CONNECTING"
      BY <1>1 DEF Open
    <3> QED
      BY <1>2, <2>4, <3>1, <3>2 DEF ArmOK
  <2>6. Live(n) => Live(s)
    BY <2>4 DEF Live
  <2>7. /\ after' = after /\ broken' \subseteq Id /\ PipeStep({}, s.id)
        /\ told' = told \/ (told' = told \cup {s.id} /\ k = HASH_ID(s.id) /\ ~ Live(n))
    <3>1. CASE s.type = "RESERVE"
      <4>1. w.slot.type = "RESERVE" /\ ~ w.error
        BY <2>2, <3>1
      <4>2. told' = told /\ after' = after /\ broken' = broken
        BY <2>1, <4>1 DEF Silent, Break
      <4>3. PipeStep({}, s.id)
        BY <1>1, <4>2, LiveSlot
      <4> QED
        BY <4>2, <4>3 DEF SockInv, TypeInv, TypeOK
    <3>2. CASE s.type # "RESERVE"
      <4>1. Live(s)
        BY <1>1, <3>2 DEF Live, Open
      <4>2. s.id \in Id /\ HASH_ID(s.id) = k /\ PipeStep({}, s.id)
        BY <1>1, <4>1, LiveSlot
      <4>3. broken' \subseteq Id
        BY <2>1, <4>2 DEF Break, SockInv, TypeInv, TypeOK
      <4>4. CASE w.slot.type = "INVALID"
        <5>1. Report("close", s.id)
          BY <2>1, <4>4
        <5>2. ~ Live(n)
          BY <2>3, <4>4 DEF Live
        <5> QED
          BY <4>2, <4>3, <5>1, <5>2, Reported
      <4>5. CASE w.slot.type # "INVALID"
        BY <2>1, <4>2, <4>3, <4>5 DEF Silent
      <4> QED
        BY <4>4, <4>5
    <3> QED
      BY <3>1, <3>2
  <2>8. wire' \in [Id -> Seq(Pkg)]
    BY <2>1, <2>2, WireType
  <2>9. HandledTypes
    BY <1>1, <1>3, <2>1, <2>7, <2>8 DEF HandledTypes, SockInv, TypeInv, TypeOK
  <2>10. /\ slot' = [slot EXCEPT ![k] = n] /\ Freed(Queued(s) \ Queued(n))
         /\ (Queued(s) \cup {}) \ Queued(n) = Queued(s) \ Queued(n)
    BY <2>1, <2>3
  <2>11. Handled(k, n, s.id, {})
    BY <1>1, <1>2, <2>1, <2>2, <2>3, <2>4, <2>5, <2>6, <2>7, <2>10 DEF Handled
  <2> QED
    BY <2>9, <2>11, HandledStep
<1> QED
  BY <1>4, <1>5 DEF WriteEvent

-----------------------------------------------------------------------------
(* The rest of socket_server_poll *)

(* clear_closed_event. *)
LEMMA ClearStep ==
    ASSUME SockInv, clear_closed_event
    PROVE  SockInv'
<1> DEFINE E == [slot : Slot \cup {NULL}, read : BOOLEAN, write : BOOLEAN]
           stale == {i \in DOMAIN ev : /\ ev[i].slot # NULL
                                       /\ slot[ev[i].slot].type = "INVALID"
                                       /\ slot[ev[i].slot].id = clr}
<1>1. ev \in Seq(E)
  BY DEF SockInv, TypeInv, TypeOK
<1>2. ev' = IF stale = {} THEN ev ELSE [ev EXCEPT ![Min(stale)].slot = NULL]
  BY DEF clear_closed_event
<1>3. ASSUME stale # {} PROVE [ev EXCEPT ![Min(stale)].slot = NULL] \in Seq(E)
  <2>1. stale \in SUBSET Nat
    <3> HIDE DEF E
    <3>1. DOMAIN ev \subseteq Nat
      BY <1>1
    <3> QED
      BY <3>1
  <2>2. PICK i : i = Min(stale)
    OBVIOUS
  <2>3. i \in stale
    <3> HIDE DEF stale
    <3> QED
      BY <1>3, <2>1, <2>2, LeastNumber
  <2>4. i \in DOMAIN ev /\ ev[i] \in E
    <3>1. i \in DOMAIN ev
      BY <2>3
    <3> HIDE DEF E
    <3> QED
      BY <1>1, <3>1
  <2>5. PICK f : f = [ev[i] EXCEPT !.slot = NULL]
    OBVIOUS
  <2>6. f \in E
    BY <2>4, <2>5
  <2>7. [ev EXCEPT ![i] = f] \in Seq(E)
    <3> HIDE DEF E
    <3> QED
      BY <1>1, <2>4, <2>6
  <2> HIDE DEF stale
  <2> QED
    BY <2>2, <2>5, <2>7
<1>4. ev' \in Seq(E)
  BY <1>1, <1>2, <1>3
<1>5. HandledTypes
  BY <1>4 DEF HandledTypes, clear_closed_event, history, SockInv, TypeInv, TypeOK
<1> QED
  BY <1>5, StayStep DEF clear_closed_event, history

(* has_cmd. *)
LEMMA NoCmdStep ==
    ASSUME SockInv, NoCmd
    PROVE  SockInv'
<1>1. HandledTypes
  BY DEF HandledTypes, NoCmd, history, SockInv, TypeInv, TypeOK
<1> QED
  BY <1>1, StayStep DEF NoCmd, history

(* sp_wait. *)
LEMMA WaitStep ==
    ASSUME SockInv, Wait
    PROVE  SockInv'
<1> DEFINE E == [slot : Slot \cup {NULL}, read : BOOLEAN, write : BOOLEAN]
<1>1. PICK ready \in SUBSET {k \in Slot : InPoll(k)} : \E order \in SetToSeqs(ready) :
       \E flags \in [ready -> {"r", "w", "rw"}] :
        ev' = [i \in DOMAIN order |-> [slot |-> order[i], read |-> flags[order[i]] # "w",
                                       write |-> flags[order[i]] # "r"]]
  BY DEF Wait
<1>2. PICK order \in SetToSeqs(ready) :
       \E flags \in [ready -> {"r", "w", "rw"}] :
        ev' = [i \in DOMAIN order |-> [slot |-> order[i], read |-> flags[order[i]] # "w",
                                       write |-> flags[order[i]] # "r"]]
  BY <1>1
<1>3. PICK flags \in [ready -> {"r", "w", "rw"}] :
        ev' = [i \in DOMAIN order |-> [slot |-> order[i], read |-> flags[order[i]] # "w",
                                       write |-> flags[order[i]] # "r"]]
  BY <1>2
<1>4. PICK n \in Nat : n = Cardinality(ready)
  <2>1. IsFiniteSet(Slot)
    BY SocketAssumption, FS_Interval DEF Slot
  <2>2. IsFiniteSet(ready)
    BY <2>1, FS_Subset
  <2> QED
    BY <2>2, FS_CardinalityType
<1>5. order \in [1 .. n -> ready]
  BY <1>4 DEF SetToSeqs
<1>6. ev' \in Seq(E)
  <2>1. DOMAIN ev' = 1 .. n
    BY <1>3, <1>5
  <2>2. ASSUME NEW i \in 1 .. n PROVE ev'[i] \in E
    <3>1. order[i] \in Slot
      BY <1>1, <1>5
    <3>2. ev'[i] = [slot |-> order[i], read |-> flags[order[i]] # "w",
                    write |-> flags[order[i]] # "r"]
      BY <1>3, <1>5
    <3> QED
      BY <3>1, <3>2
  <2>3. ev' \in [1 .. n -> E]
    <3> HIDE DEF E
    <3>1. ev' = [i \in DOMAIN ev' |-> ev'[i]]
      BY <1>3
    <3> QED
      BY <2>1, <2>2, <3>1
  <2> HIDE DEF E
  <2> QED
    BY <1>4, <2>3
<1>7. HandledTypes
  BY <1>6 DEF HandledTypes, Wait, history, SockInv, TypeInv, TypeOK
<1> QED
  BY <1>7, StayStep DEF Wait, history

-----------------------------------------------------------------------------
(* The worker threads, and accept *)

(* The lists stay, and at most a command without a package is written. *)
LEMMA BufKeep ==
    ASSUME SockInv, \A k \in Slot : Queued(slot'[k]) = Queued(slot[k]),
           UNCHANGED <<pkg, freed>>,
           \/ pipe' = pipe
           \/ \E r \in Command : r.pkg = 0 /\ r.c \notin {"D", "P"} /\ pipe' = Append(pipe, r)
    PROVE  BufInv'
<1>1. BufInv /\ pipe \in Seq(Command)
  BY DEF SockInv, TypeInv, TypeOK
<1>2. \A p \in Pkg : IsQueued(p)' <=> IsQueued(p)
  <2>1. \A p \in Pkg : IsQueued(p)' <=> \E k \in Slot : p \in Queued(slot'[k])
    BY DEF IsQueued, Queued
  <2> QED
    BY <2>1 DEF IsQueued
<1>3. \A k, l \in Slot : \A p \in Pkg :
        p \in Queued(slot'[k]) /\ p \in Queued(slot'[l]) => k = l
  BY <1>1 DEF BufInv
<1>4. /\ \A i \in DOMAIN pipe' : pipe'[i].c \in {"D", "P"} <=> pipe'[i].pkg # 0
      /\ \A i, j \in DOMAIN pipe' : pipe'[i].pkg = pipe'[j].pkg /\ pipe'[i].pkg # 0 => i = j
      /\ \A p \in Pkg : InPipe(p)' <=> InPipe(p)
  <2>1. CASE pipe' = pipe
    BY <1>1, <2>1 DEF BufInv, InPipe
  <2>2. CASE pipe' # pipe
    <3>1. PICK r \in Command : r.pkg = 0 /\ r.c \notin {"D", "P"} /\ pipe' = Append(pipe, r)
      BY <2>2
    <3>2. /\ Len(pipe) \in Nat /\ DOMAIN pipe = 1 .. Len(pipe)
          /\ DOMAIN pipe' = 1 .. Len(pipe) + 1
          /\ \A i \in DOMAIN pipe : i \in DOMAIN pipe' /\ pipe'[i] = pipe[i]
          /\ pipe'[Len(pipe) + 1] = r
      BY <1>1, <3>1, PushPipe
    <3>3. \A i \in DOMAIN pipe' : i \in DOMAIN pipe \/ pipe'[i] = r
      BY <3>2
    <3>4. 0 \notin Pkg
      BY SocketAssumption DEF Pkg
    <3>5. \A p \in Pkg : InPipe(p)' <=> InPipe(p)
      BY <3>1, <3>2, <3>3, <3>4 DEF InPipe
    <3>6. \A i \in DOMAIN pipe' : pipe'[i].c \in {"D", "P"} <=> pipe'[i].pkg # 0
      BY <1>1, <3>1, <3>2, <3>3 DEF BufInv
    <3>7. ASSUME NEW i \in DOMAIN pipe', NEW j \in DOMAIN pipe',
                 pipe'[i].pkg = pipe'[j].pkg, pipe'[i].pkg # 0
          PROVE  i = j
      <4>1. i \in DOMAIN pipe /\ j \in DOMAIN pipe
        BY <3>1, <3>3, <3>7
      <4> QED
        BY <1>1, <3>2, <3>7, <4>1 DEF BufInv
    <3> QED
      BY <3>5, <3>6, <3>7
  <2> QED
    BY <2>1, <2>2
<1>5. /\ \A p \in Pkg : freed'[p] = IF p <= Len(pkg') /\ ~ InPipe(p)' /\ ~ IsQueued(p)' THEN 1 ELSE 0
      /\ \A p \in Pkg : InPipe(p)' => p <= Len(pkg') /\ ~ IsQueued(p)'
      /\ \A p \in Pkg : IsQueued(p)' => p <= Len(pkg')
  BY <1>1, <1>2, <1>4 DEF BufInv
<1>6. Len(pkg') <= MaxPkg
  BY <1>1 DEF BufInv
<1> QED
  BY <1>3, <1>4, <1>5, <1>6 DEF BufInv, Queued

(* A service asks for something about an id it knows. *)
LEMMA IdKeep ==
    ASSUME SockInv, UNCHANGED <<slot, alloc_id, opener, issued, told, after>>,
           \/ pipe' = pipe
           \/ \E r \in Command : /\ issued[r.id] # NULL /\ r.c \notin OpenCmd
                                 /\ pipe' = Append(pipe, r)
    PROVE  IdInv'
<1>1. IdsFresh /\ LiveOpen /\ OpensFirst /\ Reserved /\ after = {} /\ pipe \in Seq(Command)
  BY DEF SockInv, IdInv, TypeInv, TypeOK
<1>2. LiveOpen'
  BY <1>1 DEF LiveOpen, Live
<1>3. CASE pipe' = pipe
  BY <1>1, <1>2, <1>3 DEF IdInv, IdsFresh, OpensFirst, Reserved, Holding, Live, Opening
<1>4. CASE pipe' # pipe
  <2>1. PICK r \in Command : /\ issued[r.id] # NULL /\ r.c \notin OpenCmd
                             /\ pipe' = Append(pipe, r)
    BY <1>4
  <2>2. /\ Len(pipe) \in Nat /\ DOMAIN pipe = 1 .. Len(pipe)
        /\ DOMAIN pipe' = 1 .. Len(pipe) + 1
        /\ \A i \in DOMAIN pipe : i \in DOMAIN pipe' /\ pipe'[i] = pipe[i]
        /\ pipe'[Len(pipe) + 1] = r
    BY <1>1, <2>1, PushPipe
  <2>3. \A i \in DOMAIN pipe' : i \in DOMAIN pipe \/ pipe'[i] = r
    BY <2>2
  <2>4. IdsFresh'
    BY <1>1, <2>1, <2>2, <2>3 DEF IdsFresh, Holding
  <2>5. \A i \in DOMAIN pipe' : pipe'[i].c \in OpenCmd =>
            i \in DOMAIN pipe /\ pipe'[i] = pipe[i] /\ \A j \in DOMAIN pipe' : j < i => j \in DOMAIN pipe
    <3>1. \A i \in DOMAIN pipe' : pipe'[i].c \in OpenCmd => i \in DOMAIN pipe /\ pipe'[i] = pipe[i]
      BY <2>1, <2>2, <2>3
    <3>2. \A i \in DOMAIN pipe : \A j \in DOMAIN pipe' : j < i => j \in DOMAIN pipe
      BY <2>2
    <3> QED
      BY <3>1, <3>2
  <2>6. OpensFirst'
    BY <1>1, <2>2, <2>5 DEF OpensFirst, Live
  <2>7. Reserved'
    BY <1>1, <2>5 DEF Reserved, Opening
  <2> QED
    BY <1>1, <1>2, <2>4, <2>6, <2>7 DEF IdInv
<1> QED
  BY <1>3, <1>4

(* socket_server_start, _close, _shutdown and _udp_connect. *)
LEMMA AskStep ==
    ASSUME SockInv, NEW c \in {"S", "K", "C"}, NEW id \in Id, NEW hard \in BOOLEAN,
           Ask(c, id, hard)
    PROVE  SockInv'
<1>1. PICK r : r = Request(c, id, 0, hard)
  OBVIOUS
<1>2. r \in Command /\ r.pkg = 0 /\ r.c = c /\ r.id = id
  BY <1>1 DEF Request, Command
<1>3. /\ pipe' = Append(pipe, r) /\ ncmd < MaxCmd /\ ncmd' = ncmd + 1
      /\ UNCHANGED <<slot, alloc_id, opener, ev, at, clr, history, crashed>>
  BY <1>1 DEF Ask
<1>4. issued[id] # NULL
  BY SocketAssumption DEF Ask
<1>5. pipe \in Seq(Command) /\ pipe' \in Seq(Command)
  BY <1>2, <1>3, PushPipe DEF SockInv, TypeInv, TypeOK
<1>6. TypeInv'
  <2>1. ncmd' \in 0 .. MaxCmd
    BY <1>3, SocketAssumption DEF SockInv, TypeInv, TypeOK
  <2> QED
    BY <1>3, <1>5, <2>1 DEF SockInv, TypeInv, TypeOK, history, Holding, Live
<1>7. (\A k \in Slot : ArmOK(slot[k]))'
  BY <1>3 DEF SockInv, ArmOK, send_buffer_empty
<1>8. IdInv'
  BY <1>2, <1>3, <1>4, IdKeep DEF history, OpenCmd
<1>9. BufInv'
  BY <1>2, <1>3, BufKeep DEF history
<1> QED
  BY <1>6, <1>7, <1>8, <1>9 DEF SockInv

(* socket_server_send and _send_lowpriority. *)
LEMMA SubmitStep ==
    ASSUME SockInv, NEW id \in Id, NEW low \in BOOLEAN, Send(id, low)
    PROVE  SockInv'
<1> DEFINE s == slot[HASH_ID(id)]
           p == Len(pkg) + 1
           gone == s.id # id \/ s.type = "INVALID"
<1>1. PICK r : r = Request(IF low THEN "P" ELSE "D", id, p, FALSE)
  OBVIOUS
<1>2. /\ TypeOK /\ TypeInv /\ BufInv /\ pipe \in Seq(Command) /\ freed \in [Pkg -> Nat]
      /\ pkg \in Seq([id : Id, low : BOOLEAN])
  BY DEF SockInv, TypeInv, TypeOK
<1>3. /\ pkg' = Append(pkg, [id |-> id, low |-> low]) /\ Len(pkg) < MaxPkg /\ issued[id] # NULL
      /\ pipe' = IF gone THEN pipe ELSE Append(pipe, r)
      /\ freed' = IF gone THEN [freed EXCEPT ![p] = @ + 1] ELSE freed
      /\ refused' = IF gone THEN refused \cup {p} ELSE refused
      /\ UNCHANGED <<slot, alloc_id, opener, ev, at, clr, ncmd, issued, wire, told, after, broken, crashed>>
  BY <1>1 DEF Send
<1>4. /\ pkg' \in Seq([id : Id, low : BOOLEAN]) /\ Len(pkg') = p /\ Len(pkg) \in Nat
      /\ p \in Pkg /\ p \in Nat /\ p # 0
  <2>1. PICK x \in [id : Id, low : BOOLEAN] : x = [id |-> id, low |-> low]
    OBVIOUS
  <2>2. pkg' = Append(pkg, x)
    BY <1>3, <2>1
  <2>3. pkg' \in Seq([id : Id, low : BOOLEAN]) /\ Len(pkg') = p /\ Len(pkg) \in Nat
    BY <1>2, <2>2
  <2> QED
    BY <1>3, <2>3, SocketAssumption DEF Pkg
<1>5. r \in Command /\ r.pkg = p /\ r.id = id /\ r.c \in {"D", "P"}
  <2>1. r.pkg = p /\ r.id = id /\ r.c \in {"D", "P"}
    BY <1>1 DEF Request
  <2> QED
    BY <1>1, <1>4 DEF Request, Command
<1>6. TypeInv'
  <2>1. pipe' \in Seq(Command)
    BY <1>2, <1>3, <1>5, PushPipe
  <2>2. freed' \in [Pkg -> Nat]
    BY <1>2, <1>3, <1>4
  <2>3. refused' \subseteq Pkg
    BY <1>2, <1>3, <1>4 DEF TypeOK
  <2> QED
    BY <1>2, <1>3, <1>4, <2>1, <2>2, <2>3 DEF TypeInv, TypeOK, Holding, Live
<1>7. (\A k \in Slot : ArmOK(slot[k]))'
  BY <1>3 DEF SockInv, ArmOK, send_buffer_empty
<1>8. IdInv'
  BY <1>3, <1>5, IdKeep DEF OpenCmd
<1>9. \A q \in Pkg : IsQueued(q)' <=> IsQueued(q)
  BY <1>3 DEF IsQueued, Queued
<1>10. ~ InPipe(p) /\ ~ IsQueued(p) /\ freed[p] = 0
  <2>1. ~ (p <= Len(pkg))
    BY <1>4
  <2> QED
    BY <1>2, <1>4, <2>1 DEF BufInv
<1>11. ASSUME NEW q \in Pkg PROVE InPipe(q)' <=> InPipe(q) \/ (q = p /\ ~ gone)
  <2>1. CASE gone
    BY <1>3, <2>1 DEF InPipe
  <2>2. CASE ~ gone
    <3>1. /\ Len(pipe) \in Nat /\ DOMAIN pipe = 1 .. Len(pipe)
          /\ DOMAIN pipe' = 1 .. Len(pipe) + 1
          /\ \A i \in DOMAIN pipe : i \in DOMAIN pipe' /\ pipe'[i] = pipe[i]
          /\ pipe'[Len(pipe) + 1] = r
      BY <1>2, <1>3, <1>5, <2>2, PushPipe
    <3>2. \A i \in DOMAIN pipe' : i \in DOMAIN pipe \/ pipe'[i] = r
      BY <3>1
    <3>3. Len(pipe) + 1 \in DOMAIN pipe'
      BY <3>1
    <3> HIDE DEF p
    <3> QED
      BY <1>5, <2>2, <3>1, <3>2, <3>3 DEF InPipe
  <2> QED
    BY <2>1, <2>2
<1>12. ASSUME NEW q \in Pkg
       PROVE  /\ freed'[q] = IF q <= p /\ ~ InPipe(q)' /\ ~ IsQueued(q)' THEN 1 ELSE 0
              /\ InPipe(q)' => q <= p /\ ~ IsQueued(q)'
              /\ IsQueued(q)' => q <= p
  <2>1. CASE q = p
    <3>1. freed'[p] = IF gone THEN 1 ELSE 0
      BY <1>2, <1>3, <1>4, <1>10
    <3> QED
      BY <1>4, <1>9, <1>10, <1>11, <2>1, <3>1
  <2>2. CASE q # p
    <3>1. freed'[q] = freed[q] /\ (InPipe(q)' <=> InPipe(q)) /\ (IsQueued(q)' <=> IsQueued(q))
      BY <1>2, <1>3, <1>9, <1>11, <2>2
    <3>2. q <= p <=> q <= Len(pkg)
      <4>1. q \in Nat
        BY SocketAssumption DEF Pkg
      <4> QED
        BY <1>4, <2>2, <4>1
    <3> QED
      BY <1>2, <3>1, <3>2 DEF BufInv
  <2> QED
    BY <2>1, <2>2
<1>13. /\ \A i \in DOMAIN pipe' : pipe'[i].c \in {"D", "P"} <=> pipe'[i].pkg # 0
       /\ \A i, j \in DOMAIN pipe' : pipe'[i].pkg = pipe'[j].pkg /\ pipe'[i].pkg # 0 => i = j
  <2>1. CASE gone
    BY <1>2, <1>3, <2>1 DEF BufInv
  <2>2. CASE ~ gone
    <3>1. /\ Len(pipe) \in Nat /\ DOMAIN pipe = 1 .. Len(pipe)
          /\ DOMAIN pipe' = 1 .. Len(pipe) + 1
          /\ \A i \in DOMAIN pipe : i \in DOMAIN pipe' /\ pipe'[i] = pipe[i]
          /\ pipe'[Len(pipe) + 1] = r
      BY <1>2, <1>3, <1>5, <2>2, PushPipe
    <3>2. \A i \in DOMAIN pipe' : i \in DOMAIN pipe \/ i = Len(pipe) + 1
      BY <3>1
    <3>3. \A i \in DOMAIN pipe : pipe[i].pkg # p
      BY <1>10 DEF InPipe
    <3> HIDE DEF p
    <3> QED
      BY <1>2, <1>4, <1>5, <3>1, <3>2, <3>3 DEF BufInv
  <2> QED
    BY <2>1, <2>2
<1>14. \A k, l \in Slot : \A q \in Pkg :
            q \in Queued(slot'[k]) /\ q \in Queued(slot'[l]) => k = l
  BY <1>2, <1>3 DEF BufInv
<1>15. BufInv'
  <2>1. p <= MaxPkg
    BY <1>3, <1>4, SocketAssumption
  <2> QED
    BY <1>4, <1>12, <1>13, <1>14, <2>1 DEF BufInv, Queued
<1> QED
  BY <1>6, <1>7, <1>8, <1>15 DEF SockInv

(* reserve_id takes an id nobody knows. *)
LEMMA LookStep ==
    ASSUME SockInv, NEW t \in Opener, ReserveLook(t)
    PROVE  SockInv'
<1> DEFINE id == alloc_id + 1
           n == IF opener[t].pc = "idle" THEN 0 ELSE opener[t].tries
<1>1. /\ opener[t].pc \in {"look", "idle"} /\ alloc_id < MaxId /\ alloc_id' = id
      /\ opener[t].pc = "idle" => ncmd < MaxCmd
      /\ ncmd' = IF opener[t].pc = "idle" THEN ncmd + 1 ELSE ncmd
      /\ UNCHANGED <<slot, pipe, ev, at, clr, history, crashed>>
  BY DEF ReserveLook
<1>2. PICK o : /\ opener' = [opener EXCEPT ![t] = o]
               /\ \/ o = [pc |-> "cas", tries |-> n, id |-> id]
                  \/ o = [pc |-> "look", tries |-> n + 1, id |-> 0] /\ n + 1 < MAX_SOCKET
                  \/ o = [pc |-> "idle", tries |-> 0, id |-> 0]
  BY DEF ReserveLook
<1>3. TypeOK /\ TypeInv /\ IdInv /\ IdsFresh /\ LiveOpen /\ OpensFirst /\ Reserved /\ after = {}
  BY DEF SockInv, TypeInv, IdInv
<1>4. alloc_id \in Nat /\ id \in Id /\ id \in Nat
  BY <1>1, <1>3, SocketAssumption DEF TypeOK, Id
<1>5. n \in 0 .. MAX_SOCKET
  BY <1>3, SocketAssumption DEF TypeOK
<1>6. /\ o \in [pc : {"idle", "look", "cas", "set"}, tries : 0 .. MAX_SOCKET, id : {0} \cup Id]
      /\ o.pc # "set" /\ (o.pc = "cas" => o.id = id)
  <2>1. n + 1 < MAX_SOCKET => n + 1 \in 0 .. MAX_SOCKET
    BY <1>5, SocketAssumption
  <2>2. 0 \in 0 .. MAX_SOCKET
    BY SocketAssumption
  <2> HIDE DEF n, id
  <2> QED
    BY <1>2, <1>4, <1>5, <2>1, <2>2
<1>7. /\ opener' \in [Opener -> [pc : {"idle", "look", "cas", "set"}, tries : 0 .. MAX_SOCKET, id : {0} \cup Id]]
      /\ opener'[t] = o /\ \A u \in Opener : u # t => opener'[u] = opener[u]
  BY <1>2, <1>3, <1>6 DEF TypeOK
<1>8. issued[id] = NULL
  <2>1. ~ (id <= alloc_id)
    BY <1>4
  <2> QED
    BY <1>3, <1>4, <2>1 DEF IdsFresh
<1>9. \A u \in Opener : Holding(u)' =>
        (u # t /\ Holding(u) /\ opener'[u] = opener[u]) \/ (u = t /\ opener'[u].id = id)
  BY <1>6, <1>7 DEF Holding
<1>10. TypeInv'
  <2>1. ncmd' \in 0 .. MaxCmd
    BY <1>1, <1>3, SocketAssumption DEF TypeOK
  <2>2. alloc_id' \in 0 .. MaxId
    BY <1>1, <1>4, SocketAssumption DEF Id
  <2>3. TypeOK'
    BY <1>1, <1>3, <1>7, <2>1, <2>2 DEF TypeOK, history
  <2>4. \A u \in Opener : Holding(u)' => opener'[u].id \in Id
    BY <1>3, <1>4, <1>9 DEF TypeInv
  <2> QED
    BY <1>1, <1>3, <2>3, <2>4 DEF TypeInv, Live
<1>11. (\A k \in Slot : ArmOK(slot[k]))'
  BY <1>1 DEF SockInv, ArmOK, send_buffer_empty
<1>12. IdsFresh'
  <2>1. \A u \in Opener : Holding(u) => opener[u].id <= alloc_id /\ opener[u].id \in Nat
    <3>1. \A x \in Id : x \in Nat
      BY SocketAssumption DEF Id
    <3> QED
      BY <1>3, <3>1 DEF IdsFresh, TypeInv
  <2>2. \A u \in Opener : Holding(u)' => opener'[u].id <= alloc_id' /\ issued[opener'[u].id] = NULL
    BY <1>1, <1>3, <1>4, <1>8, <1>9, <2>1 DEF IdsFresh
  <2>3. \A u \in Opener : Holding(u) => opener[u].id # id
    BY <1>4, <2>1
  <2>4. \A u, v \in Opener : Holding(u)' /\ Holding(v)' /\ opener'[u].id = opener'[v].id => u = v
    BY <1>3, <1>9, <2>3 DEF IdsFresh
  <2>5. \A x \in Id : issued[x] # NULL => x <= alloc_id'
    <3> SUFFICES ASSUME NEW x \in Id, issued[x] # NULL PROVE x <= alloc_id'
      OBVIOUS
    <3>1. x <= alloc_id /\ x \in Nat
      BY <1>3, SocketAssumption DEF IdsFresh, Id
    <3> QED
      BY <1>1, <1>4, <3>1
  <2> QED
    BY <1>1, <1>3, <2>2, <2>4, <2>5 DEF IdsFresh, history
<1>13. LiveOpen' /\ OpensFirst'
  BY <1>1, <1>3 DEF LiveOpen, OpensFirst, Live, history
<1>14. Reserved'
  <2>1. \A u \in Opener : opener'[u].pc = "set" => opener'[u] = opener[u] /\ opener[u].pc = "set"
    BY <1>6, <1>7
  <2> QED
    BY <1>1, <1>3, <2>1 DEF Reserved, Opening
<1>15. IdInv'
  BY <1>1, <1>3, <1>12, <1>13, <1>14 DEF IdInv, history
<1>16. BufInv'
  BY <1>1, BufKeep DEF history
<1> QED
  BY <1>10, <1>11, <1>15, <1>16 DEF SockInv

(* ATOM_CAS in reserve_id: one opener gets the free slot. *)
LEMMA CASStep ==
    ASSUME SockInv, NEW t \in Opener, ReserveCAS(t)
    PROVE  SockInv'
<1> DEFINE k == HASH_ID(opener[t].id)
<1>1. /\ opener[t].pc = "cas" /\ UNCHANGED <<alloc_id, pipe, ev, at, clr, ncmd, history, crashed>>
      /\ \/ /\ slot[k].type = "INVALID"
            /\ slot' = [slot EXCEPT ![k].type = "RESERVE"]
            /\ opener' = [opener EXCEPT ![t].pc = "set"]
         \/ opener' = [opener EXCEPT ![t].pc = "look"] /\ slot' = slot
  BY DEF ReserveCAS
<1>2. /\ TypeOK /\ TypeInv /\ IdsFresh /\ LiveOpen /\ OpensFirst /\ Reserved /\ after = {}
      /\ \A l \in Slot : ArmOK(slot[l])
  BY DEF SockInv, TypeInv, IdInv
<1>3. Holding(t) /\ opener[t].id \in Id /\ k \in Slot
  BY <1>1, Hashes DEF Holding
<1>4. \A u \in Opener : u # t => opener'[u] = opener[u]
  BY <1>1, <1>2 DEF TypeOK
<1>5. /\ opener'[t].id = opener[t].id
      /\ opener'[t].pc = IF slot' = slot THEN "look" ELSE "set"
      /\ opener' \in [Opener -> [pc : {"idle", "look", "cas", "set"}, tries : 0 .. MAX_SOCKET, id : {0} \cup Id]]
  <2>1. slot \in [Slot -> SlotState] /\ opener \in [Opener -> [pc : {"idle", "look", "cas", "set"}, tries : 0 .. MAX_SOCKET, id : {0} \cup Id]]
    BY <1>2 DEF TypeOK
  <2>2. slot[k].type = "INVALID" /\ slot' = [slot EXCEPT ![k].type = "RESERVE"] => slot' # slot
    BY <1>3, <2>1 DEF SlotState
  <2> QED
    BY <1>1, <1>3, <2>1, <2>2
<1>6. /\ slot' \in [Slot -> SlotState]
      /\ \A l \in Slot : /\ slot'[l].id = slot[l].id /\ slot'[l].high = slot[l].high
                         /\ slot'[l].low = slot[l].low
                         /\ (Live(slot'[l]) <=> Live(slot[l])) /\ ArmOK(slot'[l])
                         /\ slot[l].type = "RESERVE" => slot'[l].type = "RESERVE"
      /\ slot' # slot => slot[k].type = "INVALID" /\ slot'[k].type = "RESERVE"
  <2>1. CASE slot' = slot
    BY <1>2, <2>1 DEF TypeOK
  <2>2. CASE slot' # slot
    <3>1. PICK n : n = [slot[k] EXCEPT !.type = "RESERVE"]
      OBVIOUS
    <3>2. slot[k] \in SlotState /\ slot[k].type = "INVALID" /\ slot \in [Slot -> SlotState]
      BY <1>1, <1>2, <1>3, <2>2 DEF TypeOK
    <3>3. /\ n \in SlotState /\ n.type = "RESERVE" /\ n.id = slot[k].id
          /\ n.high = slot[k].high /\ n.low = slot[k].low
      BY <3>1, <3>2 DEF SlotState, Type
    <3>4. slot' = [slot EXCEPT ![k] = n]
      BY <1>1, <1>3, <2>2, <3>1, <3>2
    <3>5. /\ slot' \in [Slot -> SlotState] /\ slot'[k] = n
          /\ \A l \in Slot : l # k => slot'[l] = slot[l]
      BY <1>3, <3>2, <3>3, <3>4, PutSlot
    <3>6. ArmOK(n) /\ ~ Live(n) /\ ~ Live(slot[k])
      BY <3>2, <3>3 DEF ArmOK, Live
    <3> QED
      BY <1>2, <3>2, <3>3, <3>5, <3>6
  <2> QED
    BY <2>1, <2>2
<1>7. \A u \in Opener : Holding(u)' => Holding(u) /\ opener'[u].id = opener[u].id
  BY <1>3, <1>4, <1>5 DEF Holding
<1>8. TypeInv'
  <2>1. TypeOK'
    BY <1>1, <1>2, <1>5, <1>6 DEF TypeOK, history
  <2>2. \A u \in Opener : Holding(u)' => opener'[u].id \in Id
    BY <1>2, <1>7 DEF TypeInv
  <2>3. \A l \in Slot : Live(slot'[l]) => slot'[l].id \in Id
    BY <1>2, <1>6 DEF TypeInv
  <2> QED
    BY <2>1, <2>2, <2>3 DEF TypeInv, Live
<1>9. (\A l \in Slot : ArmOK(slot[l]))'
  BY <1>6 DEF ArmOK, send_buffer_empty
<1>10. IdsFresh'
  BY <1>1, <1>2, <1>7 DEF IdsFresh, history
<1>11. LiveOpen'
  BY <1>1, <1>2, <1>6 DEF LiveOpen, Live, history
<1>12. OpensFirst'
  BY <1>1, <1>2, <1>6 DEF OpensFirst, Live, history
<1>13. Reserved'
  <2>1. /\ \A u \in Opener : opener[u].pc = "set" => HASH_ID(opener[u].id) \in Slot
        /\ \A i \in DOMAIN pipe : HASH_ID(pipe[i].id) \in Slot
    BY Hashes DEF Holding
  <2>2. CASE slot' = slot
    <3>1. \A u \in Opener : opener'[u].pc = "set" => opener[u].pc = "set" /\ opener'[u] = opener[u]
      BY <1>4, <1>5, <2>2
    <3> QED
      BY <1>1, <1>2, <2>2, <3>1 DEF Reserved, Opening
  <2>3. CASE slot' # slot
    <3>1. slot[k].type = "INVALID" /\ slot'[k].type = "RESERVE"
      BY <1>6, <2>3
    <3>2. /\ \A u \in Opener : opener[u].pc = "set" => HASH_ID(opener[u].id) # k
          /\ \A i \in DOMAIN pipe : Opening(i) => HASH_ID(pipe[i].id) # k
      BY <1>2, <3>1 DEF Reserved
    <3>3. \A u \in Opener : opener'[u].pc = "set" =>
            \/ u = t /\ HASH_ID(opener'[u].id) = k
            \/ u # t /\ opener'[u] = opener[u] /\ HASH_ID(opener[u].id) # k
      BY <1>4, <1>5, <3>2
    <3>4. \A u \in Opener : opener'[u].pc = "set" => slot'[HASH_ID(opener'[u].id)].type = "RESERVE"
      BY <1>2, <1>6, <2>1, <3>1, <3>3 DEF Reserved
    <3>5. \A i \in DOMAIN pipe : Opening(i) => slot'[HASH_ID(pipe[i].id)].type = "RESERVE"
      BY <1>2, <1>6, <2>1 DEF Reserved
    <3>6. \A u, v \in Opener : opener'[u].pc = "set" /\ opener'[v].pc = "set"
                               /\ HASH_ID(opener'[u].id) = HASH_ID(opener'[v].id) => u = v
      BY <1>2, <3>3 DEF Reserved
    <3>7. \A u \in Opener, i \in DOMAIN pipe : opener'[u].pc = "set" /\ Opening(i) =>
            HASH_ID(opener'[u].id) # HASH_ID(pipe[i].id)
      BY <1>2, <3>2, <3>3 DEF Reserved
    <3>8. \A i, j \in DOMAIN pipe : Opening(i) /\ Opening(j)
                                    /\ HASH_ID(pipe[i].id) = HASH_ID(pipe[j].id) => i = j
      BY <1>2 DEF Reserved
    <3> QED
      BY <1>1, <3>4, <3>5, <3>6, <3>7, <3>8 DEF Reserved, Opening
  <2> QED
    BY <2>2, <2>3
<1>14. IdInv'
  BY <1>1, <1>2, <1>10, <1>11, <1>12, <1>13 DEF IdInv, history
<1>15. BufInv'
  BY <1>1, <1>6, BufKeep DEF history, Queued
<1> QED
  BY <1>8, <1>9, <1>14, <1>15 DEF SockInv

(* The reserved slot gets its id, and the opening command is written. *)
LEMMA SetStep ==
    ASSUME SockInv, NEW t \in Opener, NEW c \in Kinds, ReserveSet(t, c)
    PROVE  SockInv'
<1>1. PICK x, k, r : x = opener[t].id /\ k = HASH_ID(x) /\ r = Request(c, x, 0, FALSE)
  OBVIOUS
<1>2. /\ opener[t].pc = "set"
      /\ slot' = [slot EXCEPT ![k].id = x]
      /\ pipe' = Append(pipe, r)
      /\ opener' = [opener EXCEPT ![t] = [pc |-> "idle", tries |-> 0, id |-> 0]]
      /\ issued' = [issued EXCEPT ![x] = c]
      /\ UNCHANGED <<alloc_id, ev, at, clr, ncmd, pkg, freed, wire, told, after, broken, refused, crashed>>
  BY <1>1 DEF ReserveSet, StoreId
<1>3. /\ TypeOK /\ TypeInv /\ IdsFresh /\ LiveOpen /\ OpensFirst /\ Reserved /\ after = {}
      /\ \A l \in Slot : ArmOK(slot[l])
  BY DEF SockInv, TypeInv, IdInv
<1>4. /\ Holding(t) /\ x \in Id /\ k \in Slot /\ issued[x] = NULL /\ x <= alloc_id
      /\ slot[k].type = "RESERVE" /\ c \in OpenCmd /\ c # NULL
  <2>1. Holding(t) /\ x \in Id /\ k \in Slot
    BY <1>1, <1>2, Hashes DEF Holding
  <2>2. c \in OpenCmd /\ c # NULL
    BY SocketAssumption DEF OpenCmd
  <2> QED
    BY <1>1, <1>2, <1>3, <2>1, <2>2 DEF IdsFresh, Reserved
<1>5. r \in Command /\ r.pkg = 0 /\ r.c = c /\ r.id = x
  <2>1. r.pkg = 0 /\ r.c = c /\ r.id = x
    BY <1>1 DEF Request
  <2> QED
    BY <1>1, <1>4 DEF Request, Command, OpenCmd
<1>6. /\ pipe' \in Seq(Command)
      /\ Len(pipe) \in Nat /\ DOMAIN pipe = 1 .. Len(pipe)
      /\ DOMAIN pipe' = 1 .. Len(pipe) + 1
      /\ \A i \in DOMAIN pipe : i \in DOMAIN pipe' /\ pipe'[i] = pipe[i]
      /\ pipe'[Len(pipe) + 1] = r
  BY <1>2, <1>3, <1>5, PushPipe DEF TypeOK
<1>7. \A i \in DOMAIN pipe' : i \in DOMAIN pipe \/ (i = Len(pipe) + 1 /\ pipe'[i] = r)
  BY <1>6
<1>8. /\ slot' \in [Slot -> SlotState]
      /\ \A l \in Slot : l # k => slot'[l] = slot[l]
      /\ \A l \in Slot : /\ slot'[l].high = slot[l].high /\ slot'[l].low = slot[l].low
                         /\ Live(slot'[l]) => l # k /\ slot'[l] = slot[l] /\ Live(slot[l])
                         /\ slot'[l].type = slot[l].type /\ ArmOK(slot'[l])
  <2>1. PICK n : n = [slot[k] EXCEPT !.id = x]
    OBVIOUS
  <2>2. slot \in [Slot -> SlotState] /\ slot[k] \in SlotState
    BY <1>3, <1>4 DEF TypeOK
  <2>3. /\ n \in SlotState /\ n.type = slot[k].type
        /\ n.high = slot[k].high /\ n.low = slot[k].low
    BY <1>4, <2>1, <2>2 DEF SlotState
  <2>4. slot' = [slot EXCEPT ![k] = n]
    BY <1>2, <1>4, <2>1, <2>2
  <2>5. /\ slot' \in [Slot -> SlotState] /\ slot'[k] = n
        /\ \A l \in Slot : l # k => slot'[l] = slot[l]
    BY <1>4, <2>2, <2>3, <2>4, PutSlot
  <2>6. ArmOK(n) /\ ~ Live(n)
    BY <1>4, <2>3 DEF ArmOK, Live
  <2> QED
    BY <1>3, <2>3, <2>5, <2>6
<1>9. /\ opener' \in [Opener -> [pc : {"idle", "look", "cas", "set"}, tries : 0 .. MAX_SOCKET, id : {0} \cup Id]]
      /\ opener'[t].pc = "idle" /\ \A u \in Opener : u # t => opener'[u] = opener[u]
  <2>1. 0 \in 0 .. MAX_SOCKET
    BY SocketAssumption
  <2> QED
    BY <1>2, <1>3, <2>1 DEF TypeOK
<1>10. \A u \in Opener : Holding(u)' => u # t /\ Holding(u) /\ opener'[u] = opener[u]
  BY <1>9 DEF Holding
<1>11. /\ issued' \in [Id -> Kinds \cup {"A", NULL}] /\ issued'[x] = c
       /\ \A y \in Id : y # x => issued'[y] = issued[y]
  BY <1>2, <1>3, <1>4 DEF TypeOK
<1>12. TypeInv'
  <2>1. TypeOK'
    BY <1>2, <1>3, <1>6, <1>8, <1>9, <1>11 DEF TypeOK
  <2>2. \A u \in Opener : Holding(u)' => opener'[u].id \in Id
    BY <1>3, <1>10 DEF TypeInv
  <2>3. \A l \in Slot : Live(slot'[l]) => slot'[l].id \in Id
    BY <1>3, <1>8 DEF TypeInv
  <2> QED
    BY <2>1, <2>2, <2>3 DEF TypeInv, Live
<1>13. (\A l \in Slot : ArmOK(slot[l]))'
  BY <1>8 DEF ArmOK, send_buffer_empty
<1>14. \A i \in DOMAIN pipe : pipe[i].id \in Id /\ issued[pipe[i].id] # NULL /\ pipe[i].id # x
  BY <1>3, <1>4, Hashes DEF IdsFresh
<1>15. told \subseteq Id /\ x \notin told
  BY <1>3, <1>4 DEF IdsFresh, TypeOK
<1>16. \A l \in Slot : Live(slot[l]) => slot[l].id \in Id /\ slot[l].id # x
  BY <1>3, <1>4 DEF TypeInv, LiveOpen
<1>17. IdsFresh'
  <2>1. \A u \in Opener : Holding(u) /\ u # t => opener[u].id # x /\ opener[u].id \in Id
    BY <1>1, <1>3, <1>4 DEF IdsFresh, TypeInv
  <2>2. \A u \in Opener : Holding(u)' => opener'[u].id <= alloc_id' /\ issued'[opener'[u].id] = NULL
    BY <1>2, <1>3, <1>10, <1>11, <2>1 DEF IdsFresh
  <2>3. \A u, v \in Opener : Holding(u)' /\ Holding(v)' /\ opener'[u].id = opener'[v].id => u = v
    BY <1>3, <1>10 DEF IdsFresh
  <2>4. \A y \in Id : issued'[y] # NULL => y <= alloc_id'
    BY <1>2, <1>3, <1>4, <1>11 DEF IdsFresh
  <2>5. \A y \in told' : issued'[y] # NULL
    BY <1>2, <1>3, <1>11, <1>15 DEF IdsFresh
  <2>6. \A i \in DOMAIN pipe' : issued'[pipe'[i].id] # NULL
    BY <1>4, <1>5, <1>6, <1>7, <1>11, <1>14
  <2> QED
    BY <2>2, <2>3, <2>4, <2>5, <2>6 DEF IdsFresh
<1>18. LiveOpen'
  <2>1. \A l \in Slot : Live(slot'[l]) =>
            slot'[l].id \notin told' /\ issued'[slot'[l].id] # NULL /\ HASH_ID(slot'[l].id) = l
    BY <1>2, <1>3, <1>8, <1>11, <1>16 DEF LiveOpen
  <2> QED
    BY <2>1 DEF LiveOpen, Live
<1>19. OpensFirst'
  <2>1. ASSUME NEW i \in DOMAIN pipe', pipe'[i].c \in OpenCmd
        PROVE  /\ pipe'[i].id \notin told'
               /\ \A j \in DOMAIN pipe' : j < i => pipe'[j].id # pipe'[i].id
               /\ \A l \in Slot : Live(slot'[l]) => slot'[l].id # pipe'[i].id
    <3>1. CASE i \in DOMAIN pipe
      <4>1. \A j \in DOMAIN pipe' : j < i => j \in DOMAIN pipe
        BY <1>6, <3>1
      <4>2. pipe'[i] = pipe[i] /\ \A j \in DOMAIN pipe : pipe'[j] = pipe[j]
        BY <1>6, <3>1
      <4>3. /\ pipe[i].id \notin told
            /\ \A j \in DOMAIN pipe : j < i => pipe[j].id # pipe[i].id
            /\ \A l \in Slot : Live(slot[l]) => slot[l].id # pipe[i].id
        BY <1>3, <2>1, <3>1, <4>2 DEF OpensFirst
      <4> QED
        BY <1>2, <1>8, <4>1, <4>2, <4>3
    <3>2. CASE i = Len(pipe) + 1 /\ pipe'[i] = r
      <4>1. \A j \in DOMAIN pipe' : j < i => j \in DOMAIN pipe
        BY <1>6, <3>2
      <4> QED
        BY <1>2, <1>5, <1>6, <1>8, <1>14, <1>15, <1>16, <3>2, <4>1
    <3> QED
      BY <1>7, <3>1, <3>2
  <2> QED
    BY <2>1 DEF OpensFirst, Live
<1>20. Reserved'
  <2>1. /\ \A u \in Opener : opener[u].pc = "set" => HASH_ID(opener[u].id) \in Slot
        /\ \A i \in DOMAIN pipe : HASH_ID(pipe[i].id) \in Slot
    BY Hashes DEF Holding
  <2>2. \A u \in Opener : opener'[u].pc = "set" =>
            u # t /\ opener'[u] = opener[u] /\ opener[u].pc = "set" /\ HASH_ID(opener[u].id) # k
    BY <1>1, <1>2, <1>3, <1>9 DEF Reserved
  <2>3. \A i \in DOMAIN pipe : Opening(i) => HASH_ID(pipe[i].id) # k
    BY <1>1, <1>2, <1>3 DEF Reserved
  <2>4. \A i \in DOMAIN pipe' : pipe'[i].c \in OpenCmd =>
            \/ i \in DOMAIN pipe /\ pipe'[i] = pipe[i] /\ Opening(i)
            \/ i = Len(pipe) + 1 /\ HASH_ID(pipe'[i].id) = k
    BY <1>1, <1>5, <1>6, <1>7 DEF Opening
  <2>5. \A u \in Opener : opener'[u].pc = "set" => slot'[HASH_ID(opener'[u].id)].type = "RESERVE"
    BY <1>3, <1>8, <2>1, <2>2 DEF Reserved
  <2>6. \A i \in DOMAIN pipe' : pipe'[i].c \in OpenCmd => slot'[HASH_ID(pipe'[i].id)].type = "RESERVE"
    BY <1>3, <1>4, <1>8, <2>1, <2>4 DEF Reserved
  <2>7. \A u, v \in Opener : opener'[u].pc = "set" /\ opener'[v].pc = "set"
                             /\ HASH_ID(opener'[u].id) = HASH_ID(opener'[v].id) => u = v
    BY <1>3, <2>2 DEF Reserved
  <2>8. \A i, j \in DOMAIN pipe' : pipe'[i].c \in OpenCmd /\ pipe'[j].c \in OpenCmd
                                   /\ HASH_ID(pipe'[i].id) = HASH_ID(pipe'[j].id) => i = j
    BY <1>3, <2>3, <2>4 DEF Reserved
  <2>9. \A u \in Opener, i \in DOMAIN pipe' : opener'[u].pc = "set" /\ pipe'[i].c \in OpenCmd =>
            HASH_ID(opener'[u].id) # HASH_ID(pipe'[i].id)
    BY <1>3, <2>2, <2>4 DEF Reserved
  <2> QED
    BY <2>5, <2>6, <2>7, <2>8, <2>9 DEF Reserved, Opening
<1>21. IdInv'
  BY <1>2, <1>3, <1>17, <1>18, <1>19, <1>20 DEF IdInv
<1>22. BufInv'
  <2>1. r.c \notin {"D", "P"}
    BY <1>4, <1>5 DEF OpenCmd
  <2> QED
    BY <1>2, <1>5, <1>8, <2>1, BufKeep DEF Queued
<1> QED
  BY <1>12, <1>13, <1>21, <1>22 DEF SockInv

(* The ids up to x are given out: nobody knows a later one. *)
LEMMA LaterId ==
    ASSUME SockInv, NEW x \in Id, x > alloc_id
    PROVE  /\ issued[x] = NULL /\ x \notin told
           /\ \A t \in Opener : Holding(t) => opener[t].id # x
           /\ \A i \in DOMAIN pipe : pipe[i].id # x
           /\ \A k \in Slot : Live(slot[k]) => slot[k].id # x
<1>1. alloc_id \in Nat /\ x \in Nat /\ ~ (x <= alloc_id)
  BY SocketAssumption DEF SockInv, TypeInv, TypeOK, Id
<1>2. issued[x] = NULL /\ \A t \in Opener : Holding(t) => opener[t].id # x
  BY <1>1 DEF SockInv, IdInv, IdsFresh
<1> QED
  BY <1>2 DEF SockInv, IdInv, IdsFresh, LiveOpen

(* report_accept. *)
LEMMA AcceptStep ==
    ASSUME SockInv, NEW e, report_accept(e)
    PROVE  SockInv'
<1> DEFINE free == {i \in 1 .. MAX_SOCKET : slot[HASH_ID(alloc_id + i)].type = "INVALID"}
           n == IF free = {} THEN MAX_SOCKET ELSE Min(free)
<1>1. /\ Event(e) /\ e.slot # NULL /\ slot[e.slot].type = "LISTEN" /\ NextEvent
      /\ UNCHANGED <<opener, pipe, clr, ncmd>>
      /\ at' \in {"cmd", "first", "event", "clear"}
  BY EventPlace DEF report_accept, Event
<1>2. ev' \in Seq([slot : Slot \cup {NULL}, read : BOOLEAN, write : BOOLEAN])
  BY <1>1, EventTypes
<1>3. slot[e.slot].id \notin told
  BY <1>1, LiveSlot DEF Live
<1>4. CASE /\ Report("error", slot[e.slot].id) \/ Silent
           /\ UNCHANGED <<slot, alloc_id, issued, pkg, freed, wire, broken, refused, crashed>>
  <2>1. HandledTypes
    BY <1>1, <1>2, <1>4 DEF HandledTypes, SockInv, TypeInv, TypeOK
  <2>2. told' = told /\ after' = after
    BY <1>4, Reported DEF Silent
  <2> QED
    BY <1>1, <1>4, <2>1, <2>2, StayStep
<1>5. CASE Crash("lists")
  <2>1. HandledTypes
    BY <1>1, <1>2, <1>5 DEF HandledTypes, Crash, history, SockInv, TypeInv, TypeOK
  <2> QED
    BY <1>1, <1>5, <2>1, StayStep DEF Crash, history
<1>6. ASSUME NEW x, NEW k, x = alloc_id + n, k = HASH_ID(x), x <= MaxId,
             free # {} => send_buffer_empty(slot[k]),
             alloc_id' = x,
             IF free = {} THEN UNCHANGED <<slot, issued>> /\ Silent
             ELSE /\ slot' = [slot EXCEPT ![k] = [@ EXCEPT !.type = "PACCEPT", !.protocol = "tcp", !.id = x]]
                  /\ issued' = [issued EXCEPT ![x] = "A"]
                  /\ Report("accept", slot[e.slot].id),
             UNCHANGED <<pkg, freed, wire, broken, refused, crashed>>
      PROVE  SockInv'
  <2>1. /\ TypeOK /\ TypeInv /\ IdsFresh /\ LiveOpen /\ OpensFirst /\ Reserved /\ after = {}
        /\ \A l \in Slot : ArmOK(slot[l])
    BY DEF SockInv, TypeInv, IdInv
  <2>2. n \in 1 .. MAX_SOCKET /\ (free # {} => n \in free)
    <3>1. free \in SUBSET Nat /\ free \subseteq 1 .. MAX_SOCKET /\ MAX_SOCKET \in 1 .. MAX_SOCKET
      BY SocketAssumption
    <3> HIDE DEF free
    <3> QED
      BY <3>1, LeastNumber
  <2>3. alloc_id \in Nat /\ x \in Id /\ x > alloc_id /\ x \in Nat
    <3>1. alloc_id \in Nat /\ n \in Nat /\ n >= 1
      BY <2>1, <2>2, SocketAssumption DEF TypeOK
    <3> HIDE DEF n
    <3> QED
      BY <1>6, <3>1, SocketAssumption DEF Id
  <2>4. k \in Slot /\ (free # {} => slot[k].type = "INVALID")
    BY <1>6, <2>2, <2>3, HashSlot
  <2>5. /\ issued[x] = NULL /\ x \notin told
        /\ \A t \in Opener : Holding(t) => opener[t].id # x
        /\ \A i \in DOMAIN pipe : pipe[i].id # x
        /\ \A l \in Slot : Live(slot[l]) => slot[l].id # x
    BY <2>3, LaterId
  <2>6. told' = told /\ after' = after
    BY <1>3, <1>6, Reported DEF Silent
  <2>7. /\ issued' \in [Id -> Kinds \cup {"A", NULL}]
        /\ \A y \in Id : y # x => issued'[y] = issued[y]
        /\ \A y \in Id : issued[y] # NULL => issued'[y] # NULL
        /\ free # {} => issued'[x] # NULL
    <3>1. "A" # NULL
      BY SocketAssumption
    <3> HIDE DEF free
    <3> QED
      BY <1>6, <2>1, <2>3, <2>5, <3>1 DEF TypeOK
  <2>8. /\ slot' \in [Slot -> SlotState]
        /\ \A l \in Slot : /\ Queued(slot'[l]) = Queued(slot[l]) /\ ArmOK(slot'[l])
                           /\ Live(slot'[l]) =>
                                \/ Live(slot[l]) /\ slot'[l].id = slot[l].id
                                \/ l = k /\ slot'[l].id = x /\ free # {}
                           /\ slot[l].type = "RESERVE" => slot'[l].type = "RESERVE"
    <3>1. CASE free = {}
      <4>1. slot' = slot
        BY <1>6, <3>1
      <4> QED
        BY <2>1, <4>1 DEF TypeOK
    <3>2. CASE free # {}
      <4>1. PICK m : m = [slot[k] EXCEPT !.type = "PACCEPT", !.protocol = "tcp", !.id = x]
        OBVIOUS
      <4>2. slot \in [Slot -> SlotState] /\ slot[k] \in SlotState /\ slot[k].type = "INVALID"
        BY <2>1, <2>4, <3>2 DEF TypeOK
      <4>3. /\ m \in SlotState /\ m.type = "PACCEPT" /\ m.id = x
            /\ m.high = slot[k].high /\ m.low = slot[k].low
        BY <2>3, <4>1, <4>2 DEF SlotState, Type
      <4>4. slot' = [slot EXCEPT ![k] = m]
        BY <1>6, <3>2, <4>1
      <4>5. /\ slot' \in [Slot -> SlotState] /\ slot'[k] = m
            /\ \A l \in Slot : l # k => slot'[l] = slot[l]
        BY <2>4, <4>2, <4>3, <4>4, PutSlot
      <4>6. ArmOK(m) /\ Queued(m) = Queued(slot[k])
        BY <1>6, <3>2, <4>3 DEF ArmOK, send_buffer_empty, Queued
      <4> HIDE DEF free
      <4> QED
        BY <2>1, <3>2, <4>2, <4>3, <4>5, <4>6
    <3> QED
      BY <3>1, <3>2
  <2> HIDE DEF free, n
  <2>9. TypeInv'
    <3>1. alloc_id' \in 0 .. MaxId
      BY <1>6, <2>3 DEF Id
    <3>2. TypeOK'
      BY <1>1, <1>2, <1>6, <2>1, <2>6, <2>7, <2>8, <3>1 DEF TypeOK
    <3>3. \A l \in Slot : Live(slot'[l]) => slot'[l].id \in Id
      BY <2>1, <2>3, <2>8 DEF TypeInv
    <3>4. \A t \in Opener : Holding(t)' => opener'[t].id \in Id
      BY <1>1, <2>1 DEF TypeInv, Holding
    <3> QED
      BY <3>2, <3>3, <3>4 DEF TypeInv, Live
  <2>10. (\A l \in Slot : ArmOK(slot[l]))'
    BY <2>8 DEF ArmOK, send_buffer_empty
  <2>11. IdsFresh'
    <3>1. \A y \in Id : y \in Nat
      BY SocketAssumption DEF Id
    <3>2. \A t \in Opener : Holding(t) => opener[t].id \in Id
      BY <2>1 DEF TypeInv
    <3>3. \A t \in Opener : Holding(t) => opener[t].id <= x /\ issued'[opener[t].id] = NULL
      <4>1. \A t \in Opener : Holding(t) => opener[t].id <= alloc_id /\ issued[opener[t].id] = NULL
        BY <2>1 DEF IdsFresh
      <4>2. \A t \in Opener : Holding(t) => opener[t].id <= x
        <5> SUFFICES ASSUME NEW t \in Opener, Holding(t) PROVE opener[t].id <= x
          OBVIOUS
        <5>1. PICK y \in Nat : y = opener[t].id /\ y <= alloc_id
          BY <3>1, <3>2, <4>1
        <5> QED
          BY <2>3, <5>1
      <4> QED
        BY <2>5, <2>7, <3>2, <4>1, <4>2
    <3>4. \A y \in Id : issued'[y] # NULL => y <= x
      BY <2>1, <2>3, <2>7, <3>1 DEF IdsFresh
    <3>5. \A y \in told : issued'[y] # NULL
      BY <2>1, <2>7 DEF IdsFresh, TypeOK
    <3>6. \A i \in DOMAIN pipe : issued'[pipe[i].id] # NULL
      BY <2>1, <2>7, Hashes DEF IdsFresh
    <3> QED
      BY <1>1, <1>6, <2>1, <2>6, <3>3, <3>4, <3>5, <3>6 DEF IdsFresh, Holding
  <2>12. LiveOpen'
    <3>1. \A l \in Slot : Live(slot'[l]) =>
            slot'[l].id \notin told /\ issued'[slot'[l].id] # NULL /\ HASH_ID(slot'[l].id) = l
      BY <1>6, <2>1, <2>5, <2>7, <2>8 DEF LiveOpen, TypeInv
    <3> QED
      BY <2>6, <3>1 DEF LiveOpen, Live
  <2>13. OpensFirst'
    <3>1. \A i \in DOMAIN pipe : pipe[i].c \in OpenCmd =>
            \A l \in Slot : Live(slot'[l]) => slot'[l].id # pipe[i].id
      BY <2>1, <2>5, <2>8 DEF OpensFirst
    <3> QED
      BY <1>1, <2>1, <2>6, <3>1 DEF OpensFirst, Live
  <2>14. Reserved'
    <3>1. /\ \A t \in Opener : opener[t].pc = "set" => HASH_ID(opener[t].id) \in Slot
          /\ \A i \in DOMAIN pipe : HASH_ID(pipe[i].id) \in Slot
      BY Hashes DEF Holding
    <3> QED
      BY <1>1, <2>1, <2>8, <3>1 DEF Reserved, Opening
  <2>15. IdInv'
    BY <2>1, <2>6, <2>11, <2>12, <2>13, <2>14 DEF IdInv
  <2>16. BufInv'
    BY <1>1, <1>6, <2>8, BufKeep
  <2> QED
    BY <2>9, <2>10, <2>15, <2>16 DEF SockInv
<1>7. CASE /\ alloc_id + n <= MaxId
           /\ IF free # {} /\ ~ send_buffer_empty(slot[HASH_ID(alloc_id + n)]) THEN Crash("lists")
              ELSE /\ alloc_id' = alloc_id + n
                   /\ IF free = {} THEN UNCHANGED <<slot, issued>> /\ Silent
                      ELSE /\ slot' = [slot EXCEPT ![HASH_ID(alloc_id + n)] =
                                        [@ EXCEPT !.type = "PACCEPT", !.protocol = "tcp",
                                                  !.id = alloc_id + n]]
                           /\ issued' = [issued EXCEPT ![alloc_id + n] = "A"]
                           /\ Report("accept", slot[e.slot].id)
                   /\ UNCHANGED <<pkg, freed, wire, broken, refused, crashed>>
  <2>1. PICK x, k : x = alloc_id + n /\ k = HASH_ID(x)
    OBVIOUS
  <2> HIDE DEF n, free
  <2> QED
    BY <1>5, <1>6, <1>7, <2>1
<1> QED
  BY <1>4, <1>7 DEF report_accept

-----------------------------------------------------------------------------
(* Theorems *)

(* socket_server_create establishes the invariant. *)
LEMMA SockInit ==
    ASSUME Init
    PROVE  SockInv
<1> DEFINE s0 == [type |-> "INVALID", id |-> 0, protocol |-> "tcp",
                  high |-> <<>>, low |-> <<>>, armed |-> FALSE]
<1>1. <<>> \in Seq(Pkg) /\ <<>> \in Seq(Command) /\ 0 \in 0 .. MAX_SOCKET
      /\ 0 \in 0 .. MaxId /\ 0 \in 0 .. MaxCmd /\ ToSet(<<>>) = {}
  BY SocketAssumption DEF ToSet
<1>2. s0 \in SlotState /\ ~ Live(s0) /\ Queued(s0) = {} /\ ArmOK(s0)
  BY <1>1 DEF SlotState, Type, Live, Queued, ArmOK
<1>3. \A k \in Slot : slot[k] = s0
  BY DEF Init
<1>4. slot \in [Slot -> SlotState]
  <2> HIDE DEF s0
  <2>1. slot = [k \in Slot |-> s0]
    BY DEF Init, s0
  <2> QED
    BY <1>2, <2>1
<1> HIDE DEF s0
<1>5. \A t \in Opener : opener[t].pc = "idle"
  BY DEF Init
<1>6. TypeInv
  <2>1. TypeOK
    BY <1>1, <1>4 DEF Init, TypeOK
  <2> QED
    BY <1>2, <1>3, <1>5, <2>1 DEF TypeInv, Holding
<1>7. DOMAIN pipe = {} /\ Len(pkg) = 0
  BY DEF Init
<1>8. IdInv
  BY <1>2, <1>3, <1>5, <1>7 DEF IdInv, IdsFresh, LiveOpen, OpensFirst, Reserved, Holding, Init
<1>9. BufInv
  <2>1. \A p \in Pkg : freed[p] = 0 /\ ~ InPipe(p) /\ ~ IsQueued(p) /\ ~ (p <= Len(pkg))
    <3>1. \A p \in Pkg : freed[p] = 0 /\ ~ (p <= Len(pkg))
      BY <1>7, SocketAssumption DEF Init, Pkg
    <3>2. \A p \in Pkg : ~ InPipe(p) /\ ~ IsQueued(p)
      BY <1>2, <1>3, <1>7 DEF InPipe, IsQueued
    <3> QED
      BY <3>1, <3>2
  <2>2. Len(pkg) <= MaxPkg
    BY <1>7, SocketAssumption
  <2> QED
    BY <1>2, <1>3, <1>7, <2>1, <2>2 DEF BufInv
<1> QED
  BY <1>2, <1>3, <1>6, <1>8, <1>9 DEF SockInv

(* Every step of the worker threads and of the socket thread keeps it. *)
LEMMA SockStep ==
    ASSUME SockInv, [Next]_vars
    PROVE  SockInv'
<1>1. CASE UNCHANGED vars
  <2>1. HandledTypes
    BY <1>1 DEF HandledTypes, vars, history, SockInv, TypeInv, TypeOK
  <2> QED
    BY <1>1, <2>1, StayStep DEF vars, history
<1>2. CASE \E t \in Opener : ReserveLook(t) \/ ReserveCAS(t) \/ \E c \in Kinds : ReserveSet(t, c)
  BY <1>2, LookStep, CASStep, SetStep
<1>3. CASE \E id \in Id : \E c \in {"S", "K", "C"}, hard \in BOOLEAN : Ask(c, id, hard)
  BY <1>3, AskStep
<1>4. CASE \E id \in Id, low \in BOOLEAN : Send(id, low)
  BY <1>4, SubmitStep
<1>5. CASE SocketThread
  BY <1>5, CmdStep, ClearStep, NoCmdStep, WaitStep, SkipStep, ConnectStep, AcceptStep,
     ForwardStep, WriteStep DEF SocketThread
<1> QED
  BY <1>1, <1>2, <1>3, <1>4, <1>5 DEF Next

(* The invariant holds: types, the exclusive reservation of a slot (so that the
   assertion on SOCKET_TYPE_RESERVE in new_fd holds), one owner for a package. *)
THEOREM SocketInvariant == Spec => []SockInv
<1>1. Init => SockInv
  BY SockInit
<1>2. SockInv /\ [Next]_vars => SockInv'
  BY SockStep
<1> QED
  BY <1>1, <1>2, PTL DEF Spec

(* A descriptor with something to write is armed: no queue waits for an event
   that send_buffer, report_connect or close_socket turned off.            *)
THEOREM QueuesAreArmed == Spec => []WriteArmed
<1>1. SockInv => WriteArmed
  BY DEF SockInv, ArmOK, WriteArmed
<1> QED
  BY <1>1, SocketInvariant, PTL

(* A package is in the pipe, in the lists of one slot, or freed once: no path of
   send_socket, send_buffer, force_close or the senders loses or frees it twice. *)
THEOREM BuffersFreedOnce == Spec => []BufferOnce
<1>1. ASSUME SockInv PROVE BufferOnce
  <2> SUFFICES ASSUME NEW p \in DOMAIN pkg
               PROVE  Cardinality({k \in Slot : p \in Queued(slot[k])}) + freed[p]
                        + (IF InPipe(p) THEN 1 ELSE 0) = 1
    BY DEF BufferOnce
  <2>1. BufInv /\ pkg \in Seq([id : Id, low : BOOLEAN])
    BY <1>1 DEF SockInv, TypeInv, TypeOK
  <2>2. p \in Pkg /\ p <= Len(pkg)
    <3>1. Len(pkg) \in Nat /\ p \in 1 .. Len(pkg)
      BY <2>1
    <3> QED
      BY <2>1, <3>1, SocketAssumption DEF BufInv, Pkg
  <2>3. PICK S : S = {k \in Slot : p \in Queued(slot[k])}
    OBVIOUS
  <2>4. IsQueued(p) => Cardinality(S) = 1
    <3>1. ASSUME IsQueued(p) PROVE \E k : S = {k}
      <4>1. PICK k \in Slot : p \in Queued(slot[k])
        BY <3>1 DEF IsQueued
      <4>2. S = {k}
        BY <2>1, <2>2, <2>3, <4>1 DEF BufInv
      <4> QED
        BY <4>2
    <3> QED
      BY <3>1, FS_Singleton
  <2>5. ~ IsQueued(p) => Cardinality(S) = 0
    <3>1. ~ IsQueued(p) => S = {}
      BY <2>3 DEF IsQueued
    <3> QED
      BY <3>1, FS_EmptySet
  <2>6. /\ freed[p] = IF ~ InPipe(p) /\ ~ IsQueued(p) THEN 1 ELSE 0
        /\ InPipe(p) => ~ IsQueued(p)
    BY <2>1, <2>2 DEF BufInv
  <2> QED
    BY <2>3, <2>4, <2>5, <2>6
<1> QED
  BY <1>1, SocketInvariant, PTL

(* Nothing is reported for an id after its close. *)
THEOREM ClosedIdsAreSilent == Spec => []ClosedIsFinal
<1>1. SockInv => ClosedIsFinal
  BY DEF SockInv, IdInv, ClosedIsFinal
<1> QED
  BY <1>1, SocketInvariant, PTL

(* The slot of an opening command is still the one its opener reserved: the
   assertion of new_fd, s->type == SOCKET_TYPE_RESERVE, never fails for it, in
   spite of events, closes and other openers of the same slot.             *)
THEOREM ReservationKept ==
    Spec => [][Cmd /\ Head(pipe).c \in OpenCmd => crashed' # "reserve"]_vars
<1>1. ASSUME SockInv, Cmd, Head(pipe).c \in OpenCmd
      PROVE  crashed' # "reserve"
  <2>1. PICK r, k : r = Head(pipe) /\ k = HASH_ID(r.id)
    OBVIOUS
  <2>2. /\ crashed = "no" /\ pipe # <<>> /\ pipe' = Tail(pipe)
        /\ r.c \in {"O", "L", "B", "U"} /\ new_fd(r)
    BY <1>1, <2>1 DEF Cmd, OpenCmd
  <2>3. slot[k].type = "RESERVE"
    <3>1. pipe \in Seq(Command) /\ Reserved
      BY <1>1 DEF SockInv, TypeInv, TypeOK, IdInv
    <3>2. 1 \in DOMAIN pipe /\ r = pipe[1]
      BY <2>1, <2>2, <3>1, PopPipe
    <3> QED
      BY <1>1, <2>1, <3>1, <3>2 DEF Reserved, Opening
  <2> QED
    BY <2>1, <2>2, <2>3 DEF new_fd, CmdCrash, Crash
<1>2. SockInv /\ [Next]_vars => [Cmd /\ Head(pipe).c \in OpenCmd => crashed' # "reserve"]_vars
  BY <1>1
<1> QED
  BY <1>2, SocketInvariant, PTL DEF Spec

-----------------------------------------------------------------------------
(* Streams of bytes *)

(* Bytes of one package are together, and at most a package of them. *)
Together(l) ==
    \A i, j \in DOMAIN l : i < j /\ l[i] = l[j] => j - i < Size /\ \A n \in i .. j : l[n] = l[i]

(* Where a package begins, all of it follows. *)
Complete(l) ==
    \A i \in DOMAIN l : i = 1 \/ l[i - 1] # l[i] => i + Size - 1 \in DOMAIN l /\ l[i + Size - 1] = l[i]

(* p may come before q: of one priority, the earlier one first.  f is pkg, which
   has their priorities.                                                   *)
Before(p, q, f) == p # q /\ (f[p].low = f[q].low => p < q)

(* The packages of a list are in an order the peer may see. *)
InOrder(l, f) == \A i, j \in DOMAIN l : i < j /\ l[i] # l[j] => Before(l[i], l[j], f)

(* The slot of x has the descriptor of x. *)
Mine(x) == Live(slot[HASH_ID(x)]) /\ slot[HASH_ID(x)].id = x

(* What is to be written for x right after what was written. *)
Ahead(x) == IF Mine(x) THEN slot[HASH_ID(x)].high ELSE <<>>

(* What waits for x behind everything of high priority. *)
Behind(x) == IF Mine(x) THEN slot[HASH_ID(x)].low ELSE <<>>

(* u, written or next to be written, is a stream that may go on with the low
   list l, and is made of whole packages when whole is TRUE.               *)
Flow(u, l, f, whole) ==
    /\ Together(u) /\ InOrder(u, f) /\ InOrder(l, f)
    /\ \A p \in ToSet(u), q \in ToSet(l) : Before(p, q, f)
    /\ whole => Complete(u)

(* The package of the i-th command is newer than all before it in the pipe and
   all that was taken from it.                                             *)
Newest(i) ==
    LET p == pipe[i].pkg IN
    /\ p <= Len(pkg) /\ pkg[p] = [id |-> pipe[i].id, low |-> pipe[i].c = "P"]
    /\ \A j \in DOMAIN pipe : j < i => pipe[j].pkg < p
    /\ \A x \in Id : \A q \in ToSet(wire[x]) : q < p
    /\ \A k \in Slot : \A q \in Queued(slot[k]) : q < p

(* A low list holds whole packages of low priority. *)
LowOK(l, f) == Together(l) /\ Complete(l) /\ \A p \in ToSet(l) : f[p].low

(* send_socket took the package, and nothing broke its id. *)
Accepted(p) == pkg[p].id \notin broken /\ p \notin refused /\ ~ InPipe(p) /\ ~ Stray(p)

(* The packages written or queued for x. *)
Carries(x) == ToSet(wire[x] \o Ahead(x)) \cup ToSet(Behind(x))

(* The parts of the invariant. *)
PipeNew == \A i \in DOMAIN pipe : pipe[i].pkg # 0 => Newest(i)

WireSent == \A x \in Id : \A q \in ToSet(wire[x]) : q <= Len(pkg)

LowsOK == \A k \in Slot : LowOK(slot[k].low, pkg)

Streams == \A x \in Id : Flow(wire[x] \o Ahead(x), Behind(x), pkg, x \notin broken)

AllCarried == \A p \in DOMAIN pkg : Accepted(p) => p \in Carries(pkg[p].id)

(* What was written for an id followed by its high list is one stream, whole
   unless the id is broken, its low list comes after it, and no package that
   was accepted is missing.                                                *)
WireInv == PipeNew /\ WireSent /\ LowsOK /\ Streams /\ AllCarried /\ crashed # "uncomplete"

(* c is l, of length a, and then m, of length b, byte by byte. *)
Row(l, m, c, a, b) ==
    /\ c \in Seq(Pkg) /\ a \in Nat /\ b \in Nat /\ Len(c) = a + b
    /\ DOMAIN l = 1 .. a /\ DOMAIN m = 1 .. b /\ DOMAIN c = 1 .. a + b
    /\ \A i \in 1 .. a : c[i] = l[i] /\ l[i] \in ToSet(l)
    /\ \A i \in a + 1 .. a + b : i - a \in 1 .. b /\ c[i] = m[i - a] /\ c[i] \in ToSet(m)
    /\ \A i \in 1 .. b : a + i \in a + 1 .. a + b /\ c[a + i] = m[i]

(* Two lists in a row. *)
LEMMA Joint ==
    ASSUME NEW l \in Seq(Pkg), NEW m \in Seq(Pkg)
    PROVE  \E c, a, b : c = l \o m /\ a = Len(l) /\ b = Len(m) /\ Row(l, m, c, a, b)
<1> SUFFICES ASSUME NEW c, NEW a, NEW b, c = l \o m, a = Len(l), b = Len(m)
             PROVE  Row(l, m, c, a, b)
  OBVIOUS
<1>1. /\ c \in Seq(Pkg) /\ a \in Nat /\ b \in Nat /\ Len(c) = a + b
      /\ DOMAIN l = 1 .. a /\ DOMAIN m = 1 .. b
      /\ \A i \in 1 .. a + b : c[i] = IF i <= a THEN l[i] ELSE m[i - a]
  BY ConcatProperties
<1>2. \A i \in 1 .. a : l[i] \in ToSet(l)
  BY <1>1 DEF ToSet
<1>3. \A i \in 1 .. b : m[i] \in ToSet(m)
  BY <1>1 DEF ToSet
<1>4. DOMAIN c = 1 .. a + b
  BY <1>1
<1>5. \A i \in 1 .. a : c[i] = l[i]
  BY <1>1
<1>6. \A i \in a + 1 .. a + b : i - a \in 1 .. b /\ c[i] = m[i - a]
  BY <1>1
<1>7. ASSUME NEW i \in 1 .. b PROVE a + i \in a + 1 .. a + b /\ c[a + i] = m[i]
  <2>1. PICK z : z = a + i
    OBVIOUS
  <2>2. z \in a + 1 .. a + b /\ z - a = i
    BY <1>1, <2>1
  <2> QED
    BY <1>6, <2>1, <2>2
<1> QED
  BY <1>1, <1>2, <1>3, <1>4, <1>5, <1>6, <1>7 DEF Row

(* Three lists in a row. *)
LEMMA InARow ==
    ASSUME NEW l \in Seq(Pkg), NEW m \in Seq(Pkg), NEW n \in Seq(Pkg)
    PROVE  (l \o m) \o n = l \o (m \o n)
<1>1. PICK c, a, b : c = l \o m /\ a = Len(l) /\ b = Len(m) /\ Row(l, m, c, a, b)
  BY Joint
<1>2. PICK d, e : d = m \o n /\ e = Len(n) /\ Row(m, n, d, b, e)
  <2>1. PICK d, x, e : d = m \o n /\ x = Len(m) /\ e = Len(n) /\ Row(m, n, d, x, e)
    BY Joint
  <2> QED
    BY <1>1, <2>1
<1>3. /\ a \in Nat /\ b \in Nat /\ e \in Nat /\ c \in Seq(Pkg) /\ d \in Seq(Pkg)
      /\ Len(c) = a + b /\ Len(d) = b + e
  BY <1>1, <1>2 DEF Row
<1>4. PICK s : s = c \o n /\ Row(c, n, s, a + b, e)
  <2>1. PICK s, x, y : s = c \o n /\ x = Len(c) /\ y = Len(n) /\ Row(c, n, s, x, y)
    BY <1>3, Joint
  <2> QED
    BY <1>2, <1>3, <2>1
<1>5. PICK t : t = l \o d /\ Row(l, d, t, a, b + e)
  <2>1. PICK t, x, y : t = l \o d /\ x = Len(l) /\ y = Len(d) /\ Row(l, d, t, x, y)
    BY <1>3, Joint
  <2> QED
    BY <1>1, <1>3, <2>1
<1>6. s \in Seq(Pkg) /\ t \in Seq(Pkg) /\ Len(s) = (a + b) + e /\ Len(t) = a + (b + e)
  BY <1>4, <1>5 DEF Row
<1>7. ASSUME NEW i \in 1 .. Len(s) PROVE s[i] = t[i]
  <2>1. CASE i \in 1 .. a
    <3>1. i \in 1 .. a + b
      BY <1>3, <2>1
    <3>2. s[i] = c[i] /\ c[i] = l[i] /\ t[i] = l[i]
      BY <1>1, <1>4, <1>5, <2>1, <3>1 DEF Row
    <3> QED
      BY <3>2
  <2>2. CASE i \in a + 1 .. a + b
    <3>1. PICK j \in 1 .. b : i = a + j
      <4>1. i - a \in 1 .. b /\ i = a + (i - a)
        BY <1>3, <2>2
      <4> QED
        BY <4>1
    <3>2. i \in 1 .. a + b /\ j \in 1 .. b + e
      BY <1>3, <2>2
    <3>3. s[i] = c[i] /\ c[i] = m[j]
      BY <1>1, <1>4, <3>1, <3>2 DEF Row
    <3>4. t[i] = d[j] /\ d[j] = m[j]
      BY <1>2, <1>5, <3>1, <3>2 DEF Row
    <3> QED
      BY <3>3, <3>4
  <2>3. CASE i \in a + b + 1 .. a + b + e
    <3>1. PICK j \in 1 .. e : i = (a + b) + j
      <4>1. i - (a + b) \in 1 .. e /\ i = (a + b) + (i - (a + b))
        BY <1>3, <2>3
      <4> QED
        BY <4>1
    <3>2. PICK x \in 1 .. b + e : x = b + j /\ i = a + x
      BY <1>3, <3>1
    <3>3. s[i] = n[j]
      BY <1>4, <3>1 DEF Row
    <3>4. t[i] = d[x] /\ d[x] = n[j]
      BY <1>2, <1>5, <3>2 DEF Row
    <3> QED
      BY <3>3, <3>4
  <2> QED
    BY <1>3, <1>6, <2>1, <2>2, <2>3
<1>8. Len(s) = Len(t)
  BY <1>3, <1>6
<1>9. s = t
  BY <1>6, <1>7, <1>8, SeqEqual
<1> QED
  BY <1>1, <1>2, <1>4, <1>5, <1>9

(* Lists without a common package make one stream. *)
LEMMA JoinTogether ==
    ASSUME NEW l \in Seq(Pkg), NEW m \in Seq(Pkg), Together(l), Together(m),
           ToSet(l) \cap ToSet(m) = {}
    PROVE  Together(l \o m)
<1>1. PICK c, a, b : c = l \o m /\ a = Len(l) /\ b = Len(m) /\ Row(l, m, c, a, b)
  BY Joint
<1>3. /\ a \in Nat /\ b \in Nat /\ DOMAIN l = 1 .. a /\ DOMAIN m = 1 .. b /\ DOMAIN c = 1 .. a + b
      /\ \A i \in 1 .. a : c[i] = l[i] /\ l[i] \in ToSet(l)
      /\ \A i \in a + 1 .. a + b : i - a \in 1 .. b /\ c[i] = m[i - a] /\ c[i] \in ToSet(m)
  BY <1>1 DEF Row
<1>4. Size \in Nat
  BY SocketAssumption
<1>5. ASSUME NEW i \in 1 .. a + b, NEW j \in 1 .. a + b, i < j, c[i] = c[j]
      PROVE  j - i < Size /\ \A n \in i .. j : c[n] = c[i]
  <2>1. CASE j <= a
    <3>1. i \in 1 .. a /\ j \in 1 .. a
      BY <1>3, <1>5, <2>1
    <3>2. j - i < Size /\ \A n \in i .. j : l[n] = l[i]
      BY <1>3, <1>5, <3>1 DEF Together
    <3>3. \A n \in i .. j : n \in 1 .. a
      BY <1>3, <3>1
    <3> QED
      BY <1>3, <3>1, <3>2, <3>3
  <2>2. CASE i > a
    <3>1. i \in a + 1 .. a + b /\ j \in a + 1 .. a + b
      BY <1>3, <1>5, <2>2
    <3>2. PICK x \in 1 .. b, y \in 1 .. b : x = i - a /\ y = j - a /\ x < y /\ m[x] = m[y]
      BY <1>3, <1>5, <3>1
    <3>3. y - x < Size /\ \A n \in x .. y : m[n] = m[x]
      <4>1. x \in DOMAIN m /\ y \in DOMAIN m /\ x < y /\ m[x] = m[y]
        BY <1>3, <3>2
      <4> QED
        BY <4>1 DEF Together
    <3>4. ASSUME NEW n \in i .. j PROVE c[n] = c[i]
      <4>1. n \in a + 1 .. a + b /\ n - a \in x .. y
        BY <1>3, <3>1, <3>2
      <4> QED
        BY <1>3, <3>1, <3>2, <3>3, <4>1
    <3>5. j - i < Size
      BY <1>3, <1>4, <3>2, <3>3
    <3> QED
      BY <3>4, <3>5
  <2>3. CASE i <= a /\ a < j
    <3>1. i \in 1 .. a /\ j \in a + 1 .. a + b
      BY <1>3, <1>5, <2>3
    <3> QED
      BY <1>3, <1>5, <3>1
  <2> QED
    BY <1>3, <2>1, <2>2, <2>3
<1>6. Together(c)
  BY <1>3, <1>5 DEF Together
<1> QED
  BY <1>1, <1>6

(* Whole packages after whole packages. *)
LEMMA JoinComplete ==
    ASSUME NEW l \in Seq(Pkg), NEW m \in Seq(Pkg), Complete(l), Complete(m)
    PROVE  Complete(l \o m)
<1>1. PICK c, a, b : c = l \o m /\ a = Len(l) /\ b = Len(m) /\ Row(l, m, c, a, b)
  BY Joint
<1>3. /\ a \in Nat /\ b \in Nat /\ DOMAIN l = 1 .. a /\ DOMAIN m = 1 .. b /\ DOMAIN c = 1 .. a + b
      /\ \A i \in 1 .. a : c[i] = l[i] /\ l[i] \in ToSet(l)
      /\ \A i \in a + 1 .. a + b : i - a \in 1 .. b /\ c[i] = m[i - a] /\ c[i] \in ToSet(m)
  BY <1>1 DEF Row
<1>4. Size \in Nat \ {0}
  BY SocketAssumption
<1>5. ASSUME NEW i \in 1 .. a + b, i = 1 \/ c[i - 1] # c[i]
      PROVE  i + Size - 1 \in 1 .. a + b /\ c[i + Size - 1] = c[i]
  <2>1. CASE i <= a
    <3>1. i \in 1 .. a /\ (i = 1 \/ l[i - 1] # l[i])
      <4>1. i # 1 => i - 1 \in 1 .. a
        BY <1>3, <2>1
      <4> QED
        BY <1>3, <1>5, <2>1, <4>1
    <3>2. i + Size - 1 \in 1 .. a /\ l[i + Size - 1] = l[i]
      BY <1>3, <3>1 DEF Complete
    <3> QED
      BY <1>3, <3>1, <3>2
  <2>2. CASE i > a
    <3>1. PICK x \in 1 .. b : x = i - a /\ i \in a + 1 .. a + b /\ c[i] = m[x]
      BY <1>3, <2>2
    <3>2. x = 1 \/ m[x - 1] # m[x]
      <4>1. x # 1 => i - 1 \in a + 1 .. a + b /\ x - 1 = i - 1 - a /\ i # 1
        BY <1>3, <3>1
      <4> QED
        BY <1>3, <1>5, <3>1, <4>1
    <3>3. x + Size - 1 \in 1 .. b /\ m[x + Size - 1] = m[x]
      BY <1>3, <3>1, <3>2 DEF Complete
    <3>4. i + Size - 1 \in a + 1 .. a + b /\ i + Size - 1 - a = x + Size - 1
      BY <1>3, <1>4, <3>1, <3>3
    <3>5. c[i + Size - 1] = m[x + Size - 1]
      <4>1. PICK z : z = i + Size - 1
        OBVIOUS
      <4>2. z \in a + 1 .. a + b /\ z - a = x + Size - 1
        BY <1>3, <1>4, <3>1, <3>4, <4>1
      <4>3. c[z] = m[z - a]
        BY <1>3, <4>2
      <4> QED
        BY <4>1, <4>2, <4>3
    <3> QED
      BY <1>3, <3>1, <3>3, <3>4, <3>5
  <2> QED
    BY <1>3, <2>1, <2>2
<1>6. Complete(c)
  BY <1>3, <1>5 DEF Complete
<1> QED
  BY <1>1, <1>6

(* The order of two lists in a row. *)
LEMMA JoinOrder ==
    ASSUME NEW l \in Seq(Pkg), NEW m \in Seq(Pkg), NEW f, InOrder(l, f), InOrder(m, f),
           \A p \in ToSet(l), q \in ToSet(m) : Before(p, q, f)
    PROVE  InOrder(l \o m, f)
<1>1. PICK c, a, b : c = l \o m /\ a = Len(l) /\ b = Len(m) /\ Row(l, m, c, a, b)
  BY Joint
<1>3. /\ a \in Nat /\ b \in Nat /\ DOMAIN l = 1 .. a /\ DOMAIN m = 1 .. b /\ DOMAIN c = 1 .. a + b
      /\ \A i \in 1 .. a : c[i] = l[i] /\ l[i] \in ToSet(l)
      /\ \A i \in a + 1 .. a + b : i - a \in 1 .. b /\ c[i] = m[i - a] /\ c[i] \in ToSet(m)
  BY <1>1 DEF Row
<1>5. ASSUME NEW i \in 1 .. a + b, NEW j \in 1 .. a + b, i < j, c[i] # c[j]
      PROVE  Before(c[i], c[j], f)
  <2>1. CASE j <= a
    <3>1. i \in 1 .. a /\ j \in 1 .. a
      BY <1>3, <1>5, <2>1
    <3> QED
      BY <1>3, <1>5, <3>1 DEF InOrder
  <2>2. CASE i > a
    <3>1. i \in a + 1 .. a + b /\ j \in a + 1 .. a + b
      BY <1>3, <1>5, <2>2
    <3>2. PICK x \in 1 .. b, y \in 1 .. b :
            x = i - a /\ y = j - a /\ x < y /\ c[i] = m[x] /\ c[j] = m[y]
      BY <1>3, <1>5, <3>1
    <3> QED
      BY <1>3, <1>5, <3>2 DEF InOrder
  <2>3. CASE i <= a /\ a < j
    <3>1. i \in 1 .. a /\ j \in a + 1 .. a + b
      BY <1>3, <1>5, <2>3
    <3> QED
      BY <1>3, <1>5, <3>1
  <2> QED
    BY <1>3, <2>1, <2>2, <2>3
<1>6. InOrder(c, f)
  BY <1>3, <1>5 DEF InOrder
<1> QED
  BY <1>1, <1>6

(* A list is its first part and the rest. *)
LEMMA Rejoin ==
    ASSUME NEW l \in Seq(Pkg), NEW n \in 0 .. Len(l)
    PROVE  SubSeq(l, 1, n) \o Rest(l, n) = l
<1>1. Len(l) \in Nat /\ n \in Nat
  OBVIOUS
<1>2. 1 \in 1 .. Len(l) + 1 /\ n \in 1 - 1 .. Len(l) /\ Len(l) \in n .. Len(l)
  BY <1>1
<1>3. SubSeq(l, 1, n) \o SubSeq(l, n + 1, Len(l)) = SubSeq(l, 1, Len(l))
  BY <1>2, ConcatAdjacentSubSeq
<1>4. SubSeq(l, 1, Len(l)) = l
  BY SubSeqFull
<1> QED
  BY <1>3, <1>4 DEF Rest

(* The parts of a stream are streams. *)
LEMMA PartTogether ==
    ASSUME NEW l \in Seq(Pkg), NEW m \in Seq(Pkg), Together(l \o m)
    PROVE  Together(l) /\ Together(m)
<1>1. PICK c, a, b : c = l \o m /\ a = Len(l) /\ b = Len(m) /\ Row(l, m, c, a, b)
  BY Joint
<1>2. Together(c)
  BY <1>1
<1>3. /\ a \in Nat /\ b \in Nat /\ DOMAIN l = 1 .. a /\ DOMAIN m = 1 .. b /\ DOMAIN c = 1 .. a + b
      /\ \A i \in 1 .. a : c[i] = l[i]
      /\ \A i \in a + 1 .. a + b : i - a \in 1 .. b /\ c[i] = m[i - a]
  BY <1>1 DEF Row
<1>4. ASSUME NEW i \in 1 .. a, NEW j \in 1 .. a, i < j, l[i] = l[j]
      PROVE  j - i < Size /\ \A n \in i .. j : l[n] = l[i]
  <2>1. i \in DOMAIN c /\ j \in DOMAIN c /\ c[i] = c[j]
    BY <1>3, <1>4
  <2>2. j - i < Size /\ \A n \in i .. j : c[n] = c[i]
    BY <1>2, <1>4, <2>1 DEF Together
  <2>3. \A n \in i .. j : n \in 1 .. a
    BY <1>3
  <2> QED
    BY <1>3, <2>2, <2>3
<1>5. \A i \in 1 .. b : a + i \in a + 1 .. a + b /\ c[a + i] = m[i]
  BY <1>1 DEF Row
<1>6. ASSUME NEW i \in 1 .. b, NEW j \in 1 .. b, i < j, m[i] = m[j]
      PROVE  j - i < Size /\ \A n \in i .. j : m[n] = m[i]
  <2>1. PICK x, y : x = a + i /\ y = a + j
    OBVIOUS
  <2>2. /\ x \in DOMAIN c /\ y \in DOMAIN c /\ x < y /\ c[x] = c[y] /\ y - x = j - i
    BY <1>3, <1>5, <1>6, <2>1
  <2>3. y - x < Size /\ \A n \in x .. y : c[n] = c[x]
    BY <1>2, <2>2 DEF Together
  <2>4. ASSUME NEW n \in i .. j PROVE m[n] = m[i]
    <3>1. n \in 1 .. b /\ a + n \in x .. y
      BY <1>3, <2>1
    <3> QED
      BY <1>5, <2>1, <2>3, <3>1
  <2> QED
    BY <2>2, <2>3, <2>4
<1> QED
  BY <1>3, <1>4, <1>6 DEF Together

(* The order of the parts. *)
LEMMA PartOrder ==
    ASSUME NEW l \in Seq(Pkg), NEW m \in Seq(Pkg), NEW f, InOrder(l \o m, f)
    PROVE  /\ InOrder(l, f) /\ InOrder(m, f)
           /\ \A p \in ToSet(l), q \in ToSet(m) : p # q => Before(p, q, f)
<1>1. PICK c, a, b : c = l \o m /\ a = Len(l) /\ b = Len(m) /\ Row(l, m, c, a, b)
  BY Joint
<1>2. InOrder(c, f)
  BY <1>1
<1>3. /\ a \in Nat /\ b \in Nat /\ DOMAIN l = 1 .. a /\ DOMAIN m = 1 .. b /\ DOMAIN c = 1 .. a + b
      /\ \A i \in 1 .. a : c[i] = l[i]
      /\ \A i \in a + 1 .. a + b : i - a \in 1 .. b /\ c[i] = m[i - a]
  BY <1>1 DEF Row
<1>4. InOrder(l, f)
  <2> SUFFICES ASSUME NEW i \in 1 .. a, NEW j \in 1 .. a, i < j, l[i] # l[j]
               PROVE  Before(l[i], l[j], f)
    BY <1>3 DEF InOrder
  <2>1. i \in DOMAIN c /\ j \in DOMAIN c /\ c[i] = l[i] /\ c[j] = l[j]
    BY <1>3
  <2> QED
    BY <1>2, <2>1 DEF InOrder
<1>5. \A i \in 1 .. b : a + i \in a + 1 .. a + b /\ c[a + i] = m[i]
  BY <1>1 DEF Row
<1>6. InOrder(m, f)
  <2> SUFFICES ASSUME NEW i \in 1 .. b, NEW j \in 1 .. b, i < j, m[i] # m[j]
               PROVE  Before(m[i], m[j], f)
    BY <1>3 DEF InOrder
  <2>1. PICK x, y : x = a + i /\ y = a + j
    OBVIOUS
  <2>2. /\ x \in DOMAIN c /\ y \in DOMAIN c /\ x < y /\ c[x] = m[i] /\ c[y] = m[j]
    BY <1>3, <1>5, <2>1
  <2> QED
    BY <1>2, <2>2 DEF InOrder
<1>7. ASSUME NEW p \in ToSet(l), NEW q \in ToSet(m), p # q PROVE Before(p, q, f)
  <2>1. PICK i \in 1 .. a, j \in 1 .. b : p = l[i] /\ q = m[j]
    BY <1>3 DEF ToSet
  <2>2. PICK y : y = a + j
    OBVIOUS
  <2>3. /\ i \in DOMAIN c /\ y \in DOMAIN c /\ i < y /\ c[i] = p /\ c[y] = q
    BY <1>3, <1>5, <2>1, <2>2
  <2> QED
    BY <1>2, <1>7, <2>3 DEF InOrder
<1> QED
  BY <1>4, <1>6, <1>7

(* Parts without a common package hold whole packages. *)
LEMMA PartComplete ==
    ASSUME NEW l \in Seq(Pkg), NEW m \in Seq(Pkg), Complete(l \o m), ToSet(l) \cap ToSet(m) = {}
    PROVE  Complete(l) /\ Complete(m)
<1>1. PICK c, a, b : c = l \o m /\ a = Len(l) /\ b = Len(m) /\ Row(l, m, c, a, b)
  BY Joint
<1>2. Complete(c)
  BY <1>1
<1>3. /\ a \in Nat /\ b \in Nat /\ DOMAIN l = 1 .. a /\ DOMAIN m = 1 .. b /\ DOMAIN c = 1 .. a + b
      /\ \A i \in 1 .. a : c[i] = l[i] /\ l[i] \in ToSet(l)
      /\ \A i \in a + 1 .. a + b : i - a \in 1 .. b /\ c[i] = m[i - a] /\ c[i] \in ToSet(m)
  BY <1>1 DEF Row
<1>4. Size \in Nat \ {0}
  BY SocketAssumption
<1>5. ASSUME NEW i \in 1 .. a, i = 1 \/ l[i - 1] # l[i]
      PROVE  i + Size - 1 \in 1 .. a /\ l[i + Size - 1] = l[i]
  <2>1. i \in DOMAIN c /\ (i = 1 \/ c[i - 1] # c[i])
    <3>1. i # 1 => i - 1 \in 1 .. a
      BY <1>3
    <3> QED
      BY <1>3, <1>5, <3>1
  <2>2. PICK z : z = i + Size - 1
    OBVIOUS
  <2>3. z \in DOMAIN c /\ c[z] = c[i]
    BY <1>2, <2>1, <2>2 DEF Complete
  <2>4. z \in 1 .. a \/ z \in a + 1 .. a + b
    BY <1>3, <2>3
  <2>5. z \in 1 .. a
    BY <1>3, <2>3, <2>4
  <2> QED
    BY <1>3, <2>2, <2>3, <2>5
<1>6. \A i \in 1 .. b : a + i \in a + 1 .. a + b /\ c[a + i] = m[i]
  BY <1>1 DEF Row
<1>7. ASSUME NEW i \in 1 .. b, i = 1 \/ m[i - 1] # m[i]
      PROVE  i + Size - 1 \in 1 .. b /\ m[i + Size - 1] = m[i]
  <2>1. PICK x : x = a + i
    OBVIOUS
  <2>2. x \in DOMAIN c /\ x \in a + 1 .. a + b /\ c[x] = m[i] /\ x - a = i
    BY <1>3, <1>6, <2>1
  <2>3. x = 1 \/ c[x - 1] # c[x]
    <3>1. CASE i = 1
      <4>1. x - 1 = a
        BY <1>3, <2>1, <3>1
      <4>2. a # 0 => a \in 1 .. a
        BY <1>3
      <4> QED
        BY <1>3, <2>1, <2>2, <3>1, <4>1, <4>2
    <3>2. CASE i # 1
      <4>1. PICK h \in 1 .. b : h = i - 1 /\ x - 1 = a + h
        BY <1>3, <2>1, <3>2
      <4> QED
        BY <1>6, <1>7, <2>2, <3>2, <4>1
    <3> QED
      BY <3>1, <3>2
  <2>4. PICK z : z = x + Size - 1
    OBVIOUS
  <2>5. z \in DOMAIN c /\ c[z] = c[x]
    BY <1>2, <2>2, <2>3, <2>4 DEF Complete
  <2>6. z \in a + 1 .. a + b /\ z - a = i + Size - 1
    BY <1>3, <1>4, <2>1, <2>4, <2>5
  <2> QED
    BY <1>3, <2>2, <2>5, <2>6
<1> QED
  BY <1>3, <1>5, <1>7 DEF Complete

(* The bytes of the first package of a list are its first ones. *)
LEMMA FirstBytes ==
    ASSUME NEW l \in Seq(Pkg), l # <<>>, Together(l),
           NEW k, k = Cardinality({i \in DOMAIN l : l[i] = Head(l)})
    PROVE  k \in 1 .. Len(l) /\ \A i \in DOMAIN l : l[i] = l[1] <=> i <= k
<1>1. Len(l) \in Nat \ {0} /\ DOMAIN l = 1 .. Len(l) /\ Head(l) = l[1]
  OBVIOUS
<1>2. PICK e : e = Len(l)
  OBVIOUS
<1>3. PICK S : S = {i \in 1 .. e : l[i] # l[1]}
  OBVIOUS
<1>4. \E j \in 1 .. e : \A i \in 1 .. e : l[i] = l[1] <=> i <= j
  <2>1. CASE S = {}
    <3>1. e \in 1 .. e /\ \A i \in 1 .. e : l[i] = l[1] /\ i <= e
      BY <1>1, <1>2, <1>3, <2>1
    <3> QED
      BY <3>1
  <2>2. CASE S # {}
    <3>1. S \in SUBSET Nat
      BY <1>1, <1>2, <1>3
    <3>2. PICK z \in S : \A i \in S : z <= i
      <4>1. PICK z \in S : \A n \in S : ~ (<<n, z>> \in OpToRel(<, Nat))
        BY <2>2, <3>1, WFMin, NatLessThanWellFounded
      <4>2. ASSUME NEW n \in S PROVE z <= n
        <5>1. n \in Nat /\ z \in Nat
          BY <3>1
        <5>2. ~ (n < z)
          BY <4>1, <5>1 DEF OpToRel
        <5> QED
          BY <5>1, <5>2
      <4> QED
        BY <4>2
    <3>3. z \in 1 .. e /\ z # 1 /\ l[z] # l[1]
      BY <1>3, <3>2
    <3>4. PICK j \in 1 .. e : j = z - 1
      BY <1>1, <1>2, <3>3
    <3>5. ASSUME NEW i \in 1 .. e, i <= j PROVE l[i] = l[1]
      <4>1. ~ (z <= i)
        BY <1>1, <1>2, <3>3, <3>4, <3>5
      <4> QED
        BY <1>3, <3>2, <4>1
    <3>6. ASSUME NEW i \in 1 .. e, l[i] = l[1] PROVE i <= j
      <4>1. CASE i > j
        <5>1. 1 < i /\ z \in 1 .. i /\ 1 \in DOMAIN l /\ i \in DOMAIN l
          BY <1>1, <1>2, <3>3, <3>4, <4>1
        <5>2. l[1] = l[i]
          BY <3>6
        <5>3. \A n \in 1 .. i : l[n] = l[1]
          BY <5>1, <5>2 DEF Together
        <5> QED
          BY <3>3, <5>1, <5>3
      <4> QED
        BY <1>1, <1>2, <3>4, <4>1
    <3> QED
      BY <3>5, <3>6
  <2> QED
    BY <2>1, <2>2
<1>5. PICK j \in 1 .. e : \A i \in 1 .. e : l[i] = l[1] <=> i <= j
  BY <1>4
<1>6. {i \in DOMAIN l : l[i] = Head(l)} = 1 .. j
  BY <1>1, <1>2, <1>5
<1>7. Cardinality(1 .. j) = j
  <2>1. 1 \in Int /\ j \in Int /\ ~ (1 > j) /\ j - 1 + 1 = j
    BY <1>1, <1>2
  <2>2. Cardinality(1 .. j) = IF 1 > j THEN 0 ELSE j - 1 + 1
    BY <2>1, FS_Interval
  <2> QED
    BY <2>1, <2>2
<1> QED
  BY <1>1, <1>2, <1>5, <1>6, <1>7

(* A list of whole packages is not uncomplete. *)
LEMMA NotUncomplete ==
    ASSUME NEW l \in Seq(Pkg), Together(l), Complete(l)
    PROVE  ~ list_uncomplete(l)
<1> SUFFICES ASSUME l # <<>>
             PROVE  ~ (Cardinality({i \in DOMAIN l : l[i] = Head(l)}) < Size)
  BY DEF list_uncomplete
<1>1. PICK k : k = Cardinality({i \in DOMAIN l : l[i] = Head(l)})
  OBVIOUS
<1>2. k \in 1 .. Len(l) /\ \A i \in DOMAIN l : l[i] = l[1] <=> i <= k
  BY <1>1, FirstBytes
<1>3. Size \in Nat \ {0} /\ 1 \in DOMAIN l /\ 1 + Size - 1 = Size /\ Len(l) \in Nat
  BY SocketAssumption
<1>4. 1 + Size - 1 \in DOMAIN l /\ l[1 + Size - 1] = l[1]
  BY <1>3 DEF Complete
<1>5. Size <= k
  BY <1>2, <1>3, <1>4
<1> QED
  BY <1>1, <1>2, <1>3, <1>5

(* The rest of a list that is not uncomplete starts with a new package. *)
LEMMA NewPackage ==
    ASSUME NEW a \in Seq(Pkg), NEW t \in Seq(Pkg), Together(a \o t), ~ list_uncomplete(t)
    PROVE  ToSet(a) \cap ToSet(t) = {}
<1> SUFFICES ASSUME NEW p \in ToSet(a), p \in ToSet(t) PROVE FALSE
  OBVIOUS
<1>1. PICK c, n, e : c = a \o t /\ n = Len(a) /\ e = Len(t) /\ Row(a, t, c, n, e)
  BY Joint
<1>2. /\ n \in Nat /\ e \in Nat /\ DOMAIN a = 1 .. n /\ DOMAIN t = 1 .. e /\ DOMAIN c = 1 .. n + e
      /\ \A i \in 1 .. n : c[i] = a[i]
      /\ \A i \in 1 .. e : n + i \in n + 1 .. n + e /\ c[n + i] = t[i]
  BY <1>1 DEF Row
<1>3. Together(c) /\ Together(t)
  BY <1>1, PartTogether
<1>4. PICK i \in 1 .. n, j \in 1 .. e : a[i] = p /\ t[j] = p
  BY <1>2 DEF ToSet
<1>5. PICK k : k = Cardinality({x \in DOMAIN t : t[x] = Head(t)})
  OBVIOUS
<1>6. t # <<>> /\ k \in 1 .. e /\ \A x \in DOMAIN t : t[x] = t[1] <=> x <= k
  <2>1. t # <<>>
    BY <1>2, <1>4
  <2> QED
    BY <1>1, <1>3, <1>5, <2>1, FirstBytes
<1>7. Size \in Nat \ {0} /\ Size <= k
  BY <1>2, <1>5, <1>6, SocketAssumption DEF list_uncomplete
<1>8. \A x \in i .. n + j : c[x] = c[i]
  <2>1. PICK y : y = n + j
    OBVIOUS
  <2>2. i \in DOMAIN c /\ y \in DOMAIN c /\ i < y /\ c[i] = c[y]
    BY <1>2, <1>4, <2>1
  <2>3. \A x \in i .. y : c[x] = c[i]
    BY <1>3, <2>2 DEF Together
  <2> QED
    BY <2>1, <2>3
<1>9. c[n] = c[i] /\ c[n + 1] = c[i]
  <2>1. n \in i .. n + j /\ n + 1 \in i .. n + j
    BY <1>2
  <2> QED
    BY <1>8, <2>1
<1>10. t[1] = c[i] /\ t[Size] = t[1] /\ Size \in 1 .. e
  <2>1. 1 \in 1 .. e /\ Size \in 1 .. e
    BY <1>2, <1>6, <1>7
  <2> QED
    BY <1>2, <1>6, <1>7, <1>9, <2>1
<1>11. PICK y : y = n + Size
  OBVIOUS
<1>12. n \in DOMAIN c /\ y \in DOMAIN c /\ n < y /\ c[n] = c[y] /\ y - n = Size
  BY <1>2, <1>7, <1>9, <1>10, <1>11
<1>13. y - n < Size
  BY <1>3, <1>12 DEF Together
<1> QED
  BY <1>7, <1>12, <1>13

(* raise_uncomplete takes all that is left of the package that was begun. *)
LEMMA RaisedPackage ==
    ASSUME NEW a \in Seq(Pkg), NEW t \in Seq(Pkg), Together(a \o t), t # <<>>,
           NEW k, k = Cardinality({i \in DOMAIN t : t[i] = Head(t)})
    PROVE  /\ k \in 0 .. Len(t)
           /\ ToSet(a \o SubSeq(t, 1, k)) \cap ToSet(Rest(t, k)) = {}
<1>1. Together(t)
  BY PartTogether
<1>2. k \in 1 .. Len(t) /\ \A x \in DOMAIN t : t[x] = t[1] <=> x <= k
  BY <1>1, FirstBytes
<1>3. k \in 0 .. Len(t) /\ k \in Nat /\ Len(t) \in Nat /\ DOMAIN t = 1 .. Len(t)
  BY <1>2
<1>4. PICK h, r : h = SubSeq(t, 1, k) /\ r = Rest(t, k)
  OBVIOUS
<1>5. /\ h \in Seq(Pkg) /\ r \in Seq(Pkg) /\ Len(h) = k /\ Len(r) = Len(t) - k
      /\ h \o r = t /\ (\A i \in 1 .. k : h[i] = t[i])
      /\ \A i \in 1 .. Len(t) - k : r[i] = t[i + k]
  <2>1. /\ SubSeq(t, 1, k) \in Seq(Pkg) /\ Len(SubSeq(t, 1, k)) = k
        /\ \A i \in 1 .. k : SubSeq(t, 1, k)[i] = t[i]
    BY <1>3, Cut
  <2>2. /\ Rest(t, k) \in Seq(Pkg) /\ Len(Rest(t, k)) = Len(t) - k
        /\ \A i \in 1 .. Len(t) - k : Rest(t, k)[i] = t[i + k]
    BY <1>3, Cut
  <2>3. SubSeq(t, 1, k) \o Rest(t, k) = t
    BY <1>3, Rejoin
  <2> QED
    BY <1>4, <2>1, <2>2, <2>3
<1>6. PICK u : u = a \o h
  OBVIOUS
<1>7. u \in Seq(Pkg) /\ u \o r = a \o t
  <2>1. u \in Seq(Pkg)
    BY <1>5, <1>6, ConcatProperties
  <2>2. (a \o h) \o r = a \o (h \o r)
    BY <1>5, InARow
  <2> QED
    BY <1>5, <1>6, <2>1, <2>2
<1>8. PICK c, n, e : c = u \o r /\ n = Len(u) /\ e = Len(r) /\ Row(u, r, c, n, e)
  BY <1>5, <1>7, Joint
<1>9. /\ n \in Nat /\ e \in Nat /\ DOMAIN u = 1 .. n /\ DOMAIN r = 1 .. e /\ DOMAIN c = 1 .. n + e
      /\ \A i \in 1 .. n : c[i] = u[i]
      /\ \A i \in 1 .. e : n + i \in n + 1 .. n + e /\ c[n + i] = r[i]
  BY <1>8 DEF Row
<1>10. Together(c)
  BY <1>7, <1>8
<1>11. n \in 1 .. n /\ u[n] = t[1]
  <2>1. PICK d, x, y : d = a \o h /\ x = Len(a) /\ y = Len(h) /\ Row(a, h, d, x, y)
    BY <1>5, Joint
  <2>2. d = u /\ y = k /\ x \in Nat /\ n = x + y
    BY <1>5, <1>6, <1>8, <2>1 DEF Row
  <2>3. y \in 1 .. y
    BY <1>2, <1>3, <2>2
  <2>4. d[x + y] = h[y]
    BY <2>1, <2>3 DEF Row
  <2>5. h[k] = t[k] /\ t[k] = t[1]
    BY <1>2, <1>3, <1>5
  <2> QED
    BY <1>3, <1>9, <2>2, <2>3, <2>4, <2>5
<1>12. ASSUME NEW p \in ToSet(u), p \in ToSet(r) PROVE FALSE
  <2>1. PICK i \in 1 .. n, j \in 1 .. e : u[i] = p /\ r[j] = p
    BY <1>9, <1>12 DEF ToSet
  <2>2. PICK y : y = n + j
    OBVIOUS
  <2>3. i \in DOMAIN c /\ y \in DOMAIN c /\ i < y /\ c[i] = c[y]
    BY <1>9, <2>1, <2>2
  <2>4. \A x \in i .. y : c[x] = c[i]
    BY <1>10, <2>3 DEF Together
  <2>5. n \in i .. y /\ n + 1 \in i .. y /\ 1 \in 1 .. e
    BY <1>9, <2>2
  <2>6. c[n] = c[i] /\ c[n + 1] = c[i]
    BY <2>4, <2>5
  <2>7. r[1] = t[1]
    BY <1>9, <1>11, <2>5, <2>6
  <2>8. r[1] = t[1 + k] /\ 1 + k \in DOMAIN t
    BY <1>3, <1>5, <1>8, <2>5
  <2>9. PICK z \in DOMAIN t : z = 1 + k /\ t[z] = t[1]
    BY <2>7, <2>8
  <2>10. z <= k
    BY <1>2, <2>9
  <2> QED
    BY <1>3, <2>9, <2>10
<1> QED
  BY <1>3, <1>4, <1>6, <1>12

(* One package is a stream. *)
LEMMA OnePackage ==
    ASSUME NEW p \in Pkg, NEW b, b = [i \in 1 .. Size |-> p], NEW f
    PROVE  b \in Seq(Pkg) /\ ToSet(b) = {p} /\ Together(b) /\ Complete(b) /\ InOrder(b, f)
<1>1. Size \in Nat \ {0} /\ DOMAIN b = 1 .. Size /\ \A i \in 1 .. Size : b[i] = p
  BY SocketAssumption
<1>2. b \in Seq(Pkg) /\ ToSet(b) = {p}
  <2>1. 0 \in 0 .. Size
    BY <1>1
  <2> QED
    BY <2>1, Bytes
<1>3. Together(b)
  <2> SUFFICES ASSUME NEW i \in 1 .. Size, NEW j \in 1 .. Size, i < j
               PROVE  j - i < Size /\ \A n \in i .. j : b[n] = b[i]
    BY <1>1 DEF Together
  <2>1. j - i < Size /\ \A n \in i .. j : n \in 1 .. Size
    BY <1>1
  <2> QED
    BY <1>1, <2>1
<1>4. Complete(b)
  <2> SUFFICES ASSUME NEW i \in 1 .. Size, i = 1 \/ b[i - 1] # b[i]
               PROVE  i + Size - 1 \in 1 .. Size /\ b[i + Size - 1] = b[i]
    BY <1>1 DEF Complete
  <2>1. i # 1 => i - 1 \in 1 .. Size
    BY <1>1
  <2>2. i = 1
    BY <1>1, <2>1
  <2>3. i + Size - 1 = Size /\ Size \in 1 .. Size
    BY <1>1, <2>2
  <2> QED
    BY <1>1, <2>3
<1>5. InOrder(b, f)
  BY <1>1 DEF InOrder
<1> QED
  BY <1>2, <1>3, <1>4, <1>5

(* Nothing before, after or of a list. *)
LEMMA NoBytes ==
    ASSUME NEW l \in Seq(Pkg)
    PROVE  /\ l \o <<>> = l /\ <<>> \o l = l /\ <<>> \in Seq(Pkg) /\ ToSet(<<>>) = {}
           /\ SubSeq(l, 1, 0) = <<>> /\ SubSeq(l, 1, Len(l)) = l
           /\ Rest(l, 0) = l /\ Rest(l, Len(l)) = <<>>
<1>1. l \o <<>> = l /\ <<>> \o l = l
  OBVIOUS
<1>2. <<>> \in Seq(Pkg) /\ ToSet(<<>>) = {}
  BY DEF ToSet
<1>3. Len(l) \in Nat /\ SubSeq(l, 1, Len(l)) = l
  BY SubSeqFull
<1>4. SubSeq(l, 1, 0) = <<>>
  BY SubSeqEmpty
<1>5. Rest(l, 0) = l
  <2>1. 0 + 1 = 1
    OBVIOUS
  <2> QED
    BY <1>3, <2>1 DEF Rest
<1>6. Rest(l, Len(l)) = <<>>
  <2>1. Len(l) \in 0 .. Len(l)
    BY <1>3
  <2> QED
    BY <2>1, Part
<1> QED
  BY <1>1, <1>2, <1>3, <1>4, <1>5, <1>6

(* A part of the second of two lists moves to the first. *)
LEMMA MoveOn ==
    ASSUME NEW a \in Seq(Pkg), NEW t \in Seq(Pkg), NEW k \in 0 .. Len(t)
    PROVE  (a \o SubSeq(t, 1, k)) \o Rest(t, k) = a \o t
<1>1. PICK h, r : h = SubSeq(t, 1, k) /\ r = Rest(t, k)
  OBVIOUS
<1>2. h \in Seq(Pkg) /\ r \in Seq(Pkg) /\ h \o r = t
  BY <1>1, Part, Rejoin
<1>3. (a \o h) \o r = a \o (h \o r)
  BY <1>2, InARow
<1> QED
  BY <1>1, <1>2, <1>3

(* Whole packages move from the low list to the stream. *)
LEMMA FlowCut ==
    ASSUME NEW u \in Seq(Pkg), NEW a \in Seq(Pkg), NEW r \in Seq(Pkg), NEW f, NEW whole \in BOOLEAN,
           Flow(u, a \o r, f, whole), LowOK(a \o r, f), ToSet(a) \cap ToSet(r) = {}
    PROVE  /\ Flow(u \o a, r, f, whole) /\ LowOK(r, f)
           /\ ToSet(u \o a) \cup ToSet(r) = ToSet(u) \cup ToSet(a \o r)
<1>1. ToSet(a \o r) = ToSet(a) \cup ToSet(r) /\ ToSet(u \o a) = ToSet(u) \cup ToSet(a)
  BY Elements
<1>2. /\ Together(u) /\ InOrder(u, f) /\ InOrder(a \o r, f) /\ (whole => Complete(u))
      /\ \A p \in ToSet(u), q \in ToSet(a \o r) : Before(p, q, f)
  BY DEF Flow
<1>3. Together(a \o r) /\ Complete(a \o r) /\ \A p \in ToSet(a \o r) : f[p].low
  BY DEF LowOK
<1>4. Together(a) /\ Together(r)
  BY <1>3, PartTogether
<1>5. Complete(a) /\ Complete(r)
  BY <1>3, PartComplete
<1>6. /\ InOrder(a, f) /\ InOrder(r, f)
      /\ \A p \in ToSet(a), q \in ToSet(r) : p # q => Before(p, q, f)
  BY <1>2, PartOrder
<1>7. \A p \in ToSet(a), q \in ToSet(r) : Before(p, q, f)
  BY <1>6
<1>8. \A p \in ToSet(u), q \in ToSet(a) : Before(p, q, f)
  BY <1>1, <1>2
<1>9. ToSet(u) \cap ToSet(a) = {}
  BY <1>8 DEF Before
<1>10. Together(u \o a)
  BY <1>2, <1>4, <1>9, JoinTogether
<1>11. InOrder(u \o a, f)
  BY <1>2, <1>6, <1>8, JoinOrder
<1>12. whole => Complete(u \o a)
  BY <1>2, <1>5, JoinComplete
<1>13. \A p \in ToSet(u \o a), q \in ToSet(r) : Before(p, q, f)
  BY <1>1, <1>2, <1>7
<1>14. LowOK(r, f)
  BY <1>1, <1>3, <1>4, <1>5 DEF LowOK
<1>15. Flow(u \o a, r, f, whole)
  BY <1>6, <1>10, <1>11, <1>12, <1>13 DEF Flow
<1> QED
  BY <1>1, <1>14, <1>15

(* Only a part of the stream is written, or of the low list after it. *)
LEMMA FlowPart ==
    ASSUME NEW u \in Seq(Pkg), NEW a \in Seq(Pkg), NEW r \in Seq(Pkg), NEW f, NEW l, NEW whole
    PROVE  /\ Flow(u \o r, l, f, whole) => Flow(u, <<>>, f, FALSE)
           /\ Flow(u, a \o r, f, whole) /\ LowOK(a \o r, f) => Flow(u \o a, <<>>, f, FALSE)
<1>1. ToSet(<<>>) = {} /\ InOrder(<<>>, f)
  BY DEF ToSet, InOrder
<1>2. ASSUME Flow(u \o r, l, f, whole) PROVE Flow(u, <<>>, f, FALSE)
  <2>1. Together(u \o r) /\ InOrder(u \o r, f)
    BY <1>2 DEF Flow
  <2>2. Together(u) /\ InOrder(u, f)
    BY <2>1, PartTogether, PartOrder
  <2> QED
    BY <1>1, <2>2 DEF Flow
<1>3. ASSUME Flow(u, a \o r, f, whole), LowOK(a \o r, f) PROVE Flow(u \o a, <<>>, f, FALSE)
  <2>1. ToSet(a \o r) = ToSet(a) \cup ToSet(r)
    BY Elements
  <2>2. /\ Together(u) /\ InOrder(u, f) /\ InOrder(a \o r, f) /\ Together(a \o r)
        /\ \A p \in ToSet(u), q \in ToSet(a) : Before(p, q, f)
    BY <1>3, <2>1 DEF Flow, LowOK
  <2>3. Together(a) /\ InOrder(a, f)
    BY <2>2, PartTogether, PartOrder
  <2>4. ToSet(u) \cap ToSet(a) = {}
    BY <2>2 DEF Before
  <2>5. Together(u \o a) /\ InOrder(u \o a, f)
    BY <2>2, <2>3, <2>4, JoinTogether, JoinOrder
  <2> QED
    BY <1>1, <2>5 DEF Flow
<1> QED
  BY <1>2, <1>3

(* send_buffer moves the stream of a slot on, and cuts it only by an error. *)
Flows(v, s, w, f, whole) ==
    /\ Flow((v \o w.out) \o w.slot.high, w.slot.low, f, whole /\ ~ w.error)
    /\ LowOK(w.slot.low, f)
    /\ ToSet(w.out) \subseteq Queued(s)
    /\ ~ w.error => ToSet(v \o s.high) \cup ToSet(s.low)
                    \subseteq ToSet((v \o w.out) \o w.slot.high) \cup ToSet(w.slot.low)

LEMMA SendFlow ==
    ASSUME NEW s \in SlotState, NEW w \in send_buffer(s), NEW v \in Seq(Pkg), NEW f,
           NEW whole \in BOOLEAN, Flow(v \o s.high, s.low, f, whole), LowOK(s.low, f)
    PROVE  Flows(v, s, w, f, whole)
<1> DEFINE all(n) == n = Len(s.high)
           cut(n, m) == SubSeq(s.high, 1, n) \o SubSeq(s.low, 1, m)
           stop(n) == [slot |-> [s EXCEPT !.high = Rest(@, n)], out |-> cut(n, 0), error |-> FALSE]
           cleared(m) == [s EXCEPT !.high = <<>>, !.low = Rest(@, m)]
           low(m) == [slot |-> IF list_uncomplete(cleared(m).low) THEN raise_uncomplete(cleared(m))
                               ELSE cleared(m),
                      out |-> cut(Len(s.high), m), error |-> FALSE]
           off == [slot |-> IF s.type = "HALFCLOSE" THEN force_close(s)
                            ELSE [s EXCEPT !.high = <<>>, !.armed = FALSE],
                   out |-> s.high, error |-> FALSE]
           fail(n, m) == [slot |-> force_close(s), out |-> cut(n, m), error |-> TRUE]
<1>1. PICK h, l : h = s.high /\ l = s.low
  OBVIOUS
<1>2. /\ h \in Seq(Pkg) /\ l \in Seq(Pkg) /\ <<>> \in Seq(Pkg) /\ Len(h) \in Nat /\ Len(l) \in Nat
      /\ Queued(s) = ToSet(h) \cup ToSet(l)
  BY <1>1 DEF SlotState, Queued
<1>3. PICK u \in Seq(Pkg) : u = v \o h
  BY <1>2, ConcatProperties
<1>4. Flow(u, l, f, whole) /\ LowOK(l, f)
  BY <1>1, <1>3
<1>5. force_close(s).high = <<>> /\ force_close(s).low = <<>>
  BY DEF force_close, SlotState
<1>6. LowOK(<<>>, f) /\ ToSet(<<>>) = {}
  BY DEF LowOK, Together, Complete, ToSet
<1>7. \/ \E n \in 0 .. Len(s.high) : ~ all(n) /\ w = stop(n)
      \/ s.low = <<>> /\ w = off
      \/ s.low # <<>> /\ \E m \in 0 .. Len(s.low) : w = low(m)
      \/ \E n \in 0 .. Len(s.high) - 1 : w = fail(n, 0)
      \/ \E m \in 0 .. Len(s.low) - 1 : w = fail(Len(s.high), m)
  BY DEF send_buffer, Written, cut
<1>8. ASSUME NEW n \in 0 .. Len(h)
      PROVE  /\ cut(n, 0) = SubSeq(h, 1, n) /\ SubSeq(h, 1, n) \in Seq(Pkg) /\ Rest(h, n) \in Seq(Pkg)
             /\ v \o SubSeq(h, 1, n) \in Seq(Pkg)
             /\ (v \o SubSeq(h, 1, n)) \o Rest(h, n) = u
             /\ ToSet(SubSeq(h, 1, n)) \subseteq ToSet(h)
  <2>1. PICK a, r : a = SubSeq(h, 1, n) /\ r = Rest(h, n)
    OBVIOUS
  <2>2. a \in Seq(Pkg) /\ r \in Seq(Pkg) /\ a \o r = h /\ ToSet(a) \subseteq ToSet(h)
    BY <1>2, <2>1, Part, Rejoin
  <2>3. (v \o a) \o r = v \o (a \o r)
    BY <2>2, InARow
  <2>4. SubSeq(l, 1, 0) = <<>> /\ a \o <<>> = a
    BY <1>2, <2>2, NoBytes
  <2>5. v \o a \in Seq(Pkg)
    BY <2>2, ConcatProperties
  <2> QED
    BY <1>1, <1>3, <2>1, <2>2, <2>3, <2>4, <2>5
<1>9. ASSUME NEW m \in 0 .. Len(l)
      PROVE  /\ SubSeq(l, 1, m) \in Seq(Pkg) /\ Rest(l, m) \in Seq(Pkg)
             /\ SubSeq(l, 1, m) \o Rest(l, m) = l
             /\ v \o cut(Len(h), m) = u \o SubSeq(l, 1, m)
             /\ ToSet(cut(Len(h), m)) \subseteq Queued(s)
  <2>1. PICK a, r : a = SubSeq(l, 1, m) /\ r = Rest(l, m)
    OBVIOUS
  <2>2. a \in Seq(Pkg) /\ r \in Seq(Pkg) /\ a \o r = l /\ ToSet(a) \subseteq ToSet(l)
    BY <1>2, <2>1, Part, Rejoin
  <2>3. cut(Len(h), m) = h \o a
    BY <1>1, <1>2, <2>1, NoBytes
  <2>4. (v \o h) \o a = v \o (h \o a)
    <3>1. h \in Seq(Pkg) /\ a \in Seq(Pkg)
      BY <1>2, <2>2
    <3> QED
      BY <3>1, InARow
  <2>5. ToSet(h \o a) = ToSet(h) \cup ToSet(a)
    BY <1>2, <2>2, Elements
  <2> QED
    BY <1>2, <1>3, <2>1, <2>2, <2>3, <2>4, <2>5
<1> HIDE DEF cut
<1>10. CASE \E n \in 0 .. Len(s.high) : ~ all(n) /\ w = stop(n)
  <2>1. PICK n \in 0 .. Len(h) : w = stop(n)
    BY <1>1, <1>10
  <2>2. w.out = cut(n, 0) /\ w.error = FALSE /\ w.slot.high = Rest(h, n) /\ w.slot.low = l
    BY <1>1, <2>1 DEF SlotState
  <2>3. (v \o w.out) \o w.slot.high = u
    BY <1>8, <2>2
  <2>4. (whole /\ ~ w.error) = whole
    BY <2>2
  <2>5. Flow((v \o w.out) \o w.slot.high, w.slot.low, f, whole /\ ~ w.error)
    BY <1>4, <2>2, <2>3, <2>4
  <2>6. ToSet(w.out) \subseteq Queued(s)
    BY <1>2, <1>8, <2>2
  <2> QED
    BY <1>1, <1>3, <1>4, <2>2, <2>3, <2>5, <2>6 DEF Flows
<1>11. CASE s.low = <<>> /\ w = off
  <2>1. w.out = h /\ w.error = FALSE /\ w.slot.high = <<>> /\ w.slot.low = l
    <3>1. w.slot = off.slot /\ w.out = h /\ w.error = FALSE
      BY <1>1, <1>11
    <3>2. [s EXCEPT !.high = <<>>, !.armed = FALSE].high = <<>>
          /\ [s EXCEPT !.high = <<>>, !.armed = FALSE].low = l
      BY <1>1 DEF SlotState
    <3> QED
      BY <1>1, <1>5, <1>11, <3>1, <3>2
  <2>2. (v \o w.out) \o w.slot.high = u
    BY <1>3, <2>1, NoBytes
  <2>3. (whole /\ ~ w.error) = whole
    BY <2>1
  <2>4. Flow((v \o w.out) \o w.slot.high, w.slot.low, f, whole /\ ~ w.error)
    BY <1>4, <2>1, <2>2, <2>3
  <2> QED
    BY <1>1, <1>2, <1>3, <1>4, <2>1, <2>2, <2>4 DEF Flows
<1>12. CASE s.low # <<>> /\ \E m \in 0 .. Len(s.low) : w = low(m)
  <2>1. PICK m \in 0 .. Len(l) : w = low(m)
    BY <1>1, <1>12
  <2>2. PICK a, t : a = SubSeq(l, 1, m) /\ t = Rest(l, m)
    OBVIOUS
  <2>3. /\ a \in Seq(Pkg) /\ t \in Seq(Pkg) /\ a \o t = l /\ v \o w.out = u \o a
        /\ w.error = FALSE /\ ToSet(w.out) \subseteq Queued(s)
    BY <1>1, <1>9, <2>1, <2>2
  <2>4. PICK c : c = cleared(m)
    OBVIOUS
  <2>5. c.high = <<>> /\ c.low = t /\ c \in SlotState
    <3>1. PICK e \in Seq(Pkg) : e = <<>>
      BY <1>2
    <3>2. c = [s EXCEPT !.high = e, !.low = t]
      BY <1>1, <2>2, <2>4, <3>1
    <3> QED
      BY <2>3, <3>1, <3>2 DEF SlotState
  <2>6. w.slot = IF list_uncomplete(t) THEN raise_uncomplete(c) ELSE c
    BY <2>1, <2>4, <2>5
  <2>7. Together(a \o t)
    BY <1>4, <2>3 DEF LowOK
  <2>8. (whole /\ ~ w.error) = whole /\ u \o a \in Seq(Pkg)
    BY <2>3, ConcatProperties
  <2>9. CASE ~ list_uncomplete(t)
    <3>1. w.slot.high = <<>> /\ w.slot.low = t
      BY <2>5, <2>6, <2>9
    <3>2. ToSet(a) \cap ToSet(t) = {}
      BY <2>3, <2>7, <2>9, NewPackage
    <3>3. /\ Flow(u \o a, t, f, whole) /\ LowOK(t, f)
          /\ ToSet(u \o a) \cup ToSet(t) = ToSet(u) \cup ToSet(l)
      <4>1. /\ a \in Seq(Pkg) /\ t \in Seq(Pkg) /\ Flow(u, a \o t, f, whole) /\ LowOK(a \o t, f)
        BY <1>4, <2>3
      <4>2. /\ Flow(u \o a, t, f, whole) /\ LowOK(t, f)
            /\ ToSet(u \o a) \cup ToSet(t) = ToSet(u) \cup ToSet(a \o t)
        BY <3>2, <4>1, FlowCut
      <4> QED
        BY <2>3, <4>2
    <3>4. (v \o w.out) \o w.slot.high = u \o a
      BY <2>3, <2>8, <3>1, NoBytes
    <3>5. Flow((v \o w.out) \o w.slot.high, w.slot.low, f, whole /\ ~ w.error)
      BY <2>8, <3>1, <3>3, <3>4
    <3> QED
      BY <1>1, <1>3, <2>3, <3>1, <3>3, <3>4, <3>5 DEF Flows
  <2>10. CASE list_uncomplete(t)
    <3>1. PICK k : k = Cardinality({i \in DOMAIN t : t[i] = Head(t)})
      OBVIOUS
    <3>2. PICK g, r : g = SubSeq(t, 1, k) /\ r = Rest(t, k)
      OBVIOUS
    <3>3. k \in 0 .. Len(t) /\ ToSet(a \o g) \cap ToSet(r) = {}
      BY <2>3, <2>7, <2>10, <3>1, <3>2, RaisedPackage DEF list_uncomplete
    <3>4. g \in Seq(Pkg) /\ r \in Seq(Pkg) /\ g \o r = t
      BY <2>3, <3>2, <3>3, Part, Rejoin
    <3>5. w.slot.high = g /\ w.slot.low = r
      <4>1. w.slot = [c EXCEPT !.high = g, !.low = r]
        BY <2>5, <2>6, <2>10, <3>1, <3>2 DEF raise_uncomplete
      <4> QED
        BY <2>5, <4>1 DEF SlotState
    <3>6. PICK b \in Seq(Pkg) : b = a \o g
      BY <2>3, <3>4, ConcatProperties
    <3>7. b \o r = l /\ (u \o a) \o g = u \o b
      <4>1. (a \o g) \o r = a \o t
        BY <2>3, <3>2, <3>3, MoveOn
      <4>2. (u \o a) \o g = u \o (a \o g)
        <5>1. a \in Seq(Pkg) /\ g \in Seq(Pkg)
          BY <2>3, <3>4
        <5> QED
          BY <5>1, InARow
      <4> QED
        BY <2>3, <3>4, <3>6, <4>1, <4>2
    <3>8. /\ Flow(u \o b, r, f, whole) /\ LowOK(r, f)
          /\ ToSet(u \o b) \cup ToSet(r) = ToSet(u) \cup ToSet(l)
      <4>1. Flow(u, b \o r, f, whole) /\ LowOK(b \o r, f) /\ ToSet(b) \cap ToSet(r) = {}
        BY <1>4, <3>3, <3>6, <3>7
      <4>2. /\ Flow(u \o b, r, f, whole) /\ LowOK(r, f)
            /\ ToSet(u \o b) \cup ToSet(r) = ToSet(u) \cup ToSet(b \o r)
        BY <3>4, <4>1, FlowCut
      <4> QED
        BY <3>7, <4>2
    <3>9. (v \o w.out) \o w.slot.high = u \o b
      BY <2>3, <3>5, <3>7
    <3>10. Flow((v \o w.out) \o w.slot.high, w.slot.low, f, whole /\ ~ w.error)
      BY <2>8, <3>5, <3>8, <3>9
    <3> QED
      BY <1>1, <1>3, <2>3, <3>5, <3>8, <3>9, <3>10 DEF Flows
  <2> QED
    BY <2>9, <2>10
<1>13. ASSUME w.error, w.slot = force_close(s), Flow(v \o w.out, <<>>, f, FALSE),
              v \o w.out \in Seq(Pkg), ToSet(w.out) \subseteq Queued(s)
       PROVE  Flows(v, s, w, f, whole)
  <2>1. (v \o w.out) \o w.slot.high = v \o w.out /\ w.slot.low = <<>>
    BY <1>5, <1>13, NoBytes
  <2>2. (whole /\ ~ w.error) = FALSE
    BY <1>13
  <2>3. Flow((v \o w.out) \o w.slot.high, w.slot.low, f, whole /\ ~ w.error)
    BY <1>13, <2>1, <2>2
  <2> QED
    BY <1>6, <1>13, <2>1, <2>3 DEF Flows
<1>14. CASE \E n \in 0 .. Len(s.high) - 1 : w = fail(n, 0)
  <2>0. PICK n \in 0 .. Len(s.high) - 1 : w = fail(n, 0)
    BY <1>14
  <2>1. n \in 0 .. Len(h) /\ w = fail(n, 0)
    BY <1>1, <1>2, <2>0
  <2>2. PICK a, r : a = SubSeq(h, 1, n) /\ r = Rest(h, n)
    OBVIOUS
  <2>3. /\ w.error /\ w.slot = force_close(s) /\ w.out = a /\ r \in Seq(Pkg)
        /\ v \o a \in Seq(Pkg) /\ (v \o a) \o r = u /\ ToSet(a) \subseteq ToSet(h)
    BY <1>8, <2>1, <2>2
  <2>4. Flow(v \o a, <<>>, f, FALSE)
    BY <1>4, <2>3, FlowPart
  <2> QED
    BY <1>2, <1>13, <2>3, <2>4
<1>15. CASE \E m \in 0 .. Len(s.low) - 1 : w = fail(Len(s.high), m)
  <2>0. PICK m \in 0 .. Len(s.low) - 1 : w = fail(Len(s.high), m)
    BY <1>15
  <2>1. m \in 0 .. Len(l) /\ w = fail(Len(h), m)
    BY <1>1, <1>2, <2>0
  <2>2. PICK a, r : a = SubSeq(l, 1, m) /\ r = Rest(l, m)
    OBVIOUS
  <2>3. /\ w.error /\ w.slot = force_close(s) /\ a \in Seq(Pkg) /\ r \in Seq(Pkg) /\ a \o r = l
        /\ v \o w.out = u \o a /\ ToSet(w.out) \subseteq Queued(s)
    BY <1>9, <2>1, <2>2
  <2>4. Flow(u \o a, <<>>, f, FALSE)
    BY <1>4, <2>3, FlowPart
  <2>5. u \o a \in Seq(Pkg)
    BY <2>3, ConcatProperties
  <2> QED
    BY <1>13, <2>3, <2>4, <2>5
<1> QED
  BY <1>7, <1>10, <1>11, <1>12, <1>14, <1>15

-----------------------------------------------------------------------------
(* Steps and streams *)

(* A package that was sent has an id. *)
LEMMA PkgType ==
    ASSUME TypeOK, NEW p \in DOMAIN pkg
    PROVE  p \in Nat \ {0} /\ p <= Len(pkg) /\ pkg[p].id \in Id
<1>1. pkg \in Seq([id : Id, low : BOOLEAN])
  BY DEF TypeOK
<1>2. DOMAIN pkg = 1 .. Len(pkg) /\ Len(pkg) \in Nat
  BY <1>1, LenProperties
<1>3. pkg[p] \in [id : Id, low : BOOLEAN]
  BY <1>1, <1>2, ElementOfSeq
<1> QED
  BY <1>2, <1>3

(* The packages P leave the pipe, with the first command, which is about x, or
   with none.                                                              *)
Popped(P, x) ==
    \/ pipe' = pipe /\ P = {}
    \/ pipe # <<>> /\ pipe' = Tail(pipe) /\ P = {Head(pipe).pkg} \ {0} /\ Head(pipe).id = x

(* The lists of a slot n that count for x. *)
HighOf(n, x) == IF Live(n) /\ n.id = x THEN n.high ELSE <<>>

LowOf(n, x) == IF Live(n) /\ n.id = x THEN n.low ELSE <<>>

(* The slot k of x becomes n: bytes may move from P to the lists of the slot and
   from there to the wire of x, which stays a stream, and no package is dropped
   unless x is broken.                                                     *)
Turned(k, n, x, P) ==
    /\ x \in Id /\ k = HASH_ID(x) /\ k \in Slot /\ n \in SlotState
    /\ slot' = [slot EXCEPT ![k] = n]
    /\ wire' \in [Id -> Seq(Pkg)] /\ \A y \in Id : y # x => wire'[y] = wire[y]
    /\ n = slot[k] \/ ((Live(slot[k]) => slot[k].id = x) /\ (Live(n) => n.id = x))
    /\ Popped(P, x)
    /\ ToSet(wire'[x]) \subseteq ToSet(wire[x]) \cup Queued(slot[k]) \cup P
    /\ Queued(n) \subseteq Queued(slot[k]) \cup P
    /\ LowOK(n.low, pkg)
    /\ Flow(wire'[x] \o HighOf(n, x), LowOf(n, x), pkg, x \notin broken')
    /\ x \notin broken' =>
        /\ Carries(x) \subseteq ToSet(wire'[x] \o HighOf(n, x)) \cup ToSet(LowOf(n, x))
        /\ \A p \in P : \/ p \in refused'
                        \/ p \in ToSet(wire'[x] \o HighOf(n, x)) \cup ToSet(LowOf(n, x))
                        \/ ~ Live(n) /\ p \in Queued(n)
    /\ Live(slot[k]) \/ send_buffer_empty(slot[k]) \/ (~ Live(n) /\ Queued(slot[k]) \subseteq Queued(n))
    /\ broken \subseteq broken' /\ broken' \subseteq broken \cup {x}
    /\ refused \subseteq refused' /\ pkg' = pkg /\ crashed' # "uncomplete"

(* Such a step keeps the streams. *)
LEMMA TurnedStep ==
    ASSUME SockInv, WireInv, NEW k, NEW n, NEW x, NEW P, Turned(k, n, x, P)
    PROVE  WireInv'
<1>1. TypeOK /\ BufInv /\ PipeNew /\ WireSent /\ LowsOK /\ Streams /\ AllCarried
  BY DEF SockInv, TypeInv, WireInv
<1>2. /\ x \in Id /\ k = HASH_ID(x) /\ k \in Slot /\ n \in SlotState /\ slot'[k] = n
      /\ \A l \in Slot : l # k => slot'[l] = slot[l]
      /\ \A y \in Id : y # x => wire'[y] = wire[y]
      /\ pkg' = pkg /\ Popped(P, x)
  BY <1>1, PutSlot DEF Turned, TypeOK
<1>3. \A y \in Id : HASH_ID(y) \in Slot
  BY Hashes
<1>4. pipe # <<>> /\ pipe' = Tail(pipe) =>
         /\ DOMAIN pipe = 1 .. Len(pipe) /\ Len(pipe) \in Nat
         /\ DOMAIN pipe' = 1 .. Len(pipe) - 1
         /\ \A i \in DOMAIN pipe' : i + 1 \in DOMAIN pipe /\ pipe'[i] = pipe[i + 1]
         /\ 1 \in DOMAIN pipe /\ Head(pipe) = pipe[1]
  BY <1>1, PopPipe DEF TypeOK
<1>5. ASSUME NEW p \in P
      PROVE  /\ pipe # <<>> /\ pipe' = Tail(pipe) /\ 1 \in DOMAIN pipe /\ p = pipe[1].pkg
             /\ p # 0 /\ Newest(1) /\ p <= Len(pkg) /\ pkg[p].id = x
  <2>1. pipe # <<>> /\ pipe' = Tail(pipe) /\ p = Head(pipe).pkg /\ p # 0 /\ Head(pipe).id = x
    BY <1>2 DEF Popped
  <2>2. 1 \in DOMAIN pipe /\ p = pipe[1].pkg /\ Newest(1)
    BY <1>1, <1>4, <2>1 DEF PipeNew
  <2> QED
    BY <1>4, <2>1, <2>2 DEF Newest
<1>6. ASSUME NEW y \in Id, NEW q \in ToSet(wire'[y])
      PROVE  \/ q \in ToSet(wire[y])
             \/ \E l \in Slot : q \in Queued(slot[l])
             \/ q \in P
  BY <1>2, <1>6 DEF Turned
<1>7. ASSUME NEW l \in Slot, NEW q \in Queued(slot'[l])
      PROVE  (\E j \in Slot : q \in Queued(slot[j])) \/ q \in P
  BY <1>2, <1>7 DEF Turned
<1>8. PipeNew'
  <2> SUFFICES ASSUME NEW i \in DOMAIN pipe', pipe'[i].pkg # 0 PROVE Newest(i)'
    BY DEF PipeNew
  <2>1. PICK p : p = pipe'[i].pkg
    OBVIOUS
  <2>2. PICK h \in DOMAIN pipe : pipe'[i] = pipe[h] /\ (pipe' = pipe => h = i)
                                /\ (pipe' # pipe => h = i + 1 /\ i \in Nat)
    BY <1>2, <1>4 DEF Popped
  <2>3. Newest(h) /\ pipe[h].pkg = p
    BY <1>1, <2>1, <2>2 DEF PipeNew
  <2>4. \A q \in P : q < p
    <3> SUFFICES ASSUME NEW q \in P PROVE q < p
      OBVIOUS
    <3>1. /\ pipe # <<>> /\ pipe' = Tail(pipe) /\ 1 \in DOMAIN pipe /\ q = pipe[1].pkg
      BY <1>5
    <3>2. pipe' # pipe /\ 1 < h
      <4>1. Len(pipe) \in DOMAIN pipe /\ Len(pipe) \notin DOMAIN pipe'
        BY <1>4, <3>1
      <4>2. pipe' # pipe /\ i \in 1 .. Len(pipe) - 1 /\ Len(pipe) \in Nat
        BY <1>4, <3>1, <4>1
      <4> QED
        BY <2>2, <4>2
    <3> QED
      BY <2>3, <3>1, <3>2 DEF Newest
  <2>5. \A j \in DOMAIN pipe' : j < i => pipe'[j].pkg < p
    <3> SUFFICES ASSUME NEW j \in DOMAIN pipe', j < i PROVE pipe'[j].pkg < p
      OBVIOUS
    <3>1. CASE pipe' = pipe
      BY <2>2, <2>3, <3>1 DEF Newest
    <3>2. CASE pipe' # pipe
      <4>1. j + 1 \in DOMAIN pipe /\ pipe'[j] = pipe[j + 1] /\ j \in Nat
        BY <1>2, <1>4, <3>2 DEF Popped
      <4>2. j + 1 < h
        BY <2>2, <3>2, <4>1
      <4> QED
        BY <2>3, <4>1, <4>2 DEF Newest
    <3> QED
      BY <3>1, <3>2
  <2>6. \A y \in Id : \A q \in ToSet(wire'[y]) : q < p
    BY <1>6, <2>3, <2>4 DEF Newest
  <2>7. \A l \in Slot : \A q \in Queued(slot'[l]) : q < p
    BY <1>7, <2>3, <2>4 DEF Newest
  <2>8. p <= Len(pkg') /\ pkg'[p] = [id |-> pipe'[i].id, low |-> pipe'[i].c = "P"]
    BY <1>2, <2>2, <2>3 DEF Newest
  <2> QED
    BY <2>1, <2>5, <2>6, <2>7, <2>8 DEF Newest
<1>9. WireSent'
  <2> SUFFICES ASSUME NEW y \in Id, NEW q \in ToSet(wire'[y]) PROVE q <= Len(pkg)
    BY <1>2 DEF WireSent
  <2>1. CASE \E l \in Slot : q \in Queued(slot[l])
    <3>1. PICK l \in Slot : q \in Queued(slot[l])
      BY <2>1
    <3>2. q \in Pkg
      BY <1>1, <3>1, QueuedPkg DEF TypeOK
    <3> QED
      BY <1>1, <3>1, <3>2 DEF BufInv, IsQueued
  <2> QED
    BY <1>1, <1>5, <1>6, <2>1 DEF WireSent
<1>10. LowsOK'
  <2>1. \A l \in Slot : LowOK(slot'[l].low, pkg')
    BY <1>1, <1>2 DEF Turned, LowsOK
  <2> QED
    BY <2>1 DEF LowsOK
<1>11. ASSUME NEW y \in Id, y # x
       PROVE  wire'[y] = wire[y] /\ Ahead(y)' = Ahead(y) /\ Behind(y)' = Behind(y)
  <2>1. CASE HASH_ID(y) # k
    BY <1>2, <1>3, <1>11, <2>1 DEF Ahead, Behind, Mine
  <2>2. CASE HASH_ID(y) = k /\ n # slot[k]
    <3>1. ~ Mine(y) /\ ~ Mine(y)'
      BY <1>2, <1>11, <2>2 DEF Mine, Turned
    <3> QED
      BY <1>2, <1>11, <3>1 DEF Ahead, Behind
  <2>3. CASE HASH_ID(y) = k /\ n = slot[k]
    BY <1>2, <1>11, <2>3 DEF Ahead, Behind, Mine
  <2> QED
    BY <2>1, <2>2, <2>3
<1>12. Ahead(x)' = HighOf(n, x) /\ Behind(x)' = LowOf(n, x)
  BY <1>2 DEF Turned, Ahead, Behind, Mine, HighOf, LowOf
<1>13. Streams'
  <2> SUFFICES ASSUME NEW y \in Id
               PROVE  Flow(wire'[y] \o Ahead(y)', Behind(y)', pkg', y \notin broken')
    BY DEF Streams
  <2>1. CASE y = x
    BY <1>2, <1>12, <2>1 DEF Turned
  <2>2. CASE y # x
    <3>1. (y \notin broken') = (y \notin broken)
      BY <2>2 DEF Turned
    <3>2. Flow(wire[y] \o Ahead(y), Behind(y), pkg, y \notin broken)
      BY <1>1 DEF Streams
    <3> QED
      BY <1>2, <1>11, <2>2, <3>1, <3>2
  <2> QED
    BY <2>1, <2>2
<1>14. AllCarried'
  <2> SUFFICES ASSUME NEW p \in DOMAIN pkg, Accepted(p)'
               PROVE  p \in Carries(pkg[p].id)'
    BY <1>2 DEF AllCarried
  <2>1. PICK y : y = pkg[p].id
    OBVIOUS
  <2>2. y \notin broken' /\ p \notin refused' /\ ~ InPipe(p)' /\ ~ Stray(p)'
    BY <1>2, <2>1 DEF Accepted
  <2>3. Carries(x)' = ToSet(wire'[x] \o HighOf(n, x)) \cup ToSet(LowOf(n, x))
    BY <1>12 DEF Carries
  <2>4. CASE p \in P
    <3>1. y = x
      BY <1>5, <2>1, <2>4
    <3>2. ~ (~ Live(n) /\ p \in Queued(n))
      BY <1>2, <2>2 DEF Stray, Live
    <3> QED
      BY <2>1, <2>2, <2>3, <2>4, <3>1, <3>2 DEF Turned
  <2>5. CASE p \notin P
    <3>1. ~ InPipe(p)
      <4> SUFFICES ASSUME NEW i \in DOMAIN pipe, pipe[i].pkg = p PROVE FALSE
        BY DEF InPipe
      <4>1. CASE pipe' = pipe
        BY <2>2, <4>1 DEF InPipe
      <4>2. CASE pipe' # pipe
        <5>1. pipe # <<>> /\ pipe' = Tail(pipe) /\ P = {Head(pipe).pkg} \ {0}
          BY <1>2, <4>2 DEF Popped
        <5>2. p # 0
          BY <1>1 DEF TypeOK
        <5>3. i # 1
          BY <1>4, <2>5, <5>1, <5>2
        <5>4. PICK j \in DOMAIN pipe' : i = j + 1
          <6>1. i - 1 \in DOMAIN pipe' /\ i = (i - 1) + 1
            BY <1>4, <5>1, <5>3
          <6> QED
            BY <6>1
        <5>5. pipe'[j].pkg = p
          BY <1>4, <5>1, <5>4
        <5> QED
          BY <2>2, <5>5 DEF InPipe
      <4> QED
        BY <4>1, <4>2
    <3>2. ~ Stray(p)
      <4> SUFFICES ASSUME NEW l \in Slot, p \in Queued(slot[l]), ~ Live(slot[l]) PROVE FALSE
        BY DEF Stray, Live
      <4>1. CASE l # k
        BY <1>2, <2>2, <4>1 DEF Stray, Live
      <4>2. CASE l = k
        <5>1. slot[k] \in SlotState
          BY <1>1, <1>2 DEF TypeOK
        <5>2. ~ send_buffer_empty(slot[k])
          BY <4>2, <5>1, EmptyQueued
        <5>3. ~ Live(n) /\ p \in Queued(n)
          BY <4>2, <5>2 DEF Turned
        <5> QED
          BY <1>2, <2>2, <5>3 DEF Stray, Live
      <4> QED
        BY <4>1, <4>2
    <3>3. p \in Carries(y)
      BY <1>1, <2>1, <2>2, <3>1, <3>2 DEF AllCarried, Accepted, Turned
    <3>4. y \in Id
      BY <1>1, <2>1, PkgType
    <3>5. CASE y = x
      BY <2>1, <2>2, <2>3, <3>3, <3>5 DEF Turned
    <3>6. CASE y # x
      <4>1. Carries(y)' = Carries(y)
        BY <1>11, <3>4, <3>6 DEF Carries
      <4> QED
        BY <1>2, <2>1, <3>3, <4>1
    <3> QED
      BY <3>5, <3>6
  <2> QED
    BY <2>4, <2>5
<1> QED
  BY <1>8, <1>9, <1>10, <1>13, <1>14 DEF WireInv, Turned

(* No byte moves: slots keep their lists and stay open or not, and a command
   without a package may come or go.                                       *)
Kept ==
    /\ \A k \in Slot : /\ slot'[k].high = slot[k].high /\ slot'[k].low = slot[k].low
                       /\ Live(slot'[k]) <=> Live(slot[k])
                       /\ Live(slot[k]) => slot'[k].id = slot[k].id
    /\ \/ pipe' = pipe
       \/ pipe # <<>> /\ pipe' = Tail(pipe) /\ Head(pipe).pkg = 0
       \/ \E r \in Command : pipe' = Append(pipe, r) /\ r.pkg = 0
    /\ UNCHANGED <<wire, pkg, broken, refused>> /\ crashed' # "uncomplete"

(* Such a step keeps the streams. *)
LEMMA KeptStep ==
    ASSUME SockInv, WireInv, Kept
    PROVE  WireInv'
<1>1. TypeOK /\ PipeNew /\ WireSent /\ LowsOK /\ Streams /\ AllCarried
  BY DEF SockInv, TypeInv, WireInv
<1>2. UNCHANGED <<wire, pkg, broken, refused>> /\ crashed' # "uncomplete"
  BY DEF Kept
<1>3. \A k \in Slot : Queued(slot'[k]) = Queued(slot[k])
  BY DEF Kept, Queued
<1>4. \A y \in Id : HASH_ID(y) \in Slot
  BY Hashes
<1>5. /\ \A i \in DOMAIN pipe' : pipe'[i].pkg # 0 =>
            \E h \in DOMAIN pipe : /\ pipe'[i] = pipe[h]
                                   /\ \A j \in DOMAIN pipe' : j < i =>
                                        \E g \in DOMAIN pipe : g < h /\ pipe'[j] = pipe[g]
      /\ \A h \in DOMAIN pipe : pipe[h].pkg # 0 => \E i \in DOMAIN pipe' : pipe'[i] = pipe[h]
  <2>1. CASE pipe' = pipe
    BY <2>1
  <2>2. CASE pipe # <<>> /\ pipe' = Tail(pipe) /\ Head(pipe).pkg = 0
    <3>1. /\ DOMAIN pipe = 1 .. Len(pipe) /\ Len(pipe) \in Nat
          /\ DOMAIN pipe' = 1 .. Len(pipe) - 1
          /\ \A i \in DOMAIN pipe' : i + 1 \in DOMAIN pipe /\ pipe'[i] = pipe[i + 1]
          /\ 1 \in DOMAIN pipe /\ Head(pipe) = pipe[1]
      BY <1>1, <2>2, PopPipe DEF TypeOK
    <3>2. ASSUME NEW i \in DOMAIN pipe', NEW j \in DOMAIN pipe', j < i
          PROVE  j + 1 \in DOMAIN pipe /\ j + 1 < i + 1 /\ pipe'[j] = pipe[j + 1]
      BY <3>1, <3>2
    <3>3. ASSUME NEW h \in DOMAIN pipe, pipe[h].pkg # 0
          PROVE  \E i \in DOMAIN pipe' : pipe'[i] = pipe[h]
      <4>1. h # 1
        BY <2>2, <3>1, <3>3
      <4>2. h - 1 \in DOMAIN pipe' /\ (h - 1) + 1 = h
        BY <3>1, <4>1
      <4>3. pipe'[h - 1] = pipe[h]
        BY <3>1, <4>2
      <4> QED
        BY <4>2, <4>3
    <3> QED
      BY <3>1, <3>2, <3>3
  <2>3. CASE \E r \in Command : pipe' = Append(pipe, r) /\ r.pkg = 0
    <3>1. PICK r \in Command : pipe' = Append(pipe, r) /\ r.pkg = 0
      BY <2>3
    <3>2. /\ Len(pipe) \in Nat /\ DOMAIN pipe = 1 .. Len(pipe)
          /\ DOMAIN pipe' = 1 .. Len(pipe) + 1
          /\ \A i \in DOMAIN pipe : i \in DOMAIN pipe' /\ pipe'[i] = pipe[i]
          /\ pipe'[Len(pipe) + 1] = r
      BY <1>1, <3>1, PushPipe DEF TypeOK
    <3>3. ASSUME NEW i \in DOMAIN pipe', pipe'[i].pkg # 0
          PROVE  i \in DOMAIN pipe /\ \A j \in DOMAIN pipe' : j < i => j \in DOMAIN pipe
      BY <3>1, <3>2, <3>3
    <3> QED
      BY <3>2, <3>3
  <2> QED
    BY <2>1, <2>2, <2>3 DEF Kept
<1>6. PipeNew'
  <2> SUFFICES ASSUME NEW i \in DOMAIN pipe', pipe'[i].pkg # 0 PROVE Newest(i)'
    BY DEF PipeNew
  <2>1. PICK h \in DOMAIN pipe : /\ pipe'[i] = pipe[h]
                                 /\ \A j \in DOMAIN pipe' : j < i =>
                                        \E g \in DOMAIN pipe : g < h /\ pipe'[j] = pipe[g]
    BY <1>5
  <2>2. Newest(h)
    BY <1>1, <2>1 DEF PipeNew
  <2>3. \A j \in DOMAIN pipe' : j < i => pipe'[j].pkg < pipe'[i].pkg
    BY <2>1, <2>2 DEF Newest
  <2> QED
    BY <1>2, <1>3, <2>1, <2>2, <2>3 DEF Newest
<1>7. WireSent'
  BY <1>1, <1>2 DEF WireSent
<1>8. LowsOK'
  <2>1. \A k \in Slot : LowOK(slot'[k].low, pkg')
    BY <1>1 DEF LowsOK, Kept
  <2> QED
    BY <2>1 DEF LowsOK
<1>9. \A y \in Id : Ahead(y)' = Ahead(y) /\ Behind(y)' = Behind(y)
  BY <1>4 DEF Kept, Ahead, Behind, Mine
<1>10. Streams'
  <2>1. \A y \in Id : Flow(wire'[y] \o Ahead(y)', Behind(y)', pkg', y \notin broken')
    BY <1>1, <1>2, <1>9 DEF Streams
  <2> QED
    BY <2>1 DEF Streams
<1>11. AllCarried'
  <2> SUFFICES ASSUME NEW p \in DOMAIN pkg, Accepted(p)'
               PROVE  p \in Carries(pkg[p].id)'
    BY <1>2 DEF AllCarried
  <2>1. p # 0 /\ pkg[p].id \in Id
    BY <1>1, PkgType
  <2>2. ~ InPipe(p)
    BY <1>5, <2>1 DEF Accepted, InPipe
  <2>3. ~ Stray(p)
    BY <1>3 DEF Accepted, Stray, Kept, Live
  <2>4. Accepted(p)
    BY <1>2, <2>2, <2>3 DEF Accepted
  <2>5. Carries(pkg[p].id)' = Carries(pkg[p].id)
    BY <1>2, <1>9, <2>1 DEF Carries
  <2> QED
    BY <1>1, <2>4, <2>5 DEF AllCarried
<1> QED
  BY <1>2, <1>6, <1>7, <1>8, <1>10, <1>11 DEF WireInv

(* A package sent last joins the stream, or the low list. *)
LEMMA FlowAdd ==
    ASSUME NEW u \in Seq(Pkg), NEW l \in Seq(Pkg), NEW f, NEW whole, Flow(u, l, f, whole),
           NEW p \in Pkg, NEW b, b = [i \in 1 .. Size |-> p],
           \A q \in ToSet(u) : q < p,
           \A q \in ToSet(l) : q < p /\ f[q].low,
           ~ f[p].low \/ l = <<>>
    PROVE  Flow(u \o b, l, f, whole) /\ ToSet(u \o b) = ToSet(u) \cup {p}
<1>1. b \in Seq(Pkg) /\ ToSet(b) = {p} /\ Together(b) /\ Complete(b) /\ InOrder(b, f)
  BY OnePackage, ZenonT(60)
<1>2. ToSet(u \o b) = ToSet(u) \cup {p} /\ ToSet(<<>>) = {}
  BY <1>1, Elements
<1>3. p \in Nat /\ ToSet(u) \subseteq Nat /\ ToSet(l) \subseteq Nat
  <2>1. Pkg \subseteq Nat
    BY SocketAssumption DEF Pkg
  <2>2. ToSet(u) \subseteq Pkg /\ ToSet(l) \subseteq Pkg
    BY DEF ToSet
  <2> QED
    BY <2>1, <2>2
<1>4. \A q \in ToSet(u) : Before(q, p, f)
  BY <1>3 DEF Before
<1>5. \A q \in ToSet(l) : Before(p, q, f)
  <2> SUFFICES ASSUME NEW q \in ToSet(l) PROVE Before(p, q, f)
    OBVIOUS
  <2>1. ~ f[p].low /\ f[q].low /\ p # q
    BY <1>2, <1>3
  <2> QED
    BY <2>1 DEF Before
<1>6. /\ Together(u) /\ InOrder(u, f) /\ InOrder(l, f) /\ (whole => Complete(u))
      /\ \A q \in ToSet(u), m \in ToSet(l) : Before(q, m, f)
  BY DEF Flow
<1>7. ToSet(u) \cap ToSet(b) = {}
  BY <1>1, <1>4 DEF Before
<1>8. Together(u \o b)
  BY <1>1, <1>6, <1>7, JoinTogether
<1>9. InOrder(u \o b, f)
  BY <1>1, <1>4, <1>6, JoinOrder
<1>10. whole => Complete(u \o b)
  BY <1>1, <1>6, JoinComplete
<1>11. \A q \in ToSet(u \o b), m \in ToSet(l) : Before(q, m, f)
  BY <1>2, <1>5, <1>6
<1>12. Flow(u \o b, l, f, whole)
  BY <1>6, <1>8, <1>9, <1>10, <1>11 DEF Flow
<1> QED
  BY <1>2, <1>12

(* A package of low priority joins a low list. *)
LEMMA LowAdd ==
    ASSUME NEW l \in Seq(Pkg), NEW f, LowOK(l, f), NEW p \in Pkg, NEW b, b = [i \in 1 .. Size |-> p],
           \A q \in ToSet(l) : q < p, f[p].low
    PROVE  LowOK(l \o b, f) /\ ToSet(l \o b) = ToSet(l) \cup {p}
<1>1. b \in Seq(Pkg) /\ ToSet(b) = {p} /\ Together(b) /\ Complete(b)
  BY OnePackage
<1>2. ToSet(l \o b) = ToSet(l) \cup {p}
  BY <1>1, Elements
<1>3. Together(l) /\ Complete(l) /\ \A q \in ToSet(l) : f[q].low
  BY DEF LowOK
<1>4. ToSet(l) \cap ToSet(b) = {}
  <2>1. p \in Nat
    BY SocketAssumption DEF Pkg
  <2>2. ~ (p < p)
    BY <2>1
  <2> QED
    BY <1>1, <2>2
<1>5. Together(l \o b)
  BY <1>1, <1>3, <1>4, JoinTogether
<1>6. Complete(l \o b)
  BY <1>1, <1>3, JoinComplete
<1> QED
  BY <1>2, <1>3, <1>5, <1>6 DEF LowOK

(* So it comes after the stream. *)
LEMMA FlowAddLow ==
    ASSUME NEW u \in Seq(Pkg), NEW l \in Seq(Pkg), NEW f, NEW whole, Flow(u, l, f, whole),
           NEW p \in Pkg, NEW b, b = [i \in 1 .. Size |-> p],
           \A q \in ToSet(u) : q < p, \A q \in ToSet(l) : q < p
    PROVE  Flow(u, l \o b, f, whole)
<1>1. b \in Seq(Pkg) /\ ToSet(b) = {p} /\ InOrder(b, f)
  BY OnePackage
<1>2. ToSet(l \o b) = ToSet(l) \cup {p}
  BY <1>1, Elements
<1>3. p \in Nat /\ ToSet(u) \subseteq Nat /\ ToSet(l) \subseteq Nat
  <2>1. Pkg \subseteq Nat
    BY SocketAssumption DEF Pkg
  <2>2. ToSet(u) \subseteq Pkg /\ ToSet(l) \subseteq Pkg
    BY DEF ToSet
  <2> QED
    BY <2>1, <2>2
<1>4. \A q \in ToSet(u) \cup ToSet(l) : Before(q, p, f)
  BY <1>3 DEF Before
<1>5. /\ Together(u) /\ InOrder(u, f) /\ InOrder(l, f) /\ (whole => Complete(u))
      /\ \A q \in ToSet(u), m \in ToSet(l) : Before(q, m, f)
  BY DEF Flow
<1>6. InOrder(l \o b, f)
  BY <1>1, <1>4, <1>5, JoinOrder
<1>7. \A q \in ToSet(u), m \in ToSet(l \o b) : Before(q, m, f)
  BY <1>2, <1>4, <1>5
<1> QED
  BY <1>5, <1>6, <1>7 DEF Flow

(* What is known of the id and the slot a step is about. *)
LEMMA SlotStream ==
    ASSUME SockInv, WireInv, NEW x \in Id, NEW k, k = HASH_ID(x), NEW v, v = wire[x]
    PROVE  /\ k \in Slot /\ slot[k] \in SlotState /\ v \in Seq(Pkg) /\ LowOK(slot[k].low, pkg)
           /\ slot[k].high \in Seq(Pkg) /\ slot[k].low \in Seq(Pkg)
           /\ Flow(v, <<>>, pkg, FALSE)
<1>1. k \in Slot /\ slot[k] \in SlotState /\ v \in Seq(Pkg) /\ LowOK(slot[k].low, pkg)
  <2>1. k \in Slot
    BY Hashes
  <2> QED
    BY <2>1 DEF SockInv, TypeInv, TypeOK, WireInv, LowsOK
<1>2. slot[k].high \in Seq(Pkg) /\ slot[k].low \in Seq(Pkg)
  BY <1>1 DEF SlotState
<1>3. Flow(v \o Ahead(x), Behind(x), pkg, x \notin broken)
  BY DEF WireInv, Streams
<1>4. Ahead(x) = slot[k].high \/ Ahead(x) = <<>>
  BY DEF Ahead
<1>5. Ahead(x) \in Seq(Pkg)
  BY <1>1, <1>2, <1>4, NoBytes
<1>6. Flow(v, <<>>, pkg, FALSE)
  BY <1>1, <1>3, <1>5, FlowPart
<1> QED
  BY <1>1, <1>2, <1>6

(* The stream of a slot with a descriptor. *)
LEMMA LiveStream ==
    ASSUME SockInv, WireInv, NEW x \in Id, NEW k, k = HASH_ID(x), NEW v, v = wire[x],
           Live(slot[k]), slot[k].id = x
    PROVE  /\ Flow(v \o slot[k].high, slot[k].low, pkg, x \notin broken)
           /\ Carries(x) = ToSet(v \o slot[k].high) \cup ToSet(slot[k].low)
<1>1. Flow(v \o Ahead(x), Behind(x), pkg, x \notin broken)
  BY DEF WireInv, Streams
<1>2. Ahead(x) = slot[k].high /\ Behind(x) = slot[k].low
  BY DEF Ahead, Behind, Mine
<1> QED
  BY <1>1, <1>2 DEF Carries

(* Nothing is queued for x. *)
LEMMA IdleStream ==
    ASSUME SockInv, WireInv, NEW x \in Id, NEW k, k = HASH_ID(x), NEW v, v = wire[x],
           ~ Live(slot[k]) \/ slot[k].id # x \/ send_buffer_empty(slot[k])
    PROVE  Flow(v, <<>>, pkg, x \notin broken) /\ Carries(x) = ToSet(v)
<1>1. Flow(v \o Ahead(x), Behind(x), pkg, x \notin broken)
  BY DEF WireInv, Streams
<1>2. Ahead(x) = <<>> /\ Behind(x) = <<>>
  BY DEF Ahead, Behind, Mine, send_buffer_empty
<1>3. v \in Seq(Pkg)
  BY SlotStream
<1>4. v \o <<>> = v /\ ToSet(<<>>) = {}
  BY <1>3, NoBytes
<1>5. v \o Ahead(x) = v
  BY <1>2, <1>4
<1> QED
  BY <1>1, <1>2, <1>4, <1>5 DEF Carries

(* A slot without a queue is opened or closed. *)
LEMMA EmptyTurn ==
    ASSUME SockInv, WireInv, NEW x \in Id, NEW k, k = HASH_ID(x), NEW n \in SlotState,
           slot' = [slot EXCEPT ![k] = n], send_buffer_empty(slot[k]), send_buffer_empty(n),
           Live(slot[k]) => slot[k].id = x, Live(n) => n.id = x, Popped({}, x),
           UNCHANGED <<wire, pkg, broken, refused>>, crashed' # "uncomplete"
    PROVE  WireInv'
<1>1. PICK v : v = wire[x]
  OBVIOUS
<1>2. /\ k \in Slot /\ slot[k] \in SlotState /\ v \in Seq(Pkg)
      /\ Flow(v, <<>>, pkg, x \notin broken) /\ Carries(x) = ToSet(v)
  BY <1>1, SlotStream, IdleStream
<1>3. n.high = <<>> /\ n.low = <<>> /\ HighOf(n, x) = <<>> /\ LowOf(n, x) = <<>>
  BY DEF send_buffer_empty, HighOf, LowOf
<1>4. v \o <<>> = v /\ ToSet(<<>>) = {} /\ LowOK(<<>>, pkg) /\ Queued(n) = {}
  <2>1. LowOK(<<>>, pkg)
    BY DEF LowOK, Together, Complete, ToSet
  <2> QED
    BY <1>2, <1>3, <2>1, NoBytes DEF Queued
<1>5. wire \in [Id -> Seq(Pkg)] /\ wire'[x] = v
  BY <1>1 DEF SockInv, TypeInv, TypeOK
<1>6. Turned(k, n, x, {})
  BY <1>2, <1>3, <1>4, <1>5 DEF Turned
<1> QED
  BY <1>6, TurnedStep

(* The slot of an id that is broken is closed, whatever it holds. *)
LEMMA BreakTurn ==
    ASSUME SockInv, WireInv, NEW x \in Id, NEW k, k = HASH_ID(x), NEW P,
           Live(slot[k]), slot[k].id = x,
           slot' = [slot EXCEPT ![k] = force_close(slot[k])], Popped(P, x),
           broken' = broken \cup {x}, UNCHANGED <<wire, pkg, refused>>, crashed' # "uncomplete"
    PROVE  WireInv'
<1>1. PICK v, n : v = wire[x] /\ n = force_close(slot[k])
  OBVIOUS
<1>2. /\ k \in Slot /\ slot[k] \in SlotState /\ v \in Seq(Pkg) /\ Flow(v, <<>>, pkg, FALSE)
  BY <1>1, SlotStream
<1>3. n \in SlotState /\ ~ Live(n) /\ n.low = <<>> /\ Queued(n) = {}
  BY <1>1, <1>2, ForceClose DEF Live, send_buffer_empty
<1>4. v \o <<>> = v /\ ToSet(<<>>) = {} /\ LowOK(<<>>, pkg)
  <2>1. LowOK(<<>>, pkg)
    BY DEF LowOK, Together, Complete, ToSet
  <2> QED
    BY <1>2, <2>1, NoBytes
<1>5. HighOf(n, x) = <<>> /\ LowOf(n, x) = <<>>
  BY <1>3 DEF HighOf, LowOf
<1>6. wire \in [Id -> Seq(Pkg)] /\ wire'[x] = v
  BY <1>1 DEF SockInv, TypeInv, TypeOK
<1>7. (x \notin broken') = FALSE
  OBVIOUS
<1>8. Flow(wire'[x] \o HighOf(n, x), LowOf(n, x), pkg, x \notin broken')
  BY <1>2, <1>4, <1>5, <1>6, <1>7
<1>9. Turned(k, n, x, P)
  BY <1>1, <1>2, <1>3, <1>4, <1>6, <1>7, <1>8 DEF Turned
<1> QED
  BY <1>9, TurnedStep

(* A queue is written: the slot keeps what is left, or is closed when nothing
   is left or the id is broken.                                            *)
LEMMA WriteTurn ==
    ASSUME SockInv, WireInv, NEW x \in Id, NEW k, k = HASH_ID(x), Live(slot[k]), slot[k].id = x,
           NEW w, w.out \in Seq(Pkg), w.slot \in SlotState, Queued(w.slot) \subseteq Queued(slot[k]),
           w.error \in BOOLEAN, Flows(wire[x], slot[k], w, pkg, x \notin broken),
           NEW n \in SlotState, slot' = [slot EXCEPT ![k] = n],
           \/ n.high = w.slot.high /\ n.low = w.slot.low /\ Live(n) /\ n.id = x
           \/ send_buffer_empty(n) /\ ~ Live(n) /\ (x \notin broken' => send_buffer_empty(w.slot)),
           wire' = [wire EXCEPT ![x] = @ \o w.out], broken \subseteq broken',
           broken' \subseteq broken \cup {x}, w.error => x \in broken',
           Popped({}, x), UNCHANGED <<pkg, refused>>, crashed' # "uncomplete"
    PROVE  WireInv'
<1>1. PICK v, s : v = wire[x] /\ s = slot[k]
  OBVIOUS
<1>2. /\ k \in Slot /\ s \in SlotState /\ v \in Seq(Pkg)
      /\ Carries(x) = ToSet(v \o s.high) \cup ToSet(s.low)
  BY <1>1, SlotStream, LiveStream
<1>3. PICK o, c : o = w.out /\ c = v \o o
  OBVIOUS
<1>4. o \in Seq(Pkg) /\ c \in Seq(Pkg) /\ ToSet(c) = ToSet(v) \cup ToSet(o)
  BY <1>2, <1>3, Elements
<1>5. /\ Flow(c \o w.slot.high, w.slot.low, pkg, x \notin broken /\ ~ w.error)
      /\ LowOK(w.slot.low, pkg) /\ ToSet(o) \subseteq Queued(s)
      /\ ~ w.error => Carries(x) \subseteq ToSet(c \o w.slot.high) \cup ToSet(w.slot.low)
  BY <1>1, <1>2, <1>3 DEF Flows
<1>6. wire' \in [Id -> Seq(Pkg)] /\ wire'[x] = c /\ \A y \in Id : y # x => wire'[y] = wire[y]
  <2>1. wire \in [Id -> Seq(Pkg)]
    BY DEF SockInv, TypeInv, TypeOK
  <2> QED
    BY <1>1, <1>3, <1>4, <2>1
<1>7. ToSet(<<>>) = {} /\ LowOK(<<>>, pkg) /\ c \o <<>> = c
  <2>1. LowOK(<<>>, pkg)
    BY DEF LowOK, Together, Complete, ToSet
  <2> QED
    BY <1>4, <2>1, NoBytes
<1>8. CASE n.high = w.slot.high /\ n.low = w.slot.low /\ Live(n) /\ n.id = x
  <2>1. HighOf(n, x) = w.slot.high /\ LowOf(n, x) = w.slot.low /\ Queued(n) = Queued(w.slot)
    BY <1>8 DEF HighOf, LowOf, Queued
  <2>2. Flow(c \o w.slot.high, w.slot.low, pkg, x \notin broken')
    <3>1. CASE x \in broken'
      <4>1. Flow(c \o w.slot.high, w.slot.low, pkg, FALSE)
        BY <1>5 DEF Flow
      <4>2. (x \notin broken') = FALSE
        BY <3>1
      <4> QED
        BY <4>1, <4>2
    <3>2. CASE x \notin broken'
      <4>1. (x \notin broken /\ ~ w.error) = TRUE /\ (x \notin broken') = TRUE
        BY <3>2
      <4> QED
        BY <1>5, <4>1
    <3> QED
      BY <3>1, <3>2
  <2>3. x \notin broken' => Carries(x) \subseteq ToSet(c \o w.slot.high) \cup ToSet(w.slot.low)
    BY <1>5
  <2>4. ToSet(c) \subseteq ToSet(wire[x]) \cup Queued(slot[k]) \cup {}
    BY <1>1, <1>4, <1>5
  <2>5. Turned(k, n, x, {})
    BY <1>2, <1>5, <1>6, <1>8, <2>1, <2>2, <2>3, <2>4 DEF Turned
  <2> QED
    BY <2>5, TurnedStep
<1>9. CASE send_buffer_empty(n) /\ ~ Live(n) /\ (x \notin broken' => send_buffer_empty(w.slot))
  <2>1. HighOf(n, x) = <<>> /\ LowOf(n, x) = <<>> /\ Queued(n) = {} /\ n.low = <<>>
    BY <1>7, <1>9 DEF HighOf, LowOf, Queued, send_buffer_empty
  <2>2. Flow(c, <<>>, pkg, x \notin broken')
    <3>1. CASE x \in broken'
      <4>1. w.slot.high \in Seq(Pkg)
        BY DEF SlotState
      <4>2. Flow(c, <<>>, pkg, FALSE)
        <5>1. PICK h, l : h = w.slot.high /\ l = w.slot.low
          OBVIOUS
        <5>2. Flow(c \o h, l, pkg, x \notin broken /\ ~ w.error) /\ h \in Seq(Pkg)
          BY <1>5, <4>1, <5>1
        <5> QED
          BY <1>4, <5>2, FlowPart
      <4>3. (x \notin broken') = FALSE
        BY <3>1
      <4> QED
        BY <4>2, <4>3
    <3>2. CASE x \notin broken'
      <4>1. w.slot.high = <<>> /\ w.slot.low = <<>>
        BY <1>9, <3>2 DEF send_buffer_empty
      <4>2. (x \notin broken /\ ~ w.error) = TRUE /\ (x \notin broken') = TRUE
        BY <3>2
      <4>3. c \o w.slot.high = c
        BY <1>7, <4>1
      <4> QED
        BY <1>5, <4>1, <4>2, <4>3
    <3> QED
      BY <3>1, <3>2
  <2>3. x \notin broken' => Carries(x) \subseteq ToSet(c)
    <3> SUFFICES ASSUME x \notin broken' PROVE Carries(x) \subseteq ToSet(c)
      OBVIOUS
    <3>1. w.slot.high = <<>> /\ w.slot.low = <<>> /\ ~ w.error
      BY <1>9 DEF send_buffer_empty
    <3>2. c \o w.slot.high = c
      BY <1>7, <3>1
    <3> QED
      BY <1>5, <1>7, <3>1, <3>2
  <2>4. ToSet(c) \subseteq ToSet(wire[x]) \cup Queued(slot[k]) \cup {}
    BY <1>1, <1>4, <1>5
  <2>5. wire'[x] \o HighOf(n, x) = c
    BY <1>6, <1>7, <2>1
  <2>6. Turned(k, n, x, {})
    BY <1>2, <1>6, <1>7, <1>9, <2>1, <2>2, <2>3, <2>4, <2>5 DEF Turned
  <2> QED
    BY <2>6, TurnedStep
<1> QED
  BY <1>8, <1>9

(* An empty queue is written. *)
LEMMA NoFlow ==
    ASSUME NEW s \in SlotState, send_buffer_empty(s), NEW v \in Seq(Pkg), NEW f,
           NEW whole \in BOOLEAN, Flow(v \o s.high, s.low, f, whole), LowOK(s.low, f),
           NEW w, w = [slot |-> s, out |-> <<>>, error |-> FALSE]
    PROVE  Flows(v, s, w, f, whole)
<1>1. s.high = <<>> /\ s.low = <<>> /\ v \o <<>> = v /\ ToSet(<<>>) = {}
  BY NoBytes DEF send_buffer_empty
<1>2. w.slot = s /\ w.out = <<>> /\ w.error = FALSE
  OBVIOUS
<1>3. (v \o w.out) \o w.slot.high = v \o s.high
  BY <1>1, <1>2
<1>4. (whole /\ ~ w.error) = whole
  BY <1>2
<1>5. Flow((v \o w.out) \o w.slot.high, w.slot.low, f, whole /\ ~ w.error)
  BY <1>2, <1>3, <1>4
<1> QED
  BY <1>1, <1>2, <1>3, <1>5 DEF Flows

(* The first command leaves the pipe. *)
LEMMA PoppedTake ==
    ASSUME NEW r, Takes(r)
    PROVE  /\ Popped({r.pkg} \ {0}, r.id)
           /\ r.pkg = 0 => Popped({}, r.id)
<1>1. Popped({r.pkg} \ {0}, r.id)
  BY DEF Takes, Popped
<1>2. r.pkg = 0 => {r.pkg} \ {0} = {}
  OBVIOUS
<1> QED
  BY <1>1, <1>2

(* A failed assertion, which is never the one on uncomplete lists. *)
LEMMA CrashWire ==
    ASSUME SockInv, WireInv, NEW m \in {"reserve", "lists"}, Crash(m),
           \/ pipe' = pipe
           \/ pipe # <<>> /\ pipe' = Tail(pipe) /\ Head(pipe).pkg = 0
    PROVE  WireInv'
<1>1. Kept
  BY DEF Kept, Crash, history
<1> QED
  BY <1>1, KeptStep

(* new_fd: an opened socket starts with empty lists. *)
LEMMA NewFdWire ==
    ASSUME SockInv, WireInv, NEW r, Takes(r), r.c \in OpenCmd, new_fd(r)
    PROVE  WireInv'
<1> DEFINE k == HASH_ID(r.id)
<1>1. r \in Command /\ r.id \in Id /\ k \in Slot /\ r.pkg = 0 /\ slot[k] \in SlotState
      /\ slot \in [Slot -> SlotState]
  <2>1. r.pkg = 0
    BY Taken DEF OpenCmd
  <2> QED
    BY <2>1, Taken DEF SockInv, TypeInv, TypeOK
<1>2. pipe # <<>> /\ pipe' = Tail(pipe) /\ Head(pipe).pkg = 0 /\ Popped({}, r.id)
  BY <1>1, PoppedTake DEF Takes
<1>3. PICK o \in OpenOutcome(r.c) :
        IF slot[k].type # "RESERVE" THEN CmdCrash("reserve")
        ELSE IF o.type # "INVALID" /\ ~ send_buffer_empty(slot[k]) THEN CmdCrash("lists")
        ELSE /\ slot' = [slot EXCEPT ![k] =
                    IF o.type = "INVALID" THEN [@ EXCEPT !.type = "INVALID"]
                    ELSE [type |-> o.type, id |-> r.id, protocol |-> o.protocol,
                          high |-> <<>>, low |-> <<>>, armed |-> o.type = "CONNECTING"]]
             /\ IF o.msg = "none" THEN Silent ELSE Report(o.msg, r.id)
             /\ IF o.msg = "error" THEN ClearNext(r.id) ELSE UNCHANGED <<at, clr>>
             /\ UNCHANGED <<alloc_id, issued, pkg, freed, wire, broken, refused, crashed>>
  BY DEF new_fd
<1>4. CASE slot[k].type # "RESERVE" \/ (o.type # "INVALID" /\ ~ send_buffer_empty(slot[k]))
  BY <1>2, <1>3, <1>4, CrashWire DEF CmdCrash
<1>5. CASE slot[k].type = "RESERVE" /\ ~ (o.type # "INVALID" /\ ~ send_buffer_empty(slot[k]))
  <2>1. /\ slot' = [slot EXCEPT ![k] =
                    IF o.type = "INVALID" THEN [@ EXCEPT !.type = "INVALID"]
                    ELSE [type |-> o.type, id |-> r.id, protocol |-> o.protocol,
                          high |-> <<>>, low |-> <<>>, armed |-> o.type = "CONNECTING"]]
        /\ UNCHANGED <<pkg, wire, broken, refused, crashed>> /\ crashed' # "uncomplete"
    BY <1>3, <1>5 DEF WireInv
  <2>2. CASE o.type = "INVALID"
    <3>1. PICK n : n = [slot[k] EXCEPT !.type = "INVALID"]
      OBVIOUS
    <3>2. n \in SlotState /\ n.type = "INVALID" /\ n.high = slot[k].high /\ n.low = slot[k].low
      BY <1>1, <3>1 DEF SlotState, Type
    <3>3. slot' = [slot EXCEPT ![k] = n]
      BY <2>1, <2>2, <3>1
    <3>4. slot'[k] = n /\ \A l \in Slot : l # k => slot'[l] = slot[l]
      BY <1>1, <3>2, <3>3, PutSlot
    <3>5. ~ Live(n) /\ ~ Live(slot[k])
      BY <1>5, <3>2 DEF Live
    <3>6. Kept
      BY <1>2, <2>1, <3>2, <3>4, <3>5 DEF Kept
    <3> QED
      BY <3>6, KeptStep
  <2>3. CASE o.type # "INVALID"
    <3>1. PICK n : n = [type |-> o.type, id |-> r.id, protocol |-> o.protocol,
                        high |-> <<>>, low |-> <<>>, armed |-> o.type = "CONNECTING"]
      OBVIOUS
    <3>2. slot' = [slot EXCEPT ![k] = n] /\ n.id = r.id /\ send_buffer_empty(n)
      BY <2>1, <2>3, <3>1 DEF send_buffer_empty
    <3>3. n \in SlotState
      <4>1. /\ o.type \in {"INVALID", "CONNECTED", "CONNECTING", "PLISTEN", "BIND"}
            /\ o.protocol \in {"tcp", "udp", "bind"}
        BY DEF OpenOutcome, OpenCmd
      <4>2. (o.type = "CONNECTING") \in BOOLEAN /\ <<>> \in Seq(Pkg)
        OBVIOUS
      <4> QED
        BY <1>1, <3>1, <4>1, <4>2 DEF SlotState, Type
    <3>4. send_buffer_empty(slot[k]) /\ ~ Live(slot[k])
      BY <1>5, <2>3 DEF Live
    <3> QED
      BY <1>1, <1>2, <2>1, <3>2, <3>3, <3>4, EmptyTurn
  <2> QED
    BY <2>2, <2>3
<1> QED
  BY <1>4, <1>5

(* A command that moves no byte: the slot it is about may change its type. *)
LEMMA StartWire ==
    ASSUME SockInv, WireInv, NEW r, Takes(r), r.c = "S", start_socket(r)
    PROVE  WireInv'
<1> DEFINE k == HASH_ID(r.id)
<1>1. r.id \in Id /\ k \in Slot /\ r.pkg = 0
  BY Taken
<1>2. pipe # <<>> /\ pipe' = Tail(pipe) /\ Head(pipe).pkg = 0 /\ Popped({}, r.id)
  BY <1>1, PoppedTake DEF Takes
<1>3. /\ slot[k] \in SlotState /\ ArmOK(slot[k]) /\ slot \in [Slot -> SlotState]
      /\ UNCHANGED <<wire, pkg, broken, refused>> /\ crashed' # "uncomplete"
  BY <1>1, Untouched DEF start_socket, SockInv, TypeInv, TypeOK, WireInv
<1>4. CASE slot' = slot
  <2>1. Kept
    BY <1>2, <1>3, <1>4 DEF Kept
  <2> QED
    BY <2>1, KeptStep
<1>5. CASE /\ Current(r) /\ slot[k].type \in {"PACCEPT", "PLISTEN"}
           /\ slot' = [slot EXCEPT ![k].type = IF @ = "PACCEPT" THEN "CONNECTED" ELSE "LISTEN"]
  <2>1. PICK n : n = [slot[k] EXCEPT !.type = IF @ = "PACCEPT" THEN "CONNECTED" ELSE "LISTEN"]
    OBVIOUS
  <2>2. /\ n \in SlotState /\ n.type \in {"CONNECTED", "LISTEN"} /\ n.id = slot[k].id
        /\ n.high = slot[k].high /\ n.low = slot[k].low
    BY <1>3, <2>1 DEF SlotState, Type
  <2>3. slot' = [slot EXCEPT ![k] = n]
    BY <1>3, <1>5, <2>1
  <2>4. slot'[k] = n /\ \A l \in Slot : l # k => slot'[l] = slot[l]
    BY <1>1, <1>3, <2>2, <2>3, PutSlot
  <2>5. Live(n) /\ Live(slot[k])
    BY <1>5, <2>2 DEF Live
  <2>6. Kept
    BY <1>2, <1>3, <2>2, <2>4, <2>5 DEF Kept
  <2> QED
    BY <2>6, KeptStep
<1>6. CASE /\ Current(r) /\ slot[k].type \in {"PACCEPT", "PLISTEN"}
           /\ slot' = [slot EXCEPT ![k] = force_close(slot[k])]
  <2>1. PICK n : n = force_close(slot[k])
    OBVIOUS
  <2>2. n \in SlotState /\ send_buffer_empty(n) /\ ~ Live(n)
    BY <1>3, <2>1, ForceClose DEF Live
  <2>3. send_buffer_empty(slot[k]) /\ slot[k].id = r.id
    BY <1>3, <1>6 DEF ArmOK, Current
  <2>4. slot' = [slot EXCEPT ![k] = n]
    BY <1>6, <2>1
  <2> QED
    BY <1>1, <1>2, <1>3, <2>2, <2>3, <2>4, EmptyTurn
<1> QED
  BY <1>4, <1>5, <1>6 DEF start_socket

(* set_udp_address moves no byte. *)
LEMMA UdpWire ==
    ASSUME SockInv, WireInv, NEW r, Takes(r), r.c = "C", set_udp_address(r)
    PROVE  WireInv'
<1>1. r.pkg = 0
  BY Taken
<1>2. Kept
  BY <1>1 DEF Kept, set_udp_address, Takes, WireInv
<1> QED
  BY <1>2, KeptStep

(* The low list of a slot never starts with the rest of a package. *)
LEMMA LowWhole ==
    ASSUME SockInv, WireInv, NEW k \in Slot
    PROVE  ~ list_uncomplete(slot[k].low)
<1>1. slot[k] \in SlotState /\ LowOK(slot[k].low, pkg)
  BY DEF SockInv, TypeInv, TypeOK, WireInv, LowsOK
<1>2. slot[k].low \in Seq(Pkg) /\ Together(slot[k].low) /\ Complete(slot[k].low)
  BY <1>1 DEF SlotState, LowOK
<1> QED
  BY <1>2, NotUncomplete

(* close_socket writes what is queued, and keeps the slot until the rest is
   written, unless an error or a shutdown breaks the id.                   *)
LEMMA CloseWire ==
    ASSUME SockInv, WireInv, NEW r, Takes(r), r.c = "K", close_socket(r)
    PROVE  WireInv'
<1> DEFINE k == HASH_ID(r.id)
           s == slot[k]
           shut(w) == w.error \/ r.shutdown \/ send_buffer_empty(w.slot)
           left(w) == IF shut(w) THEN force_close(w.slot) ELSE [w.slot EXCEPT !.type = "HALFCLOSE"]
<1>1. r \in Command /\ r.id \in Id /\ k \in Slot /\ r.pkg = 0
  BY Taken
<1>2. pipe # <<>> /\ pipe' = Tail(pipe) /\ Head(pipe).pkg = 0 /\ Popped({}, r.id)
  BY <1>1, PoppedTake DEF Takes
<1>3. s \in SlotState /\ ~ list_uncomplete(s.low)
  BY <1>1, Untouched, LowWhole
<1>4. CASE ~ Current(r)
  <2>1. slot' = slot /\ UNCHANGED <<wire, pkg, broken, refused, crashed>>
    BY <1>4 DEF close_socket
  <2>2. Kept
    BY <1>2, <2>1 DEF Kept, WireInv
  <2> QED
    BY <2>2, KeptStep
<1>5. CASE Current(r) /\ s.type = "RESERVE"
  <2>1. Crash("reserve")
    BY <1>5 DEF close_socket, CmdCrash
  <2> QED
    BY <1>2, <2>1, CrashWire
<1>6. CASE Current(r) /\ s.type # "RESERVE"
  <2>1. PICK w \in IF send_buffer_empty(s) THEN {[slot |-> s, out |-> <<>>, error |-> FALSE]}
                   ELSE send_buffer(s) :
            /\ slot' = [slot EXCEPT ![k] = left(w)]
            /\ wire' = [wire EXCEPT ![r.id] = @ \o w.out]
            /\ Break(r.id, w.error \/ r.shutdown)
            /\ UNCHANGED <<alloc_id, issued, pkg, refused, crashed>>
    BY <1>3, <1>6 DEF close_socket
  <2>2. Live(s) /\ s.id = r.id
    BY <1>6 DEF Current, Live
  <2>3. PICK v : v = wire[r.id]
    OBVIOUS
  <2>4. /\ v \in Seq(Pkg) /\ LowOK(s.low, pkg)
        /\ Flow(v \o s.high, s.low, pkg, r.id \notin broken)
    BY <1>1, <2>2, <2>3, SlotStream, LiveStream
  <2>5. /\ Shrinks(s, w.slot) /\ w.out \in Seq(Pkg) /\ w.error \in BOOLEAN
        /\ Flows(v, s, w, pkg, r.id \notin broken)
    <3>1. PICK whole \in BOOLEAN : whole = (r.id \notin broken)
      OBVIOUS
    <3>2. Flow(v \o s.high, s.low, pkg, whole)
      BY <2>4, <3>1
    <3>3. CASE send_buffer_empty(s)
      <4>1. w = [slot |-> s, out |-> <<>>, error |-> FALSE]
        BY <2>1, <3>3
      <4>2. w.slot = s /\ w.out = <<>> /\ w.error = FALSE
        BY <4>1
      <4>3. Flows(v, s, w, pkg, whole)
        BY <1>3, <2>4, <3>2, <3>3, <4>1, NoFlow
      <4>4. Flows(v, s, w, pkg, r.id \notin broken)
        BY <3>1, <4>3
      <4>5. Shrinks(s, s)
        BY <1>3 DEF Shrinks
      <4>6. <<>> \in Seq(Pkg) /\ FALSE \in BOOLEAN
        OBVIOUS
      <4> QED
        BY <4>2, <4>4, <4>5, <4>6
    <3>4. CASE ~ send_buffer_empty(s)
      <4>1. w \in send_buffer(s)
        BY <2>1, <3>4
      <4>2. Flows(v, s, w, pkg, whole)
        BY <1>3, <2>4, <3>2, <4>1, SendFlow
      <4> QED
        BY <1>3, <3>1, <4>1, <4>2, SendBuffer
    <3> QED
      BY <3>3, <3>4
  <2>6. PICK n : n = left(w)
    OBVIOUS
  <2>7. w.slot \in SlotState /\ w.slot.id = s.id /\ Queued(w.slot) \subseteq Queued(s)
    BY <2>5 DEF Shrinks
  <2>8. /\ n \in SlotState
        /\ \/ n.high = w.slot.high /\ n.low = w.slot.low /\ Live(n) /\ n.id = r.id
           \/ send_buffer_empty(n) /\ ~ Live(n) /\ (r.id \notin broken' => send_buffer_empty(w.slot))
    <3>1. CASE shut(w)
      <4>1. n = force_close(w.slot)
        BY <2>6, <3>1
      <4>2. n \in SlotState /\ n.type = "INVALID" /\ send_buffer_empty(n)
        BY <2>7, <4>1, ForceClose
      <4>3. r.id \notin broken' => send_buffer_empty(w.slot)
        BY <2>1, <3>1 DEF Break
      <4> QED
        BY <4>2, <4>3 DEF Live
    <3>2. CASE ~ shut(w)
      <4>1. n = [w.slot EXCEPT !.type = "HALFCLOSE"]
        BY <2>6, <3>2
      <4>2. /\ n \in SlotState /\ n.type = "HALFCLOSE" /\ n.id = w.slot.id
            /\ n.high = w.slot.high /\ n.low = w.slot.low
        BY <2>7, <4>1 DEF SlotState, Type
      <4> QED
        BY <2>2, <2>7, <4>2 DEF Live
    <3> QED
      BY <3>1, <3>2
  <2>9. /\ broken \subseteq broken' /\ broken' \subseteq broken \cup {r.id}
        /\ w.error => r.id \in broken'
    BY <2>1 DEF Break
  <2>10. slot' = [slot EXCEPT ![k] = n] /\ UNCHANGED <<pkg, refused>> /\ crashed' # "uncomplete"
    BY <2>1, <2>6 DEF WireInv
  <2>11. wire' = [wire EXCEPT ![r.id] = @ \o w.out]
    BY <2>1
  <2> HIDE DEF left, shut
  <2> QED
    BY <1>1, <1>2, <2>2, <2>3, <2>5, <2>7, <2>8, <2>9, <2>10, <2>11, WriteTurn
<1> QED
  BY <1>4, <1>5, <1>6

(* report_connect keeps what was queued while connecting, or breaks the id. *)
LEMMA ConnectWire ==
    ASSUME SockInv, WireInv, NEW e, report_connect(e)
    PROVE  WireInv'
<1> DEFINE k == e.slot
           s == slot[k]
<1>1. /\ Event(e) /\ e.slot # NULL /\ s.type = "CONNECTING" /\ pipe' = pipe
      /\ UNCHANGED <<wire, pkg, refused>> /\ crashed' # "uncomplete"
  BY DEF report_connect, Event, WireInv
<1>2. /\ k \in Slot /\ s \in SlotState /\ Live(s) /\ s.id \in Id /\ HASH_ID(s.id) = k
      /\ slot \in [Slot -> SlotState] /\ Popped({}, s.id)
  BY <1>1, LiveSlot DEF Live, Popped, SockInv, TypeInv, TypeOK
<1>3. CASE /\ slot' = [slot EXCEPT ![k].type = "CONNECTED",
                                   ![k].armed = IF send_buffer_empty(s) THEN FALSE ELSE @]
           /\ broken' = broken
  <2>1. PICK n : n = [s EXCEPT !.type = "CONNECTED",
                               !.armed = IF send_buffer_empty(s) THEN FALSE ELSE @]
    OBVIOUS
  <2>2. n.type = "CONNECTED" /\ n.id = s.id /\ n.high = s.high /\ n.low = s.low
    BY <1>2, <2>1 DEF SlotState
  <2>3. n \in SlotState
    BY <1>2, <2>1 DEF SlotState, Type
  <2>4. slot' = [slot EXCEPT ![k] = n]
    BY <1>2, <1>3, <2>1 DEF SlotState
  <2>5. slot'[k] = n /\ \A l \in Slot : l # k => slot'[l] = slot[l]
    BY <1>2, <2>3, <2>4, PutSlot
  <2>6. Live(n)
    BY <2>2 DEF Live
  <2>7. Kept
    BY <1>1, <1>2, <1>3, <2>2, <2>5, <2>6 DEF Kept
  <2> QED
    BY <2>7, KeptStep
<1>4. CASE slot' = [slot EXCEPT ![k] = force_close(s)] /\ Break(s.id, TRUE)
  <2>1. broken' = broken \cup {s.id}
    BY <1>4 DEF Break
  <2>2. PICK x : x = s.id
    OBVIOUS
  <2> QED
    BY <1>1, <1>2, <1>4, <2>1, <2>2, BreakTurn
<1> QED
  BY <1>3, <1>4 DEF report_connect

(* A read moves nothing, or breaks the id. *)
LEMMA ForwardWire ==
    ASSUME SockInv, WireInv, NEW e, forward_message(e)
    PROVE  WireInv'
<1> DEFINE k == e.slot
           s == slot[k]
<1>1. Event(e) /\ e.slot # NULL /\ Open(s) /\ pipe' = pipe
  BY DEF forward_message, Event
<1>2. CASE Crash("reserve")
  BY <1>1, <1>2, CrashWire
<1>3. CASE slot' = slot /\ UNCHANGED <<pkg, wire, broken, refused, crashed>>
  <2>1. Kept
    BY <1>1, <1>3 DEF Kept, WireInv
  <2> QED
    BY <2>1, KeptStep
<1>4. CASE /\ s.type # "RESERVE" /\ slot' = [slot EXCEPT ![k] = force_close(s)]
           /\ Break(s.id, TRUE) /\ UNCHANGED <<pkg, wire, refused, crashed>>
  <2>1. Live(s)
    BY <1>1, <1>4 DEF Live, Open
  <2>2. s.id \in Id /\ HASH_ID(s.id) = k /\ Popped({}, s.id)
    BY <1>1, <2>1, LiveSlot DEF Popped
  <2>3. broken' = broken \cup {s.id} /\ crashed' # "uncomplete"
    BY <1>4 DEF Break, WireInv
  <2>4. PICK x : x = s.id
    OBVIOUS
  <2> QED
    BY <1>4, <2>1, <2>2, <2>3, <2>4, BreakTurn
<1> QED
  BY <1>2, <1>3, <1>4 DEF forward_message

(* Nothing is written from empty lists. *)
LEMMA NothingOut ==
    ASSUME NEW s \in SlotState, send_buffer_empty(s), s.type = "RESERVE", NEW w \in send_buffer(s)
    PROVE  /\ w.out = <<>> /\ ~ w.error /\ send_buffer_empty(w.slot) /\ w.slot \in SlotState
           /\ ~ Live(w.slot)
<1>1. w.out \in Seq(Pkg) /\ w.slot \in SlotState /\ Queued(w.slot) \subseteq Queued(s)
      /\ w.slot.type = "RESERVE" /\ ~ w.error
  BY SendBuffer DEF Shrinks
<1>2. Queued(s) = {} /\ s.high = <<>> /\ s.low = <<>>
  BY EmptyQueued DEF send_buffer_empty
<1>3. send_buffer_empty(w.slot)
  BY <1>1, <1>2, EmptyQueued
<1>4. w.out = <<>>
  <2> DEFINE v == <<>>
             f == <<>>
  <2>1. v \in Seq(Pkg) /\ ToSet(v) = {} /\ v \o s.high = v
    BY <1>2 DEF ToSet
  <2>2. Flow(v \o s.high, s.low, f, FALSE) /\ LowOK(s.low, f)
    BY <1>2, <2>1 DEF Flow, LowOK, Together, Complete, InOrder
  <2>3. Flows(v, s, w, f, FALSE)
    BY <2>1, <2>2, SendFlow
  <2>4. ToSet(w.out) = {}
    BY <1>2, <2>3 DEF Flows
  <2>5. PICK o \in Seq(Pkg) : o = w.out
    BY <1>1
  <2>6. o # <<>> => 1 \in DOMAIN o
    OBVIOUS
  <2> QED
    BY <2>4, <2>5, <2>6 DEF ToSet
<1> QED
  BY <1>1, <1>3, <1>4 DEF Live

(* send_buffer, for a descriptor that can be written. *)
LEMMA WriteWire ==
    ASSUME SockInv, WireInv, NEW e, WriteEvent(e)
    PROVE  WireInv'
<1> DEFINE k == e.slot
           s == slot[k]
<1>1. Event(e) /\ e.slot # NULL /\ Open(s) /\ pipe' = pipe
  BY DEF WriteEvent, Event
<1>2. k \in Slot /\ s \in SlotState
  BY <1>1, LiveSlot
<1>3. ~ list_uncomplete(s.low)
  BY <1>2, LowWhole
<1>4. CASE s.type = "RESERVE" /\ ~ send_buffer_empty(s)
  <2>1. Crash("reserve")
    BY <1>3, <1>4 DEF WriteEvent
  <2> QED
    BY <1>1, <2>1, CrashWire
<1>5. CASE ~ (s.type = "RESERVE" /\ ~ send_buffer_empty(s))
  <2>1. PICK w \in send_buffer(s) :
                  /\ slot' = [slot EXCEPT ![k] = w.slot]
                  /\ wire' = [wire EXCEPT ![s.id] = @ \o w.out]
                  /\ Break(s.id, w.error)
                  /\ UNCHANGED <<pkg, refused, crashed>>
    BY <1>3, <1>5 DEF WriteEvent
  <2>2. UNCHANGED <<pkg, refused>> /\ crashed' # "uncomplete"
    BY <2>1 DEF WireInv
  <2>3. CASE s.type = "RESERVE"
    <3>1. /\ w.out = <<>> /\ ~ w.error /\ send_buffer_empty(w.slot) /\ w.slot \in SlotState
          /\ ~ Live(w.slot)
      BY <1>2, <1>5, <2>3, NothingOut
    <3>2. wire' = wire
      <4>1. wire \in [Id -> Seq(Pkg)]
        BY DEF SockInv, TypeInv, TypeOK
      <4>2. s.id \in Id => wire[s.id] \o <<>> = wire[s.id]
        BY <4>1, NoBytes
      <4> QED
        BY <2>1, <3>1, <4>1, <4>2
    <3>3. broken' = broken
      BY <2>1, <3>1 DEF Break
    <3>4. slot'[k] = w.slot /\ \A l \in Slot : l # k => slot'[l] = slot[l]
      BY <1>2, <2>1, <3>1, PutSlot DEF SockInv, TypeInv, TypeOK
    <3>5. w.slot.high = s.high /\ w.slot.low = s.low
      BY <1>5, <2>3, <3>1 DEF send_buffer_empty
    <3>6. ~ Live(s)
      BY <2>3 DEF Live
    <3>7. Kept
      BY <1>1, <1>2, <2>2, <3>1, <3>2, <3>3, <3>4, <3>5, <3>6 DEF Kept
    <3> QED
      BY <3>7, KeptStep
  <2>4. CASE s.type # "RESERVE"
    <3>1. Live(s)
      BY <1>1, <2>4 DEF Live, Open
    <3>2. PICK x, v, n : x = s.id /\ v = wire[x] /\ n = w.slot
      OBVIOUS
    <3>3. x \in Id /\ k = HASH_ID(x) /\ Popped({}, x)
      BY <1>1, <3>1, <3>2, LiveSlot DEF Popped
    <3>4. v \in Seq(Pkg) /\ LowOK(s.low, pkg) /\ Flow(v \o s.high, s.low, pkg, x \notin broken)
      BY <3>1, <3>2, <3>3, SlotStream, LiveStream
    <3>5. Flows(v, s, w, pkg, x \notin broken)
      <4>1. PICK whole \in BOOLEAN : whole = (x \notin broken)
        OBVIOUS
      <4>2. Flow(v \o s.high, s.low, pkg, whole)
        BY <3>4, <4>1
      <4>3. Flows(v, s, w, pkg, whole)
        BY <1>2, <2>1, <3>4, <4>2, SendFlow
      <4> QED
        BY <4>1, <4>3
    <3>6. Shrinks(s, n) /\ w.out \in Seq(Pkg) /\ w.error \in BOOLEAN
      BY <1>2, <2>1, <3>2, SendBuffer
    <3>7. /\ n \in SlotState /\ Queued(w.slot) \subseteq Queued(s) /\ w.slot \in SlotState
          /\ \/ n.high = w.slot.high /\ n.low = w.slot.low /\ Live(n) /\ n.id = x
             \/ send_buffer_empty(n) /\ ~ Live(n) /\ (x \notin broken' => send_buffer_empty(w.slot))
      BY <3>1, <3>2, <3>6 DEF Shrinks, Live
    <3>8. /\ broken \subseteq broken' /\ broken' \subseteq broken \cup {x}
          /\ w.error => x \in broken'
      BY <2>1, <3>2 DEF Break
    <3>9. slot' = [slot EXCEPT ![k] = n] /\ wire' = [wire EXCEPT ![x] = @ \o w.out]
      BY <2>1, <3>2
    <3> QED
      BY <2>2, <3>1, <3>2, <3>3, <3>5, <3>6, <3>7, <3>8, <3>9, WriteTurn
  <2> QED
    BY <2>3, <2>4
<1> QED
  BY <1>4, <1>5

(* report_accept: the new slot has empty lists. *)
LEMMA AcceptWire ==
    ASSUME SockInv, WireInv, NEW e, report_accept(e)
    PROVE  WireInv'
<1> DEFINE free == {i \in 1 .. MAX_SOCKET : slot[HASH_ID(alloc_id + i)].type = "INVALID"}
           n == IF free = {} THEN MAX_SOCKET ELSE Min(free)
<1>1. pipe' = pipe
  BY DEF report_accept, Event
<1>2. CASE UNCHANGED <<slot, wire, pkg, broken, refused, crashed>>
  <2>1. Kept
    BY <1>1, <1>2 DEF Kept, WireInv
  <2> QED
    BY <2>1, KeptStep
<1>3. CASE Crash("lists")
  BY <1>1, <1>3, CrashWire
<1>4. ASSUME NEW x, NEW k, x = alloc_id + n, k = HASH_ID(x), x <= MaxId, free # {},
             send_buffer_empty(slot[k]),
             slot' = [slot EXCEPT ![k] = [@ EXCEPT !.type = "PACCEPT", !.protocol = "tcp", !.id = x]],
             UNCHANGED <<pkg, wire, broken, refused, crashed>>
      PROVE  WireInv'
  <2>1. n \in 1 .. MAX_SOCKET /\ n \in free
    <3>1. free \in SUBSET Nat /\ free \subseteq 1 .. MAX_SOCKET
      BY SocketAssumption
    <3> HIDE DEF free
    <3> QED
      BY <1>4, <3>1, LeastNumber
  <2>2. x \in Id
    <3>1. alloc_id \in Nat /\ n \in Nat /\ n >= 1
      BY <2>1, SocketAssumption DEF SockInv, TypeInv, TypeOK
    <3> HIDE DEF n
    <3> QED
      BY <1>4, <3>1, SocketAssumption DEF Id
  <2>3. k \in Slot /\ slot[k].type = "INVALID" /\ slot[k] \in SlotState
    <3>1. k \in Slot
      BY <1>4, <2>2, Hashes
    <3> QED
      BY <1>4, <2>1, <3>1 DEF SockInv, TypeInv, TypeOK
  <2> HIDE DEF n, free
  <2>4. PICK m : m = [slot[k] EXCEPT !.type = "PACCEPT", !.protocol = "tcp", !.id = x]
    OBVIOUS
  <2>5. m \in SlotState /\ m.id = x /\ m.high = slot[k].high /\ m.low = slot[k].low
    BY <2>2, <2>3, <2>4 DEF SlotState, Type
  <2>6. send_buffer_empty(m) /\ ~ Live(slot[k])
    BY <1>4, <2>3, <2>5 DEF send_buffer_empty, Live
  <2>7. slot' = [slot EXCEPT ![k] = m] /\ Popped({}, x) /\ crashed' # "uncomplete"
    BY <1>1, <1>4, <2>4 DEF Popped, WireInv
  <2> QED
    BY <1>4, <2>2, <2>5, <2>6, <2>7, EmptyTurn
<1>5. CASE /\ alloc_id + n <= MaxId
           /\ IF free # {} /\ ~ send_buffer_empty(slot[HASH_ID(alloc_id + n)]) THEN Crash("lists")
              ELSE /\ alloc_id' = alloc_id + n
                   /\ IF free = {} THEN UNCHANGED <<slot, issued>> /\ Silent
                      ELSE /\ slot' = [slot EXCEPT ![HASH_ID(alloc_id + n)] =
                                        [@ EXCEPT !.type = "PACCEPT", !.protocol = "tcp",
                                                  !.id = alloc_id + n]]
                           /\ issued' = [issued EXCEPT ![alloc_id + n] = "A"]
                           /\ Report("accept", slot[e.slot].id)
                   /\ UNCHANGED <<pkg, freed, wire, broken, refused, crashed>>
  <2>1. PICK x, k : x = alloc_id + n /\ k = HASH_ID(x)
    OBVIOUS
  <2> HIDE DEF n, free
  <2> QED
    BY <1>2, <1>3, <1>4, <1>5, <2>1
<1> QED
  BY <1>2, <1>5 DEF report_accept

(* reserve_id gives a free slot an owner, and moves no byte. *)
LEMMA ReserveWire ==
    ASSUME SockInv, WireInv, NEW t \in Opener,
           ReserveLook(t) \/ ReserveCAS(t) \/ \E c \in Kinds : ReserveSet(t, c)
    PROVE  WireInv'
<1>1. slot \in [Slot -> SlotState] /\ crashed # "uncomplete"
  BY DEF SockInv, TypeInv, TypeOK, WireInv
<1>2. CASE ReserveLook(t)
  <2>1. Kept
    BY <1>1, <1>2 DEF Kept, ReserveLook, history
  <2> QED
    BY <2>1, KeptStep
<1>3. CASE ReserveCAS(t)
  <2>1. PICK k \in Slot : k = HASH_ID(opener[t].id)
    BY <1>3, Hashes DEF ReserveCAS, Holding
  <2>2. CASE slot' = slot
    <3>1. Kept
      BY <1>1, <1>3, <2>2 DEF Kept, ReserveCAS, history
    <3> QED
      BY <3>1, KeptStep
  <2>3. CASE slot[k].type = "INVALID" /\ slot' = [slot EXCEPT ![k].type = "RESERVE"]
    <3>1. PICK n : n = [slot[k] EXCEPT !.type = "RESERVE"]
      OBVIOUS
    <3>2. n \in SlotState /\ n.type = "RESERVE" /\ n.high = slot[k].high /\ n.low = slot[k].low
      BY <1>1, <3>1 DEF SlotState, Type
    <3>3. slot' = [slot EXCEPT ![k] = n]
      BY <1>1, <2>3, <3>1
    <3>4. slot'[k] = n /\ \A l \in Slot : l # k => slot'[l] = slot[l]
      BY <1>1, <3>2, <3>3, PutSlot
    <3>5. ~ Live(n) /\ ~ Live(slot[k])
      BY <2>3, <3>2 DEF Live
    <3>6. Kept
      BY <1>1, <1>3, <3>2, <3>4, <3>5 DEF Kept, ReserveCAS, history
    <3> QED
      BY <3>6, KeptStep
  <2> QED
    BY <1>3, <2>1, <2>2, <2>3 DEF ReserveCAS
<1>4. ASSUME NEW c \in Kinds, ReserveSet(t, c) PROVE WireInv'
  <2>1. PICK x \in Id : x = opener[t].id
    BY <1>4, Hashes DEF ReserveSet, StoreId, Holding
  <2>2. PICK k \in Slot : k = HASH_ID(x)
    BY Hashes
  <2>3. slot[k].type = "RESERVE"
    BY <1>4, <2>1, <2>2 DEF ReserveSet, StoreId, SockInv, IdInv, Reserved
  <2>4. PICK n : n = [slot[k] EXCEPT !.id = x]
    OBVIOUS
  <2>5. n \in SlotState /\ n.type = slot[k].type /\ n.high = slot[k].high /\ n.low = slot[k].low
    BY <1>1, <2>4 DEF SlotState
  <2>6. slot' = [slot EXCEPT ![k] = n]
    BY <1>1, <1>4, <2>1, <2>2, <2>4 DEF ReserveSet, StoreId
  <2>7. slot'[k] = n /\ \A l \in Slot : l # k => slot'[l] = slot[l]
    BY <1>1, <2>5, <2>6, PutSlot
  <2>8. ~ Live(n) /\ ~ Live(slot[k])
    BY <2>3, <2>5 DEF Live
  <2>9. PICK q : q = Request(c, x, 0, FALSE)
    OBVIOUS
  <2>10. q \in Command /\ q.pkg = 0
    BY <2>9, SocketAssumption DEF Request, Command
  <2>11. pipe' = Append(pipe, q) /\ UNCHANGED <<wire, pkg, broken, refused, crashed>>
    BY <1>4, <2>1, <2>9 DEF ReserveSet, StoreId
  <2>12. Kept
    BY <1>1, <2>5, <2>7, <2>8, <2>10, <2>11 DEF Kept
  <2> QED
    BY <2>12, KeptStep
<1> QED
  BY <1>2, <1>3, <1>4

(* Start, close and shutdown commands carry no package. *)
LEMMA AskWire ==
    ASSUME SockInv, WireInv, NEW id \in Id, NEW c \in {"S", "K", "C"}, NEW hard \in BOOLEAN,
           Ask(c, id, hard)
    PROVE  WireInv'
<1>1. PICK q : q = Request(c, id, 0, hard)
  OBVIOUS
<1>2. q \in Command /\ q.pkg = 0
  BY <1>1 DEF Request, Command
<1>3. pipe' = Append(pipe, q) /\ slot' = slot /\ UNCHANGED <<wire, pkg, broken, refused, crashed>>
  BY <1>1 DEF Ask, history
<1>4. Kept
  BY <1>2, <1>3 DEF Kept, WireInv
<1> QED
  BY <1>4, KeptStep

(* Steps of the poll that touch neither a slot nor the pipe. *)
LEMMA PollWire ==
    ASSUME SockInv, WireInv,
           \/ clear_closed_event \/ NoCmd \/ Wait \/ UNCHANGED vars
           \/ \E e \in ToSet(ev) : SkipEvent(e)
    PROVE  WireInv'
<1>1. UNCHANGED <<slot, pipe, wire, pkg, broken, refused, crashed>>
  BY DEF clear_closed_event, NoCmd, Wait, SkipEvent, Event, vars, history
<1>2. Kept
  BY <1>1 DEF Kept, WireInv
<1> QED
  BY <1>2, KeptStep

(* The package of the first command is newer than all that was written or
   queued, and of its priority.                                            *)
LEMMA FreshPackage ==
    ASSUME SockInv, WireInv, NEW r, Takes(r), r.pkg # 0
    PROVE  /\ r.pkg \in Pkg /\ r.pkg \in DOMAIN pkg /\ pkg[r.pkg].low = (r.c = "P")
           /\ Popped({r.pkg}, r.id)
           /\ \A x \in Id : \A q \in ToSet(wire[x]) : q < r.pkg
           /\ \A k \in Slot : \A q \in Queued(slot[k]) : q < r.pkg
<1>1. pipe \in Seq(Command) /\ pkg \in Seq([id : Id, low : BOOLEAN]) /\ PipeNew
  BY DEF SockInv, TypeInv, TypeOK, WireInv
<1>2. r \in Command /\ 1 \in DOMAIN pipe /\ r = pipe[1]
  BY <1>1, PopPipe DEF Takes
<1>3. Newest(1) /\ pipe[1].pkg = r.pkg /\ pipe[1].id = r.id /\ pipe[1].c = r.c
  BY <1>1, <1>2 DEF PipeNew
<1>4. r.pkg \in Pkg
  BY <1>2 DEF Command
<1>5. r.pkg \in Nat /\ r.pkg >= 1
  BY <1>4, SocketAssumption DEF Pkg
<1>6. r.pkg <= Len(pkg) /\ pkg[r.pkg] = [id |-> r.id, low |-> r.c = "P"]
  BY <1>3 DEF Newest
<1>7. Len(pkg) \in Nat /\ DOMAIN pkg = 1 .. Len(pkg)
  BY <1>1
<1>8. r.pkg \in DOMAIN pkg
  BY <1>5, <1>6, <1>7
<1>9. pkg[r.pkg].low = (r.c = "P")
  BY <1>6
<1>10. {r.pkg} \ {0} = {r.pkg}
  OBVIOUS
<1>11. Popped({r.pkg}, r.id)
  BY <1>10, PoppedTake
<1> QED
  BY <1>3, <1>4, <1>8, <1>9, <1>11 DEF Newest

(* send_socket refuses the package. *)
LEMMA RefuseWire ==
    ASSUME SockInv, WireInv, NEW r, Takes(r), r.pkg # 0, refused' = refused \cup {r.pkg},
           UNCHANGED <<slot, wire, broken, pkg, crashed>>
    PROVE  WireInv'
<1>1. PICK x, k, v, s : x = r.id /\ k = HASH_ID(x) /\ v = wire[x] /\ s = slot[k]
  OBVIOUS
<1>2. x \in Id
  BY <1>1, Taken
<1>3. k \in Slot /\ s \in SlotState /\ v \in Seq(Pkg) /\ LowOK(s.low, pkg)
  BY <1>1, <1>2, SlotStream
<1>4. Popped({r.pkg}, x)
  BY <1>1, FreshPackage
<1>5. /\ wire' \in [Id -> Seq(Pkg)] /\ slot' = [slot EXCEPT ![k] = s] /\ wire'[x] = v
      /\ crashed' # "uncomplete"
  BY <1>1, <1>3 DEF SockInv, TypeInv, TypeOK, WireInv
<1>6. HighOf(s, x) = Ahead(x) /\ LowOf(s, x) = Behind(x)
  BY <1>1 DEF HighOf, LowOf, Ahead, Behind, Mine
<1>7. /\ Flow(wire'[x] \o HighOf(s, x), LowOf(s, x), pkg, x \notin broken')
      /\ Carries(x) = ToSet(wire'[x] \o HighOf(s, x)) \cup ToSet(LowOf(s, x))
  BY <1>1, <1>2, <1>5, <1>6 DEF WireInv, Streams, Carries
<1>8. Live(s) \/ send_buffer_empty(s) \/ (~ Live(s) /\ Queued(s) \subseteq Queued(s))
  OBVIOUS
<1>9. Turned(k, s, x, {r.pkg})
  BY <1>1, <1>2, <1>3, <1>4, <1>5, <1>7, <1>8 DEF Turned
<1> QED
  BY <1>9, TurnedStep

(* A package joins a stream after which nothing waits. *)
LEMMA FirstAdd ==
    ASSUME NEW u \in Seq(Pkg), NEW f, NEW whole, Flow(u, <<>>, f, whole),
           NEW p \in Pkg, NEW b, b = [i \in 1 .. Size |-> p], \A q \in ToSet(u) : q < p
    PROVE  Flow(u \o b, <<>>, f, whole) /\ ToSet(u \o b) = ToSet(u) \cup {p}
<1>1. PICK l \in Seq(Pkg) : l = <<>>
  BY NoBytes
<1>2. Flow(u, l, f, whole) /\ (\A q \in ToSet(l) : q < p /\ f[q].low) /\ (~ f[p].low \/ l = <<>>)
  BY <1>1 DEF ToSet
<1>3. Flow(u \o b, l, f, whole) /\ ToSet(u \o b) = ToSet(u) \cup {p}
  BY <1>2, FlowAdd
<1> QED
  BY <1>1, <1>3

(* A part of the package is written at once and the rest goes to the high list:
   no package is begun before it is written.                               *)
LEMMA DirectWire ==
    ASSUME SockInv, WireInv, NEW r, Takes(r), r.pkg # 0,
           NEW k, k = HASH_ID(r.id), Live(slot[k]), slot[k].id = r.id, send_buffer_empty(slot[k]),
           NEW b, b = [i \in 1 .. Size |-> r.pkg], NEW a \in Seq(Pkg), NEW h \in Seq(Pkg), a \o h = b,
           NEW n \in SlotState, n.high = h, n.low = <<>>, Live(n), n.id = r.id,
           slot' = [slot EXCEPT ![k] = n], wire' = [wire EXCEPT ![r.id] = @ \o a],
           UNCHANGED <<broken, refused, pkg, crashed>>
    PROVE  WireInv'
<1>1. PICK x, v, p : x = r.id /\ v = wire[x] /\ p = r.pkg
  OBVIOUS
<1>2. x \in Id
  BY <1>1, Taken
<1>3. k \in Slot /\ v \in Seq(Pkg)
  BY <1>1, <1>2, SlotStream
<1>4. /\ p \in Pkg /\ Popped({p}, x) /\ \A q \in ToSet(v) : q < p
  BY <1>1, <1>2, FreshPackage
<1>5. Flow(v, <<>>, pkg, x \notin broken) /\ Carries(x) = ToSet(v)
  BY <1>1, <1>2, IdleStream
<1>6. Flow(v \o b, <<>>, pkg, x \notin broken) /\ ToSet(v \o b) = ToSet(v) \cup {p}
  <2>1. b = [i \in 1 .. Size |-> p] /\ v \in Seq(Pkg) /\ p \in Pkg /\ \A q \in ToSet(v) : q < p
    BY <1>1, <1>3, <1>4
  <2> QED
    BY <1>5, <2>1, FirstAdd
<1>7. (v \o a) \o h = v \o b
  <2>1. (v \o a) \o h = v \o (a \o h)
    BY <1>3, InARow
  <2> QED
    BY <2>1
<1>8. ToSet(a) \subseteq {p} /\ ToSet(h) \subseteq {p} /\ ToSet(v \o a) = ToSet(v) \cup ToSet(a)
      /\ v \o a \in Seq(Pkg)
  <2>1. ToSet(b) = {p} /\ ToSet(a \o h) = ToSet(a) \cup ToSet(h)
    BY <1>1, <1>4, OnePackage, Elements
  <2> QED
    BY <1>3, <2>1, Elements
<1>9. wire' \in [Id -> Seq(Pkg)] /\ wire'[x] = v \o a /\ \A y \in Id : y # x => wire'[y] = wire[y]
  <2>1. wire \in [Id -> Seq(Pkg)]
    BY DEF SockInv, TypeInv, TypeOK
  <2> QED
    BY <1>1, <1>2, <1>8, <2>1
<1>10. /\ HighOf(n, x) = h /\ LowOf(n, x) = <<>> /\ ToSet(<<>>) = {} /\ LowOK(<<>>, pkg)
  <2>1. ToSet(<<>>) = {} /\ LowOK(<<>>, pkg)
    BY DEF LowOK, Together, Complete, ToSet
  <2> QED
    BY <1>1, <2>1 DEF HighOf, LowOf
<1>11. wire'[x] \o HighOf(n, x) = v \o b
  BY <1>7, <1>9, <1>10
<1>12. Queued(n) \subseteq {p}
  BY <1>8, <1>10 DEF Queued
<1>13. crashed' # "uncomplete"
  BY DEF WireInv
<1>14. Flow(wire'[x] \o HighOf(n, x), LowOf(n, x), pkg, x \notin broken')
  BY <1>6, <1>10, <1>11
<1>15. /\ Carries(x) \subseteq ToSet(wire'[x] \o HighOf(n, x))
       /\ p \in ToSet(wire'[x] \o HighOf(n, x))
  BY <1>5, <1>6, <1>11
<1>16. ToSet(wire'[x]) \subseteq ToSet(wire[x]) \cup Queued(slot[k]) \cup {p}
  BY <1>1, <1>8, <1>9
<1>17. Turned(k, n, x, {p})
  BY <1>1, <1>2, <1>3, <1>4, <1>9, <1>10, <1>12, <1>13, <1>14, <1>15, <1>16 DEF Turned
<1> QED
  BY <1>17, TurnedStep

(* The package joins the list of its priority. *)
LEMMA QueueWire ==
    ASSUME SockInv, WireInv, NEW r, Takes(r), r.pkg # 0, r.c \in {"D", "P"},
           NEW k, k = HASH_ID(r.id), slot[k].id = r.id,
           NEW b, b = [i \in 1 .. Size |-> r.pkg], NEW n \in SlotState,
           n.id = r.id, Live(n) <=> Live(slot[k]),
           \/ r.c = "P" /\ n.high = slot[k].high /\ n.low = slot[k].low \o b
           \/ r.c = "D" /\ n.high = slot[k].high \o b /\ n.low = slot[k].low,
           slot' = [slot EXCEPT ![k] = n],
           UNCHANGED <<wire, broken, refused, pkg, crashed>>
    PROVE  WireInv'
<1>1. PICK x, v, p, s : x = r.id /\ v = wire[x] /\ p = r.pkg /\ s = slot[k]
  OBVIOUS
<1>2. x \in Id
  BY <1>1, Taken
<1>3. /\ k \in Slot /\ v \in Seq(Pkg) /\ s \in SlotState /\ LowOK(s.low, pkg)
      /\ s.high \in Seq(Pkg) /\ s.low \in Seq(Pkg)
  BY <1>1, <1>2, SlotStream
<1>4. /\ p \in Pkg /\ Popped({p}, x) /\ pkg[p].low = (r.c = "P")
      /\ \A q \in ToSet(v) : q < p
      /\ \A q \in Queued(s) : q < p
  BY <1>1, <1>2, <1>3, FreshPackage
<1>5. b \in Seq(Pkg) /\ ToSet(b) = {p}
  BY <1>1, <1>4, OnePackage
<1>6. /\ wire' \in [Id -> Seq(Pkg)] /\ wire'[x] = v /\ crashed' # "uncomplete"
      /\ \A y \in Id : wire'[y] = wire[y]
  BY <1>1 DEF SockInv, TypeInv, TypeOK, WireInv
<1>7. Queued(n) = Queued(s) \cup {p}
  <2>1. ASSUME NEW l \in Seq(Pkg) PROVE ToSet(l \o b) = ToSet(l) \cup {p}
    <3>1. ToSet(l \o b) = ToSet(l) \cup ToSet(b)
      BY <1>5, Elements
    <3> QED
      BY <1>5, <3>1
  <2>2. ToSet(s.high \o b) = ToSet(s.high) \cup {p} /\ ToSet(s.low \o b) = ToSet(s.low) \cup {p}
    BY <1>3, <2>1
  <2> QED
    BY <1>1, <2>2 DEF Queued
<1>8. LowOK(n.low, pkg)
  <2>1. CASE r.c = "P"
    <3>1. PICK l \in Seq(Pkg) : l = s.low
      BY <1>3
    <3>2. /\ n.low = l \o b /\ LowOK(l, pkg) /\ (\A q \in ToSet(l) : q < p) /\ pkg[p].low
      BY <1>1, <1>3, <1>4, <2>1, <3>1 DEF Queued
    <3>3. LowOK(l \o b, pkg)
      BY <1>1, <1>4, <3>2, LowAdd
    <3> QED
      BY <3>2, <3>3
  <2>2. CASE r.c = "D"
    BY <1>1, <1>3, <2>2
  <2> QED
    BY <2>1, <2>2
<1>9. CASE ~ Live(s)
  <2>1. HighOf(n, x) = <<>> /\ LowOf(n, x) = <<>> /\ ~ Live(n)
    BY <1>1, <1>9 DEF HighOf, LowOf
  <2>2. Flow(v, <<>>, pkg, x \notin broken) /\ Carries(x) = ToSet(v)
    BY <1>1, <1>2, <1>9, IdleStream
  <2>3. v \o <<>> = v
    BY <1>3, NoBytes
  <2>4. wire'[x] \o HighOf(n, x) = v
    BY <1>6, <2>1, <2>3
  <2>5. Flow(wire'[x] \o HighOf(n, x), LowOf(n, x), pkg, x \notin broken')
    BY <2>1, <2>2, <2>4
  <2>6. Turned(k, n, x, {p})
    BY <1>1, <1>2, <1>3, <1>4, <1>6, <1>7, <1>8, <1>9, <2>1, <2>2, <2>4, <2>5 DEF Turned
  <2> QED
    BY <2>6, TurnedStep
<1>10. CASE Live(s)
  <2>1. /\ Flow(v \o s.high, s.low, pkg, x \notin broken)
        /\ Carries(x) = ToSet(v \o s.high) \cup ToSet(s.low)
    BY <1>1, <1>2, <1>10, LiveStream
  <2>2. PICK u \in Seq(Pkg) : u = v \o s.high
    BY <1>3, Elements
  <2>3. HighOf(n, x) = n.high /\ LowOf(n, x) = n.low
    BY <1>1, <1>10 DEF HighOf, LowOf
  <2>4. ToSet(u) = ToSet(v) \cup ToSet(s.high)
    BY <1>3, <2>2, Elements
  <2>5. PICK l \in Seq(Pkg) : l = s.low
    BY <1>3
  <2>6. /\ Flow(u, l, pkg, x \notin broken) /\ LowOK(l, pkg)
        /\ (\A q \in ToSet(u) : q < p) /\ (\A q \in ToSet(l) : q < p)
    BY <1>3, <1>4, <2>1, <2>2, <2>4, <2>5 DEF Queued
  <2>7. /\ Flow(wire'[x] \o n.high, n.low, pkg, x \notin broken)
        /\ ToSet(wire'[x] \o n.high) \cup ToSet(n.low) = (ToSet(u) \cup ToSet(l)) \cup {p}
    <3>1. CASE r.c = "P"
      <4>1. wire'[x] \o n.high = u /\ n.low = l \o b
        BY <1>1, <1>6, <2>2, <2>5, <3>1
      <4>2. Flow(u, l \o b, pkg, x \notin broken)
        BY <1>1, <1>4, <2>6, FlowAddLow
      <4>3. ToSet(l \o b) = ToSet(l) \cup {p}
        <5>1. ToSet(l \o b) = ToSet(l) \cup ToSet(b)
          BY <1>5, Elements
        <5> QED
          BY <1>5, <5>1
      <4> QED
        BY <4>1, <4>2, <4>3
    <3>2. CASE r.c = "D"
      <4>1. wire'[x] \o n.high = v \o (s.high \o b) /\ n.low = l
        BY <1>1, <1>6, <2>5, <3>2
      <4>2. (v \o s.high) \o b = v \o (s.high \o b)
        <5>1. PICK h \in Seq(Pkg) : h = s.high
          BY <1>3
        <5>2. (v \o h) \o b = v \o (h \o b)
          <6>1. v \in Seq(Pkg) /\ b \in Seq(Pkg)
            BY <1>3, <1>5
          <6> QED
            BY <6>1, InARow
        <5> QED
          BY <5>1, <5>2
      <4>3. wire'[x] \o n.high = u \o b
        BY <2>2, <4>1, <4>2
      <4>4. ~ pkg[p].low /\ \A q \in ToSet(l) : q < p /\ pkg[q].low
        BY <1>4, <2>6, <3>2 DEF LowOK
      <4>5. Flow(u \o b, l, pkg, x \notin broken) /\ ToSet(u \o b) = ToSet(u) \cup {p}
        BY <1>1, <1>4, <2>6, <4>4, FlowAdd
      <4> QED
        BY <4>1, <4>3, <4>5
    <3> QED
      BY <3>1, <3>2
  <2>8. Flow(wire'[x] \o HighOf(n, x), LowOf(n, x), pkg, x \notin broken')
    BY <2>3, <2>7
  <2>9. /\ Carries(x) \subseteq ToSet(wire'[x] \o HighOf(n, x)) \cup ToSet(LowOf(n, x))
        /\ p \in ToSet(wire'[x] \o HighOf(n, x)) \cup ToSet(LowOf(n, x))
    BY <2>1, <2>2, <2>3, <2>5, <2>7
  <2>10. Turned(k, n, x, {p})
    BY <1>1, <1>2, <1>3, <1>4, <1>6, <1>7, <1>8, <1>10, <2>8, <2>9 DEF Turned
  <2> QED
    BY <2>10, TurnedStep
<1> QED
  BY <1>9, <1>10

(* A udp write of less than a package writes nothing. *)
LEMMA NoPart ==
    ASSUME NEW n \in 0 .. Size, n # Size, n % Size = 0
    PROVE  n = 0
<1>1. Size \in Nat \ {0} /\ n \in Nat /\ n < Size
  BY SocketAssumption
<1> QED
  BY <1>1

(* send_socket: refused, written as far as the kernel takes it, an error, or
   queued.                                                                 *)
LEMMA SendWire ==
    ASSUME SockInv, WireInv, NEW r, Takes(r), r.c \in {"D", "P"}, send_socket(r),
           UNCHANGED <<alloc_id, issued, pkg, crashed>>
    PROVE  WireInv'
<1> DEFINE k == HASH_ID(r.id)
           s == slot[k]
           high == s.protocol # "udp" \/ r.c = "D"
<1>1. r \in Command /\ r.id \in Id /\ k \in Slot /\ r.pkg # 0
  BY Taken
<1>2. s \in SlotState /\ r.pkg \in Pkg /\ slot \in [Slot -> SlotState]
  BY <1>1, FreshPackage DEF SockInv, TypeInv, TypeOK
<1>3. PICK b : b = [i \in 1 .. Size |-> r.pkg]
  OBVIOUS
<1>4. b \in Seq(Pkg) /\ Len(b) = Size /\ Size \in Nat
  <2>1. 0 \in 0 .. Size
    BY SocketAssumption
  <2> QED
    BY <1>2, <1>3, <2>1, Bytes, SocketAssumption
<1>5. CASE refused' = refused \cup {r.pkg} /\ UNCHANGED <<slot, wire, broken>>
  BY <1>1, <1>5, RefuseWire
<1>6. CASE /\ Current(r) /\ s.type = "CONNECTED" /\ send_buffer_empty(s)
           /\ \E n \in Written(s, b) :
                  /\ slot' = [slot EXCEPT ![k] =
                        IF n = Size THEN @
                        ELSE IF high THEN [@ EXCEPT !.high = Rest(b, n), !.armed = TRUE]
                        ELSE [@ EXCEPT !.low = Rest(b, n), !.armed = TRUE]]
                  /\ wire' = [wire EXCEPT ![r.id] = @ \o SubSeq(b, 1, n)]
                  /\ UNCHANGED broken
           /\ UNCHANGED refused
  <2>1. PICK n \in Written(s, b) :
                  /\ slot' = [slot EXCEPT ![k] =
                        IF n = Size THEN @
                        ELSE IF high THEN [@ EXCEPT !.high = Rest(b, n), !.armed = TRUE]
                        ELSE [@ EXCEPT !.low = Rest(b, n), !.armed = TRUE]]
                  /\ wire' = [wire EXCEPT ![r.id] = @ \o SubSeq(b, 1, n)]
    BY <1>6
  <2>2. n \in 0 .. Size /\ (s.protocol = "udp" => n % Size = 0)
    BY <1>4, <2>1 DEF Written
  <2>3. PICK a, h : a = SubSeq(b, 1, n) /\ h = Rest(b, n)
    OBVIOUS
  <2>4. a \in Seq(Pkg) /\ h \in Seq(Pkg) /\ a \o h = b /\ (n = Size => h = <<>>)
    <3>1. n \in 0 .. Len(b)
      BY <1>4, <2>2
    <3>2. n = Size => h = <<>>
      BY <1>4, <2>3, NoBytes
    <3> QED
      BY <1>4, <2>3, <3>1, <3>2, Part, Rejoin
  <2>5. Live(s) /\ s.id = r.id /\ s.high = <<>> /\ s.low = <<>>
    BY <1>6 DEF Live, Current, send_buffer_empty
  <2>6. UNCHANGED <<broken, refused, pkg, crashed>>
    BY <1>6
  <2>7. CASE n = Size
    <3>1. PICK m : m = s
      OBVIOUS
    <3>2. m \in SlotState /\ m.high = h /\ m.low = <<>> /\ m.id = r.id /\ Live(m)
      BY <1>2, <2>4, <2>5, <2>7, <3>1
    <3>3. slot' = [slot EXCEPT ![k] = m] /\ wire' = [wire EXCEPT ![r.id] = @ \o a]
      BY <2>1, <2>3, <2>7, <3>1
    <3> QED
      BY <1>1, <1>3, <1>6, <2>4, <2>5, <2>6, <3>2, <3>3, DirectWire
  <2>8. CASE n # Size /\ high
    <3>1. PICK m : m = [s EXCEPT !.high = h, !.armed = TRUE]
      OBVIOUS
    <3>2. m \in SlotState /\ m.high = h /\ m.low = <<>> /\ m.id = r.id /\ m.type = s.type
      BY <1>2, <2>4, <2>5, <3>1 DEF SlotState
    <3>3. slot' = [slot EXCEPT ![k] = m] /\ wire' = [wire EXCEPT ![r.id] = @ \o a]
      BY <2>1, <2>3, <2>8, <3>1
    <3>4. Live(m)
      BY <2>5, <3>2 DEF Live
    <3> QED
      BY <1>1, <1>3, <1>6, <2>4, <2>5, <2>6, <3>2, <3>3, <3>4, DirectWire
  <2>9. CASE n # Size /\ ~ high
    <3>1. n = 0 /\ r.c = "P"
      BY <2>2, <2>9, NoPart
    <3>2. a = <<>> /\ h = b
      BY <1>4, <2>3, <3>1, NoBytes
    <3>3. PICK m : m = [s EXCEPT !.low = b, !.armed = TRUE]
      OBVIOUS
    <3>4. m \in SlotState /\ m.high = s.high /\ m.low = b /\ m.id = r.id /\ m.type = s.type
      BY <1>2, <1>4, <2>5, <3>3 DEF SlotState
    <3>5. slot' = [slot EXCEPT ![k] = m]
      BY <2>1, <2>3, <2>9, <3>2, <3>3
    <3>6. wire' = wire
      <4>1. wire \in [Id -> Seq(Pkg)]
        BY DEF SockInv, TypeInv, TypeOK
      <4>2. wire[r.id] \o <<>> = wire[r.id]
        BY <1>1, <4>1, NoBytes
      <4> QED
        BY <2>1, <2>3, <3>2, <4>1, <4>2
    <3>7. m.low = s.low \o b
      BY <1>4, <2>5, <3>4, NoBytes
    <3>8. Live(m) <=> Live(slot[k])
      BY <3>4 DEF Live
    <3> QED
      BY <1>1, <1>3, <2>5, <2>6, <3>1, <3>4, <3>5, <3>6, <3>7, <3>8, QueueWire
  <2> QED
    BY <2>7, <2>8, <2>9
<1>7. CASE /\ Current(r) /\ s.type = "CONNECTED"
           /\ slot' = [slot EXCEPT ![k] = force_close(s)]
           /\ Break(r.id, TRUE) /\ UNCHANGED wire /\ UNCHANGED refused
  <2>1. Popped({r.pkg}, r.id)
    BY <1>1, FreshPackage
  <2>2. Live(s) /\ s.id = r.id /\ broken' = broken \cup {r.id} /\ crashed' # "uncomplete"
    BY <1>7 DEF Live, Current, Break, WireInv
  <2> QED
    BY <1>1, <1>7, <2>1, <2>2, BreakTurn
<1>8. CASE /\ Current(r)
           /\ slot' = [slot EXCEPT ![k] = IF r.c = "P" THEN [@ EXCEPT !.low = s.low \o b]
                                          ELSE [@ EXCEPT !.high = s.high \o b]]
           /\ UNCHANGED <<wire, broken, refused>>
  <2>1. s.high \in Seq(Pkg) /\ s.low \in Seq(Pkg)
    BY <1>2 DEF SlotState
  <2>2. PICK h \in Seq(Pkg), l \in Seq(Pkg) : h = s.high \o b /\ l = s.low \o b
    BY <1>4, <2>1, Elements
  <2>3. PICK m : m = IF r.c = "P" THEN [s EXCEPT !.low = l] ELSE [s EXCEPT !.high = h]
    OBVIOUS
  <2>4. /\ m \in SlotState /\ m.type = s.type /\ m.id = s.id
        /\ \/ r.c = "P" /\ m.high = s.high /\ m.low = l
           \/ r.c = "D" /\ m.high = h /\ m.low = s.low
    BY <1>2, <2>3 DEF SlotState
  <2>5. slot' = [slot EXCEPT ![k] = m]
    BY <1>8, <2>2, <2>3
  <2>6. /\ \/ r.c = "P" /\ m.high = slot[k].high /\ m.low = slot[k].low \o b
           \/ r.c = "D" /\ m.high = slot[k].high \o b /\ m.low = slot[k].low
        /\ slot[k].id = r.id /\ m.id = r.id
    BY <1>8, <2>2, <2>4 DEF Current
  <2>7. Live(m) <=> Live(slot[k])
    BY <2>4 DEF Live
  <2>8. m \in SlotState /\ UNCHANGED <<wire, broken, refused, pkg, crashed>>
    BY <1>8, <2>4
  <2> QED
    BY <1>1, <1>3, <2>5, <2>6, <2>7, <2>8, QueueWire
<1> QED
  BY <1>3, <1>5, <1>6, <1>7, <1>8 DEF send_socket

(* Every command. *)
LEMMA CmdWire ==
    ASSUME SockInv, WireInv, Cmd
    PROVE  WireInv'
<1>1. PICK r : r = Head(pipe)
  OBVIOUS
<1>2. Takes(r)
  BY <1>1 DEF Cmd, Takes
<1>3. \/ r.c \in {"O", "L", "B", "U"} /\ new_fd(r)
      \/ r.c = "S" /\ start_socket(r)
      \/ r.c = "K" /\ close_socket(r)
      \/ r.c \in {"D", "P"} /\ send_socket(r) /\ UNCHANGED <<alloc_id, issued, pkg, crashed>>
      \/ r.c = "C" /\ set_udp_address(r)
  BY <1>1 DEF Cmd
<1> QED
  BY <1>2, <1>3, NewFdWire, StartWire, CloseWire, SendWire, UdpWire DEF OpenCmd

(* A stream is one as long as its packages keep their priorities. *)
LEMMA SameFlow ==
    ASSUME NEW u \in Seq(Pkg), NEW l \in Seq(Pkg), NEW f, NEW g, NEW whole,
           \A q \in ToSet(u) \cup ToSet(l) : g[q] = f[q], Flow(u, l, f, whole)
    PROVE  Flow(u, l, g, whole)
<1>1. (\A i \in DOMAIN u : u[i] \in ToSet(u)) /\ (\A i \in DOMAIN l : l[i] \in ToSet(l))
  BY DEF ToSet
<1>2. \A p, q \in ToSet(u) \cup ToSet(l) : Before(p, q, f) => Before(p, q, g)
  BY DEF Before
<1>3. /\ Together(u) /\ InOrder(u, f) /\ InOrder(l, f) /\ (whole => Complete(u))
      /\ \A p \in ToSet(u), q \in ToSet(l) : Before(p, q, f)
  BY DEF Flow
<1>4. InOrder(u, g) /\ InOrder(l, g)
  BY <1>1, <1>2, <1>3 DEF InOrder
<1> QED
  BY <1>2, <1>3, <1>4 DEF Flow

(* socket_server_send: a new package is the newest one, in the pipe or refused. *)
LEMMA SubmitWire ==
    ASSUME SockInv, WireInv, NEW id \in Id, NEW low \in BOOLEAN, Send(id, low)
    PROVE  WireInv'
<1> DEFINE s == slot[HASH_ID(id)]
           gone == s.id # id \/ s.type = "INVALID"
<1>1. PICK p, c : p = Len(pkg) + 1 /\ c = (IF low THEN "P" ELSE "D")
  OBVIOUS
<1>2. PICK r : r = Request(c, id, p, FALSE)
  OBVIOUS
<1>3. /\ TypeOK /\ BufInv /\ pipe \in Seq(Command) /\ pkg \in Seq([id : Id, low : BOOLEAN])
      /\ PipeNew /\ WireSent /\ LowsOK /\ Streams /\ AllCarried
      /\ wire \in [Id -> Seq(Pkg)] /\ slot \in [Slot -> SlotState]
  BY DEF SockInv, TypeInv, TypeOK, WireInv
<1>4. /\ pkg' = Append(pkg, [id |-> id, low |-> low]) /\ Len(pkg) < MaxPkg
      /\ pipe' = IF gone THEN pipe ELSE Append(pipe, r)
      /\ refused' = IF gone THEN refused \cup {p} ELSE refused
      /\ UNCHANGED <<slot, wire, broken, crashed>>
  BY <1>1, <1>2 DEF Send
<1>5. /\ Len(pkg) \in Nat /\ DOMAIN pkg = 1 .. Len(pkg) /\ DOMAIN pkg' = 1 .. p /\ Len(pkg') = p
      /\ (\A q \in DOMAIN pkg : pkg'[q] = pkg[q]) /\ pkg'[p] = [id |-> id, low |-> low]
      /\ p \in Nat /\ p # 0
  <2>1. PICK x \in [id : Id, low : BOOLEAN] : x = [id |-> id, low |-> low]
    OBVIOUS
  <2>2. pkg' = Append(pkg, x)
    BY <1>4, <2>1
  <2> QED
    BY <1>1, <1>3, <2>1, <2>2
<1>6. r.pkg = p /\ r.id = id /\ r.c = c /\ (c = "P") = low
  BY <1>1, <1>2 DEF Request
<1>7. p \in Pkg /\ r \in Command
  <2>1. p \in Pkg
    BY <1>1, <1>4, <1>5, SocketAssumption DEF Pkg
  <2> QED
    BY <1>1, <1>2, <2>1 DEF Request, Command
<1>8. /\ \A x \in Id : \A q \in ToSet(wire[x]) : q \in DOMAIN pkg
      /\ \A k \in Slot : \A q \in Queued(slot[k]) : q \in DOMAIN pkg
  <2>1. \A q \in Pkg : q <= Len(pkg) => q \in DOMAIN pkg
    BY <1>5, SocketAssumption DEF Pkg
  <2>2. \A x \in Id : ToSet(wire[x]) \subseteq Pkg
    BY <1>3 DEF ToSet
  <2>3. \A k \in Slot : Queued(slot[k]) \subseteq Pkg
    BY <1>3, QueuedPkg
  <2>4. \A k \in Slot : \A q \in Queued(slot[k]) : q <= Len(pkg)
    BY <1>3, <2>3 DEF BufInv, IsQueued
  <2>5. \A x \in Id : \A q \in ToSet(wire[x]) : q <= Len(pkg)
    BY <1>3 DEF WireSent
  <2> QED
    BY <2>1, <2>2, <2>3, <2>4, <2>5
<1>9. \A q \in DOMAIN pkg : q < p /\ q <= p /\ q # p
  BY <1>1, <1>5
<1>10. \A x \in Id : HASH_ID(x) \in Slot
  BY Hashes
<1>11. PipeNew'
  <2> SUFFICES ASSUME NEW i \in DOMAIN pipe', pipe'[i].pkg # 0 PROVE Newest(i)'
    BY DEF PipeNew
  <2>1. ASSUME i \in DOMAIN pipe, pipe'[i] = pipe[i],
               \A j \in DOMAIN pipe' : j < i => j \in DOMAIN pipe /\ pipe'[j] = pipe[j]
        PROVE  Newest(i)'
    <3>1. Newest(i)
      BY <1>3, <2>1 DEF PipeNew
    <3>2. PICK q : q = pipe[i].pkg
      OBVIOUS
    <3>3. q \in DOMAIN pkg
      <4>1. q \in Pkg
        BY <1>3, <2>1, <3>2, Hashes DEF Command
      <4>2. q <= Len(pkg)
        BY <3>1, <3>2 DEF Newest
      <4> QED
        BY <1>5, <4>1, <4>2, SocketAssumption DEF Pkg
    <3>4. q <= Len(pkg') /\ pkg'[q] = pkg[q]
      BY <1>5, <1>9, <3>3
    <3>5. \A j \in DOMAIN pipe' : j < i => pipe'[j].pkg < q
      BY <2>1, <3>1, <3>2 DEF Newest
    <3> QED
      BY <1>4, <2>1, <3>1, <3>2, <3>4, <3>5 DEF Newest, Queued
  <2>2. CASE gone
    BY <1>4, <2>1, <2>2
  <2>3. CASE ~ gone
    <3>1. /\ Len(pipe) \in Nat /\ DOMAIN pipe = 1 .. Len(pipe)
          /\ DOMAIN pipe' = 1 .. Len(pipe) + 1
          /\ \A j \in DOMAIN pipe : j \in DOMAIN pipe' /\ pipe'[j] = pipe[j]
          /\ pipe'[Len(pipe) + 1] = r
      BY <1>3, <1>4, <1>7, <2>3, PushPipe
    <3>2. CASE i # Len(pipe) + 1
      <4>1. i \in DOMAIN pipe /\ \A j \in DOMAIN pipe' : j < i => j \in DOMAIN pipe
        BY <3>1, <3>2
      <4> QED
        BY <2>1, <3>1, <4>1
    <3>3. CASE i = Len(pipe) + 1
      <4>1. pipe'[i] = r /\ \A j \in DOMAIN pipe' : j < i => j \in DOMAIN pipe /\ pipe'[j] = pipe[j]
        BY <3>1, <3>3
      <4>2. \A j \in DOMAIN pipe : pipe[j].pkg < p
        <5> SUFFICES ASSUME NEW j \in DOMAIN pipe PROVE pipe[j].pkg < p
          OBVIOUS
        <5>1. pipe[j].pkg \in {0} \cup Pkg
          BY Hashes DEF Command
        <5>2. CASE pipe[j].pkg = 0
          BY <1>1, <1>5, <5>2
        <5>3. CASE pipe[j].pkg # 0
          <6>1. pipe[j].pkg <= Len(pkg)
            BY <1>3, <5>3 DEF PipeNew, Newest
          <6>2. pipe[j].pkg \in Nat
            BY <5>1, SocketAssumption DEF Pkg
          <6> QED
            BY <1>1, <1>5, <6>1, <6>2
        <5> QED
          BY <5>2, <5>3
      <4>3. p <= Len(pkg') /\ pkg'[p] = [id |-> r.id, low |-> r.c = "P"]
        BY <1>5, <1>6
      <4>4. /\ \A x \in Id : \A q \in ToSet(wire[x]) : q < p
            /\ \A k \in Slot : \A q \in Queued(slot[k]) : q < p
        BY <1>8, <1>9
      <4>5. \A j \in DOMAIN pipe' : j < i => pipe'[j].pkg < p
        BY <4>1, <4>2
      <4> QED
        BY <1>4, <1>6, <4>1, <4>3, <4>4, <4>5 DEF Newest, Queued
    <3> QED
      BY <3>2, <3>3
  <2> QED
    BY <2>2, <2>3
<1>12. WireSent'
  BY <1>4, <1>5, <1>8, <1>9 DEF WireSent
<1>13. LowsOK'
  <2> SUFFICES ASSUME NEW k \in Slot PROVE LowOK(slot[k].low, pkg')
    BY <1>4 DEF LowsOK
  <2>1. LowOK(slot[k].low, pkg)
    BY <1>3 DEF LowsOK
  <2>2. \A q \in ToSet(slot[k].low) : pkg'[q] = pkg[q]
    BY <1>5, <1>8 DEF Queued
  <2> QED
    BY <2>1, <2>2 DEF LowOK
<1>14. \A y \in Id : /\ Ahead(y)' = Ahead(y) /\ Behind(y)' = Behind(y)
                     /\ Ahead(y) \in Seq(Pkg) /\ Behind(y) \in Seq(Pkg)
                     /\ ToSet(Ahead(y)) \subseteq DOMAIN pkg /\ ToSet(Behind(y)) \subseteq DOMAIN pkg
  <2> SUFFICES ASSUME NEW y \in Id
               PROVE  /\ Ahead(y)' = Ahead(y) /\ Behind(y)' = Behind(y)
                      /\ Ahead(y) \in Seq(Pkg) /\ Behind(y) \in Seq(Pkg)
                      /\ ToSet(Ahead(y)) \subseteq DOMAIN pkg /\ ToSet(Behind(y)) \subseteq DOMAIN pkg
    OBVIOUS
  <2>1. Ahead(y)' = Ahead(y) /\ Behind(y)' = Behind(y)
    BY <1>4 DEF Ahead, Behind, Mine, Live
  <2>2. PICK k \in Slot : k = HASH_ID(y)
    BY <1>10
  <2>3. slot[k].high \in Seq(Pkg) /\ slot[k].low \in Seq(Pkg)
    BY <1>3 DEF SlotState
  <2>4. <<>> \in Seq(Pkg) /\ ToSet(<<>>) = {}
    BY DEF ToSet
  <2>5. ToSet(slot[k].high) \subseteq DOMAIN pkg /\ ToSet(slot[k].low) \subseteq DOMAIN pkg
    BY <1>8 DEF Queued
  <2>6. (Ahead(y) = slot[k].high \/ Ahead(y) = <<>>) /\ (Behind(y) = slot[k].low \/ Behind(y) = <<>>)
    BY <2>2 DEF Ahead, Behind
  <2> QED
    BY <2>1, <2>3, <2>4, <2>5, <2>6
<1>15. Streams'
  <2> SUFFICES ASSUME NEW y \in Id
               PROVE  Flow(wire'[y] \o Ahead(y)', Behind(y)', pkg', y \notin broken')
    BY DEF Streams
  <2>1. PICK v, h, l : v = wire[y] /\ h = Ahead(y) /\ l = Behind(y)
    OBVIOUS
  <2>2. /\ v \in Seq(Pkg) /\ h \in Seq(Pkg) /\ l \in Seq(Pkg)
        /\ ToSet(v) \subseteq DOMAIN pkg /\ ToSet(h) \subseteq DOMAIN pkg /\ ToSet(l) \subseteq DOMAIN pkg
    BY <1>3, <1>8, <1>14, <2>1
  <2>3. PICK u \in Seq(Pkg) : u = v \o h /\ ToSet(u) = ToSet(v) \cup ToSet(h)
    BY <2>2, Elements
  <2>4. Flow(u, l, pkg, y \notin broken)
    BY <1>3, <2>1, <2>3 DEF Streams
  <2>5. \A q \in ToSet(u) \cup ToSet(l) : pkg'[q] = pkg[q]
    BY <1>5, <2>2, <2>3
  <2>6. Flow(u, l, pkg', y \notin broken)
    BY <2>2, <2>4, <2>5, SameFlow
  <2> QED
    BY <1>4, <1>14, <2>1, <2>3, <2>6
<1>16. AllCarried'
  <2> SUFFICES ASSUME NEW q \in DOMAIN pkg', Accepted(q)'
               PROVE  q \in Carries(pkg[q].id)'
    BY DEF AllCarried
  <2>1. ASSUME NEW i \in DOMAIN pipe PROVE \E j \in DOMAIN pipe' : pipe'[j] = pipe[i]
    <3>1. CASE gone
      BY <1>4, <3>1
    <3>2. CASE ~ gone
      BY <1>3, <1>4, <1>7, <3>2, PushPipe
    <3> QED
      BY <3>1, <3>2
  <2>2. CASE q = p
    <3>1. CASE gone
      BY <1>4, <2>2, <3>1 DEF Accepted
    <3>2. CASE ~ gone
      <4>1. Len(pipe) + 1 \in DOMAIN pipe' /\ pipe'[Len(pipe) + 1] = r
        BY <1>3, <1>4, <1>7, <3>2, PushPipe
      <4> QED
        BY <1>6, <2>2, <4>1 DEF Accepted, InPipe
    <3> QED
      BY <3>1, <3>2
  <2>3. CASE q # p
    <3>1. q \in DOMAIN pkg
      BY <1>1, <1>5, <2>3
    <3>2. pkg'[q] = pkg[q] /\ pkg[q].id \in Id
      BY <1>3, <1>5, <3>1, PkgType
    <3>3. ~ InPipe(q)
      BY <2>1 DEF Accepted, InPipe
    <3>4. ~ Stray(q)
      BY <1>4 DEF Accepted, Stray, Queued
    <3>5. Accepted(q)
      BY <1>4, <3>2, <3>3, <3>4 DEF Accepted
    <3>6. q \in Carries(pkg[q].id)
      BY <1>3, <3>1, <3>5 DEF AllCarried
    <3>7. Carries(pkg[q].id)' = Carries(pkg[q].id)
      BY <1>4, <1>14, <3>2 DEF Carries
    <3> QED
      BY <3>2, <3>6, <3>7
  <2> QED
    BY <2>2, <2>3
<1> QED
  BY <1>4, <1>11, <1>12, <1>13, <1>15, <1>16 DEF WireInv

(* The queues are empty at first. *)
LEMMA WireInit ==
    ASSUME Init
    PROVE  WireInv
<1>1. SockInv
  BY SockInit
<1>2. DOMAIN pipe = {} /\ DOMAIN pkg = {}
  BY DEF Init
<1>3. \A x \in Id : wire[x] = <<>>
  BY DEF Init
<1>4. \A k \in Slot : ~ Live(slot[k]) /\ slot[k].low = <<>>
  BY DEF Init, Live
<1>5. LowOK(<<>>, pkg) /\ ToSet(<<>>) = {}
  BY DEF LowOK, Together, Complete, ToSet
<1>6. PipeNew /\ AllCarried
  BY <1>2 DEF PipeNew, AllCarried
<1>7. WireSent /\ LowsOK
  <2>1. LowsOK
    BY <1>4, <1>5 DEF LowsOK
  <2>2. WireSent
    BY <1>3, <1>5 DEF WireSent
  <2> QED
    BY <2>1, <2>2
<1>8. Streams
  <2> SUFFICES ASSUME NEW x \in Id PROVE Flow(wire[x] \o Ahead(x), Behind(x), pkg, x \notin broken)
    BY DEF Streams
  <2>1. HASH_ID(x) \in Slot
    BY <1>1, Hashes
  <2>2. Ahead(x) = <<>> /\ Behind(x) = <<>>
    BY <1>4, <2>1 DEF Ahead, Behind, Mine
  <2>3. wire[x] \o Ahead(x) = <<>>
    BY <1>3, <2>2
  <2>4. Flow(<<>>, <<>>, pkg, x \notin broken)
    BY <1>5 DEF Flow, Together, Complete, InOrder
  <2> QED
    BY <2>2, <2>3, <2>4
<1> QED
  BY <1>6, <1>7, <1>8 DEF WireInv, Init

(* Every step of the worker threads and of the socket thread keeps the streams. *)
LEMMA WireStep ==
    ASSUME SockInv, WireInv, [Next]_vars
    PROVE  WireInv'
<1>1. CASE UNCHANGED vars
  BY <1>1, PollWire
<1>2. CASE \E t \in Opener : ReserveLook(t) \/ ReserveCAS(t) \/ \E c \in Kinds : ReserveSet(t, c)
  BY <1>2, ReserveWire
<1>3. CASE \E id \in Id : \E c \in {"S", "K", "C"}, hard \in BOOLEAN : Ask(c, id, hard)
  BY <1>3, AskWire
<1>4. CASE \E id \in Id, low \in BOOLEAN : Send(id, low)
  BY <1>4, SubmitWire
<1>5. CASE SocketThread
  BY <1>5, CmdWire, PollWire, ConnectWire, AcceptWire, ForwardWire, WriteWire DEF SocketThread
<1> QED
  BY <1>1, <1>2, <1>3, <1>4, <1>5 DEF Next

(* What a socket carries is a stream, whole unless the id is broken. *)
THEOREM StreamInvariant == Spec => [](SockInv /\ WireInv)
<1>1. Init => SockInv /\ WireInv
  BY SockInit, WireInit
<1>2. SockInv /\ WireInv /\ [Next]_vars => SockInv' /\ WireInv'
  BY SockStep, WireStep
<1> QED
  BY <1>1, <1>2, PTL DEF Spec

(* The stream of an id is what was written and then what waits in the lists. *)
LEMMA WrittenStream ==
    ASSUME SockInv, WireInv, NEW x \in Id, NEW w, w = wire[x]
    PROVE  w \in Seq(Pkg) /\ Together(w) /\ InOrder(w, pkg)
<1>1. PICK k : k = HASH_ID(x)
  OBVIOUS
<1>2. w \in Seq(Pkg) /\ Flow(w, <<>>, pkg, FALSE)
  BY <1>1, SlotStream
<1> QED
  BY <1>2 DEF Flow

(* The peer of a socket reads whole packages, each once, those of one priority
   in the order they were sent, and send_buffer never finds the rest of a
   package at the head of the low list (the assertion on list_uncomplete).  *)
THEOREM StreamsAreWhole == Spec => []WireWhole
<1>1. SockInv /\ WireInv => WireWhole
  <2> SUFFICES ASSUME SockInv, WireInv PROVE WireWhole
    OBVIOUS
  <2>1. TypeOK /\ crashed # "uncomplete"
    BY DEF SockInv, TypeInv, WireInv
  <2>2. \A k \in Slot : ~ list_uncomplete(slot[k].low)
    BY LowWhole
  <2>3. ASSUME NEW x \in Id, NEW i \in DOMAIN wire[x], NEW j \in DOMAIN wire[x], i < j
        PROVE  LET w == wire[x] IN
               /\ w[i] = w[j] => j - i < Size /\ \A n \in i .. j : w[n] = w[i]
               /\ w[i] # w[j] /\ pkg[w[i]].low = pkg[w[j]].low => w[i] < w[j]
    <3>1. PICK w : w = wire[x]
      OBVIOUS
    <3>2. w \in Seq(Pkg) /\ Together(w) /\ InOrder(w, pkg)
      BY <3>1, WrittenStream
    <3>3. /\ w[i] = w[j] => j - i < Size /\ \A n \in i .. j : w[n] = w[i]
          /\ w[i] # w[j] /\ pkg[w[i]].low = pkg[w[j]].low => w[i] < w[j]
      BY <2>3, <3>1, <3>2 DEF Together, InOrder, Before
    <3> QED
      BY <3>1, <3>3
  <2> QED
    BY <2>1, <2>2, <2>3 DEF WireWhole
<1> QED
  BY <1>1, StreamInvariant, PTL

(* All the bytes of a package that begins in a whole stream are in it. *)
LEMMA AllBytes ==
    ASSUME NEW w \in Seq(Pkg), Together(w), Complete(w), NEW p \in ToSet(w)
    PROVE  Cardinality({i \in DOMAIN w : w[i] = p}) = Size
<1> DEFINE I == {i \in DOMAIN w : w[i] = p}
<1>1. Size \in Nat \ {0} /\ DOMAIN w = 1 .. Len(w) /\ Len(w) \in Nat
  BY SocketAssumption
<1>2. I # {} /\ I \subseteq Nat
  BY <1>1 DEF ToSet
<1>3. PICK a : a = Min(I)
  OBVIOUS
<1>4. a \in I /\ \A i \in I : a <= i
  <2> HIDE DEF I
  <2> QED
    BY <1>2, <1>3, LeastNumber
<1>5. a \in 1 .. Len(w) /\ a \in Nat /\ w[a] = p
  BY <1>1, <1>4
<1>6. PICK z : z = a + Size - 1
  OBVIOUS
<1>7. z \in DOMAIN w /\ w[z] = p
  <2>1. a = 1 \/ w[a - 1] # p
    <3> SUFFICES ASSUME a # 1, w[a - 1] = p PROVE FALSE
      OBVIOUS
    <3>1. a - 1 \in DOMAIN w /\ ~ (a <= a - 1)
      BY <1>1, <1>5
    <3> QED
      BY <1>4, <3>1
  <2> QED
    BY <1>4, <1>5, <1>6, <2>1 DEF Complete
<1>8. z \in Nat /\ a <= z /\ z - a = Size - 1
  BY <1>1, <1>5, <1>6
<1>9. ASSUME NEW i \in a .. z PROVE i \in I
  <2>1. i \in DOMAIN w
    BY <1>1, <1>5, <1>7, <1>8
  <2>2. CASE a = z
    BY <1>4, <1>5, <1>9, <2>2
  <2>3. CASE a # z
    <3>1. a < z /\ w[a] = w[z] /\ a \in DOMAIN w
      BY <1>4, <1>5, <1>7, <1>8, <2>3
    <3>2. \A n \in a .. z : w[n] = w[a]
      BY <1>7, <3>1 DEF Together
    <3> QED
      BY <1>5, <2>1, <3>2
  <2> QED
    BY <2>2, <2>3
<1>10. ASSUME NEW i \in I PROVE i \in a .. z
  <2>1. i \in DOMAIN w /\ w[i] = p /\ i \in Nat /\ a <= i
    BY <1>1, <1>4
  <2>2. CASE i = a
    BY <1>5, <1>8, <2>2
  <2>3. CASE i # a
    <3>1. a < i /\ w[a] = w[i] /\ a \in DOMAIN w
      BY <1>4, <1>5, <2>1, <2>3
    <3>2. i - a < Size
      BY <2>1, <3>1 DEF Together
    <3> QED
      BY <1>1, <1>5, <1>6, <2>1, <3>2
  <2> QED
    BY <2>2, <2>3
<1>11. I = a .. z
  <2> HIDE DEF I
  <2>1. a .. z \subseteq I /\ I \subseteq a .. z
    BY <1>9, <1>10
  <2> QED
    BY <2>1
<1>12. Cardinality(a .. z) = Size
  <2>1. Cardinality(a .. z) = IF a > z THEN 0 ELSE z - a + 1
    BY <1>5, <1>8, FS_Interval
  <2> QED
    BY <1>1, <1>5, <1>8, <2>1
<1> HIDE DEF I
<1> QED
  BY <1>11, <1>12 DEF I

(* When an id is reported closed and no error, end of file or shutdown broke it,
   everything the socket accepted for it has been written.                 *)
THEOREM ClosesAreOrderly == Spec => []OrderlyClose
<1>1. SockInv /\ WireInv => OrderlyClose
  <2> SUFFICES ASSUME SockInv, WireInv, NEW p \in DOMAIN pkg,
                      pkg[p].id \in told \ broken, p \notin refused, ~ InPipe(p), ~ Stray(p)
               PROVE  Cardinality({i \in DOMAIN wire[pkg[p].id] : wire[pkg[p].id][i] = p}) = Size
    BY DEF OrderlyClose
  <2>1. PICK x \in Id : x = pkg[p].id
    BY PkgType DEF SockInv, TypeInv
  <2>2. PICK k, w : k = HASH_ID(x) /\ w = wire[x]
    OBVIOUS
  <2>3. k \in Slot
    BY <2>2, Hashes
  <2>4. ~ Live(slot[k]) \/ slot[k].id # x
    BY <2>1, <2>3 DEF SockInv, IdInv, LiveOpen
  <2>5. w \in Seq(Pkg) /\ Together(w)
    BY <2>2, WrittenStream
  <2>6. Flow(w, <<>>, pkg, x \notin broken) /\ Carries(x) = ToSet(w)
    BY <2>2, <2>4, IdleStream
  <2>7. Complete(w)
    BY <2>1, <2>6 DEF Flow
  <2>8. p \in ToSet(w)
    <3>1. Accepted(p)
      BY DEF Accepted
    <3>2. p \in Carries(x)
      BY <2>1, <3>1 DEF WireInv, AllCarried
    <3> QED
      BY <2>6, <3>2
  <2>9. Cardinality({i \in DOMAIN w : w[i] = p}) = Size
    BY <2>5, <2>7, <2>8, AllBytes
  <2> QED
    BY <2>1, <2>2, <2>9
<1> QED
  BY <1>1, StreamInvariant, PTL
=============================================================================
