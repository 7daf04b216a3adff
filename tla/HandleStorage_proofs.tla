------------------------ MODULE HandleStorage_proofs -------------------------
(***************************************************************************)
(* The handle table of skynet_handle.c, for every number of contexts and   *)
(* launchers, every table size and every handle range.  The code doubles   *)
(* the table by the handles the contexts hold at that moment, and a        *)
(* context gets its handle only after skynet_handle_register has returned: *)
(* the table is right as long as no doubling comes in between.  That       *)
(* condition is Calm; it holds when one thread at a time launches, and     *)
(* under it the table finds every context, no handle is given out twice,   *)
(* the assertion of the rehash holds, and skynet_handle_retireall leaves   *)
(* nothing behind.                                                         *)
(***************************************************************************)
EXTENDS HandleStorage, WellFoundedInduction, TLAPS

(* No doubling of the table while a launcher has registered a context that
   does not know its handle yet.                                           *)
Calm == slot_size' # slot_size => \A t \in Launcher : reg[t] = NULL

Handles == 0 .. HANDLE_MASK
Turn == HANDLE_MASK + 1

-----------------------------------------------------------------------------
(* Arithmetic of the hash *)

(* Division by s is unique. *)
LEMMA ModUnique ==
    ASSUME NEW s \in Nat \ {0}, NEW k \in Nat, NEW r \in 0 .. s - 1
    PROVE  (s * k + r) % s = r
  BY SMTT(30)

(* Division by s exists. *)
LEMMA ModRange ==
    ASSUME NEW a \in Nat, NEW s \in Nat \ {0}
    PROVE  \E k \in Nat, r \in 0 .. s - 1 : a = s * k + r /\ a % s = r
<1>1. a % s \in 0 .. s - 1
  OBVIOUS
<1>2. a \div s \in Nat
  BY SMTT(30)
<1>3. a = s * (a \div s) + (a % s)
  BY SMTT(30)
<1> QED
  BY <1>1, <1>2, <1>3

(* What a handle hashes to in a table twice as long: the same slot, or the
   one as far into the new half.                                           *)
LEMMA ModHalf ==
    ASSUME NEW a \in Nat, NEW s \in Nat \ {0}
    PROVE  /\ a % s \in 0 .. s - 1
           /\ a % (2 * s) = a % s \/ a % (2 * s) = s + (a % s)
<1>1. PICK k \in Nat, r \in 0 .. 2 * s - 1 : a = (2 * s) * k + r /\ a % (2 * s) = r
  BY ModRange
<1>2. CASE r < s
  <2>1. a = s * (2 * k) + r /\ 2 * k \in Nat /\ r \in 0 .. s - 1
    BY <1>1, <1>2
  <2>2. a % s = r
    BY <2>1, ModUnique
  <2> QED
    BY <1>1, <2>1, <2>2
<1>3. CASE r >= s
  <2>1. a = s * (2 * k + 1) + (r - s) /\ 2 * k + 1 \in Nat /\ r - s \in 0 .. s - 1
    BY <1>1, <1>3
  <2>2. a % s = r - s
    BY <2>1, ModUnique
  <2> QED
    BY <1>1, <2>1, <2>2
<1> QED
  BY <1>2, <1>3

(* Numbers that start over at p, a multiple of s, keep their remainder by s. *)
LEMMA ModTurn ==
    ASSUME NEW s \in Nat \ {0}, NEW p \in Nat \ {0}, p % s = 0, NEW x \in 0 .. 2 * p - 1
    PROVE  /\ x % p \in 0 .. p - 1
           /\ x % p = IF x < p THEN x ELSE x - p
           /\ (x % p) % s = x % s
<1>1. x % p = IF x < p THEN x ELSE x - p
  <2>1. CASE x < p
    BY <2>1, SMTT(30)
  <2>2. CASE x >= p
    BY <2>2, SMTT(30)
  <2> QED
    BY <2>1, <2>2
<1>2. x % p \in 0 .. p - 1
  BY <1>1
<1>3. (x % p) % s = x % s
  <2>1. CASE x < p
    BY <1>1, <2>1
  <2>2. CASE x >= p
    <3>1. PICK j \in Nat, r \in 0 .. s - 1 : p = s * j + r /\ p % s = r
      BY ModRange
    <3>2. PICK k \in Nat, i \in 0 .. s - 1 : x - p = s * k + i /\ (x - p) % s = i
      <4>1. x - p \in Nat
        BY <2>2
      <4> QED
        BY <4>1, ModRange
    <3>3. x = s * (j + k) + i /\ j + k \in Nat
      BY <3>1, <3>2
    <3>4. x % s = i
      <4>1. (s * (j + k) + i) % s = i
        BY <3>3, ModUnique
      <4> QED
        BY <3>3, <4>1
    <3> QED
      BY <1>1, <2>2, <3>2, <3>4
  <2> QED
    BY <2>1, <2>2
<1> QED
  BY <1>1, <1>2, <1>3

(* s numbers in a row have every remainder by s. *)
LEMMA ModReach ==
    ASSUME NEW s \in Nat \ {0}, NEW b \in Nat, NEW r \in 0 .. s - 1
    PROVE  \E i \in 0 .. s - 1 : (i + b) % s = r
<1>1. PICK k \in Nat, a \in 0 .. s - 1 : b = s * k + a /\ b % s = a
  BY ModRange
<1>2. CASE r >= a
  <2>1. r - a \in 0 .. s - 1 /\ (r - a) + b = s * k + r
    BY <1>1, <1>2
  <2>2. ((r - a) + b) % s = r
    BY <2>1, ModUnique
  <2> QED
    BY <2>1, <2>2
<1>3. CASE r < a
  <2>1. (r - a) + s \in 0 .. s - 1 /\ ((r - a) + s) + b = s * (k + 1) + r /\ k + 1 \in Nat
    BY <1>1, <1>3
  <2>2. (((r - a) + s) + b) % s = r
    BY <2>1, ModUnique
  <2> QED
    BY <2>1, <2>2
<1> QED
  BY <1>2, <1>3

(* The sizes of the table divide the range of handles, and double. *)
LEMMA Sizes ==
    ASSUME NEW s \in PowersOfTwo, s <= Turn
    PROVE  /\ s \in Nat \ {0} /\ Turn \in Nat \ {0} /\ HANDLE_MASK \in Nat
           /\ Turn % s = 0
           /\ 2 * s <= Turn => 2 * s \in PowersOfTwo
<1>1. \A x, p \in PowersOfTwo : x <= p => p % x = 0
  BY SMTT(60) DEF PowersOfTwo
<1>2. \A x, p \in PowersOfTwo : x < p => 2 * x \in PowersOfTwo
  BY SMTT(60) DEF PowersOfTwo
<1>3. PowersOfTwo \subseteq Nat \ {0}
  BY DEF PowersOfTwo
<1>4. Turn \in PowersOfTwo
  BY SizeAssumption DEF Turn
<1>5. HANDLE_MASK \in Nat
  BY SizeAssumption
<1>6. ASSUME 2 * s <= Turn PROVE 2 * s \in PowersOfTwo
  <2>1. s < Turn
    BY <1>3, <1>4, <1>6
  <2> QED
    BY <1>2, <1>4, <2>1
<1>7. Turn % s = 0
  BY <1>1, <1>4
<1> QED
  BY <1>3, <1>4, <1>5, <1>6, <1>7

(* A nonempty set of numbers has a least one. *)
LEMMA Least ==
    ASSUME NEW S \in SUBSET Nat, S # {}
    PROVE  \E m \in S : \A n \in S : m <= n
<1>1. PICK m \in S : \A n \in S : ~ (<<n, m>> \in OpToRel(<, Nat))
  BY WFMin, NatLessThanWellFounded
<1>2. ASSUME NEW n \in S PROVE m <= n
  <2>1. n \in Nat /\ m \in Nat
    OBVIOUS
  <2>2. <<n, m>> \notin OpToRel(<, Nat)
    BY <1>1
  <2>3. ~ (n < m)
    BY <2>1, <2>2 DEF OpToRel
  <2> QED
    BY <2>1, <2>3
<1> QED
  BY <1>2

-----------------------------------------------------------------------------
(* The inductive invariant *)

(* c was given the handle h, whether it knows it yet or not. *)
Held(c, h) ==
    \/ \E t \in Launcher : reg[t] = c /\ val[t] = h
    \/ ~ Registering(c) /\ life[c] # "none" /\ handle[c] = h

(* A launcher has a context of its own, in the table; it does not know its
   handle yet, no more than a context that is still to be registered.      *)
Registrations ==
    /\ \A t, u \in Launcher : reg[t] = reg[u] /\ reg[t] # NULL => t = u
    /\ \A c \in Ctx : Registering(c) => life[c] = "table"
    /\ \A c \in Ctx : Registering(c) \/ life[c] = "none" => handle[c] = 0

(* sl is the right table of the given size: a context is in the slot its
   handle hashes to, and nothing else is in the table.                     *)
PlacedIn(sl, size) ==
    /\ \A i \in 0 .. size - 1 : sl[i] # NULL =>
        life[sl[i]] = "table" /\ \E h \in Handles : Held(sl[i], h) /\ Hash(h, size) = i
    /\ \A c \in Ctx, h \in Handles :
        Held(c, h) /\ life[c] = "table" => sl[Hash(h, size)] = c

(* Handles are given out in increasing order until they start over. *)
Unused ==
    ~ wrapped =>
        /\ \A c \in Ctx, h \in Handles : Held(c, h) => h < handle_index
        /\ \A c, d \in Ctx, h \in Handles : Held(c, h) /\ Held(d, h) => c = d

(* What a pass of retireall that has retired nothing has yet to meet. *)
Swept ==
    pass # NULL /\ retired = 0 =>
        \A c \in Ctx : life[c] = "table" =>
            \/ c \in fresh \/ Registering(c) \/ handle[c] = 0 \/ found = handle[c]
            \/ Hash(handle[c], slot_size) >= pass

TableInv ==
    /\ TypeOK /\ ~ failed /\ slot_size \in PowersOfTwo
    /\ Registrations /\ PlacedIn(slot, slot_size) /\ Unused

HandleInv == TableInv /\ Swept

(* A size is a divisor of the handle range, and a hash is a slot. *)
LEMMA SizeNow ==
    ASSUME TypeOK, slot_size \in PowersOfTwo
    PROVE  /\ slot_size \in Nat \ {0} /\ slot_size <= Turn /\ HANDLE_MASK \in Nat
           /\ \A h \in Handles : Hash(h, slot_size) \in 0 .. slot_size - 1
<1>1. slot_size <= Turn /\ slot_size \in Nat \ {0}
  BY DEF TypeOK, Turn, PowersOfTwo
<1>2. HANDLE_MASK \in Nat
  BY <1>1, Sizes
<1> QED
  BY <1>1, <1>2 DEF Hash, Handles

(* The search of skynet_handle_register reaches every slot. *)
LEMMA TryReaches ==
    ASSUME TypeOK, NEW size \in PowersOfTwo, size <= Turn
    PROVE  /\ \A i \in 0 .. size - 1 : Try(i) \in Handles /\ Hash(Try(i), size) \in 0 .. size - 1
           /\ \A r \in 0 .. size - 1 : \E i \in 0 .. size - 1 : Hash(Try(i), size) = r
<1>1. size \in Nat \ {0} /\ Turn \in Nat \ {0} /\ Turn % size = 0 /\ HANDLE_MASK \in Nat
  BY Sizes
<1>2. ASSUME NEW i \in 0 .. size - 1
      PROVE  Try(i) \in Handles /\ Hash(Try(i), size) = (i + handle_index) % size
  <2>1. i + handle_index \in 0 .. 2 * Turn - 1
    BY <1>1 DEF TypeOK, Turn
  <2>2. Try(i) = (i + handle_index) % Turn
    BY DEF Try, Turn
  <2> DEFINE x == i + handle_index
  <2>3. x \in 0 .. 2 * Turn - 1
    BY <2>1
  <2> HIDE DEF x
  <2>4. x % Turn \in 0 .. Turn - 1 /\ (x % Turn) % size = x % size
    BY <1>1, <2>3, ModTurn
  <2>5. 0 .. Turn - 1 = Handles
    BY <1>1 DEF Turn, Handles
  <2> QED
    BY <2>2, <2>4, <2>5 DEF Hash, x
<1>3. \A h \in Handles : Hash(h, size) \in 0 .. size - 1
  BY <1>1 DEF Hash, Handles
<1>4. handle_index \in Nat
  BY <1>1 DEF TypeOK
<1>5. ASSUME NEW r \in 0 .. size - 1 PROVE \E i \in 0 .. size - 1 : Hash(Try(i), size) = r
  <2>1. PICK i \in 0 .. size - 1 : (i + handle_index) % size = r
    <3>1. \A b \in Nat : \E i \in 0 .. size - 1 : (i + b) % size = r
      <4>1. size \in Nat \ {0}
        BY <1>1
      <4> QED
        BY <4>1, ModReach
    <3> QED
      BY <1>4, <3>1
  <2> QED
    BY <1>2, <2>1
<1> QED
  BY <1>2, <1>3, <1>5

(* It finds a free slot when there is one, and takes it. *)
LEMMA SearchFinds ==
    ASSUME TypeOK, NEW size \in PowersOfTwo, size <= Turn, NEW sl
    PROVE  FreeTries(sl, size) = {} <=> \A r \in 0 .. size - 1 : sl[r] # NULL
<1>1. /\ \A i \in 0 .. size - 1 : Hash(Try(i), size) \in 0 .. size - 1
      /\ \A r \in 0 .. size - 1 : \E i \in 0 .. size - 1 : Hash(Try(i), size) = r
  BY TryReaches
<1> QED
  BY <1>1 DEF FreeTries

(* What TakeSlot does with the handle v it finds. *)
Takes(v, t, c, sl, size) ==
    /\ sl[Hash(v, size)] = NULL
    /\ slot' = [sl EXCEPT ![Hash(v, size)] = c]
    /\ slot_size' = size
    /\ val' = [val EXCEPT ![t] = v]
    /\ handle_index' = v + 1
    /\ wrapped' = (wrapped \/ v < handle_index)

(* The first free try is one. *)
LEMMA SearchTakes ==
    ASSUME TypeOK, NEW size \in PowersOfTwo, size <= Turn, NEW sl, NEW t, NEW c,
           FreeTries(sl, size) # {}, TakeSlot(t, c, sl, size)
    PROVE  \E v \in Handles : Takes(v, t, c, sl, size)
<1>1. size \in Nat
  BY Sizes
<1>2. FreeTries(sl, size) \in SUBSET Nat
  BY <1>1 DEF FreeTries
<1>3. \E m \in FreeTries(sl, size) : \A n \in FreeTries(sl, size) : m <= n
  BY <1>2, Least
<1> DEFINE i == CHOOSE i \in FreeTries(sl, size) : \A j \in FreeTries(sl, size) : i <= j
<1>4. i \in FreeTries(sl, size)
  BY <1>3
<1>5. i \in 0 .. size - 1 /\ sl[Hash(Try(i), size)] = NULL
  BY <1>4 DEF FreeTries
<1>6. /\ slot' = [sl EXCEPT ![Hash(Try(i), size)] = c]
      /\ slot_size' = size
      /\ val' = [val EXCEPT ![t] = Try(i)]
      /\ handle_index' = Try(i) + 1
      /\ wrapped' = (wrapped \/ Try(i) < handle_index)
  BY DEF TakeSlot
<1> HIDE DEF i
<1>7. Try(i) \in Handles
  BY <1>5, TryReaches
<1> QED
  BY <1>5, <1>6, <1>7 DEF Takes

-----------------------------------------------------------------------------
(* The table *)

(* skynet_handle_init: an empty table. *)
LEMMA HandleInit == Init => HandleInv
<1> SUFFICES ASSUME Init PROVE HandleInv
  OBVIOUS
<1>1. /\ HANDLE_MASK \in Nat /\ DEFAULT_SLOT_SIZE \in Nat \ {0}
      /\ DEFAULT_SLOT_SIZE \in PowersOfTwo /\ DEFAULT_SLOT_SIZE <= HANDLE_MASK
      /\ NULL \notin Ctx
  BY SizeAssumption DEF PowersOfTwo
<1>2. TypeOK
  <2>1. /\ slot_size \in DEFAULT_SLOT_SIZE .. HANDLE_MASK + 1
        /\ handle_index \in 1 .. HANDLE_MASK + 1
        /\ 0 \in 0 .. HANDLE_MASK
    BY <1>1 DEF Init
  <2>2. wrapped \in BOOLEAN /\ failed \in BOOLEAN
    BY Zenon DEF Init
  <2> QED
    BY <2>1, <2>2 DEF Init, TypeOK
<1>3. \A c \in Ctx : ~ Registering(c)
  BY <1>1 DEF Init, Registering
<1>4. \A c \in Ctx : life[c] = "none"
  BY DEF Init
<1>5. \A c \in Ctx, h \in Handles : ~ Held(c, h)
  BY <1>3, <1>4 DEF Held, Registering
<1>6. Registrations
  BY <1>3 DEF Init, Registrations
<1>7. PlacedIn(slot, slot_size)
  BY <1>4, <1>5 DEF Init, PlacedIn
<1>8. Unused
  BY <1>5 DEF Unused
<1>9. Swept
  BY DEF Init, Swept
<1> QED
  BY <1>1, <1>2, <1>6, <1>7, <1>8, <1>9 DEF Init, HandleInv, TableInv

(* Doubling a full table whose contexts all know their handles: no two of
   them meet, each is found again, and there is room.                      *)
LEMMA RehashPlaces ==
    ASSUME TableInv, FreeTries(slot, slot_size) = {}, \A t \in Launcher : reg[t] = NULL,
           2 * slot_size - 1 <= HANDLE_MASK
    PROVE  /\ 2 * slot_size \in PowersOfTwo /\ 2 * slot_size <= Turn
           /\ ~ Collision(slot_size)
           /\ Rehash(slot_size) \in [0 .. 2 * slot_size - 1 -> Ctx \cup {NULL}]
           /\ PlacedIn(Rehash(slot_size), 2 * slot_size)
           /\ FreeTries(Rehash(slot_size), 2 * slot_size) # {}
<1> DEFINE s == slot_size
           g(i) == Hash(handle[slot[i]], 2 * s)
           R == Rehash(slot_size)
<1>1. /\ TypeOK /\ s \in PowersOfTwo /\ PlacedIn(slot, s)
      /\ s \in Nat \ {0} /\ s <= Turn /\ HANDLE_MASK \in Nat
      /\ \A h \in Handles : Hash(h, s) \in 0 .. s - 1
  BY SizeNow DEF TableInv
<1>2. 2 * s <= Turn /\ 2 * s \in PowersOfTwo
  <2>1. 2 * s <= Turn
    BY <1>1 DEF Turn
  <2> QED
    BY <1>1, <2>1, Sizes
<1>3. \A c \in Ctx : ~ Registering(c)
  BY SizeAssumption DEF Registering
<1>4. \A i \in 0 .. s - 1 : slot[i] # NULL
  BY <1>1, SearchFinds
<1>5. ASSUME NEW i \in 0 .. s - 1
      PROVE  /\ slot[i] \in Ctx /\ life[slot[i]] = "table"
             /\ handle[slot[i]] \in Handles /\ Hash(handle[slot[i]], s) = i
             /\ Held(slot[i], handle[slot[i]])
  <2>1. slot[i] \in Ctx
    BY <1>1, <1>4 DEF TypeOK
  <2>2. life[slot[i]] = "table" /\ \E h \in Handles : Held(slot[i], h) /\ Hash(h, s) = i
    BY <1>1, <1>4 DEF PlacedIn
  <2>3. \A h \in Handles : Held(slot[i], h) => handle[slot[i]] = h
    BY <1>3, <2>1 DEF Held, Registering
  <2> QED
    BY <2>1, <2>2, <2>3
<1>6. ASSUME NEW i \in 0 .. s - 1
      PROVE  g(i) \in {i, s + i}
  <2>1. handle[slot[i]] \in Nat
    BY <1>1, <1>5 DEF Handles
  <2>2. \A a \in Nat, z \in Nat \ {0} : a % (2 * z) = a % z \/ a % (2 * z) = z + (a % z)
    BY ModHalf
  <2> QED
    BY <1>1, <1>5, <2>1, <2>2 DEF Hash
<1> HIDE DEF g
<1>7. \A i, j \in 0 .. s - 1 : g(i) = g(j) => i = j
  BY <1>1, <1>6
<1>8. ~ Collision(s)
  BY <1>7 DEF Collision, g
<1>9. R = [h \in 0 .. 2 * s - 1 |->
            LET there == {i \in 0 .. s - 1 : g(i) = h}
            IN IF there = {} THEN NULL ELSE slot[CHOOSE i \in there : TRUE]]
  BY DEF Rehash, g
<1> HIDE DEF R
<1>10. ASSUME NEW h \in 0 .. 2 * s - 1, R[h] # NULL
       PROVE  \E i \in 0 .. s - 1 : g(i) = h /\ R[h] = slot[i]
  <2> DEFINE there == {i \in 0 .. s - 1 : g(i) = h}
  <2>1. R[h] = IF there = {} THEN NULL ELSE slot[CHOOSE i \in there : TRUE]
    BY <1>9
  <2>2. there # {} /\ R[h] = slot[CHOOSE i \in there : TRUE]
    BY <1>10, <2>1
  <2>3. (CHOOSE i \in there : TRUE) \in there
    BY <2>2
  <2> QED
    BY <2>2, <2>3
<1>11. ASSUME NEW i \in 0 .. s - 1
       PROVE  g(i) \in 0 .. 2 * s - 1 /\ R[g(i)] = slot[i]
  <2>1. g(i) \in 0 .. 2 * s - 1
    BY <1>1, <1>6
  <2> DEFINE there == {j \in 0 .. s - 1 : g(j) = g(i)}
  <2>2. there = {i}
    BY <1>7
  <2>3. R[g(i)] = IF there = {} THEN NULL ELSE slot[CHOOSE j \in there : TRUE]
    BY <1>9, <2>1
  <2>4. (CHOOSE j \in there : TRUE) = i
    BY <2>2
  <2> QED
    BY <2>1, <2>2, <2>3, <2>4
<1>12. R \in [0 .. 2 * s - 1 -> Ctx \cup {NULL}]
  <2>1. R = [h \in 0 .. 2 * s - 1 |-> R[h]]
    BY <1>9
  <2>2. \A h \in 0 .. 2 * s - 1 : R[h] \in Ctx \cup {NULL}
    BY <1>5, <1>10
  <2> QED
    BY <2>1, <2>2
<1>13. PlacedIn(R, 2 * s)
  <2>1. ASSUME NEW i \in 0 .. 2 * s - 1, R[i] # NULL
        PROVE  life[R[i]] = "table"
               /\ \E h \in Handles : Held(R[i], h) /\ Hash(h, 2 * s) = i
    <3>1. PICK j \in 0 .. s - 1 : g(j) = i /\ R[i] = slot[j]
      BY <1>10, <2>1
    <3> QED
      BY <1>5, <3>1 DEF g
  <2>2. ASSUME NEW c \in Ctx, NEW h \in Handles, Held(c, h), life[c] = "table"
        PROVE  R[Hash(h, 2 * s)] = c
    <3>1. handle[c] = h
      BY <1>3, <2>2 DEF Held, Registering
    <3>2. slot[Hash(h, s)] = c /\ Hash(h, s) \in 0 .. s - 1
      BY <1>1, <2>2 DEF PlacedIn
    <3> QED
      BY <1>11, <3>1, <3>2 DEF g
  <2> QED
    BY <2>1, <2>2 DEF PlacedIn
<1>14. FreeTries(R, 2 * s) # {}
  <2>1. ASSUME \A r \in 0 .. 2 * s - 1 : R[r] # NULL PROVE FALSE
    <3>1. 0 \in 0 .. 2 * s - 1 /\ s \in 0 .. 2 * s - 1
      BY <1>1
    <3>2. PICK i \in 0 .. s - 1 : g(i) = 0
      BY <1>10, <2>1, <3>1
    <3>3. PICK j \in 0 .. s - 1 : g(j) = s
      BY <1>10, <2>1, <3>1
    <3>4. g(i) \in {i, s + i} /\ g(j) \in {j, s + j}
      BY <1>6
    <3>5. i = 0 /\ j = 0
      BY <1>1, <3>2, <3>3, <3>4
    <3> QED
      BY <1>1, <3>2, <3>3, <3>5
  <2> QED
    BY <1>1, <1>2, <2>1, SearchFinds
<1> QED
  BY <1>2, <1>8, <1>12, <1>13, <1>14 DEF R

(* A launcher that is not registering yet gives a new context the handle v,
   in a table that is right and has the slot of v free.                    *)
LEMMA RegisterPlaces ==
    ASSUME TypeOK, Registrations, Unused,
           NEW size \in PowersOfTwo, DEFAULT_SLOT_SIZE <= size, size <= Turn,
           NEW sl \in [0 .. size - 1 -> Ctx \cup {NULL}], PlacedIn(sl, size),
           NEW t \in Launcher, NEW c \in Ctx, NEW v \in Handles,
           reg[t] = NULL, life[c] = "none", Takes(v, t, c, sl, size),
           reg' = [reg EXCEPT ![t] = c], life' = [life EXCEPT ![c] = "table"],
           failed' = FALSE, UNCHANGED <<handle, nameVars, passVars, fresh>>
    PROVE  /\ TypeOK' /\ Registrations' /\ PlacedIn(slot, slot_size)' /\ Unused'
           /\ \A d \in Ctx : Registering(d)' <=> Registering(d) \/ d = c
<1>1. /\ size \in Nat \ {0} /\ HANDLE_MASK \in Nat /\ DEFAULT_SLOT_SIZE \in Nat
      /\ \A h \in Handles : Hash(h, size) \in 0 .. size - 1
  <2>1. size \in Nat \ {0} /\ HANDLE_MASK \in Nat
    BY Sizes
  <2> QED
    BY <2>1, SizeAssumption DEF Hash, Handles, PowersOfTwo
<1>2. /\ slot' = [sl EXCEPT ![Hash(v, size)] = c] /\ slot_size' = size
      /\ val' = [val EXCEPT ![t] = v] /\ handle_index' = v + 1
      /\ sl[Hash(v, size)] = NULL
  BY DEF Takes
<1>3. TypeOK'
  <2>1. slot_size' \in (DEFAULT_SLOT_SIZE .. HANDLE_MASK + 1)
    BY <1>1, <1>2 DEF Turn
  <2>2. slot' \in [0 .. slot_size' - 1 -> Ctx \cup {NULL}]
    BY <1>1, <1>2
  <2>3. handle_index' \in 1 .. HANDLE_MASK + 1
    BY <1>1, <1>2 DEF Handles
  <2>4. life' \in [Ctx -> {"none", "table", "retired"}]
    BY DEF TypeOK
  <2>5. reg' \in [Launcher -> Ctx \cup {NULL}] /\ val' \in [Launcher -> 0 .. HANDLE_MASK]
    BY <1>2 DEF TypeOK, Handles
  <2>6. wrapped' \in BOOLEAN /\ failed' \in BOOLEAN
    BY Zenon DEF Takes
  <2> QED
    BY <2>1, <2>2, <2>3, <2>4, <2>5, <2>6 DEF TypeOK, passVars
<1>4. /\ ~ Registering(c) /\ NULL \notin Ctx
      /\ \A u \in Launcher : u # t => reg'[u] = reg[u] /\ val'[u] = val[u]
      /\ reg'[t] = c /\ val'[t] = v
  BY <1>2, SizeAssumption DEF Registrations, TypeOK
<1>5. \A d \in Ctx : Registering(d)' <=> Registering(d) \/ d = c
  BY <1>4 DEF Registering
<1>6. \A d \in Ctx : life'[d] = IF d = c THEN "table" ELSE life[d]
  BY DEF TypeOK
<1>7. Registrations'
  <2>1. \A u, w \in Launcher : reg'[u] = reg'[w] /\ reg'[u] # NULL => u = w
    BY <1>4 DEF Registrations, Registering
  <2>2. \A d \in Ctx : Registering(d)' => life'[d] = "table"
    BY <1>5, <1>6 DEF Registrations
  <2>3. \A d \in Ctx : Registering(d)' \/ life'[d] = "none" => handle'[d] = 0
    BY <1>5, <1>6 DEF Registrations
  <2> QED
    BY <2>1, <2>2, <2>3 DEF Registrations
<1>8. \A d \in Ctx, h \in Handles : Held(d, h)' <=> Held(d, h) \/ (d = c /\ h = v)
  <2> SUFFICES ASSUME NEW d \in Ctx, NEW h \in Handles
               PROVE  Held(d, h)' <=> Held(d, h) \/ (d = c /\ h = v)
    OBVIOUS
  <2>1. Held(d, h)' <=> \/ \E u \in Launcher : reg'[u] = d /\ val'[u] = h
                        \/ ~ Registering(d)' /\ life'[d] # "none" /\ handle[d] = h
    BY DEF Held
  <2>2. CASE d = c
    <3>1. ~ Held(c, h)
      BY <1>4 DEF Held, Registering
    <3>2. \A u \in Launcher : reg'[u] = c => u = t
      BY <1>4 DEF Registering
    <3> QED
      BY <1>4, <1>5, <2>1, <2>2, <3>1, <3>2
  <2>3. CASE d # c
    <3>1. (\E u \in Launcher : reg'[u] = d /\ val'[u] = h)
            <=> (\E u \in Launcher : reg[u] = d /\ val[u] = h)
      BY <1>4, <2>3
    <3>2. (Registering(d)' <=> Registering(d)) /\ life'[d] = life[d]
      BY <1>5, <1>6, <2>3
    <3> QED
      BY <2>1, <2>3, <3>1, <3>2 DEF Held
  <2> QED
    BY <2>2, <2>3
<1>9. \A h \in Handles : ~ Held(c, h)
  BY <1>4 DEF Held, Registering
<1>10. PlacedIn(slot, slot_size)'
  <2>1. ASSUME NEW i \in 0 .. size - 1, slot'[i] # NULL
        PROVE  /\ life'[slot'[i]] = "table"
               /\ \E h \in Handles : Held(slot[i], h)' /\ Hash(h, size) = i
    <3>1. CASE i = Hash(v, size)
      <4>1. slot'[i] = c
        BY <1>1, <1>2, <3>1
      <4>2. Held(c, v)'
        BY <1>8
      <4> QED
        BY <1>6, <3>1, <4>1, <4>2 DEF Held, Registering
    <3>2. CASE i # Hash(v, size)
      <4>1. slot'[i] = sl[i] /\ sl[i] \in Ctx
        BY <1>2, <2>1, <3>2
      <4>2. life[sl[i]] = "table" /\ \E h \in Handles : Held(sl[i], h) /\ Hash(h, size) = i
        BY <2>1, <4>1 DEF PlacedIn
      <4>3. life'[sl[i]] = "table"
        BY <1>6, <4>1, <4>2
      <4>4. PICK h \in Handles : Held(sl[i], h)' /\ Hash(h, size) = i
        BY <1>8, <4>1, <4>2
      <4>5. Held(slot[i], h)'
        BY <4>1, <4>4 DEF Held, Registering
      <4> QED
        BY <4>1, <4>3, <4>4, <4>5
    <3> QED
      BY <3>1, <3>2
  <2>2. ASSUME NEW d \in Ctx, NEW h \in Handles, Held(d, h)', life'[d] = "table"
        PROVE  slot'[Hash(h, size)] = d
    <3>1. CASE d = c /\ h = v
      BY <1>1, <1>2, <3>1
    <3>2. CASE ~ (d = c /\ h = v)
      <4>1. Held(d, h) /\ d # c /\ life[d] = "table"
        BY <1>6, <1>8, <1>9, <2>2, <3>2
      <4>2. sl[Hash(h, size)] = d
        BY <4>1 DEF PlacedIn
      <4>3. Hash(h, size) # Hash(v, size)
        BY <1>2, <1>4, <4>2
      <4> QED
        BY <1>1, <1>2, <4>2, <4>3
    <3> QED
      BY <3>1, <3>2
  <2> QED
    BY <1>2, <2>1, <2>2 DEF PlacedIn
<1>11. Unused'
  <2> SUFFICES ASSUME ~ wrapped'
               PROVE  /\ \A d \in Ctx, h \in Handles : Held(d, h)' => h < v + 1
                      /\ \A d, e \in Ctx, h \in Handles :
                            Held(d, h)' /\ Held(e, h)' => d = e
    BY <1>2 DEF Unused
  <2>1. ~ wrapped /\ handle_index <= v
    <3>1. ~ wrapped /\ ~ (v < handle_index)
      BY Zenon DEF Takes
    <3>2. v \in Int /\ handle_index \in Int
      BY <1>1 DEF Handles, TypeOK
    <3> QED
      BY <3>1, <3>2
  <2>2. /\ \A d \in Ctx, h \in Handles : Held(d, h) => h < handle_index
        /\ \A d, e \in Ctx, h \in Handles : Held(d, h) /\ Held(e, h) => d = e
    BY <2>1 DEF Unused
  <2>3. handle_index \in Int /\ Handles \subseteq Int
    BY <1>1 DEF Handles, TypeOK
  <2>4. \A d \in Ctx, h \in Handles : Held(d, h)' => h < v + 1
    BY <1>8, <2>1, <2>2, <2>3
  <2>5. \A d \in Ctx, h \in Handles : Held(d, h) => h # v
    BY <2>1, <2>2, <2>3
  <2>6. \A d, e \in Ctx, h \in Handles : Held(d, h)' /\ Held(e, h)' => d = e
    BY <1>8, <2>2, <2>5
  <2> QED
    BY <2>4, <2>6
<1> QED
  BY <1>3, <1>5, <1>7, <1>10, <1>11

(* skynet_handle_register. *)
LEMMA RegisterStep ==
    ASSUME HandleInv, NEW t \in Launcher, NEW c \in Ctx, Register(t, c), Calm
    PROVE  HandleInv'
<1>1. /\ TypeOK /\ ~ failed /\ slot_size \in PowersOfTwo
      /\ Registrations /\ PlacedIn(slot, slot_size) /\ Unused /\ Swept /\ TableInv
  BY DEF HandleInv, TableInv
<1>2. /\ reg[t] = NULL /\ life[c] = "none"
      /\ reg' = [reg EXCEPT ![t] = c] /\ life' = [life EXCEPT ![c] = "table"]
      /\ UNCHANGED <<handle, nameVars, passVars, fresh>>
  BY DEF Register
<1>3. /\ slot_size \in Nat \ {0} /\ slot_size <= Turn /\ HANDLE_MASK \in Nat
      /\ DEFAULT_SLOT_SIZE \in Nat /\ DEFAULT_SLOT_SIZE <= slot_size
  BY <1>1, SizeNow, SizeAssumption DEF TypeOK, PowersOfTwo
<1>4. /\ slot_size' = slot_size \/ slot_size' = 2 * slot_size
      /\ slot_size' \in PowersOfTwo /\ ~ failed'
      /\ TypeOK' /\ Registrations' /\ PlacedIn(slot, slot_size)' /\ Unused'
      /\ \A d \in Ctx : Registering(d)' <=> Registering(d) \/ d = c
  <2>1. CASE FreeTries(slot, slot_size) # {}
    <3>1. TakeSlot(t, c, slot, slot_size) /\ failed' = failed
      BY <2>1 DEF Register
    <3>2. PICK v \in Handles : Takes(v, t, c, slot, slot_size)
      BY <1>1, <1>3, <2>1, <3>1, SearchTakes
    <3>3. slot \in [0 .. slot_size - 1 -> Ctx \cup {NULL}] /\ failed' = FALSE
      BY <1>1, <3>1 DEF TypeOK
    <3>4. /\ TypeOK' /\ Registrations' /\ PlacedIn(slot, slot_size)' /\ Unused'
          /\ \A d \in Ctx : Registering(d)' <=> Registering(d) \/ d = c
      BY <1>1, <1>2, <1>3, <3>2, <3>3, RegisterPlaces
    <3>5. slot_size' = slot_size
      BY <3>2 DEF Takes
    <3> QED
      BY <1>1, <3>1, <3>4, <3>5
  <2>2. CASE FreeTries(slot, slot_size) = {}
    <3>1. /\ 2 * slot_size - 1 <= HANDLE_MASK /\ failed' = Collision(slot_size)
          /\ TakeSlot(t, c, Rehash(slot_size), 2 * slot_size)
      BY <2>2 DEF Register
    <3>2. slot_size' = 2 * slot_size
      BY <3>1 DEF TakeSlot
    <3>3. \A u \in Launcher : reg[u] = NULL
      BY <1>3, <3>2 DEF Calm
    <3>4. /\ 2 * slot_size \in PowersOfTwo /\ 2 * slot_size <= Turn
          /\ ~ Collision(slot_size)
          /\ Rehash(slot_size) \in [0 .. 2 * slot_size - 1 -> Ctx \cup {NULL}]
          /\ PlacedIn(Rehash(slot_size), 2 * slot_size)
          /\ FreeTries(Rehash(slot_size), 2 * slot_size) # {}
      BY <1>1, <2>2, <3>1, <3>3, RehashPlaces
    <3>5. PICK v \in Handles : Takes(v, t, c, Rehash(slot_size), 2 * slot_size)
      BY <1>1, <3>1, <3>4, SearchTakes
    <3>6. DEFAULT_SLOT_SIZE <= 2 * slot_size
      BY <1>3
    <3>7. failed' = FALSE
      BY <3>1, <3>4 DEF Collision
    <3>8. /\ TypeOK' /\ Registrations' /\ PlacedIn(slot, slot_size)' /\ Unused'
          /\ \A d \in Ctx : Registering(d)' <=> Registering(d) \/ d = c
      <4>1. PICK size \in PowersOfTwo : size = 2 * slot_size
        BY <3>4
      <4>2. PICK sl \in [0 .. size - 1 -> Ctx \cup {NULL}] : sl = Rehash(slot_size)
        BY <3>4, <4>1
      <4>3. /\ DEFAULT_SLOT_SIZE <= size /\ size <= Turn
            /\ PlacedIn(sl, size) /\ Takes(v, t, c, sl, size)
        BY <3>4, <3>5, <3>6, <4>1, <4>2
      <4> QED
        BY <1>1, <1>2, <3>7, <4>3, RegisterPlaces
    <3> QED
      BY <3>2, <3>4, <3>7, <3>8
  <2> QED
    BY <2>1, <2>2
<1>5. Swept'
  <2> SUFFICES ASSUME pass # NULL, retired = 0,
                      NEW d \in Ctx, life'[d] = "table", ~ Registering(d)',
                      d \notin fresh, handle[d] # 0, found # handle[d]
               PROVE  Hash(handle[d], slot_size') >= pass
    BY <1>2 DEF Swept, passVars
  <2>1. d # c /\ ~ Registering(d) /\ life[d] = "table"
    BY <1>1, <1>2, <1>4 DEF TypeOK
  <2>2. Hash(handle[d], slot_size) >= pass
    BY <1>1, <2>1 DEF Swept
  <2>3. handle[d] \in Nat /\ pass \in Nat
    BY <1>1, <1>3 DEF TypeOK
  <2>4. /\ handle[d] % slot_size \in Nat
        /\ handle[d] % (2 * slot_size) = handle[d] % slot_size
            \/ handle[d] % (2 * slot_size) = slot_size + (handle[d] % slot_size)
    <3>1. \A a \in Nat, z \in Nat \ {0} :
            /\ a % z \in Nat
            /\ a % (2 * z) = a % z \/ a % (2 * z) = z + (a % z)
      <4> SUFFICES ASSUME NEW a \in Nat, NEW z \in Nat \ {0}
                   PROVE  /\ a % z \in Nat
                          /\ a % (2 * z) = a % z \/ a % (2 * z) = z + (a % z)
        OBVIOUS
      <4>1. /\ a % z \in 0 .. z - 1
            /\ a % (2 * z) = a % z \/ a % (2 * z) = z + (a % z)
        BY ModHalf
      <4> QED
        BY <4>1
    <3> QED
      BY <1>3, <2>3, <3>1, Zenon
  <2> QED
    BY <1>3, <1>4, <2>2, <2>3, <2>4 DEF Hash
<1> QED
  BY <1>4, <1>5 DEF HandleInv, TableInv

(* The context learns its handle: what it holds is what it was given. *)
LEMMA AssignStep ==
    ASSUME HandleInv, NEW t \in Launcher, Assign(t)
    PROVE  HandleInv'
<1>1. /\ TypeOK /\ ~ failed /\ slot_size \in PowersOfTwo
      /\ Registrations /\ PlacedIn(slot, slot_size) /\ Unused /\ Swept
  BY DEF HandleInv, TableInv
<1> DEFINE c == reg[t]
<1>2. /\ c \in Ctx /\ handle' = [handle EXCEPT ![c] = val[t]]
      /\ reg' = [reg EXCEPT ![t] = NULL] /\ val' = [val EXCEPT ![t] = 0]
      /\ fresh' = IF pass = NULL THEN {} ELSE fresh \cup {c}
      /\ UNCHANGED <<slot_size, slot, handle_index, life, passVars, wrapped, failed>>
  BY <1>1 DEF Assign, TypeOK
<1>3. HANDLE_MASK \in Nat /\ NULL \notin Ctx
  BY SizeAssumption
<1>4. TypeOK'
  <2>1. handle' \in [Ctx -> 0 .. HANDLE_MASK]
    BY <1>1, <1>2 DEF TypeOK
  <2>2. reg' \in [Launcher -> Ctx \cup {NULL}] /\ val' \in [Launcher -> 0 .. HANDLE_MASK]
    BY <1>1, <1>2, <1>3 DEF TypeOK
  <2>3. fresh' \subseteq Ctx
    BY <1>1, <1>2 DEF TypeOK
  <2> QED
    BY <1>1, <1>2, <2>1, <2>2, <2>3 DEF TypeOK, passVars
<1>5. /\ \A u \in Launcher : u # t => reg[u] # c /\ reg'[u] = reg[u] /\ val'[u] = val[u]
      /\ reg'[t] = NULL /\ reg[t] = c
      /\ handle'[c] = val[t] /\ \A d \in Ctx : d # c => handle'[d] = handle[d]
  BY <1>1, <1>2, <1>3 DEF TypeOK, Registrations
<1> HIDE DEF c
<1>6. \A d \in Ctx : Registering(d)' <=> Registering(d) /\ d # c
  BY <1>2, <1>3, <1>5 DEF Registering
<1>7. Registering(c) /\ life[c] = "table"
  BY <1>1, <1>2, <1>5 DEF Registering, Registrations
<1>8. Registrations'
  <2>1. \A u, w \in Launcher : reg'[u] = reg'[w] /\ reg'[u] # NULL => u = w
    BY <1>1, <1>5 DEF Registrations
  <2>2. \A d \in Ctx : Registering(d)' => life'[d] = "table"
    BY <1>1, <1>2, <1>6 DEF Registrations
  <2>3. \A d \in Ctx : Registering(d)' \/ life'[d] = "none" => handle'[d] = 0
    BY <1>1, <1>2, <1>5, <1>6, <1>7 DEF Registrations
  <2> QED
    BY <2>1, <2>2, <2>3 DEF Registrations
<1>9. \A d \in Ctx, h \in Handles : Held(d, h)' <=> Held(d, h)
  <2> SUFFICES ASSUME NEW d \in Ctx, NEW h \in Handles PROVE Held(d, h)' <=> Held(d, h)
    OBVIOUS
  <2>1. Held(d, h)' <=> \/ \E u \in Launcher : reg'[u] = d /\ val'[u] = h
                        \/ ~ Registering(d)' /\ life[d] # "none" /\ handle'[d] = h
    BY <1>2 DEF Held
  <2>2. CASE d = c
    <3>1. Held(c, h) <=> val[t] = h
      BY <1>5, <1>7 DEF Held
    <3>2. Held(d, h)' <=> handle'[c] = h
      BY <2>2, <2>1, <1>2, <1>3, <1>5, <1>6, <1>7
    <3> QED
      BY <1>5, <2>2, <3>1, <3>2
  <2>3. CASE d # c
    <3>1. (\E u \in Launcher : reg'[u] = d /\ val'[u] = h)
            <=> (\E u \in Launcher : reg[u] = d /\ val[u] = h)
      BY <1>3, <1>5, <2>3
    <3> QED
      BY <1>5, <1>6, <2>1, <2>3, <3>1 DEF Held
  <2> QED
    BY <2>2, <2>3
<1>10. PlacedIn(slot, slot_size)'
  <2>1. ASSUME NEW i \in 0 .. slot_size - 1, slot[i] # NULL
        PROVE  life[slot[i]] = "table"
               /\ \E h \in Handles : Held(slot[i], h)' /\ Hash(h, slot_size) = i
    <3>1. slot[i] \in Ctx
      BY <1>1, <2>1 DEF TypeOK
    <3>2. life[slot[i]] = "table"
      BY <1>1, <2>1 DEF PlacedIn
    <3>3. PICK h \in Handles : Held(slot[i], h) /\ Hash(h, slot_size) = i
      BY <1>1, <2>1 DEF PlacedIn
    <3>4. PICK d \in Ctx : d = slot[i]
      BY <3>1
    <3>5. Held(d, h)'
      BY <1>9, <3>3, <3>4
    <3>6. slot'[i] = d
      BY <1>2, <3>4
    <3>7. Held(slot[i], h)'
      BY <3>5, <3>6 DEF Held, Registering
    <3> QED
      BY <3>2, <3>3, <3>7
  <2>2. \A d \in Ctx, h \in Handles :
            Held(d, h)' /\ life[d] = "table" => slot[Hash(h, slot_size)] = d
    BY <1>1, <1>9 DEF PlacedIn
  <2> QED
    BY <1>2, <2>1, <2>2 DEF PlacedIn
<1>11. Unused'
  BY <1>1, <1>2, <1>9 DEF Unused
<1>12. Swept'
  BY <1>1, <1>2, <1>5, <1>6 DEF Swept, passVars
<1> QED
  BY <1>1, <1>2, <1>4, <1>8, <1>10, <1>11, <1>12 DEF HandleInv, TableInv

(* skynet_handle_retire: the context of a handle goes, and nothing else. *)
LEMMA TakeOutPlaces ==
    ASSUME TableInv, NEW h \in Handles, h # 0, TakeOut(h),
           UNCHANGED <<slot_size, handle_index, handle, regVars>>
    PROVE  /\ slot' \in [0 .. slot_size - 1 -> Ctx \cup {NULL}]
           /\ life' \in [Ctx -> {"none", "table", "retired"}]
           /\ Registrations' /\ PlacedIn(slot, slot_size)' /\ Unused'
           /\ \A d \in Ctx : /\ Registering(d)' <=> Registering(d)
                             /\ life'[d] = "table" => life[d] = "table"
<1>1. /\ TypeOK /\ slot_size \in PowersOfTwo
      /\ Registrations /\ PlacedIn(slot, slot_size) /\ Unused
  BY DEF TableInv
<1>2. /\ slot_size \in Nat \ {0} /\ HANDLE_MASK \in Nat
      /\ \A k \in Handles : Hash(k, slot_size) \in 0 .. slot_size - 1
  BY <1>1, SizeNow
<1>3. UNCHANGED <<slot_size, handle_index, handle, reg, val, wrapped>>
  BY DEF regVars
<1>4. \A d \in Ctx : Registering(d)' <=> Registering(d)
  BY <1>3 DEF Registering
<1>5. CASE Lookup(h) = NULL
  <2>1. UNCHANGED <<slot, life>>
    BY <1>5 DEF TakeOut
  <2> QED
    BY <1>1, <1>3, <1>4, <2>1
       DEF TypeOK, Registrations, PlacedIn, Unused, Held, Registering
<1>6. CASE Lookup(h) # NULL
  <2> DEFINE c == Lookup(h)
  <2>1. c \in Ctx /\ slot[Hash(h, slot_size)] = c /\ handle[c] = h
    BY <1>1, <1>2, <1>6 DEF Lookup, TypeOK
  <2>2. /\ slot' = [slot EXCEPT ![Hash(h, slot_size)] = NULL]
        /\ life' = [life EXCEPT ![c] = "retired"]
    BY <1>6 DEF TakeOut
  <2>3. NULL \notin Ctx
    BY SizeAssumption
  <2> HIDE DEF c
  <2>4. ~ Registering(c) /\ life[c] = "table"
    <3>1. ~ Registering(c)
      BY <1>1, <2>1 DEF Registrations
    <3>2. Hash(h, slot_size) \in 0 .. slot_size - 1
      BY <1>2
    <3> QED
      BY <1>1, <2>1, <2>3, <3>1, <3>2 DEF PlacedIn
  <2>5. \A d \in Ctx : life'[d] = IF d = c THEN "retired" ELSE life[d]
    BY <1>1, <2>2 DEF TypeOK
  <2>6. /\ slot' \in [0 .. slot_size - 1 -> Ctx \cup {NULL}]
        /\ life' \in [Ctx -> {"none", "table", "retired"}]
    BY <1>1, <2>2 DEF TypeOK
  <2>7. Registrations'
    <3>1. \A d \in Ctx : Registering(d)' => life'[d] = "table"
      BY <1>1, <1>4, <2>4, <2>5 DEF Registrations
    <3>2. \A d \in Ctx : Registering(d)' \/ life'[d] = "none" => handle'[d] = 0
      BY <1>1, <1>3, <1>4, <2>5 DEF Registrations
    <3> QED
      BY <1>1, <1>3, <3>1, <3>2 DEF Registrations
  <2>8. \A d \in Ctx, k \in Handles : Held(d, k)' <=> Held(d, k)
    BY <1>3, <1>4, <2>4, <2>5 DEF Held
  <2>9. PlacedIn(slot, slot_size)'
    <3>1. ASSUME NEW i \in 0 .. slot_size - 1, slot'[i] # NULL
          PROVE  /\ life'[slot'[i]] = "table"
                 /\ \E k \in Handles : Held(slot[i], k)' /\ Hash(k, slot_size) = i
      <4>1. i # Hash(h, slot_size) /\ slot'[i] = slot[i]
        BY <1>1, <2>2, <3>1 DEF TypeOK
      <4>2. PICK d \in Ctx : d = slot[i]
        BY <1>1, <3>1, <4>1 DEF TypeOK
      <4>3. life[d] = "table"
        BY <1>1, <3>1, <4>1, <4>2 DEF PlacedIn
      <4>4. PICK k \in Handles : Held(d, k) /\ Hash(k, slot_size) = i
        BY <1>1, <3>1, <4>1, <4>2 DEF PlacedIn
      <4>5. d # c
        BY <2>1, <2>4, <4>1, <4>4 DEF Held, Registering
      <4>6. Held(d, k)'
        BY <2>8, <4>4
      <4>7. Held(slot[i], k)'
        BY <4>1, <4>2, <4>6 DEF Held, Registering
      <4> QED
        BY <2>5, <4>1, <4>2, <4>3, <4>4, <4>5, <4>7
    <3>2. ASSUME NEW d \in Ctx, NEW k \in Handles, Held(d, k)', life'[d] = "table"
          PROVE  slot'[Hash(k, slot_size)] = d
      <4>1. d # c /\ life[d] = "table" /\ Held(d, k)
        BY <2>5, <2>8, <3>2
      <4>2. slot[Hash(k, slot_size)] = d
        BY <1>1, <4>1 DEF PlacedIn
      <4>3. Hash(k, slot_size) # Hash(h, slot_size)
        BY <2>1, <4>1, <4>2
      <4> QED
        BY <1>1, <1>2, <2>2, <4>2, <4>3 DEF TypeOK
    <3> QED
      BY <1>3, <3>1, <3>2 DEF PlacedIn
  <2>10. Unused'
    BY <1>1, <1>3, <2>8 DEF Unused
  <2>11. \A d \in Ctx : life'[d] = "table" => life[d] = "table"
    BY <2>5
  <2> QED
    BY <1>4, <2>6, <2>7, <2>9, <2>10, <2>11
<1> QED
  BY <1>5, <1>6

(* A context in the table that knows its handle is found under it. *)
LEMMA Found ==
    ASSUME TableInv, NEW c \in Ctx, life[c] = "table", ~ Registering(c)
    PROVE  Lookup(handle[c]) = c /\ slot[Hash(handle[c], slot_size)] = c
<1>1. handle[c] \in Handles /\ Held(c, handle[c])
  BY DEF TableInv, TypeOK, Held, Handles
<1>2. slot[Hash(handle[c], slot_size)] = c
  BY <1>1 DEF TableInv, PlacedIn
<1> QED
  BY <1>2, SizeAssumption DEF Lookup

(* What the table's invariant speaks of is left alone. *)
LEMMA SameTable ==
    ASSUME TableInv, UNCHANGED <<tableVars, regVars>>,
           pass' \in 0 .. HANDLE_MASK + 1 \cup {NULL}, found' \in 0 .. HANDLE_MASK,
           retired' \in Nat, fresh' \subseteq Ctx
    PROVE  TableInv' /\ \A d \in Ctx : Registering(d)' <=> Registering(d)
<1>1. /\ UNCHANGED <<slot_size, slot, handle_index, handle, life>>
      /\ UNCHANGED <<reg, val, wrapped, failed>>
  BY DEF tableVars, regVars
<1>2. TypeOK'
  BY <1>1 DEF TableInv, TypeOK
<1>3. \A d \in Ctx : Registering(d)' <=> Registering(d)
  BY <1>1 DEF Registering
<1>4. Registrations' /\ PlacedIn(slot, slot_size)' /\ Unused'
  BY <1>1 DEF TableInv, Registrations, PlacedIn, Unused, Held, Registering
<1> QED
  BY <1>1, <1>2, <1>3, <1>4 DEF TableInv

(* skynet_handle_retire by the service or its launcher. *)
LEMMA RetireStep ==
    ASSUME HandleInv, NEW h \in Known, Retire(h)
    PROVE  HandleInv'
<1>1. TableInv /\ TypeOK /\ ~ failed /\ Swept
  BY DEF HandleInv, TableInv
<1>2. h \in Handles /\ h # 0
  BY <1>1 DEF Known, TypeOK, Handles
<1>3. /\ TakeOut(h) /\ UNCHANGED <<slot_size, handle_index, handle, regVars>>
      /\ UNCHANGED <<pass, found, retired, fresh, wrapped, failed, reg, val>>
  BY DEF Retire, passVars, regVars
<1>4. /\ slot' \in [0 .. slot_size - 1 -> Ctx \cup {NULL}]
      /\ life' \in [Ctx -> {"none", "table", "retired"}]
      /\ Registrations' /\ PlacedIn(slot, slot_size)' /\ Unused'
      /\ \A d \in Ctx : /\ Registering(d)' <=> Registering(d)
                        /\ life'[d] = "table" => life[d] = "table"
  BY <1>1, <1>2, <1>3, TakeOutPlaces
<1>5. TypeOK'
  BY <1>1, <1>3, <1>4 DEF TypeOK
<1>6. Swept'
  BY <1>1, <1>3, <1>4 DEF Swept
<1> QED
  BY <1>1, <1>3, <1>4, <1>5, <1>6 DEF HandleInv, TableInv

(* skynet_handle_retireall begins, or begins again: everything is ahead. *)
LEMMA PassBegins ==
    ASSUME HandleInv, RetireAll \/ RetireAllAgain
    PROVE  HandleInv'
<1>1. TableInv /\ TypeOK /\ HANDLE_MASK \in Nat
  BY SizeAssumption DEF HandleInv, TableInv
<1>2. /\ UNCHANGED <<tableVars, regVars>> /\ pass' \in {0, NULL}
      /\ found' = 0 /\ retired' = 0 /\ fresh' = {}
  BY DEF RetireAll, RetireAllAgain
<1>3. TableInv' /\ \A d \in Ctx : Registering(d)' <=> Registering(d)
  BY <1>1, <1>2, SameTable
<1>4. Swept'
  <2>1. \A d \in Ctx : Hash(handle'[d], slot_size') >= 0
    <3>1. slot_size \in PowersOfTwo
      BY <1>1 DEF TableInv
    <3>2. \A h \in Handles : Hash(h, slot_size) >= 0
      <4>1. slot_size \in Nat \ {0} /\ \A h \in Handles : Hash(h, slot_size) \in 0 .. slot_size - 1
        BY <1>1, <3>1, SizeNow
      <4> QED
        BY <4>1
    <3>3. \A d \in Ctx : handle[d] \in Handles
      BY <1>1 DEF TypeOK, Handles
    <3>4. UNCHANGED <<handle, slot_size>>
      BY <1>2 DEF tableVars
    <3> QED
      BY <3>2, <3>3, <3>4
  <2> QED
    BY <1>2, <2>1 DEF Swept
<1> QED
  BY <1>3, <1>4 DEF HandleInv

(* retireall reads the handle in a slot: the one context that hashes there
   is the one it has found.                                                *)
LEMMA ReadStep ==
    ASSUME HandleInv, RetireAllRead
    PROVE  HandleInv'
<1>1. TableInv /\ TypeOK /\ Swept /\ slot_size \in PowersOfTwo
  BY DEF HandleInv, TableInv
<1>2. /\ slot_size \in Nat \ {0} /\ slot_size <= HANDLE_MASK + 1 /\ HANDLE_MASK \in Nat
      /\ \A h \in Handles : Hash(h, slot_size) \in 0 .. slot_size - 1
  BY <1>1, SizeNow DEF Turn
<1>3. /\ pass # NULL /\ found = 0 /\ pass < slot_size /\ pass' = pass + 1
      /\ found' = IF slot[pass] = NULL THEN 0 ELSE handle[slot[pass]]
      /\ UNCHANGED <<tableVars, regVars>> /\ UNCHANGED <<retired, fresh>>
  BY DEF RetireAllRead
<1>4. pass \in 0 .. slot_size - 1
  BY <1>1, <1>2, <1>3 DEF TypeOK
<1>5. pass' \in 0 .. HANDLE_MASK + 1
  BY <1>2, <1>3, <1>4
<1>6. found' \in 0 .. HANDLE_MASK
  BY <1>1, <1>2, <1>3, <1>4 DEF TypeOK
<1>7. TableInv' /\ \A d \in Ctx : Registering(d)' <=> Registering(d)
  BY <1>1, <1>3, <1>5, <1>6, SameTable DEF TypeOK
<1>8. Swept'
  <2> SUFFICES ASSUME retired = 0, NEW d \in Ctx, life[d] = "table", d \notin fresh,
                      ~ Registering(d), handle[d] # 0, found' # handle[d]
               PROVE  Hash(handle[d], slot_size) >= pass'
    BY <1>3, <1>7 DEF Swept, tableVars
  <2>1. Hash(handle[d], slot_size) >= pass
    BY <1>1, <1>3 DEF Swept
  <2>2. slot[Hash(handle[d], slot_size)] = d /\ d # NULL
    BY <1>1, Found, SizeAssumption
  <2>3. Hash(handle[d], slot_size) # pass
    BY <1>3, <2>2
  <2>4. Hash(handle[d], slot_size) \in 0 .. slot_size - 1
    BY <1>1, <1>2 DEF TypeOK, Handles
  <2> QED
    BY <1>2, <1>3, <1>4, <2>1, <2>3, <2>4
<1> QED
  BY <1>7, <1>8 DEF HandleInv

(* It retires what it read: a pass that finds nobody under that handle any
   more has nobody left to meet there.                                     *)
LEMMA RetireAllStep ==
    ASSUME HandleInv, RetireAllRetire
    PROVE  HandleInv'
<1>1. TableInv /\ TypeOK /\ ~ failed /\ Swept /\ HANDLE_MASK \in Nat
  BY SizeAssumption DEF HandleInv, TableInv
<1>2. /\ TakeOut(found) /\ UNCHANGED <<slot_size, handle_index, handle, regVars>>
      /\ retired' = IF Lookup(found) # NULL THEN retired + 1 ELSE retired
      /\ found # 0 /\ found' = 0
      /\ UNCHANGED <<pass, fresh, wrapped, failed, reg, val>>
  BY DEF RetireAllRetire, regVars
<1>3. found \in Handles
  BY <1>1 DEF TypeOK, Handles
<1>4. /\ slot' \in [0 .. slot_size - 1 -> Ctx \cup {NULL}]
      /\ life' \in [Ctx -> {"none", "table", "retired"}]
      /\ Registrations' /\ PlacedIn(slot, slot_size)' /\ Unused'
      /\ \A d \in Ctx : /\ Registering(d)' <=> Registering(d)
                        /\ life'[d] = "table" => life[d] = "table"
  BY <1>1, <1>2, <1>3, TakeOutPlaces
<1>5. retired' \in Nat /\ found' \in 0 .. HANDLE_MASK
  BY <1>1, <1>2 DEF TypeOK
<1>6. TypeOK'
  BY <1>1, <1>2, <1>4, <1>5 DEF TypeOK
<1>7. Swept'
  <2>1. CASE Lookup(found) # NULL
    <3>1. retired' # 0
      BY <1>1, <1>2, <2>1 DEF TypeOK
    <3> QED
      BY <3>1 DEF Swept
  <2>2. CASE Lookup(found) = NULL
    <3>1. \A d \in Ctx : life[d] = "table" /\ ~ Registering(d) => found # handle[d]
      BY <1>1, <2>2, Found, SizeAssumption
    <3> QED
      BY <1>1, <1>2, <1>4, <2>2, <3>1 DEF Swept
  <2> QED
    BY <2>1, <2>2
<1> QED
  BY <1>1, <1>2, <1>4, <1>6, <1>7 DEF HandleInv, TableInv

(* Nothing of the table changes: naming a handle, or stuttering. *)
LEMMA NameStep ==
    ASSUME HandleInv, UNCHANGED <<tableVars, regVars, passVars, fresh>>
    PROVE  HandleInv'
<1>1. TableInv /\ TypeOK /\ Swept
  BY DEF HandleInv, TableInv
<1>2. UNCHANGED <<pass, found, retired, fresh>>
  BY DEF passVars
<1>3. TableInv' /\ \A d \in Ctx : Registering(d)' <=> Registering(d)
  BY <1>1, <1>2, SameTable DEF TypeOK
<1>4. Swept'
  BY <1>1, <1>2, <1>3 DEF Swept, tableVars
<1> QED
  BY <1>3, <1>4 DEF HandleInv

(* Every step keeps the invariant, if no doubling comes between a
   registration and its handle.                                            *)
LEMMA HandleStep == HandleInv /\ [Next]_vars /\ [Calm]_vars => HandleInv'
<1> SUFFICES ASSUME HandleInv, [Next]_vars, [Calm]_vars PROVE HandleInv'
  OBVIOUS
<1>1. CASE UNCHANGED vars
  BY <1>1, NameStep DEF vars
<1>2. CASE Next /\ Calm
  <2>1. ASSUME NEW t \in Launcher, NEW c \in Ctx, Register(t, c) PROVE HandleInv'
    BY <1>2, <2>1, RegisterStep
  <2>2. ASSUME NEW t \in Launcher, Assign(t) PROVE HandleInv'
    BY <2>2, AssignStep
  <2>3. ASSUME NEW h \in Known, Retire(h) PROVE HandleInv'
    BY <2>3, RetireStep
  <2>4. ASSUME NEW h \in Known, NEW n \in Name, NameHandle(h, n) PROVE HandleInv'
    <3>1. UNCHANGED <<tableVars, regVars, passVars, fresh>>
      BY <2>4 DEF NameHandle
    <3> QED
      BY <3>1, NameStep
  <2>5. CASE RetireAll \/ RetireAllAgain
    BY <2>5, PassBegins
  <2>6. CASE RetireAllRead
    BY <2>6, ReadStep
  <2>7. CASE RetireAllRetire
    BY <2>7, RetireAllStep
  <2> QED
    BY <1>2, <2>1, <2>2, <2>3, <2>4, <2>5, <2>6, <2>7 DEF Next
<1> QED
  BY <1>1, <1>2

-----------------------------------------------------------------------------
(* Theorems *)

(* The invariant of skynet_handle.c when the table is never doubled between
   a registration and its handle.                                          *)
THEOREM TableInvariant == Spec /\ [][Calm]_vars => []HandleInv
  BY HandleInit, HandleStep, PTL DEF Spec

(* skynet_handle_grab finds every context of the table under its handle,
   through any number of doublings, retirements and launches.              *)
THEOREM HandlesFindable == Spec /\ [][Calm]_vars => []Findable
<1>1. HandleInv => Findable
  BY Found DEF HandleInv, TableInv, Findable
<1> QED
  BY <1>1, TableInvariant, PTL

(* skynet_handle_register never gives out a handle that is in use, nor, until
   the numbers start over, one that ever was.                              *)
THEOREM HandlesUnique == Spec /\ [][Calm]_vars => []UniqueHandle
<1>1. HandleInv => UniqueHandle
  <2> SUFFICES ASSUME HandleInv, NEW c \in Ctx, NEW d \in Ctx, c # d,
                      life[c] # "none", life[d] # "none",
                      ~ Registering(c), ~ Registering(d),
                      wrapped => life[c] = "table" /\ life[d] = "table",
                      handle[c] = handle[d]
               PROVE  FALSE
    BY DEF UniqueHandle
  <2>1. TableInv /\ TypeOK /\ Unused
    BY DEF HandleInv, TableInv
  <2>2. CASE wrapped
    BY <2>1, <2>2, Found
  <2>3. CASE ~ wrapped
    <3>1. handle[c] \in Handles /\ Held(c, handle[c]) /\ Held(d, handle[c])
      BY <2>1 DEF TypeOK, Handles, Held
    <3> QED
      BY <2>1, <2>3, <3>1 DEF Unused
  <2> QED
    BY <2>2, <2>3
<1> QED
  BY <1>1, TableInvariant, PTL

(* The assertion of skynet_handle_register on rehashing, new_slot[hash] ==
   NULL, fails only when a doubling meets a context without its handle.    *)
THEOREM RehashIsSafe == Spec /\ [][Calm]_vars => []RehashAssertion
<1>1. HandleInv => RehashAssertion
  BY DEF HandleInv, TableInv, RehashAssertion
<1> QED
  BY <1>1, TableInvariant, PTL

(* When skynet_handle_retireall returns, only contexts that came in during
   its last pass, or that hold handle 0, are left.                         *)
THEOREM RetireAllLeavesNothing == Spec /\ [][Calm]_vars => RetireAllComplete
<1> DEFINE Left ==
        pass # NULL /\ pass' = NULL =>
            \A c \in Ctx : life[c] = "table" =>
                c \in fresh \/ Registering(c) \/ handle[c] = 0
<1>1. ASSUME HandleInv, [Next]_vars PROVE [Left]_vars
  <2> SUFFICES ASSUME Next, pass # NULL, pass' = NULL, NEW c \in Ctx, life[c] = "table",
                      c \notin fresh, ~ Registering(c), handle[c] # 0
               PROVE  FALSE
    BY <1>1
  <2>1. TypeOK /\ Swept /\ slot_size \in PowersOfTwo /\ HANDLE_MASK \in Nat
    BY <1>1, SizeAssumption DEF HandleInv, TableInv
  <2>2. pass \in Nat /\ 0 # NULL /\ \A n \in Nat : n # NULL
    BY <2>1, SizeAssumption DEF TypeOK
  <2>3. CASE RetireAllAgain
    <3>1. retired = 0 /\ found = 0 /\ pass >= slot_size
      BY <2>2, <2>3 DEF RetireAllAgain
    <3>2. Hash(handle[c], slot_size) >= pass
      BY <2>1, <3>1 DEF Swept
    <3>3. Hash(handle[c], slot_size) \in 0 .. slot_size - 1 /\ slot_size \in Nat
      BY <2>1, SizeNow DEF TypeOK, Handles
    <3> QED
      BY <2>2, <3>1, <3>2, <3>3
  <2>4. CASE RetireAllRead
    BY <2>2, <2>4 DEF RetireAllRead
  <2>5. CASE ~ RetireAllAgain /\ ~ RetireAllRead
    BY <2>5 DEF Next, Register, Assign, Retire, NameHandle, RetireAll, RetireAllRetire, passVars
  <2> QED
    BY <2>3, <2>4, <2>5
<1>2. RetireAllComplete <=> [][Left]_vars
  BY DEF RetireAllComplete
<1> HIDE DEF Left
<1> QED
  BY <1>1, <1>2, TableInvariant, PTL DEF Spec

(* One launcher at a time never doubles the table in between: the four
   results above hold of it without a condition.                           *)
THEOREM OneLauncherIsCalm ==
    ASSUME \A t, u \in Launcher : t = u
    PROVE  Spec => [][Calm]_vars
<1>1. ASSUME Next PROVE Calm
  <2>1. ASSUME NEW t \in Launcher, NEW c \in Ctx, Register(t, c) PROVE Calm
    BY <2>1 DEF Register, Calm
  <2>2. ASSUME ~ \E t \in Launcher, c \in Ctx : Register(t, c) PROVE slot_size' = slot_size
    BY <1>1, <2>2 DEF Next, Assign, Retire, NameHandle, RetireAll, RetireAllRead,
                      RetireAllRetire, RetireAllAgain, tableVars
  <2> QED
    BY <2>1, <2>2 DEF Calm
<1> QED
  BY <1>1, PTL DEF Spec

(* The handle table behind one launching thread is right, whatever the sizes
   and however many services come and go.                                  *)
COROLLARY OneLauncher ==
    ASSUME \A t, u \in Launcher : t = u
    PROVE  Spec => []Findable /\ []UniqueHandle /\ []RehashAssertion /\ RetireAllComplete
  BY OneLauncherIsCalm, HandlesFindable, HandlesUnique, RehashIsSafe,
     RetireAllLeavesNothing, PTL
=============================================================================
