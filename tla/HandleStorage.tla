---------------------------- MODULE HandleStorage ----------------------------
(***************************************************************************)
(* The handle table of skynet_handle.c: an array of contexts indexed by    *)
(* the low bits of the handle, doubled when it is full, and the sorted     *)
(* list of local names.                                                    *)
(*                                                                         *)
(* Every operation is one critical section of the table's lock.  What is   *)
(* outside it is a step of its own: skynet_context_new stores the handle   *)
(* in the context (Assign) only after skynet_handle_register has returned, *)
(* and until then ctx->handle is 0; skynet_handle_retireall reads a handle *)
(* under one lock and retires it under another.                            *)
(* The harbor number in the top bits of a handle is the same for the whole *)
(* table and left out.                                                     *)
(***************************************************************************)
EXTENDS Integers, Sequences, FiniteSets

CONSTANTS
    Ctx,                \* contexts; each is registered at most once
    Launcher,           \* threads that run skynet_context_new
    HANDLE_MASK,        \* 0xffffff in the code
    DEFAULT_SLOT_SIZE,  \* 4 in the code
    Name,               \* local names, ordered as strcmp orders them
    NULL

(* The sizes a table can have: a handle has 24 bits below the harbor's. *)
PowersOfTwo ==
    {1, 2, 4, 8, 16, 32, 64, 128, 256,
     512, 1024, 2048, 4096, 8192, 16384, 32768, 65536,
     131072, 262144, 524288, 1048576, 2097152, 4194304, 8388608, 16777216}

ASSUME SizeAssumption ==
    /\ HANDLE_MASK \in Nat
    /\ HANDLE_MASK + 1 \in PowersOfTwo /\ DEFAULT_SLOT_SIZE \in PowersOfTwo
    /\ DEFAULT_SLOT_SIZE <= HANDLE_MASK
    /\ Name \subseteq Nat
    /\ NULL \notin Ctx /\ NULL \notin Nat

VARIABLES
    slot_size, slot,    \* the table
    handle_index,       \* where the search for a free handle starts
    handle,             \* ctx->handle, 0 before it is assigned
    life,               \* whether a context is new, in the table or retired
    reg, val,           \* what a launcher registered, and the handle it got
    name,               \* the sorted array of [name, handle]
    late,               \* names given to a handle that was not in the table
    pass,               \* retireall: next slot to visit, or NULL
    found,              \* retireall: the handle it read, 0 when none
    retired,            \* retireall: n, how many this pass retired
    fresh,              \* contexts that got their handle during this pass
    wrapped,            \* whether the handle numbers have started over
    failed              \* an assertion of skynet_handle_register failed

tableVars == <<slot_size, slot, handle_index, handle, life>>
regVars   == <<reg, val, wrapped, failed>>
passVars  == <<pass, found, retired>>
nameVars  == <<name, late>>
vars == <<tableVars, regVars, nameVars, passVars, fresh>>

Hash(h, size) == h % size

(* Deliberately wrong variants (TakeSlotKeepIndex,
   TakeSlotOverwriting, PurgeNothing, RetireAllAgainEarly): replacing the
   operator by its variant must break a property.                          *)

(* The handles skynet_handle_register tries, in order. *)
Try(i) == (i + handle_index) % (HANDLE_MASK + 1)

FreeTries(sl, size) == {i \in 0 .. size - 1 : sl[Hash(Try(i), size)] = NULL}

(* The doubled table: every context moves to the slot its ctx->handle, as it
   is now, hashes to.                                                      *)
Rehash(size) ==
    [h \in 0 .. 2 * size - 1 |->
        LET there == {i \in 0 .. size - 1 : Hash(handle[slot[i]], 2 * size) = h}
        IN IF there = {} THEN NULL ELSE slot[CHOOSE i \in there : TRUE]]

(* assert(new_slot[hash] == NULL) *)
Collision(size) ==
    \E i, j \in 0 .. size - 1 :
        i # j /\ Hash(handle[slot[i]], 2 * size) = Hash(handle[slot[j]], 2 * size)

TakeSlotKeepIndex(t, c, sl, size) ==
    LET i == CHOOSE i \in FreeTries(sl, size) : \A j \in FreeTries(sl, size) : i <= j
    IN /\ slot' = [sl EXCEPT ![Hash(Try(i), size)] = c]
       /\ slot_size' = size
       /\ val' = [val EXCEPT ![t] = Try(i)]
       /\ wrapped' = (wrapped \/ Try(i) < handle_index)
       /\ UNCHANGED handle_index

TakeSlotOverwriting(t, c, sl, size) ==
    /\ slot' = [sl EXCEPT ![Hash(Try(0), size)] = c]
    /\ slot_size' = size
    /\ val' = [val EXCEPT ![t] = Try(0)]
    /\ handle_index' = Try(0) + 1
    /\ wrapped' = (wrapped \/ Try(0) < handle_index)

(* The first free try takes the slot; the next search starts after it. *)
TakeSlot(t, c, sl, size) ==
    LET i == CHOOSE i \in FreeTries(sl, size) : \A j \in FreeTries(sl, size) : i <= j
    IN /\ slot' = [sl EXCEPT ![Hash(Try(i), size)] = c]
       /\ slot_size' = size
       /\ val' = [val EXCEPT ![t] = Try(i)]
       /\ handle_index' = Try(i) + 1
       /\ wrapped' = (wrapped \/ Try(i) < handle_index)

(* skynet_handle_register *)
Register(t, c) ==
    /\ ~ failed
    /\ reg[t] = NULL /\ life[c] = "none"
    /\ IF FreeTries(slot, slot_size) # {}
       THEN /\ TakeSlot(t, c, slot, slot_size)
            /\ UNCHANGED failed
       ELSE /\ 2 * slot_size - 1 <= HANDLE_MASK
            /\ failed' = Collision(slot_size)
            /\ TakeSlot(t, c, Rehash(slot_size), 2 * slot_size)
    /\ reg' = [reg EXCEPT ![t] = c]
    /\ life' = [life EXCEPT ![c] = "table"]
    /\ UNCHANGED <<handle, nameVars, passVars, fresh>>

(* ctx->handle = ... in skynet_context_new *)
Assign(t) ==
    /\ ~ failed
    /\ reg[t] # NULL
    /\ handle' = [handle EXCEPT ![reg[t]] = val[t]]
    /\ fresh' = IF pass = NULL THEN {} ELSE fresh \cup {reg[t]}
    /\ reg' = [reg EXCEPT ![t] = NULL]
    /\ val' = [val EXCEPT ![t] = 0]
    /\ UNCHANGED <<slot_size, slot, handle_index, life, nameVars, passVars,
                   wrapped, failed>>

(* The context skynet_handle_grab and skynet_handle_retire find. *)
Lookup(h) ==
    LET c == slot[Hash(h, slot_size)]
    IN IF c # NULL /\ handle[c] = h THEN c ELSE NULL

PurgeNothing(h) == name

(* The names of h go, the others close up. *)
Purge(h) == SelectSeq(name, LAMBDA e : e.handle # h)

(* The locked part of skynet_handle_retire: the slot and all names go. *)
TakeOut(h) ==
    IF Lookup(h) # NULL
    THEN /\ slot' = [slot EXCEPT ![Hash(h, slot_size)] = NULL]
         /\ life' = [life EXCEPT ![Lookup(h)] = "retired"]
         /\ name' = Purge(h)
    ELSE UNCHANGED <<slot, life, name>>

Retire(h) ==
    /\ ~ failed
    /\ Lookup(h) # NULL
    /\ TakeOut(h)
    /\ UNCHANGED <<slot_size, handle_index, handle, regVars, late, passVars, fresh>>

(* skynet_handle_retireall starts a pass over the table. *)
RetireAll ==
    /\ ~ failed
    /\ pass = NULL
    /\ pass' = 0 /\ found' = 0 /\ retired' = 0
    /\ fresh' = {}
    /\ UNCHANGED <<tableVars, regVars, nameVars>>

RetireAllRead ==
    /\ ~ failed
    /\ pass # NULL /\ found = 0
    /\ pass < slot_size
    /\ found' = IF slot[pass] = NULL THEN 0 ELSE handle[slot[pass]]
    /\ pass' = pass + 1
    /\ UNCHANGED <<tableVars, regVars, nameVars, retired, fresh>>

RetireAllRetire ==
    /\ ~ failed
    /\ found # 0
    /\ TakeOut(found)
    /\ retired' = IF Lookup(found) # NULL THEN retired + 1 ELSE retired
    /\ found' = 0
    /\ UNCHANGED <<slot_size, handle_index, handle, regVars, late, pass, fresh>>

RetireAllAgainEarly ==
    /\ pass # NULL /\ found = 0
    /\ pass >= slot_size - 1
    /\ pass' = IF retired = 0 THEN NULL ELSE 0
    /\ fresh' = {}
    /\ retired' = 0
    /\ UNCHANGED <<tableVars, regVars, nameVars, found>>

(* The end of a pass: another one, or return when it retired nothing. *)
RetireAllAgain ==
    /\ pass # NULL /\ found = 0
    /\ pass >= slot_size
    /\ pass' = IF retired = 0 THEN NULL ELSE 0
    /\ fresh' = {}
    /\ retired' = 0
    /\ UNCHANGED <<tableVars, regVars, nameVars, found>>

(* The binary search of skynet_handle_findname and _insert_name: the index
   of n, or the one it must be inserted before.                            *)
Search(n) ==
    LET f[begin \in 0 .. Len(name), end \in -1 .. Len(name) - 1] ==
            LET mid == (begin + end) \div 2
            IN IF begin > end THEN begin
               ELSE IF name[mid + 1].name = n THEN mid
               ELSE IF name[mid + 1].name < n THEN f[mid + 1, end]
               ELSE f[begin, mid - 1]
    IN f[0, Len(name) - 1]

At(i, n) == i < Len(name) /\ name[i + 1].name = n

(* skynet_handle_findname *)
FindName(n) == IF At(Search(n), n) THEN name[Search(n) + 1].handle ELSE 0

(* skynet_handle_namehandle: a name that exists keeps its handle. *)
NameHandle(h, n) ==
    /\ ~ failed
    /\ ~ At(Search(n), n)
    /\ name' = SubSeq(name, 1, Search(n)) \o <<[name |-> n, handle |-> h]>>
               \o SubSeq(name, Search(n) + 1, Len(name))
    /\ late' = IF Lookup(h) = NULL THEN late \cup {n} ELSE late \ {n}
    /\ UNCHANGED <<tableVars, regVars, passVars, fresh>>

-----------------------------------------------------------------------------
(* skynet_handle_init *)
Init ==
    /\ slot_size = DEFAULT_SLOT_SIZE
    /\ slot = [i \in 0 .. slot_size - 1 |-> NULL]
    /\ handle_index = 1
    /\ handle = [c \in Ctx |-> 0]
    /\ life = [c \in Ctx |-> "none"]
    /\ reg = [t \in Launcher |-> NULL] /\ val = [t \in Launcher |-> 0]
    /\ name = <<>> /\ late = {}
    /\ pass = NULL /\ found = 0 /\ retired = 0
    /\ fresh = {}
    /\ wrapped = FALSE
    /\ failed = FALSE

Known == {handle[c] : c \in {d \in Ctx : handle[d] # 0}}

Next ==
    \/ \E t \in Launcher, c \in Ctx : Register(t, c)
    \/ \E t \in Launcher : Assign(t)
    \/ \E h \in Known : Retire(h) \/ (\E n \in Name : NameHandle(h, n))
    \/ RetireAll \/ RetireAllRead \/ RetireAllRetire \/ RetireAllAgain

Spec == Init /\ [][Next]_vars

-----------------------------------------------------------------------------
(* Properties *)

(* Every variable of the table has its type, and the table is as long as
   slot_size says.                                                         *)
TypeOK ==
    /\ slot_size \in DEFAULT_SLOT_SIZE .. HANDLE_MASK + 1
    /\ slot \in [0 .. slot_size - 1 -> Ctx \cup {NULL}]
    /\ handle_index \in 1 .. HANDLE_MASK + 1
    /\ handle \in [Ctx -> 0 .. HANDLE_MASK]
    /\ life \in [Ctx -> {"none", "table", "retired"}]
    /\ reg \in [Launcher -> Ctx \cup {NULL}] /\ val \in [Launcher -> 0 .. HANDLE_MASK]
    /\ pass \in 0 .. HANDLE_MASK + 1 \cup {NULL}
    /\ found \in 0 .. HANDLE_MASK /\ retired \in Nat
    /\ fresh \subseteq Ctx /\ wrapped \in BOOLEAN /\ failed \in BOOLEAN

Registering(c) == \E t \in Launcher : reg[t] = c

(* A context in the table is found under the handle it was given, through
   every doubling: messages to it and its own retirement reach it.         *)
Findable ==
    /\ TypeOK
    /\ \A c \in Ctx : life[c] = "table" /\ ~ Registering(c) => Lookup(handle[c]) = c

(* Two contexts in the table never share a handle, and while the numbers
   have not started over no handle is ever given out twice, so a message to
   a dead service cannot reach a younger one.                              *)
UniqueHandle ==
    \A c, d \in Ctx :
        /\ c # d /\ life[c] # "none" /\ life[d] # "none"
        /\ ~ Registering(c) /\ ~ Registering(d)
        /\ wrapped => life[c] = "table" /\ life[d] = "table"
        => handle[c] # handle[d]

(* The names are sorted without repetition, and the binary search finds
   exactly what is there.  A retired handle loses its names with the slot;
   only a name given to it afterwards (by a callback still running in the
   dead service) remains.                                                  *)
NamesExact ==
    /\ name \in Seq([name : Name, handle : 0 .. HANDLE_MASK]) /\ late \subseteq Name
    /\ \A i, j \in DOMAIN name : i < j => name[i].name < name[j].name
    /\ \A n \in Name : \A i \in DOMAIN name :
        name[i].name = n => FindName(n) = name[i].handle
    /\ \A i \in DOMAIN name : Lookup(name[i].handle) # NULL \/ name[i].name \in late

(* When skynet_handle_retireall returns, nothing is left in the table but
   contexts that got their handle during its last pass (and a context with
   handle 0, which it takes for an empty slot).                            *)
RetireAllComplete ==
    [][pass # NULL /\ pass' = NULL =>
        \A c \in Ctx : life[c] = "table" =>
            c \in fresh \/ Registering(c) \/ handle[c] = 0]_vars

(* The assertion of skynet_handle.c:60 on rehashing, new_slot[hash] == NULL. *)
RehashAssertion == ~ failed
=============================================================================
