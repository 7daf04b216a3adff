---------------------------- MODULE SocketServer -----------------------------
(***************************************************************************)
(* The socket server, socket_server.c: worker threads reserve a slot and   *)
(* write commands into a pipe; the socket thread alone runs them, handles  *)
(* the events of the poll, writes the send buffers and reports to the      *)
(* services.                                                               *)
(*                                                                         *)
(* A package is Size bytes, each of them its number; a wb_list is the      *)
(* sequence of bytes still to be written.  What the kernel answers to a    *)
(* write, a read, a connect or an accept is a choice, and so is the batch  *)
(* of events it reports: reads at any time, writes when the descriptor is  *)
(* armed (sp_write).  An assertion that fails ends the process: crashed    *)
(* names it and nothing happens any more.                                  *)
(***************************************************************************)
EXTENDS Integers, SequencesExt

CONSTANTS
    MAX_SOCKET,     \* slots
    MaxId,          \* bound on the ids allocated
    Size,           \* bytes of a package
    MaxPkg,         \* bound on the packages sent
    MaxCmd,         \* bound on the other commands
    Opener,         \* worker threads that open sockets
    Kinds,          \* what they open: connect O, listen L, bind B, udp U
    NULL

ASSUME SocketAssumption ==
    /\ MAX_SOCKET \in Nat \ {0} /\ MaxId \in Nat /\ Size \in Nat \ {0}
    /\ MaxPkg \in Nat /\ MaxCmd \in Nat /\ Kinds \subseteq {"O", "L", "B", "U"}
    /\ NULL \notin Nat /\ NULL \notin {"O", "L", "B", "U", "A"}

Slot == 0 .. MAX_SOCKET - 1
Id == 1 .. MaxId
Pkg == 1 .. MaxPkg

HASH_ID(id) == id % MAX_SOCKET

VARIABLES
    slot,       \* ss->slot
    alloc_id,   \* ss->alloc_id
    opener,     \* where each opener is in reserve_id, and the id it holds
    pipe,       \* commands written to sendctrl_fd
    ev,         \* events from event_index to event_n
    at,         \* socket thread: commands (checkctrl), the first event of a batch,
                \* events, clear_closed_event
    clr,        \* the id clear_closed_event looks for
    ncmd,       \* commands so far
    issued,     \* how a service came by each id: one of Kinds, A for accept (history)
    pkg,        \* id and priority of the packages sent (history)
    freed,      \* how often each package was freed (history)
    wire,       \* bytes written for each id (history)
    told,       \* ids reported closed (history)
    after,      \* messages reported for an id after its close (history)
    broken,     \* ids that ended by an error, an end of file or a shutdown (history)
    refused,    \* packages send_socket would not take (history)
    crashed     \* the assertion that failed

history == <<issued, pkg, freed, wire, told, after, broken, refused>>

vars == <<slot, alloc_id, opener, pipe, ev, at, clr, ncmd, history, crashed>>

Type == {"INVALID", "RESERVE", "PLISTEN", "LISTEN", "CONNECTING", "CONNECTED",
         "HALFCLOSE", "PACCEPT", "BIND"}

(* protocol: tcp, udp, or bind for the tcp slot of a bound descriptor. *)
SlotState == [type : Type, id : {0} \cup Id, protocol : {"tcp", "udp", "bind"},
              high : Seq(Pkg), low : Seq(Pkg), armed : BOOLEAN]

Command == [c : {"O", "L", "B", "U", "S", "K", "D", "P", "C"}, id : Id,
            pkg : {0} \cup Pkg, shutdown : BOOLEAN]

TypeOK ==
    /\ slot \in [Slot -> SlotState]
    /\ alloc_id \in 0 .. MaxId
    /\ opener \in [Opener -> [pc : {"idle", "look", "cas", "set"}, tries : 0 .. MAX_SOCKET, id : {0} \cup Id]]
    /\ pipe \in Seq(Command)
    /\ ev \in Seq([slot : Slot \cup {NULL}, read : BOOLEAN, write : BOOLEAN])
    /\ at \in {"cmd", "first", "event", "clear"} /\ clr \in {0} \cup Id
    /\ ncmd \in 0 .. MaxCmd
    /\ pkg \in Seq([id : Id, low : BOOLEAN])
    /\ freed \in [Pkg -> Nat] /\ wire \in [Id -> Seq(Pkg)]
    /\ issued \in [Id -> Kinds \cup {"A", NULL}] /\ told \subseteq Id /\ broken \subseteq Id /\ refused \subseteq Pkg
    /\ crashed \in {"no", "reserve", "lists", "uncomplete"}

(* socket_server_create *)
Init ==
    /\ slot = [k \in Slot |-> [type |-> "INVALID", id |-> 0, protocol |-> "tcp",
                               high |-> <<>>, low |-> <<>>, armed |-> FALSE]]
    /\ alloc_id = 0
    /\ opener = [t \in Opener |-> [pc |-> "idle", tries |-> 0, id |-> 0]]
    /\ pipe = <<>> /\ ev = <<>> /\ at = "cmd" /\ clr = 0 /\ ncmd = 0
    /\ issued = [i \in Id |-> NULL] /\ pkg = <<>> /\ freed = [p \in Pkg |-> 0] /\ wire = [i \in Id |-> <<>>]
    /\ told = {} /\ after = {} /\ broken = {} /\ refused = {}
    /\ crashed = "no"

-----------------------------------------------------------------------------
(* Worker threads *)

Request(c, id, p, hard) == [c |-> c, id |-> id, pkg |-> p, shutdown |-> hard]

(* reserve_id takes the next id, then looks at its slot. *)
ReserveLook(t) ==
    /\ crashed = "no"
    /\ opener[t].pc = "look" \/ (opener[t].pc = "idle" /\ ncmd < MaxCmd)
    /\ alloc_id < MaxId
    /\ LET id == alloc_id + 1
           n == IF opener[t].pc = "idle" THEN 0 ELSE opener[t].tries
       IN /\ alloc_id' = id
          /\ opener' = [opener EXCEPT ![t] =
                IF slot[HASH_ID(id)].type = "INVALID" THEN [pc |-> "cas", tries |-> n, id |-> id]
                ELSE IF n + 1 < MAX_SOCKET THEN [pc |-> "look", tries |-> n + 1, id |-> 0]
                ELSE [pc |-> "idle", tries |-> 0, id |-> 0]]
    /\ ncmd' = IF opener[t].pc = "idle" THEN ncmd + 1 ELSE ncmd
    /\ UNCHANGED <<slot, pipe, ev, at, clr, history, crashed>>

(* ATOM_CAS(&s->type, INVALID, RESERVE); another id when it fails. *)
ReserveCAS(t) ==
    /\ crashed = "no" /\ opener[t].pc = "cas"
    /\ LET k == HASH_ID(opener[t].id)
       IN IF slot[k].type = "INVALID"
          THEN /\ slot' = [slot EXCEPT ![k].type = "RESERVE"]
               /\ opener' = [opener EXCEPT ![t].pc = "set"]
          ELSE /\ opener' = [opener EXCEPT ![t].pc = "look"]
               /\ UNCHANGED slot
    /\ UNCHANGED <<alloc_id, pipe, ev, at, clr, ncmd, history, crashed>>

(* s->id = id, the end of reserve_id. *)
StoreId(id) == slot' = [slot EXCEPT ![HASH_ID(id)].id = id]

(* The reservation ends and the request of connect, listen, bind or udp is
   written.                                                                *)
ReserveSet(t, c) ==
    /\ crashed = "no" /\ opener[t].pc = "set"
    /\ StoreId(opener[t].id)
    /\ pipe' = Append(pipe, Request(c, opener[t].id, 0, FALSE))
    /\ opener' = [opener EXCEPT ![t] = [pc |-> "idle", tries |-> 0, id |-> 0]]
    /\ issued' = [issued EXCEPT ![opener[t].id] = c]
    /\ UNCHANGED <<alloc_id, ev, at, clr, ncmd, pkg, freed, wire, told, after, broken, refused, crashed>>

(* socket_server_start for a listening or accepted socket, _close, _shutdown,
   and _udp_connect.                                                       *)
Ask(c, id, hard) ==
    /\ crashed = "no" /\ ncmd < MaxCmd
    /\ issued[id] \in CASE c = "S" -> {"L", "A"} [] c = "C" -> {"U"} [] c = "K" -> Kinds \cup {"A"}
    /\ hard => c = "K"
    /\ ncmd' = ncmd + 1
    /\ pipe' = Append(pipe, Request(c, id, 0, hard))
    /\ UNCHANGED <<slot, alloc_id, opener, ev, at, clr, history, crashed>>

(* socket_server_send and _send_lowpriority: freed here when the slot has
   another id by now.                                                      *)
Send(id, low) ==
    /\ crashed = "no" /\ Len(pkg) < MaxPkg /\ issued[id] \notin {NULL, "L"}
    /\ pkg' = Append(pkg, [id |-> id, low |-> low])
    /\ LET s == slot[HASH_ID(id)]
           p == Len(pkg) + 1
           gone == s.id # id \/ s.type = "INVALID"
       IN /\ pipe' = IF gone THEN pipe
                     ELSE Append(pipe, Request(IF low THEN "P" ELSE "D", id, p, FALSE))
          /\ freed' = IF gone THEN [freed EXCEPT ![p] = @ + 1] ELSE freed
          /\ refused' = IF gone THEN refused \cup {p} ELSE refused
    /\ UNCHANGED <<slot, alloc_id, opener, ev, at, clr, ncmd, issued, wire, told, after, broken, crashed>>

-----------------------------------------------------------------------------
(* What the steps of the socket thread are made of *)

Queued(s) == ToSet(s.high) \cup ToSet(s.low)

send_buffer_empty(s) == s.high = <<>> /\ s.low = <<>>

(* Deliberately wrong variants (here, KeepInLow, CloseReportsEarly, CloseAtOnce,
   ConnectDisarms): replacing the operator by its variant must break a
   property.                                                               *)
CloseKeepsLists(s) == [s EXCEPT !.type = "INVALID", !.armed = FALSE]

(* force_close, apart from its assertion. *)
force_close(s) == [s EXCEPT !.type = "INVALID", !.high = <<>>, !.low = <<>>, !.armed = FALSE]

list_uncomplete(l) ==
    l # <<>> /\ Cardinality({i \in DOMAIN l : l[i] = Head(l)}) < Size

KeepInLow(s) == s

Rest(l, n) == SubSeq(l, n + 1, Len(l))

(* The rest of the first package of low moves to the empty high list. *)
raise_uncomplete(s) ==
    LET n == Cardinality({i \in DOMAIN s.low : s.low[i] = Head(s.low)})
    IN [s EXCEPT !.high = SubSeq(s.low, 1, n), !.low = Rest(@, n)]

(* Bytes of a list that one call of send_list may write: any number for tcp,
   whole packages for udp.                                                 *)
Written(s, l) == {n \in 0 .. Len(l) : s.protocol = "udp" => n % Size = 0}

(* The outcomes of send_buffer: the slot, the bytes written, whether an error
   ended the connection (an error of sendto does not).                     *)
send_buffer(s) ==
    LET all(n) == n = Len(s.high)
        cut(n, m) == SubSeq(s.high, 1, n) \o SubSeq(s.low, 1, m)
        stop(n) == [slot |-> [s EXCEPT !.high = Rest(@, n)], out |-> cut(n, 0), error |-> FALSE]
        low(m) == LET r == [s EXCEPT !.high = <<>>, !.low = Rest(@, m)]
                  IN [slot |-> IF list_uncomplete(r.low) THEN raise_uncomplete(r) ELSE r,
                      out |-> cut(Len(s.high), m), error |-> FALSE]
        off == [slot |-> IF s.type = "HALFCLOSE" THEN force_close(s)
                         ELSE [s EXCEPT !.high = <<>>, !.armed = FALSE],
                out |-> s.high, error |-> FALSE]
        fail(n, m) == [slot |-> force_close(s), out |-> cut(n, m), error |-> TRUE]
    IN {stop(n) : n \in {n \in Written(s, s.high) : ~ all(n)}}
       \cup (IF s.low = <<>> THEN {off} ELSE {low(m) : m \in Written(s, s.low)})
       \cup (IF s.protocol = "udp" THEN {}
             ELSE {fail(n, 0) : n \in 0 .. Len(s.high) - 1}
                  \cup {fail(Len(s.high), m) : m \in 0 .. Len(s.low) - 1})

Freed(pkgs) == freed' = [p \in Pkg |-> IF p \in pkgs THEN freed[p] + 1 ELSE freed[p]]

(* The result of poll: message m for id. *)
Report(m, id) ==
    /\ told' = IF m = "close" THEN told \cup {id} ELSE told
    /\ after' = IF id \in told /\ m \notin {"close", "error"} THEN after \cup {m} ELSE after

Silent == UNCHANGED <<told, after>>

Break(id, b) == broken' = IF b THEN broken \cup {id} ELSE broken

(* clear_closed_event follows the commands whose result is a close or an error. *)
ClearNext(id) == at' = "clear" /\ clr' = id

Crash(name) ==
    /\ crashed' = name
    /\ UNCHANGED <<slot, alloc_id, clr, history>>

CmdCrash(name) == Crash(name) /\ UNCHANGED at

-----------------------------------------------------------------------------
(* ctrl_cmd *)

Current(r) == slot[HASH_ID(r.id)].type # "INVALID" /\ slot[HASH_ID(r.id)].id = r.id

(* open_socket, listen_socket, bind_socket, add_udp_socket: what becomes of the
   reserved slot and what is reported.  Opening fails before new_fd is called
   or in it.                                                               *)
OpenOutcome(c) ==
    LET o(type, protocol, msg) == [type |-> type, protocol |-> protocol, msg |-> msg]
    IN CASE c = "O" -> {o("INVALID", "tcp", "error"), o("CONNECTED", "tcp", "open"),
                        o("CONNECTING", "tcp", "none")}
         [] c = "L" -> {o("PLISTEN", "tcp", "none")}
         [] c = "B" -> {o("INVALID", "tcp", "error"), o("BIND", "bind", "open")}
         [] c = "U" -> {o("INVALID", "udp", "none"), o("CONNECTED", "udp", "none")}

new_fd(r) ==
    LET k == HASH_ID(r.id) IN
    \E o \in OpenOutcome(r.c) :
        IF slot[k].type # "RESERVE" THEN CmdCrash("reserve")
        ELSE IF o.type # "INVALID" /\ ~ send_buffer_empty(slot[k]) THEN CmdCrash("lists")
        ELSE /\ slot' = [slot EXCEPT ![k] =
                    IF o.type = "INVALID" THEN [@ EXCEPT !.type = "INVALID"]
                    ELSE [type |-> o.type, id |-> r.id, protocol |-> o.protocol,
                          high |-> <<>>, low |-> <<>>, armed |-> o.type = "CONNECTING"]]
             /\ IF o.msg = "none" THEN Silent ELSE Report(o.msg, r.id)
             /\ IF o.msg = "error" THEN ClearNext(r.id) ELSE UNCHANGED <<at, clr>>
             /\ UNCHANGED <<alloc_id, issued, pkg, freed, wire, broken, refused, crashed>>

(* S: an accepted or listening socket enters the poll; a connected one only
   changes its owner.                                                      *)
start_socket(r) ==
    LET k == HASH_ID(r.id)
        s == slot[k]
    IN /\ \/ /\ ~ Current(r)
             /\ Report("error", r.id) /\ ClearNext(r.id)
             /\ UNCHANGED slot
          \/ /\ Current(r) /\ s.type \in {"PACCEPT", "PLISTEN"}
             /\ \/ /\ slot' = [slot EXCEPT ![k].type = IF @ = "PACCEPT" THEN "CONNECTED" ELSE "LISTEN"]
                   /\ Report("open", r.id)
                   /\ UNCHANGED <<at, clr>>
                \/ /\ slot' = [slot EXCEPT ![k] = force_close(s)]
                   /\ Report("error", r.id) /\ ClearNext(r.id)
          \/ /\ Current(r) /\ s.type \notin {"PACCEPT", "PLISTEN"}
             /\ IF s.type = "CONNECTED" THEN Report("open", r.id) ELSE Silent
             /\ UNCHANGED <<slot, at, clr>>
       /\ UNCHANGED <<alloc_id, issued, pkg, freed, wire, broken, refused, crashed>>

CloseAtOnce(r) ==
    LET k == HASH_ID(r.id)
        s == slot[k]
    IN IF ~ Current(r)
       THEN /\ Report("close", r.id) /\ ClearNext(r.id)
            /\ UNCHANGED <<slot, alloc_id, issued, pkg, freed, wire, broken, refused, crashed>>
       ELSE IF s.type = "RESERVE" THEN CmdCrash("reserve")
       ELSE IF list_uncomplete(s.low) THEN CmdCrash("uncomplete")
       ELSE \E w \in IF send_buffer_empty(s) THEN {[slot |-> s, out |-> <<>>, error |-> FALSE]}
                     ELSE send_buffer(s) :
            LET shut == TRUE
                n == IF shut THEN force_close(w.slot) ELSE [w.slot EXCEPT !.type = "HALFCLOSE"]
            IN /\ slot' = [slot EXCEPT ![k] = n]
               /\ wire' = [wire EXCEPT ![r.id] = @ \o w.out]
               /\ Freed(Queued(s) \ Queued(n))
               /\ Break(r.id, w.error \/ r.shutdown)
               /\ IF shut THEN Report("close", r.id) /\ ClearNext(r.id)
                  ELSE Silent /\ UNCHANGED <<at, clr>>
               /\ UNCHANGED <<alloc_id, issued, pkg, refused, crashed>>

CloseReportsEarly(r) ==
    LET k == HASH_ID(r.id)
        s == slot[k]
    IN IF ~ Current(r)
       THEN /\ Report("close", r.id) /\ ClearNext(r.id)
            /\ UNCHANGED <<slot, alloc_id, issued, pkg, freed, wire, broken, refused, crashed>>
       ELSE IF s.type = "RESERVE" THEN CmdCrash("reserve")
       ELSE IF list_uncomplete(s.low) THEN CmdCrash("uncomplete")
       ELSE \E w \in IF send_buffer_empty(s) THEN {[slot |-> s, out |-> <<>>, error |-> FALSE]}
                     ELSE send_buffer(s) :
            LET shut == w.error \/ r.shutdown \/ send_buffer_empty(w.slot)
                n == IF shut THEN force_close(w.slot) ELSE w.slot
            IN /\ slot' = [slot EXCEPT ![k] = n]
               /\ wire' = [wire EXCEPT ![r.id] = @ \o w.out]
               /\ Freed(Queued(s) \ Queued(n))
               /\ Break(r.id, w.error \/ r.shutdown)
               /\ Report("close", r.id) /\ ClearNext(r.id)
               /\ UNCHANGED <<alloc_id, issued, pkg, refused, crashed>>

(* K: what is queued is written first; the rest keeps the socket half closed,
   unless it is a shutdown.                                                *)
close_socket(r) ==
    LET k == HASH_ID(r.id)
        s == slot[k]
    IN IF ~ Current(r)
       THEN /\ Report("close", r.id) /\ ClearNext(r.id)
            /\ UNCHANGED <<slot, alloc_id, issued, pkg, freed, wire, broken, refused, crashed>>
       ELSE IF s.type = "RESERVE" THEN CmdCrash("reserve")
       ELSE IF list_uncomplete(s.low) THEN CmdCrash("uncomplete")
       ELSE \E w \in IF send_buffer_empty(s) THEN {[slot |-> s, out |-> <<>>, error |-> FALSE]}
                     ELSE send_buffer(s) :
            LET shut == w.error \/ r.shutdown \/ send_buffer_empty(w.slot)
                n == IF shut THEN force_close(w.slot) ELSE [w.slot EXCEPT !.type = "HALFCLOSE"]
            IN /\ slot' = [slot EXCEPT ![k] = n]
               /\ wire' = [wire EXCEPT ![r.id] = @ \o w.out]
               /\ Freed(Queued(s) \ Queued(n))
               /\ Break(r.id, w.error \/ r.shutdown)
               /\ IF shut THEN Report("close", r.id) /\ ClearNext(r.id)
                  ELSE Silent /\ UNCHANGED <<at, clr>>
               /\ UNCHANGED <<alloc_id, issued, pkg, refused, crashed>>

(* D, P (and A): refused, written at once as far as the kernel takes it, or
   queued.  The rest of a package that was begun goes to the high list.    *)
send_socket(r) ==
    LET k == HASH_ID(r.id)
        s == slot[k]
        bytes == [i \in 1 .. Size |-> r.pkg]
        high == s.protocol # "udp" \/ r.c = "D"
    IN \/ /\ ~ Current(r) \/ s.type \in {"HALFCLOSE", "PACCEPT", "PLISTEN", "LISTEN"}
          /\ Freed({r.pkg}) /\ refused' = refused \cup {r.pkg}
          /\ Silent
          /\ UNCHANGED <<slot, at, clr, wire, broken>>
       \/ /\ Current(r) /\ s.type = "CONNECTED" /\ send_buffer_empty(s)
          /\ \/ \E n \in Written(s, bytes) :
                  /\ slot' = [slot EXCEPT ![k] =
                        IF n = Size THEN @
                        ELSE IF high THEN [@ EXCEPT !.high = Rest(bytes, n), !.armed = TRUE]
                        ELSE [@ EXCEPT !.low = Rest(bytes, n), !.armed = TRUE]]
                  /\ wire' = [wire EXCEPT ![r.id] = @ \o SubSeq(bytes, 1, n)]
                  /\ Freed(IF n = Size THEN {r.pkg} ELSE {})
                  /\ Silent
                  /\ UNCHANGED <<at, clr, broken>>
             \/ /\ s.protocol # "udp"
                /\ slot' = [slot EXCEPT ![k] = force_close(s)]
                /\ Freed({r.pkg})
                /\ Break(r.id, TRUE)
                /\ Report("close", r.id) /\ ClearNext(r.id)
                /\ UNCHANGED wire
          /\ UNCHANGED refused
       \/ /\ Current(r)
          /\ \/ s.type \in {"CONNECTING", "BIND", "RESERVE"}
             \/ s.type = "CONNECTED" /\ ~ send_buffer_empty(s)
          /\ slot' = [slot EXCEPT ![k] = IF r.c = "P" THEN [@ EXCEPT !.low = s.low \o bytes]
                                         ELSE [@ EXCEPT !.high = s.high \o bytes]]
          /\ Silent
          /\ UNCHANGED <<at, clr, freed, wire, broken, refused>>

(* C: the address family has to fit the socket. *)
set_udp_address(r) ==
    LET s == slot[HASH_ID(r.id)] IN
    /\ \/ Current(r) /\ Report("error", r.id) /\ ClearNext(r.id)
       \/ (Current(r) => s.protocol = "udp") /\ Silent /\ UNCHANGED <<at, clr>>
    /\ UNCHANGED <<slot, alloc_id, issued, pkg, freed, wire, broken, refused, crashed>>

Cmd ==
    /\ crashed = "no" /\ at = "cmd" /\ pipe # <<>>
    /\ pipe' = Tail(pipe)
    /\ LET r == Head(pipe)
       IN \/ r.c \in {"O", "L", "B", "U"} /\ new_fd(r)
          \/ r.c = "S" /\ start_socket(r)
          \/ r.c = "K" /\ close_socket(r)
          \/ r.c \in {"D", "P"} /\ send_socket(r) /\ UNCHANGED <<alloc_id, issued, pkg, crashed>>
          \/ r.c = "C" /\ set_udp_address(r)
    /\ UNCHANGED <<opener, ev, ncmd>>

-----------------------------------------------------------------------------
(* The rest of socket_server_poll *)

(* The first later event of the closed slot is dropped, if the slot is still
   free and has still that id.                                             *)
clear_closed_event ==
    /\ crashed = "no" /\ at = "clear"
    /\ at' = "cmd" /\ clr' = 0
    /\ LET stale == {i \in DOMAIN ev : /\ ev[i].slot # NULL
                                       /\ slot[ev[i].slot].type = "INVALID"
                                       /\ slot[ev[i].slot].id = clr}
       IN ev' = IF stale = {} THEN ev ELSE [ev EXCEPT ![Min(stale)].slot = NULL]
    /\ UNCHANGED <<slot, alloc_id, opener, pipe, ncmd, history, crashed>>

(* has_cmd finds the pipe empty: checkctrl = 0. *)
NoCmd ==
    /\ crashed = "no" /\ at = "cmd" /\ pipe = <<>>
    /\ at' = "event"
    /\ UNCHANGED <<slot, alloc_id, opener, pipe, ev, clr, ncmd, history, crashed>>

InPoll(k) == slot[k].type \in {"LISTEN", "CONNECTING", "CONNECTED", "HALFCLOSE", "BIND"}

(* sp_wait: the pipe, or descriptors that are readable or, if armed, writable.
   The first event is handled before the commands; when it is that of the
   pipe they are next.                                                     *)
Wait ==
    /\ crashed = "no" /\ at = "event" /\ ev = <<>>
    /\ \E ready \in SUBSET {k \in Slot : InPoll(k)} : \E order \in SetToSeqs(ready) :
       \E flags \in [ready -> {"r", "w", "rw"}] :
        /\ \A k \in ready : flags[k] # "r" => slot[k].armed
        /\ ev' = [i \in DOMAIN order |-> [slot |-> order[i], read |-> flags[order[i]] # "w",
                                          write |-> flags[order[i]] # "r"]]
        /\ \/ ready # {} /\ at' = "first"
           \/ pipe # <<>> /\ at' = "cmd"
    /\ UNCHANGED <<slot, alloc_id, opener, pipe, clr, ncmd, history, crashed>>

NextEvent == ev' = Tail(ev)

(* The write flag of an event is handled in the next turn of the loop. *)
ReadDone(e) == IF e.write THEN ev' = [ev EXCEPT ![1].read = FALSE] ELSE NextEvent

Event(e) ==
    /\ crashed = "no" /\ at \in {"first", "event"} /\ ev # <<>> /\ e = Head(ev)
    /\ at' = IF at = "first" THEN "cmd" ELSE at
    /\ UNCHANGED <<opener, pipe, clr, ncmd>>

(* A cleared event, or an invalid socket. *)
SkipEvent(e) ==
    /\ Event(e)
    /\ e.slot # NULL => slot[e.slot].type = "INVALID"
    /\ NextEvent
    /\ UNCHANGED <<slot, alloc_id, history, crashed>>

ConnectDisarms(e) ==
    /\ Event(e) /\ e.slot # NULL
    /\ LET s == slot[e.slot]
       IN /\ s.type = "CONNECTING"
          /\ \/ /\ slot' = [slot EXCEPT ![e.slot].type = "CONNECTED",
                                        ![e.slot].armed = FALSE]
                /\ Report("open", s.id)
                /\ UNCHANGED <<freed, broken>>
             \/ /\ slot' = [slot EXCEPT ![e.slot] = force_close(s)]
                /\ Freed(Queued(s)) /\ Break(s.id, TRUE)
                /\ Report("error", s.id)
    /\ NextEvent
    /\ UNCHANGED <<alloc_id, issued, pkg, wire, refused, crashed>>

report_connect(e) ==
    /\ Event(e) /\ e.slot # NULL
    /\ LET s == slot[e.slot]
       IN /\ s.type = "CONNECTING"
          /\ \/ /\ slot' = [slot EXCEPT ![e.slot].type = "CONNECTED",
                                        ![e.slot].armed = IF send_buffer_empty(s) THEN FALSE ELSE @]
                /\ Report("open", s.id)
                /\ UNCHANGED <<freed, broken>>
             \/ /\ slot' = [slot EXCEPT ![e.slot] = force_close(s)]
                /\ Freed(Queued(s)) /\ Break(s.id, TRUE)
                /\ Report("error", s.id)
    /\ NextEvent
    /\ UNCHANGED <<alloc_id, issued, pkg, wire, refused, crashed>>

(* accept, and reserve_id and new_fd for the new connection; or no descriptors
   left, which is reported; or nothing.                                    *)
report_accept(e) ==
    /\ Event(e) /\ e.slot # NULL
    /\ slot[e.slot].type = "LISTEN"
    /\ \/ LET free == {i \in 1 .. MAX_SOCKET : slot[HASH_ID(alloc_id + i)].type = "INVALID"}
              n == IF free = {} THEN MAX_SOCKET ELSE Min(free)
              k == HASH_ID(alloc_id + n)
          IN /\ alloc_id + n <= MaxId
             /\ IF free # {} /\ ~ send_buffer_empty(slot[k]) THEN Crash("lists")
                ELSE /\ alloc_id' = alloc_id + n
                     /\ IF free = {} THEN UNCHANGED <<slot, issued>> /\ Silent
                        ELSE /\ slot' = [slot EXCEPT ![k] = [@ EXCEPT !.type = "PACCEPT", !.protocol = "tcp",
                                                                      !.id = alloc_id + n]]
                             /\ issued' = [issued EXCEPT ![alloc_id + n] = "A"]
                             /\ Report("accept", slot[e.slot].id)
                     /\ UNCHANGED <<pkg, freed, wire, broken, refused, crashed>>
       \/ /\ Report("error", slot[e.slot].id) \/ Silent
          /\ UNCHANGED <<slot, alloc_id, issued, pkg, freed, wire, broken, refused, crashed>>
    /\ NextEvent

Open(s) == s.type \notin {"INVALID", "LISTEN", "CONNECTING"}

(* forward_message_tcp and _udp.  The descriptor of a slot that is only
   reserved is not open: the read fails.  Udp reads again until it blocks. *)
forward_message(e) ==
    /\ Event(e) /\ e.slot # NULL /\ e.read
    /\ LET s == slot[e.slot]
       IN /\ Open(s)
          /\ \/ s.type = "RESERVE" /\ Crash("reserve") /\ NextEvent
             \/ /\ s.type # "RESERVE"
                /\ \/ Silent /\ ReadDone(e) /\ UNCHANGED <<slot, freed, broken>>
                   \/ /\ IF s.protocol # "udp" /\ s.type = "HALFCLOSE" THEN Silent ELSE Report("data", s.id)
                      /\ IF s.protocol = "udp" THEN UNCHANGED ev ELSE ReadDone(e)
                      /\ UNCHANGED <<slot, freed, broken>>
                   \/ \E m \in IF s.protocol = "udp" THEN {"error"} ELSE {"close", "error"} :
                      /\ slot' = [slot EXCEPT ![e.slot] = force_close(s)]
                      /\ Freed(Queued(s)) /\ Break(s.id, TRUE)
                      /\ Report(m, s.id)
                      /\ NextEvent
                /\ UNCHANGED <<alloc_id, issued, pkg, wire, refused, crashed>>

WriteEvent(e) ==
    /\ Event(e) /\ e.slot # NULL /\ ~ e.read
    /\ LET s == slot[e.slot]
       IN /\ Open(s)
          /\ IF list_uncomplete(s.low) THEN Crash("uncomplete")
             ELSE IF s.type = "RESERVE" /\ ~ send_buffer_empty(s) THEN Crash("reserve")
             ELSE \E w \in send_buffer(s) :
                  /\ slot' = [slot EXCEPT ![e.slot] = w.slot]
                  /\ wire' = [wire EXCEPT ![s.id] = @ \o w.out]
                  /\ Freed(Queued(s) \ Queued(w.slot))
                  /\ Break(s.id, w.error)
                  /\ IF w.slot.type = "INVALID" THEN Report("close", s.id) ELSE Silent
                  /\ UNCHANGED <<alloc_id, issued, pkg, refused, crashed>>
    /\ NextEvent

SocketThread ==
    \/ Cmd \/ clear_closed_event \/ NoCmd \/ Wait
    \/ \E e \in ToSet(ev) : \/ SkipEvent(e) \/ report_connect(e) \/ report_accept(e)
                            \/ forward_message(e) \/ WriteEvent(e)

Next ==
    \/ \E t \in Opener : \/ ReserveLook(t) \/ ReserveCAS(t)
                         \/ \E c \in Kinds : ReserveSet(t, c)
    \/ \E id \in Id : \/ \E c \in {"S", "K", "C"}, hard \in BOOLEAN : Ask(c, id, hard)
                      \/ \E low \in BOOLEAN : Send(id, low)
    \/ SocketThread

Spec == Init /\ [][Next]_vars

-----------------------------------------------------------------------------
(* Properties *)

(* The stream a peer reads: packages are whole and in one piece (none begins
   while another is half written, whichever list it waits in), none comes
   twice, and packages of one priority come in the order they were sent.  So
   no list but the high one ever starts with the rest of a package, which
   send_buffer asserts.                                                    *)
WireWhole ==
    /\ TypeOK
    /\ \A id \in Id :
        LET w == wire[id] IN
        \A i, j \in DOMAIN w : i < j =>
            /\ w[i] = w[j] => j - i < Size /\ \A n \in i .. j : w[n] = w[i]
            /\ w[i] # w[j] /\ pkg[w[i]].low = pkg[w[j]].low => w[i] < w[j]
    /\ \A k \in Slot : ~ list_uncomplete(slot[k].low)
    /\ crashed # "uncomplete"

(* A queue that is not empty is being written: its descriptor is armed, across
   connecting, half closing and every partial write.  (A bound descriptor is
   never armed: see the README.)                                           *)
WriteArmed ==
    \A k \in Slot :
        LET s == slot[k] IN
        \/ s.type = "CONNECTING" /\ s.protocol # "bind"
        \/ s.type \in {"CONNECTED", "HALFCLOSE"} /\ s.protocol # "bind" /\ ~ send_buffer_empty(s)
        => s.armed

InPipe(p) == \E i \in DOMAIN pipe : pipe[i].pkg = p

(* A package belongs to one owner, the command, one list of one slot, or nobody
   once it was freed: never freed twice, never lost.                       *)
BufferOnce ==
    \A p \in DOMAIN pkg :
        Cardinality({k \in Slot : p \in Queued(slot[k])}) + freed[p] + (IF InPipe(p) THEN 1 ELSE 0) = 1

(* Queued in a slot nobody owns yet, by a send for the id it had before: new_fd
   will abort.                                                             *)
Stray(p) == \E k \in Slot : p \in Queued(slot[k]) /\ slot[k].type \in {"INVALID", "RESERVE"}

(* socket.close is orderly: when the close of an id is reported and neither an
   error, an end of file nor a shutdown was involved, everything the socket
   accepted has been written.                                              *)
OrderlyClose ==
    \A p \in DOMAIN pkg :
        pkg[p].id \in told \ broken /\ p \notin refused /\ ~ InPipe(p) /\ ~ Stray(p)
        => Cardinality({i \in DOMAIN wire[pkg[p].id] : wire[pkg[p].id][i] = p}) = Size

(* Once an id was reported closed, nothing more comes from it: no data, no
   connection, no open, although its slot and its events may live on.      *)
ClosedIsFinal == after = {}

(* assert(s->type != SOCKET_TYPE_RESERVE) in force_close, and those of new_fd. *)
NoAbort == crashed = "no"
=============================================================================
