---------------------------- MODULE SkynetMailbox ----------------------------
(* The node of SkynetServer, with its threads, counts and queue protocol,  *)
(* implements Mailbox.                                                     *)
EXTENDS SkynetServer

(* NULL stands for nothing: it is not a message on its way either. *)
ASSUME NullAssumption == NULL \notin Ctx \X Message

(* The life of a service as its correspondents see it: by the handle table
   and by the mark on its queue.                                           *)
Life(c) ==
    CASE mem[c] = "none" -> "new"
      [] c \in slot      -> "open"
      [] release[c]      -> "closed"
      [] OTHER           -> "shut"

(* A thread inside skynet_context_push, before skynet_mq_push. *)
Bringing(t) == IF sop[t] = "push" THEN <<sto[t], smsg[t]>> ELSE NULL

Box == INSTANCE Mailbox WITH
    Service <- Ctx,
    Carrier <- Thread,
    Message <- [src : Ctx \cup {NULL}, id : 0 .. MaxSend, kind : {"data", "error", "exit"}],
    life <- [c \in Ctx |-> Life(c)],
    box <- queue,
    way <- [t \in Thread |-> Bringing(t)]

(* The reference counts, the release mark and the drop of skynet_server.c and
   skynet_mq.c together keep the promise of a mailbox: an accepted message is
   queued in time, in order, and handled, or dropped with an error to its
   sender, whatever launches, kills and aborts race it.                    *)
ImplementsMailbox == Box!Spec
=============================================================================
