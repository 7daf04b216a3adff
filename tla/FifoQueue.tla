------------------------------ MODULE FifoQueue ------------------------------
(***************************************************************************)
(* What a service's message queue promises: an unbounded first-in          *)
(* first-out queue.  Push never fails; Pop hands out the oldest message,   *)
(* or NULL when there is none.                                             *)
(***************************************************************************)
EXTENDS Sequences

CONSTANTS Message, NULL

VARIABLES
    contents,   \* the messages in the queue, oldest first
    out         \* what the last Pop handed out

Init == contents = <<>> /\ out = NULL

Push(m) ==
    /\ contents' = Append(contents, m)
    /\ UNCHANGED out

Pop ==
    /\ contents # <<>>
    /\ out' = Head(contents)
    /\ contents' = Tail(contents)

PopEmpty ==
    /\ contents = <<>>
    /\ out' = NULL
    /\ UNCHANGED contents

Next == (\E m \in Message : Push(m)) \/ Pop \/ PopEmpty

Spec == Init /\ [][Next]_<<contents, out>>
=============================================================================
