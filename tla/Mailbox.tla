------------------------------- MODULE Mailbox -------------------------------
(***************************************************************************)
(* What the node promises to the services that write to each other.  A     *)
(* message accepted for a service gets into its box, even when the service *)
(* is retired meanwhile; boxes are read in order; a service closes only    *)
(* when nothing is on its way to it; and from then on each message still   *)
(* in the box is refused, which its writer is told if it can be reached.   *)
(***************************************************************************)
EXTENDS Sequences

CONSTANTS
    Service,
    Carrier,    \* who brings a message to a box
    Message,    \* records with fields src, id and kind
    NULL

VARIABLES
    life,   \* of a service: "new", "open", "shut" (retired), "closed"
    box,    \* messages for a service, oldest first
    way     \* what a carrier is bringing: <<service, message>>, or NULL

Init ==
    /\ life \in [Service -> {"new", "open"}]
    /\ box \in [Service -> Seq(Message)]
    /\ \A s \in Service : life[s] = "new" => box[s] = <<>>
    /\ way = [k \in Carrier |-> NULL]

Become(s, from, to) == life[s] = from /\ life' = [life EXCEPT ![s] = to]

Open(s) == Become(s, "new", "open") /\ UNCHANGED <<box, way>>

Shut(s) == Become(s, "open", "shut") /\ UNCHANGED <<box, way>>

Close(s) ==
    /\ Become(s, "shut", "closed")
    /\ \A k \in Carrier : way[k] # NULL => way[k][1] # s
    /\ UNCHANGED <<box, way>>

Accept(k, s) ==
    /\ way[k] = NULL /\ life[s] = "open"
    /\ UNCHANGED <<life, box>>
    /\ \E m \in Message : way' = [way EXCEPT ![k] = <<s, m>>]

Arrive(k) ==
    /\ way[k] # NULL
    /\ box' = [box EXCEPT ![way[k][1]] = Append(@, way[k][2])]
    /\ way' = [way EXCEPT ![k] = NULL]
    /\ UNCHANGED life

(* A message for another node goes straight into the harbor's box. *)
Forward(s) ==
    /\ life[s] \in {"open", "shut"}
    /\ UNCHANGED <<life, way>>
    /\ \E m \in Message : box' = [box EXCEPT ![s] = Append(@, m)]

Handle(s) ==
    /\ life[s] \in {"open", "shut"} /\ box[s] # <<>>
    /\ box' = [box EXCEPT ![s] = Tail(@)]
    /\ UNCHANGED <<life, way>>

Refusal(s, m) == [src |-> s, id |-> m.id, kind |-> "error"]

Refuse(k, s) ==
    /\ life[s] = "closed" /\ box[s] # <<>> /\ way[k] = NULL
    /\ box' = [box EXCEPT ![s] = Tail(@)]
    /\ LET m == Head(box[s])
       IN way' = IF m.src \in Service /\ life[m.src] = "open"
                 THEN [way EXCEPT ![k] = <<m.src, Refusal(s, m)>>]
                 ELSE way
    /\ UNCHANGED life

Next ==
    \/ \E s \in Service : Open(s) \/ Shut(s) \/ Close(s) \/ Handle(s) \/ Forward(s)
    \/ \E k \in Carrier : Arrive(k) \/ \E s \in Service : Accept(k, s) \/ Refuse(k, s)

Spec == Init /\ [][Next]_<<life, box, way>>
=============================================================================
