------------------------------- MODULE Delivery -------------------------------
(***************************************************************************)
(* What the exchange with the provider promises about each message,        *)
(* whatever is lost, delayed, retried or killed on the way: it is          *)
(* delivered only if somebody asked for it, in one copy, for good, and it  *)
(* is on record as sent only after that.  The record may be given up again *)
(* (an operator offers the message anew, or a later attempt fails); the    *)
(* copy stays the only one.                                                *)
(***************************************************************************)
EXTENDS Integers

CONSTANT Messages

VARIABLES
    asked,          \* the messages whose delivery has been asked for
    copies,         \* per message, how often the provider has delivered it
    recorded        \* the messages on record as sent

deliveryVars == <<asked, copies, recorded>>

DeliveryStart ==
    /\ asked = {}
    /\ copies = [g \in Messages |-> 0]
    /\ recorded = {}

Ask(g) ==
    /\ asked' = asked \union {g}
    /\ UNCHANGED <<copies, recorded>>

Deliver(g) ==
    /\ g \in asked
    /\ copies[g] = 0
    /\ copies' = [copies EXCEPT ![g] = 1]
    /\ UNCHANGED <<asked, recorded>>

Record(g) ==
    /\ copies[g] = 1
    /\ recorded' = recorded \union {g}
    /\ UNCHANGED <<asked, copies>>

GiveUp(g) ==
    /\ recorded' = recorded \ {g}
    /\ UNCHANGED <<asked, copies>>

DeliveryNext == \E g \in Messages : Ask(g) \/ Deliver(g) \/ Record(g) \/ GiveUp(g)

DeliverySpec == DeliveryStart /\ [][DeliveryNext]_deliveryVars

----------------------------------------------------------------------------
\* Every copy was asked for and is the only one, and what is on record was
\* delivered.
RecordsAreCopies ==
    /\ asked \subseteq Messages
    /\ copies \in [Messages -> {0, 1}]
    /\ \A g \in Messages : copies[g] = 1 => g \in asked
    /\ recorded \subseteq {g \in Messages : copies[g] = 1}
=============================================================================
