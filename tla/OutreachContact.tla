--------------------------- MODULE OutreachContact ---------------------------
(***************************************************************************)
(* Outreach implements Contact: the stage of a message is read off the     *)
(* audit trail, the history of hand-overs, the workers that hold it and    *)
(* its status, in this order.  The status alone would not do: a worker     *)
(* that lost the enqueue race may overwrite it at any time.                *)
(***************************************************************************)
EXTENDS Outreach

StageOf(g) ==
    IF "MESSAGE_SENT" \in audit[g] THEN "confirmed"
    ELSE IF sends[g] > 0 THEN "handed"
    ELSE IF \E w \in Workers : BeforeSend(w, g) THEN "claimed"
    ELSE IF status[g] \in Offered THEN "open"
    ELSE "closed"

Abstract == INSTANCE Contact WITH
                stage <- [g \in Messages |-> StageOf(g)],
                count <- [m \in Members |-> member[m].sent]

\* Every behaviour of workers and operators that do not put a handled message
\* on offer by hand is one that Contact allows: claims, hand-overs,
\* confirmations and counts happen in its order and one message at a time.
ImplementsContact == Abstract!ContactSpec
=============================================================================
