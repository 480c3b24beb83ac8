------------------------------- MODULE Contact -------------------------------
(***************************************************************************)
(* What the messaging core promises about each message, whatever workers,  *)
(* crashes and operators do: it is on offer until somebody claims it, only *)
(* its claimant hands it to the sender or gives it back, it is handed over *)
(* once, only a message that was handed over is confirmed, and the member  *)
(* counts exactly the confirmed ones.  A message that leaves this path is  *)
(* closed and never returns to it.                                         *)
(***************************************************************************)
EXTENDS Integers, FiniteSets

CONSTANTS
    Messages,
    MemberOf        \* the member each message is for

VARIABLES
    stage,          \* per message
    count           \* per member, the confirmed messages

contactVars == <<stage, count>>

Recipients    == {MemberOf[g] : g \in Messages}
ContactStages == {"open", "claimed", "handed", "confirmed", "closed"}

ContactInit ==
    /\ stage = [g \in Messages |-> "open"]
    /\ count = [m \in Recipients |-> 0]

Moves(g, from, to) ==
    /\ stage[g] = from
    /\ stage' = [stage EXCEPT ![g] = to]

Claim(g)    == Moves(g, "open", "claimed") /\ UNCHANGED count
GiveBack(g) == Moves(g, "claimed", "open") /\ UNCHANGED count
HandOver(g) == Moves(g, "claimed", "handed") /\ UNCHANGED count

Confirm(g) ==
    /\ Moves(g, "handed", "confirmed")
    /\ count' = [count EXCEPT ![MemberOf[g]] = @ + 1]

\* Refused, cancelled, left to a human, or lost with its claimant.
Close(g) == (Moves(g, "open", "closed") \/ Moves(g, "claimed", "closed")) /\ UNCHANGED count

ContactNext ==
    \E g \in Messages : Claim(g) \/ GiveBack(g) \/ HandOver(g) \/ Confirm(g) \/ Close(g)

ContactSpec == ContactInit /\ [][ContactNext]_contactVars

----------------------------------------------------------------------------
ContactTypes ==
    /\ stage \in [Messages -> ContactStages]
    /\ count \in [Recipients -> Nat]

ConfirmedFor(m) == {g \in Messages : MemberOf[g] = m /\ stage[g] = "confirmed"}

\* A member's count is the number of its confirmed messages.
CountsConfirmed ==
    \A m \in Recipients : IsFiniteSet(ConfirmedFor(m)) /\ count[m] = Cardinality(ConfirmedFor(m))
=============================================================================
