---------------------------- MODULE OutreachGates ----------------------------
(***************************************************************************)
(* Outreach with a history variable: the gates that each worker could have *)
(* found open since it last put its hand on a message, by claiming it for  *)
(* generation or for sending, or by selecting it.  It tells whether a      *)
(* worker acts on rows that were read too long ago.                        *)
(***************************************************************************)
EXTENDS Outreach

VARIABLE open       \* per worker, the gates that were open at some moment since

gatesVars == <<vars, open>>

Gates == {"resumed", "active", "contactable", "unattended"}

\* The gates that let message g through now.
GatesOpen(g) ==
    LET c == campaign[CampaignOfMsg(g)]
        k == candidate[CandidateOfMsg(g)] IN
    {gate \in Gates :
        CASE gate = "resumed"     -> outbound
          [] gate = "active"      -> c = "ACTIVE"
          [] gate = "contactable" -> ~k.dnc /\ k.status # "DO_NOT_CONTACT"
          [] gate = "unattended"  -> ~member[MemberOf[g]].human /\ k.status # "REQUIRES_HUMAN"}

\* A worker starts to watch anew when it enqueues or selects a message, loads
\* it again after generation, and claims it for sending.
Watches(w) == pc'[w] # pc[w] /\ pc'[w] \in {"check", "decide", "final"} /\ pc[w] # "check"

GatesInit == Init /\ open = [w \in Workers |-> {}]

GatesNext ==
    /\ Next
    /\ open' = [w \in Workers |->
                  IF msg'[w] = NoMessage THEN {}
                  ELSE IF Watches(w) THEN GatesOpen(msg[w])'
                  ELSE open[w] \union GatesOpen(msg[w])']

GatesSpec == GatesInit /\ [][GatesNext]_gatesVars

GatesTypeOK == TypeOK /\ open \in [Workers -> SUBSET Gates]

\* A message is handed to the sender only if, after the worker claimed it,
\* outbound messaging was resumed, its campaign active, its candidate
\* contactable and its member free of a human, each at some moment: a pause, an
\* opt-out or an escalation that was there when the message was claimed and is
\* still there stops it, whatever the worker read before.
GatesOpenSinceClaim ==
    \A w \in Workers : pc[w] \in {"approve", "send"} => open[w] = Gates

\* The agent is asked only for a message whose gates were all open at some
\* moment since the worker selected it.
GatesOpenSinceSelection ==
    \A w \in Workers : pc[w] \in {"claim_generation", "generate"} => open[w] = Gates
=============================================================================
