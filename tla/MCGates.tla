------------------------------ MODULE MCGates ------------------------------
(* A small instance of OutreachGates for TLC: one member with a second message *)
(* that an operator adds.                                                      *)
EXTENDS OutreachGates, TLC

CONSTANTS w1, c1, k1

MCMemberOf    == 1 :> 1 @@ 2 :> 1
MCCampaignOf  == 1 :> c1
MCCandidateOf == 1 :> k1

Once   == [c \in Campaigns |-> 1]
Often  == [c \in Campaigns |-> 9]
AtOnce == [c \in Campaigns |-> 0]

MCCandidateEdits ==
    {[status |-> "READY", dnc |-> FALSE, phone |-> TRUE],
     [status |-> "REQUIRES_HUMAN", dnc |-> FALSE, phone |-> TRUE]}
\* A text taken away, and a later schedule.
MCEntries == {[content |-> FALSE, scheduledAt |-> 1]}
MCMemberEdits == {[status |-> "READY", human |-> h] : h \in BOOLEAN}

\* audit, retries and sends are only ever written, when operators change no
\* status: the properties of these runs do not read them.
Observed == <<now, outbound, people, status, content, scheduledAt, sentAt, job, open>>
=============================================================================
