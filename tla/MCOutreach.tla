----------------------------- MODULE MCOutreach -----------------------------
(* Small instances of Outreach for TLC. *)
EXTENDS OutreachContact, TLC

CONSTANTS w1, w2, c1, c2, k1, k2

Symmetry == Permutations(Workers)

\* One member, whose initial message is 1.
SoloMemberOf    == 1 :> 1
SoloCampaignOf  == 1 :> c1
SoloCandidateOf == 1 :> k1

\* Two members of one campaign, and a message 3 an operator adds for the first.
TeamMemberOf    == 1 :> 1 @@ 2 :> 2 @@ 3 :> 1
TeamCampaignOf  == 1 :> c1 @@ 2 :> c1
TeamCandidateOf == 1 :> k1 @@ 2 :> k2

\* The same without the added message.
PairMemberOf    == 1 :> 1 @@ 2 :> 2

\* One candidate in two campaigns.
DualCampaignOf  == 1 :> c1 @@ 2 :> c2
DualCandidateOf == 1 :> k1 @@ 2 :> k1

\* A member with a second message an operator adds.
ExtraMemberOf   == 1 :> 1 @@ 2 :> 1

\* audit, retries and sends are only ever written, when operators change no
\* status: a run whose properties do not read them need not tell them apart.
Observed == <<now, outbound, people, status, content, scheduledAt, sentAt, job>>

One     == [c \in Campaigns |-> 1]
Two     == [c \in Campaigns |-> 2]
Many    == [c \in Campaigns |-> 9]
Nought  == [c \in Campaigns |-> 0]

ReinstatedMC == {[status |-> "READY", dnc |-> FALSE, phone |-> TRUE]}
CandidateEditsMC ==
    {[status |-> "READY", dnc |-> FALSE, phone |-> TRUE],
     [status |-> "REQUIRES_HUMAN", dnc |-> FALSE, phone |-> TRUE],
     [status |-> "INVALID", dnc |-> FALSE, phone |-> FALSE]}
EntriesMC == {[content |-> TRUE, scheduledAt |-> 0]}
MemberEditsMC == {[status |-> "READY", human |-> h] : h \in BOOLEAN}
=============================================================================
