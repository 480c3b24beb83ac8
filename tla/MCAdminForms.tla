---------------------------- MODULE MCAdminForms ----------------------------
(* A small instance of AdminForms for TLC. *)
EXTENDS AdminForms, TLC

CONSTANTS c1, k1

Symmetry == Permutations(Workers)

SoloMemberOf    == 1 :> 1
SoloCampaignOf  == 1 :> c1
SoloCandidateOf == 1 :> k1

CountEditsMC == {[sent |-> 0, first |-> Never, last |-> 0]}

Many   == [c \in Campaigns |-> 9]
Nought == [c \in Campaigns |-> 0]
=============================================================================
