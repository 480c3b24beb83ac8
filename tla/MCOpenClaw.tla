----------------------------- MODULE MCOpenClaw -----------------------------
(* Small instances of OpenClaw for TLC. *)
EXTENDS OpenClaw, TLC

Symmetry == Permutations(Messages) \union Permutations(Workers)

EndpointOf(scheme, host) ==
    [scheme |-> scheme, host |-> host, credentials |-> FALSE, token |-> TRUE]

EndpointsMC ==
    {EndpointOf("http", "carrier_grade_nat"), EndpointOf("http", "public_address"),
     EndpointOf("other", "loopback"), EndpointOf("https", "none"),
     [EndpointOf("http", "loopback") EXCEPT !.credentials = TRUE],
     [EndpointOf("http", "loopback") EXCEPT !.token = FALSE]}

Send == [fields |-> "exact", action |-> "send", message |-> "text", requires |-> "false",
         reason |-> "null"]
Review == [Send EXCEPT !.action = "human_review", !.message = "empty", !.requires = "true",
                       !.reason = "text"]
Skip == [Send EXCEPT !.action = "skip", !.message = "empty"]

\* What a custom agent proposes: one that only just keeps the contract, and one
\* that breaks it.  (The template sends, and the gateway asks for a review.)
Varied == {[Skip EXCEPT !.message = "padded"], [Review EXCEPT !.requires = "other"]}

Item(type, name, texts) == [type |-> type, name |-> name, texts |-> texts]
Said(v)   == Item("message", "none", <<v>>)
Called(v) == Item("function_call", "admissions_decision", <<v>>)
Completed(output) == [status |-> "completed", output |-> output]

\* The gateway answers with a decision as the only message, after reasoning, as
\* the declared call beside another message, or in a form that is refused.
ResponsesMC ==
    {Completed(<<Said(Review)>>), Completed(<<Item("reasoning", "none", <<>>), Said(Review)>>),
     Completed(<<Called(Review), Said(Send)>>), Completed(<<Called(Send), Called(Review)>>),
     Completed(<<Said(Review), Said(Send)>>), Completed(<<Item("message", "none", <<Send, Review>>)>>),
     Completed(<<Item("function_call", "other", <<Send>>), Said(Send)>>),
     Completed(<<>>), [status |-> "failed", output |-> <<Said(Send)>>]}

AnswersMC ==
    {[NoAnswer EXCEPT !.ok = TRUE, !.details = TRUE, !.nested = "id"],
     [NoAnswer EXCEPT !.ok = TRUE, !.details = TRUE, !.id = "spaces"]}

\* An operator may blank the key of a message.
KeyEditsMC == {NoKey}
=============================================================================
