---------------------------- MODULE AgentContract ----------------------------
(***************************************************************************)
(* What an admissions agent may answer (agents/schemas.py) and how the     *)
(* OpenClaw client takes an answer out of a gateway response               *)
(* (agents/openclaw.py).  A text is told apart by what strip() and the     *)
(* length limits make of it.                                               *)
(***************************************************************************)
EXTENDS Integers, Sequences

\* "padded" keeps its limit only once stripped, "long" not even then.
Texts  == {"empty", "spaces", "text", "padded", "long"}
NoText == {"null", "number"}

AgentAction == {"send", "human_review", "skip"}

\* A decoded JSON value: "fields" says whether it is an object with the four
\* keys, with one key more or less, or no object (or no JSON) at all.
Mappings == [fields   : {"exact", "more", "less", "no_object"},
             action   : AgentAction \union {"other"},
             message  : Texts \union NoText,
             requires : {"true", "false", "other"},
             reason   : Texts \union NoText]

Strip(t) == IF t = "padded" THEN "text" ELSE IF t = "spaces" THEN "empty" ELSE t

\* AgentDecision.from_mapping
Valid(v) ==
    /\ v.fields = "exact"
    /\ v.action \in AgentAction
    /\ v.message \in Texts
    /\ Strip(v.message) # "long"
    /\ v.requires \in {"true", "false"}
    /\ v.reason \in Texts \union {"null"}
    /\ Strip(v.reason) # "long"
    /\ v.action = "send" => Strip(v.message) # "empty" /\ v.requires = "false"
    /\ v.action = "human_review" => v.requires = "true" /\ Strip(v.reason) \notin {"empty", "null"}
    /\ v.action = "skip" => v.requires = "false"

Unstripped(v) == v
Decided(v) == [v EXCEPT !.message = Strip(v.message), !.reason = Strip(v.reason)]

Rejected == [fields |-> "no_object", action |-> "other", message |-> "null",
             requires |-> "other", reason |-> "null"]

FromMapping(v) == IF Valid(v) THEN Decided(v) ELSE Rejected

\* A response is a status and a sequence of items: function calls with their
\* arguments, messages with their output texts, and items of other types.
Items     == [type : STRING, name : STRING, texts : Seq(Mappings)]
Envelopes == [status : STRING, output : Seq(Items)]

Parts(response, type) ==
    {i \in DOMAIN response.output : response.output[i].type = type}

\* The one part that speaks for the response; with several, none does.
ParseResponse(response) ==
    LET calls    == Parts(response, "function_call")
        messages == Parts(response, "message")
        Only(set) == {i \in set : set = {i} /\ Len(response.output[i].texts) = 1}
        speaking == IF calls = {}
                      THEN Only(messages)
                      ELSE {i \in Only(calls) : response.output[i].name = "admissions_decision"}
    IN IF response.status = "completed" /\ speaking # {}
         THEN FromMapping(response.output[CHOOSE i \in speaking : TRUE].texts[1])
         ELSE Rejected

----------------------------------------------------------------------------
(* The contract as ADMISSIONS_DECISION_TOOL declares it: the four fields, no   *)
(* others, their types and lengths.                                            *)

ToolSchema(v) ==
    /\ v.fields = "exact"
    /\ v.action \in AgentAction
    /\ v.message \in Texts \ {"long"}
    /\ v.requires \in {"true", "false"}
    /\ v.reason \in (Texts \ {"long"}) \union {"null"}
=============================================================================
