------------------------------ MODULE OpenClaw ------------------------------
(***************************************************************************)
(* The exchanges of workers with the agent and with the OpenClaw Gateway:  *)
(* generation through an admissions agent (agents/services.py), delivery   *)
(* through OpenClawWhatsAppSender (messaging/sender.py), and the client of *)
(* both (agents/openclaw.py), over a network that loses and delays         *)
(* requests and answers.  Which worker may work on a message, and when, is *)
(* the matter of Outreach: here a claim, its checks and the call are one   *)
(* step.  The gateway is external: it delivers a request once per          *)
(* idempotency key, as the client's use of the key supposes.               *)
(***************************************************************************)
EXTENDS AgentContract, FiniteSets

CONSTANTS
    Workers,
    Messages,
    MaxAttempts,    \* bound: calls for delivery per message
    Endpoints,      \* what OPENCLAW_ENDPOINT and OPENCLAW_AUTH_TOKEN may be set to
    Agents,         \* what ADMISSIONS_AGENT_BACKEND may be set to
    Proposals,      \* what an agent may propose
    Responses,      \* what the gateway answers to a request for a decision
    Answers,        \* what the gateway answers to a request for delivery
    AdminStatuses,  \* message statuses an operator sets by hand
    KeyEdits        \* idempotency keys an operator gives messages by hand

Hosts  == {"localhost", "private_name", "loopback", "private_address", "link_local",
           "carrier_grade_nat", "public_address", "public_name", "none"}
Schemes == {"http", "https", "other"}
Endpoint == [scheme : Schemes, host : Hosts, credentials : BOOLEAN, token : BOOLEAN]

Statuses == {"PENDING", "GENERATING", "READY", "SENDING", "SENT", "FAILED", "CANCELLED",
             "REQUIRES_HUMAN"}

\* The answer of /tools/invoke: whether it says ok and has a details object,
\* and the message ids in the details and in their nested result.
Ids    == {"none", "spaces", "id"}
Answer == [ok : BOOLEAN, details : BOOLEAN, id : Ids, nested : Ids]
NoAnswer == [ok |-> FALSE, details |-> FALSE, id |-> "none", nested |-> "none"]

\* A message's own key is <<g, 1>>; a blank one is NoKey.
NoKey == <<0, 0>>
Keys  == (Messages \X Nat) \union {NoKey}

ASSUME ExchangeAssumption ==
    /\ MaxAttempts \in Nat
    /\ 0 \notin Messages
    /\ Endpoints \subseteq Endpoint
    /\ Agents \subseteq {"template", "openclaw", "custom"}
    /\ Proposals \subseteq Mappings
    /\ Responses \subseteq Envelopes
    /\ Answers \subseteq Answer
    /\ AdminStatuses \subseteq Statuses \ {"SENT"}
    /\ KeyEdits \subseteq Keys

VARIABLES
    endpoint, agent,    \* the settings, fixed while the processes run
    status, content, key,       \* Message.status, .content and .idempotency_key
    human,              \* CampaignMember.human_required
    attempts,           \* calls for delivery so far, per message
    call,               \* what each worker is waiting for
    net,                \* requests for delivery on their way to the gateway
    known,              \* gateway: the keys it has delivered
    delivered           \* history: the requests it has delivered

settings == <<endpoint, agent>>
rows     == <<status, content, key, human, attempts>>
gateway  == <<net, known, delivered>>
vars     == <<settings, rows, call, gateway>>

Idle == [task |-> "none", g |-> 0, n |-> 0, answered |-> FALSE, answer |-> NoAnswer]
Wait(task, g, n) ==
    [task |-> task, g |-> g, n |-> n, answered |-> FALSE, answer |-> NoAnswer]
Answered(c, answer) ==
    [task |-> c.task, g |-> c.g, n |-> c.n, answered |-> TRUE, answer |-> answer]

KeyEachAttempt(g) == IF key[g] = NoKey THEN NoKey ELSE <<g, attempts[g] + 1>>
Key(g) == key[g]

Init ==
    /\ endpoint \in Endpoints
    /\ agent \in Agents
    /\ key = [g \in Messages |-> <<g, 1>>]
    /\ status = [g \in Messages |-> "PENDING"]
    /\ content = [g \in Messages |-> "empty"]
    /\ human = [g \in Messages |-> FALSE]
    /\ attempts = [g \in Messages |-> 0]
    /\ call = [w \in Workers |-> Idle]
    /\ net = {}
    /\ known = {}
    /\ delivered = {}

----------------------------------------------------------------------------
(* OpenClawClient.validate_configuration *)

PrivateHosts == Hosts \ {"public_address", "public_name", "none"}

Configured ==
    /\ endpoint.token
    /\ endpoint.scheme \in {"http", "https"}
    /\ endpoint.host # "none"
    /\ ~endpoint.credentials
    /\ endpoint.scheme = "http" => endpoint.host \in PrivateHosts

----------------------------------------------------------------------------
(* Generation. *)

Doing(w, task) == call[w].task = task
HangUp(w) == call' = [call EXCEPT ![w] = Idle]
SetStatus(g, s) == status' = [status EXCEPT ![g] = s]

StartGeneration(w, g) ==
    /\ Doing(w, "none")
    /\ status[g] = "PENDING"
    /\ SetStatus(g, "GENERATING")
    /\ call' = [call EXCEPT ![w] = Wait("decision", g, 0)]
    /\ UNCHANGED <<settings, key, content, human, attempts, gateway>>

Template == [Rejected EXCEPT !.fields = "exact", !.action = "send", !.message = "text",
                             !.requires = "false"]
Parsed == {ParseResponse(r) : r \in Responses}

\* What recommend() returns: the template, the parsed response of the gateway,
\* or whatever typed object a custom backend makes up.
Recommended ==
    CASE agent = "template" -> {Template}
      [] agent = "openclaw" -> IF Configured THEN Parsed ELSE {}
      [] agent = "custom"   -> {v \in Proposals : v.fields = "exact"}

\* generate_pending_message validates every proposal (again) before it acts.
AsProposed(v) == Decided(v)
Revalidated(v) == FromMapping(v)

ApplyDecision(w) ==
    /\ Doing(w, "decision")
    /\ LET g == call[w].g IN
       /\ status[g] = "GENERATING"
       /\ \E v \in Recommended :
            LET decision == Revalidated(v) IN
            /\ decision # Rejected
            /\ content' = [content EXCEPT ![g] = decision.message]
            /\ \/ decision.action = "send" /\ SetStatus(g, "READY") /\ UNCHANGED human
               \/ /\ decision.action = "human_review"
                  /\ SetStatus(g, "REQUIRES_HUMAN")
                  /\ human' = [human EXCEPT ![g] = TRUE]
               \/ decision.action = "skip" /\ SetStatus(g, "CANCELLED") /\ UNCHANGED human
    /\ HangUp(w)
    /\ UNCHANGED <<settings, key, attempts, gateway>>

DecisionContended(w) ==
    /\ Doing(w, "decision")
    /\ status[call[w].g] # "GENERATING"
    /\ HangUp(w)
    /\ UNCHANGED <<settings, rows, gateway>>

\* A rejected proposal, a configuration error, an HTTP error or a timeout.
FailGeneration(w) ==
    /\ Doing(w, "decision")
    /\ \/ agent # "template"
       \/ \E v \in Recommended : Revalidated(v) = Rejected
    /\ SetStatus(call[w].g, "FAILED")
    /\ HangUp(w)
    /\ UNCHANGED <<settings, key, content, human, attempts, gateway>>

----------------------------------------------------------------------------
(* Delivery. *)

HasContent(g) == Strip(content[g]) # "empty"

\* send_whatsapp refuses to send without content or an idempotency key.
AnyKey(g) == HasContent(g)
Deliverable(g) == HasContent(g) /\ key[g] # NoKey

StartDelivery(w, g) ==
    /\ Doing(w, "none")
    /\ status[g] = "READY"
    /\ Configured /\ Deliverable(g)
    /\ attempts[g] < MaxAttempts
    /\ SetStatus(g, "SENDING")
    /\ attempts' = [attempts EXCEPT ![g] = attempts[g] + 1]
    /\ net' = net \union {[g |-> g, n |-> attempts[g] + 1, key |-> Key(g)]}
    /\ call' = [call EXCEPT ![w] = Wait("delivery", g, attempts[g] + 1)]
    /\ UNCHANGED <<settings, key, content, human, known, delivered>>

\* The policy blocks a message without content before any sender sees it.
BlockBlank(w, g) ==
    /\ Doing(w, "none")
    /\ status[g] = "READY"
    /\ ~HasContent(g)
    /\ SetStatus(g, "CANCELLED")
    /\ UNCHANGED <<settings, key, content, human, attempts, call, gateway>>

RefuseDelivery(w, g) ==
    /\ Doing(w, "none")
    /\ status[g] = "READY"
    /\ HasContent(g)
    /\ ~(Configured /\ Deliverable(g))
    /\ SetStatus(g, "FAILED")
    /\ UNCHANGED <<settings, key, content, human, attempts, call, gateway>>

\* _parse_delivery_response: only an answer with a message id is a delivery.
ProviderId(answer) == IF answer.id # "none" THEN answer.id ELSE answer.nested
ConfirmsUnstripped(answer) == answer.ok /\ answer.details /\ ProviderId(answer) # "none"
Confirms(answer) == answer.ok /\ answer.details /\ ProviderId(answer) = "id"

CommitSent(w) ==
    /\ Doing(w, "delivery")
    /\ call[w].answered
    /\ Confirms(call[w].answer)
    /\ SetStatus(call[w].g, "SENT")
    /\ HangUp(w)
    /\ UNCHANGED <<settings, key, content, human, attempts, gateway>>

\* An answer without confirmation, an HTTP error, or no answer in time; what
\* has become of the request is not known.
CommitFailed(w) ==
    /\ Doing(w, "delivery")
    /\ ~(call[w].answered /\ Confirms(call[w].answer))
    /\ SetStatus(call[w].g, "FAILED")
    /\ HangUp(w)
    /\ UNCHANGED <<settings, key, content, human, attempts, gateway>>

\* The worker is killed: what it had claimed stays so, its request goes on.
Crash(w) ==
    /\ ~Doing(w, "none")
    /\ HangUp(w)
    /\ UNCHANGED <<settings, rows, gateway>>

----------------------------------------------------------------------------
(* The gateway and the operators. *)

\* An answer reaches the call it belongs to, if somebody still waits for it.
Reply(r, answer) ==
    call' = [w \in Workers |->
                IF Doing(w, "delivery") /\ call[w].g = r.g /\ call[w].n = r.n
                  THEN Answered(call[w], answer)
                  ELSE call[w]]

Deliver(r) ==
    /\ delivered' = IF r.key \in known THEN delivered ELSE delivered \union {r}
    /\ known' = known \union {r.key}
    /\ \E answer \in Answers : Reply(r, answer)

\* Whatever it answers instead, it names no message id.
Decline(r) ==
    /\ \E answer \in Answers : "id" \notin {answer.id, answer.nested} /\ Reply(r, answer)
    /\ UNCHANGED <<known, delivered>>

Lose(r) == UNCHANGED <<known, delivered, call>>

GatewayStep ==
    /\ \E r \in net : net' = net \ {r} /\ (Deliver(r) \/ Decline(r) \/ Lose(r))
    /\ UNCHANGED <<settings, rows>>

\* The Message form; its text field is stripped when it is saved, and no two
\* messages have the same key unless it is blank.  A message that was added by
\* hand is one that was edited before anything else happened to it.
EditMessage(g) ==
    /\ \E s \in AdminStatuses : SetStatus(g, s)
    /\ \E t \in {content[g], "text", "empty"} : content' = [content EXCEPT ![g] = t]
    /\ \E k \in KeyEdits \union {key[g]} :
         /\ k = NoKey \/ \A h \in Messages \ {g} : key[h] # k
         /\ key' = [key EXCEPT ![g] = k]
    /\ UNCHANGED <<settings, human, attempts, call, gateway>>

Next ==
    \/ \E w \in Workers :
         \/ \E g \in Messages : \/ StartGeneration(w, g) \/ StartDelivery(w, g)
                                \/ BlockBlank(w, g) \/ RefuseDelivery(w, g)
         \/ ApplyDecision(w) \/ DecisionContended(w) \/ FailGeneration(w)
         \/ CommitSent(w) \/ CommitFailed(w) \/ Crash(w)
    \/ GatewayStep
    \/ \E g \in Messages : EditMessage(g)

Spec == Init /\ [][Next]_vars

----------------------------------------------------------------------------
(* What must hold. *)

Request == [g : Messages, n : Nat, key : Keys]

Calls == [task : {"none", "decision", "delivery"}, g : Messages \union {0}, n : Nat,
          answered : BOOLEAN, answer : Answer]

\* Every variable has its type: what decisions store is stripped, so no content
\* is over its limit, and a worker that waits knows for which message.
TypeOK ==
    /\ endpoint \in Endpoint
    /\ agent \in {"template", "openclaw", "custom"}
    /\ status \in [Messages -> Statuses]
    /\ content \in [Messages -> {"empty", "text"}]
    /\ key \in [Messages -> Keys]
    /\ human \in [Messages -> BOOLEAN]
    /\ attempts \in [Messages -> Nat]
    /\ call \in [Workers -> Calls]
    /\ \A w \in Workers : call[w].task # "none" => call[w].g \in Messages
    /\ net \subseteq Request
    /\ known \subseteq Keys
    /\ delivered \subseteq Request

\* Operators may blank a message's key, and give none another one.  With a new
\* key the gateway cannot know a request again, and with another message's
\* former key it takes it for that message's.
NoNewKeys == KeyEdits \subseteq {NoKey}

\* A message counts as sent only when the provider has delivered it, however
\* its requests and answers were lost, delayed or retried: neither another
\* message's delivery nor an answer that names no message id confirms it.
\* NoNewKeys is its condition, and that of DeliveredOnce and ImplementsDelivery.
SentIsDelivered ==
    \A g \in Messages : status[g] = "SENT" => \E r \in delivered : r.g = g

\* A message whose delivery was recorded as failed and which operators offer
\* again, or whose worker was killed while it waited, is not delivered twice:
\* all its requests carry the same key.
DeliveredOnce ==
    \A r, q \in delivered : r.g = q.g => r = q

\* Whatever an agent of any kind answers, Django acts only on what the declared
\* tool schema allows (up to the blanks around a text), does what that decision
\* says, and locks the member of a proposal that asks for a human.
ActsOnContract ==
    [][\A w \in Workers :
         LET g == call[w].g IN
         (/\ Doing(w, "decision") /\ call'[w] = Idle
          /\ status[g] = "GENERATING" /\ status'[g] \notin {"GENERATING", "FAILED"})
           => \E v \in Recommended :
                /\ ToolSchema(Decided(v))
                /\ status'[g] = CASE v.action = "send"         -> "READY"
                                   [] v.action = "human_review" -> "REQUIRES_HUMAN"
                                   [] v.action = "skip"         -> "CANCELLED"
                /\ content'[g] = Strip(v.message)
                /\ v.requires = "true" => human'[g]]_vars

\* The exchange in terms of Delivery: a message is asked for at its first call,
\* its copies are the requests the provider has delivered, and it is on record
\* while its status is SENT.
Promise == INSTANCE Delivery WITH
               asked <- {g \in Messages : attempts[g] > 0},
               copies <- [g \in Messages |-> Cardinality({r \in delivered : r.g = g})],
               recorded <- {g \in Messages : status[g] = "SENT"}

\* Every behaviour of workers, gateway, network and operators is one that
\* Delivery allows: requests are delivered after somebody sent them, a copy is
\* never taken back or followed by another one, and no status becomes SENT
\* before its copy.
ImplementsDelivery == Promise!DeliverySpec
=============================================================================
