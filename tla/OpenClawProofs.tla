--------------------------- MODULE OpenClawProofs ---------------------------
(***************************************************************************)
(* Deliveries through OpenClaw happen once and are recorded only when they *)
(* happened, for any number of workers, messages, retries and lost or late *)
(* answers, as long as operators give no message another idempotency key;  *)
(* and only decisions that keep the contract are acted on.                 *)
(***************************************************************************)
EXTENDS OpenClaw, FiniteSetTheorems, TLAPS

----------------------------------------------------------------------------
(* The contract. *)

LEMMA StripOnce ==
    \A t : Strip(Strip(t)) = Strip(t)
  BY DEF Strip

LEMMA DecisionTypes ==
    ASSUME NEW v \in Mappings
    PROVE  /\ FromMapping(v) \in Mappings
           /\ FromMapping(v) # Rejected =>
                /\ Valid(v)
                /\ FromMapping(v) = Decided(v)
                /\ Decided(v).message \in {"empty", "text"}
                /\ Decided(v).action = v.action
                /\ ToolSchema(Decided(v))
  <1>1. CASE Valid(v)
    <2>1. /\ Decided(v).message = Strip(v.message)
          /\ Decided(v).reason = Strip(v.reason)
          /\ Decided(v).fields = v.fields
          /\ Decided(v).action = v.action
          /\ Decided(v).requires = v.requires
      BY DEF Decided, Mappings
    <2>2. /\ Strip(v.message) \in {"empty", "text"}
          /\ Strip(v.reason) \in (Texts \ {"long"}) \union {"null"}
      BY <1>1 DEF Valid, Strip, Texts
    <2>3. Decided(v) \in Mappings
      BY <1>1, <2>2 DEF Decided, Mappings, Texts, NoText
    <2>4. ToolSchema(Decided(v))
      BY <1>1, <2>1, <2>2 DEF Valid, ToolSchema, Texts
    <2>. QED
      BY <1>1, <2>1, <2>2, <2>3, <2>4 DEF FromMapping
  <1>2. CASE ~Valid(v)
    BY <1>2 DEF FromMapping, Rejected, Mappings, NoText
  <1>. QED
    BY <1>1, <1>2

\* A decision that passed the validation of the client passes the validation
\* of generate_pending_message, and is not changed by it.
THEOREM RevalidationKeeps ==
    ASSUME NEW v \in Mappings, Valid(v)
    PROVE  Valid(Decided(v)) /\ Decided(Decided(v)) = Decided(v)
  <1>1. ASSUME NEW u \in Mappings, Valid(u)
        PROVE  /\ Decided(u) \in Mappings
               /\ Decided(u).message = Strip(u.message)
               /\ Decided(u).reason = Strip(u.reason)
               /\ Decided(u).fields = u.fields
               /\ Decided(u).action = u.action
               /\ Decided(u).requires = u.requires
    <2>1. Decided(u) \in Mappings
      BY <1>1, DecisionTypes DEF FromMapping
    <2>. QED
      BY <2>1 DEF Decided, Mappings
  <1>2. Strip(v.message) \in Texts /\ Strip(v.reason) \in Texts \union {"null"}
    BY DEF Valid, Strip, Texts
  <1>3. Valid(Decided(v))
    BY <1>1, <1>2, StripOnce DEF Valid
  <1>4. Decided(v).message = Strip(Decided(v).message) /\ Decided(v).reason = Strip(Decided(v).reason)
    BY <1>1, StripOnce
  <1>5. Decided(v) = [Decided(v) EXCEPT !.message = Decided(v).message, !.reason = Decided(v).reason]
    BY <1>1 DEF Mappings
  <1>. QED
    BY <1>3, <1>4, <1>5 DEF Decided

LEMMA ParsedType ==
    ASSUME NEW r \in Envelopes
    PROVE  ParseResponse(r) \in Mappings
  <1>1. Rejected \in Mappings
    BY DEF Rejected, Mappings, NoText
  <1>2. ASSUME NEW i \in DOMAIN r.output, Len(r.output[i].texts) = 1
        PROVE  FromMapping(r.output[i].texts[1]) \in Mappings
    <2>1. r.output[i] \in Items
      BY DEF Envelopes
    <2>2. r.output[i].texts \in Seq(Mappings)
      BY <2>1 DEF Items
    <2>3. r.output[i].texts[1] \in Mappings
      BY <1>2, <2>2
    <2>. QED
      BY <2>3, DecisionTypes
  <1>. DEFINE calls    == Parts(r, "function_call")
              messages == Parts(r, "message")
              Only(set) == {i \in set : set = {i} /\ Len(r.output[i].texts) = 1}
              speaking == IF calls = {}
                            THEN Only(messages)
                            ELSE {i \in Only(calls) : r.output[i].name = "admissions_decision"}
  <1>3. \A i \in speaking : i \in DOMAIN r.output /\ Len(r.output[i].texts) = 1
    BY DEF Parts
  <1>4. speaking # {} => (CHOOSE i \in speaking : TRUE) \in speaking
    OBVIOUS
  <1>5. ParseResponse(r) = IF r.status = "completed" /\ speaking # {}
                             THEN FromMapping(r.output[CHOOSE i \in speaking : TRUE].texts[1])
                             ELSE Rejected
    BY DEF ParseResponse
  <1>. HIDE DEF speaking
  <1>. QED
    BY <1>1, <1>2, <1>3, <1>4, <1>5

\* A decision taken out of a response is that of one part: the only function
\* call, if it is the declared one, or the only message of a response without
\* calls; a second part of the same type leaves no decision.
THEOREM OnePartSpeaks ==
    ASSUME NEW r \in Envelopes, ParseResponse(r) # Rejected
    PROVE  /\ r.status = "completed"
           /\ \E type \in {"function_call", "message"} : \E i \in DOMAIN r.output :
                 /\ Parts(r, type) = {i}
                 /\ Len(r.output[i].texts) = 1
                 /\ type = "function_call" => r.output[i].name = "admissions_decision"
                 /\ type = "message" => Parts(r, "function_call") = {}
                 /\ Valid(r.output[i].texts[1])
                 /\ ParseResponse(r) = Decided(r.output[i].texts[1])
  <1>. DEFINE calls    == Parts(r, "function_call")
              messages == Parts(r, "message")
              Only(set) == {i \in set : set = {i} /\ Len(r.output[i].texts) = 1}
              speaking == IF calls = {}
                            THEN Only(messages)
                            ELSE {i \in Only(calls) : r.output[i].name = "admissions_decision"}
  <1>1. ParseResponse(r) = IF r.status = "completed" /\ speaking # {}
                             THEN FromMapping(r.output[CHOOSE i \in speaking : TRUE].texts[1])
                             ELSE Rejected
    BY DEF ParseResponse
  <1>2. r.status = "completed" /\ speaking # {}
    BY <1>1
  <1>3. PICK i \in speaking : i = CHOOSE j \in speaking : TRUE
    BY <1>2
  <1>4. /\ Valid(r.output[i].texts[1])
        /\ ParseResponse(r) = Decided(r.output[i].texts[1])
    BY <1>1, <1>2, <1>3 DEF FromMapping
  <1>5. i \in DOMAIN r.output
    BY <1>3 DEF Parts
  <1>6. CASE calls = {}
    <2>1. messages = {i} /\ Len(r.output[i].texts) = 1
      BY <1>3, <1>6
    <2>. QED
      BY <1>2, <1>4, <1>5, <1>6, <2>1
  <1>7. CASE calls # {}
    <2>1. /\ calls = {i} /\ Len(r.output[i].texts) = 1
          /\ r.output[i].name = "admissions_decision"
      BY <1>3, <1>7
    <2>. QED
      BY <1>2, <1>4, <1>5, <2>1
  <1>. QED
    BY <1>6, <1>7

----------------------------------------------------------------------------
(* Types. *)

LEMMA ProposalTypes ==
    ASSUME agent \in {"template", "openclaw", "custom"}, NEW v \in Recommended
    PROVE  v \in Mappings
  <1>1. CASE agent = "template"
    BY <1>1 DEF Recommended, Template, Rejected, Mappings, Texts, NoText, AgentAction
  <1>2. CASE agent = "openclaw"
    BY <1>2, ParsedType, ExchangeAssumption DEF Recommended, Parsed, ExchangeAssumption
  <1>3. CASE agent = "custom"
    BY <1>3, ExchangeAssumption DEF Recommended, ExchangeAssumption
  <1>. QED
    BY <1>1, <1>2, <1>3

LEMMA CallTypes ==
    /\ NoAnswer \in Answer
    /\ Idle \in Calls
    /\ Idle.task = "none"
    /\ \A task \in {"decision", "delivery"}, g \in Messages, n \in Nat :
          /\ Wait(task, g, n) \in Calls
          /\ Wait(task, g, n).task = task
          /\ Wait(task, g, n).g = g
          /\ Wait(task, g, n).n = n
          /\ Wait(task, g, n).answered = FALSE
  BY DEF NoAnswer, Answer, Ids, Idle, Calls, Wait

LEMMA TypeInit ==
    Init => TypeOK
  <1>2. ASSUME Init PROVE key \in [Messages -> Keys]
    <2>1. \A g \in Messages : <<g, 1>> \in Keys
      BY DEF Keys
    <2>. QED
      BY <1>2, <2>1 DEF Init
  <1>3. ASSUME Init PROVE endpoint \in Endpoint /\ agent \in {"template", "openclaw", "custom"}
    BY <1>3, ExchangeAssumption DEF Init, ExchangeAssumption
  <1>4. ASSUME Init PROVE /\ call \in [Workers -> Calls]
                          /\ \A w \in Workers : call[w].task = "none"
    BY <1>4, CallTypes DEF Init
  <1>5. ASSUME Init PROVE /\ status \in [Messages -> Statuses]
                          /\ content \in [Messages -> {"empty", "text"}]
                          /\ human \in [Messages -> BOOLEAN]
                          /\ attempts \in [Messages -> Nat]
    BY <1>5 DEF Init, Statuses
  <1>6. ASSUME Init PROVE net \subseteq Request /\ known \subseteq Keys /\ delivered \subseteq Request
    BY <1>6 DEF Init
  <1>. QED
    BY <1>2, <1>3, <1>4, <1>5, <1>6 DEF TypeOK

LEMMA ReplyTypes ==
    ASSUME TypeOK, NEW r, NEW answer \in Answer, Reply(r, answer)
    PROVE  /\ call' \in [Workers -> Calls]
           /\ \A w \in Workers : call'[w].task = call[w].task /\ call'[w].g = call[w].g
  <1>1. ASSUME NEW w \in Workers
        PROVE  /\ Answered(call[w], answer) \in Calls
               /\ Answered(call[w], answer).task = call[w].task
               /\ Answered(call[w], answer).g = call[w].g
    BY DEF TypeOK, Calls, Answered
  <1>2. \A w \in Workers :
            call'[w] \in {call[w], Answered(call[w], answer)}
    BY DEF Reply
  <1>3. call' \in [Workers -> Calls]
    BY <1>1 DEF Reply, TypeOK
  <1>. QED
    BY <1>1, <1>2, <1>3

LEMMA TypeStep ==
    ASSUME TypeOK, [Next]_vars
    PROVE  TypeOK'
  <1>. USE DEF TypeOK, settings, rows, gateway, HangUp, SetStatus, Doing

  <1>1. ASSUME NEW w \in Workers, NEW g \in Messages, StartGeneration(w, g)
        PROVE  TypeOK'
    BY <1>1, CallTypes DEF StartGeneration, Statuses
  <1>2. ASSUME NEW w \in Workers, NEW g \in Messages, StartDelivery(w, g)
        PROVE  TypeOK'
    <2>1. attempts[g] + 1 \in Nat
      OBVIOUS
    <2>2. [g |-> g, n |-> attempts[g] + 1, key |-> Key(g)] \in Request
      BY <2>1 DEF Key, Request
    <2>3. call' \in [Workers -> Calls] /\ \A v \in Workers : call'[v].task # "none" => call'[v].g \in Messages
      BY <1>2, <2>1, CallTypes DEF StartDelivery
    <2>. QED
      BY <1>2, <2>1, <2>2, <2>3 DEF StartDelivery, Statuses
  <1>3. ASSUME NEW w \in Workers, NEW g \in Messages, BlockBlank(w, g) \/ RefuseDelivery(w, g)
        PROVE  TypeOK'
    BY <1>3 DEF BlockBlank, RefuseDelivery, Statuses
  <1>4. ASSUME NEW w \in Workers, ApplyDecision(w)
        PROVE  TypeOK'
    <2>1. PICK g \in Messages : g = call[w].g
      BY <1>4 DEF ApplyDecision
    <2>2. PICK v \in Recommended :
               /\ Revalidated(v) # Rejected
               /\ content' = [content EXCEPT ![g] = Revalidated(v).message]
               /\ \E s \in Statuses : status' = [status EXCEPT ![g] = s]
               /\ human' = human \/ human' = [human EXCEPT ![g] = TRUE]
      BY <1>4, <2>1 DEF ApplyDecision, Statuses
    <2>3. v \in Mappings /\ Revalidated(v).message \in {"empty", "text"}
      BY <2>2, ProposalTypes, DecisionTypes DEF Revalidated
    <2>4. /\ status' \in [Messages -> Statuses]
          /\ content' \in [Messages -> {"empty", "text"}]
      BY <2>2, <2>3
    <2>7. human' \in [Messages -> BOOLEAN]
      BY <2>2
    <2>5. /\ call' \in [Workers -> Calls]
          /\ \A u \in Workers : call'[u].task # "none" => call'[u].g \in Messages
      BY <1>4, CallTypes DEF ApplyDecision
    <2>. QED
      BY <1>4, <2>4, <2>5, <2>7 DEF ApplyDecision
  <1>5. ASSUME NEW w \in Workers, \/ DecisionContended(w) \/ FailGeneration(w)
                                  \/ CommitSent(w) \/ CommitFailed(w) \/ Crash(w)
        PROVE  TypeOK'
    <2>3. call' = [call EXCEPT ![w] = Idle]
      BY <1>5 DEF DecisionContended, FailGeneration, CommitSent, CommitFailed, Crash
    <2>1. /\ call' \in [Workers -> Calls]
          /\ \A v \in Workers : call'[v].task # "none" => call'[v].g \in Messages
      BY <2>3, CallTypes
    <2>2. status' \in [Messages -> Statuses]
      BY <1>5 DEF DecisionContended, FailGeneration, CommitSent, CommitFailed, Crash, Statuses
    <2>. QED
      BY <1>5, <2>1, <2>2 DEF DecisionContended, FailGeneration, CommitSent, CommitFailed, Crash
  <1>6. CASE GatewayStep
    <2>1. PICK r \in net : net' = net \ {r} /\ (Deliver(r) \/ Decline(r) \/ Lose(r))
      BY <1>6 DEF GatewayStep
    <2>2. r.key \in Keys /\ r \in Request
      BY DEF Request
    <2>3. /\ call' \in [Workers -> Calls]
          /\ \A w \in Workers : call'[w].task = call[w].task /\ call'[w].g = call[w].g
      BY <2>1, ReplyTypes, ExchangeAssumption DEF ExchangeAssumption, Deliver, Decline, Lose
    <2>4. /\ known' \subseteq Keys
          /\ delivered' \subseteq Request
      BY <2>1, <2>2 DEF Deliver, Decline, Lose
    <2>. QED
      BY <1>6, <2>1, <2>3, <2>4 DEF GatewayStep
  <1>7. ASSUME NEW g \in Messages, EditMessage(g)
        PROVE  TypeOK'
    <2>1. key' \in [Messages -> Keys]
      BY <1>7, ExchangeAssumption DEF EditMessage, ExchangeAssumption
    <2>. QED
      BY <1>7, <2>1, ExchangeAssumption DEF EditMessage, ExchangeAssumption
  <1>8. CASE UNCHANGED vars
    BY <1>8 DEF vars
  <1>. QED
    BY <1>1, <1>2, <1>3, <1>4, <1>5, <1>6, <1>7, <1>8 DEF Next

\* Every reachable state is well typed: what decisions store is stripped and
\* within its limit, and a worker that waits knows for which message.
THEOREM TypeCorrect ==
    Spec => []TypeOK
  BY TypeInit, TypeStep, PTL DEF Spec

----------------------------------------------------------------------------
(* Delivery. *)

Confirmed(g) == \E r \in delivered : r.g = g

\* A message has its own key or none.
OwnKeys == \A g \in Messages : key[g] \in {<<g, 1>>, NoKey}

LEMMA OwnKeysKept ==
    ASSUME NoNewKeys
    PROVE  /\ Init => OwnKeys
           /\ TypeOK /\ OwnKeys /\ [Next]_vars => OwnKeys'
  <1>1. Init => OwnKeys
    BY DEF Init, OwnKeys
  <1>2. ASSUME TypeOK, OwnKeys, NEW g \in Messages, EditMessage(g) PROVE OwnKeys'
    <2>1. PICK k \in {NoKey, key[g]} : key' = [key EXCEPT ![g] = k]
      BY <1>2 DEF EditMessage, NoNewKeys
    <2>. QED
      BY <1>2, <2>1 DEF OwnKeys, TypeOK
  <1>3. ASSUME [Next]_vars, \A g \in Messages : ~EditMessage(g) PROVE key' = key
    BY <1>3 DEF Next, vars, rows, StartGeneration, StartDelivery, BlockBlank, RefuseDelivery,
                ApplyDecision, DecisionContended, FailGeneration, CommitSent, CommitFailed, Crash,
                GatewayStep
  <1>4. ASSUME OwnKeys, key' = key PROVE OwnKeys'
    BY <1>4 DEF OwnKeys
  <1>. QED
    BY <1>1, <1>2, <1>3, <1>4

\* Every request carries its message's key; the gateway knows exactly the keys
\* it has delivered, each of one request; and who has read a confirmation, or
\* recorded one, has it for a message that was delivered.
DeliveryInv ==
    /\ \A r \in net \union delivered : r.key = <<r.g, 1>>
    /\ \A r \in delivered : r.key \in known
    /\ \A k \in known : \E r \in delivered : r.key = k
    /\ \A r, q \in delivered : r.key = q.key => r = q
    /\ \A w \in Workers :
          call[w].task = "delivery" /\ call[w].answered /\ Confirms(call[w].answer)
              => Confirmed(call[w].g)
    /\ \A g \in Messages : status[g] = "SENT" => Confirmed(g)

LEMMA DeliveryInit ==
    Init => DeliveryInv
  BY CallTypes DEF Init, DeliveryInv

\* A step that delivers nothing, sends nothing new and lets nobody read an
\* answer keeps the invariant if it confirms only what was confirmed.
LEMMA QuietStep ==
    ASSUME DeliveryInv, UNCHANGED <<known, delivered>>,
           net' \subseteq net \/ \E g \in Messages, n \in Nat : net' = net \union {[g |-> g, n |-> n, key |-> <<g, 1>>]},
           \A w \in Workers : call'[w] = call[w] \/ ~call'[w].answered,
           \A g \in Messages : status'[g] = "SENT" => status[g] = "SENT" \/ Confirmed(g)
    PROVE  DeliveryInv'
  <1>1. \A r \in net' \union delivered' : r.key = <<r.g, 1>>
    BY DEF DeliveryInv
  <1>2. \A g : Confirmed(g)' <=> Confirmed(g)
    BY DEF Confirmed
  <1>3. \A w \in Workers :
          call'[w].task = "delivery" /\ call'[w].answered /\ Confirms(call'[w].answer)
              => Confirmed(call[w].g)'
    BY <1>2 DEF DeliveryInv
  <1>. QED
    BY <1>1, <1>2, <1>3 DEF DeliveryInv

LEMMA DeliveryStep ==
    ASSUME TypeOK, OwnKeys, DeliveryInv, [Next]_vars
    PROVE  DeliveryInv'
  <1>. USE DEF gateway, HangUp, SetStatus, Doing
  <1>1. ASSUME NEW w \in Workers, NEW g \in Messages, StartDelivery(w, g)
        PROVE  DeliveryInv'
    <2>1. /\ UNCHANGED <<known, delivered>>
          /\ attempts[g] + 1 \in Nat
          /\ Key(g) = <<g, 1>>
          /\ net' = net \union {[g |-> g, n |-> attempts[g] + 1, key |-> Key(g)]}
          /\ \A v \in Workers : call'[v] = call[v] \/ ~call'[v].answered
          /\ \A h \in Messages : status'[h] = "SENT" => status[h] = "SENT"
      BY <1>1, CallTypes DEF StartDelivery, Deliverable, Key, OwnKeys, TypeOK
    <2>. QED
      BY <2>1, QuietStep
  <1>2. ASSUME NEW w \in Workers, NEW g \in Messages, StartGeneration(w, g) \/ BlockBlank(w, g) \/ RefuseDelivery(w, g)
        PROVE  DeliveryInv'
    <2>1. /\ UNCHANGED <<known, delivered, net>>
          /\ \A v \in Workers : call'[v] = call[v] \/ ~call'[v].answered
          /\ \A h \in Messages : status'[h] = "SENT" => status[h] = "SENT"
      BY <1>2, CallTypes DEF StartGeneration, BlockBlank, RefuseDelivery, TypeOK
    <2>. QED
      BY <2>1, QuietStep
  <1>3. ASSUME NEW w \in Workers, \/ ApplyDecision(w) \/ DecisionContended(w) \/ FailGeneration(w)
                                  \/ CommitSent(w) \/ CommitFailed(w) \/ Crash(w)
        PROVE  DeliveryInv'
    <2>1. UNCHANGED <<known, delivered, net>> /\ call' = [call EXCEPT ![w] = Idle]
      BY <1>3 DEF ApplyDecision, DecisionContended, FailGeneration, CommitSent, CommitFailed, Crash
    <2>2. \A v \in Workers : call'[v] = call[v] \/ ~call'[v].answered
      BY <2>1, CallTypes DEF TypeOK, Idle
    <2>3. \A h \in Messages : status'[h] = "SENT" => status[h] = "SENT" \/ Confirmed(h)
      BY <1>3 DEF ApplyDecision, DecisionContended, FailGeneration, CommitSent, CommitFailed,
                  Crash, rows, TypeOK, DeliveryInv
    <2>. QED
      BY <2>1, <2>2, <2>3, QuietStep
  <1>4. CASE GatewayStep
    <2>1. PICK r \in net : net' = net \ {r} /\ (Deliver(r) \/ Decline(r) \/ Lose(r))
      BY <1>4 DEF GatewayStep
    <2>2. status' = status
      BY <1>4 DEF GatewayStep, rows
    <2>3. CASE Lose(r)
      BY <2>1, <2>2, <2>3, QuietStep DEF Lose
    <2>4. CASE Decline(r)
      <3>1. PICK answer \in Answers : "id" \notin {answer.id, answer.nested} /\ Reply(r, answer)
        BY <2>4 DEF Decline
      <3>2. ~Confirms(answer)
        BY <3>1 DEF Confirms, ProviderId
      <3>3. \A w \in Workers : call'[w] = call[w] \/ call'[w].answer = answer
        BY <3>1 DEF Reply, Answered
      <3>4. UNCHANGED <<known, delivered>>
        BY <2>4 DEF Decline
      <3>. QED
        BY <2>1, <2>2, <3>2, <3>3, <3>4 DEF DeliveryInv, Confirmed
    <2>5. CASE Deliver(r)
      <3>1. /\ delivered' = IF r.key \in known THEN delivered ELSE delivered \union {r}
            /\ known' = known \union {r.key}
        BY <2>5 DEF Deliver
      <3>2. r.key = <<r.g, 1>>
        BY DEF DeliveryInv
      <3>3. Confirmed(r.g)'
        BY <3>1, <3>2 DEF DeliveryInv, Confirmed
      <3>4. \A g : Confirmed(g) => Confirmed(g)'
        BY <3>1 DEF Confirmed
      <3>5. \A w \in Workers : call'[w] = call[w] \/ call'[w].g = r.g
        BY <2>5 DEF Deliver, Reply, Answered
      <3>6. /\ \A q \in net' \union delivered' : q.key = <<q.g, 1>>
            /\ \A q \in delivered' : q.key \in known'
            /\ \A k \in known' : \E q \in delivered' : q.key = k
            /\ \A p, q \in delivered' : p.key = q.key => p = q
        BY <2>1, <3>1, <3>2 DEF DeliveryInv
      <3>7. \A w \in Workers :
              call'[w].task = "delivery" /\ call'[w].answered /\ Confirms(call'[w].answer)
                  => Confirmed(call[w].g)'
        BY <3>3, <3>4, <3>5 DEF DeliveryInv
      <3>. QED
        BY <2>2, <3>4, <3>6, <3>7 DEF DeliveryInv
    <2>. QED
      BY <2>1, <2>3, <2>4, <2>5
  <1>5. ASSUME NEW g \in Messages, EditMessage(g)
        PROVE  DeliveryInv'
    <2>1. /\ UNCHANGED <<known, delivered, net, call>>
          /\ \A h \in Messages : status'[h] = "SENT" => status[h] = "SENT"
      BY <1>5, ExchangeAssumption DEF EditMessage, TypeOK, ExchangeAssumption
    <2>. QED
      BY <2>1, QuietStep
  <1>6. CASE UNCHANGED vars
    BY <1>6, QuietStep DEF vars, rows
  <1>. QED
    BY <1>1, <1>2, <1>3, <1>4, <1>5, <1>6 DEF Next

LEMMA DeliveryInvariant ==
    ASSUME NoNewKeys
    PROVE  Spec => [](TypeOK /\ DeliveryInv)
  BY TypeInit, TypeStep, OwnKeysKept, DeliveryInit, DeliveryStep, PTL DEF Spec

\* A message whose request was lost, answered too late or retried by operators
\* is delivered at most once, unless an operator gives it another key.
THEOREM DeliversOnce ==
    NoNewKeys => (Spec => []DeliveredOnce)
  <1>. SUFFICES ASSUME NoNewKeys PROVE Spec => []DeliveredOnce
    OBVIOUS
  <1>1. DeliveryInv => DeliveredOnce
    BY DEF DeliveryInv, DeliveredOnce
  <1>. QED
    BY <1>1, DeliveryInvariant, PTL

\* Only what the provider has delivered is recorded as sent, unless an operator
\* gives a message the former key of another one.
THEOREM SentWasDelivered ==
    NoNewKeys => (Spec => []SentIsDelivered)
  <1>. SUFFICES ASSUME NoNewKeys PROVE Spec => []SentIsDelivered
    OBVIOUS
  <1>1. DeliveryInv => SentIsDelivered
    BY DEF DeliveryInv, SentIsDelivered, Confirmed
  <1>. QED
    BY <1>1, DeliveryInvariant, PTL

----------------------------------------------------------------------------
(* The exchange implements Delivery. *)

Copies(g) == {r \in delivered : r.g = g}

LEMMA CopiesCounted ==
    ASSUME DeliveryInv, NEW g
    PROVE  /\ Confirmed(g) => Cardinality(Copies(g)) = 1
           /\ ~Confirmed(g) => Cardinality(Copies(g)) = 0
  <1>1. CASE Confirmed(g)
    <2>1. PICK r \in delivered : r.g = g
      BY <1>1 DEF Confirmed
    <2>2. \A q \in delivered : q.g = g => q = r
      BY <2>1 DEF DeliveryInv
    <2>3. Copies(g) = {r}
      BY <2>1, <2>2 DEF Copies
    <2>. QED
      BY <1>1, <2>3, FS_Singleton
  <1>2. CASE ~Confirmed(g)
    <2>1. Copies(g) = {}
      BY <1>2 DEF Copies, Confirmed
    <2>. QED
      BY <1>2, <2>1, FS_EmptySet
  <1>. QED
    BY <1>1, <1>2

\* A request on its way, or delivered, was sent by a call that counted.
AskedInv == \A r \in net \union delivered : attempts[r.g] > 0

LEMMA AskedStep ==
    ASSUME TypeOK, AskedInv, [Next]_vars
    PROVE  AskedInv'
  <1>. USE DEF gateway, rows
  <1>1. ASSUME NEW w \in Workers, NEW g \in Messages, StartDelivery(w, g)
        PROVE  AskedInv'
    <2>1. /\ delivered' = delivered
          /\ \A r \in net' : r \in net \/ r.g = g
      BY <1>1 DEF StartDelivery
    <2>2. \A r \in net \union delivered : r.g \in Messages
      BY DEF TypeOK, Request
    <2>3. /\ attempts \in [Messages -> Nat]
          /\ attempts' = [attempts EXCEPT ![g] = attempts[g] + 1]
      BY <1>1 DEF StartDelivery, TypeOK
    <2>4. \A h \in Messages : attempts[h] > 0 \/ h = g => attempts'[h] > 0
      BY <2>3
    <2>. QED
      BY <2>1, <2>2, <2>4 DEF AskedInv
  <1>2. ASSUME attempts' = attempts, net' \subseteq net, delivered' \subseteq delivered \union net
        PROVE  AskedInv'
    BY <1>2 DEF AskedInv
  <1>3. ASSUME NEW w \in Workers, \/ ApplyDecision(w) \/ DecisionContended(w) \/ FailGeneration(w)
                                  \/ CommitSent(w) \/ CommitFailed(w) \/ Crash(w)
                                  \/ \E g \in Messages : StartGeneration(w, g) \/ BlockBlank(w, g) \/ RefuseDelivery(w, g)
        PROVE  UNCHANGED <<attempts, net, delivered>>
    BY <1>3 DEF ApplyDecision, DecisionContended, FailGeneration, CommitSent, CommitFailed, Crash,
                StartGeneration, BlockBlank, RefuseDelivery
  <1>4. CASE GatewayStep
    <2>1. PICK r \in net : net' = net \ {r} /\ (Deliver(r) \/ Decline(r) \/ Lose(r))
      BY <1>4 DEF GatewayStep
    <2>2. delivered' \subseteq delivered \union {r}
      BY <2>1 DEF Deliver, Decline, Lose
    <2>. QED
      BY <1>2, <1>4, <2>1, <2>2 DEF GatewayStep
  <1>5. ASSUME NEW g \in Messages, EditMessage(g)
        PROVE  AskedInv'
    BY <1>2, <1>5 DEF EditMessage
  <1>6. CASE UNCHANGED vars
    BY <1>2, <1>6 DEF vars
  <1>. QED
    BY <1>1, <1>2, <1>3, <1>4, <1>5, <1>6 DEF Next

\* A step that changes one status at most gives up a record or, for a message
\* that was delivered, adds one.
LEMMA RecordStep ==
    ASSUME TypeOK, DeliveryInv, UNCHANGED <<attempts, delivered>>,
           NEW g \in Messages, NEW s, status' = status \/ status' = [status EXCEPT ![g] = s],
           s = "SENT" => Confirmed(g)
    PROVE  [Promise!DeliveryNext]_Promise!deliveryVars
  <1>. DEFINE asked    == {h \in Messages : attempts[h] > 0}
              copies   == [h \in Messages |-> Cardinality({r \in delivered : r.g = h})]
              recorded == {h \in Messages : status[h] = "SENT"}
  <1>1. asked' = asked /\ copies' = copies
    OBVIOUS
  <1>2. CASE status' = status
    BY <1>1, <1>2 DEF Promise!deliveryVars
  <1>3. CASE status' = [status EXCEPT ![g] = s] /\ s = "SENT"
    <2>1. recorded' = recorded \union {g}
      BY <1>3 DEF TypeOK
    <2>2. copies[g] = 1
      BY <1>3, CopiesCounted DEF Copies
    <2>3. Promise!Record(g)
      BY <1>1, <2>1, <2>2 DEF Promise!Record
    <2>. QED
      BY <2>3 DEF Promise!DeliveryNext
  <1>4. CASE status' = [status EXCEPT ![g] = s] /\ s # "SENT"
    <2>1. recorded' = recorded \ {g}
      BY <1>4 DEF TypeOK
    <2>2. Promise!GiveUp(g)
      BY <1>1, <2>1 DEF Promise!GiveUp
    <2>. QED
      BY <2>2 DEF Promise!DeliveryNext
  <1>. QED
    BY <1>2, <1>3, <1>4

LEMMA AskStep ==
    ASSUME TypeOK, NEW w \in Workers, NEW g \in Messages, StartDelivery(w, g)
    PROVE  Promise!Ask(g)
  <1>. DEFINE asked    == {h \in Messages : attempts[h] > 0}
              copies   == [h \in Messages |-> Cardinality({r \in delivered : r.g = h})]
              recorded == {h \in Messages : status[h] = "SENT"}
  <1>1. /\ attempts \in [Messages -> Nat]
        /\ attempts' = [attempts EXCEPT ![g] = attempts[g] + 1]
    BY DEF StartDelivery, TypeOK
  <1>2. \A h \in Messages : attempts'[h] > 0 <=> attempts[h] > 0 \/ h = g
    BY <1>1
  <1>3. asked' = asked \union {g}
    BY <1>2
  <1>4. recorded' = recorded
    BY DEF StartDelivery, SetStatus, TypeOK
  <1>5. copies' = copies
    BY DEF StartDelivery
  <1>. QED
    BY <1>3, <1>4, <1>5 DEF Promise!Ask

LEMMA GatewayImplements ==
    ASSUME TypeOK, DeliveryInv, DeliveryInv', AskedInv, GatewayStep
    PROVE  [Promise!DeliveryNext]_Promise!deliveryVars
  <1>. DEFINE asked    == {h \in Messages : attempts[h] > 0}
              copies   == [h \in Messages |-> Cardinality({r \in delivered : r.g = h})]
              recorded == {h \in Messages : status[h] = "SENT"}
  <1>1. PICK r \in net : net' = net \ {r} /\ (Deliver(r) \/ Decline(r) \/ Lose(r))
    BY DEF GatewayStep
  <1>2. UNCHANGED <<attempts, status>>
    BY DEF GatewayStep, rows
  <1>3. asked' = asked /\ recorded' = recorded
    BY <1>2
  <1>4. CASE delivered' = delivered
    <2>1. copies' = copies
      BY <1>4
    <2>. QED
      BY <1>3, <2>1 DEF Promise!deliveryVars
  <1>5. CASE delivered' # delivered
    <2>1. delivered' = delivered \union {r} /\ r.key \notin known
      BY <1>1, <1>5 DEF Deliver, Decline, Lose
    <2>2. r.g \in Messages /\ r.g \in asked
      BY DEF TypeOK, Request, AskedInv
    <2>3. ~Confirmed(r.g)
      BY <2>1 DEF Confirmed, DeliveryInv
    <2>4. copies[r.g] = 0
      BY <2>2, <2>3, CopiesCounted DEF Copies
    <2>5. Confirmed(r.g)'
      BY <2>1 DEF Confirmed
    <2>6. Cardinality(Copies(r.g)') = 1
      <3>1. ASSUME NEW g, Confirmed(g)' PROVE Cardinality(Copies(g)') = 1
        <4>1. PICK q \in delivered' : q.g = g
          BY <3>1 DEF Confirmed
        <4>2. \A p \in delivered' : p.g = g => p = q
          BY <4>1 DEF DeliveryInv
        <4>3. Copies(g)' = {q}
          BY <4>1, <4>2 DEF Copies
        <4>. QED
          BY <4>3, FS_Singleton
      <3>. QED
        BY <2>5, <3>1
    <2>7. \A h \in Messages \ {r.g} : {q \in delivered' : q.g = h} = {q \in delivered : q.g = h}
      BY <2>1
    <2>8. copies' = [copies EXCEPT ![r.g] = 1]
      BY <2>6, <2>7 DEF Copies
    <2>9. Promise!Deliver(r.g)
      BY <1>3, <2>2, <2>4, <2>8 DEF Promise!Deliver
    <2>. QED
      BY <2>2, <2>9 DEF Promise!DeliveryNext
  <1>. QED
    BY <1>4, <1>5

LEMMA DeliveryImplemented ==
    ASSUME TypeOK, DeliveryInv, DeliveryInv', AskedInv, [Next]_vars
    PROVE  [Promise!DeliveryNext]_Promise!deliveryVars
  <1>. USE DEF SetStatus, rows, gateway
  <1>1. ASSUME NEW w \in Workers, NEW g \in Messages, StartDelivery(w, g)
        PROVE  [Promise!DeliveryNext]_Promise!deliveryVars
    BY <1>1, AskStep DEF Promise!DeliveryNext
  <1>2. ASSUME NEW w \in Workers, NEW g \in Messages, StartGeneration(w, g) \/ BlockBlank(w, g) \/ RefuseDelivery(w, g)
        PROVE  [Promise!DeliveryNext]_Promise!deliveryVars
    <2>1. /\ UNCHANGED <<attempts, delivered>>
          /\ \/ status' = [status EXCEPT ![g] = "GENERATING"]
             \/ status' = [status EXCEPT ![g] = "CANCELLED"]
             \/ status' = [status EXCEPT ![g] = "FAILED"]
      BY <1>2 DEF StartGeneration, BlockBlank, RefuseDelivery
    <2>. QED
      BY <2>1, RecordStep
  <1>3. ASSUME NEW w \in Workers, \/ ApplyDecision(w) \/ DecisionContended(w) \/ FailGeneration(w)
                                  \/ CommitSent(w) \/ CommitFailed(w) \/ Crash(w)
        PROVE  [Promise!DeliveryNext]_Promise!deliveryVars
    <2>. DEFINE g == call[w].g
    <2>1. call[w].g \in Messages /\ UNCHANGED <<attempts, delivered>>
      BY <1>3 DEF ApplyDecision, DecisionContended, FailGeneration, CommitSent, CommitFailed,
                  Crash, Doing, TypeOK
    <2>2. PICK s : /\ status' = status \/ status' = [status EXCEPT ![g] = s]
                   /\ s = "SENT" => Confirmed(g)
      <3>1. CASE CommitSent(w)
        BY <3>1 DEF CommitSent, Doing, DeliveryInv
      <3>2. CASE DecisionContended(w) \/ Crash(w)
        <4>1. status' = status /\ "FAILED" # "SENT"
          BY <3>2 DEF DecisionContended, Crash
        <4>. QED
          BY <4>1
      <3>3. CASE FailGeneration(w) \/ CommitFailed(w)
        <4>1. status' = [status EXCEPT ![g] = "FAILED"] /\ "FAILED" # "SENT"
          BY <3>3 DEF FailGeneration, CommitFailed
        <4>. QED
          BY <4>1
      <3>4. CASE ApplyDecision(w)
        <4>1. \E s \in {"READY", "REQUIRES_HUMAN", "CANCELLED"} : status' = [status EXCEPT ![g] = s]
          BY <3>4 DEF ApplyDecision
        <4>. QED
          BY <4>1
      <3>. QED
        BY <1>3, <3>1, <3>2, <3>3, <3>4
    <2>. HIDE DEF g
    <2>. QED
      BY <2>1, <2>2, RecordStep DEF g
  <1>4. CASE GatewayStep
    BY <1>4, GatewayImplements
  <1>5. ASSUME NEW g \in Messages, EditMessage(g)
        PROVE  [Promise!DeliveryNext]_Promise!deliveryVars
    <2>1. /\ UNCHANGED <<attempts, delivered>>
          /\ \E s \in AdminStatuses : status' = [status EXCEPT ![g] = s]
      BY <1>5 DEF EditMessage
    <2>2. "SENT" \notin AdminStatuses
      BY ExchangeAssumption DEF ExchangeAssumption
    <2>. QED
      BY <2>1, <2>2, RecordStep
  <1>6. CASE UNCHANGED vars
    BY <1>6 DEF vars, Promise!deliveryVars
  <1>. QED
    BY <1>1, <1>2, <1>3, <1>4, <1>5, <1>6 DEF Next

\* Every behaviour of the exchange is one that Delivery allows: copies are asked
\* for, single and final, and records follow their copies, for any number of
\* workers, attempts, lost and late answers, as long as messages keep their keys.
THEOREM ExchangeImplementsDelivery ==
    NoNewKeys => (Spec => ImplementsDelivery)
  <1>. SUFFICES ASSUME NoNewKeys PROVE Spec => ImplementsDelivery
    OBVIOUS
  <1>1. Init => Promise!DeliveryStart
    <2>1. ASSUME Init PROVE Promise!DeliveryStart
      <3>1. {g \in Messages : attempts[g] > 0} = {}
        BY <2>1 DEF Init
      <3>2. {g \in Messages : status[g] = "SENT"} = {}
        BY <2>1 DEF Init
      <3>3. \A g \in Messages : {r \in delivered : r.g = g} = {}
        BY <2>1 DEF Init
      <3>4. [g \in Messages |-> Cardinality({r \in delivered : r.g = g})] = [g \in Messages |-> 0]
        BY <3>3, FS_EmptySet
      <3>. QED
        BY <3>1, <3>2, <3>4 DEF Promise!DeliveryStart
    <2>. QED
      BY <2>1
  <1>2. Init => AskedInv
    BY DEF Init, AskedInv
  <1>. QED
    BY <1>1, <1>2, AskedStep, DeliveryImplemented, DeliveryInvariant, PTL
       DEF Spec, ImplementsDelivery, Promise!DeliverySpec

LEMMA PromiseStep ==
    ASSUME Promise!RecordsAreCopies, [Promise!DeliveryNext]_Promise!deliveryVars
    PROVE  Promise!RecordsAreCopies'
  <1>. DEFINE asked    == {h \in Messages : attempts[h] > 0}
              copies   == [h \in Messages |-> Cardinality({r \in delivered : r.g = h})]
              recorded == {h \in Messages : status[h] = "SENT"}
  <1>1. /\ asked \subseteq Messages
        /\ copies \in [Messages -> {0, 1}]
        /\ \A g \in Messages : copies[g] = 1 => g \in asked
        /\ recorded \subseteq {g \in Messages : copies[g] = 1}
    BY DEF Promise!RecordsAreCopies
  <1>2. \/ \E g \in Messages :
             \/ asked' = asked \union {g} /\ copies' = copies /\ recorded' = recorded
             \/ g \in asked /\ copies' = [copies EXCEPT ![g] = 1] /\ asked' = asked /\ recorded' = recorded
             \/ copies[g] = 1 /\ recorded' = recorded \union {g} /\ asked' = asked /\ copies' = copies
             \/ recorded' = recorded \ {g} /\ asked' = asked /\ copies' = copies
        \/ asked' = asked /\ copies' = copies /\ recorded' = recorded
    BY DEF Promise!DeliveryNext, Promise!deliveryVars, Promise!Ask, Promise!Deliver,
           Promise!Record, Promise!GiveUp
  <1>3. Promise!RecordsAreCopies' <=>
            /\ asked' \subseteq Messages
            /\ copies' \in [Messages -> {0, 1}]
            /\ \A g \in Messages : copies'[g] = 1 => g \in asked'
            /\ recorded' \subseteq {g \in Messages : copies'[g] = 1}
    BY DEF Promise!RecordsAreCopies
  <1>. HIDE DEF asked, copies, recorded
  <1>. QED
    BY <1>1, <1>2, <1>3

\* What Delivery promises holds of the exchange, by the refinement alone: a
\* message is delivered at most once, after it was asked for, and is SENT only
\* once it was delivered.
THEOREM PromiseIsKept ==
    NoNewKeys => (Spec => []Promise!RecordsAreCopies)
  <1>. SUFFICES ASSUME NoNewKeys PROVE Spec => []Promise!RecordsAreCopies
    OBVIOUS
  <1>1. Promise!DeliveryStart => Promise!RecordsAreCopies
    BY DEF Promise!DeliveryStart, Promise!RecordsAreCopies
  <1>2. Promise!DeliverySpec => []Promise!RecordsAreCopies
    BY <1>1, PromiseStep, PTL DEF Promise!DeliverySpec
  <1>. QED
    BY <1>2, ExchangeImplementsDelivery DEF ImplementsDelivery

----------------------------------------------------------------------------
(* Decisions. *)

LEMMA ContractStep ==
    ASSUME TypeOK, [Next]_vars, NEW w \in Workers, NEW g, g = call[w].g,
           Doing(w, "decision"), call'[w] = Idle,
           status[g] = "GENERATING", status'[g] \notin {"GENERATING", "FAILED"}
    PROVE  \E v \in Recommended :
              /\ ToolSchema(Decided(v))
              /\ status'[g] = CASE v.action = "send"         -> "READY"
                                 [] v.action = "human_review" -> "REQUIRES_HUMAN"
                                 [] v.action = "skip"         -> "CANCELLED"
              /\ content'[g] = Strip(v.message)
              /\ v.requires = "true" => human'[g]
  <1>. USE DEF settings, rows, gateway, Doing
  <1>1. /\ g \in Messages
        /\ call[w] # Idle
    BY CallTypes DEF TypeOK
  <1>2. CASE ApplyDecision(w)
    <2>1. PICK v \in Recommended :
               /\ Revalidated(v) # Rejected
               /\ content' = [content EXCEPT ![g] = Revalidated(v).message]
               /\ \/ Revalidated(v).action = "send" /\ SetStatus(g, "READY")
                  \/ /\ Revalidated(v).action = "human_review"
                     /\ SetStatus(g, "REQUIRES_HUMAN")
                     /\ human' = [human EXCEPT ![g] = TRUE]
                  \/ Revalidated(v).action = "skip" /\ SetStatus(g, "CANCELLED")
      BY <1>2 DEF ApplyDecision
    <2>2. /\ v \in Mappings
          /\ Valid(v)
          /\ Revalidated(v) = Decided(v)
          /\ Decided(v).action = v.action
          /\ ToolSchema(Decided(v))
      BY <2>1, ProposalTypes, DecisionTypes DEF Revalidated, TypeOK
    <2>3. Decided(v).message = Strip(v.message)
      BY <2>2 DEF Decided, Mappings
    <2>4. v.requires = "true" => v.action = "human_review"
      BY <2>2 DEF Valid, AgentAction
    <2>5. content'[g] = Strip(v.message)
      BY <1>1, <2>1, <2>2, <2>3 DEF TypeOK
    <2>6. \/ v.action = "send" /\ status'[g] = "READY"
          \/ v.action = "human_review" /\ status'[g] = "REQUIRES_HUMAN" /\ human'[g]
          \/ v.action = "skip" /\ status'[g] = "CANCELLED"
      BY <1>1, <2>1, <2>2 DEF TypeOK, SetStatus
    <2>. QED
      BY <2>2, <2>4, <2>5, <2>6
  <1>3. ASSUME NEW u \in Workers, u # w,
               \/ ApplyDecision(u) \/ DecisionContended(u) \/ FailGeneration(u)
               \/ CommitSent(u) \/ CommitFailed(u) \/ Crash(u)
        PROVE  FALSE
    BY <1>1, <1>3 DEF ApplyDecision, DecisionContended, FailGeneration, CommitSent, CommitFailed,
                      Crash, HangUp, TypeOK
  <1>4. ASSUME \/ DecisionContended(w) \/ FailGeneration(w) \/ CommitSent(w)
               \/ CommitFailed(w) \/ Crash(w)
        PROVE  FALSE
    BY <1>1, <1>4 DEF DecisionContended, FailGeneration, CommitSent, CommitFailed, Crash,
                      SetStatus, TypeOK
  <1>5. ASSUME NEW u \in Workers, NEW h \in Messages,
               \/ StartGeneration(u, h) \/ StartDelivery(u, h)
               \/ BlockBlank(u, h) \/ RefuseDelivery(u, h)
        PROVE  FALSE
    <2>1. status[h] # "GENERATING"
      BY <1>5 DEF StartGeneration, StartDelivery, BlockBlank, RefuseDelivery
    <2>. QED
      BY <1>1, <1>5, <2>1 DEF StartGeneration, StartDelivery, BlockBlank, RefuseDelivery,
                              SetStatus, TypeOK
  <1>6. CASE GatewayStep \/ UNCHANGED vars
    BY <1>1, <1>6 DEF GatewayStep, vars
  <1>7. CASE \E h \in Messages : EditMessage(h)
    BY <1>1, <1>7 DEF EditMessage
  <1>. QED
    BY <1>2, <1>3, <1>4, <1>5, <1>6, <1>7 DEF Next

\* Django acts on proposals within the declared contract only, and as they say,
\* whatever agent backend is configured and whatever the gateway answers.
THEOREM ContractIsKept ==
    Spec => ActsOnContract
  <1>1. TypeOK /\ [Next]_vars =>
          [\A w \in Workers :
             LET g == call[w].g IN
             (/\ Doing(w, "decision") /\ call'[w] = Idle
              /\ status[g] = "GENERATING" /\ status'[g] \notin {"GENERATING", "FAILED"})
               => \E v \in Recommended :
                    /\ ToolSchema(Decided(v))
                    /\ status'[g] = CASE v.action = "send"         -> "READY"
                                       [] v.action = "human_review" -> "REQUIRES_HUMAN"
                                       [] v.action = "skip"         -> "CANCELLED"
                    /\ content'[g] = Strip(v.message)
                    /\ v.requires = "true" => human'[g]]_vars
    BY ContractStep
  <1>. QED
    BY <1>1, TypeInit, TypeStep, PTL DEF Spec, ActsOnContract
=============================================================================
