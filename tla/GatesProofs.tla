----------------------------- MODULE GatesProofs -----------------------------
(***************************************************************************)
(* Proofs about OutreachGates: on what a worker knows when it asks the     *)
(* agent and when it sends, for any number of workers and operators.       *)
(***************************************************************************)
EXTENDS OutreachGates, OutreachProofs

\* The gates that a cached row shows open.
RowGates(row) ==
    {gate \in Gates :
        \/ gate = "active" /\ row.campaign = "ACTIVE"
        \/ gate = "contactable" /\ ~row.candidate.dnc /\ row.candidate.status # "DO_NOT_CONTACT"
        \/ gate = "unattended" /\ ~row.human /\ row.candidate.status # "REQUIRES_HUMAN"}

RowGatesOpen == {"active", "contactable", "unattended"}

\* What a worker knows at each of its stages.  The row in its object says what
\* it said when the watch began; the switch was read on the way.
KnownRow(w) ==
    pc[w] \in {"check", "check_policy", "decide", "decide_policy"} /\ copy[w].cached
        => RowGates(copy[w].row) \subseteq open[w]
KnownSwitch(w) ==
    pc[w] \in {"check_policy", "decide_policy", "final_policy"} => "resumed" \in open[w]
KnownGates(w) ==
    pc[w] \in {"claim_generation", "generate", "approve", "send"} => open[w] = Gates

Knows(w) == KnownRow(w) /\ KnownSwitch(w) /\ KnownGates(w)
GatesInv == \A w \in Workers : Knows(w)

----------------------------------------------------------------------------

LEMMA OpenGates ==
    ASSUME NEW g
    PROVE  /\ GatesOpen(g) \subseteq Gates
           /\ "resumed" \in GatesOpen(g) <=> outbound
           /\ RowGates(Row(g)) \subseteq GatesOpen(g)
  BY Zenon DEF GatesOpen, Gates, RowGates, Row

\* A policy that answers PASS has found the row's gates open.
LEMMA PassedGates ==
    ASSUME NEW g, NEW row, NEW text, NEW requireContent,
           EvaluateOutbound(g, row, text, requireContent) = "PASS"
    PROVE  RowGatesOpen \subseteq RowGates(row)
  BY DEF EvaluateOutbound, RowGates, RowGatesOpen, Gates

THEOREM GatesTypesHold == GatesSpec => []GatesTypeOK
  <1>1. GatesInit => GatesTypeOK
    BY InitTypes DEF GatesInit, GatesTypeOK
  <1>2. GatesTypeOK /\ [GatesNext]_gatesVars => GatesTypeOK'
    <2>. SUFFICES ASSUME GatesTypeOK, [GatesNext]_gatesVars PROVE GatesTypeOK'
      OBVIOUS
    <2>1. TypeOK'
      BY SelectionTypes, ClaimTypes, OutcomeTypes, OperatorTypes, StutterTypes
         DEF GatesTypeOK, GatesNext, gatesVars, Next, WorkerStep
    <2>2. CASE UNCHANGED gatesVars
      BY <2>1, <2>2 DEF GatesTypeOK, gatesVars
    <2>3. CASE GatesNext
      <3>1. \A w \in Workers : GatesOpen(msg[w])' \subseteq Gates
        BY DEF GatesOpen
      <3>2. open' \in [Workers -> SUBSET Gates]
        BY <2>3, <3>1 DEF GatesNext, GatesTypeOK
      <3>. QED
        BY <2>1, <3>2 DEF GatesTypeOK
    <2>. QED
      BY <2>2, <2>3
  <1>. QED
    BY <1>1, <1>2, PTL DEF GatesSpec

----------------------------------------------------------------------------
(* What a worker knows only grows while it works on the message. *)

LEMMA OpenGrows ==
    ASSUME GatesTypeOK, GatesNext, NEW w \in Workers,
           msg'[w] # NoMessage, ~Watches(w)
    PROVE  open'[w] = open[w] \union GatesOpen(msg[w])'
  BY DEF GatesNext

LEMMA OpenAnew ==
    ASSUME GatesTypeOK, GatesNext, NEW w \in Workers,
           msg'[w] # NoMessage, Watches(w)
    PROVE  open'[w] = GatesOpen(msg[w])'
  BY DEF GatesNext

\* A step that writes no row and leaves the switch moves no gate.
LEMMA GatesStay ==
    ASSUME NEW w \in Workers, NEW g, msg'[w] = g, people' = people, outbound' = outbound
    PROVE  GatesOpen(msg[w])' = GatesOpen(g)
  <1>1. campaign' = campaign /\ candidate' = candidate /\ member' = member
    BY DEF people
  <1>. QED
    BY <1>1 DEF GatesOpen, CampaignOfMsg, CandidateOfMsg

\* Steps that leave a worker's own state alone.
LEMMA IdleKnows ==
    ASSUME GatesTypeOK, GatesNext, NEW w \in Workers, Knows(w),
           pc'[w] = pc[w], msg'[w] = msg[w], copy'[w] = copy[w]
    PROVE  Knows(w)'
  <1>1. CASE msg[w] = NoMessage
    <2>1. pc[w] \in {"idle", "select", "pick"}
      BY <1>1 DEF GatesTypeOK, TypeOK
    <2>. QED
      BY <2>1 DEF Knows, KnownRow, KnownSwitch, KnownGates
  <1>2. CASE msg[w] # NoMessage
    <2>1. open'[w] = open[w] \union GatesOpen(msg[w])'
      BY <1>2, OpenGrows DEF Watches
    <2>2. open'[w] \subseteq Gates
      BY <2>1 DEF GatesTypeOK, GatesOpen
    <2>3. KnownRow(w)'
      BY <2>1 DEF Knows, KnownRow, RowGates
    <2>4. KnownSwitch(w)'
      BY <2>1 DEF Knows, KnownSwitch
    <2>5. KnownGates(w)'
      BY <2>1, <2>2 DEF Knows, KnownGates
    <2>. QED
      BY <2>3, <2>4, <2>5 DEF Knows
  <1>. QED
    BY <1>1, <1>2

LEMMA OthersKnow ==
    ASSUME GatesTypeOK, GatesNext, NEW w \in Workers, NEW v \in Workers \ {w}, Knows(v),
           WorkerStep(w) \/ Crash(w)
    PROVE  Knows(v)'
  <1>1. pc'[v] = pc[v] /\ msg'[v] = msg[v] /\ copy'[v] = copy[v]
    BY DEF GatesTypeOK, TypeOK, WorkerStep, Goto, Return, Block, job,
         Begin, NextDueMessage, EnqueueNextEligible, EnqueueInitialMessage, ReadSystemState,
         CheckBeforeGeneration, CheckBeforeClaim, ClaimGeneration, ApplyDecision,
         DecisionContended, FailGeneration, ReloadGenerated, ClaimSend, FinalCheck, Rollback,
         RecordBlock, WriteAudit, Approve, SenderNotLoaded, Send, CommitFailed, CommitSent,
         CommitRefused, Crash
  <1>. QED
    BY <1>1, IdleKnows

\* Stages at which nothing need be known.
LEMMA KnowsNothing ==
    ASSUME NEW w \in Workers,
           pc'[w] \in {"idle", "select", "pick", "enqueue", "reload", "claim_send", "final",
                       "rollback", "block", "commit_sent", "commit_failed", "audit"}
    PROVE  Knows(w)'
  BY DEF Knows, KnownRow, KnownSwitch, KnownGates

\* A worker that selects, enqueues or reloads a message starts from its row.
LEMMA LoadKnows ==
    ASSUME GatesTypeOK, GatesNext, NEW w \in Workers,
           \/ NextDueMessage(w) \/ EnqueueInitialMessage(w) \/ ReloadGenerated(w)
    PROVE  Knows(w)'
  <1>. USE DEF At, Goto
  <1>1. CASE NextDueMessage(w) /\ Due = {}
    BY <1>1, KnowsNothing DEF NextDueMessage, GatesTypeOK, TypeOK
  <1>2. CASE \E g \in Due : /\ pc' = [pc EXCEPT ![w] = "check"]
                            /\ pc[w] = "select"
                            /\ msg' = [msg EXCEPT ![w] = g]
                            /\ copy' = [copy EXCEPT ![w] = Load(g)]
                            /\ people' = people /\ outbound' = outbound
    <2>1. PICK g \in Messages : /\ pc'[w] = "check" /\ pc[w] = "select"
                                /\ msg'[w] = g /\ copy'[w] = Load(g)
                                /\ people' = people /\ outbound' = outbound
      BY <1>2 DEF GatesTypeOK, TypeOK, Due
    <2>2. open'[w] = GatesOpen(g)
      <3>1. GatesOpen(msg[w])' = GatesOpen(g)
        BY <2>1, GatesStay
      <3>. QED
        BY <2>1, <3>1, OpenAnew, KeyTypes DEF Watches
    <2>3. copy'[w].row = Row(g)
      BY <2>1 DEF Load
    <2>. QED
      BY <2>1, <2>2, <2>3, OpenGates DEF Knows, KnownRow, KnownSwitch, KnownGates
  <1>3. CASE EnqueueInitialMessage(w)
    <2>1. PICK g \in Messages : g = msg[w]
      BY <1>3 DEF EnqueueInitialMessage, GatesTypeOK, TypeOK
    <2>2. /\ pc'[w] = "check" /\ pc[w] = "enqueue" /\ msg' = msg
          /\ copy'[w].row = Row(g)
          /\ people' = people /\ outbound' = outbound
      BY <1>3, <2>1 DEF EnqueueInitialMessage, GatesTypeOK, TypeOK, Load, LoadBare
    <2>3. open'[w] = GatesOpen(g)
      <3>1. GatesOpen(msg[w])' = GatesOpen(g)
        BY <2>1, <2>2, GatesStay
      <3>. QED
        BY <2>1, <2>2, <3>1, OpenAnew, KeyTypes DEF Watches
    <2>. QED
      BY <2>2, <2>3, OpenGates DEF Knows, KnownRow, KnownSwitch, KnownGates
  <1>4. CASE ReloadGenerated(w)
    <2>1. PICK g \in Messages : g = msg[w]
      BY <1>4 DEF ReloadGenerated, GatesTypeOK, TypeOK
    <2>2. /\ pc'[w] = "decide" /\ pc[w] = "reload" /\ msg' = msg
          /\ copy'[w] = Load(g)
          /\ people' = people /\ outbound' = outbound
      BY <1>4, <2>1 DEF ReloadGenerated, GatesTypeOK, TypeOK
    <2>3. open'[w] = GatesOpen(g)
      <3>1. GatesOpen(msg[w])' = GatesOpen(g)
        BY <2>1, <2>2, GatesStay
      <3>. QED
        BY <2>1, <2>2, <3>1, OpenAnew, KeyTypes DEF Watches
    <2>4. copy'[w].row = Row(g)
      BY <2>2 DEF Load
    <2>. QED
      BY <2>2, <2>3, <2>4, OpenGates DEF Knows, KnownRow, KnownSwitch, KnownGates
  <1>. QED
    BY <1>1, <1>2, <1>3, <1>4 DEF NextDueMessage

\* A worker that goes on with its message after a look at the switch.
LEMMA ReadKnows ==
    ASSUME GatesTypeOK, GatesNext, NEW w \in Workers, Knows(w), ReadSystemState(w)
    PROVE  Knows(w)'
  <1>. USE DEF At, Goto
  <1>1. CASE ~outbound
    <2>1. pc'[w] \in {"rollback", "block"}
      BY <1>1 DEF ReadSystemState, OutboundNow, Block, GatesTypeOK, TypeOK
    <2>. QED
      BY <2>1, KnowsNothing
  <1>2. CASE outbound
    <2>1. PICK g \in Messages : g = msg[w]
      BY DEF ReadSystemState, OutboundNow, GatesTypeOK, TypeOK
    <2>2. /\ outbound' = outbound /\ msg' = msg /\ copy' = copy
          /\ \/ pc[w] = "final" /\ pc'[w] = "final_policy"
             \/ pc[w] \in {"check", "decide"} /\ pc'[w] \in {"check_policy", "decide_policy"}
      BY <1>2 DEF ReadSystemState, OutboundNow, GatesTypeOK, TypeOK
    <2>3. open'[w] = open[w] \union GatesOpen(msg[w])'
      BY <2>1, <2>2, OpenGrows, KeyTypes DEF Watches
    <2>4. "resumed" \in GatesOpen(msg[w])'
      BY <1>2, <2>2 DEF GatesOpen, Gates
    <2>. QED
      BY <2>2, <2>3, <2>4 DEF Knows, KnownRow, KnownSwitch, KnownGates
  <1>. QED
    BY <1>1, <1>2

\* A check that passes has found every gate open since the watch began.
LEMMA CheckKnows ==
    ASSUME GatesTypeOK, GatesNext, NEW w \in Workers, Knows(w), CheckBeforeGeneration(w)
    PROVE  Knows(w)'
  <1>. DEFINE why == EvaluateOutbound(msg[w], RowSeenBy(w), copy[w].content, FALSE)
  <1>1. CASE why # "PASS"
    <2>1. pc'[w] = "block"
      BY <1>1 DEF CheckBeforeGeneration, Block, Goto, GatesTypeOK, TypeOK
    <2>. QED
      BY <2>1, KnowsNothing
  <1>2. CASE why = "PASS"
    <2>1. PICK g \in Messages : g = msg[w]
      BY DEF CheckBeforeGeneration, At, GatesTypeOK, TypeOK
    <2>2. RowGatesOpen \subseteq RowGates(RowSeenBy(w))
      BY <1>2, PassedGates
    <2>. HIDE DEF why
    <2>3. /\ pc[w] = "check_policy" /\ pc'[w] = "claim_generation" /\ msg' = msg
          /\ people' = people
      <3>1. \/ Goto(w, "claim_generation") /\ UNCHANGED msg
            \/ why # "PASS"
        BY DEF CheckBeforeGeneration, why
      <3>. QED
        BY <1>2, <3>1 DEF CheckBeforeGeneration, At, Goto, GatesTypeOK, TypeOK
    <2>4. open'[w] = open[w] \union GatesOpen(msg[w])'
      BY <2>1, <2>3, OpenGrows, KeyTypes DEF Watches
    <2>5. RowGatesOpen \subseteq open'[w]
      <3>1. CASE copy[w].cached
        BY <2>2, <2>3, <2>4, <3>1 DEF Knows, KnownRow, RowSeenBy
      <3>2. CASE ~copy[w].cached
        <4>1. RowGates(Row(g)) \subseteq GatesOpen(g)
          BY OpenGates
        <4>2. RowGates(Row(g)) \subseteq GatesOpen(msg[w])'
          BY <2>1, <2>3, <4>1 DEF GatesOpen, RowGates, Row, people, Gates
        <4>. QED
          BY <2>1, <2>2, <2>4, <3>2, <4>2 DEF RowSeenBy
      <3>. QED
        BY <3>1, <3>2
    <2>6. "resumed" \in open'[w]
      BY <2>3, <2>4 DEF Knows, KnownSwitch
    <2>7. open'[w] \subseteq Gates
      BY <2>4 DEF GatesTypeOK, GatesOpen
    <2>8. open'[w] = Gates
      BY <2>5, <2>6, <2>7 DEF Gates, RowGatesOpen
    <2>. QED
      BY <2>3, <2>8 DEF Knows, KnownRow, KnownSwitch, KnownGates
  <1>. QED
    BY <1>1, <1>2

LEMMA FinalKnows ==
    ASSUME GatesTypeOK, GatesNext, NEW w \in Workers, Knows(w), FinalCheck(w)
    PROVE  Knows(w)'
  <1>. DEFINE why == EvaluateOutbound(msg[w], RowRefreshed(w), content[msg[w]], TRUE)
  <1>1. PICK g \in Messages : g = msg[w]
    BY DEF FinalCheck, At, GatesTypeOK, TypeOK
  <1>2. CASE why # "PASS"
    <2>1. pc'[w] = "rollback"
      BY <1>2 DEF FinalCheck, Goto, GatesTypeOK, TypeOK
    <2>. QED
      BY <2>1, KnowsNothing
  <1>3. CASE why = "PASS"
    <2>1. RowGatesOpen \subseteq RowGates(Row(g))
      BY <1>1, <1>3, PassedGates DEF RowRefreshed
    <2>2. /\ pc[w] = "final_policy" /\ pc'[w] = "approve" /\ msg' = msg /\ people' = people
      BY <1>3 DEF FinalCheck, At, Goto, GatesTypeOK, TypeOK
    <2>. HIDE DEF why
    <2>3. open'[w] = open[w] \union GatesOpen(msg[w])'
      BY <1>1, <2>2, OpenGrows, KeyTypes DEF Watches
    <2>4. RowGatesOpen \subseteq open'[w]
      <3>1. RowGates(Row(g)) \subseteq GatesOpen(g)
        BY OpenGates
      <3>2. RowGates(Row(g)) \subseteq GatesOpen(msg[w])'
        BY <1>1, <2>2, <3>1 DEF GatesOpen, RowGates, Row, people, Gates
      <3>. QED
        BY <2>1, <2>3, <3>2
    <2>5. "resumed" \in open'[w] /\ open'[w] \subseteq Gates
      BY <2>2, <2>3 DEF Knows, KnownSwitch, GatesTypeOK, GatesOpen
    <2>6. open'[w] = Gates
      BY <2>4, <2>5 DEF Gates, RowGatesOpen
    <2>. QED
      BY <2>2, <2>6 DEF Knows, KnownRow, KnownSwitch, KnownGates
  <1>. QED
    BY <1>2, <1>3

\* The agent and the sender are asked with the gates known at the claim.
LEMMA ClaimKnows ==
    ASSUME GatesTypeOK, GatesNext, NEW w \in Workers, Knows(w),
           ClaimGeneration(w) \/ Approve(w)
    PROVE  Knows(w)'
  <1>1. CASE pc'[w] = "idle"
    BY <1>1, KnowsNothing
  <1>2. CASE pc'[w] # "idle"
    <2>1. PICK g \in Messages : g = msg[w]
      BY DEF ClaimGeneration, Approve, At, GatesTypeOK, TypeOK
    <2>2. /\ msg'[w] = msg[w]
          /\ \/ pc[w] = "claim_generation" /\ pc'[w] = "generate"
             \/ pc[w] = "approve" /\ pc'[w] = "send"
      BY <1>2 DEF ClaimGeneration, Approve, Return, At, Goto, GatesTypeOK, TypeOK
    <2>3. open'[w] = open[w] \union GatesOpen(msg[w])'
      BY <2>1, <2>2, OpenGrows, KeyTypes DEF Watches
    <2>4. open'[w] = Gates
      BY <2>2, <2>3 DEF Knows, KnownGates, GatesTypeOK, GatesOpen
    <2>. QED
      BY <2>2, <2>4 DEF Knows, KnownRow, KnownSwitch, KnownGates
  <1>. QED
    BY <1>1, <1>2

LEMMA RestKnows ==
    ASSUME GatesTypeOK, NEW w \in Workers,
           \/ Begin(w) \/ EnqueueNextEligible(w) \/ CheckBeforeClaim(w) \/ ApplyDecision(w)
           \/ DecisionContended(w) \/ FailGeneration(w) \/ ClaimSend(w) \/ Rollback(w)
           \/ RecordBlock(w) \/ WriteAudit(w) \/ SenderNotLoaded(w) \/ Send(w)
           \/ CommitFailed(w) \/ CommitSent(w) \/ CommitRefused(w) \/ Crash(w)
    PROVE  Knows(w)'
  <1>1. pc'[w] \in {"idle", "select", "pick", "enqueue", "reload", "claim_send", "final",
                    "rollback", "block", "commit_sent", "commit_failed", "audit"}
    BY DEF GatesTypeOK, TypeOK, Goto, Return, Block,
           Begin, EnqueueNextEligible, CheckBeforeClaim, ApplyDecision, DecisionContended,
           FailGeneration, ClaimSend, Rollback, RecordBlock, WriteAudit, SenderNotLoaded, Send,
           CommitFailed, CommitSent, CommitRefused, Crash
  <1>. QED
    BY <1>1, KnowsNothing

LEMMA GatesInvariant == GatesSpec => []GatesInv
  <1>1. GatesInit => GatesInv
    BY DEF GatesInit, Init, GatesInv, Knows, KnownRow, KnownSwitch, KnownGates
  <1>2. GatesTypeOK /\ GatesInv /\ [GatesNext]_gatesVars => GatesInv'
    <2>. SUFFICES ASSUME GatesTypeOK, GatesInv, [GatesNext]_gatesVars, NEW w \in Workers
                  PROVE  Knows(w)'
      BY DEF GatesInv
    <2>1. Knows(w)
      BY DEF GatesInv
    <2>2. CASE UNCHANGED gatesVars
      BY <2>1, <2>2 DEF gatesVars, vars, job, Knows, KnownRow, KnownSwitch, KnownGates
    <2>3. CASE GatesNext
      <3>1. CASE OperatorStep \/ Tick
        <4>1. pc' = pc /\ msg' = msg /\ copy' = copy
          BY <3>1 DEF OperatorStep, Tick, SetOutboundEnabled, ActivateCampaigns, PauseCampaigns,
                 ApplyOptOut, EditCandidate, EditMember, EditMessage, AddMessage, job
        <4>. QED
          BY <2>1, <2>3, <4>1, IdleKnows
      <3>2. ASSUME NEW v \in Workers, WorkerStep(v) \/ Crash(v)
            PROVE  Knows(w)'
        <4>1. CASE v # w
          BY <2>1, <2>3, <3>2, <4>1, OthersKnow
        <4>2. CASE v = w
          BY <2>1, <2>3, <3>2, <4>2, LoadKnows, ReadKnows, CheckKnows, FinalKnows, ClaimKnows,
             RestKnows DEF WorkerStep
        <4>. QED
          BY <4>1, <4>2
      <3>. QED
        BY <2>3, <3>1, <3>2 DEF GatesNext, Next
    <2>. QED
      BY <2>2, <2>3
  <1>. QED
    BY <1>1, <1>2, GatesTypesHold, PTL DEF GatesSpec

\* Nothing leaves on knowledge from before the claim: a pause, an opt-out or an
\* escalation that stands since then stops the send, for any interleaving.
THEOREM SendsAfterOpenGates == GatesSpec => []GatesOpenSinceClaim
  <1>1. GatesInv => GatesOpenSinceClaim
    BY DEF GatesInv, Knows, KnownGates, GatesOpenSinceClaim
  <1>. QED
    BY <1>1, GatesInvariant, PTL

\* The agent is not asked about a message whose way was closed since selection.
THEOREM AsksAfterOpenGates == GatesSpec => []GatesOpenSinceSelection
  <1>1. GatesInv => GatesOpenSinceSelection
    BY DEF GatesInv, Knows, KnownGates, GatesOpenSinceSelection
  <1>. QED
    BY <1>1, GatesInvariant, PTL

\* The history of open gates adds nothing to the core: whatever is proved of
\* the core holds of it under this specification, in particular that pauses
\* drain and that an opt-out shows.
THEOREM GatesImplementCore == GatesSpec => Spec
  <1>1. GatesInit => Init
    BY DEF GatesInit
  <1>2. [GatesNext]_gatesVars => [Next]_vars
    BY DEF GatesNext, gatesVars
  <1>. QED
    BY <1>1, <1>2, PTL DEF GatesSpec, Spec
=============================================================================
