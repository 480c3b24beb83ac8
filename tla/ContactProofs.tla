---------------------------- MODULE ContactProofs ----------------------------
(***************************************************************************)
(* Outreach implements Contact, for any number of workers, members,        *)
(* campaigns and messages; and what follows for the audit trail and the    *)
(* members' counts.                                                        *)
(***************************************************************************)
EXTENDS OutreachContact, OutreachProofs, FiniteSetTheorems

----------------------------------------------------------------------------
(* A step of a worker touches its own message only. *)

Held(g) == \E v \in Workers : BeforeSend(v, g)

\* What Contact sees of a message.
SameContact(h) ==
    /\ status'[h] = status[h]
    /\ audit'[h] = audit[h]
    /\ sends'[h] = sends[h]
    /\ \A v \in Workers : BeforeSend(v, h)' <=> BeforeSend(v, h)

LEMMA WorkerMoves ==
    ASSUME TypeOK, NEW w \in Workers, WorkerStep(w) \/ Crash(w)
    PROVE  /\ \A v \in Workers \ {w} : pc'[v] = pc[v] /\ msg'[v] = msg[v]
           /\ \/ msg'[w] = msg[w] /\ msg[w] # NoMessage
              \/ pc'[w] \in {"idle", "select", "pick", "enqueue", "check"}
  <1>. USE DEF TypeOK, At, Goto, Stages
  <1>1. CASE \/ Begin(w) \/ NextDueMessage(w) \/ EnqueueNextEligible(w)
             \/ EnqueueInitialMessage(w) \/ CheckBeforeGeneration(w) \/ CheckBeforeClaim(w)
             \/ ReadSystemState(w)
    BY <1>1 DEF Return, Block, Begin, NextDueMessage, EnqueueNextEligible,
                EnqueueInitialMessage, CheckBeforeGeneration, CheckBeforeClaim, ReadSystemState
  <1>2. CASE \/ ClaimGeneration(w) \/ ApplyDecision(w) \/ DecisionContended(w)
             \/ FailGeneration(w) \/ ReloadGenerated(w) \/ ClaimSend(w) \/ FinalCheck(w)
    BY <1>2 DEF Return, ClaimGeneration, ApplyDecision, DecisionContended, FailGeneration,
                ReloadGenerated, ClaimSend, FinalCheck
  <1>3. CASE \/ Rollback(w) \/ RecordBlock(w) \/ WriteAudit(w) \/ Approve(w)
             \/ SenderNotLoaded(w) \/ Send(w)
    BY <1>3 DEF Return, Rollback, RecordBlock, WriteAudit, Approve, SenderNotLoaded, Send, job
  <1>4. CASE CommitFailed(w) \/ CommitSent(w) \/ CommitRefused(w) \/ Crash(w)
    BY <1>4 DEF Return, CommitFailed, CommitSent, CommitRefused, Crash
  <1>. QED
    BY <1>1, <1>2, <1>3, <1>4 DEF WorkerStep

LEMMA OthersUntouched ==
    ASSUME TypeOK, NEW w \in Workers, WorkerStep(w) \/ Crash(w),
           NEW h \in Messages, h # msg[w]
    PROVE  SameContact(h)
  <1>. USE DEF TypeOK
  <1>1. status'[h] = status[h] /\ audit'[h] = audit[h] /\ sends'[h] = sends[h]
    <2>. USE DEF SetStatus, Record, queue
    <2>1. CASE \/ Begin(w) \/ NextDueMessage(w) \/ EnqueueNextEligible(w)
               \/ EnqueueInitialMessage(w) \/ CheckBeforeGeneration(w) \/ CheckBeforeClaim(w)
               \/ ReadSystemState(w)
      BY <2>1 DEF Begin, NextDueMessage, EnqueueNextEligible, EnqueueInitialMessage,
                  CheckBeforeGeneration, CheckBeforeClaim, ReadSystemState
    <2>2. CASE \/ ClaimGeneration(w) \/ ApplyDecision(w) \/ DecisionContended(w)
               \/ FailGeneration(w) \/ ReloadGenerated(w) \/ ClaimSend(w) \/ FinalCheck(w)
      BY <2>2 DEF ClaimGeneration, ApplyDecision, DecisionContended, FailGeneration,
                  ReloadGenerated, ClaimSend, FinalCheck
    <2>3. CASE \/ Rollback(w) \/ RecordBlock(w) \/ WriteAudit(w) \/ Approve(w)
               \/ SenderNotLoaded(w) \/ Send(w)
      BY <2>3 DEF Rollback, RecordBlock, WriteAudit, Approve, SenderNotLoaded, Send
    <2>4. CASE CommitFailed(w) \/ CommitSent(w) \/ CommitRefused(w) \/ Crash(w)
      BY <2>4 DEF CommitFailed, CommitSent, CommitRefused, Crash
    <2>. QED
      BY <2>1, <2>2, <2>3, <2>4 DEF WorkerStep
  <1>2. h # NoMessage
    BY KeyTypes
  <1>3. ASSUME NEW v \in Workers
        PROVE  BeforeSend(v, h)' <=> BeforeSend(v, h)
    BY <1>2, WorkerMoves DEF BeforeSend, Generating
  <1>. QED
    BY <1>1, <1>3 DEF SameContact

----------------------------------------------------------------------------
(* Confirmations.  Whoever is about to record the end of a send has made it, *)
(* and nobody has confirmed the message yet.                                 *)

Confirmed(g) == "MESSAGE_SENT" \in audit[g]

ConfirmedWasSent == \A g \in Messages : Confirmed(g) => sends[g] # 0

CommitsOnce ==
    \A w \in Workers, g \in Messages :
        msg[w] = g /\ pc[w] \in {"commit_sent", "commit_failed"} => sends[g] # 0 /\ ~Confirmed(g)

OtherAudits == \A w \in Workers : pc[w] = "audit" => reason[w] # "MESSAGE_SENT"

ConfirmInv == ConfirmedWasSent /\ CommitsOnce /\ OtherAudits

LEMMA InitConfirms == Init => ConfirmInv
  BY DEF Init, ConfirmInv, ConfirmedWasSent, CommitsOnce, OtherAudits, Confirmed

\* Steps that send and confirm nothing.
LEMMA SilentSteps ==
    ASSUME TypeOK, NEW w \in Workers,
           \/ Begin(w) \/ NextDueMessage(w) \/ EnqueueNextEligible(w) \/ EnqueueInitialMessage(w)
           \/ ReadSystemState(w) \/ CheckBeforeGeneration(w) \/ CheckBeforeClaim(w)
           \/ ClaimGeneration(w) \/ ApplyDecision(w) \/ DecisionContended(w) \/ FailGeneration(w)
           \/ ReloadGenerated(w) \/ ClaimSend(w) \/ FinalCheck(w) \/ Rollback(w) \/ RecordBlock(w)
           \/ WriteAudit(w) \/ Approve(w) \/ SenderNotLoaded(w)
           \/ CommitFailed(w) \/ CommitRefused(w) \/ Crash(w),
           OtherAudits
    PROVE  /\ sends' = sends
           /\ \A g \in Messages : Confirmed(g)' <=> Confirmed(g)
           /\ \A m \in Members : member'[m].sent = member[m].sent
           /\ OtherAudits'
           /\ pc'[w] \notin {"commit_sent", "commit_failed"}
  <1>1. sends' = sends
    BY DEF Begin, NextDueMessage, EnqueueNextEligible, EnqueueInitialMessage, ReadSystemState,
           CheckBeforeGeneration, CheckBeforeClaim, ClaimGeneration, ApplyDecision,
           DecisionContended, FailGeneration, ReloadGenerated, ClaimSend, FinalCheck, Rollback,
           RecordBlock, WriteAudit, Approve, SenderNotLoaded, CommitFailed, CommitRefused, Crash
  <1>2. \A g \in Messages : Confirmed(g)' <=> Confirmed(g)
    <2>1. CASE UNCHANGED audit
      BY <2>1 DEF Confirmed
    <2>2. ASSUME NEW g \in Messages, NEW e, e # "MESSAGE_SENT",
                 audit' = [audit EXCEPT ![g] = @ \union {e}]
          PROVE  \A h \in Messages : Confirmed(h)' <=> Confirmed(h)
      BY <2>2 DEF Confirmed, TypeOK
    <2>3. msg[w] \in Messages \/ pc[w] \in {"idle", "select", "pick"}
      BY DEF TypeOK
    <2>4. CASE WriteAudit(w)
      BY <2>2, <2>3, <2>4 DEF WriteAudit, Record, OtherAudits, At
    <2>5. CASE EnqueueInitialMessage(w) \/ ApplyDecision(w) \/ Approve(w)
      BY <2>1, <2>2, <2>3, <2>5 DEF EnqueueInitialMessage, ApplyDecision, Approve, Record, At
    <2>. QED
      BY <2>1, <2>4, <2>5
         DEF Begin, NextDueMessage, EnqueueNextEligible, ReadSystemState,
             CheckBeforeGeneration, CheckBeforeClaim, ClaimGeneration,
             DecisionContended, FailGeneration, ReloadGenerated, ClaimSend, FinalCheck, Rollback,
             RecordBlock, SenderNotLoaded, CommitFailed, CommitRefused, Crash
  <1>3. \A m \in Members : member'[m].sent = member[m].sent
    <2>1. CASE ApplyDecision(w)
      <3>1. PICK m \in Members : m = MemberOf[msg[w]]
        BY <2>1, KeyTypes DEF ApplyDecision, At, TypeOK
      <3>2. member' \in {member, [member EXCEPT ![m].human = TRUE],
                          [member EXCEPT ![m].status = "SKIPPED"]}
        BY <2>1, <3>1 DEF ApplyDecision
      <3>. QED
        BY <3>2 DEF TypeOK, Member
    <2>. QED
      BY <2>1 DEF people, Begin, NextDueMessage, EnqueueNextEligible, EnqueueInitialMessage, ReadSystemState,
           CheckBeforeGeneration, CheckBeforeClaim, ClaimGeneration,
           DecisionContended, FailGeneration, ReloadGenerated, ClaimSend, FinalCheck, Rollback,
           RecordBlock, WriteAudit, Approve, SenderNotLoaded, CommitFailed, CommitRefused, Crash
  <1>. USE DEF TypeOK, At, Goto, Return, Block, job
  <1>4. OtherAudits' /\ pc'[w] \notin {"commit_sent", "commit_failed"}
    <2>. USE DEF OtherAudits
    <2>1. CASE \/ Begin(w) \/ NextDueMessage(w) \/ EnqueueNextEligible(w)
               \/ EnqueueInitialMessage(w) \/ CheckBeforeGeneration(w) \/ CheckBeforeClaim(w)
               \/ ReadSystemState(w)
      BY <2>1 DEF Begin, NextDueMessage, EnqueueNextEligible,
                  EnqueueInitialMessage, CheckBeforeGeneration, CheckBeforeClaim, ReadSystemState
    <2>2. CASE \/ ClaimGeneration(w) \/ ApplyDecision(w) \/ DecisionContended(w)
               \/ FailGeneration(w) \/ ReloadGenerated(w) \/ ClaimSend(w) \/ FinalCheck(w)
      BY <2>2 DEF ClaimGeneration, ApplyDecision, DecisionContended, FailGeneration,
                  ReloadGenerated, ClaimSend, FinalCheck
    <2>3. CASE \/ Rollback(w) \/ RecordBlock(w) \/ WriteAudit(w) \/ Approve(w)
               \/ SenderNotLoaded(w)
      BY <2>3 DEF Rollback, RecordBlock, BlockEvent, WriteAudit, Approve, SenderNotLoaded
    <2>4. CASE CommitFailed(w) \/ CommitRefused(w) \/ Crash(w)
      BY <2>4 DEF CommitFailed, CommitRefused, Crash
    <2>. QED
      BY <2>1, <2>2, <2>3, <2>4
  <1>. QED
    BY <1>1, <1>2, <1>3, <1>4

LEMMA ConfirmSteps ==
    ASSUME TypeOK, ClaimInv, ConfirmInv, NEW w \in Workers, WorkerStep(w) \/ Crash(w)
    PROVE  ConfirmInv'
  <1>1. \A v \in Workers \ {w} : pc'[v] = pc[v] /\ msg'[v] = msg[v]
    BY WorkerMoves
  <1>2. CASE Send(w)
    <2>1. PICK g \in Messages : g = msg[w]
      BY <1>2 DEF TypeOK, Send, At
    <2>2. /\ pc[w] = "send" /\ audit' = audit /\ reason' = reason /\ msg' = msg
          /\ sends' = [sends EXCEPT ![g] = @ + 1]
          /\ pc'[w] \in {"commit_sent", "commit_failed"}
      BY <1>2, <2>1 DEF Send, At, Goto, TypeOK
    <2>3. sends[g] = 0 /\ ~Confirmed(g)
      BY <2>1, <2>2
         DEF ClaimInv, SentIsSpent, BeforeSend, ConfirmInv, ConfirmedWasSent
    <2>4. sends'[g] # 0 /\ \A h \in Messages : sends[h] # 0 => sends'[h] # 0
      BY <2>2, <2>3 DEF TypeOK
    <2>. QED
      BY <1>1, <2>1, <2>2, <2>3, <2>4
         DEF ConfirmInv, ConfirmedWasSent, CommitsOnce, OtherAudits, Confirmed
  <1>3. CASE CommitSent(w)
    <2>1. PICK g \in Messages : g = msg[w]
      BY <1>3 DEF TypeOK, CommitSent, At
    <2>2. /\ pc[w] = "commit_sent" /\ pc'[w] = "idle" /\ sends' = sends
          /\ audit' = [audit EXCEPT ![g] = @ \union {"MESSAGE_SENT"}]
          /\ \A v \in Workers \ {w} : reason'[v] = reason[v]
      BY <1>3, <2>1 DEF CommitSent, Return, Record, At, Goto, TypeOK
    <2>3. \A v \in Workers \ {w} : ~InHand(v, g)
      BY <2>1, <2>2 DEF ClaimInv, OneHand, InHand, Sending
    <2>4. \A h \in Messages : Confirmed(h)' => Confirmed(h) \/ h = g
      BY <2>2 DEF Confirmed, TypeOK
    <2>5. sends[g] # 0
      BY <2>1, <2>2 DEF ConfirmInv, CommitsOnce
    <2>. QED
      BY <1>1, <2>1, <2>2, <2>3, <2>4, <2>5
         DEF ConfirmInv, ConfirmedWasSent, CommitsOnce, OtherAudits, InHand, Sending
  <1>4. CASE ~Send(w) /\ ~CommitSent(w)
    <2>1. /\ sends' = sends
          /\ \A g \in Messages : Confirmed(g)' <=> Confirmed(g)
          /\ OtherAudits'
          /\ pc'[w] \notin {"commit_sent", "commit_failed"}
      BY <1>4, SilentSteps DEF WorkerStep, ConfirmInv
    <2>. QED
      BY <1>1, <2>1 DEF ConfirmInv, ConfirmedWasSent, CommitsOnce
  <1>. QED
    BY <1>2, <1>3, <1>4

LEMMA ConfirmInvariant == NoManualRetry => (Spec => []ConfirmInv)
  <1>. SUFFICES ASSUME NoManualRetry PROVE Spec => []ConfirmInv
    OBVIOUS
  <1>1. ASSUME TypeOK, ClaimInv, ConfirmInv, [Next]_vars
        PROVE  ConfirmInv'
    <2>1. CASE OperatorStep \/ Tick \/ UNCHANGED vars
      <3>1. UNCHANGED <<pc, msg, reason, audit, sends>>
        BY <2>1 DEF OperatorStep, Tick, SetOutboundEnabled, ActivateCampaigns, PauseCampaigns,
                    ApplyOptOut, EditCandidate, EditMember, EditMessage, AddMessage, job, vars
      <3>. QED
        BY <1>1, <3>1 DEF ConfirmInv, ConfirmedWasSent, CommitsOnce, OtherAudits, Confirmed
    <2>. QED
      BY <1>1, <2>1, ConfirmSteps DEF Next
  <1>. QED
    BY InitConfirms, <1>1, TypeCorrect, ClaimInvariant, PTL DEF Spec

----------------------------------------------------------------------------
(* Each step is a step of Contact, or changes nothing it sees. *)

SameCounts == \A m \in Members : member'[m].sent = member[m].sent

SameStages(h) == StageOf(h)' = StageOf(h)

LEMMA SameContactSameStage ==
    ASSUME NEW h, SameContact(h)
    PROVE  SameStages(h)
  <1>1. (\E v \in Workers : BeforeSend(v, h))' <=> \E v \in Workers : BeforeSend(v, h)
    BY DEF SameContact
  <1>. QED
    BY <1>1 DEF SameContact, SameStages, StageOf

\* A single message that moves along Contact's path, no count changing.
LEMMA StageMoves ==
    ASSUME NEW g \in Messages,
           \A h \in Messages \ {g} : SameStages(h),
           SameCounts,
           \/ SameStages(g)
           \/ StageOf(g) = "open" /\ StageOf(g)' \in {"claimed", "closed"}
           \/ StageOf(g) = "claimed" /\ StageOf(g)' \in {"open", "handed", "closed"}
    PROVE  [Abstract!ContactNext]_Abstract!contactVars
  <1>. DEFINE stages == [h \in Messages |-> StageOf(h)]
              counts == [m \in Members |-> member[m].sent]
  <1>1. counts' = counts
    BY DEF SameCounts
  <1>2. stages' = [stages EXCEPT ![g] = StageOf(g)']
    BY DEF SameStages
  <1>3. CASE SameStages(g)
    <2>1. stages' = stages
      BY <1>3 DEF SameStages
    <2>. QED
      BY <1>1, <2>1 DEF Abstract!contactVars
  <1>4. ASSUME NEW from, NEW to, StageOf(g) = from, StageOf(g)' = to
        PROVE  Abstract!Moves(g, from, to)
    BY <1>2, <1>4 DEF Abstract!Moves
  <1>. QED
    BY <1>1, <1>3, <1>4 DEF Abstract!ContactNext, Abstract!Claim, Abstract!GiveBack,
                            Abstract!HandOver, Abstract!Close

\* Steps that make, claim and send nothing: a message they let go is closed.
LEMMA FreeSteps ==
    ASSUME ClaimInv, NEW g \in Messages,
           \A h \in Messages \ {g} : SameStages(h),
           SameCounts,
           sends'[g] = sends[g],
           Confirmed(g)' <=> Confirmed(g),
           status'[g] \in Offered => status[g] \in Offered,
           \A v \in Workers : BeforeSend(v, g)' => BeforeSend(v, g)
    PROVE  [Abstract!ContactNext]_Abstract!contactVars
  <1>1. Held(g)' => Held(g)
    BY DEF Held
  <1>2. Held(g) => status[g] \notin Offered
    BY DEF Held, ClaimInv, HeldIsNotOffered, BeforeSend, InHand, Sending
  <1>3. \/ SameStages(g)
        \/ StageOf(g) = "open" /\ StageOf(g)' = "closed"
        \/ StageOf(g) = "claimed" /\ StageOf(g)' = "closed"
    BY <1>1, <1>2 DEF SameStages, StageOf, Held, Confirmed
  <1>. QED
    BY <1>3, StageMoves

\* What the stage of a message is, from what is known about it.
LEMMA StageFacts ==
    ASSUME ClaimInv, ConfirmInv, NEW g \in Messages
    PROVE  /\ Confirmed(g) => StageOf(g) = "confirmed"
           /\ sends[g] > 0 /\ ~Confirmed(g) => StageOf(g) = "handed"
           /\ Held(g) /\ sends[g] = 0 => StageOf(g) = "claimed"
           /\ status[g] \in Offered => StageOf(g) = "open"
  <1>1. sends[g] = 0 => ~Confirmed(g)
    BY DEF ConfirmInv, ConfirmedWasSent
  <1>2. status[g] \in Offered => ~Held(g) /\ sends[g] = 0
    BY DEF Held, ClaimInv, HeldIsNotOffered, SentIsSpent, BeforeSend, InHand, Sending
  <1>. QED
    BY <1>1, <1>2 DEF StageOf, Held, Confirmed

LEMMA WorkerContact ==
    ASSUME TypeOK, ClaimInv, ConfirmInv, ClaimInv', ConfirmInv',
           NEW w \in Workers, WorkerStep(w) \/ Crash(w),
           NEW g \in Messages, g = msg[w]
    PROVE  [Abstract!ContactNext]_Abstract!contactVars
  <1>. USE DEF At, Goto, SetStatus
  <1>0. \A h \in Messages \ {g} : SameStages(h)
    BY OthersUntouched, SameContactSameStage
  <1>1. CASE \/ Begin(w) \/ NextDueMessage(w) \/ EnqueueNextEligible(w)
             \/ EnqueueInitialMessage(w) \/ ReadSystemState(w) \/ CheckBeforeGeneration(w)
             \/ CheckBeforeClaim(w) \/ DecisionContended(w) \/ FailGeneration(w)
             \/ ReloadGenerated(w) \/ FinalCheck(w) \/ RecordBlock(w) \/ WriteAudit(w)
             \/ Approve(w) \/ SenderNotLoaded(w) \/ CommitFailed(w) \/ CommitRefused(w)
             \/ Crash(w)
    <2>1. SameCounts /\ (Confirmed(g)' <=> Confirmed(g))
      BY <1>1, SilentSteps DEF SameCounts, ConfirmInv
    <2>2. sends' = sends /\ \A h \in Messages : status'[h] \in Offered => status[h] \in Offered
      BY <1>1, UnclaimedMoves
    <2>3. \A v \in Workers : BeforeSend(v, g)' => BeforeSend(v, g)
      BY <1>1, UnclaimedMoves DEF HandStages, BeforeSend, Generating
    <2>. QED
      BY <1>0, <2>1, <2>2, <2>3, FreeSteps
  <1>2. CASE ClaimGeneration(w) \/ ClaimSend(w)
    <2>1. /\ SameCounts /\ (Confirmed(g)' <=> Confirmed(g)) /\ sends' = sends
      BY <1>2, SilentSteps DEF SameCounts, ConfirmInv
    <2>2. \/ /\ status[g] \in Offered
             /\ msg'[w] = g /\ pc'[w] \in {"generate", "final"}
          \/ /\ status' = status /\ pc'[w] = "idle" /\ msg'[w] = NoMessage
      BY <1>2 DEF ClaimGeneration, ClaimSend, GenerationClaimable, SendClaimable, Offered,
                  Return, TypeOK
    <2>3. CASE status[g] \in Offered /\ msg'[w] = g /\ pc'[w] \in {"generate", "final"}
      <3>1. Held(g)'
        BY <2>3 DEF Held, BeforeSend, Generating
      <3>2. StageOf(g) = "open" /\ sends[g] = 0
        BY <2>3, StageFacts DEF ClaimInv, SentIsSpent
      <3>3. sends'[g] = 0 /\ ~Confirmed(g)'
        BY <2>1, <3>2 DEF ConfirmInv, ConfirmedWasSent
      <3>4. StageOf(g)' = "claimed"
        BY <3>1, <3>3 DEF StageOf, Held, Confirmed
      <3>. QED
        BY <1>0, <2>1, <3>2, <3>4, StageMoves
    <2>4. CASE status' = status /\ pc'[w] = "idle" /\ msg'[w] = NoMessage
      <3>1. \A v \in Workers : BeforeSend(v, g)' => BeforeSend(v, g)
        BY <2>4, KeyTypes, WorkerMoves DEF BeforeSend, Generating
      <3>. QED
        BY <1>0, <2>1, <2>4, <3>1, FreeSteps
    <2>. QED
      BY <2>2, <2>3, <2>4
  <1>3. CASE ApplyDecision(w) \/ Rollback(w)
    <2>1. SameCounts /\ (Confirmed(g)' <=> Confirmed(g)) /\ sends' = sends
      BY <1>3, SilentSteps DEF SameCounts, ConfirmInv
    <2>2. /\ msg[w] = g /\ pc[w] \in {"generate", "rollback"}
          /\ pc'[w] \in {"reload", "idle", "block"}
      BY <1>3 DEF ApplyDecision, Rollback, Return, TypeOK
    <2>3. Held(g) /\ sends[g] = 0
      BY <2>2 DEF Held, BeforeSend, Generating, ClaimInv, SentIsSpent
    <2>4. StageOf(g) = "claimed"
      BY <2>3, StageFacts
    <2>5. ~Held(g)'
      <3>1. \A v \in Workers \ {w} : ~BeforeSend(v, g)
        BY <2>2 DEF ClaimInv, OneHand, InHand, BeforeSend, Generating, Sending
      <3>. QED
        BY <2>2, <3>1, WorkerMoves DEF Held, BeforeSend, Generating
    <2>6. StageOf(g)' \in {"open", "closed"}
      BY <2>1, <2>3, <2>5 DEF StageOf, Held, Confirmed, ConfirmInv, ConfirmedWasSent
    <2>. QED
      BY <1>0, <2>1, <2>4, <2>6, StageMoves
  <1>4. CASE Send(w)
    <2>1. /\ pc[w] = "send" /\ msg[w] = g /\ audit' = audit /\ member' = member
          /\ sends'[g] = sends[g] + 1
      BY <1>4 DEF Send, TypeOK, people
    <2>2. sends[g] = 0 /\ Held(g)
      BY <2>1 DEF Held, BeforeSend, ClaimInv, SentIsSpent
    <2>3. StageOf(g) = "claimed"
      BY <2>2, StageFacts
    <2>4. ~Confirmed(g)' /\ sends'[g] > 0
      BY <2>1, <2>2 DEF ConfirmInv, ConfirmedWasSent, Confirmed
    <2>5. StageOf(g)' = "handed"
      BY <2>4 DEF StageOf, Confirmed
    <2>. QED
      BY <1>0, <2>1, <2>3, <2>5, StageMoves DEF SameCounts
  <1>5. CASE CommitSent(w)
    <2>. DEFINE m == MemberOf[g]
    <2>1. /\ pc[w] = "commit_sent" /\ msg[w] = g
          /\ member' = [member EXCEPT ![m] = Contacted(@, copy[w].stamp)]
          /\ audit' = [audit EXCEPT ![g] = @ \union {"MESSAGE_SENT"}]
      BY <1>5 DEF CommitSent, Record
    <2>2. StageOf(g) = "handed"
      <3>1. sends[g] > 0 /\ ~Confirmed(g)
        BY <2>1 DEF ConfirmInv, CommitsOnce, TypeOK
      <3>. QED
        BY <3>1, StageFacts
    <2>3. StageOf(g)' = "confirmed"
      BY <2>1 DEF StageOf, TypeOK
    <2>4. \A k \in Members : member'[k].sent = IF k = m THEN member[k].sent + 1
                                                       ELSE member[k].sent
      <3>1. Contacted(member[m], copy[w].stamp).sent = member[m].sent + 1
        BY KeyTypes DEF Contacted, TypeOK, Member
      <3>. QED
        BY <2>1, <3>1, KeyTypes DEF TypeOK
    <2>. DEFINE stages == [h \in Messages |-> StageOf(h)]
                counts == [k \in Members |-> member[k].sent]
    <2>5. counts' = [counts EXCEPT ![m] = @ + 1]
      BY <2>4, KeyTypes
    <2>6. stages' = [stages EXCEPT ![g] = "confirmed"]
      BY <1>0, <2>3 DEF SameStages
    <2>7. Abstract!Moves(g, "handed", "confirmed")
      BY <2>2, <2>6 DEF Abstract!Moves
    <2>8. Abstract!Confirm(g)
      BY <2>5, <2>7 DEF Abstract!Confirm
    <2>. QED
      BY <2>8 DEF Abstract!ContactNext
  <1>. QED
    BY <1>1, <1>2, <1>3, <1>4, <1>5 DEF WorkerStep

\* Before a worker has a message it can disturb none.
LEMMA IdleContact ==
    ASSUME TypeOK, ConfirmInv, NEW w \in Workers, WorkerStep(w) \/ Crash(w), msg[w] \notin Messages
    PROVE  UNCHANGED Abstract!contactVars
  <1>1. pc[w] \in {"idle", "select", "pick"}
    BY DEF TypeOK
  <1>2. \A h \in Messages : SameStages(h)
    BY OthersUntouched, SameContactSameStage
  <1>3. ~Send(w) /\ ~CommitSent(w)
    BY <1>1 DEF Send, CommitSent, At
  <1>4. SameCounts
    BY <1>3, SilentSteps DEF WorkerStep, ConfirmInv, SameCounts
  <1>. QED
    BY <1>2, <1>4 DEF Abstract!contactVars, SameStages, SameCounts

\* An operator that leaves the counts of a member alone changes none.
LEMMA EditedCounts ==
    ASSUME TypeOK, NoManualCounts, NEW m \in Members, EditMember(m)
    PROVE  \A k \in Members : /\ member'[k].sent = member[k].sent
                              /\ member'[k].first = member[k].first
  <1>1. PICK e \in MemberEdits, c \in CountEdits \union {CountsOf(member[m])} :
          member' = [member EXCEPT ![m] = Edited(member[m], e, c)]
    BY EditedMembers
  <1>2. c = CountsOf(member[m])
    BY DEF NoManualCounts
  <1>3. /\ Edited(member[m], e, c).sent = member[m].sent
        /\ Edited(member[m], e, c).first = member[m].first
    BY <1>2 DEF Edited, CountsOf, TypeOK, Member
  <1>. QED
    BY <1>1, <1>3 DEF TypeOK

LEMMA OperatorContact ==
    ASSUME TypeOK, ClaimInv, NoManualRetry, NoManualCounts, OperatorStep \/ Tick
    PROVE  [Abstract!ContactNext]_Abstract!contactVars
  <1>1. pc' = pc /\ msg' = msg /\ sends' = sends /\ audit' = audit
    BY DEF OperatorStep, Tick, SetOutboundEnabled, ActivateCampaigns, PauseCampaigns, ApplyOptOut,
           EditCandidate, EditMember, EditMessage, AddMessage, job
  <1>2. \A v \in Workers, h \in Messages : BeforeSend(v, h)' <=> BeforeSend(v, h)
    BY <1>1 DEF BeforeSend, Generating
  <1>3. ASSUME NEW h \in Messages, status'[h] = status[h]
        PROVE  SameStages(h)
    BY <1>1, <1>2, <1>3, SameContactSameStage DEF SameContact
  <1>4. ASSUME NEW g \in Messages,
               SameCounts,
               \A h \in Messages \ {g} : status'[h] = status[h],
               status'[g] \in Offered => status[g] \in Offered
        PROVE  [Abstract!ContactNext]_Abstract!contactVars
    BY <1>1, <1>2, <1>3, <1>4, FreeSteps DEF Confirmed
  <1>5. ASSUME NEW g \in Messages, EditMessage(g)
        PROVE  [Abstract!ContactNext]_Abstract!contactVars
    <2>1. SameCounts
      BY <1>5 DEF EditMessage, people, SameCounts
    <2>2. CASE status' = status
      BY <1>4, <2>1, <2>2
    <2>3. ASSUME NEW s \in AdminStatuses, status' = [status EXCEPT ![g] = s]
          PROVE  [Abstract!ContactNext]_Abstract!contactVars
      <3>1. s \notin Offered
        BY OperatorsAssumption DEF NoManualRetry, Offered, MessageStatus
      <3>. QED
        BY <1>4, <2>1, <2>3, <3>1 DEF TypeOK
    <2>. QED
      BY <1>5, <2>2, <2>3, EditedMessages
  <1>6. ASSUME NEW g \in Manual, AddMessage(g)
        PROVE  [Abstract!ContactNext]_Abstract!contactVars
    <2>1. PICK s \in AddedStatuses : status' = [status EXCEPT ![g] = s]
      BY <1>6, AddedMessages
    <2>2. status[g] \in Offered /\ g \in Messages /\ SameCounts
      BY <1>6, AddedMessages DEF Offered, people, SameCounts
    <2>. QED
      BY <1>4, <2>1, <2>2 DEF TypeOK
  <1>7. ASSUME NEW m \in Members, EditMember(m)
        PROVE  UNCHANGED Abstract!contactVars
    <2>3. SameCounts
      BY <1>7, EditedCounts DEF SameCounts
    <2>4. \A h \in Messages : SameStages(h)
      BY <1>3, <1>7 DEF EditMember, queue
    <2>. QED
      BY <2>3, <2>4 DEF Abstract!contactVars, SameStages, SameCounts
  <1>8. CASE status' = status /\ member' = member
    BY <1>3, <1>8 DEF Abstract!contactVars, SameStages
  <1>. QED
    BY <1>5, <1>6, <1>7, <1>8
       DEF OperatorStep, Tick, SetOutboundEnabled, ActivateCampaigns, PauseCampaigns, ApplyOptOut,
           EditCandidate, queue, people

\* The core implements Contact: whatever the number of workers that race, crash
\* and start again, each message is claimed by one of them, handed over once,
\* confirmed after that and counted once, while no operator makes a handled
\* message sendable or changes a count by hand.
THEOREM CoreImplementsContact ==
    NoManualRetry /\ NoManualCounts => (Spec => ImplementsContact)
  <1>. SUFFICES ASSUME NoManualRetry, NoManualCounts PROVE Spec => ImplementsContact
    OBVIOUS
  <1>1. Init => Abstract!ContactInit
    <2>1. Members = {MemberOf[g] : g \in Messages}
      BY KeysAssumption DEF Messages
    <2>2. Init => \A g \in Messages : StageOf(g) = "open"
      BY DEF Init, StageOf, BeforeSend, Generating, Offered
    <2>. QED
      BY <2>1, <2>2 DEF Init, Abstract!ContactInit, Abstract!Recipients
  <1>2. ASSUME TypeOK, ClaimInv, ConfirmInv, ClaimInv', ConfirmInv', [Next]_vars
        PROVE  [Abstract!ContactNext]_Abstract!contactVars
    <2>1. CASE UNCHANGED vars
      <3>1. \A h \in Messages : SameStages(h)
        BY <2>1 DEF vars, queue, job, SameStages, StageOf, BeforeSend, Generating
      <3>. QED
        BY <2>1, <3>1 DEF vars, people, SameStages, Abstract!contactVars
    <2>2. ASSUME NEW w \in Workers, WorkerStep(w) \/ Crash(w)
          PROVE  [Abstract!ContactNext]_Abstract!contactVars
      <3>1. CASE msg[w] \in Messages
        BY <1>2, <2>2, <3>1, WorkerContact
      <3>2. CASE msg[w] \notin Messages
        BY <1>2, <2>2, <3>2, IdleContact
      <3>. QED
        BY <3>1, <3>2
    <2>. QED
      BY <1>2, <2>1, <2>2, OperatorContact DEF Next
  <1>. QED
    BY <1>1, <1>2, TypeCorrect, ClaimInvariant, ConfirmInvariant, PTL
       DEF Spec, ImplementsContact, Abstract!ContactSpec

----------------------------------------------------------------------------
(* What Contact promises follows from Contact alone. *)

LEMMA SameCardinality ==
    /\ \A S : Abstract!IsFiniteSet(S) <=> IsFiniteSet(S)
    /\ \A S : Abstract!Cardinality(S) = Cardinality(S)
  BY DEF Abstract!IsFiniteSet, IsFiniteSet, Abstract!Cardinality, Cardinality

LEMMA ContactCounts ==
    ASSUME Abstract!ContactTypes, Abstract!CountsConfirmed,
           [Abstract!ContactNext]_Abstract!contactVars
    PROVE  Abstract!ContactTypes' /\ Abstract!CountsConfirmed'
  <1>. DEFINE stage == [g \in Messages |-> StageOf(g)]
              count == [m \in Members |-> member[m].sent]
              R     == {MemberOf[g] : g \in Messages}
              C(m)  == {g \in Messages : MemberOf[g] = m /\ stage[g] = "confirmed"}
              Kept(g, to) == stage' = [stage EXCEPT ![g] = to] /\ count' = count
              Types == /\ stage \in [Messages -> {"open", "claimed", "handed", "confirmed", "closed"}]
                       /\ count \in [R -> Nat]
              Counts == \A m \in R : IsFiniteSet(C(m)) /\ count[m] = Cardinality(C(m))
  <1>0. \A m : Abstract!ConfirmedFor(m) = C(m)
    BY DEF Abstract!ConfirmedFor
  <1>t. Types <=> Abstract!ContactTypes
    BY DEF Abstract!ContactTypes, Abstract!ContactStages, Abstract!Recipients
  <1>c. Counts <=> Abstract!CountsConfirmed
    BY <1>0, SameCardinality DEF Abstract!CountsConfirmed, Abstract!Recipients
  <1>1. Types /\ Counts
    BY <1>t, <1>c
  <1>2. \/ \E g \in Messages, from, to \in {"open", "claimed", "handed", "closed"} :
               stage[g] = from /\ Kept(g, to)
        \/ \E g \in Messages :
               /\ stage[g] = "handed"
               /\ stage' = [stage EXCEPT ![g] = "confirmed"]
               /\ count' = [count EXCEPT ![MemberOf[g]] = @ + 1]
        \/ stage' = stage /\ count' = count
    BY DEF Abstract!ContactNext, Abstract!contactVars, Abstract!Claim, Abstract!GiveBack,
           Abstract!HandOver, Abstract!Close, Abstract!Confirm, Abstract!Moves
  <1>3. (Types /\ Counts)' => Abstract!ContactTypes' /\ Abstract!CountsConfirmed'
    <2>1. \A m : Abstract!ConfirmedFor(m)' = C(m)'
      BY DEF Abstract!ConfirmedFor
    <2>2. Types' => Abstract!ContactTypes'
      BY DEF Abstract!ContactTypes, Abstract!ContactStages, Abstract!Recipients
    <2>3. Counts' => Abstract!CountsConfirmed'
      BY <2>1, SameCardinality DEF Abstract!CountsConfirmed, Abstract!Recipients
    <2>. QED
      BY <2>2, <2>3
  <1>. HIDE DEF stage, count
  <1>4. CASE stage' = stage /\ count' = count
    BY <1>1, <1>3, <1>4
  <1>5. ASSUME NEW g \in Messages, stage[g] # "confirmed",
               NEW to \in {"open", "claimed", "handed", "closed"}, Kept(g, to)
        PROVE  (Types /\ Counts)'
    <2>1. Types'
      BY <1>1, <1>5
    <2>2. \A m \in R : C(m)' = C(m)
      BY <1>1, <1>5
    <2>. QED
      BY <1>1, <1>5, <2>1, <2>2
  <1>6. ASSUME NEW g \in Messages, stage[g] = "handed", stage' = [stage EXCEPT ![g] = "confirmed"],
               count' = [count EXCEPT ![MemberOf[g]] = @ + 1]
        PROVE  (Types /\ Counts)'
    <2>1. MemberOf[g] \in R
      OBVIOUS
    <2>2. Types'
      BY <1>1, <1>6, <2>1
    <2>3. /\ g \notin C(MemberOf[g])
          /\ C(MemberOf[g])' = C(MemberOf[g]) \union {g}
          /\ \A m \in R \ {MemberOf[g]} : C(m)' = C(m)
      BY <1>1, <1>6
    <2>4. /\ IsFiniteSet(C(MemberOf[g])')
          /\ Cardinality(C(MemberOf[g])') = Cardinality(C(MemberOf[g])) + 1
      <3>1. IsFiniteSet(C(MemberOf[g]))
        BY <1>1, <2>1
      <3>. HIDE DEF C
      <3>. QED
        BY <2>3, <3>1, FS_AddElement
    <2>5. /\ count'[MemberOf[g]] = count[MemberOf[g]] + 1
          /\ \A m \in R \ {MemberOf[g]} : count'[m] = count[m]
      BY <1>1, <1>6, <2>1
    <2>6. ASSUME NEW m \in R PROVE IsFiniteSet(C(m)') /\ count'[m] = Cardinality(C(m)')
      <3>1. CASE m = MemberOf[g]
        BY <1>1, <2>1, <2>4, <2>5, <3>1
      <3>2. CASE m # MemberOf[g]
        BY <1>1, <2>3, <2>5, <3>2
      <3>. QED
        BY <3>1, <3>2
    <2>. QED
      BY <2>2, <2>6
  <1>. QED
    BY <1>2, <1>3, <1>4, <1>5, <1>6

\* A member's count is the number of its confirmed messages in every behaviour
\* that Contact allows, and so in those of the core.
THEOREM ContactIsKept ==
    NoManualRetry /\ NoManualCounts => (Spec => []Abstract!CountsConfirmed)
  <1>. SUFFICES ASSUME NoManualRetry, NoManualCounts PROVE Spec => []Abstract!CountsConfirmed
    OBVIOUS
  <1>1. ASSUME Abstract!ContactInit PROVE Abstract!ContactTypes /\ Abstract!CountsConfirmed
    <2>1. \A m : Abstract!ConfirmedFor(m) = {}
      BY <1>1 DEF Abstract!ContactInit, Abstract!ConfirmedFor
    <2>2. Abstract!ContactTypes
      BY <1>1 DEF Abstract!ContactInit, Abstract!ContactTypes, Abstract!ContactStages
    <2>3. \A m \in Abstract!Recipients : [n \in Members |-> member[n].sent][m] = 0
      BY <1>1 DEF Abstract!ContactInit
    <2>4. Abstract!CountsConfirmed
      BY <2>1, <2>3, FS_EmptySet, SameCardinality DEF Abstract!CountsConfirmed
    <2>. QED
      BY <2>2, <2>4
  <1>2. Abstract!ContactSpec => [](Abstract!ContactTypes /\ Abstract!CountsConfirmed)
    BY <1>1, ContactCounts, PTL DEF Abstract!ContactSpec
  <1>3. Spec => Abstract!ContactSpec
    BY CoreImplementsContact DEF ImplementsContact
  <1>. QED
    BY <1>2, <1>3, PTL

----------------------------------------------------------------------------
(* The counts.  The cardinality of a set that grows one element at a time is *)
(* only defined while it is finite, so the invariant says that it is.        *)

ConfirmedOf(m) == {g \in Messages : MemberOf[g] = m /\ Confirmed(g)}

CountInv ==
    \A m \in Members :
        IsFiniteSet(ConfirmedOf(m)) /\ member[m].sent = Cardinality(ConfirmedOf(m))

LEMMA SameCountsKeep ==
    ASSUME CountInv, SameCounts, \A g \in Messages : Confirmed(g)' <=> Confirmed(g)
    PROVE  CountInv'
  <1>1. ASSUME NEW m \in Members
        PROVE  ConfirmedOf(m)' = ConfirmedOf(m)
    BY DEF ConfirmedOf
  <1>. QED
    BY <1>1 DEF CountInv, SameCounts

LEMMA CommitCounts ==
    ASSUME TypeOK, ClaimInv, ConfirmInv, CountInv, NEW w \in Workers, CommitSent(w)
    PROVE  CountInv'
  <1>0. PICK g \in Messages, k \in Members : g = msg[w] /\ k = MemberOf[g]
    BY KeyTypes DEF CommitSent, At, TypeOK
  <1>1. /\ msg[w] = g /\ MemberOf[g] = k
        /\ pc[w] = "commit_sent"
        /\ member' = [member EXCEPT ![k] = Contacted(@, copy[w].stamp)]
        /\ audit' = [audit EXCEPT ![g] = @ \union {"MESSAGE_SENT"}]
    BY <1>0 DEF CommitSent, At, Record
  <1>2. ~Confirmed(g)
    BY <1>1 DEF ConfirmInv, CommitsOnce
  <1>3. Contacted(member[k], copy[w].stamp).sent = member[k].sent + 1
    BY <1>1 DEF Contacted, TypeOK, Member
  <1>4. \A h \in Messages : Confirmed(h)' <=> Confirmed(h) \/ h = g
    BY <1>1 DEF Confirmed, TypeOK
  <1>5. ASSUME NEW m \in Members, m # k
        PROVE  member'[m].sent = member[m].sent /\ ConfirmedOf(m)' = ConfirmedOf(m)
    BY <1>1, <1>4, <1>5 DEF ConfirmedOf, TypeOK
  <1>6. ConfirmedOf(k)' = ConfirmedOf(k) \union {g} /\ g \notin ConfirmedOf(k)
    BY <1>1, <1>2, <1>4 DEF ConfirmedOf
  <1>7. member'[k].sent = member[k].sent + 1
    BY <1>1, <1>3 DEF TypeOK
  <1>8. /\ IsFiniteSet(ConfirmedOf(k)')
        /\ member'[k].sent = Cardinality(ConfirmedOf(k)')
    BY <1>1, <1>6, <1>7, FS_AddElement DEF CountInv
  <1>. QED
    BY <1>5, <1>8 DEF CountInv

\* A member's messages_sent, which operators read and the reports show, is the
\* number of its messages whose confirmation is on record: no racing or
\* restarted worker counts one twice, and no failed transaction counts one
\* without its record.
THEOREM CountsAreExact == Spec => []CountsMatchConfirmations
  <1>1. CountInv => CountsMatchConfirmations
    BY DEF CountInv, CountsMatchConfirmations, ConfirmedOf, Confirmed
  <1>2. ~(NoManualRetry /\ NoManualCounts) => CountsMatchConfirmations
    BY DEF CountsMatchConfirmations
  <1>3. Init => CountInv
    <2>1. ASSUME Init, NEW m \in Members
          PROVE  ConfirmedOf(m) = {} /\ member[m].sent = 0
      BY <2>1 DEF Init, ConfirmedOf, Confirmed
    <2>. QED
      BY <2>1, FS_EmptySet DEF CountInv
  <1>4. ASSUME TypeOK, NoManualCounts, ClaimInv, ConfirmInv, CountInv, [Next]_vars
        PROVE  CountInv'
    <2>1. CASE OperatorStep \/ Tick \/ UNCHANGED vars
      <3>1. audit' = audit
        BY <2>1 DEF OperatorStep, Tick, SetOutboundEnabled, ActivateCampaigns, PauseCampaigns,
                    ApplyOptOut, EditCandidate, EditMember, EditMessage, AddMessage, vars
      <3>2. SameCounts
        <4>1. ASSUME NEW m \in Members, EditMember(m)
              PROVE  SameCounts
          BY <1>4, <4>1, EditedCounts DEF SameCounts
        <4>. QED
          BY <2>1, <4>1 DEF OperatorStep, Tick, SetOutboundEnabled, ActivateCampaigns,
                    PauseCampaigns, ApplyOptOut, EditCandidate, EditMessage, AddMessage, vars,
                    people, SameCounts
      <3>. QED
        BY <1>4, <3>1, <3>2, SameCountsKeep DEF Confirmed
    <2>2. ASSUME NEW w \in Workers, WorkerStep(w) \/ Crash(w)
          PROVE  CountInv'
      <3>1. CASE Send(w)
        BY <1>4, <3>1, SameCountsKeep DEF Send, people, SameCounts, Confirmed
      <3>2. CASE ~Send(w) /\ ~CommitSent(w)
        <4>1. SameCounts /\ \A g \in Messages : Confirmed(g)' <=> Confirmed(g)
          BY <1>4, <2>2, <3>2, SilentSteps DEF WorkerStep, ConfirmInv, SameCounts
        <4>. QED
          BY <1>4, <4>1, SameCountsKeep
      <3>. QED
        BY <1>4, <2>2, <3>1, <3>2, CommitCounts
    <2>. QED
      BY <1>4, <2>1, <2>2 DEF Next
  <1>5. CASE NoManualRetry /\ NoManualCounts
    BY <1>1, <1>3, <1>4, <1>5, TypeCorrect, ClaimInvariant, ConfirmInvariant, PTL DEF Spec
  <1>6. CASE ~(NoManualRetry /\ NoManualCounts)
    BY <1>2, <1>6, PTL
  <1>. QED
    BY <1>5, <1>6

----------------------------------------------------------------------------
(* The audit trail of a sent message.  Its marks are made one after another, *)
(* and each stage of a message presupposes the marks of those before it.     *)

RowsExist ==
    \A w \in Workers :
        pc[w] \notin {"idle", "select", "pick", "enqueue"} => status[msg[w]] # "NONE"

QueuedMark == \A g \in Members : status[g] # "NONE" => "MESSAGE_QUEUED" \in audit[g]

GeneratedMark ==
    \A g \in Members :
        status[g] = "READY" \/ (\E w \in Workers : Sending(w, g)) => "MESSAGE_GENERATED" \in audit[g]

ApprovedMark ==
    \A g \in Messages, w \in Workers :
        msg[w] = g /\ pc[w] = "send" => "MESSAGE_APPROVED" \in audit[g]

Escalated(g) == "HUMAN_ESCALATION" \in audit[g]

EscalatedIsClosed ==
    \A g \in Messages :
        Escalated(g) => /\ sends[g] = 0
                        /\ status[g] \notin Offered
                        /\ \A w \in Workers : ~InHand(w, g)

Marks == {"MESSAGE_QUEUED", "MESSAGE_GENERATED", "MESSAGE_APPROVED"}

SentMarks == \A g \in Members : sends[g] # 0 => Marks \subseteq audit[g]

LateAudits ==
    \A w \in Workers :
        pc[w] = "audit" => reason[w] \in {"MESSAGE_BLOCKED", "MESSAGE_FAILED", "AGENT_ERROR"}

MarksInv == /\ RowsExist /\ QueuedMark /\ GeneratedMark /\ ApprovedMark
            /\ EscalatedIsClosed /\ SentMarks /\ LateAudits

LEMMA InitMarks == Init => MarksInv
  BY MembersAreMessages
     DEF Init, MarksInv, RowsExist, QueuedMark, GeneratedMark, ApprovedMark, EscalatedIsClosed,
         Escalated, SentMarks, LateAudits, Sending

\* The trail only grows, and a row that exists stays.
LEMMA TrailGrows ==
    ASSUME TypeOK, NEW w \in Workers, WorkerStep(w) \/ Crash(w)
    PROVE  \A g \in Messages : /\ audit[g] \subseteq audit'[g]
                               /\ status[g] # "NONE" => status'[g] # "NONE"
  <1>. USE DEF TypeOK, SetStatus, Record, queue
  <1>1. CASE \/ Begin(w) \/ NextDueMessage(w) \/ EnqueueNextEligible(w)
             \/ CheckBeforeGeneration(w) \/ CheckBeforeClaim(w) \/ ReadSystemState(w)
    BY <1>1 DEF Begin, NextDueMessage, EnqueueNextEligible,
                CheckBeforeGeneration, CheckBeforeClaim, ReadSystemState
  <1>2. CASE \/ ClaimGeneration(w) \/ DecisionContended(w)
             \/ FailGeneration(w) \/ ReloadGenerated(w) \/ ClaimSend(w) \/ FinalCheck(w)
    BY <1>2 DEF ClaimGeneration, DecisionContended, FailGeneration,
                ReloadGenerated, ClaimSend, FinalCheck
  <1>5. ASSUME NEW g, NEW s, s # "NONE", NEW e,
               status' = status \/ status' = [status EXCEPT ![g] = s],
               audit' = audit \/ audit' = [audit EXCEPT ![g] = @ \union {e}]
        PROVE  \A h \in Messages : /\ audit[h] \subseteq audit'[h]
                                   /\ status[h] # "NONE" => status'[h] # "NONE"
    BY <1>5
  <1>6. CASE EnqueueInitialMessage(w)
    BY <1>5, <1>6 DEF EnqueueInitialMessage
  <1>7. CASE ApplyDecision(w)
    <2>1. \/ SetStatus(msg[w], "READY") /\ Record(msg[w], "MESSAGE_GENERATED")
          \/ SetStatus(msg[w], "REQUIRES_HUMAN") /\ Record(msg[w], "HUMAN_ESCALATION")
          \/ SetStatus(msg[w], "CANCELLED") /\ Record(msg[w], "MESSAGE_BLOCKED")
      BY <1>7 DEF ApplyDecision
    <2>. QED
      BY <1>5, <2>1
  <1>3. CASE \/ Rollback(w) \/ RecordBlock(w) \/ WriteAudit(w) \/ Approve(w)
             \/ SenderNotLoaded(w) \/ Send(w)
    BY <1>3 DEF Rollback, RecordBlock, WriteAudit, Approve, SenderNotLoaded, Send
  <1>4. CASE CommitFailed(w) \/ CommitSent(w) \/ CommitRefused(w) \/ Crash(w)
    BY <1>4 DEF CommitFailed, CommitSent, CommitRefused, Crash
  <1>. QED
    BY <1>1, <1>2, <1>3, <1>4, <1>6, <1>7 DEF WorkerStep

\* A worker past the enqueueing works on a row that exists, with a reason for
\* the audit that is neither a confirmation nor an escalation.
LEMMA WorkerRows ==
    ASSUME TypeOK, RowsExist, LateAudits, NEW w \in Workers, WorkerStep(w) \/ Crash(w)
    PROVE  RowsExist' /\ LateAudits'
  <1>0. \A v \in Workers \ {w} : pc'[v] = pc[v] /\ msg'[v] = msg[v]
    BY WorkerMoves
  <1>1. \A v \in Workers \ {w} : reason'[v] = reason[v]
    BY DEF TypeOK, Return, Block, WorkerStep, job,
           Begin, NextDueMessage, EnqueueNextEligible, EnqueueInitialMessage, ReadSystemState,
           CheckBeforeGeneration, CheckBeforeClaim, ClaimGeneration, ApplyDecision,
           DecisionContended, FailGeneration, ReloadGenerated, ClaimSend, FinalCheck, Rollback,
           RecordBlock, WriteAudit, Approve, SenderNotLoaded, Send, CommitFailed, CommitSent,
           CommitRefused, Crash
  <1>2. /\ pc'[w] \notin {"idle", "select", "pick", "enqueue"} => status'[msg'[w]] # "NONE"
        /\ pc'[w] = "audit" => reason'[w] \in {"MESSAGE_BLOCKED", "MESSAGE_FAILED", "AGENT_ERROR"}
    <2>. USE DEF TypeOK, SetStatus, queue, job, At, Goto, Return, Block, RowsExist, LateAudits
    <2>1. CASE \/ Begin(w) \/ NextDueMessage(w) \/ EnqueueNextEligible(w)
               \/ EnqueueInitialMessage(w)
      BY <2>1 DEF Begin, NextDueMessage, EnqueueNextEligible, EnqueueInitialMessage, Due
    <2>2. CASE CheckBeforeGeneration(w) \/ CheckBeforeClaim(w) \/ ReadSystemState(w)
      BY <2>2 DEF CheckBeforeGeneration, CheckBeforeClaim, ReadSystemState
    <2>3. CASE \/ ClaimGeneration(w) \/ DecisionContended(w) \/ FailGeneration(w) \/ ClaimSend(w)
      BY <2>3 DEF ClaimGeneration, DecisionContended, FailGeneration, ClaimSend
    <2>7. CASE ReloadGenerated(w) \/ FinalCheck(w)
      <3>1. /\ status' = status /\ msg' = msg
            /\ pc[w] \in {"reload", "final_policy"} /\ pc'[w] # "audit"
        BY <2>7 DEF ReloadGenerated, FinalCheck
      <3>. QED
        BY <3>1
    <2>6. CASE ApplyDecision(w)
      <3>1. \/ pc'[w] = "reload" /\ msg'[w] = msg[w] /\ status' = [status EXCEPT ![msg[w]] = "READY"]
            \/ pc'[w] = "idle"
        BY <2>6 DEF ApplyDecision
      <3>2. msg[w] \in Messages
        BY <2>6 DEF ApplyDecision
      <3>. QED
        BY <3>1, <3>2
    <2>4. CASE \/ Rollback(w) \/ RecordBlock(w) \/ WriteAudit(w) \/ Approve(w)
               \/ SenderNotLoaded(w) \/ Send(w)
      BY <2>4 DEF Rollback, RecordBlock, BlockEvent, WriteAudit, Approve, SenderNotLoaded, Send
    <2>5. CASE CommitFailed(w) \/ CommitSent(w) \/ CommitRefused(w) \/ Crash(w)
      BY <2>5 DEF CommitFailed, CommitSent, CommitRefused, Crash
    <2>. QED
      BY <2>1, <2>2, <2>3, <2>4, <2>5, <2>6, <2>7 DEF WorkerStep
  <1>3. ASSUME NEW v \in Workers \ {w},
               pc[v] \notin {"idle", "select", "pick", "enqueue"}
        PROVE  status'[msg[v]] # "NONE"
    BY <1>3, TrailGrows DEF RowsExist, TypeOK
  <1>. QED
    BY <1>0, <1>1, <1>2, <1>3 DEF RowsExist, LateAudits

LEMMA WorkerQueues ==
    ASSUME TypeOK, RowsExist, QueuedMark, NEW w \in Workers, WorkerStep(w) \/ Crash(w)
    PROVE  QueuedMark'
  <1>1. ASSUME NEW g \in Members, status[g] = "NONE", status'[g] # "NONE"
        PROVE  "MESSAGE_QUEUED" \in audit'[g]
    <2>1. msg[w] = g /\ g \in Messages
      BY <1>1, OthersUntouched, MembersAreMessages DEF SameContact
    <2>2. pc[w] = "enqueue"
      BY <1>1, <2>1, MembersAreMessages DEF RowsExist, TypeOK
    <2>3. EnqueueInitialMessage(w) \/ Crash(w)
      BY <2>2 DEF WorkerStep, At,
           Begin, NextDueMessage, EnqueueNextEligible, ReadSystemState,
           CheckBeforeGeneration, CheckBeforeClaim, ClaimGeneration, ApplyDecision,
           DecisionContended, FailGeneration, ReloadGenerated, ClaimSend, FinalCheck, Rollback,
           RecordBlock, WriteAudit, Approve, SenderNotLoaded, Send, CommitFailed, CommitSent,
           CommitRefused
    <2>. QED
      BY <1>1, <2>1, <2>3 DEF EnqueueInitialMessage, Crash, Record, queue, TypeOK
  <1>. QED
    BY <1>1, TrailGrows, MembersAreMessages DEF QueuedMark

\* A message becomes READY only by a decision to send it, or when the worker
\* that had claimed it for sending gives it back; and a worker comes to send
\* one only by claiming a READY one.
LEMMA ReadySteps ==
    ASSUME TypeOK, NEW w \in Workers, WorkerStep(w) \/ Crash(w),
           NEW g \in Messages, status[g] # "READY", status'[g] = "READY"
    PROVE  /\ msg[w] = g
           /\ \/ "MESSAGE_GENERATED" \in audit'[g]
              \/ Sending(w, g)
  <1>1. msg[w] = g
    BY OthersUntouched DEF SameContact
  <1>. USE DEF TypeOK, SetStatus, queue
  <1>2. ApplyDecision(w) \/ Rollback(w)
    <2>1. CASE \/ Begin(w) \/ NextDueMessage(w) \/ EnqueueNextEligible(w)
               \/ EnqueueInitialMessage(w) \/ CheckBeforeGeneration(w) \/ CheckBeforeClaim(w)
               \/ ReadSystemState(w)
      BY <2>1 DEF Begin, NextDueMessage, EnqueueNextEligible, EnqueueInitialMessage,
                  CheckBeforeGeneration, CheckBeforeClaim, ReadSystemState
    <2>2. CASE \/ ClaimGeneration(w) \/ DecisionContended(w) \/ FailGeneration(w)
               \/ ReloadGenerated(w) \/ ClaimSend(w) \/ FinalCheck(w)
      BY <2>2 DEF ClaimGeneration, DecisionContended, FailGeneration, ReloadGenerated, ClaimSend,
                  FinalCheck
    <2>3. CASE \/ RecordBlock(w) \/ WriteAudit(w) \/ Approve(w) \/ SenderNotLoaded(w) \/ Send(w)
      BY <2>3 DEF RecordBlock, WriteAudit, Approve, SenderNotLoaded, Send
    <2>4. CASE CommitFailed(w) \/ CommitSent(w) \/ CommitRefused(w) \/ Crash(w)
      BY <2>4 DEF CommitFailed, CommitSent, CommitRefused, Crash
    <2>. QED
      BY <2>1, <2>2, <2>3, <2>4 DEF WorkerStep
  <1>3. CASE Rollback(w)
    BY <1>1, <1>3 DEF Rollback, At, Sending
  <1>4. CASE ApplyDecision(w)
    <2>1. \/ SetStatus(msg[w], "READY") /\ Record(msg[w], "MESSAGE_GENERATED")
          \/ SetStatus(msg[w], "REQUIRES_HUMAN")
          \/ SetStatus(msg[w], "CANCELLED")
      BY <1>4 DEF ApplyDecision
    <2>. QED
      BY <1>1, <2>1 DEF Record
  <1>. QED
    BY <1>1, <1>2, <1>3, <1>4

LEMMA SendingSteps ==
    ASSUME TypeOK, NEW w \in Workers, WorkerStep(w) \/ Crash(w),
           NEW g \in Messages, NEW v \in Workers, Sending(v, g)'
    PROVE  Sending(v, g) \/ status[g] = "READY"
  <1>1. CASE v # w
    BY <1>1, WorkerMoves DEF Sending
  <1>. USE DEF TypeOK, At, Goto
  <1>2. CASE v = w /\ (ClaimGeneration(w) \/ ApplyDecision(w) \/ ClaimSend(w) \/ Rollback(w))
    <2>1. CASE ClaimGeneration(w) \/ Rollback(w)
      BY <1>2, <2>1 DEF ClaimGeneration, Rollback, Return, Sending
    <2>2. CASE ApplyDecision(w)
      <3>1. pc'[w] \in {"reload", "idle"}
        BY <2>2 DEF ApplyDecision, Return
      <3>. QED
        BY <1>2, <3>1 DEF Sending
    <2>3. CASE ClaimSend(w)
      BY <1>2, <2>3 DEF ClaimSend, SendClaimable, Return, Sending
    <2>. QED
      BY <1>2, <2>1, <2>2, <2>3
  <1>3. CASE v = w /\ Send(w)
    BY <1>3 DEF Send, Sending
  <1>4. CASE v = w /\ ~(\/ ClaimGeneration(w) \/ ApplyDecision(w) \/ ClaimSend(w)
                       \/ Rollback(w) \/ Send(w))
    BY <1>4, UnclaimedMoves DEF WorkerStep, HandStages, Sending
  <1>. QED
    BY <1>1, <1>2, <1>3, <1>4

LEMMA WorkerGenerates ==
    ASSUME TypeOK, GeneratedMark, NEW w \in Workers, WorkerStep(w) \/ Crash(w)
    PROVE  GeneratedMark'
  <1>1. ASSUME NEW g \in Members, (status[g] = "READY" \/ \E v \in Workers : Sending(v, g))'
        PROVE  "MESSAGE_GENERATED" \in audit'[g]
    <2>1. g \in Messages /\ audit[g] \subseteq audit'[g]
      BY MembersAreMessages, TrailGrows
    <2>2. CASE status'[g] = "READY" /\ status[g] # "READY"
      BY <2>1, <2>2, ReadySteps DEF GeneratedMark
    <2>3. CASE status'[g] # "READY"
      BY <1>1, <2>1, <2>3, SendingSteps DEF GeneratedMark
    <2>4. CASE status[g] = "READY"
      BY <2>1, <2>4 DEF GeneratedMark
    <2>. QED
      BY <2>2, <2>3, <2>4
  <1>. QED
    BY <1>1 DEF GeneratedMark

\* Only the approval leads to the sender.
LEMMA WorkerApproves ==
    ASSUME TypeOK, ApprovedMark, NEW w \in Workers, WorkerStep(w) \/ Crash(w)
    PROVE  ApprovedMark'
  <1>1. pc'[w] = "send" => Approve(w)
    <2>. USE DEF TypeOK, At, Goto, Return, Block, job
    <2>1. CASE \/ Begin(w) \/ NextDueMessage(w) \/ EnqueueNextEligible(w)
               \/ EnqueueInitialMessage(w) \/ CheckBeforeGeneration(w) \/ CheckBeforeClaim(w)
               \/ ReadSystemState(w)
      BY <2>1 DEF Begin, NextDueMessage, EnqueueNextEligible, EnqueueInitialMessage,
                  CheckBeforeGeneration, CheckBeforeClaim, ReadSystemState
    <2>2. CASE \/ ClaimGeneration(w) \/ ApplyDecision(w) \/ DecisionContended(w)
               \/ FailGeneration(w) \/ ReloadGenerated(w) \/ ClaimSend(w) \/ FinalCheck(w)
      BY <2>2 DEF ClaimGeneration, ApplyDecision, DecisionContended, FailGeneration,
                  ReloadGenerated, ClaimSend, FinalCheck
    <2>3. CASE \/ Rollback(w) \/ RecordBlock(w) \/ WriteAudit(w) \/ SenderNotLoaded(w) \/ Send(w)
               \/ CommitFailed(w) \/ CommitSent(w) \/ CommitRefused(w) \/ Crash(w)
      BY <2>3 DEF Rollback, RecordBlock, WriteAudit, SenderNotLoaded, Send, CommitFailed,
                  CommitSent, CommitRefused, Crash
    <2>. QED
      BY <2>1, <2>2, <2>3 DEF WorkerStep
  <1>2. Approve(w) => /\ msg' = msg
                      /\ audit' = [audit EXCEPT ![msg[w]] = @ \union {"MESSAGE_APPROVED"}]
    BY DEF Approve, Record
  <1>. QED
    BY <1>1, <1>2, WorkerMoves, TrailGrows DEF ApprovedMark, TypeOK

LEMMA WorkerEscalates ==
    ASSUME TypeOK, ClaimInv, LateAudits, EscalatedIsClosed,
           NEW w \in Workers, WorkerStep(w) \/ Crash(w)
    PROVE  EscalatedIsClosed'
  <1>1. CASE ApplyDecision(w) \/ Rollback(w) \/ Send(w)
    <2>1. PICK g \in Messages : g = msg[w]
      BY <1>1 DEF ApplyDecision, Rollback, Send, At, TypeOK
    <2>2. InHand(w, g) /\ BeforeSend(w, g)
      BY <1>1, <2>1 DEF ApplyDecision, Rollback, Send, At, InHand, BeforeSend, Generating, Sending
    <2>3. ~Escalated(g)
      BY <2>2 DEF EscalatedIsClosed
    <2>4. ASSUME NEW h \in Messages, h # g
          PROVE  /\ Escalated(h)' <=> Escalated(h)
                 /\ sends'[h] = sends[h] /\ status'[h] = status[h]
                 /\ \A v \in Workers : InHand(v, h)' <=> InHand(v, h)
      <3>1. \A v \in Workers : InHand(v, h)' <=> InHand(v, h)
        <4>1. \/ msg'[w] = g
              \/ pc'[w] = "idle"
          BY <1>1, <2>1 DEF ApplyDecision, Rollback, Send, Return, Goto, TypeOK
        <4>. QED
          BY <2>1, <2>4, <4>1, WorkerMoves DEF InHand, Generating, Sending, TypeOK
      <3>. QED
        BY <2>1, <2>4, <3>1, OthersUntouched DEF SameContact, Escalated
    <2>5. ASSUME Escalated(g)'
          PROVE  /\ sends'[g] = 0 /\ status'[g] \notin Offered
                 /\ \A v \in Workers : ~InHand(v, g)'
      <3>1. ApplyDecision(w) /\ SetStatus(g, "REQUIRES_HUMAN") /\ pc'[w] = "idle"
        <4>1. CASE Rollback(w) \/ Send(w)
          BY <2>3, <2>5, <4>1 DEF Rollback, Send, Escalated
        <4>2. CASE ApplyDecision(w)
          <5>1. \/ Record(g, "MESSAGE_GENERATED")
                \/ SetStatus(g, "REQUIRES_HUMAN") /\ Return(w)
                \/ Record(g, "MESSAGE_BLOCKED")
            BY <2>1, <4>2 DEF ApplyDecision
          <5>. QED
            BY <2>3, <2>5, <4>2, <5>1 DEF Escalated, Record, Return, Goto, TypeOK
        <4>. QED
          BY <1>1, <4>1, <4>2
      <3>2. sends'[g] = 0
        BY <2>2, <3>1 DEF ApplyDecision, ClaimInv, SentIsSpent
      <3>3. \A v \in Workers : ~InHand(v, g)'
        <4>1. \A v \in Workers \ {w} : ~InHand(v, g)
          BY <2>2 DEF ClaimInv, OneHand
        <4>. QED
          BY <3>1, <4>1, WorkerMoves DEF InHand, Generating, Sending
      <3>. QED
        BY <3>1, <3>2, <3>3 DEF SetStatus, Offered, TypeOK
    <2>. QED
      BY <2>4, <2>5 DEF EscalatedIsClosed
  <1>2. CASE ClaimGeneration(w) \/ ClaimSend(w)
    <2>1. /\ sends' = sends /\ audit' = audit
          /\ \A v \in Workers \ {w} : pc'[v] = pc[v] /\ msg'[v] = msg[v]
      BY <1>2, WorkerMoves DEF ClaimGeneration, ClaimSend
    <2>2. \/ /\ status[msg[w]] \in Offered /\ msg'[w] = msg[w]
             /\ \E s \in {"GENERATING", "SENDING"} : status' = [status EXCEPT ![msg[w]] = s]
          \/ status' = status /\ pc'[w] = "idle"
      BY <1>2 DEF ClaimGeneration, ClaimSend, GenerationClaimable, SendClaimable, Offered,
                  Return, Goto, SetStatus, TypeOK
    <2>. QED
      BY <2>1, <2>2 DEF EscalatedIsClosed, Escalated, InHand, Generating, Sending, Offered, TypeOK
  <1>3. CASE ~(\/ ClaimGeneration(w) \/ ApplyDecision(w) \/ ClaimSend(w) \/ Rollback(w) \/ Send(w))
    <2>1. \A g \in Messages : Escalated(g)' => Escalated(g)
      <3>1. \/ audit' = audit
            \/ \E e \in AuditEvents \ {"HUMAN_ESCALATION"} :
                  audit' = [audit EXCEPT ![msg[w]] = @ \union {e}]
        BY <1>3 DEF LateAudits, AuditEvents, Record, At, WorkerStep,
           Begin, NextDueMessage, EnqueueNextEligible, EnqueueInitialMessage, ReadSystemState,
           CheckBeforeGeneration, CheckBeforeClaim,
           DecisionContended, FailGeneration, ReloadGenerated, FinalCheck,
           RecordBlock, WriteAudit, Approve, SenderNotLoaded, CommitFailed, CommitSent,
           CommitRefused, Crash
      <3>. QED
        BY <3>1 DEF Escalated, TypeOK
    <2>2. /\ sends' = sends
          /\ \A g \in Messages : status'[g] \in Offered => status[g] \in Offered
      BY <1>3, UnclaimedMoves DEF WorkerStep
    <2>3. ASSUME NEW g \in Messages, NEW v \in Workers
          PROVE  InHand(v, g)' => InHand(v, g)
      BY <1>3, UnclaimedMoves DEF WorkerStep, HandStages, InHand, Generating, Sending
    <2>. QED
      BY <2>1, <2>2, <2>3 DEF EscalatedIsClosed
  <1>. QED
    BY <1>1, <1>2, <1>3

LEMMA WorkerSends ==
    ASSUME TypeOK, QueuedMark, GeneratedMark, ApprovedMark, SentMarks, RowsExist,
           NEW w \in Workers, WorkerStep(w) \/ Crash(w)
    PROVE  SentMarks'
  <1>1. CASE Send(w)
    <2>1. PICK g \in Messages : g = msg[w]
      BY <1>1 DEF Send, At, TypeOK
    <2>2. /\ audit' = audit /\ pc[w] = "send"
          /\ \A h \in Messages \ {g} : sends'[h] = sends[h]
      BY <1>1, <2>1 DEF Send, At, TypeOK
    <2>3. g \in Members => Marks \subseteq audit[g]
      BY <2>1, <2>2
         DEF Marks, RowsExist, QueuedMark, GeneratedMark, ApprovedMark, Sending
    <2>. QED
      BY <2>2, <2>3, MembersAreMessages DEF SentMarks
  <1>2. CASE ~Send(w)
    <2>1. sends' = sends
      BY <1>2 DEF WorkerStep,
           Begin, NextDueMessage, EnqueueNextEligible, EnqueueInitialMessage, ReadSystemState,
           CheckBeforeGeneration, CheckBeforeClaim, ClaimGeneration, ApplyDecision,
           DecisionContended, FailGeneration, ReloadGenerated, ClaimSend, FinalCheck, Rollback,
           RecordBlock, WriteAudit, Approve, SenderNotLoaded, CommitFailed, CommitSent,
           CommitRefused, Crash
    <2>. QED
      BY <2>1, TrailGrows, MembersAreMessages DEF SentMarks
  <1>. QED
    BY <1>1, <1>2

\* No operator puts a handled message on offer, or makes or removes the initial
\* message of a member.
RowsKept ==
    \A g \in Messages : /\ status'[g] \in Offered => status[g] \in Offered
                        /\ status[g] # "NONE" => status'[g] # "NONE"
                        /\ g \in Members /\ status'[g] # "NONE" => status[g] # "NONE"
                        /\ g \in Members /\ status'[g] = "READY" => status[g] = "READY"

LEMMA OperatorMarks ==
    ASSUME TypeOK, MarksInv, NoManualRetry, OperatorStep \/ Tick \/ UNCHANGED vars
    PROVE  MarksInv'
  <1>1. UNCHANGED <<pc, msg, reason, audit, sends>>
    BY DEF OperatorStep, Tick, SetOutboundEnabled, ActivateCampaigns, PauseCampaigns, ApplyOptOut,
           EditCandidate, EditMember, EditMessage, AddMessage, job, vars
  <1>2. RowsKept
    <2>1. ASSUME NEW g \in Messages, EditMessage(g)
          PROVE  RowsKept
      <3>1. CASE status' = status
        BY <3>1 DEF RowsKept
      <3>2. ASSUME NEW s \in AdminStatuses, status' = [status EXCEPT ![g] = s]
            PROVE  RowsKept
        <4>1. s \notin Offered
          BY OperatorsAssumption DEF NoManualRetry, Offered, MessageStatus
        <4>2. status[g] # "NONE"
          BY <2>1 DEF EditMessage
        <4>. QED
          BY <3>2, <4>1, <4>2 DEF TypeOK, Offered, RowsKept
      <3>. QED
        BY <2>1, <3>1, <3>2, EditedMessages
    <2>2. ASSUME NEW g \in Manual, AddMessage(g)
          PROVE  RowsKept
      <3>1. PICK s \in AddedStatuses : status' = [status EXCEPT ![g] = s] /\ status[g] = "NONE"
        BY <2>2, AddedMessages
      <3>2. g \notin Members /\ s # "NONE"
        BY KeysAssumption, OperatorsAssumption DEF MessageStatus
      <3>. QED
        BY <3>1, <3>2 DEF TypeOK, Offered, RowsKept
    <2>3. CASE UNCHANGED status
      BY <2>3 DEF RowsKept
    <2>. QED
      BY <2>1, <2>2, <2>3
         DEF OperatorStep, Tick, SetOutboundEnabled, ActivateCampaigns, PauseCampaigns,
             ApplyOptOut, EditCandidate, EditMember, queue, vars
  <1>3. \A w \in Workers : msg[w] \in Messages \/ pc[w] \in {"idle", "select", "pick"}
    BY DEF TypeOK
  <1>4. RowsExist' /\ QueuedMark' /\ SentMarks' /\ LateAudits'
    <2>1. RowsExist'
      BY <1>1, <1>2, <1>3 DEF MarksInv, RowsExist, RowsKept
    <2>. QED
      BY <1>1, <1>2, <2>1, MembersAreMessages
         DEF MarksInv, QueuedMark, SentMarks, LateAudits, RowsKept
  <1>5. GeneratedMark' /\ ApprovedMark'
    BY <1>1, <1>2, MembersAreMessages DEF MarksInv, GeneratedMark, ApprovedMark, Sending, RowsKept
  <1>6. EscalatedIsClosed'
    BY <1>1, <1>2 DEF MarksInv, EscalatedIsClosed, Escalated, InHand, Generating, Sending, RowsKept
  <1>. QED
    BY <1>4, <1>5, <1>6 DEF MarksInv

\* What leaves the system was queued, generated by the agent and approved by
\* the policy, each of them on record, and never handed to a human before.
THEOREM SentWasGenerated == Spec => []OnlyGeneratedIsSent
  <1>1. TypeOK /\ MarksInv => OnlyGeneratedIsSent
    BY MembersAreMessages
       DEF TypeOK, MarksInv, SentMarks, Marks, EscalatedIsClosed, Escalated, OnlyGeneratedIsSent
  <1>2. ~NoManualRetry => OnlyGeneratedIsSent
    BY DEF OnlyGeneratedIsSent
  <1>3. NoManualRetry /\ TypeOK /\ ClaimInv /\ MarksInv /\ [Next]_vars => MarksInv'
    <2>. SUFFICES ASSUME NoManualRetry, TypeOK, ClaimInv, MarksInv, [Next]_vars
                  PROVE  MarksInv'
      OBVIOUS
    <2>1. ASSUME NEW w \in Workers, WorkerStep(w) \/ Crash(w)
          PROVE  MarksInv'
      BY <2>1, WorkerRows, WorkerQueues, WorkerGenerates, WorkerApproves, WorkerEscalates,
         WorkerSends DEF MarksInv
    <2>. QED
      BY <2>1, OperatorMarks DEF Next
  <1>4. CASE NoManualRetry
    BY <1>1, <1>3, <1>4, InitMarks, TypeCorrect, ClaimInvariant, PTL DEF Spec
  <1>5. CASE ~NoManualRetry
    BY <1>2, <1>5, PTL
  <1>. QED
    BY <1>4, <1>5

----------------------------------------------------------------------------
(* The member's contact dates.  A confirmed send is refused by the database  *)
(* when another one has stored a later first contact for the same member, so *)
(* it is recorded where nothing can come between: a single worker, or one    *)
(* message per member.                                                       *)

DatesFit == NoManualCounts /\ (OneWorker \/ (Manual = {} /\ NoManualRetry))

\* Only the commit of a confirmed send touches the first contact.
SameFirsts == \A m \in Members : member'[m].first = member[m].first

LEMMA FirstsKept ==
    ASSUME TypeOK, NEW w \in Workers, WorkerStep(w) \/ Crash(w), ~CommitSent(w)
    PROVE  SameFirsts
  <1>1. CASE ApplyDecision(w)
    <2>1. PICK m \in Members : m = MemberOf[msg[w]]
      BY <1>1, KeyTypes DEF ApplyDecision, At, TypeOK
    <2>2. member' \in {member, [member EXCEPT ![m].human = TRUE],
                        [member EXCEPT ![m].status = "SKIPPED"]}
      BY <1>1, <2>1 DEF ApplyDecision
    <2>. QED
      BY <2>2 DEF TypeOK, Member, SameFirsts
  <1>2. CASE ~ApplyDecision(w)
    <2>1. member' = member
      BY <1>2 DEF people, WorkerStep,
         Begin, NextDueMessage, EnqueueNextEligible, EnqueueInitialMessage, ReadSystemState,
         CheckBeforeGeneration, CheckBeforeClaim, ClaimGeneration,
         DecisionContended, FailGeneration, ReloadGenerated, ClaimSend, FinalCheck, Rollback,
         RecordBlock, WriteAudit, Approve, SenderNotLoaded, Send, CommitFailed, CommitRefused,
         Crash
    <2>. QED
      BY <2>1 DEF SameFirsts
  <1>. QED
    BY <1>1, <1>2

LEMMA OperatorFirsts ==
    ASSUME TypeOK, NoManualCounts, OperatorStep \/ Tick \/ UNCHANGED vars
    PROVE  /\ SameFirsts
           /\ UNCHANGED <<pc, msg, copy, audit>>
           /\ now <= now'
  <1>1. /\ UNCHANGED <<pc, msg, copy, audit>>
        /\ now' = now \/ now' = now + 1
    BY DEF OperatorStep, Tick, SetOutboundEnabled, ActivateCampaigns, PauseCampaigns, ApplyOptOut,
           EditCandidate, EditMember, EditMessage, AddMessage, job, vars
  <1>2. now <= now'
    BY <1>1, LimitsAssumption DEF TypeOK
  <1>3. ASSUME NEW m \in Members, EditMember(m)
        PROVE  SameFirsts
    BY <1>3, EditedCounts DEF SameFirsts
  <1>. QED
    BY <1>1, <1>2, <1>3 DEF OperatorStep, Tick, SetOutboundEnabled, ActivateCampaigns,
              PauseCampaigns, ApplyOptOut, EditCandidate, EditMessage, AddMessage, vars,
              people, SameFirsts

\* What a commit makes of the first contacts.
LEMMA CommitFirsts ==
    ASSUME TypeOK, NEW w \in Workers, CommitSent(w)
    PROVE  /\ msg[w] \in Messages /\ MemberOf[msg[w]] \in Members /\ copy[w].stamp \in Moment
           /\ "MESSAGE_SENT" \in audit'[msg[w]]
           /\ \A m \in Members :
                  member'[m].first = IF m = MemberOf[msg[w]]
                                       THEN FirstContact(member[m], copy[w].stamp)
                                       ELSE member[m].first
  <1>1. /\ msg[w] \in Messages /\ MemberOf[msg[w]] \in Members /\ copy[w].stamp \in Moment
        /\ pc[w] = "commit_sent"
    BY KeyTypes DEF CommitSent, At, TypeOK, Copies
  <1>2. /\ member' = [member EXCEPT ![MemberOf[msg[w]]] = Contacted(@, copy[w].stamp)]
        /\ audit' = [audit EXCEPT ![msg[w]] = @ \union {"MESSAGE_SENT"}]
    BY DEF CommitSent, Record
  <1>3. \A r \in Member : Contacted(r, copy[w].stamp).first = FirstContact(r, copy[w].stamp)
    BY DEF Contacted, Member
  <1>. QED
    BY <1>1, <1>2, <1>3 DEF TypeOK

\* Only the end of a send leads to the commit of one.
LEMMA CommitStage ==
    ASSUME TypeOK, NEW w \in Workers, WorkerStep(w) \/ Crash(w), ~Send(w)
    PROVE  pc'[w] # "commit_sent"
  <1>1. CASE Crash(w)
    BY <1>1 DEF Crash, Return, Goto, TypeOK
  <1>2. CASE \/ ClaimGeneration(w) \/ ApplyDecision(w) \/ ClaimSend(w) \/ Rollback(w)
    BY <1>2 DEF ClaimGeneration, ApplyDecision, ClaimSend, Rollback, Return, Goto, TypeOK
  <1>. QED
    BY <1>1, <1>2, UnclaimedMoves DEF WorkerStep, HandStages

\* One message per member: a first contact is the confirmation of that message.
FirstIsConfirmed == \A m \in Members : member[m].first # Never => Confirmed(m)

LEMMA FirstIsConfirmedSteps ==
    ASSUME Manual = {}, NoManualCounts, TypeOK, FirstIsConfirmed, [Next]_vars
    PROVE  FirstIsConfirmed'
  <1>1. ASSUME NEW w \in Workers, CommitSent(w)
        PROVE  FirstIsConfirmed'
    <2>1. msg[w] \in Members /\ MemberOf[msg[w]] = msg[w]
      BY <1>1, CommitFirsts, KeysAssumption DEF Messages
    <2>2. \A g \in Members : audit[g] \subseteq audit'[g]
      BY <1>1, TrailGrows, MembersAreMessages DEF WorkerStep
    <2>. QED
      BY <1>1, <2>1, <2>2, CommitFirsts DEF FirstIsConfirmed, Confirmed
  <1>2. ASSUME NEW w \in Workers, WorkerStep(w) \/ Crash(w), ~CommitSent(w)
        PROVE  FirstIsConfirmed'
    BY <1>2, FirstsKept, TrailGrows, MembersAreMessages
       DEF SameFirsts, FirstIsConfirmed, Confirmed
  <1>3. CASE OperatorStep \/ Tick \/ UNCHANGED vars
    BY <1>3, OperatorFirsts DEF SameFirsts, FirstIsConfirmed, Confirmed
  <1>. QED
    BY <1>1, <1>2, <1>3 DEF Next

\* One worker: nothing is recorded of the future, or between the end of the
\* send and its commit.
FirstsArePast ==
    /\ \A m \in Members : member[m].first <= now
    /\ \A w \in Workers : pc[w] = "commit_sent" =>
           /\ copy[w].stamp <= now
           /\ \A m \in Members : member[m].first <= copy[w].stamp

LEMMA FirstsArePastSteps ==
    ASSUME OneWorker, NoManualCounts, TypeOK, FirstsArePast, [Next]_vars
    PROVE  FirstsArePast'
  <1>1. ASSUME NEW w \in Workers, WorkerStep(w) \/ Crash(w)
        PROVE  FirstsArePast'
    <2>1. \A v \in Workers : v = w
      BY DEF OneWorker
    <2>2. now' = now
      BY <1>1 DEF WorkerStep,
         Begin, NextDueMessage, EnqueueNextEligible, EnqueueInitialMessage, ReadSystemState,
         CheckBeforeGeneration, CheckBeforeClaim, ClaimGeneration, ApplyDecision,
         DecisionContended, FailGeneration, ReloadGenerated, ClaimSend, FinalCheck, Rollback,
         RecordBlock, WriteAudit, Approve, SenderNotLoaded, Send, CommitFailed, CommitSent,
         CommitRefused, Crash
    <2>3. CASE CommitSent(w)
      <3>1. pc'[w] # "commit_sent" /\ pc[w] = "commit_sent"
        BY <2>3 DEF CommitSent, Return, Goto, At, TypeOK
      <3>2. \A m \in Members : member'[m].first <= now
        BY <2>3, <3>1, CommitFirsts DEF FirstsArePast, FirstContact
      <3>. QED
        BY <2>1, <2>2, <3>1, <3>2 DEF FirstsArePast
    <2>4. CASE ~CommitSent(w)
      <3>1. SameFirsts
        BY <1>1, <2>4, FirstsKept
      <3>2. pc'[w] = "commit_sent" => copy'[w].stamp = now
        <4>1. CASE Send(w)
          BY <4>1 DEF Send, Goto, TypeOK, Copies
        <4>2. CASE ~Send(w)
          BY <1>1, <2>4, <4>2, CommitStage
        <4>. QED
          BY <4>1, <4>2
      <3>3. now \in Nat
        BY LimitsAssumption DEF TypeOK
      <3>. QED
        BY <2>1, <2>2, <3>1, <3>2, <3>3 DEF FirstsArePast, SameFirsts
    <2>. QED
      BY <2>3, <2>4
  <1>2. CASE OperatorStep \/ Tick \/ UNCHANGED vars
    <2>1. /\ now \in Int /\ now' \in Int /\ now <= now'
          /\ \A m \in Members : member'[m].first \in Int
          /\ \A w \in Workers : copy[w].stamp \in Int
      BY <1>2, OperatorFirsts, LimitsAssumption, OperatorTypes, StutterTypes
         DEF TypeOK, Member, Moment, Never, Copies
    <2>. QED
      BY <1>2, <2>1, OperatorFirsts DEF SameFirsts, FirstsArePast
  <1>. QED
    BY <1>1, <1>2 DEF Next

\* A confirmed send is never refused by the database, so that it ends up on
\* record, with one worker or with one message per member.  (Two workers and
\* two messages of a member lose one: run confirmed_is_recorded.)
THEOREM ConfirmationsAreTaken == DatesFit => (Spec => []ConfirmationsFit)
  <1>1. ASSUME Manual = {}, TypeOK, ConfirmInv, FirstIsConfirmed
        PROVE  ConfirmationsFit
    <2>1. ASSUME NEW w \in Workers, pc[w] = "commit_sent"
          PROVE  /\ member[MemberOf[msg[w]]].first = Never
                 /\ copy[w].stamp \in Int
      <3>1. msg[w] \in Messages /\ copy[w].stamp \in Moment
        BY <1>1, <2>1 DEF TypeOK, Copies
      <3>2. msg[w] \in Members /\ MemberOf[msg[w]] = msg[w]
        BY <1>1, <3>1, KeysAssumption DEF Messages
      <3>3. ~Confirmed(msg[w])
        BY <1>1, <2>1, <3>2, MembersAreMessages DEF ConfirmInv, CommitsOnce
      <3>. QED
        BY <1>1, <3>1, <3>2, <3>3 DEF FirstIsConfirmed, Moment, Never
    <2>. QED
      BY <2>1 DEF ConfirmationsFit, FirstContact
  <1>2. ASSUME TypeOK, FirstsArePast
        PROVE  ConfirmationsFit
    <2>1. ASSUME NEW w \in Workers, pc[w] = "commit_sent"
          PROVE  /\ member[MemberOf[msg[w]]].first <= copy[w].stamp
                 /\ copy[w].stamp \in Int
      BY <1>2, <2>1, KeyTypes DEF TypeOK, FirstsArePast, Copies, Moment, Never
    <2>. QED
      BY <2>1 DEF ConfirmationsFit, FirstContact
  <1>3. Init => FirstIsConfirmed
    BY DEF Init, FirstIsConfirmed
  <1>4. Init => FirstsArePast
    BY DEF Init, FirstsArePast, Never
  <1>5. CASE NoManualCounts /\ Manual = {} /\ NoManualRetry
    BY <1>1, <1>3, <1>5, FirstIsConfirmedSteps, TypeCorrect, ConfirmInvariant, PTL DEF Spec
  <1>6. CASE NoManualCounts /\ OneWorker
    BY <1>2, <1>4, <1>6, FirstsArePastSteps, TypeCorrect, PTL DEF Spec
  <1>. QED
    BY <1>5, <1>6 DEF DatesFit

----------------------------------------------------------------------------
(* Messages in flight.  Two workers may work on one message (a queue that    *)
(* lost its race, a stale selection), so what has to be shown is that no     *)
(* worker lets go of a message it holds without writing another status, and  *)
(* that nobody else writes GENERATING or SENDING.                            *)

InFlight == {"GENERATING", "SENDING"}

\* No worker is killed, every sender can be built, no operator sets a message
\* in flight by hand, or adds one in flight.
NothingStrands ==
    /\ Crashable = {}
    /\ "NO_SENDER" \notin Answers
    /\ (AdminStatuses \union AddedStatuses) \intersect InFlight = {}

LEMMA OwnFlight ==
    ASSUME TypeOK, ConfirmationsFit, NothingStrands,
           NEW w \in Workers, WorkerStep(w), NEW g \in Messages, g = msg[w]
    PROVE  \/ status'[g] \notin InFlight
           \/ status'[g] = "GENERATING" /\ Generating(w, g)'
           \/ status'[g] = "SENDING" /\ Sending(w, g)'
           \/ /\ status'[g] = status[g]
              /\ Generating(w, g) => status[g] # "GENERATING"
              /\ Sending(w, g) => status[g] # "SENDING" \/ Sending(w, g)'
  <1>. USE DEF TypeOK, At, Goto, SetStatus, queue, InFlight
  <1>1. CASE \/ Begin(w) \/ NextDueMessage(w) \/ EnqueueNextEligible(w)
             \/ EnqueueInitialMessage(w) \/ CheckBeforeGeneration(w) \/ CheckBeforeClaim(w)
    BY <1>1 DEF Generating, Sending, Begin, NextDueMessage, EnqueueNextEligible,
                EnqueueInitialMessage, CheckBeforeGeneration, CheckBeforeClaim
  <1>2. CASE ReadSystemState(w) \/ ReloadGenerated(w) \/ FinalCheck(w) \/ Approve(w) \/ Send(w)
    <2>1. status' = status /\ msg' = msg
      BY <1>2 DEF ReadSystemState, ReloadGenerated, FinalCheck, Approve, Send, Block
    <2>2. pc[w] # "generate" /\ (Sending(w, g) => Sending(w, g)')
      BY <1>2, <2>1 DEF Sending, ReadSystemState, ReloadGenerated, FinalCheck, Approve, Send,
                        Block
    <2>. QED
      BY <2>1, <2>2 DEF Generating
  <1>3. CASE ClaimGeneration(w) \/ ClaimSend(w) \/ DecisionContended(w)
    BY <1>3 DEF Generating, Sending, ClaimGeneration, ClaimSend, DecisionContended
  <1>4. CASE ApplyDecision(w) \/ FailGeneration(w) \/ Rollback(w) \/ CommitFailed(w) \/ CommitSent(w)
    <2>1. \E s \in MessageStatus \ InFlight : status' = [status EXCEPT ![g] = s]
      BY <1>4 DEF MessageStatus, ApplyDecision, FailGeneration, Rollback, CommitFailed, CommitSent
    <2>. QED
      BY <2>1
  <1>5. CASE RecordBlock(w) \/ WriteAudit(w)
    BY <1>5 DEF Generating, Sending, RecordBlock, WriteAudit
  <1>6. ~SenderNotLoaded(w) /\ ~CommitRefused(w)
    <2>1. CASE SenderNotLoaded(w)
      BY <2>1 DEF SenderNotLoaded, NothingStrands
    <2>2. CASE CommitRefused(w)
      <3>1. /\ pc[w] = "commit_sent"
            /\ FirstContact(member[MemberOf[msg[w]]], copy[w].stamp) > copy[w].stamp
        BY <2>2 DEF CommitRefused
      <3>2. /\ copy[w].stamp \in Int
            /\ FirstContact(member[MemberOf[msg[w]]], copy[w].stamp) \in Int
        BY <3>1, KeyTypes DEF Copies, Moment, Never, Member, FirstContact
      <3>. QED
        BY <3>1, <3>2 DEF ConfirmationsFit
    <2>. QED
      BY <2>1, <2>2
  <1>. QED
    BY <1>1, <1>2, <1>3, <1>4, <1>5, <1>6 DEF WorkerStep

LEMMA WorkerFlight ==
    ASSUME TypeOK, InFlightIsHeld, ConfirmationsFit, NothingStrands,
           NEW w \in Workers, WorkerStep(w)
    PROVE  InFlightIsHeld'
  <1>1. \A v \in Workers \ {w} : pc'[v] = pc[v] /\ msg'[v] = msg[v]
    BY WorkerMoves
  <1>2. ASSUME NEW g \in Messages, NEW v \in Workers \ {w}
        PROVE  /\ Generating(v, g)' <=> Generating(v, g)
               /\ Sending(v, g)' <=> Sending(v, g)
    BY <1>1 DEF Generating, Sending
  <1>3. ASSUME NEW g \in Messages
        PROVE  /\ status'[g] = "GENERATING" => \E v \in Workers : Generating(v, g)'
               /\ status'[g] = "SENDING" => \E v \in Workers : Sending(v, g)'
    <2>1. CASE g = msg[w]
      BY <1>2, <2>1, OwnFlight DEF InFlightIsHeld, InFlight
    <2>2. CASE g # msg[w]
      <3>1. status'[g] = status[g] /\ ~Generating(w, g) /\ ~Sending(w, g)
        BY <2>2, OthersUntouched DEF SameContact, Generating, Sending
      <3>. QED
        BY <1>2, <3>1 DEF InFlightIsHeld
    <2>. QED
      BY <2>1, <2>2
  <1>. QED
    BY <1>3 DEF InFlightIsHeld

LEMMA OperatorFlight ==
    ASSUME TypeOK, InFlightIsHeld, NothingStrands, NoManualCounts,
           OperatorStep \/ Tick \/ UNCHANGED vars
    PROVE  InFlightIsHeld'
  <1>1. \A g \in Messages : status'[g] \in InFlight => status'[g] = status[g]
    <2>1. ASSUME NEW g \in Messages, EditMessage(g)
          PROVE  \A h \in Messages : status'[h] \in InFlight => status'[h] = status[h]
      BY <2>1, EditedMessages DEF NothingStrands, TypeOK
    <2>2. ASSUME NEW g \in Manual, AddMessage(g)
          PROVE  \A h \in Messages : status'[h] \in InFlight => status'[h] = status[h]
      BY <2>2, AddedMessages DEF NothingStrands, TypeOK
    <2>. QED
      BY <2>1, <2>2
         DEF OperatorStep, Tick, SetOutboundEnabled, ActivateCampaigns, PauseCampaigns,
             ApplyOptOut, EditCandidate, EditMember, queue, vars
  <1>. QED
    BY <1>1, OperatorFirsts DEF InFlightIsHeld, InFlight, Generating, Sending

\* The safety half of InFlightResolves: at every moment a message that is being
\* generated or sent has a worker that is generating or sending it, and whose
\* call ends within the statements that CallsAdvance leaves it.
THEOREM NoneIsStranded == NothingStrands /\ DatesFit => (Spec => []InFlightIsHeld)
  <1>. SUFFICES ASSUME NothingStrands, DatesFit PROVE Spec => []InFlightIsHeld
    OBVIOUS
  <1>1. Init => InFlightIsHeld
    BY DEF Init, InFlightIsHeld
  <1>2. TypeOK /\ ConfirmationsFit /\ InFlightIsHeld /\ [Next]_vars => InFlightIsHeld'
    BY WorkerFlight, OperatorFlight DEF Next, Crash, NothingStrands, DatesFit
  <1>. QED
    BY <1>1, <1>2, TypeCorrect, ConfirmationsAreTaken, PTL DEF Spec
=============================================================================
