--------------------------- MODULE OutreachProofs ---------------------------
(***************************************************************************)
(* Proofs about Outreach, for any number of workers, members, campaigns    *)
(* and messages, any limits and any clock bound.                           *)
(***************************************************************************)
EXTENDS Outreach, TLAPS

----------------------------------------------------------------------------
(* The rows and the objects made from them are well typed. *)

\* Every message has a member, and through it a campaign and a candidate.
LEMMA KeyTypes ==
    ASSUME NEW g \in Messages
    PROVE  /\ g # NoMessage
           /\ MemberOf[g] \in Members
           /\ CampaignOfMsg(g) \in Campaigns
           /\ CandidateOfMsg(g) \in Candidates
  BY KeysAssumption, LimitsAssumption
     DEF Messages, Campaigns, Candidates, CampaignOfMsg, CandidateOfMsg

LEMMA MembersAreMessages == Members \subseteq Messages /\ NoMessage \notin Messages
  BY KeysAssumption DEF Messages

LEMMA CopyTypes ==
    ASSUME TypeOK, NEW g \in Messages
    PROVE  /\ Row(g) \in Rows
           /\ Load(g) \in Copies
           /\ LoadBare(g) \in Copies
           /\ [Load(g) EXCEPT !.status = "PENDING"] \in Copies
           /\ [Load(g) EXCEPT !.row = Row(g)] \in Copies
  <1>1. /\ campaign[CampaignOfMsg(g)] \in CampaignStatus
        /\ candidate[CandidateOfMsg(g)] \in Candidate
        /\ member[MemberOf[g]].human \in BOOLEAN
        /\ status[g] \in MessageStatus \union {"NONE"}
        /\ content[g] \in BOOLEAN
    BY KeyTypes DEF TypeOK, Member
  <1>2. Row(g) \in Rows
    BY <1>1 DEF Row, Rows
  <1>3. Load(g) \in Copies
    BY <1>1, <1>2 DEF Load, Copies, Moment
  <1>. QED
    BY <1>2, <1>3 DEF LoadBare, Copies, MessageStatus

LEMMA NoCopyType == NoCopy \in Copies
  BY DEF NoCopy, Copies, Rows, Candidate, CampaignStatus, CandidateStatus, Moment

\* The policy answers PASS or one of the reasons _record_block knows.
LEMMA VerdictType ==
    ASSUME NEW g, NEW row, NEW text, NEW requireContent
    PROVE  EvaluateOutbound(g, row, text, requireContent) \in PolicyReasons \union {"PASS"}
  BY DEF EvaluateOutbound, PolicyReasons, PermanentBlocks, DeferredBlocks

LEMMA SavedType == \A c \in Candidate : Saved(c) \in Candidate
  BY DEF Saved, Candidate, CandidateStatus

----------------------------------------------------------------------------
(* Type correctness. *)

LEMMA InitTypes == Init => TypeOK
  BY NoCopyType, MembersAreMessages, LimitsAssumption
     DEF Init, TypeOK, CampaignStatus, Candidate, CandidateStatus, Member, MemberStatus,
         Moment, MessageStatus, Stages, Never, Null

\* What a confirmed send makes of a member.
LEMMA ContactedType ==
    ASSUME NEW r \in Member, NEW stamp \in Moment
    PROVE  Contacted(r, stamp) \in Member
  <1>1. r.sent + 1 \in Nat /\ FirstContact(r, stamp) \in Moment
    BY DEF Member, FirstContact
  <1>. QED
    BY <1>1 DEF Contacted, Member, MemberStatus

\* The steps in which a worker selects or makes its message, or looks at it.
LEMMA SelectionTypes ==
    ASSUME TypeOK, NEW w \in Workers,
           \/ Begin(w) \/ NextDueMessage(w) \/ EnqueueNextEligible(w) \/ EnqueueInitialMessage(w)
           \/ ReadSystemState(w) \/ CheckBeforeGeneration(w) \/ CheckBeforeClaim(w)
    PROVE  TypeOK'
  <1>. USE DEF TypeOK, At, Goto, people, queue, job
  <1>a. pc[w] \notin {"idle", "select", "pick"} => msg[w] \in Messages
    BY DEF Stages
  <1>1. CASE Begin(w)
    BY <1>1 DEF Begin, Stages
  <1>2. CASE NextDueMessage(w)
    <2>1. CASE Due = {} /\ Goto(w, "pick") /\ UNCHANGED <<msg, copy, reason>>
      BY <1>2, <2>1 DEF NextDueMessage, Stages
    <2>2. ASSUME NEW g \in Due,
                 Goto(w, "check"),
                 msg' = [msg EXCEPT ![w] = g],
                 copy' = [copy EXCEPT ![w] = Load(g)],
                 UNCHANGED reason
          PROVE  TypeOK'
      <3>1. g \in Messages
        BY DEF Due
      <3>2. Load(g) \in Copies /\ g # NoMessage
        BY <3>1, CopyTypes, KeyTypes
      <3>. QED
        BY <1>2, <2>2, <3>1, <3>2 DEF NextDueMessage, Stages
    <2>. QED
      BY <1>2, <2>1, <2>2 DEF NextDueMessage
  <1>3. CASE EnqueueNextEligible(w)
    <2>1. CASE Return(w)
      BY <1>3, <2>1, NoCopyType DEF EnqueueNextEligible, Return, Stages
    <2>2. ASSUME NEW m \in Members,
                 Goto(w, "enqueue"),
                 msg' = [msg EXCEPT ![w] = m],
                 UNCHANGED <<copy, reason>>
          PROVE  TypeOK'
      BY <1>3, <2>2, MembersAreMessages DEF EnqueueNextEligible, Stages
    <2>. QED
      BY <1>3, <2>1, <2>2 DEF EnqueueNextEligible
  <1>4. CASE EnqueueInitialMessage(w)
    <2>. DEFINE m == msg[w]
    <2>1. /\ m \in Messages
          /\ pc[w] = "enqueue"
          /\ LoadBare(m) \in Copies
          /\ [Load(m) EXCEPT !.status = "PENDING"] \in Copies
      BY <1>4, <1>a, CopyTypes DEF EnqueueInitialMessage
    <2>2. CASE status[m] = "NONE"
      <3>1. /\ status' = [status EXCEPT ![m] = "PENDING"]
            /\ scheduledAt' = [scheduledAt EXCEPT ![m] = now]
            /\ audit' = [audit EXCEPT ![m] = @ \union {"MESSAGE_QUEUED"}]
            /\ copy' = [copy EXCEPT ![w] = [Load(m) EXCEPT !.status = "PENDING"]]
            /\ UNCHANGED <<content, sentAt, retries>>
        BY <1>4, <2>2 DEF EnqueueInitialMessage, SetStatus, Record
      <3>. HIDE DEF m
      <3>. QED
        BY <1>4, <2>1, <3>1
           DEF EnqueueInitialMessage, SetStatus, Record, MessageStatus, AuditEvents, Stages, m
    <2>3. CASE status[m] # "NONE"
      BY <1>4, <2>1, <2>3 DEF EnqueueInitialMessage, Stages
    <2>. QED
      BY <2>2, <2>3
  <1>5. CASE ReadSystemState(w)
    BY <1>5, <1>a DEF ReadSystemState, Block, Stages, PolicyReasons
  <1>6. CASE CheckBeforeGeneration(w)
    <2>. DEFINE why == EvaluateOutbound(msg[w], RowSeenBy(w), copy[w].content, FALSE)
    <2>1. why \in PolicyReasons \union {"PASS"}
      BY VerdictType
    <2>. HIDE DEF why
    <2>2. \/ why = "PASS" /\ Goto(w, "claim_generation") /\ UNCHANGED <<msg, copy, reason>>
          \/ why # "PASS" /\ Block(w, why)
      BY <1>6 DEF CheckBeforeGeneration, why
    <2>. QED
      BY <1>6, <1>a, <2>1, <2>2 DEF CheckBeforeGeneration, Block, Stages
  <1>7. CASE CheckBeforeClaim(w)
    <2>. DEFINE why == EvaluateOutbound(msg[w], RowSeenBy(w), copy[w].content, TRUE)
    <2>1. why \in PolicyReasons \union {"PASS"}
      BY VerdictType
    <2>. HIDE DEF why
    <2>2. \/ why = "PASS" /\ Goto(w, "claim_send") /\ UNCHANGED <<msg, copy, reason>>
          \/ why # "PASS" /\ Block(w, why)
      BY <1>7 DEF CheckBeforeClaim, why
    <2>. QED
      BY <1>7, <1>a, <2>1, <2>2 DEF CheckBeforeClaim, Block, Stages
  <1>. QED
    BY <1>1, <1>2, <1>3, <1>4, <1>5, <1>6, <1>7

\* The steps in which it claims, generates and checks the message.
LEMMA ClaimTypes ==
    ASSUME TypeOK, NEW w \in Workers,
           \/ ClaimGeneration(w) \/ ApplyDecision(w) \/ DecisionContended(w) \/ FailGeneration(w)
           \/ ReloadGenerated(w) \/ ClaimSend(w) \/ FinalCheck(w) \/ Rollback(w)
    PROVE  TypeOK'
  <1>. USE DEF TypeOK, At, Goto, people, queue, job
  <1>a. pc[w] \notin {"idle", "select", "pick"} => msg[w] \in Messages
    BY DEF Stages
  <1>1. CASE ClaimGeneration(w)
    BY <1>1, <1>a, NoCopyType
       DEF ClaimGeneration, Return, SetStatus, Stages, MessageStatus
  <1>2. CASE ApplyDecision(w)
    <2>. DEFINE g == msg[w]
                m == MemberOf[g]
    <2>1. g \in Messages /\ m \in Members /\ pc[w] = "generate"
      BY <1>2, <1>a, KeyTypes DEF ApplyDecision
    <2>2. CASE /\ SetStatus(g, "READY")
               /\ content' = [content EXCEPT ![g] = TRUE]
               /\ Record(g, "MESSAGE_GENERATED")
               /\ Goto(w, "reload")
               /\ UNCHANGED <<member, msg, copy, reason>>
      <3>. HIDE DEF g, m
      <3>. QED
        BY <1>2, <2>1, <2>2
           DEF ApplyDecision, SetStatus, Record, Stages, MessageStatus, AuditEvents
    <2>3. ASSUME NEW text \in BOOLEAN,
                 SetStatus(g, "REQUIRES_HUMAN"),
                 content' = [content EXCEPT ![g] = text],
                 member' = [member EXCEPT ![m].human = TRUE],
                 Record(g, "HUMAN_ESCALATION"),
                 Return(w)
          PROVE  TypeOK'
      <3>. HIDE DEF g, m
      <3>1. member' \in [Members -> Member]
        BY <2>1, <2>3 DEF Member
      <3>. QED
        BY <1>2, <2>1, <2>3, <3>1, NoCopyType
           DEF ApplyDecision, SetStatus, Record, Return, Stages, MessageStatus, AuditEvents
    <2>4. ASSUME NEW text \in BOOLEAN,
                 SetStatus(g, "CANCELLED"),
                 content' = [content EXCEPT ![g] = text],
                 member' = [member EXCEPT ![m].status = "SKIPPED"],
                 Record(g, "MESSAGE_BLOCKED"),
                 Return(w)
          PROVE  TypeOK'
      <3>. HIDE DEF g, m
      <3>1. member' \in [Members -> Member]
        BY <2>1, <2>4 DEF Member, MemberStatus
      <3>. QED
        BY <1>2, <2>1, <2>4, <3>1, NoCopyType
           DEF ApplyDecision, SetStatus, Record, Return, Stages, MessageStatus, AuditEvents
    <2>. QED
      BY <1>2, <2>2, <2>3, <2>4 DEF ApplyDecision
  <1>3. CASE DecisionContended(w)
    BY <1>3, NoCopyType DEF DecisionContended, Return, Stages
  <1>4. CASE FailGeneration(w)
    BY <1>4, <1>a DEF FailGeneration, SetStatus, Stages, MessageStatus, AuditEvents
  <1>5. CASE ReloadGenerated(w)
    <2>1. Load(msg[w]) \in Copies
      BY <1>5, <1>a, CopyTypes DEF ReloadGenerated
    <2>. QED
      BY <1>5, <1>a, <2>1 DEF ReloadGenerated, Stages
  <1>6. CASE ClaimSend(w)
    BY <1>6, <1>a, NoCopyType DEF ClaimSend, Return, SetStatus, Stages, MessageStatus
  <1>7. CASE FinalCheck(w)
    <2>. DEFINE why == EvaluateOutbound(msg[w], RowRefreshed(w), content[msg[w]], TRUE)
                seen == [Load(msg[w]) EXCEPT !.row = RowRefreshed(w)]
    <2>1. why \in PolicyReasons \union {"PASS"}
      BY VerdictType
    <2>2. seen \in Copies
      BY <1>7, <1>a, CopyTypes DEF FinalCheck, RowRefreshed
    <2>. HIDE DEF why, seen
    <2>3. /\ copy' = [copy EXCEPT ![w] = seen]
          /\ \/ why = "PASS" /\ Goto(w, "approve") /\ UNCHANGED reason
             \/ why # "PASS" /\ Goto(w, "rollback") /\ reason' = [reason EXCEPT ![w] = why]
      BY <1>7 DEF FinalCheck, why, seen
    <2>. QED
      BY <1>7, <1>a, <2>1, <2>2, <2>3 DEF FinalCheck, Stages
  <1>8. CASE Rollback(w)
    BY <1>8, <1>a DEF Rollback, SetStatus, Stages, MessageStatus
  <1>. QED
    BY <1>1, <1>2, <1>3, <1>4, <1>5, <1>6, <1>7, <1>8

\* The steps in which it sends the message, or records why it does not.
LEMMA OutcomeTypes ==
    ASSUME TypeOK, NEW w \in Workers,
           \/ RecordBlock(w) \/ WriteAudit(w) \/ Approve(w) \/ SenderNotLoaded(w) \/ Send(w)
           \/ CommitFailed(w) \/ CommitSent(w) \/ CommitRefused(w) \/ Crash(w)
    PROVE  TypeOK'
  <1>. USE DEF TypeOK, At, Goto, people, queue, job
  <1>a. pc[w] \notin {"idle", "select", "pick"} => msg[w] \in Messages
    BY DEF Stages
  <1>1. CASE RecordBlock(w)
    <2>1. msg[w] \in Messages /\ pc[w] = "block" /\ Deferred \in Nat
      BY <1>1, <1>a, LimitsAssumption DEF RecordBlock, Deferred
    <2>2. /\ status' \in [Messages -> MessageStatus \union {"NONE"}]
          /\ scheduledAt' \in [Messages -> Nat]
      BY <1>1, <2>1 DEF RecordBlock, SetStatus, MessageStatus
    <2>. QED
      BY <1>1, <2>1, <2>2 DEF RecordBlock, BlockEvent, Stages, AuditEvents
  <1>2. CASE WriteAudit(w)
    BY <1>2, <1>a, NoCopyType DEF WriteAudit, Record, Return, Stages
  <1>3. CASE Approve(w)
    BY <1>3, <1>a DEF Approve, Record, Stages, AuditEvents
  <1>4. CASE SenderNotLoaded(w)
    BY <1>4, NoCopyType DEF SenderNotLoaded, Return, Stages
  <1>5. CASE Send(w)
    <2>1. msg[w] \in Messages /\ pc[w] = "send"
      BY <1>5, <1>a DEF Send
    <2>2. copy' \in [Workers -> Copies]
      <3>1. copy' \in {copy, [copy EXCEPT ![w].stamp = now]}
        BY <1>5 DEF Send
      <3>2. copy[w] \in Copies /\ now \in Moment
        BY LimitsAssumption DEF Moment
      <3>3. [copy[w] EXCEPT !.stamp = now] \in Copies
        BY <3>2 DEF Copies
      <3>. QED
        BY <3>1, <3>3
    <2>3. sends' \in [Messages -> Nat]
      BY <1>5, <2>1 DEF Send
    <2>. QED
      BY <1>5, <2>1, <2>2, <2>3 DEF Send, Stages
  <1>6. CASE CommitFailed(w)
    BY <1>6, <1>a DEF CommitFailed, SetStatus, Stages, MessageStatus, AuditEvents
  <1>7. CASE CommitSent(w)
    <2>. DEFINE g == msg[w]
                m == MemberOf[g]
                k == CandidateOf[m]
                stamp == copy[w].stamp
    <2>1. g \in Messages /\ m \in Members /\ stamp \in Moment
      BY <1>7, <1>a, KeyTypes DEF CommitSent, Copies
    <2>2. /\ SetStatus(g, "SENT")
          /\ sentAt' = [sentAt EXCEPT ![g] = stamp]
          /\ member' = [member EXCEPT ![m] = Contacted(@, stamp)]
          /\ candidate' = IF StillReady(w, k)
                            THEN [candidate EXCEPT ![k].status = "CONTACTED"]
                            ELSE candidate
          /\ Record(g, "MESSAGE_SENT")
          /\ Return(w)
      BY <1>7 DEF CommitSent
    <2>. HIDE DEF g, m, k, stamp
    <2>3. member' \in [Members -> Member]
      <3>1. Contacted(member[m], stamp) \in Member
        BY <2>1, ContactedType
      <3>. QED
        BY <2>1, <2>2, <3>1
    <2>4. candidate' \in [Candidates -> Candidate]
      BY <2>2 DEF Candidate, CandidateStatus
    <2>. QED
      BY <1>7, <2>1, <2>2, <2>3, <2>4, NoCopyType
         DEF CommitSent, SetStatus, Record, Return, Stages, MessageStatus, AuditEvents, Moment
  <1>8. CASE CommitRefused(w)
    BY <1>8, NoCopyType DEF CommitRefused, Return, Stages
  <1>9. CASE Crash(w)
    BY <1>9, NoCopyType DEF Crash, Return, Stages
  <1>. QED
    BY <1>1, <1>2, <1>3, <1>4, <1>5, <1>6, <1>7, <1>8, <1>9

\* What a save of the Message form and of the CampaignMember form leaves.
LEMMA EditedMessages ==
    ASSUME TypeOK, NEW g \in Messages, EditMessage(g)
    PROVE  /\ status' = status \/ \E s \in AdminStatuses : status' = [status EXCEPT ![g] = s]
           /\ \E e \in Entry : Enter(g, e)
           /\ UNCHANGED <<now, outbound, people, sentAt, retries, audit, job, sends>>
  <1>1. EntryOf(g) \in Entry
    BY DEF EntryOf, Entry, TypeOK
  <1>. QED
    BY <1>1, OperatorsAssumption DEF EditMessage, SetStatus

LEMMA AddedMessages ==
    ASSUME NEW g \in Manual, AddMessage(g)
    PROVE  /\ g \in Messages /\ status[g] = "NONE"
           /\ \E s \in AddedStatuses : status' = [status EXCEPT ![g] = s]
           /\ \E e \in Entry : Enter(g, e)
           /\ UNCHANGED <<now, outbound, people, sentAt, retries, audit, job, sends>>
  BY OperatorsAssumption DEF AddMessage, SetStatus, Messages

LEMMA EditedTypes ==
    ASSUME NEW r \in Member, NEW e \in MemberEdits, NEW c \in CountEdits \union {CountsOf(r)}
    PROVE  Edited(r, e, c) \in Member
  <1>1. e.status \in MemberStatus /\ e.human \in BOOLEAN
    BY OperatorsAssumption
  <1>2. c.sent \in Nat /\ c.first \in Moment /\ c.last \in Moment
    BY OperatorsAssumption DEF MemberCounts, CountsOf, Member
  <1>. QED
    BY <1>1, <1>2 DEF Edited, Member

LEMMA EditedMembers ==
    ASSUME TypeOK, NEW m \in Members, EditMember(m)
    PROVE  \E e \in MemberEdits, c \in CountEdits \union {CountsOf(member[m])} :
             /\ member' = [member EXCEPT ![m] = Edited(member[m], e, c)]
             /\ Edited(member[m], e, c) \in Member
             /\ UNCHANGED <<now, outbound, campaign, candidate, queue, audit, job, sends>>
  <1>1. member[m] \in Member
    BY DEF TypeOK
  <1>2. PICK e \in MemberEdits, c \in CountEdits \union {CountsOf(member[m])} :
          member' = [member EXCEPT ![m] = Edited(member[m], e, c)]
    BY DEF EditMember
  <1>. QED
    BY <1>1, <1>2, EditedTypes DEF EditMember

\* Operators, and the clock.
LEMMA OperatorTypes ==
    ASSUME TypeOK, OperatorStep \/ Tick
    PROVE  TypeOK'
  <1>. USE DEF TypeOK, people, queue, job
  <1>1. CASE SetOutboundEnabled
    BY <1>1 DEF SetOutboundEnabled
  <1>2. ASSUME NEW c \in Campaigns, ActivateCampaigns(c) \/ PauseCampaigns(c)
        PROVE  TypeOK'
    BY <1>2 DEF ActivateCampaigns, PauseCampaigns, CampaignStatus
  <1>3. ASSUME NEW k \in Candidates, ApplyOptOut(k)
        PROVE  TypeOK'
    <2>1. candidate[k] \in Candidate
      OBVIOUS
    <2>2. [candidate[k] EXCEPT !.dnc = TRUE, !.status = "DO_NOT_CONTACT"] \in Candidate
      BY <2>1 DEF Candidate, CandidateStatus
    <2>. QED
      BY <1>3, <2>2, SavedType DEF ApplyOptOut
  <1>4. ASSUME NEW k \in Candidates, EditCandidate(k)
        PROVE  TypeOK'
    BY <1>4, SavedType, OperatorsAssumption DEF EditCandidate
  <1>5. ASSUME NEW m \in Members, EditMember(m)
        PROVE  TypeOK'
    BY <1>5, EditedMembers
  <1>6. ASSUME NEW g \in Messages, EditMessage(g)
        PROVE  TypeOK'
    BY <1>6, EditedMessages, OperatorsAssumption DEF Enter, Entry
  <1>7. ASSUME NEW g \in Manual, AddMessage(g)
        PROVE  TypeOK'
    BY <1>7, AddedMessages, OperatorsAssumption DEF Enter, Entry
  <1>8. CASE Tick
    BY <1>8, LimitsAssumption DEF Tick
  <1>. QED
    BY <1>1, <1>2, <1>3, <1>4, <1>5, <1>6, <1>7, <1>8 DEF OperatorStep

LEMMA StutterTypes ==
    ASSUME TypeOK, UNCHANGED vars
    PROVE  TypeOK'
  BY DEF TypeOK, vars, people, queue, job

\* Every reachable state is well typed: no worker holds a stage without its
\* message, and the audit never receives anything but an audit event.
THEOREM TypeCorrect == Spec => []TypeOK
  <1>1. TypeOK /\ [Next]_vars => TypeOK'
    BY SelectionTypes, ClaimTypes, OutcomeTypes, OperatorTypes, StutterTypes
       DEF Next, WorkerStep
  <1>. QED
    BY InitTypes, <1>1, PTL DEF Spec

----------------------------------------------------------------------------
(* Claims: who holds a message, and whether it may still be sent.  A claim   *)
(* starts from an offered status, so exclusion needs that a held message is  *)
(* not on offer, and at-most-once needs that a sent one never is again.      *)

HandStages == {"generate", "final", "final_policy", "rollback", "approve", "send",
               "commit_sent", "commit_failed"}

OneHand == \A g \in Messages, v, w \in Workers : InHand(v, g) /\ InHand(w, g) => v = w

HeldIsNotOffered == \A g \in Messages, w \in Workers : InHand(w, g) => status[g] \notin Offered

SentIsSpent ==
    \A g \in Messages : sends[g] # 0 =>
        /\ sends[g] = 1
        /\ status[g] \notin Offered
        /\ \A w \in Workers : ~BeforeSend(w, g)

ClaimInv == OneHand /\ HeldIsNotOffered /\ SentIsSpent

LEMMA InitClaims == Init => ClaimInv
  BY DEF Init, ClaimInv, OneHand, HeldIsNotOffered, SentIsSpent, InHand, BeforeSend,
         Generating, Sending

\* Steps that take no message in hand, put none on offer and send none.
LEMMA QuietSteps ==
    ASSUME ClaimInv,
           sends' = sends,
           \A g \in Messages : status'[g] \in Offered => status[g] \in Offered,
           \A g \in Messages, v \in Workers :
               /\ InHand(v, g)' => InHand(v, g)
               /\ BeforeSend(v, g)' => BeforeSend(v, g)
    PROVE  ClaimInv'
  <1>1. OneHand'
    BY DEF ClaimInv, OneHand
  <1>2. HeldIsNotOffered'
    BY DEF ClaimInv, HeldIsNotOffered
  <1>3. SentIsSpent'
    BY DEF ClaimInv, SentIsSpent
  <1>. QED
    BY <1>1, <1>2, <1>3 DEF ClaimInv

\* A worker with a message that is on offer takes it off.
LEMMA ClaimSteps ==
    ASSUME ClaimInv, NEW w \in Workers, NEW g \in Messages,
           status[g] \in Offered,
           NEW s, s \notin Offered, status' = [status EXCEPT ![g] = s],
           status \in [Messages -> MessageStatus \union {"NONE"}],
           sends' = sends,
           \A h \in Messages, v \in Workers :
               /\ InHand(v, h)' => InHand(v, h) \/ (v = w /\ h = g)
               /\ BeforeSend(v, h)' => BeforeSend(v, h) \/ (v = w /\ h = g)
    PROVE  ClaimInv'
  <1>1. sends[g] = 0 /\ \A v \in Workers : ~InHand(v, g)
    BY DEF ClaimInv, HeldIsNotOffered, SentIsSpent
  <1>2. \A h \in Messages : status'[h] \in Offered => status[h] \in Offered /\ h # g
    OBVIOUS
  <1>3. OneHand'
    BY <1>1 DEF ClaimInv, OneHand
  <1>4. HeldIsNotOffered'
    BY <1>2 DEF ClaimInv, HeldIsNotOffered
  <1>5. SentIsSpent'
    BY <1>1, <1>2 DEF ClaimInv, SentIsSpent
  <1>. QED
    BY <1>3, <1>4, <1>5 DEF ClaimInv

\* The worker that holds a message offers it again, and lets it go.
LEMMA OfferSteps ==
    ASSUME ClaimInv, NEW w \in Workers, NEW g \in Messages,
           BeforeSend(w, g), InHand(w, g), ~InHand(w, g)',
           status' = [status EXCEPT ![g] = "READY"],
           status \in [Messages -> MessageStatus \union {"NONE"}],
           sends' = sends,
           \A h \in Messages, v \in Workers :
               /\ InHand(v, h)' => InHand(v, h)
               /\ BeforeSend(v, h)' => BeforeSend(v, h)
    PROVE  ClaimInv'
  <1>1. sends[g] = 0 /\ \A v \in Workers : ~InHand(v, g)'
    BY DEF ClaimInv, OneHand, SentIsSpent
  <1>2. \A h \in Messages : h # g => status'[h] = status[h]
    OBVIOUS
  <1>3. OneHand'
    BY DEF ClaimInv, OneHand
  <1>4. HeldIsNotOffered'
    BY <1>1, <1>2 DEF ClaimInv, HeldIsNotOffered
  <1>5. SentIsSpent'
    BY <1>1, <1>2 DEF ClaimInv, SentIsSpent
  <1>. QED
    BY <1>3, <1>4, <1>5 DEF ClaimInv

\* The steps of a worker that change no claim: what it reads, what it enqueues,
\* what it writes about a message it gives up, and its end.
LEMMA UnclaimedMoves ==
    ASSUME TypeOK, NEW w \in Workers,
           \/ Begin(w) \/ NextDueMessage(w) \/ EnqueueNextEligible(w) \/ EnqueueInitialMessage(w)
           \/ ReadSystemState(w) \/ CheckBeforeGeneration(w) \/ CheckBeforeClaim(w)
           \/ DecisionContended(w) \/ FailGeneration(w) \/ ReloadGenerated(w) \/ FinalCheck(w)
           \/ RecordBlock(w) \/ WriteAudit(w) \/ Approve(w) \/ SenderNotLoaded(w)
           \/ CommitFailed(w) \/ CommitSent(w) \/ CommitRefused(w) \/ Crash(w)
    PROVE  /\ sends' = sends
           /\ \A g \in Messages : status'[g] \in Offered => status[g] \in Offered
           /\ \A v \in Workers \ {w} : pc'[v] = pc[v] /\ msg'[v] = msg[v]
           /\ \/ pc'[w] \notin HandStages
              \/ /\ msg'[w] = msg[w]
                 /\ pc[w] \in {"final", "final_policy", "approve"}
                 /\ pc'[w] \in {"final_policy", "rollback", "approve", "send"}
  <1>. USE DEF At, Goto, SetStatus, queue, job
  <1>1. sends' = sends
    BY DEF Begin, NextDueMessage, EnqueueNextEligible, EnqueueInitialMessage, ReadSystemState,
           CheckBeforeGeneration, CheckBeforeClaim, DecisionContended, FailGeneration,
           ReloadGenerated, FinalCheck, RecordBlock, WriteAudit, Approve, SenderNotLoaded,
           CommitFailed, CommitSent, CommitRefused, Crash
  <1>2. \A g \in Messages : status'[g] \in Offered => status[g] \in Offered
    BY DEF TypeOK, Offered,
           Begin, NextDueMessage, EnqueueNextEligible, EnqueueInitialMessage, ReadSystemState,
           CheckBeforeGeneration, CheckBeforeClaim, DecisionContended, FailGeneration,
           ReloadGenerated, FinalCheck, RecordBlock, WriteAudit, Approve, SenderNotLoaded,
           CommitFailed, CommitSent, CommitRefused, Crash
  <1>3. \A v \in Workers \ {w} : pc'[v] = pc[v] /\ msg'[v] = msg[v]
    BY DEF TypeOK, Return, Block,
           Begin, NextDueMessage, EnqueueNextEligible, EnqueueInitialMessage, ReadSystemState,
           CheckBeforeGeneration, CheckBeforeClaim, DecisionContended, FailGeneration,
           ReloadGenerated, FinalCheck, RecordBlock, WriteAudit, Approve, SenderNotLoaded,
           CommitFailed, CommitSent, CommitRefused, Crash
  <1>4. \/ pc'[w] \notin HandStages
        \/ /\ msg'[w] = msg[w]
           /\ pc[w] \in {"final", "final_policy", "approve"}
           /\ pc'[w] \in {"final_policy", "rollback", "approve", "send"}
    <2>1. CASE \/ Begin(w) \/ NextDueMessage(w) \/ EnqueueNextEligible(w)
               \/ EnqueueInitialMessage(w) \/ CheckBeforeGeneration(w) \/ CheckBeforeClaim(w)
      BY <2>1 DEF TypeOK, Return, Block, HandStages, Begin, NextDueMessage, EnqueueNextEligible,
                  EnqueueInitialMessage, CheckBeforeGeneration, CheckBeforeClaim
    <2>2. CASE ReadSystemState(w) \/ FinalCheck(w) \/ Approve(w)
      BY <2>2 DEF TypeOK, Block, HandStages, ReadSystemState, FinalCheck, Approve
    <2>3. CASE \/ DecisionContended(w) \/ FailGeneration(w) \/ ReloadGenerated(w)
               \/ RecordBlock(w) \/ WriteAudit(w)
      BY <2>3 DEF TypeOK, Return, HandStages, DecisionContended, FailGeneration,
                  ReloadGenerated, RecordBlock, WriteAudit
    <2>4. CASE \/ SenderNotLoaded(w) \/ CommitFailed(w) \/ CommitSent(w) \/ CommitRefused(w)
               \/ Crash(w)
      BY <2>4 DEF TypeOK, Return, HandStages, SenderNotLoaded, CommitFailed, CommitSent,
                  CommitRefused, Crash
    <2>. QED
      BY <2>1, <2>2, <2>3, <2>4
  <1>. QED
    BY <1>1, <1>2, <1>3, <1>4

LEMMA UnclaimedSteps ==
    ASSUME TypeOK, ClaimInv, NEW w \in Workers,
           \/ Begin(w) \/ NextDueMessage(w) \/ EnqueueNextEligible(w) \/ EnqueueInitialMessage(w)
           \/ ReadSystemState(w) \/ CheckBeforeGeneration(w) \/ CheckBeforeClaim(w)
           \/ DecisionContended(w) \/ FailGeneration(w) \/ ReloadGenerated(w) \/ FinalCheck(w)
           \/ RecordBlock(w) \/ WriteAudit(w) \/ Approve(w) \/ SenderNotLoaded(w)
           \/ CommitFailed(w) \/ CommitSent(w) \/ CommitRefused(w) \/ Crash(w)
    PROVE  ClaimInv'
  <1>1. ASSUME NEW g \in Messages, NEW v \in Workers
        PROVE  /\ InHand(v, g)' => InHand(v, g)
               /\ BeforeSend(v, g)' => BeforeSend(v, g)
    BY UnclaimedMoves DEF HandStages, InHand, BeforeSend, Generating, Sending
  <1>. QED
    BY <1>1, UnclaimedMoves, QuietSteps

\* The steps that change a claim.
LEMMA ClaimedSteps ==
    ASSUME TypeOK, ClaimInv, NEW w \in Workers,
           \/ ClaimGeneration(w) \/ ApplyDecision(w) \/ ClaimSend(w) \/ Rollback(w) \/ Send(w)
    PROVE  ClaimInv'
  <1>. USE DEF At, Goto, SetStatus, queue, job
  <1>1. PICK g \in Messages : g = msg[w]
    BY DEF TypeOK, Stages, ClaimGeneration, ApplyDecision, ClaimSend, Rollback, Send
  <1>2. CASE ClaimGeneration(w)
    <2>1. g \in Messages /\ sends' = sends
      BY <1>1, <1>2 DEF ClaimGeneration
    <2>2. CASE GenerationClaimable(g)
      <3>1. /\ status[g] \in Offered
            /\ status' = [status EXCEPT ![g] = "GENERATING"]
            /\ pc' = [pc EXCEPT ![w] = "generate"] /\ msg' = msg
        BY <1>1, <1>2, <2>2 DEF ClaimGeneration, GenerationClaimable, Offered
      <3>2. \A h \in Messages, v \in Workers :
              /\ InHand(v, h)' => InHand(v, h) \/ (v = w /\ h = g)
              /\ BeforeSend(v, h)' => BeforeSend(v, h) \/ (v = w /\ h = g)
        BY <1>1, <3>1 DEF TypeOK, InHand, BeforeSend, Generating, Sending
      <3>. QED
        BY <2>1, <3>1, <3>2, ClaimSteps DEF TypeOK, Offered
    <2>3. CASE ~GenerationClaimable(g)
      <3>1. /\ status' = status
            /\ pc' = [pc EXCEPT ![w] = "idle"] /\ msg' = [msg EXCEPT ![w] = NoMessage]
        BY <1>1, <1>2, <2>3 DEF ClaimGeneration, Return
      <3>. QED
        BY <1>1, <2>1, <3>1, QuietSteps DEF TypeOK, InHand, BeforeSend, Generating, Sending
    <2>. QED
      BY <2>2, <2>3
  <1>3. CASE ClaimSend(w)
    <2>1. g \in Messages /\ sends' = sends
      BY <1>1, <1>3 DEF ClaimSend
    <2>2. CASE SendClaimable(g)
      <3>1. /\ status[g] \in Offered
            /\ status' = [status EXCEPT ![g] = "SENDING"]
            /\ pc' = [pc EXCEPT ![w] = "final"] /\ msg' = msg
        BY <1>1, <1>3, <2>2 DEF ClaimSend, SendClaimable, Offered
      <3>2. \A h \in Messages, v \in Workers :
              /\ InHand(v, h)' => InHand(v, h) \/ (v = w /\ h = g)
              /\ BeforeSend(v, h)' => BeforeSend(v, h) \/ (v = w /\ h = g)
        BY <1>1, <3>1 DEF TypeOK, InHand, BeforeSend, Generating, Sending
      <3>. QED
        BY <2>1, <3>1, <3>2, ClaimSteps DEF TypeOK, Offered
    <2>3. CASE ~SendClaimable(g)
      <3>1. /\ status' = status
            /\ pc' = [pc EXCEPT ![w] = "idle"] /\ msg' = [msg EXCEPT ![w] = NoMessage]
        BY <1>1, <1>3, <2>3 DEF ClaimSend, Return
      <3>. QED
        BY <1>1, <2>1, <3>1, QuietSteps DEF TypeOK, InHand, BeforeSend, Generating, Sending
    <2>. QED
      BY <2>2, <2>3
  <1>4. CASE ApplyDecision(w)
    <2>1. /\ g \in Messages /\ sends' = sends /\ pc[w] = "generate"
          /\ \E s \in {"READY", "REQUIRES_HUMAN", "CANCELLED"} :
                status' = [status EXCEPT ![g] = s]
          /\ pc' \in {[pc EXCEPT ![w] = "reload"], [pc EXCEPT ![w] = "idle"]}
          /\ msg' \in {msg, [msg EXCEPT ![w] = NoMessage]}
      BY <1>1, <1>4 DEF ApplyDecision, Return
    <2>2. /\ BeforeSend(w, g) /\ InHand(w, g) /\ ~InHand(w, g)'
          /\ \A h \in Messages, v \in Workers : /\ InHand(v, h)' => InHand(v, h)
                                                /\ BeforeSend(v, h)' => BeforeSend(v, h)
      BY <1>1, <2>1, MembersAreMessages
         DEF TypeOK, InHand, BeforeSend, Generating, Sending
    <2>3. CASE status' = [status EXCEPT ![g] = "READY"]
      <3>1. status \in [Messages -> MessageStatus \union {"NONE"}]
        BY DEF TypeOK
      <3>. QED
        BY <2>1, <2>2, <2>3, <3>1, OfferSteps
    <2>4. CASE \E s \in {"REQUIRES_HUMAN", "CANCELLED"} : status' = [status EXCEPT ![g] = s]
      <3>1. \A h \in Messages : status'[h] \in Offered => status[h] \in Offered
        BY <2>1, <2>4 DEF TypeOK, Offered
      <3>. QED
        BY <2>1, <2>2, <3>1, QuietSteps
    <2>. QED
      BY <2>1, <2>3, <2>4
  <1>5. CASE Rollback(w)
    <2>1. /\ g \in Messages /\ sends' = sends /\ pc[w] = "rollback"
          /\ status' = [status EXCEPT ![g] = "READY"]
          /\ pc' = [pc EXCEPT ![w] = "block"] /\ msg' = msg
      BY <1>1, <1>5 DEF Rollback
    <2>2. /\ BeforeSend(w, g) /\ InHand(w, g) /\ ~InHand(w, g)'
          /\ \A h \in Messages, v \in Workers : /\ InHand(v, h)' => InHand(v, h)
                                                /\ BeforeSend(v, h)' => BeforeSend(v, h)
      BY <1>1, <2>1 DEF TypeOK, InHand, BeforeSend, Generating, Sending
    <2>. QED
      BY <2>1, <2>2, OfferSteps DEF TypeOK
  <1>6. CASE Send(w)
    <2>1. /\ g \in Messages /\ pc[w] = "send" /\ status' = status
          /\ sends' = [sends EXCEPT ![g] = @ + 1]
          /\ pc' \in {[pc EXCEPT ![w] = "commit_sent"], [pc EXCEPT ![w] = "commit_failed"]}
          /\ msg' = msg
      BY <1>1, <1>6 DEF Send
    <2>2. /\ BeforeSend(w, g) /\ InHand(w, g) /\ ~BeforeSend(w, g)'
          /\ \A h \in Messages, v \in Workers : /\ InHand(v, h)' => InHand(v, h)
                                                /\ BeforeSend(v, h)' => BeforeSend(v, h)
                                                /\ BeforeSend(v, h) => InHand(v, h)
      BY <1>1, <2>1 DEF TypeOK, InHand, BeforeSend, Generating, Sending
    <2>3. /\ sends[g] = 0 /\ status[g] \notin Offered
          /\ \A v \in Workers : v # w => ~InHand(v, g)
      BY <1>1, <2>1, <2>2 DEF ClaimInv, OneHand, HeldIsNotOffered, SentIsSpent
    <2>4. sends'[g] = 1 /\ \A h \in Messages : h # g => sends'[h] = sends[h]
      BY <2>1, <2>3 DEF TypeOK
    <2>5. OneHand' /\ HeldIsNotOffered'
      BY <2>1, <2>2 DEF ClaimInv, OneHand, HeldIsNotOffered
    <2>6. SentIsSpent'
      BY <2>1, <2>2, <2>3, <2>4 DEF ClaimInv, SentIsSpent
    <2>. QED
      BY <2>5, <2>6 DEF ClaimInv
  <1>. QED
    BY <1>2, <1>3, <1>4, <1>5, <1>6

\* An operator offers a message only when it is added.
LEMMA OperatorClaims ==
    ASSUME TypeOK, ClaimInv, NoManualRetry, OperatorStep \/ Tick
    PROVE  ClaimInv'
  <1>1. pc' = pc /\ msg' = msg /\ sends' = sends
    BY DEF OperatorStep, Tick, SetOutboundEnabled, ActivateCampaigns, PauseCampaigns, ApplyOptOut,
           EditCandidate, EditMember, EditMessage, AddMessage, job
  <1>2. \A h \in Messages : status'[h] \in Offered => status[h] \in Offered
    <2>1. ASSUME NEW g \in Messages, EditMessage(g)
          PROVE  \A h \in Messages : status'[h] \in Offered => status[h] \in Offered
      <3>1. CASE status' = status
        BY <3>1
      <3>2. ASSUME NEW s \in AdminStatuses, status' = [status EXCEPT ![g] = s]
            PROVE  \A h \in Messages : status'[h] \in Offered => status[h] \in Offered
        <4>1. s \notin Offered
          BY OperatorsAssumption DEF NoManualRetry, Offered, MessageStatus
        <4>. QED
          BY <3>2, <4>1 DEF TypeOK
      <3>. QED
        BY <2>1, <3>1, <3>2, EditedMessages
    <2>2. ASSUME NEW g \in Manual, AddMessage(g)
          PROVE  \A h \in Messages : status'[h] \in Offered => status[h] \in Offered
      BY <2>2, AddedMessages DEF TypeOK, Offered
    <2>3. CASE UNCHANGED status
      BY <2>3
    <2>. QED
      BY <2>1, <2>2, <2>3
         DEF OperatorStep, Tick, SetOutboundEnabled, ActivateCampaigns, PauseCampaigns,
             ApplyOptOut, EditCandidate, EditMember, queue
  <1>. QED
    BY <1>1, <1>2, QuietSteps DEF InHand, BeforeSend, Generating, Sending

LEMMA ClaimInvariant == NoManualRetry => (Spec => []ClaimInv)
  <1>. SUFFICES ASSUME NoManualRetry PROVE Spec => []ClaimInv
    OBVIOUS
  <1>1. TypeOK /\ ClaimInv /\ [Next]_vars => ClaimInv'
    <2>. SUFFICES ASSUME TypeOK, ClaimInv, [Next]_vars PROVE ClaimInv'
      OBVIOUS
    <2>1. CASE UNCHANGED vars
      BY <2>1, QuietSteps
         DEF vars, queue, job, InHand, BeforeSend, Generating, Sending
    <2>2. CASE Next
      BY <2>2, UnclaimedSteps, ClaimedSteps, OperatorClaims DEF Next, WorkerStep
    <2>. QED
      BY <2>1, <2>2
  <1>. QED
    BY InitClaims, TypeCorrect, <1>1, PTL DEF Spec

\* No message is handed to the sender twice, however many workers race for it,
\* crash and start again, while no operator makes a handled message sendable.
THEOREM SendsAtMostOnce == Spec => []AtMostOnceSend
  <1>1. ClaimInv => AtMostOnceSend
    BY DEF ClaimInv, SentIsSpent, AtMostOnceSend
  <1>2. ~NoManualRetry => AtMostOnceSend
    BY DEF AtMostOnceSend
  <1>3. CASE NoManualRetry
    BY <1>1, <1>3, ClaimInvariant, PTL
  <1>4. CASE ~NoManualRetry
    BY <1>2, <1>4, PTL
  <1>. QED
    BY <1>3, <1>4

\* The two compare-and-set claims give a message one worker at a time, between
\* generation and the end of its send.
THEOREM ClaimsAreExclusive == Spec => []ExclusiveClaim
  <1>1. ClaimInv => ExclusiveClaim
    BY DEF ClaimInv, OneHand, InHand, ExclusiveClaim
  <1>2. ~NoManualRetry => ExclusiveClaim
    BY DEF ExclusiveClaim
  <1>3. CASE NoManualRetry
    BY <1>1, <1>3, ClaimInvariant, PTL
  <1>4. CASE ~NoManualRetry
    BY <1>2, <1>4, PTL
  <1>. QED
    BY <1>3, <1>4

----------------------------------------------------------------------------
(* Opt-outs. *)

LEMMA OptOutSteps ==
    ASSUME TypeOK, DncForcesStatus, [Next]_vars
    PROVE  DncForcesStatus'
  <1>1. \A c \in Candidate : Saved(c).dnc => Saved(c).status = "DO_NOT_CONTACT"
    BY DEF Saved, Candidate
  <1>2. ASSUME NEW w \in Workers, CommitSent(w)
        PROVE  DncForcesStatus'
    <2>. DEFINE k == CandidateOf[MemberOf[msg[w]]]
    <2>1. CASE ~StillReady(w, k)
      BY <1>2, <2>1 DEF CommitSent, DncForcesStatus
    <2>2. CASE StillReady(w, k)
      <3>1. candidate' = [candidate EXCEPT ![k].status = "CONTACTED"]
        BY <1>2, <2>2 DEF CommitSent
      <3>2. candidate[k].status = "READY"
        BY <2>2 DEF StillReady
      <3>. HIDE DEF k
      <3>. QED
        BY <3>1, <3>2 DEF TypeOK, Candidate, DncForcesStatus
    <2>. QED
      BY <2>1, <2>2
  <1>3. ASSUME NEW k \in Candidates, NEW c \in Candidate,
               candidate' = [candidate EXCEPT ![k] = Saved(c)]
        PROVE  DncForcesStatus'
    BY <1>1, <1>3 DEF TypeOK, DncForcesStatus
  <1>4. CASE UNCHANGED candidate
    BY <1>4 DEF DncForcesStatus
  <1>5. ASSUME NEW k \in Candidates, ApplyOptOut(k)
        PROVE  DncForcesStatus'
    <2>. DEFINE c == [candidate[k] EXCEPT !.dnc = TRUE, !.status = "DO_NOT_CONTACT"]
    <2>1. candidate[k] \in Candidate
      BY DEF TypeOK
    <2>2. c \in Candidate
      BY <2>1 DEF Candidate, CandidateStatus
    <2>3. candidate' = [candidate EXCEPT ![k] = Saved(c)]
      BY <1>5 DEF ApplyOptOut
    <2>. QED
      BY <1>3, <2>2, <2>3
  <1>6. ASSUME NEW k \in Candidates, EditCandidate(k)
        PROVE  DncForcesStatus'
    BY <1>3, <1>6, OperatorsAssumption DEF EditCandidate
  <1>. QED
    BY <1>2, <1>4, <1>5, <1>6
       DEF Next, WorkerStep, OperatorStep, Tick, SetOutboundEnabled, ActivateCampaigns,
           PauseCampaigns, EditMember, EditMessage, AddMessage, vars, people,
           Begin, NextDueMessage, EnqueueNextEligible, EnqueueInitialMessage, ReadSystemState,
           CheckBeforeGeneration, CheckBeforeClaim, ClaimGeneration, ApplyDecision,
           DecisionContended, FailGeneration, ReloadGenerated, ClaimSend, FinalCheck, Rollback,
           RecordBlock, WriteAudit, Approve, SenderNotLoaded, Send, CommitFailed, CommitRefused,
           Crash

\* A recorded opt-out keeps the candidate's status: no commit of a worker that
\* was sending at that moment brings it back to CONTACTED.
THEOREM OptOutIsKept == Spec => []DncForcesStatus
  <1>1. Init => DncForcesStatus
    BY DEF Init, DncForcesStatus
  <1>. QED
    BY <1>1, OptOutSteps, TypeCorrect, PTL DEF Spec

----------------------------------------------------------------------------
(* Stops and their records. *)

StopStatuses == {"CANCELLED", "REQUIRES_HUMAN", "FAILED"}
StopEvents   == {"MESSAGE_BLOCKED", "HUMAN_ESCALATION", "AGENT_ERROR", "MESSAGE_FAILED"}

\* No operator writes or adds a stop by hand, and no worker is killed between a
\* stop and its record.
OnlyWorkersStop ==
    /\ Crashable = {}
    /\ AdminStatuses \intersect StopStatuses = {}
    /\ AddedStatuses \intersect StopStatuses = {}

RecordsDue == \A w \in Workers : pc[w] = "audit" => reason[w] \in StopEvents

Accounted(g) ==
    status[g] \in StopStatuses =>
        \/ audit[g] \intersect StopEvents # {}
        \/ \E w \in Workers : msg[w] = g /\ pc[w] = "audit"

LEMMA RecordsDueSteps ==
    ASSUME TypeOK, RecordsDue, [Next]_vars
    PROVE  RecordsDue'
  <1>1. ASSUME NEW w \in Workers, WorkerStep(w) \/ Crash(w)
        PROVE  RecordsDue'
    <2>1. /\ \A v \in Workers \ {w} : pc'[v] = pc[v] /\ reason'[v] = reason[v]
          /\ pc'[w] = "audit" => reason'[w] \in StopEvents
      BY <1>1 DEF TypeOK, WorkerStep, Goto, Return, Block, job, StopEvents, BlockEvent,
           Begin, NextDueMessage, EnqueueNextEligible, EnqueueInitialMessage, ReadSystemState,
           CheckBeforeGeneration, CheckBeforeClaim, ClaimGeneration, ApplyDecision,
           DecisionContended, FailGeneration, ReloadGenerated, ClaimSend, FinalCheck, Rollback,
           RecordBlock, WriteAudit, Approve, SenderNotLoaded, Send, CommitFailed, CommitSent,
           CommitRefused, Crash
    <2>. QED
      BY <2>1 DEF RecordsDue
  <1>2. CASE OperatorStep \/ Tick \/ UNCHANGED vars
    <2>1. pc' = pc /\ reason' = reason
      BY <1>2 DEF OperatorStep, Tick, SetOutboundEnabled, ActivateCampaigns, PauseCampaigns,
           ApplyOptOut, EditCandidate, EditMember, EditMessage, AddMessage, job, vars
    <2>. QED
      BY <2>1 DEF RecordsDue
  <1>. QED
    BY <1>1, <1>2 DEF Next

\* A worker that stops at a message writes the record with it or goes to write
\* it; any other step leaves no stop and loses no record.
LEMMA AccountedSteps ==
    ASSUME TypeOK, RecordsDue, OnlyWorkersStop, [Next]_vars,
           NEW g \in Messages, Accounted(g)
    PROVE  Accounted(g)'
  <1>. USE DEF At, Goto, SetStatus, Record
  <1>1. ASSUME NEW w \in Workers, RecordBlock(w) \/ FailGeneration(w) \/ CommitFailed(w)
        PROVE  Accounted(g)'
    <2>1. /\ audit' = audit /\ msg' = msg
          /\ pc' = [pc EXCEPT ![w] = "audit"] /\ pc[w] # "audit"
          /\ g # msg[w] => status'[g] = status[g]
      BY <1>1 DEF TypeOK, RecordBlock, FailGeneration, CommitFailed
    <2>. QED
      BY <2>1 DEF TypeOK, Accounted
  <1>2. ASSUME NEW w \in Workers, WriteAudit(w)
        PROVE  Accounted(g)'
    <2>1. /\ status' = status /\ pc[w] = "audit" /\ reason[w] \in StopEvents
          /\ \A v \in Workers \ {w} : pc'[v] = pc[v] /\ msg'[v] = msg[v]
          /\ audit[g] \subseteq audit'[g]
          /\ msg[w] = g => reason[w] \in audit'[g]
      BY <1>2 DEF TypeOK, RecordsDue, WriteAudit, Return, queue
    <2>. QED
      BY <2>1 DEF Accounted
  <1>3. ASSUME NEW w \in Workers,
               \/ Begin(w) \/ NextDueMessage(w) \/ EnqueueNextEligible(w)
               \/ EnqueueInitialMessage(w) \/ ReadSystemState(w) \/ CheckBeforeGeneration(w)
               \/ CheckBeforeClaim(w) \/ ClaimGeneration(w) \/ ApplyDecision(w)
               \/ DecisionContended(w) \/ ReloadGenerated(w) \/ ClaimSend(w) \/ FinalCheck(w)
               \/ Rollback(w) \/ Approve(w) \/ SenderNotLoaded(w) \/ Send(w) \/ CommitSent(w)
               \/ CommitRefused(w)
        PROVE  Accounted(g)'
    <2>1. /\ pc[w] # "audit"
          /\ \A v \in Workers \ {w} : pc'[v] = pc[v] /\ msg'[v] = msg[v]
      BY <1>3 DEF TypeOK, Return, Block, job,
           Begin, NextDueMessage, EnqueueNextEligible, EnqueueInitialMessage, ReadSystemState,
           CheckBeforeGeneration, CheckBeforeClaim, ClaimGeneration, ApplyDecision,
           DecisionContended, ReloadGenerated, ClaimSend, FinalCheck, Rollback, Approve,
           SenderNotLoaded, Send, CommitSent, CommitRefused
    <2>3. audit[g] \subseteq audit'[g]
      <3>1. CASE audit' = audit
        BY <3>1
      <3>2. CASE \E h, e : audit' = [audit EXCEPT ![h] = @ \union {e}]
        BY <3>2 DEF TypeOK
      <3>. QED
        BY <1>3, <3>1, <3>2 DEF
           Begin, NextDueMessage, EnqueueNextEligible, EnqueueInitialMessage, ReadSystemState,
           CheckBeforeGeneration, CheckBeforeClaim, ClaimGeneration, ApplyDecision,
           DecisionContended, ReloadGenerated, ClaimSend, FinalCheck, Rollback, Approve,
           SenderNotLoaded, Send, CommitSent, CommitRefused
    <2>2. \/ status'[g] \in StopStatuses => status[g] \in StopStatuses
          \/ audit'[g] \intersect StopEvents # {}
      <3>1. CASE ApplyDecision(w) /\ g = msg[w]
        <4>1. \/ status' = [status EXCEPT ![g] = "READY"]
              \/ audit' = [audit EXCEPT ![g] = @ \union {"HUMAN_ESCALATION"}]
              \/ audit' = [audit EXCEPT ![g] = @ \union {"MESSAGE_BLOCKED"}]
          BY <3>1 DEF ApplyDecision
        <4>2. \A e \in StopEvents : audit' = [audit EXCEPT ![g] = @ \union {e}]
                                      => e \in audit'[g]
          BY DEF TypeOK
        <4>. QED
          BY <4>1, <4>2 DEF TypeOK, StopStatuses, StopEvents
      <3>2. CASE ~(ApplyDecision(w) /\ g = msg[w])
        BY <1>3, <3>2 DEF TypeOK, StopStatuses, queue,
           Begin, NextDueMessage, EnqueueNextEligible, EnqueueInitialMessage, ReadSystemState,
           CheckBeforeGeneration, CheckBeforeClaim, ClaimGeneration, ApplyDecision,
           DecisionContended, ReloadGenerated, ClaimSend, FinalCheck, Rollback, Approve,
           SenderNotLoaded, Send, CommitSent, CommitRefused
      <3>. QED
        BY <3>1, <3>2
    <2>. QED
      BY <2>1, <2>2, <2>3 DEF Accounted
  <1>4. CASE OperatorStep \/ Tick \/ UNCHANGED vars
    <2>1. pc' = pc /\ msg' = msg /\ audit' = audit
      BY <1>4 DEF OperatorStep, Tick, SetOutboundEnabled, ActivateCampaigns, PauseCampaigns,
           ApplyOptOut, EditCandidate, EditMember, EditMessage, AddMessage, job, vars
    <2>2. status'[g] \in StopStatuses => status[g] \in StopStatuses
      <3>1. CASE status' = status
        BY <3>1
      <3>2. ASSUME NEW h \in Messages, EditMessage(h)
            PROVE  status'[g] \in StopStatuses => status[g] \in StopStatuses
        BY <3>2, EditedMessages DEF TypeOK, OnlyWorkersStop
      <3>3. ASSUME NEW h \in Manual, AddMessage(h)
            PROVE  status'[g] \in StopStatuses => status[g] \in StopStatuses
        BY <3>3, AddedMessages DEF TypeOK, OnlyWorkersStop
      <3>. QED
        BY <1>4, <3>1, <3>2, <3>3
           DEF OperatorStep, Tick, SetOutboundEnabled, ActivateCampaigns, PauseCampaigns,
               ApplyOptOut, EditCandidate, EditMember, queue, vars
    <2>. QED
      BY <2>1, <2>2 DEF Accounted
  <1>. QED
    BY <1>1, <1>2, <1>3, <1>4 DEF Next, WorkerStep, Crash, OnlyWorkersStop

\* A message a worker stopped at has a record of the stop, or the worker is
\* about to write it, if workers alone stop messages and none is killed.
THEOREM StopsAreRecorded == OnlyWorkersStop => (Spec => []StopsAreAudited)
  <1>. SUFFICES ASSUME OnlyWorkersStop PROVE Spec => []StopsAreAudited
    OBVIOUS
  <1>. DEFINE AllAccounted == \A g \in Messages : Accounted(g)
  <1>1. Init => RecordsDue /\ AllAccounted
    BY DEF Init, RecordsDue, Accounted, StopStatuses
  <1>2. TypeOK /\ RecordsDue /\ AllAccounted /\ [Next]_vars => AllAccounted'
    BY AccountedSteps
  <1>3. AllAccounted => StopsAreAudited
    BY DEF Accounted, StopStatuses, StopEvents, StopsAreAudited
  <1>. HIDE DEF AllAccounted
  <1>. QED
    BY <1>1, <1>2, <1>3, RecordsDueSteps, TypeCorrect, PTL DEF Spec

----------------------------------------------------------------------------
(* The course of process_next. *)

\* The stages in the order of the code.
Rank == [s \in Stages |->
    CASE s = "idle"             -> 0  [] s = "select"        -> 1
      [] s = "pick"             -> 2  [] s = "enqueue"       -> 3
      [] s = "check"            -> 4  [] s = "check_policy"  -> 5
      [] s = "claim_generation" -> 6  [] s = "generate"      -> 7
      [] s = "reload"           -> 8  [] s = "decide"        -> 9
      [] s = "decide_policy"    -> 10 [] s = "claim_send"    -> 11
      [] s = "final"            -> 12 [] s = "final_policy"  -> 13
      [] s = "approve"          -> 14 [] s = "send"          -> 15
      [] s = "commit_sent"      -> 16 [] s = "commit_failed" -> 17
      [] s = "rollback"         -> 18 [] s = "block"         -> 19
      [] s = "audit"            -> 20]

Advances(w) ==
    \/ pc'[w] = "idle" /\ pc[w] # "idle"
    \/ Rank[pc[w]] < Rank[pc'[w]]

LEMMA RankValues ==
    /\ Rank["idle"] = 0 /\ Rank["select"] = 1 /\ Rank["pick"] = 2
    /\ Rank["enqueue"] = 3 /\ Rank["check"] = 4 /\ Rank["check_policy"] = 5
    /\ Rank["claim_generation"] = 6 /\ Rank["generate"] = 7 /\ Rank["reload"] = 8
    /\ Rank["decide"] = 9 /\ Rank["decide_policy"] = 10 /\ Rank["claim_send"] = 11
    /\ Rank["final"] = 12 /\ Rank["final_policy"] = 13 /\ Rank["approve"] = 14
    /\ Rank["send"] = 15 /\ Rank["commit_sent"] = 16 /\ Rank["commit_failed"] = 17
    /\ Rank["rollback"] = 18 /\ Rank["block"] = 19 /\ Rank["audit"] = 20
  BY DEF Rank, Stages

LEMMA StepsAdvance ==
    ASSUME TypeOK, NEW w \in Workers, WorkerStep(w)
    PROVE  Advances(w) /\ \A v \in Workers \ {w} : pc'[v] = pc[v]
  <1>0. \A v \in Workers \ {w} : pc'[v] = pc[v]
    BY DEF TypeOK, At, Goto, Return, Block, job, WorkerStep,
           Begin, NextDueMessage, EnqueueNextEligible, EnqueueInitialMessage, ReadSystemState,
           CheckBeforeGeneration, CheckBeforeClaim, ClaimGeneration,
           ApplyDecision, DecisionContended, FailGeneration, ReloadGenerated, ClaimSend,
           FinalCheck, Rollback, RecordBlock, WriteAudit, Approve, SenderNotLoaded, Send,
           CommitFailed, CommitSent, CommitRefused
  <1>1. CASE Begin(w) \/ NextDueMessage(w) \/ EnqueueNextEligible(w) \/ EnqueueInitialMessage(w)
    <2>1. \/ pc[w] = "idle" /\ pc'[w] = "select"
          \/ pc[w] = "select" /\ pc'[w] \in {"check", "pick"}
          \/ pc[w] = "pick" /\ pc'[w] \in {"enqueue", "idle"}
          \/ pc[w] = "enqueue" /\ pc'[w] = "check"
      BY <1>1 DEF TypeOK, At, Goto, Return,
                  Begin, NextDueMessage, EnqueueNextEligible, EnqueueInitialMessage
    <2>. QED
      BY <1>0, <2>1, RankValues DEF Advances
  <1>2. CASE ReadSystemState(w) \/ CheckBeforeGeneration(w) \/ CheckBeforeClaim(w)
    <2>1. \/ pc[w] = "check" /\ pc'[w] \in {"check_policy", "decide_policy", "block"}
          \/ pc[w] = "decide" /\ pc'[w] \in {"decide_policy", "block"}
          \/ pc[w] = "final" /\ pc'[w] \in {"final_policy", "rollback"}
          \/ pc[w] = "check_policy" /\ pc'[w] \in {"claim_generation", "block"}
          \/ pc[w] = "decide_policy" /\ pc'[w] \in {"claim_send", "block"}
      BY <1>2 DEF TypeOK, At, Goto, Block, ReadSystemState, CheckBeforeGeneration, CheckBeforeClaim
    <2>. QED
      BY <1>0, <2>1, RankValues DEF Advances
  <1>3. CASE FinalCheck(w) \/ ClaimGeneration(w) \/ ClaimSend(w)
    <2>1. \/ pc[w] = "final_policy" /\ pc'[w] \in {"approve", "rollback"}
          \/ pc[w] = "claim_generation" /\ pc'[w] \in {"generate", "idle"}
          \/ pc[w] = "claim_send" /\ pc'[w] \in {"final", "idle"}
      BY <1>3 DEF TypeOK, At, Goto, Return, FinalCheck, ClaimGeneration, ClaimSend
    <2>. QED
      BY <1>0, <2>1, RankValues DEF Advances
  <1>4. CASE \/ ApplyDecision(w) \/ DecisionContended(w) \/ FailGeneration(w)
             \/ ReloadGenerated(w) \/ Rollback(w) \/ RecordBlock(w)
    <2>1. \/ pc[w] = "generate" /\ pc'[w] \in {"reload", "idle", "audit"}
          \/ pc[w] = "reload" /\ pc'[w] = "decide"
          \/ pc[w] = "rollback" /\ pc'[w] = "block"
          \/ pc[w] = "block" /\ pc'[w] = "audit"
      BY <1>4 DEF TypeOK, At, Goto, Return, ApplyDecision, DecisionContended, FailGeneration,
                  ReloadGenerated, Rollback, RecordBlock
    <2>. QED
      BY <1>0, <2>1, RankValues DEF Advances
  <1>5. CASE \/ WriteAudit(w) \/ Approve(w) \/ SenderNotLoaded(w) \/ Send(w)
             \/ CommitFailed(w) \/ CommitSent(w) \/ CommitRefused(w)
    <2>1. \/ pc[w] \in {"audit", "approve", "commit_sent"} /\ pc'[w] = "idle"
          \/ pc[w] = "approve" /\ pc'[w] = "send"
          \/ pc[w] = "send" /\ pc'[w] \in {"commit_sent", "commit_failed"}
          \/ pc[w] = "commit_failed" /\ pc'[w] = "audit"
      BY <1>5 DEF TypeOK, At, Goto, Return, job, WriteAudit, Approve, SenderNotLoaded, Send,
                  CommitFailed, CommitSent, CommitRefused
    <2>. QED
      BY <1>0, <2>1, RankValues DEF Advances
  <1>. QED
    BY <1>1, <1>2, <1>3, <1>4, <1>5 DEF WorkerStep

\* process_next never goes back: whatever the other workers do to its message,
\* each statement of a call is later in the code than the one before, so that a
\* call makes at most twenty steps and cannot keep a message by retrying.
THEOREM CallsAdvance ==
    Spec => [][\A w \in Workers : WorkerStep(w) \/ pc'[w] # pc[w] => Advances(w)]_vars
  <1>1. TypeOK /\ [Next]_vars =>
            [\A w \in Workers : WorkerStep(w) \/ pc'[w] # pc[w] => Advances(w)]_vars
    <2>. SUFFICES ASSUME TypeOK, Next, NEW w \in Workers, pc'[w] # pc[w]
                  PROVE  Advances(w)
      BY StepsAdvance
    <2>1. ASSUME NEW v \in Workers, Crash(v)
          PROVE  Advances(w)
      BY <2>1 DEF Crash, Advances, At, Return, Goto, TypeOK
    <2>2. CASE OperatorStep \/ Tick
      BY <2>2 DEF OperatorStep, Tick, SetOutboundEnabled, ActivateCampaigns, PauseCampaigns,
           ApplyOptOut, EditCandidate, EditMember, EditMessage, AddMessage, job
    <2>. QED
      BY <2>1, <2>2, StepsAdvance DEF Next
  <1>. QED
    BY <1>1, TypeCorrect, PTL DEF Spec

----------------------------------------------------------------------------
(* Pauses. *)

LEMMA DrainSteps ==
    ASSUME TypeOK, ~outbound, NEW w \in Workers, WorkerStep(w) \/ Crash(w)
    PROVE  /\ PastThePause' \subseteq PastThePause
           /\ \A g \in Messages : sends'[g] # sends[g] =>
                 \E v \in PastThePause \ PastThePause' : msg[v] = g
  <1>. DEFINE Past == {"final_policy", "approve", "send"}
  <1>. USE DEF TypeOK, At, Goto
  <1>1. CASE Send(w)
    <2>1. /\ pc[w] = "send" /\ pc'[w] \notin Past
          /\ \A v \in Workers \ {w} : pc'[v] = pc[v]
          /\ \A g \in Messages : g # msg[w] => sends'[g] = sends[g]
      BY <1>1 DEF Send
    <2>. QED
      BY <2>1 DEF PastThePause
  <1>2. CASE FinalCheck(w) \/ Approve(w)
    <2>1. /\ pc[w] \in Past /\ sends' = sends
          /\ \A v \in Workers \ {w} : pc'[v] = pc[v]
      BY <1>2 DEF FinalCheck, Approve
    <2>. QED
      BY <2>1 DEF PastThePause
  <1>3. CASE ~(Send(w) \/ FinalCheck(w) \/ Approve(w))
    <2>1. /\ pc'[w] \notin Past
          /\ \A v \in Workers \ {w} : pc'[v] = pc[v]
          /\ sends' = sends
      <3>1. CASE Begin(w) \/ NextDueMessage(w) \/ EnqueueNextEligible(w) \/ EnqueueInitialMessage(w)
        BY <3>1 DEF Begin, NextDueMessage, EnqueueNextEligible, EnqueueInitialMessage, Return
      <3>2. CASE ReadSystemState(w) \/ CheckBeforeGeneration(w) \/ CheckBeforeClaim(w)
        BY <3>2 DEF ReadSystemState, OutboundNow, CheckBeforeGeneration, CheckBeforeClaim, Block
      <3>3. CASE ClaimGeneration(w) \/ ApplyDecision(w) \/ DecisionContended(w) \/ FailGeneration(w)
        BY <3>3 DEF ClaimGeneration, ApplyDecision, DecisionContended, FailGeneration, Return
      <3>4. CASE ReloadGenerated(w) \/ ClaimSend(w) \/ Rollback(w) \/ RecordBlock(w) \/ WriteAudit(w)
        BY <3>4 DEF ReloadGenerated, ClaimSend, Rollback, RecordBlock, WriteAudit, Return
      <3>5. CASE \/ SenderNotLoaded(w) \/ CommitFailed(w) \/ CommitSent(w) \/ CommitRefused(w)
                 \/ Crash(w)
        BY <3>5 DEF SenderNotLoaded, CommitFailed, CommitSent, CommitRefused, Crash, Return
      <3>. QED
        BY <1>3, <3>1, <3>2, <3>3, <3>4, <3>5 DEF WorkerStep
    <2>. QED
      BY <2>1 DEF PastThePause
  <1>. QED
    BY <1>1, <1>2, <1>3

\* A pause is followed by at most one send per worker, the one it had got past
\* its last look at SystemState with, for any number of workers and messages.
THEOREM PausesDrain == Spec => PauseDrains
  <1>1. TypeOK /\ [Next]_vars =>
            [~outbound /\ ~outbound' =>
                /\ PastThePause' \subseteq PastThePause
                /\ \A g \in Messages : sends'[g] # sends[g] =>
                      \E w \in PastThePause \ PastThePause' : msg[w] = g]_vars
    <2>. SUFFICES ASSUME TypeOK, Next, ~outbound
                  PROVE  /\ PastThePause' \subseteq PastThePause
                         /\ \A g \in Messages : sends'[g] # sends[g] =>
                               \E w \in PastThePause \ PastThePause' : msg[w] = g
      OBVIOUS
    <2>1. CASE OperatorStep \/ Tick
      <3>1. UNCHANGED <<pc, sends>>
        BY <2>1 DEF OperatorStep, Tick, SetOutboundEnabled, ActivateCampaigns, PauseCampaigns,
             ApplyOptOut, EditCandidate, EditMember, EditMessage, AddMessage, job
      <3>. QED
        BY <3>1 DEF PastThePause
    <2>. QED
      BY <2>1, DrainSteps DEF Next
  <1>. QED
    BY <1>1, TypeCorrect, PTL DEF Spec, PauseDrains

----------------------------------------------------------------------------
(* One worker alone, and operators who change no status but to record that a *)
(* message was delivered.                                                    *)

OneWorker == \A v, w \in Workers : v = w

\* An added message is held only after it was added.
HeldIsNotSent ==
    \A w \in Workers, g \in Messages : msg[w] = g =>
        status[g] # "SENT" /\ (g \in Manual => status[g] # "NONE")

LEMMA HeldSteps ==
    ASSUME OneWorker, AdminStatuses \subseteq {"DELIVERED"}, TypeOK, HeldIsNotSent, [Next]_vars
    PROVE  /\ HeldIsNotSent'
           /\ \A g \in Messages : status[g] = "SENT" => status'[g] \in SentStatuses
  <1>. USE DEF TypeOK, At, SetStatus, queue, SentStatuses
  <1>1. ASSUME NEW w \in Workers, WorkerStep(w) \/ Crash(w)
        PROVE  /\ HeldIsNotSent'
               /\ \A g \in Messages : status[g] = "SENT" => status'[g] \in SentStatuses
    <2>1. \A v \in Workers : v = w
      BY DEF OneWorker
    <2>2. \/ msg[w] = NoMessage
          \/ /\ msg[w] \in Messages /\ status[msg[w]] # "SENT"
             /\ msg[w] \in Manual => status[msg[w]] # "NONE"
      BY DEF HeldIsNotSent
    <2>3. CASE Begin(w) \/ NextDueMessage(w) \/ EnqueueNextEligible(w)
      <3>1. status' = status
        BY <2>3 DEF Begin, NextDueMessage, EnqueueNextEligible
      <3>2. \/ msg'[w] = msg[w]
            \/ msg'[w] = NoMessage
            \/ /\ msg'[w] \in Messages /\ status[msg'[w]] # "SENT"
               /\ msg'[w] \in Manual => status[msg'[w]] # "NONE"
        BY <2>3, MembersAreMessages, KeysAssumption
           DEF Begin, NextDueMessage, EnqueueNextEligible, Due, Eligible, Return
      <3>. QED
        BY <2>1, <2>2, <3>1, <3>2, MembersAreMessages DEF HeldIsNotSent
    <2>4. CASE ~(Begin(w) \/ NextDueMessage(w) \/ EnqueueNextEligible(w))
      <3>1. /\ \A g \in Messages : g # msg[w] => status'[g] = status[g]
            /\ \/ msg'[w] = msg[w] /\ (status'[msg[w]] \notin {"SENT", "NONE"} \/ status' = status)
               \/ msg'[w] = NoMessage
        <4>1. CASE ReadSystemState(w) \/ CheckBeforeGeneration(w) \/ CheckBeforeClaim(w)
          BY <2>2, <4>1 DEF ReadSystemState, CheckBeforeGeneration, CheckBeforeClaim, Block
        <4>2. CASE ClaimGeneration(w) \/ ApplyDecision(w)
          BY <2>2, <4>2 DEF ClaimGeneration, ApplyDecision, Return
        <4>3. CASE EnqueueInitialMessage(w) \/ DecisionContended(w) \/ FailGeneration(w)
          BY <1>1, <2>2, <4>3 DEF EnqueueInitialMessage, DecisionContended, FailGeneration, Return
        <4>4. CASE \/ ReloadGenerated(w) \/ FinalCheck(w)
                   \/ WriteAudit(w) \/ Approve(w) \/ SenderNotLoaded(w)
          BY <1>1, <2>2, <4>4 DEF ReloadGenerated, FinalCheck, WriteAudit, Approve,
             SenderNotLoaded, Return, job
        <4>6. CASE ClaimSend(w) \/ Rollback(w) \/ RecordBlock(w)
          BY <1>1, <2>2, <4>6 DEF ClaimSend, Rollback, RecordBlock, Return
        <4>5. CASE Send(w) \/ CommitFailed(w) \/ CommitSent(w) \/ CommitRefused(w) \/ Crash(w)
          BY <1>1, <2>2, <4>5 DEF Send, CommitFailed, CommitSent, CommitRefused, Crash, Return
        <4>. QED
          BY <1>1, <2>4, <4>1, <4>2, <4>3, <4>4, <4>5, <4>6 DEF WorkerStep
      <3>. QED
        BY <2>1, <2>2, <3>1, MembersAreMessages DEF HeldIsNotSent
    <2>. QED
      BY <2>3, <2>4
  <1>2. CASE OperatorStep \/ Tick \/ UNCHANGED vars
    <2>1. msg' = msg
      BY <1>2 DEF OperatorStep, Tick, SetOutboundEnabled, ActivateCampaigns, PauseCampaigns,
           ApplyOptOut, EditCandidate, EditMember, EditMessage, AddMessage, job, vars
    <2>2. \/ status' = status
          \/ \E g \in Messages : status' = [status EXCEPT ![g] = "DELIVERED"]
          \/ \E g \in Manual :
                /\ status[g] = "NONE" /\ g \in Messages
                /\ \E s \in MessageStatus : status' = [status EXCEPT ![g] = s]
      <3>1. ASSUME NEW g \in Messages, EditMessage(g)
            PROVE  status' = status \/ status' = [status EXCEPT ![g] = "DELIVERED"]
        BY <3>1, EditedMessages
      <3>2. ASSUME NEW g \in Manual, AddMessage(g)
            PROVE  /\ status[g] = "NONE" /\ g \in Messages
                   /\ \E s \in MessageStatus : status' = [status EXCEPT ![g] = s]
        BY <3>2, AddedMessages, OperatorsAssumption
      <3>. QED
        BY <1>2, <3>1, <3>2
           DEF OperatorStep, Tick, SetOutboundEnabled, ActivateCampaigns, PauseCampaigns,
               ApplyOptOut, EditCandidate, EditMember, vars
    <2>. QED
      BY <2>1, <2>2 DEF HeldIsNotSent
  <1>. QED
    BY <1>1, <1>2 DEF Next

\* A single worker keeps ALLOWED_TRANSITIONS: a sent message can only become
\* delivered.  (Two workers do not: run sent_is_final.)
THEOREM OneWorkerKeepsSent ==
    OneWorker /\ AdminStatuses \subseteq {"DELIVERED"} => (Spec => SentIsFinal)
  <1>. SUFFICES ASSUME OneWorker, AdminStatuses \subseteq {"DELIVERED"}
                PROVE  Spec => SentIsFinal
    OBVIOUS
  <1>1. Init => HeldIsNotSent
    BY MembersAreMessages DEF Init, HeldIsNotSent
  <1>2. TypeOK /\ HeldIsNotSent /\ [Next]_vars =>
            /\ HeldIsNotSent'
            /\ [\A g \in Messages : status[g] = "SENT" => status'[g] \in SentStatuses]_vars
    BY HeldSteps
  <1>. QED
    BY <1>1, <1>2, TypeCorrect, PTL DEF Spec, SentIsFinal
=============================================================================
