------------------------------ MODULE Outreach ------------------------------
(***************************************************************************)
(* The outbound messaging core: worker processes that run process_next     *)
(* (messaging/worker.py) over one database, the queue they fill            *)
(* (messaging/queue.py), the policy they consult (messaging/policies.py),  *)
(* message generation (agents/services.py), and the operators who pause,   *)
(* resume, activate, opt out and edit rows while the workers run.          *)
(*                                                                         *)
(* One action is one database statement or one transaction.atomic block:   *)
(* the configured database is SQLite, whose transactions are serializable. *)
(* Between two actions of a worker any other process may act.              *)
(***************************************************************************)
EXTENDS Integers, FiniteSets

CONSTANTS
    Workers,        \* processes running run_message_worker
    Members,        \* primary keys of CampaignMember rows
    Manual,         \* keys of messages an operator may add in Django Admin
    MemberOf,       \* Message.campaign_member; a member's initial message has the member's key
    CampaignOf,     \* CampaignMember.campaign
    CandidateOf,    \* CampaignMember.candidate
    HourlyLimit, DailyLimit, MinInterval,   \* Campaign limits, per campaign
    StartAt, EndAt,                         \* Campaign dates, per campaign
    HOUR, DAY, DEFER,                       \* an hour, a day and the 60 s deferral, in ticks
    MaxTime,        \* bound: the clock stops here
    MaxSends,       \* bound: operators stop retrying a message after so many send attempts
    Operations,     \* what operators do: "outbound", "campaign", "opt_out"
    CandidateEdits, \* what an operator may save on the Candidate form
    MemberEdits,    \* what an operator may save on the CampaignMember form
    CountEdits,     \* the counts and contact dates an operator may save on it
    AdminStatuses,  \* message statuses an operator sets by hand
    AddedStatuses,  \* the statuses of messages an operator adds
    Entries,        \* the texts and schedules an operator enters on the Message form
    Crashable,      \* workers that may be killed
    Answers         \* what the agent and the sender answer

Messages   == Members \union Manual
Campaigns  == {CampaignOf[m] : m \in Members}
Candidates == {CandidateOf[m] : m \in Members}

NoMessage == 0
Never     == -1      \* a NULL sent_at, first_contact_at or last_contact_at
Null      == 0       \* a NULL scheduled_at: due at once, and sorted first

CampaignStatus  == {"DRAFT", "ACTIVE", "PAUSED"}
CandidateStatus == {"NEW", "READY", "CONTACTED", "REQUIRES_HUMAN", "DO_NOT_CONTACT", "INVALID"}
MemberStatus    == {"READY", "CONTACTED", "SKIPPED"}
MessageStatus   == {"PENDING", "GENERATING", "READY", "SENDING", "SENT",
                    "DELIVERED", "FAILED", "CANCELLED", "REQUIRES_HUMAN"}
SentStatuses    == {"SENT", "DELIVERED"}

Candidate == [status : CandidateStatus, dnc : BOOLEAN, phone : BOOLEAN]
Moment    == Nat \union {Never}
Member    == [status : MemberStatus, human : BOOLEAN, sent : Nat, first : Moment, last : Moment]

\* What the constraint campaign_member_contact_dates_in_order lets a form store.
MemberCounts == {c \in [sent : Nat, first : Moment, last : Moment] :
                    c.first = Never \/ c.last = Never \/ c.first <= c.last}
Entry     == [content : BOOLEAN, scheduledAt : Nat]

PermanentBlocks == {"DO_NOT_CONTACT", "INVALID_CANDIDATE"}
DeferredBlocks  == {"CAMPAIGN_INACTIVE", "MESSAGE_INTERVAL", "RATE_LIMIT_HOURLY", "RATE_LIMIT_DAILY"}
PolicyReasons   == PermanentBlocks \union DeferredBlocks \union {"REQUIRES_HUMAN", "SYSTEM_PAUSED"}

AuditEvents == {"MESSAGE_QUEUED", "MESSAGE_GENERATED", "MESSAGE_APPROVED", "MESSAGE_BLOCKED",
                "MESSAGE_SENT", "MESSAGE_FAILED", "HUMAN_ESCALATION", "AGENT_ERROR"}

ASSUME KeysAssumption ==
    /\ Members \subseteq Nat \ {NoMessage}
    /\ Manual \subseteq Nat \ {NoMessage}
    /\ Members \intersect Manual = {}
    /\ MemberOf \in [Messages -> Members]
    /\ \A m \in Members : MemberOf[m] = m

ASSUME LimitsAssumption ==
    /\ DOMAIN CampaignOf = Members
    /\ DOMAIN CandidateOf = Members
    /\ HourlyLimit \in [Campaigns -> Nat \ {0}]
    /\ DailyLimit \in [Campaigns -> Nat \ {0}]
    /\ MinInterval \in [Campaigns -> Nat]
    /\ StartAt \in [Campaigns -> Nat]
    /\ EndAt \in [Campaigns -> Nat]
    /\ HOUR \in Nat \ {0} /\ DAY \in Nat \ {0} /\ DEFER \in Nat \ {0}
    /\ MaxTime \in Nat /\ MaxSends \in Nat

ASSUME OperatorsAssumption ==
    /\ Operations \subseteq {"outbound", "campaign", "opt_out"}
    /\ CandidateEdits \subseteq Candidate
    /\ MemberEdits \subseteq [status : MemberStatus, human : BOOLEAN]
    /\ CountEdits \subseteq MemberCounts
    /\ AdminStatuses \subseteq MessageStatus
    /\ AddedStatuses \subseteq MessageStatus
    /\ Entries \subseteq Entry
    /\ Crashable \subseteq Workers
    /\ Answers \subseteq {"SEND", "HUMAN_REVIEW", "SKIP", "ERROR", "CONFIRMED", "REFUSED",
                     "NO_SENDER"}
    /\ {"SEND", "CONFIRMED"} \subseteq Answers

VARIABLES
    now,          \* the clock
    outbound,     \* SystemState.outbound_enabled
    campaign,     \* Campaign.status
    candidate,    \* Candidate rows: status, do_not_contact, a usable phone
    member,       \* CampaignMember rows: status, human_required, messages_sent,
                  \* first_contact_at, last_contact_at
    status,       \* Message.status, "NONE" while the row does not exist
    content,      \* whether Message.content is not blank
    scheduledAt, sentAt, retries,   \* Message.scheduled_at, sent_at, retry_count
    audit,        \* types of the AuditEvent rows about a message
    pc,           \* where each worker is in process_next
    msg,          \* the message (or member) it is working on
    copy,         \* its Python Message object, with the related rows cached in it
                  \* and, once the sender has confirmed, the sent_at to be saved
    reason,       \* the policy reason or the audit event it is about to write
    sends         \* history: calls of sender.send per message

people   == <<campaign, candidate, member>>
queue    == <<status, content, scheduledAt, sentAt, retries>>
job      == <<pc, msg, copy, reason>>
vars     == <<now, outbound, people, queue, audit, job, sends>>

----------------------------------------------------------------------------
(* Rows and the objects a worker holds. *)

CampaignOfMsg(g)  == CampaignOf[MemberOf[g]]
CandidateOfMsg(g) == CandidateOf[MemberOf[g]]

\* The related rows the policy looks at, as they are in the database now.
Row(g) == [campaign |-> campaign[CampaignOfMsg(g)],
           candidate |-> candidate[CandidateOfMsg(g)],
           human |-> member[MemberOf[g]].human]

Rows == [campaign : CampaignStatus, candidate : Candidate, human : BOOLEAN]

\* select_related caches the related rows in the object; a bare get() leaves
\* them to be fetched when the policy first touches them.
Load(g)     == [status |-> status[g], content |-> content[g], cached |-> TRUE,
                row |-> Row(g), stamp |-> Never]
LoadBare(g) == [Load(g) EXCEPT !.cached = FALSE]

NoCopy == [status |-> "NONE", content |-> FALSE, cached |-> FALSE,
           row |-> [campaign |-> "DRAFT", human |-> FALSE,
                    candidate |-> [status |-> "NEW", dnc |-> FALSE, phone |-> FALSE]],
           stamp |-> Never]

Copies == [status : MessageStatus \union {"NONE"}, content : BOOLEAN,
           cached : BOOLEAN, row : Rows, stamp : Moment]

RowWithoutLock(w) == [copy[w].row EXCEPT !.human = FALSE]
RowSeenBy(w) == IF copy[w].cached THEN copy[w].row ELSE Row(msg[w])

\* Candidate.save: do_not_contact forces the status.
Saved(c) == IF c.dnc THEN [c EXCEPT !.status = "DO_NOT_CONTACT"] ELSE c

----------------------------------------------------------------------------
(* messaging/policies.py *)

\* Midnight of another time zone, an hour off.
DayStartElsewhere == (now \div DAY) * DAY + HOUR
DayStart == (now \div DAY) * DAY

\* The hour loses its first instant.
SentAfter(c, since) ==
    {h \in Messages : CampaignOfMsg(h) = c /\ status[h] \in SentStatuses /\ sentAt[h] > since}
SentSince(c, since) ==
    {h \in Messages : /\ CampaignOfMsg(h) = c
                      /\ status[h] \in SentStatuses
                      /\ sentAt[h] # Never
                      /\ sentAt[h] >= since}

\* Only deliveries that were confirmed by the provider count.
DeliveredToMember(g) ==
    {h \in Messages \ {g} : MemberOf[h] = MemberOf[g] /\ status[h] = "DELIVERED"}
SentToMember(g) ==
    {h \in Messages \ {g} : /\ MemberOf[h] = MemberOf[g]
                            /\ status[h] \in SentStatuses
                            /\ sentAt[h] # Never}

\* The rules after the SystemState check, in the code's order. The DUPLICATE
\* rule is absent: keys are unique in the database, so no other row can match.
EvaluateOutbound(g, row, text, requireContent) ==
    LET c == CampaignOfMsg(g) IN
    IF row.campaign # "ACTIVE" \/ StartAt[c] > now \/ EndAt[c] < now
        THEN "CAMPAIGN_INACTIVE"
    ELSE IF row.candidate.dnc \/ row.candidate.status = "DO_NOT_CONTACT"
        THEN "DO_NOT_CONTACT"
    ELSE IF row.human \/ row.candidate.status = "REQUIRES_HUMAN"
        THEN "REQUIRES_HUMAN"
    ELSE IF ~row.candidate.phone \/ row.candidate.status = "INVALID" \/ (requireContent /\ ~text)
        THEN "INVALID_CANDIDATE"
    ELSE IF \E h \in SentToMember(g) : sentAt[h] + MinInterval[c] > now
        THEN "MESSAGE_INTERVAL"
    ELSE IF Cardinality(SentSince(c, now - HOUR) \ {g}) >= HourlyLimit[c]
        THEN "RATE_LIMIT_HOURLY"
    ELSE IF Cardinality(SentSince(c, DayStart) \ {g}) >= DailyLimit[c]
        THEN "RATE_LIMIT_DAILY"
    ELSE "PASS"

----------------------------------------------------------------------------
Init ==
    /\ now = 0
    /\ outbound = TRUE
    /\ campaign \in [Campaigns -> {"DRAFT", "ACTIVE"}]
    /\ candidate = [k \in Candidates |-> [status |-> "READY", dnc |-> FALSE, phone |-> TRUE]]
    /\ member = [m \in Members |-> [status |-> "READY", human |-> FALSE, sent |-> 0,
                                   first |-> Never, last |-> Never]]
    /\ status = [g \in Messages |-> "NONE"]
    /\ content = [g \in Messages |-> FALSE]
    /\ scheduledAt = [g \in Messages |-> Null]
    /\ sentAt = [g \in Messages |-> Never]
    /\ retries = [g \in Messages |-> 0]
    /\ audit = [g \in Messages |-> {}]
    /\ pc = [w \in Workers |-> "idle"]
    /\ msg = [w \in Workers |-> NoMessage]
    /\ copy = [w \in Workers |-> NoCopy]
    /\ reason = [w \in Workers |-> "NONE"]
    /\ sends = [g \in Messages |-> 0]

----------------------------------------------------------------------------
(* Steps of a worker. *)

At(w, stage)   == pc[w] = stage
Goto(w, stage) == pc' = [pc EXCEPT ![w] = stage]

\* process_next returns, and run_message_worker will call it again.
Return(w) ==
    /\ Goto(w, "idle")
    /\ msg' = [msg EXCEPT ![w] = NoMessage]
    /\ copy' = [copy EXCEPT ![w] = NoCopy]
    /\ reason' = [reason EXCEPT ![w] = "NONE"]

Block(w, why) ==
    /\ Goto(w, "block")
    /\ reason' = [reason EXCEPT ![w] = why]
    /\ UNCHANGED <<msg, copy>>

SetStatus(g, s) == status' = [status EXCEPT ![g] = s]
Record(g, e)    == audit' = [audit EXCEPT ![g] = @ \union {e}]

\* The pause check on entry; a paused process_next returns without a trace.
Begin(w) ==
    /\ At(w, "idle")
    /\ outbound
    /\ Goto(w, "select")
    /\ UNCHANGED <<now, outbound, people, queue, audit, msg, copy, reason, sends>>

\* next_due_message takes every scheduled message, whatever its status.
DueWhateverStatus == {g \in Messages : status[g] # "NONE" /\ scheduledAt[g] <= now}
Due == {g \in Messages : status[g] \in {"PENDING", "READY"} /\ scheduledAt[g] <= now}

NextDueMessage(w) ==
    /\ At(w, "select")
    /\ \/ \E g \in Due :
            /\ \A h \in Due : scheduledAt[g] <= scheduledAt[h]
            /\ Goto(w, "check")
            /\ msg' = [msg EXCEPT ![w] = g]
            /\ copy' = [copy EXCEPT ![w] = Load(g)]
            /\ UNCHANGED reason
       \/ /\ Due = {}
          /\ Goto(w, "pick")
          /\ UNCHANGED <<msg, copy, reason>>
    /\ UNCHANGED <<now, outbound, people, queue, audit, sends>>

Eligible(m) ==
    /\ member[m].status = "READY"
    /\ ~member[m].human
    /\ campaign[CampaignOf[m]] = "ACTIVE"
    /\ candidate[CandidateOf[m]].status = "READY"
    /\ ~candidate[CandidateOf[m]].dnc
    /\ status[m] = "NONE"

EnqueueNextEligible(w) ==
    /\ At(w, "pick")
    /\ \/ \E m \in Members :
            /\ Eligible(m)
            /\ \A k \in Members : Eligible(k) => m <= k
            /\ Goto(w, "enqueue")
            /\ msg' = [msg EXCEPT ![w] = m]
            /\ UNCHANGED <<copy, reason>>
       \/ /\ \A m \in Members : ~Eligible(m)
          /\ Return(w)
    /\ UNCHANGED <<now, outbound, people, queue, audit, sends>>

\* get_or_create under the unique key: the loser of the race is handed the
\* winner's message, in whatever state the winner has brought it to.
EnqueueInitialMessage(w) ==
    /\ At(w, "enqueue")
    /\ LET m == msg[w] IN
       \/ /\ status[m] = "NONE"
          /\ SetStatus(m, "PENDING")
          /\ scheduledAt' = [scheduledAt EXCEPT ![m] = now]
          /\ Record(m, "MESSAGE_QUEUED")
          /\ copy' = [copy EXCEPT ![w] = [Load(m) EXCEPT !.status = "PENDING"]]
          /\ UNCHANGED <<content, sentAt, retries>>
       \/ /\ status[m] # "NONE"
          /\ copy' = [copy EXCEPT ![w] = LoadBare(m)]
          /\ UNCHANGED <<queue, audit>>
    /\ Goto(w, "check")
    /\ UNCHANGED <<now, outbound, people, msg, reason, sends>>

\* The pause is not read again after the claim.
OutboundWhenClaimed(w) == outbound \/ At(w, "final")
OutboundNow(w) == outbound

\* evaluate_outbound reads SystemState first, on each of its three uses:
\* before generation, before the send claim, and after it. Line 94 picks the
\* first or the second by the status the worker's object holds.
ReadSystemState(w) ==
    /\ \/ At(w, "check") \/ At(w, "decide") \/ At(w, "final")
    /\ IF OutboundNow(w)
         THEN /\ Goto(w, CASE At(w, "final")  -> "final_policy"
                           [] At(w, "check") /\ copy[w].status = "PENDING" -> "check_policy"
                           [] OTHER -> "decide_policy")
              /\ UNCHANGED <<msg, copy, reason>>
         ELSE IF At(w, "final")
           THEN /\ Goto(w, "rollback")
                /\ reason' = [reason EXCEPT ![w] = "SYSTEM_PAUSED"]
                /\ UNCHANGED <<msg, copy>>
           ELSE Block(w, "SYSTEM_PAUSED")
    /\ UNCHANGED <<now, outbound, people, queue, audit, sends>>

CheckBeforeGeneration(w) ==
    /\ At(w, "check_policy")
    /\ LET why == EvaluateOutbound(msg[w], RowSeenBy(w), copy[w].content, FALSE) IN
       \/ /\ why = "PASS"
          /\ Goto(w, "claim_generation")
          /\ UNCHANGED <<msg, copy, reason>>
       \/ why # "PASS" /\ Block(w, why)
    /\ UNCHANGED <<now, outbound, people, queue, audit, sends>>

CheckBeforeClaim(w) ==
    /\ At(w, "decide_policy")
    /\ LET why == EvaluateOutbound(msg[w], RowSeenBy(w), copy[w].content, TRUE) IN
       \/ /\ why = "PASS"
          /\ Goto(w, "claim_send")
          /\ UNCHANGED <<msg, copy, reason>>
       \/ why # "PASS" /\ Block(w, why)
    /\ UNCHANGED <<now, outbound, people, queue, audit, sends>>

\* generate_pending_message: the compare-and-set claim.
GenerationClaimableTwice(g) == status[g] \in {"PENDING", "GENERATING"}
GenerationClaimable(g) == status[g] = "PENDING"

ClaimGeneration(w) ==
    /\ At(w, "claim_generation")
    /\ \/ /\ GenerationClaimable(msg[w])
          /\ SetStatus(msg[w], "GENERATING")
          /\ Goto(w, "generate")
          /\ UNCHANGED <<msg, copy, reason>>
       \/ /\ ~GenerationClaimable(msg[w])
          /\ Return(w)
          /\ UNCHANGED status
    /\ UNCHANGED <<now, outbound, people, content, scheduledAt, sentAt, retries, audit, sends>>

\* The agent answered, and its decision is applied in one transaction that
\* first checks that the message is still being generated.
ApplyDecision(w) ==
    /\ At(w, "generate")
    /\ status[msg[w]] = "GENERATING"
    /\ LET g == msg[w]
           m == MemberOf[g] IN
       \/ /\ SetStatus(g, "READY")
          /\ content' = [content EXCEPT ![g] = TRUE]
          /\ Record(g, "MESSAGE_GENERATED")
          /\ Goto(w, "reload")
          /\ UNCHANGED <<member, msg, copy, reason>>
       \/ \E text \in BOOLEAN :
            /\ "HUMAN_REVIEW" \in Answers
            /\ SetStatus(g, "REQUIRES_HUMAN")
            /\ content' = [content EXCEPT ![g] = text]
            /\ member' = [member EXCEPT ![m].human = TRUE]
            /\ Record(g, "HUMAN_ESCALATION")
            /\ Return(w)
       \/ \E text \in BOOLEAN :
            /\ "SKIP" \in Answers
            /\ SetStatus(g, "CANCELLED")
            /\ content' = [content EXCEPT ![g] = text]
            /\ member' = [member EXCEPT ![m].status = "SKIPPED"]
            /\ Record(g, "MESSAGE_BLOCKED")
            /\ Return(w)
    /\ UNCHANGED <<now, outbound, campaign, candidate, scheduledAt, sentAt, retries, sends>>

DecisionContended(w) ==
    /\ At(w, "generate")
    /\ status[msg[w]] # "GENERATING"
    /\ Return(w)
    /\ UNCHANGED <<now, outbound, people, queue, audit, sends>>

\* The agent raised, timed out or broke its contract: the write does not look
\* at the status the message has by then.
FailGeneration(w) ==
    /\ At(w, "generate")
    /\ "ERROR" \in Answers
    /\ SetStatus(msg[w], "FAILED")
    /\ Goto(w, "audit")
    /\ reason' = [reason EXCEPT ![w] = "AGENT_ERROR"]
    /\ UNCHANGED <<now, outbound, people, content, scheduledAt, sentAt, retries, audit, msg, copy, sends>>

\* process_next reads the generated message again before the second check.
ReloadGenerated(w) ==
    /\ At(w, "reload")
    /\ copy' = [copy EXCEPT ![w] = Load(msg[w])]
    /\ Goto(w, "decide")
    /\ UNCHANGED <<now, outbound, people, queue, audit, msg, reason, sends>>

\* The compare-and-set claim for sending.
SendClaimableAnyway(g) == status[g] # "SENT"
SendClaimable(g) == status[g] = "READY"

ClaimSend(w) ==
    /\ At(w, "claim_send")
    /\ \/ /\ SendClaimable(msg[w])
          /\ SetStatus(msg[w], "SENDING")
          /\ Goto(w, "final")
          /\ UNCHANGED <<msg, copy, reason>>
       \/ /\ ~SendClaimable(msg[w])
          /\ Return(w)
          /\ UNCHANGED status
    /\ UNCHANGED <<now, outbound, people, content, scheduledAt, sentAt, retries, audit, sends>>

\* refresh_from_db drops the cached related rows, so the last check reads the
\* database, and its object keeps the rows it read.
RowKept(w) == copy[w].row
RowRefreshed(w) == Row(msg[w])

FinalCheck(w) ==
    /\ At(w, "final_policy")
    /\ copy' = [copy EXCEPT ![w] = [Load(msg[w]) EXCEPT !.row = RowRefreshed(w)]]
    /\ LET why == EvaluateOutbound(msg[w], RowRefreshed(w), content[msg[w]], TRUE) IN
       \/ /\ why = "PASS"
          /\ Goto(w, "approve")
          /\ UNCHANGED reason
       \/ /\ why # "PASS"
          /\ Goto(w, "rollback")
          /\ reason' = [reason EXCEPT ![w] = why]
    /\ UNCHANGED <<now, outbound, people, queue, audit, msg, sends>>

\* A refused claim is put back before the block is recorded.
RollbackForgotten(w) ==
    /\ At(w, "rollback")
    /\ Goto(w, "block")
    /\ UNCHANGED <<now, outbound, people, queue, audit, msg, copy, reason, sends>>
Rollback(w) ==
    /\ At(w, "rollback")
    /\ SetStatus(msg[w], "READY")
    /\ Goto(w, "block")
    /\ UNCHANGED <<now, outbound, people, content, scheduledAt, sentAt, retries,
                   audit, msg, copy, reason, sends>>

\* _record_block: what is written depends on the reason alone.
NotDeferred == now
Deferred == now + DEFER

BlockEventByReason(w) == reason[w]
BlockEvent(w) == "MESSAGE_BLOCKED"

RecordBlock(w) ==
    /\ At(w, "block")
    /\ \/ /\ reason[w] \in PermanentBlocks
          /\ SetStatus(msg[w], "CANCELLED")
          /\ UNCHANGED scheduledAt
       \/ /\ reason[w] = "REQUIRES_HUMAN"
          /\ SetStatus(msg[w], "REQUIRES_HUMAN")
          /\ UNCHANGED scheduledAt
       \/ /\ reason[w] \in DeferredBlocks
          /\ scheduledAt' = [scheduledAt EXCEPT ![msg[w]] = Deferred]
          /\ UNCHANGED status
       \/ /\ reason[w] = "SYSTEM_PAUSED"
          /\ UNCHANGED <<status, scheduledAt>>
    /\ Goto(w, "audit")
    /\ reason' = [reason EXCEPT ![w] = BlockEvent(w)]
    /\ UNCHANGED <<now, outbound, people, content, sentAt, retries, audit, msg, copy, sends>>

\* The audit row of a block or a failure is a statement of its own.
WriteAudit(w) ==
    /\ At(w, "audit")
    /\ Record(msg[w], reason[w])
    /\ Return(w)
    /\ UNCHANGED <<now, outbound, people, queue, sends>>

\* get_sender() and the approval's audit row.
Approve(w) ==
    /\ At(w, "approve")
    /\ Record(msg[w], "MESSAGE_APPROVED")
    /\ Goto(w, "send")
    /\ UNCHANGED <<now, outbound, people, queue, msg, copy, reason, sends>>

\* get_sender() raises outside the try block (MESSAGE_SENDER_BACKEND cannot be
\* imported or built): the exception leaves process_next and ends the process.
SenderNotLoaded(w) ==
    /\ At(w, "approve")
    /\ "NO_SENDER" \in Answers
    /\ Return(w)
    /\ UNCHANGED <<now, outbound, people, queue, audit, sends>>

\* sender.send: it confirms, or it fails or raises (which does not tell
\* whether the provider has delivered the message). sent_at is read when the
\* sender returns, before the transaction that stores it.
Send(w) ==
    /\ At(w, "send")
    /\ sends' = [sends EXCEPT ![msg[w]] = @ + 1]
    /\ \/ /\ Goto(w, "commit_sent")
          /\ copy' = [copy EXCEPT ![w].stamp = now]
       \/ /\ "REFUSED" \in Answers
          /\ Goto(w, "commit_failed")
          /\ UNCHANGED copy
    /\ UNCHANGED <<now, outbound, people, queue, audit, msg, reason>>

CommitFailed(w) ==
    /\ At(w, "commit_failed")
    /\ SetStatus(msg[w], "FAILED")
    /\ retries' = [retries EXCEPT ![msg[w]] = @ + 1]
    /\ Goto(w, "audit")
    /\ reason' = [reason EXCEPT ![w] = "MESSAGE_FAILED"]
    /\ UNCHANGED <<now, outbound, people, content, scheduledAt, sentAt, audit, msg, copy, sends>>

\* One transaction over the message, the member, the candidate and the audit
\* row; the candidate moves only if it was READY when checked and still is.
WasReady(w, k) == copy[w].row.candidate.status = "READY"
StillReady(w, k) ==
    copy[w].row.candidate.status = "READY" /\ candidate[k].status = "READY"

FirstContact(r, stamp) == IF r.first = Never THEN stamp ELSE r.first
Contacted(r, stamp) ==
    [r EXCEPT !.status = "CONTACTED", !.sent = r.sent + 1,
              !.first = FirstContact(r, stamp), !.last = stamp]

CommitSent(w) ==
    /\ At(w, "commit_sent")
    /\ LET g == msg[w]
           m == MemberOf[g]
           k == CandidateOf[m]
           stamp == copy[w].stamp IN
       /\ FirstContact(member[m], stamp) <= stamp
       /\ SetStatus(g, "SENT")
       /\ sentAt' = [sentAt EXCEPT ![g] = stamp]
       /\ member' = [member EXCEPT ![m] = Contacted(@, stamp)]
       /\ candidate' = IF StillReady(w, k)
                         THEN [candidate EXCEPT ![k].status = "CONTACTED"]
                         ELSE candidate
       /\ Record(g, "MESSAGE_SENT")
    /\ Return(w)
    /\ UNCHANGED <<now, outbound, campaign, content, scheduledAt, retries, sends>>

\* The constraint campaign_member_contact_dates_in_order refuses the member:
\* another worker has stored a later first contact. The transaction rolls back,
\* and the IntegrityError ends the process.
CommitRefused(w) ==
    /\ At(w, "commit_sent")
    /\ FirstContact(member[MemberOf[msg[w]]], copy[w].stamp) > copy[w].stamp
    /\ Return(w)
    /\ UNCHANGED <<now, outbound, people, queue, audit, sends>>

WorkerStep(w) ==
    \/ Begin(w) \/ NextDueMessage(w) \/ EnqueueNextEligible(w) \/ EnqueueInitialMessage(w)
    \/ ReadSystemState(w) \/ CheckBeforeGeneration(w) \/ CheckBeforeClaim(w)
    \/ ClaimGeneration(w) \/ ApplyDecision(w) \/ DecisionContended(w) \/ FailGeneration(w)
    \/ ReloadGenerated(w) \/ ClaimSend(w) \/ FinalCheck(w) \/ Rollback(w) \/ RecordBlock(w)
    \/ WriteAudit(w) \/ Approve(w) \/ SenderNotLoaded(w) \/ Send(w)
    \/ CommitFailed(w) \/ CommitSent(w) \/ CommitRefused(w)

\* The process is killed, or a database error it does not catch ends it; an
\* operator may start it again. What it had claimed stays claimed.
Crash(w) ==
    /\ w \in Crashable
    /\ ~At(w, "idle")
    /\ Return(w)
    /\ UNCHANGED <<now, outbound, people, queue, audit, sends>>

----------------------------------------------------------------------------
(* Operators, and the clock. *)

SetOutboundEnabled ==
    /\ "outbound" \in Operations
    /\ outbound' = ~outbound
    /\ UNCHANGED <<now, people, queue, audit, job, sends>>

ActivateCampaigns(c) ==
    /\ "campaign" \in Operations
    /\ campaign[c] # "ACTIVE"
    /\ campaign' = [campaign EXCEPT ![c] = "ACTIVE"]
    /\ UNCHANGED <<now, outbound, candidate, member, queue, audit, job, sends>>

PauseCampaigns(c) ==
    /\ "campaign" \in Operations
    /\ campaign[c] # "PAUSED"
    /\ campaign' = [campaign EXCEPT ![c] = "PAUSED"]
    /\ UNCHANGED <<now, outbound, candidate, member, queue, audit, job, sends>>

\* apply_opt_out on a text that detects_opt_out recognises.
ApplyOptOut(k) ==
    /\ "opt_out" \in Operations
    /\ candidate' = [candidate EXCEPT ![k] =
                        Saved([@ EXCEPT !.dnc = TRUE, !.status = "DO_NOT_CONTACT"])]
    /\ UNCHANGED <<now, outbound, campaign, member, queue, audit, job, sends>>

EditCandidate(k) ==
    /\ \E c \in CandidateEdits : candidate' = [candidate EXCEPT ![k] = Saved(c)]
    /\ UNCHANGED <<now, outbound, campaign, member, queue, audit, job, sends>>

\* Only created_at and updated_at are read-only on the CampaignMember form.
CountsOf(r) == [sent |-> r.sent, first |-> r.first, last |-> r.last]
Edited(r, e, c) == [r EXCEPT !.status = e.status, !.human = e.human,
                             !.sent = c.sent, !.first = c.first, !.last = c.last]

EditMember(m) ==
    /\ \E e \in MemberEdits, c \in CountEdits \union {CountsOf(member[m])} :
         member' = [member EXCEPT ![m] = Edited(@, e, c)]
    /\ UNCHANGED <<now, outbound, campaign, candidate, queue, audit, job, sends>>

\* The Message form lets an operator choose any status, text and schedule;
\* sent_at is read-only.
EntryOf(g) == [content |-> content[g], scheduledAt |-> scheduledAt[g]]
Enter(g, e) ==
    /\ content' = [content EXCEPT ![g] = e.content]
    /\ scheduledAt' = [scheduledAt EXCEPT ![g] = e.scheduledAt]

EditMessage(g) ==
    /\ status[g] # "NONE"
    /\ \/ /\ sends[g] < MaxSends
          /\ \E s \in AdminStatuses, e \in Entries \union {EntryOf(g)} : SetStatus(g, s) /\ Enter(g, e)
       \/ \E e \in Entries : Enter(g, e) /\ UNCHANGED status
    /\ UNCHANGED <<now, outbound, people, sentAt, retries, audit, job, sends>>

AddMessage(g) ==
    /\ status[g] = "NONE"
    /\ \E s \in AddedStatuses, e \in Entries : SetStatus(g, s) /\ Enter(g, e)
    /\ UNCHANGED <<now, outbound, people, sentAt, retries, audit, job, sends>>

Tick ==
    /\ now < MaxTime
    /\ now' = now + 1
    /\ UNCHANGED <<outbound, people, queue, audit, job, sends>>

OperatorStep ==
    \/ SetOutboundEnabled
    \/ \E c \in Campaigns : ActivateCampaigns(c) \/ PauseCampaigns(c)
    \/ \E k \in Candidates : ApplyOptOut(k) \/ EditCandidate(k)
    \/ \E m \in Members : EditMember(m)
    \/ \E g \in Messages : EditMessage(g)
    \/ \E g \in Manual : AddMessage(g)

Next ==
    \/ \E w \in Workers : WorkerStep(w) \/ Crash(w)
    \/ OperatorStep
    \/ Tick

Spec == Init /\ [][Next]_vars

\* A worker that is running keeps running: the command loops, database calls
\* return, and agent and sender calls end with an answer or a timeout.
FairSpec == Spec /\ \A w \in Workers : WF_vars(WorkerStep(w))

----------------------------------------------------------------------------
(* What must hold. *)

Generating(w, g) == msg[w] = g /\ pc[w] = "generate"
Sending(w, g) ==
    msg[w] = g /\ pc[w] \in {"final", "final_policy", "rollback", "approve", "send",
                             "commit_sent", "commit_failed"}
InHand(w, g) == Generating(w, g) \/ Sending(w, g)

\* The worker holds the message and will still send it, or give it back.
BeforeSend(w, g) ==
    \/ Generating(w, g)
    \/ msg[w] = g /\ pc[w] \in {"final", "final_policy", "rollback", "approve", "send"}

\* The statuses from which a message can be enqueued or claimed.
Offered == {"NONE", "PENDING", "READY"}

Stages == {"idle", "select", "pick", "enqueue", "check", "check_policy", "decide",
           "decide_policy", "claim_generation", "generate", "reload", "claim_send", "final",
           "final_policy", "rollback", "block", "approve", "send", "commit_sent",
           "commit_failed", "audit"}

\* Every variable has its type, and a worker past the selection has a message:
\* in particular the audit holds event types, never a bare policy reason.
TypeOK ==
    /\ now \in 0 .. MaxTime
    /\ outbound \in BOOLEAN
    /\ campaign \in [Campaigns -> CampaignStatus]
    /\ candidate \in [Candidates -> Candidate]
    /\ member \in [Members -> Member]
    /\ status \in [Messages -> MessageStatus \union {"NONE"}]
    /\ content \in [Messages -> BOOLEAN]
    /\ scheduledAt \in [Messages -> Nat]
    /\ sentAt \in [Messages -> Nat \union {Never}]
    /\ retries \in [Messages -> Nat]
    /\ audit \in [Messages -> SUBSET AuditEvents]
    /\ pc \in [Workers -> Stages]
    /\ msg \in [Workers -> Messages \union {NoMessage}]
    /\ \A w \in Workers : msg[w] = NoMessage <=> pc[w] \in {"idle", "select", "pick"}
    /\ copy \in [Workers -> Copies]
    /\ reason \in [Workers -> PolicyReasons \union AuditEvents \union {"NONE"}]
    /\ \A w \in Workers : /\ pc[w] \in {"rollback", "block"} => reason[w] \in PolicyReasons
                          /\ pc[w] = "audit" => reason[w] \in AuditEvents
    /\ sends \in [Messages -> Nat]

\* No operator makes a message sendable again by hand.
NoManualRetry == AdminStatuses \intersect {"PENDING", "GENERATING", "READY"} = {}

\* No operator changes a member's count of sent messages or its contact dates.
NoManualCounts == CountEdits = {}

\* However workers interleave, lose the enqueue race, crash and start again,
\* no message is handed to the sender twice, as long as no operator makes an
\* already handled message sendable again.
AtMostOnceSend ==
    NoManualRetry =>
        \A g \in Messages : sends[g] <= 1

\* The two compare-and-set claims give a message one generating worker and one
\* sending worker, and never both at once.
ExclusiveClaim ==
    NoManualRetry =>
        \A g \in Messages, v, w \in Workers :
            (Generating(v, g) \/ Sending(v, g)) /\ (Generating(w, g) \/ Sending(w, g)) => v = w

\* A recorded opt-out shows in the candidate's status whatever a worker that
\* was sending to the candidate at that moment writes back (the do_not_contact
\* flag and the status are updated by different code paths).
DncForcesStatus ==
    \A k \in Candidates : candidate[k].dnc => candidate[k].status = "DO_NOT_CONTACT"

\* What leaves the system was queued, generated by the agent and approved by
\* the policy, each of them on record, and was not handed to a human.
OnlyGeneratedIsSent ==
    NoManualRetry =>
        \A g \in Members : sends[g] > 0 =>
            /\ {"MESSAGE_QUEUED", "MESSAGE_GENERATED", "MESSAGE_APPROVED"} \subseteq audit[g]
            /\ "HUMAN_ESCALATION" \notin audit[g]

\* A member's messages_sent is the number of its messages with a MESSAGE_SENT
\* event: one commit per message, and none lost, even with racing workers that
\* write the member at the same time. (The status column may say otherwise
\* afterwards: see SentIsFinal.)
CountsMatchConfirmations ==
    NoManualRetry /\ NoManualCounts =>
        \A m \in Members :
            member[m].sent = Cardinality({g \in Messages : /\ MemberOf[g] = m
                                                           /\ "MESSAGE_SENT" \in audit[g]})

Sent(c, from, to) == {g \in Messages : /\ CampaignOfMsg(g) = c
                                       /\ status[g] \in SentStatuses
                                       /\ sentAt[g] \in from .. to}

\* In no hour does a campaign exceed its hourly limit by more than the messages
\* the other workers had in flight: a check does not see them.
HourlyBound ==
    \A c \in Campaigns, t \in 0 .. MaxTime :
        Cardinality(Sent(c, t, t + HOUR)) <= HourlyLimit[c] + Cardinality(Workers) - 1

\* The same for a calendar day.
DailyBound ==
    \A c \in Campaigns, d \in 0 .. MaxTime \div DAY :
        Cardinality(Sent(c, d * DAY, d * DAY + DAY - 1)) <= DailyLimit[c] + Cardinality(Workers) - 1

\* Within one interval a member receives at most one message per worker.
IntervalBound ==
    \A m \in Members, t \in 0 .. MaxTime :
        Cardinality({g \in Sent(CampaignOf[m], t, t + MinInterval[CampaignOf[m]] - 1) :
                        MemberOf[g] = m}) <= Cardinality(Workers)

\* A worker that stopped at a message has left a record of it, or is about to.
StopsAreAudited ==
    \A g \in Messages :
        status[g] \in {"CANCELLED", "REQUIRES_HUMAN", "FAILED"} =>
            \/ audit[g] \intersect {"MESSAGE_BLOCKED", "HUMAN_ESCALATION",
                                    "AGENT_ERROR", "MESSAGE_FAILED"} # {}
            \/ \E w \in Workers : msg[w] = g /\ pc[w] = "audit"

\* A message that is being generated or sent does not stay so: every way out
\* of generate_pending_message and process_next writes another status.
InFlightResolves ==
    \A g \in Messages : status[g] \in {"GENERATING", "SENDING"}
                            ~> status[g] \notin {"GENERATING", "SENDING"}

\* The safety half of it: whatever claims, blind writes and rollbacks workers
\* interleave, a message in flight has a worker that is generating or sending it.
InFlightIsHeld ==
    \A g \in Messages :
        /\ status[g] = "GENERATING" => \E w \in Workers : Generating(w, g)
        /\ status[g] = "SENDING" => \E w \in Workers : Sending(w, g)

\* A confirmed send can be recorded: its time, read before the transaction that
\* stores it, is not before the first contact its member has by then.
ConfirmationsFit ==
    \A w \in Workers : pc[w] = "commit_sent" =>
        FirstContact(member[MemberOf[msg[w]]], copy[w].stamp) <= copy[w].stamp

\* The workers that have passed the last look at SystemState.
PastThePause == {w \in Workers : pc[w] \in {"final_policy", "approve", "send"}}

\* While outbound messaging is paused no worker gets past the last look at
\* SystemState, and a worker that had got past it sends what it has in hand and
\* no more: a pause is followed by at most one send per worker.  It is not the
\* "stop outbound processing immediately" of README.md: between the last look
\* (evaluate_outbound in the final check) and sender.send a pause goes unseen.
PauseDrains ==
    [][~outbound /\ ~outbound' =>
          /\ PastThePause' \subseteq PastThePause
          /\ \A g \in Messages : sends'[g] # sends[g] =>
                \E w \in PastThePause \ PastThePause' : msg[w] = g]_vars

\* A due message is taken up, however many others are deferred before it,
\* unless outbound messaging is paused.
DueIsHandled ==
    \A g \in Messages : g \in Due ~> (g \notin Due \/ ~outbound)

----------------------------------------------------------------------------
(* What the repository says and the code does not keep. *)

\* ALLOWED_TRANSITIONS (messaging/models.py): from SENT a message can only
\* become DELIVERED.
SentIsFinal ==
    [][\A g \in Messages : status[g] = "SENT" => status'[g] \in SentStatuses]_vars

\* "Sender confirmation updates message, member, candidate, and audit history
\* in a transaction" (docs/architecture.md): no worker crashes here, and still a
\* confirmed send must end up recorded.
ConfirmedIsRecorded ==
    \A w \in Workers, g \in Messages :
        pc[w] = "commit_sent" /\ msg[w] = g ~> "MESSAGE_SENT" \in audit[g]

\* "One candidate can participate independently in multiple campaigns": a
\* member of an active campaign is given a message, whatever other campaigns
\* do with its candidate.
CampaignsAreIndependent ==
    \A m \in Members : campaign[CampaignOf[m]] = "ACTIVE" ~> status[m] # "NONE"
=============================================================================
