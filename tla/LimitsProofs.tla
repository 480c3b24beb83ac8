---------------------------- MODULE LimitsProofs ----------------------------
(***************************************************************************)
(* Proofs that the rate limits and the interval of Outreach are exceeded   *)
(* by no more than what the workers have in flight, for any number of      *)
(* workers and messages, any limits, and windows of any place.             *)
(***************************************************************************)
EXTENDS OutreachProofs, FiniteSetTheorems

\* Rows and processes are finite, and operators do not set sent statuses by hand
\* or add messages that have one.
OnlyWorkersSend ==
    /\ IsFiniteSet(Workers)
    /\ IsFiniteSet(Messages)
    /\ (AdminStatuses \union AddedStatuses) \intersect SentStatuses = {}

----------------------------------------------------------------------------
(* What counts towards a window: the messages sent in it, and those of the   *)
(* workers that have passed their last check and may still be sent in it.    *)

SentIn(g, from, to) == status[g] \in SentStatuses /\ sentAt[g] \in from .. to

InFlight(w, to) ==
    \/ pc[w] \in {"approve", "send"} /\ now <= to
    \/ pc[w] = "commit_sent" /\ copy[w].stamp <= to

Counts(g, from, to) == SentIn(g, from, to) \/ \E w \in Workers : msg[w] = g /\ InFlight(w, to)

Counted(K, from, to) == {g \in K : Counts(g, from, to)}

\* The worker passes its last check with message g.
Passes(w, g) == FinalCheck(w) /\ pc'[w] = "approve" /\ msg[w] = g

----------------------------------------------------------------------------
(* Only a passed check adds a message to what counts. *)

\* A worker's step by which nothing is sent and no worker comes into flight.
LEMMA GroundedSteps ==
    ASSUME TypeOK, NEW w \in Workers, NEW g \in Messages, NEW from \in Int, NEW to \in Int,
           \/ Begin(w) \/ NextDueMessage(w) \/ EnqueueNextEligible(w) \/ EnqueueInitialMessage(w)
           \/ ReadSystemState(w) \/ CheckBeforeGeneration(w) \/ CheckBeforeClaim(w)
           \/ ClaimGeneration(w) \/ ApplyDecision(w) \/ DecisionContended(w) \/ FailGeneration(w)
           \/ ReloadGenerated(w) \/ ClaimSend(w) \/ Rollback(w) \/ RecordBlock(w)
           \/ WriteAudit(w) \/ SenderNotLoaded(w) \/ CommitFailed(w) \/ CommitRefused(w)
           \/ Crash(w),
           Counts(g, from, to)'
    PROVE  Counts(g, from, to)
  <1>. USE DEF At, Goto, SetStatus, queue, job
  <1>1. sentAt' = sentAt /\ now' = now
    BY DEF Begin, NextDueMessage, EnqueueNextEligible, EnqueueInitialMessage, ReadSystemState,
           CheckBeforeGeneration, CheckBeforeClaim, ClaimGeneration, ApplyDecision,
           DecisionContended, FailGeneration, ReloadGenerated, ClaimSend, Rollback,
           RecordBlock, WriteAudit, SenderNotLoaded, CommitFailed, CommitRefused, Crash
  <1>2. status'[g] \in SentStatuses => status[g] \in SentStatuses
    BY DEF TypeOK, SentStatuses,
           Begin, NextDueMessage, EnqueueNextEligible, EnqueueInitialMessage, ReadSystemState,
           CheckBeforeGeneration, CheckBeforeClaim, ClaimGeneration, ApplyDecision,
           DecisionContended, FailGeneration, ReloadGenerated, ClaimSend, Rollback,
           RecordBlock, WriteAudit, SenderNotLoaded, CommitFailed, CommitRefused, Crash
  <1>3. /\ \A v \in Workers \ {w} : pc'[v] = pc[v] /\ msg'[v] = msg[v] /\ copy'[v] = copy[v]
        /\ pc'[w] \notin {"approve", "send", "commit_sent"}
    <2>1. CASE \/ Begin(w) \/ NextDueMessage(w) \/ EnqueueNextEligible(w)
               \/ EnqueueInitialMessage(w)
      BY <2>1 DEF TypeOK, Return, Block, Begin, NextDueMessage, EnqueueNextEligible,
                  EnqueueInitialMessage
    <2>2. CASE ReadSystemState(w) \/ CheckBeforeGeneration(w) \/ CheckBeforeClaim(w)
      BY <2>2 DEF TypeOK, Return, Block, ReadSystemState, CheckBeforeGeneration, CheckBeforeClaim
    <2>3. CASE \/ ClaimGeneration(w) \/ ApplyDecision(w) \/ DecisionContended(w)
               \/ FailGeneration(w) \/ ReloadGenerated(w) \/ ClaimSend(w)
      BY <2>3 DEF TypeOK, Return, ClaimGeneration, ApplyDecision, DecisionContended,
                  FailGeneration, ReloadGenerated, ClaimSend
    <2>4. CASE \/ Rollback(w) \/ RecordBlock(w) \/ WriteAudit(w) \/ SenderNotLoaded(w)
               \/ CommitFailed(w) \/ CommitRefused(w) \/ Crash(w)
      BY <2>4 DEF TypeOK, Return, Rollback, RecordBlock, WriteAudit, SenderNotLoaded,
                  CommitFailed, CommitRefused, Crash
    <2>. QED
      BY <2>1, <2>2, <2>3, <2>4
  <1>. QED
    BY <1>1, <1>2, <1>3 DEF Counts, SentIn, InFlight

\* The way of a message from the approval to its confirmation keeps it counted.
LEMMA FlightSteps ==
    ASSUME TypeOK, NEW w \in Workers, NEW g \in Messages, NEW from \in Int, NEW to \in Int,
           Approve(w) \/ Send(w) \/ CommitSent(w),
           Counts(g, from, to)'
    PROVE  Counts(g, from, to)
  <1>. USE DEF At, Goto, SetStatus, queue, job
  <1>1. CASE Approve(w)
    <2>1. /\ status' = status /\ sentAt' = sentAt /\ now' = now /\ msg' = msg /\ copy' = copy
          /\ pc[w] = "approve" /\ pc' = [pc EXCEPT ![w] = "send"]
      BY <1>1 DEF Approve
    <2>. QED
      BY <2>1 DEF TypeOK, Counts, SentIn, InFlight
  <1>2. CASE Send(w)
    <2>1. /\ status' = status /\ sentAt' = sentAt /\ now' = now /\ msg' = msg
          /\ pc[w] = "send"
          /\ \A v \in Workers \ {w} : pc'[v] = pc[v] /\ copy'[v] = copy[v]
          /\ \/ pc'[w] = "commit_sent" /\ copy'[w].stamp = now
             \/ pc'[w] = "commit_failed"
      BY <1>2 DEF Send, TypeOK, Copies
    <2>. QED
      BY <2>1 DEF TypeOK, Counts, SentIn, InFlight
  <1>3. CASE CommitSent(w)
    <2>1. /\ status' = [status EXCEPT ![msg[w]] = "SENT"]
          /\ sentAt' = [sentAt EXCEPT ![msg[w]] = copy[w].stamp]
          /\ now' = now /\ pc[w] = "commit_sent"
          /\ pc' = [pc EXCEPT ![w] = "idle"]
          /\ \A v \in Workers \ {w} : msg'[v] = msg[v] /\ copy'[v] = copy[v]
      BY <1>3 DEF CommitSent, Return, TypeOK
    <2>2. CASE g = msg[w] /\ SentIn(g, from, to)'
      <3>1. copy[w].stamp \in from .. to
        BY <2>1, <2>2 DEF SentIn, TypeOK
      <3>. QED
        BY <2>1, <2>2, <3>1 DEF Counts, InFlight
    <2>3. CASE g # msg[w] /\ SentIn(g, from, to)'
      BY <2>1, <2>3 DEF SentIn, Counts, TypeOK
    <2>4. CASE \E v \in Workers : msg'[v] = g /\ InFlight(v, to)'
      BY <2>1, <2>4 DEF TypeOK, Counts, InFlight
    <2>. QED
      BY <2>2, <2>3, <2>4 DEF Counts
  <1>. QED
    BY <1>1, <1>2, <1>3

LEMMA CheckSteps ==
    ASSUME TypeOK, NEW w \in Workers, NEW g \in Messages, NEW from \in Int, NEW to \in Int,
           FinalCheck(w),
           Counts(g, from, to)'
    PROVE  Counts(g, from, to) \/ (Passes(w, g) /\ now <= to)
  <1>1. /\ status' = status /\ sentAt' = sentAt /\ now' = now /\ msg' = msg
        /\ \A v \in Workers \ {w} : pc'[v] = pc[v] /\ copy'[v] = copy[v]
        /\ pc'[w] \in {"approve", "rollback"}
    BY DEF FinalCheck, Goto, queue, TypeOK
  <1>. QED
    BY <1>1 DEF Counts, SentIn, InFlight, Passes

\* Operators and the clock.
LEMMA OutsideSteps ==
    ASSUME TypeOK, OnlyWorkersSend, NEW g \in Messages, NEW from \in Int, NEW to \in Int,
           OperatorStep \/ Tick \/ UNCHANGED vars,
           Counts(g, from, to)'
    PROVE  Counts(g, from, to)
  <1>1. /\ pc' = pc /\ msg' = msg /\ copy' = copy /\ sentAt' = sentAt
        /\ now' = now \/ now' = now + 1
    BY DEF OperatorStep, Tick, SetOutboundEnabled, ActivateCampaigns, PauseCampaigns, ApplyOptOut,
           EditCandidate, EditMember, EditMessage, AddMessage, job, queue, vars
  <1>2. status'[g] \in SentStatuses => status[g] \in SentStatuses
    <2>1. ASSUME NEW h \in Messages, EditMessage(h)
          PROVE  status'[g] \in SentStatuses => status[g] \in SentStatuses
      BY <2>1, EditedMessages DEF TypeOK, OnlyWorkersSend
    <2>2. ASSUME NEW h \in Manual, AddMessage(h)
          PROVE  status'[g] \in SentStatuses => status[g] \in SentStatuses
      BY <2>2, AddedMessages DEF TypeOK, OnlyWorkersSend
    <2>3. CASE status' = status
      BY <2>3
    <2>. QED
      BY <2>1, <2>2, <2>3
         DEF OperatorStep, Tick, SetOutboundEnabled, ActivateCampaigns, PauseCampaigns,
             ApplyOptOut, EditCandidate, EditMember, queue, vars
  <1>3. now \in Int
    BY DEF TypeOK
  <1>. QED
    BY <1>1, <1>2, <1>3 DEF Counts, SentIn, InFlight

\* In any step, what counts counted before, or it is the message with which a
\* worker passes its last check.
LEMMA CountsSteps ==
    ASSUME TypeOK, OnlyWorkersSend, [Next]_vars,
           NEW g \in Messages, NEW from \in Int, NEW to \in Int, Counts(g, from, to)'
    PROVE  Counts(g, from, to) \/ \E w \in Workers : Passes(w, g) /\ now <= to
  BY GroundedSteps, FlightSteps, CheckSteps, OutsideSteps DEF Next, WorkerStep

----------------------------------------------------------------------------
(* How much counts. *)

\* The workers hold at most as many messages as there are workers.
LEMMA HandsBound ==
    ASSUME TypeOK, OnlyWorkersSend
    PROVE  /\ IsFiniteSet({msg[w] : w \in Workers})
           /\ Cardinality({msg[w] : w \in Workers}) <= Cardinality(Workers)
           /\ Cardinality({msg[w] : w \in Workers}) \in Nat
  <1>. DEFINE Hands == {msg[w] : w \in Workers}
  <1>1. msg \in Surjection(Workers, Hands)
    BY DEF TypeOK, Surjection
  <1>. HIDE DEF Hands
  <1>2. IsFiniteSet(Workers)
    BY DEF OnlyWorkersSend
  <1>3. IsFiniteSet(Hands) /\ Cardinality(Hands) <= Cardinality(Workers)
    BY <1>1, <1>2, FS_Surjection
  <1>4. Cardinality(Hands) \in Nat
    BY <1>3, FS_CardinalityType
  <1>. QED
    BY <1>3, <1>4 DEF Hands

LEMMA FiniteCounts ==
    ASSUME OnlyWorkersSend, NEW S \in SUBSET Messages
    PROVE  IsFiniteSet(S) /\ Cardinality(S) \in Nat
  BY FS_Subset, FS_CardinalityType DEF OnlyWorkersSend

LEMMA UnionBound ==
    ASSUME NEW S, NEW T, IsFiniteSet(S), IsFiniteSet(T)
    PROVE  /\ IsFiniteSet(S \union T)
           /\ Cardinality(S \union T) <= Cardinality(S) + Cardinality(T)
  <1>1. /\ IsFiniteSet(S \union T)
        /\ Cardinality(S \union T) = Cardinality(S) + Cardinality(T) - Cardinality(S \intersect T)
    BY FS_Union
  <1>2. IsFiniteSet(S \intersect T)
    BY FS_Subset
  <1>3. /\ Cardinality(S) \in Nat /\ Cardinality(T) \in Nat
        /\ Cardinality(S \intersect T) \in Nat
    BY <1>2, FS_CardinalityType
  <1>. QED
    BY <1>1, <1>3

\* One window over the messages of K.  When a worker passes its last check, the
\* others that count are sent, and bounded by the check, or held by workers.
LEMMA WindowStep ==
    ASSUME TypeOK, OnlyWorkersSend, [Next]_vars,
           NEW K \in SUBSET Messages, NEW from \in Int, NEW to \in Int, NEW n \in Nat,
           Cardinality(Counted(K, from, to)) <= n + Cardinality(Workers),
           \A w \in Workers, g \in K : Passes(w, g) /\ now <= to
               => Cardinality({h \in K \ {g} : SentIn(h, from, to)}) <= n
    PROVE  Cardinality(Counted(K, from, to)') <= n + Cardinality(Workers)
  <1>. DEFINE Hands == {msg[w] : w \in Workers}
  <1>0. Cardinality(Workers) \in Nat
    BY FS_CardinalityType DEF OnlyWorkersSend
  <1>1. CASE \E w \in Workers, g \in K : Passes(w, g) /\ now <= to
    <2>1. PICK w \in Workers, g \in K : Passes(w, g) /\ now <= to
      BY <1>1
    <2>. DEFINE Others == {h \in K \ {g} : SentIn(h, from, to)}
    <2>2. IsFiniteSet(Others) /\ Cardinality(Others) \in Nat /\ Cardinality(Others) <= n
      <3>1. Others \in SUBSET Messages
        OBVIOUS
      <3>2. Cardinality(Others) <= n
        BY <2>1
      <3>. HIDE DEF Others
      <3>. QED
        BY <3>1, <3>2, FiniteCounts
    <2>3. /\ IsFiniteSet(Hands) /\ Cardinality(Hands) \in Nat
          /\ Cardinality(Hands) <= Cardinality(Workers)
      BY HandsBound
    <2>4. Counted(K, from, to)' \in SUBSET (Others \union Hands)
      <3>. SUFFICES ASSUME NEW h \in K, Counts(h, from, to)' PROVE h \in Others \union Hands
        BY DEF Counted
      <3>1. Counts(h, from, to) \/ \E v \in Workers : Passes(v, h) /\ now <= to
        BY CountsSteps
      <3>2. h \in Hands \/ SentIn(h, from, to)
        BY <3>1 DEF Counts, Passes
      <3>3. g \in Hands
        BY <2>1 DEF Passes
      <3>. QED
        BY <3>2, <3>3
    <2>. HIDE DEF Others, Hands
    <2>5. /\ IsFiniteSet(Others \union Hands)
          /\ Cardinality(Others \union Hands) <= Cardinality(Others) + Cardinality(Hands)
      BY <2>2, <2>3, UnionBound
    <2>6. /\ Cardinality(Counted(K, from, to)') <= Cardinality(Others \union Hands)
          /\ IsFiniteSet(Counted(K, from, to)')
      BY <2>4, <2>5, FS_Subset
    <2>7. /\ Cardinality(Counted(K, from, to)') \in Nat
          /\ Cardinality(Others \union Hands) \in Nat
      BY <2>5, <2>6, FS_CardinalityType
    <2>. QED
      BY <1>0, <2>2, <2>3, <2>5, <2>6, <2>7
  <1>2. CASE ~\E w \in Workers, g \in K : Passes(w, g) /\ now <= to
    <2>1. Counted(K, from, to)' \in SUBSET Counted(K, from, to)
      BY <1>2, CountsSteps DEF Counted
    <2>2. IsFiniteSet(Counted(K, from, to)) /\ Cardinality(Counted(K, from, to)) \in Nat
      BY FiniteCounts DEF Counted
    <2>3. /\ Cardinality(Counted(K, from, to)') <= Cardinality(Counted(K, from, to))
          /\ IsFiniteSet(Counted(K, from, to)')
      BY <2>1, <2>2, FS_Subset
    <2>4. Cardinality(Counted(K, from, to)') \in Nat
      BY <2>3, FS_CardinalityType
    <2>. QED
      BY <1>0, <2>2, <2>3, <2>4
  <1>. QED
    BY <1>1, <1>2

\* Nothing counts in the beginning.
LEMMA NothingCounts ==
    ASSUME Init, OnlyWorkersSend, NEW K \in SUBSET Messages, NEW from, NEW to, NEW n \in Nat
    PROVE  Cardinality(Counted(K, from, to)) <= n + Cardinality(Workers)
  <1>1. Counted(K, from, to) = {}
    BY DEF Init, Counted, Counts, SentIn, InFlight, SentStatuses
  <1>2. Cardinality(Workers) \in Nat
    BY FS_CardinalityType DEF OnlyWorkersSend
  <1>. QED
    BY <1>1, <1>2, FS_EmptySet

\* What is sent in a window is part of what counts in it.
LEMMA SentCounts ==
    ASSUME OnlyWorkersSend, NEW K \in SUBSET Messages, NEW from, NEW to,
           NEW S \in SUBSET K, \A g \in S : SentIn(g, from, to),
           NEW bound \in Nat, Cardinality(Counted(K, from, to)) <= bound
    PROVE  Cardinality(S) <= bound
  <1>1. S \in SUBSET Counted(K, from, to)
    BY DEF Counted, Counts
  <1>2. IsFiniteSet(Counted(K, from, to)) /\ Cardinality(Counted(K, from, to)) \in Nat
    BY FiniteCounts DEF Counted
  <1>3. Cardinality(S) <= Cardinality(Counted(K, from, to)) /\ Cardinality(S) \in Nat
    BY <1>1, <1>2, FS_Subset, FiniteCounts
  <1>. QED
    BY <1>2, <1>3

----------------------------------------------------------------------------
(* The bounds. *)

OfCampaign(c) == {g \in Messages : CampaignOfMsg(g) = c}
OfMember(m)   == {g \in Messages : MemberOf[g] = m}

\* What a passed check says about the campaign's and the member's messages.
LEMMA PassedLimits ==
    ASSUME TypeOK, NEW w \in Workers, NEW g \in Messages, Passes(w, g)
    PROVE  LET c == CampaignOfMsg(g) IN
           /\ ~(Cardinality(SentSince(c, now - HOUR) \ {g}) >= HourlyLimit[c])
           /\ ~(Cardinality(SentSince(c, DayStart) \ {g}) >= DailyLimit[c])
           /\ \A h \in SentToMember(g) : ~(sentAt[h] + MinInterval[c] > now)
  <1>. DEFINE why == EvaluateOutbound(msg[w], RowRefreshed(w), content[msg[w]], TRUE)
  <1>1. why = "PASS"
    <2>. HIDE DEF why
    <2>1. \/ why = "PASS"
          \/ Goto(w, "rollback")
      BY DEF Passes, FinalCheck, why
    <2>2. ~Goto(w, "rollback")
      BY DEF Passes, Goto, TypeOK
    <2>. QED
      BY <2>1, <2>2
  <1>2. EvaluateOutbound(g, RowRefreshed(w), content[g], TRUE) = "PASS"
    BY <1>1 DEF Passes
  <1>. QED
    BY <1>2 DEF EvaluateOutbound

HourInv ==
    \A c \in Campaigns, t \in 0 .. MaxTime :
        Cardinality(Counted(OfCampaign(c), t, t + HOUR))
            <= (HourlyLimit[c] - 1) + Cardinality(Workers)

LEMMA HourSteps ==
    ASSUME TypeOK, OnlyWorkersSend, HourInv, [Next]_vars
    PROVE  HourInv'
  <1>. SUFFICES ASSUME NEW c \in Campaigns, NEW t \in 0 .. MaxTime
                PROVE  Cardinality(Counted(OfCampaign(c), t, t + HOUR)')
                           <= (HourlyLimit[c] - 1) + Cardinality(Workers)
    BY DEF HourInv
  <1>1. PICK n \in Nat : n = HourlyLimit[c] - 1
    BY LimitsAssumption
  <1>2. PICK to \in Int : to = t + HOUR
    BY LimitsAssumption
  <1>3. PICK K \in SUBSET Messages : K = OfCampaign(c)
    BY DEF OfCampaign
  <1>4. ASSUME NEW w \in Workers, NEW g \in K, Passes(w, g), now <= to
        PROVE  Cardinality({h \in K \ {g} : SentIn(h, t, to)}) <= n
    <2>. DEFINE Others == {h \in K \ {g} : SentIn(h, t, to)}
                Seen == SentSince(c, now - HOUR) \ {g}
    <2>1. CampaignOfMsg(g) = c /\ g \in Messages
      BY <1>3 DEF OfCampaign
    <2>2. Cardinality(Seen) \in Nat /\ IsFiniteSet(Seen)
      BY FiniteCounts DEF SentSince
    <2>3. Cardinality(Seen) <= n
      <3>1. ~(Cardinality(Seen) >= HourlyLimit[c])
        BY <1>4, <2>1, PassedLimits
      <3>2. HourlyLimit[c] \in Nat
        BY LimitsAssumption
      <3>. HIDE DEF Seen
      <3>. QED
        BY <1>1, <2>2, <3>1, <3>2
    <2>4. Others \in SUBSET Seen
      <3>1. now - HOUR <= t
        BY <1>2, <1>4, LimitsAssumption DEF TypeOK
      <3>. QED
        BY <1>3, <3>1, LimitsAssumption DEF SentSince, SentIn, OfCampaign, TypeOK, Never
    <2>. HIDE DEF Others, Seen
    <2>5. Cardinality(Others) <= Cardinality(Seen) /\ IsFiniteSet(Others)
      BY <2>2, <2>4, FS_Subset
    <2>6. Cardinality(Others) \in Nat
      BY <2>5, FS_CardinalityType
    <2>. QED
      BY <2>2, <2>3, <2>5, <2>6 DEF Others
  <1>5. Cardinality(Counted(K, t, to)) <= n + Cardinality(Workers)
    BY <1>1, <1>2, <1>3 DEF HourInv
  <1>6. Cardinality(Counted(K, t, to)') <= n + Cardinality(Workers)
    BY <1>4, <1>5, WindowStep
  <1>. QED
    BY <1>1, <1>2, <1>3, <1>6

\* In no hour are more messages of a campaign sent than its hourly limit and
\* what the other workers had in flight.
THEOREM HourHolds == OnlyWorkersSend => (Spec => []HourlyBound)
  <1>. SUFFICES ASSUME OnlyWorkersSend PROVE Spec => []HourlyBound
    OBVIOUS
  <1>0. \A c \in Campaigns : HourlyLimit[c] - 1 \in Nat /\ OfCampaign(c) \in SUBSET Messages
    BY LimitsAssumption DEF OfCampaign
  <1>1. Init => HourInv
    BY <1>0, NothingCounts DEF HourInv
  <1>2. TypeOK /\ HourInv => HourlyBound
    <2>. SUFFICES ASSUME TypeOK, HourInv, NEW c \in Campaigns, NEW t \in 0 .. MaxTime
                  PROVE  Cardinality(Sent(c, t, t + HOUR))
                             <= HourlyLimit[c] + Cardinality(Workers) - 1
      BY DEF HourlyBound
    <2>1. PICK n \in Nat : n = HourlyLimit[c] - 1
      BY <1>0
    <2>2. Cardinality(Workers) \in Nat
      BY FS_CardinalityType DEF OnlyWorkersSend
    <2>3. PICK bound \in Nat : bound = n + Cardinality(Workers)
      BY <2>2
    <2>4. Cardinality(Counted(OfCampaign(c), t, t + HOUR)) <= bound
      BY <2>1, <2>3 DEF HourInv
    <2>5. /\ Sent(c, t, t + HOUR) \in SUBSET OfCampaign(c)
          /\ \A g \in Sent(c, t, t + HOUR) : SentIn(g, t, t + HOUR)
      BY DEF Sent, OfCampaign, SentIn
    <2>6. Cardinality(Sent(c, t, t + HOUR)) <= bound
      BY <1>0, <2>4, <2>5, SentCounts
    <2>7. HourlyLimit[c] \in Nat
      BY LimitsAssumption
    <2>. QED
      BY <2>1, <2>2, <2>3, <2>6, <2>7
  <1>. QED
    BY <1>1, <1>2, HourSteps, TypeCorrect, PTL DEF Spec

\* The day of a moment starts no later than a day that contains or follows it.
LEMMA DayOrder ==
    ASSUME NEW n \in Nat, NEW d \in Nat, DAY \in Nat \ {0}, n <= d * DAY + DAY - 1
    PROVE  (n \div DAY) * DAY <= d * DAY
  <1>1. PICK q \in Nat, r \in 0 .. DAY - 1 : n = q * DAY + r /\ q = n \div DAY
    BY SMTT(30)
  <1>2. q <= d
    <2>. SUFFICES ASSUME q >= d + 1 PROVE FALSE
      BY <1>1
    <2>1. q * DAY >= (d + 1) * DAY
      BY <1>1, SMTT(30)
    <2>. QED
      BY <1>1, <2>1, SMTT(30)
  <1>. QED
    BY <1>1, <1>2, SMTT(30)

DayInv ==
    \A c \in Campaigns, d \in 0 .. MaxTime \div DAY :
        Cardinality(Counted(OfCampaign(c), d * DAY, d * DAY + DAY - 1))
            <= (DailyLimit[c] - 1) + Cardinality(Workers)

LEMMA DayTypes ==
    ASSUME NEW d \in 0 .. MaxTime \div DAY
    PROVE  d \in Nat /\ d * DAY \in Nat /\ DAY \in Nat \ {0}
  <1>1. d \in Nat /\ DAY \in Nat \ {0}
    BY LimitsAssumption
  <1>2. \A x, y \in Nat : x * y \in Nat
    OBVIOUS
  <1>. QED
    BY <1>1, <1>2

LEMMA DaySteps ==
    ASSUME TypeOK, OnlyWorkersSend, DayInv, [Next]_vars
    PROVE  DayInv'
  <1>. SUFFICES ASSUME NEW c \in Campaigns, NEW d \in 0 .. MaxTime \div DAY
                PROVE  Cardinality(Counted(OfCampaign(c), d * DAY, d * DAY + DAY - 1)')
                           <= (DailyLimit[c] - 1) + Cardinality(Workers)
    BY DEF DayInv
  <1>1. PICK n \in Nat : n = DailyLimit[c] - 1
    BY LimitsAssumption
  <1>2. PICK from \in Int : from = d * DAY
    BY DayTypes
  <1>3. PICK to \in Int : to = d * DAY + DAY - 1
    BY DayTypes
  <1>4. PICK K \in SUBSET Messages : K = OfCampaign(c)
    BY DEF OfCampaign
  <1>5. ASSUME NEW w \in Workers, NEW g \in K, Passes(w, g), now <= to
        PROVE  Cardinality({h \in K \ {g} : SentIn(h, from, to)}) <= n
    <2>. DEFINE Others == {h \in K \ {g} : SentIn(h, from, to)}
                Seen == SentSince(c, DayStart) \ {g}
    <2>1. CampaignOfMsg(g) = c /\ g \in Messages
      BY <1>4 DEF OfCampaign
    <2>2. Cardinality(Seen) \in Nat /\ IsFiniteSet(Seen)
      BY FiniteCounts DEF SentSince
    <2>3. Cardinality(Seen) <= n
      <3>1. ~(Cardinality(Seen) >= DailyLimit[c])
        BY <1>5, <2>1, PassedLimits
      <3>2. DailyLimit[c] \in Nat
        BY LimitsAssumption
      <3>. HIDE DEF Seen
      <3>. QED
        BY <1>1, <2>2, <3>1, <3>2
    <2>4. Others \in SUBSET Seen
      <3>1. now \in Nat
        BY LimitsAssumption DEF TypeOK
      <3>2. DayStart <= from
        BY <1>2, <1>3, <1>5, <3>1, DayTypes, DayOrder DEF DayStart
      <3>3. from \in Nat
        BY <1>2, DayTypes
      <3>4. ASSUME NEW h \in Others
            PROVE  sentAt[h] # Never /\ sentAt[h] >= DayStart
        <4>1. sentAt[h] \in from .. to
          BY DEF SentIn
        <4>2. DayStart \in Int
          BY <3>1, DayTypes, LimitsAssumption DEF DayStart
        <4>. HIDE DEF DayStart
        <4>. QED
          BY <3>2, <3>3, <4>1, <4>2 DEF Never
      <3>. QED
        BY <1>4, <3>4 DEF SentSince, SentIn, OfCampaign
    <2>. HIDE DEF Others, Seen
    <2>5. Cardinality(Others) <= Cardinality(Seen) /\ IsFiniteSet(Others)
      BY <2>2, <2>4, FS_Subset
    <2>6. Cardinality(Others) \in Nat
      BY <2>5, FS_CardinalityType
    <2>. QED
      BY <2>2, <2>3, <2>5, <2>6 DEF Others
  <1>6. Cardinality(Counted(K, from, to)) <= n + Cardinality(Workers)
    BY <1>1, <1>2, <1>3, <1>4 DEF DayInv
  <1>7. Cardinality(Counted(K, from, to)') <= n + Cardinality(Workers)
    BY <1>5, <1>6, WindowStep
  <1>. QED
    BY <1>1, <1>2, <1>3, <1>4, <1>7

\* The same for the messages of a calendar day and the daily limit.
THEOREM DayHolds == OnlyWorkersSend => (Spec => []DailyBound)
  <1>. SUFFICES ASSUME OnlyWorkersSend PROVE Spec => []DailyBound
    OBVIOUS
  <1>0. \A c \in Campaigns : DailyLimit[c] - 1 \in Nat /\ OfCampaign(c) \in SUBSET Messages
    BY LimitsAssumption DEF OfCampaign
  <1>1. Init => DayInv
    BY <1>0, NothingCounts DEF DayInv
  <1>2. TypeOK /\ DayInv => DailyBound
    <2>. SUFFICES ASSUME TypeOK, DayInv, NEW c \in Campaigns, NEW d \in 0 .. MaxTime \div DAY
                  PROVE  Cardinality(Sent(c, d * DAY, d * DAY + DAY - 1))
                             <= DailyLimit[c] + Cardinality(Workers) - 1
      BY DEF DailyBound
    <2>1. PICK n \in Nat : n = DailyLimit[c] - 1
      BY <1>0
    <2>2. Cardinality(Workers) \in Nat
      BY FS_CardinalityType DEF OnlyWorkersSend
    <2>3. PICK bound \in Nat : bound = n + Cardinality(Workers)
      BY <2>2
    <2>4. PICK from, to : from = d * DAY /\ to = d * DAY + DAY - 1
      OBVIOUS
    <2>5. Cardinality(Counted(OfCampaign(c), from, to)) <= bound
      BY <2>1, <2>3, <2>4 DEF DayInv
    <2>6. /\ Sent(c, from, to) \in SUBSET OfCampaign(c)
          /\ \A g \in Sent(c, from, to) : SentIn(g, from, to)
      BY DEF Sent, OfCampaign, SentIn
    <2>7. Cardinality(Sent(c, from, to)) <= bound
      BY <1>0, <2>5, <2>6, SentCounts
    <2>8. DailyLimit[c] \in Nat
      BY LimitsAssumption
    <2>. QED
      BY <2>1, <2>2, <2>3, <2>4, <2>7, <2>8
  <1>. QED
    BY <1>1, <1>2, DaySteps, TypeCorrect, PTL DEF Spec

IntervalInv ==
    \A m \in Members, t \in 0 .. MaxTime :
        Cardinality(Counted(OfMember(m), t, t + MinInterval[CampaignOf[m]] - 1))
            <= 0 + Cardinality(Workers)

LEMMA IntervalType == \A m \in Members : MinInterval[CampaignOf[m]] \in Nat
  BY LimitsAssumption DEF Campaigns

LEMMA IntervalSteps ==
    ASSUME TypeOK, OnlyWorkersSend, IntervalInv, [Next]_vars
    PROVE  IntervalInv'
  <1>. SUFFICES ASSUME NEW m \in Members, NEW t \in 0 .. MaxTime
                PROVE  Cardinality(Counted(OfMember(m), t, t + MinInterval[CampaignOf[m]] - 1)')
                           <= 0 + Cardinality(Workers)
    BY DEF IntervalInv
  <1>1. PICK interval \in Nat : interval = MinInterval[CampaignOf[m]]
    BY IntervalType
  <1>2. PICK to \in Int : to = t + interval - 1
    BY LimitsAssumption
  <1>3. PICK K \in SUBSET Messages : K = OfMember(m)
    BY DEF OfMember
  <1>4. ASSUME NEW w \in Workers, NEW g \in K, Passes(w, g), now <= to
        PROVE  Cardinality({h \in K \ {g} : SentIn(h, t, to)}) <= 0
    <2>1. MemberOf[g] = m /\ g \in Messages
      BY <1>3 DEF OfMember
    <2>2. \A h \in SentToMember(g) : ~(sentAt[h] + interval > now)
      BY <1>1, <1>4, <2>1, PassedLimits DEF CampaignOfMsg
    <2>3. ASSUME NEW h \in K \ {g}, SentIn(h, t, to)
          PROVE  FALSE
      <3>1. sentAt[h] \in Int /\ sentAt[h] >= t /\ sentAt[h] # Never
        BY <2>3, LimitsAssumption DEF SentIn, Never
      <3>2. h \in SentToMember(g)
        BY <1>3, <2>1, <2>3, <3>1 DEF SentToMember, OfMember, SentIn
      <3>3. sentAt[h] + interval > now
        BY <1>2, <1>4, <3>1, LimitsAssumption DEF TypeOK
      <3>. QED
        BY <2>2, <3>2, <3>3
    <2>4. {h \in K \ {g} : SentIn(h, t, to)} = {}
      BY <2>3
    <2>. QED
      BY <2>4, FS_EmptySet
  <1>5. Cardinality(Counted(K, t, to)) <= 0 + Cardinality(Workers)
    BY <1>1, <1>2, <1>3 DEF IntervalInv
  <1>6. Cardinality(Counted(K, t, to)') <= 0 + Cardinality(Workers)
    BY <1>4, <1>5, WindowStep
  <1>. QED
    BY <1>1, <1>2, <1>3, <1>6

\* Within one interval a member receives at most one message per worker.
THEOREM IntervalHolds == OnlyWorkersSend => (Spec => []IntervalBound)
  <1>. SUFFICES ASSUME OnlyWorkersSend PROVE Spec => []IntervalBound
    OBVIOUS
  <1>0. \A m \in Members : OfMember(m) \in SUBSET Messages
    BY DEF OfMember
  <1>1. Init => IntervalInv
    BY <1>0, NothingCounts DEF IntervalInv
  <1>2. TypeOK /\ IntervalInv => IntervalBound
    <2>. SUFFICES ASSUME TypeOK, IntervalInv, NEW m \in Members, NEW t \in 0 .. MaxTime
                  PROVE  Cardinality({g \in Sent(CampaignOf[m], t,
                                                 t + MinInterval[CampaignOf[m]] - 1) :
                                         MemberOf[g] = m}) <= Cardinality(Workers)
      BY DEF IntervalBound
    <2>1. PICK bound \in Nat : bound = Cardinality(Workers)
      BY FS_CardinalityType DEF OnlyWorkersSend
    <2>2. PICK to : to = t + MinInterval[CampaignOf[m]] - 1
      OBVIOUS
    <2>3. Cardinality(Counted(OfMember(m), t, to)) <= bound
      BY <2>1, <2>2 DEF IntervalInv
    <2>. DEFINE S == {g \in Sent(CampaignOf[m], t, to) : MemberOf[g] = m}
    <2>4. S \in SUBSET OfMember(m) /\ \A g \in S : SentIn(g, t, to)
      BY DEF Sent, OfMember, SentIn
    <2>. HIDE DEF S
    <2>5. Cardinality(S) <= bound
      BY <1>0, <2>3, <2>4, SentCounts
    <2>. QED
      BY <2>1, <2>2, <2>5 DEF S
  <1>. QED
    BY <1>1, <1>2, IntervalSteps, TypeCorrect, PTL DEF Spec
=============================================================================
