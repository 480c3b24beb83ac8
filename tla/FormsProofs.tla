----------------------------- MODULE FormsProofs -----------------------------
(***************************************************************************)
(* Proofs about AdminForms, for any number of operators and forms, on top  *)
(* of the lemmas about the steps of workers in OutreachProofs.             *)
(***************************************************************************)
EXTENDS AdminForms, OutreachProofs, FiniteSetTheorems

----------------------------------------------------------------------------
(* Type correctness. *)

LEMMA FormsInitTypes == FormsInit => FormsTypeOK
  BY InitTypes DEF FormsInit, FormsTypeOK

FormTypes == {NoForm} \union MessageForm \union MemberForm \union CandidateForm
                \union CampaignForm \union SystemForm

\* A form of a kind has the fields of that kind.
LEMMA FormKinds ==
    ASSUME NEW f \in FormTypes
    PROVE  /\ f.kind = "message"   => f \in MessageForm
           /\ f.kind = "member"    => f \in MemberForm
           /\ f.kind = "candidate" => f \in CandidateForm
           /\ f.kind = "campaign"  => f \in CampaignForm
           /\ f.kind = "system"    => f \in SystemForm
  BY DEF FormTypes, NoForm, MessageForm, MemberForm, CandidateForm, CampaignForm, SystemForm

\* Opening a form reads rows, so what it shows has their types.
LEMMA OpenTypes ==
    ASSUME FormsTypeOK, NEW o \in Operators, Open(o)
    PROVE  FormsTypeOK'
  <1>1. TypeOK'
    BY StutterTypes DEF Open, FormsTypeOK
  <1>2. ASSUME NEW f \in FormTypes, Shows(o, f)
        PROVE  \A p \in Operators : form'[p] \in FormTypes
    BY <1>2 DEF Shows, FormsTypeOK, FormTypes
  <1>3. \A p \in Operators : form'[p] \in FormTypes
    <2>1. ASSUME NEW g \in Messages, status[g] # "NONE",
                 Shows(o, [kind |-> "message", of |-> g, status |-> status[g],
                           content |-> content[g], scheduledAt |-> scheduledAt[g],
                           retries |-> retries[g]])
          PROVE  \A p \in Operators : form'[p] \in FormTypes
      <3>1. [kind |-> "message", of |-> g, status |-> status[g], content |-> content[g],
             scheduledAt |-> scheduledAt[g], retries |-> retries[g]] \in MessageForm
        BY <2>1 DEF FormsTypeOK, TypeOK, MessageForm
      <3>. QED
        BY <1>2, <2>1, <3>1 DEF FormTypes
    <2>2. ASSUME NEW m \in Members, Shows(o, [kind |-> "member", of |-> m, row |-> member[m]])
          PROVE  \A p \in Operators : form'[p] \in FormTypes
      <3>1. [kind |-> "member", of |-> m, row |-> member[m]] \in MemberForm
        BY DEF FormsTypeOK, TypeOK, MemberForm
      <3>. QED
        BY <1>2, <2>2, <3>1 DEF FormTypes
    <2>3. ASSUME NEW k \in Candidates,
                 Shows(o, [kind |-> "candidate", of |-> k, row |-> candidate[k]])
          PROVE  \A p \in Operators : form'[p] \in FormTypes
      <3>1. [kind |-> "candidate", of |-> k, row |-> candidate[k]] \in CandidateForm
        BY DEF FormsTypeOK, TypeOK, CandidateForm
      <3>. QED
        BY <1>2, <2>3, <3>1 DEF FormTypes
    <2>4. ASSUME NEW c \in Campaigns,
                 Shows(o, [kind |-> "campaign", of |-> c, status |-> campaign[c],
                           rows |-> [m \in Members |-> [status |-> member[m].status,
                                                        human |-> member[m].human]]])
          PROVE  \A p \in Operators : form'[p] \in FormTypes
      <3>. DEFINE rows == [m \in Members |-> [status |-> member[m].status,
                                              human |-> member[m].human]]
      <3>1. \A m \in Members : member[m].status \in MemberStatus /\ member[m].human \in BOOLEAN
        BY DEF FormsTypeOK, TypeOK, Member
      <3>2. rows \in [Members -> InlineRow]
        BY <3>1 DEF InlineRow
      <3>. HIDE DEF rows
      <3>3. [kind |-> "campaign", of |-> c, status |-> campaign[c], rows |-> rows] \in CampaignForm
        BY <3>2 DEF FormsTypeOK, TypeOK, CampaignForm
      <3>. QED
        BY <1>2, <2>4, <3>3 DEF FormTypes, rows
    <2>5. ASSUME Shows(o, [kind |-> "system", outbound |-> outbound])
          PROVE  \A p \in Operators : form'[p] \in FormTypes
      <3>1. [kind |-> "system", outbound |-> outbound] \in SystemForm
        BY DEF FormsTypeOK, TypeOK, SystemForm
      <3>. QED
        BY <1>2, <2>5, <3>1 DEF FormTypes
    <2>. QED
      BY <2>1, <2>2, <2>3, <2>4, <2>5 DEF Open
  <1>. QED
    BY <1>1, <1>3 DEF Open, FormsTypeOK, FormTypes

LEMMA PostedType ==
    ASSUME NEW r \in Member, NEW shown \in InlineRow
    PROVE  Posted(r, shown) \in Member
  BY DEF Posted, Member, InlineRow

\* A save writes values a form showed or an operator chose, all of the row's types.
LEMMA SaveTypes ==
    ASSUME FormsTypeOK, NEW o \in Operators,
           \/ SaveMessage(o) \/ SaveMember(o) \/ SaveCandidate(o) \/ SaveCampaign(o)
           \/ SaveSystemState(o) \/ Leave(o)
    PROVE  FormsTypeOK'
  <1>. USE DEF TypeOK, people, queue, job
  <1>0. /\ form[o] \in FormTypes
        /\ \A p \in Operators : form'[p] \in FormTypes
        /\ FormsTypeOK
    <2>1. form' = [form EXCEPT ![o] = NoForm]
      BY DEF Saves, SaveMessage, SaveMember, SaveCandidate, SaveCampaign, SaveSystemState, Leave
    <2>2. \A p \in Operators : form[p] \in FormTypes
      BY DEF FormsTypeOK, FormTypes
    <2>. QED
      BY <2>1, <2>2 DEF FormTypes
  <1>1. CASE SaveMessage(o)
    <2>1. form[o] \in MessageForm
      BY <1>0, <1>1, FormKinds DEF SaveMessage, Saves
    <2>2. PICK g \in Messages : g = form[o].of
      BY <2>1 DEF MessageForm
    <2>3. PICK s \in AdminStatuses \union {form[o].status} :
            /\ status' = [status EXCEPT ![g] = s]
            /\ resets' \in {resets, [resets EXCEPT ![g] = resets[g] + 1]}
      BY <1>1, <2>2 DEF SaveMessage, SetStatus
    <2>4. s \in MessageStatus
      BY <2>1, OperatorsAssumption DEF MessageForm
    <2>5. /\ content' \in [Messages -> BOOLEAN]
          /\ scheduledAt' \in [Messages -> Nat]
          /\ retries' \in [Messages -> Nat]
      <3>1. /\ ShownEntry(o) \in Entry
            /\ form[o].retries \in Nat
        BY <2>1 DEF MessageForm, ShownEntry, Entry
      <3>2. PICK e \in Entry : Enter(g, e)
        BY <1>1, <2>2, <3>1, OperatorsAssumption DEF SaveMessage
      <3>. QED
        BY <1>0, <1>1, <2>2, <3>1, <3>2 DEF SaveMessage, Enter, Entry, FormsTypeOK
    <2>6. /\ status' \in [Messages -> MessageStatus \union {"NONE"}]
          /\ resets' \in [Messages -> Nat]
      BY <1>0, <2>3, <2>4 DEF FormsTypeOK
    <2>. QED
      BY <1>0, <1>1, <2>5, <2>6 DEF SaveMessage, FormsTypeOK, FormTypes
  <1>2. CASE SaveMember(o)
    <2>1. form[o] \in MemberForm
      BY <1>0, <1>2, FormKinds DEF SaveMember, Saves
    <2>2. form[o].row \in Member
      BY <2>1 DEF MemberForm
    <2>3. PICK e \in MemberEdits \union {[status |-> form[o].row.status,
                                          human |-> form[o].row.human]},
               c \in CountEdits \union {CountsOf(form[o].row)} :
            member' = [member EXCEPT ![form[o].of] = Edited(form[o].row, e, c)]
      BY <1>2 DEF SaveMember
    <2>4. /\ e.status \in MemberStatus /\ e.human \in BOOLEAN
          /\ c.sent \in Nat /\ c.first \in Moment /\ c.last \in Moment
      BY <2>2, OperatorsAssumption DEF Member, MemberCounts, CountsOf
    <2>5. Edited(form[o].row, e, c) \in Member
      BY <2>4, <2>2 DEF Member, Edited
    <2>6. member' \in [Members -> Member]
      BY <1>0, <2>3, <2>5 DEF FormsTypeOK
    <2>. QED
      BY <1>0, <1>2, <2>6 DEF SaveMember, FormsTypeOK, FormTypes
  <1>3. CASE SaveCandidate(o)
    <2>1. form[o] \in CandidateForm
      BY <1>0, <1>3, FormKinds DEF SaveCandidate, Saves
    <2>2. \A c \in CandidateEdits \union {form[o].row} : Saved(c) \in Candidate
      BY <2>1, SavedType, OperatorsAssumption DEF CandidateForm
    <2>3. candidate' \in [Candidates -> Candidate]
      BY <1>0, <1>3, <2>2 DEF SaveCandidate, FormsTypeOK
    <2>. QED
      BY <1>0, <1>3, <2>3 DEF SaveCandidate, FormsTypeOK, FormTypes
  <1>4. CASE SaveCampaign(o)
    <2>1. form[o] \in CampaignForm
      BY <1>0, <1>4, FormKinds DEF SaveCampaign, Saves
    <2>2. \A m \in Members : Posted(member[m], form[o].rows[m]) \in Member
      BY <1>0, <2>1, PostedType DEF CampaignForm, FormsTypeOK
    <2>3. member' \in [Members -> Member]
      BY <1>0, <1>4, <2>2 DEF SaveCampaign, FormsTypeOK
    <2>4. campaign' \in [Campaigns -> CampaignStatus]
      BY <1>0, <1>4, <2>1, FormsAssumption DEF SaveCampaign, CampaignForm, FormsTypeOK
    <2>. QED
      BY <1>0, <1>4, <2>3, <2>4 DEF SaveCampaign, FormsTypeOK, FormTypes
  <1>5. CASE SaveSystemState(o)
    BY <1>0, <1>5 DEF SaveSystemState, Event, FormsTypeOK, FormTypes
  <1>6. CASE Leave(o)
    BY <1>0, <1>6 DEF Leave, FormsTypeOK, FormTypes, vars
  <1>. QED
    BY <1>1, <1>2, <1>3, <1>4, <1>5, <1>6

LEMMA ElsewhereTypes ==
    ASSUME FormsTypeOK, [Elsewhere]_vars, UNCHANGED formVars
    PROVE  FormsTypeOK'
  <1>1. TypeOK'
    BY SelectionTypes, ClaimTypes, OutcomeTypes, OperatorTypes, StutterTypes
       DEF FormsTypeOK, Elsewhere, WorkerStep, OperatorStep
  <1>. QED
    BY <1>1 DEF FormsTypeOK, formVars

\* Forms saved over newer rows keep every row well typed.
THEOREM FormsTypesHold == FormsSpec => []FormsTypeOK
  <1>1. FormsTypeOK /\ [FormsNext]_allVars => FormsTypeOK'
    <2>. SUFFICES ASSUME FormsTypeOK, [FormsNext]_allVars PROVE FormsTypeOK'
      OBVIOUS
    <2>1. CASE \E o \in Operators : \/ Open(o) \/ Leave(o) \/ SaveMessage(o) \/ SaveMember(o)
                                    \/ SaveCandidate(o) \/ SaveCampaign(o) \/ SaveSystemState(o)
      BY <2>1, OpenTypes, SaveTypes
    <2>2. CASE SetOutboundEnabled /\ switch' = Event(outbound') /\ UNCHANGED <<form, resets>>
      <3>1. TypeOK'
        BY <2>2, OperatorTypes DEF FormsTypeOK, OperatorStep
      <3>. QED
        BY <2>2, <3>1 DEF FormsTypeOK, Event
    <2>3. CASE Elsewhere /\ UNCHANGED formVars
      BY <2>3, ElsewhereTypes
    <2>4. CASE UNCHANGED allVars
      BY <2>4, ElsewhereTypes DEF allVars
    <2>. QED
      BY <2>1, <2>2, <2>3, <2>4 DEF FormsNext
  <1>. QED
    BY FormsInitTypes, <1>1, PTL DEF FormsSpec

----------------------------------------------------------------------------
(* The switch and its trail. *)

\* The last pause or resumption on record is the one in force, for any number
\* of operators whose forms show different moments.
THEOREM SwitchKeepsItsTrail == FormsSpec => []SwitchIsAudited
  <1>1. FormsInit => SwitchIsAudited
    BY DEF FormsInit, Init, SwitchIsAudited
  <1>2. FormsTypeOK /\ SwitchIsAudited /\ [FormsNext]_allVars => SwitchIsAudited'
    <2>. SUFFICES ASSUME FormsTypeOK, SwitchIsAudited, [FormsNext]_allVars
                  PROVE  SwitchIsAudited'
      OBVIOUS
    <2>1. CASE UNCHANGED <<outbound, switch>>
      BY <2>1 DEF SwitchIsAudited
    <2>2. ASSUME NEW o \in Operators, SaveSystemState(o)
          PROVE  SwitchIsAudited'
      BY <2>2 DEF SaveSystemState, PreviousEnabled, Event, SwitchIsAudited, FormsTypeOK, TypeOK
    <2>3. CASE SetOutboundEnabled /\ switch' = Event(outbound')
      BY <2>3 DEF SetOutboundEnabled, Event, SwitchIsAudited, FormsTypeOK, TypeOK
    <2>4. ASSUME NEW o \in Operators,
                 \/ Open(o) \/ Leave(o) \/ SaveMessage(o) \/ SaveMember(o)
                 \/ SaveCandidate(o) \/ SaveCampaign(o)
          PROVE  UNCHANGED <<outbound, switch>>
      BY <2>4 DEF Open, Leave, SaveMessage, SaveMember, SaveCandidate, SaveCampaign, vars
    <2>5. CASE Elsewhere /\ UNCHANGED formVars
      <3>1. ASSUME NEW w \in Workers, WorkerStep(w) \/ Crash(w)
            PROVE  outbound' = outbound
        BY <3>1 DEF WorkerStep,
             Begin, NextDueMessage, EnqueueNextEligible, EnqueueInitialMessage, ReadSystemState,
             CheckBeforeGeneration, CheckBeforeClaim, ClaimGeneration, ApplyDecision,
             DecisionContended, FailGeneration, ReloadGenerated, ClaimSend, FinalCheck, Rollback,
             RecordBlock, WriteAudit, Approve, SenderNotLoaded, Send, CommitFailed, CommitSent,
             CommitRefused, Crash
      <3>2. outbound' = outbound
        BY <2>5, <3>1 DEF Elsewhere, ApplyOptOut, AddMessage, Tick
      <3>. QED
        BY <2>1, <2>5, <3>2 DEF formVars
    <2>. QED
      BY <2>1, <2>2, <2>3, <2>4, <2>5 DEF FormsNext, allVars, vars, formVars
  <1>. QED
    BY <1>1, <1>2, FormsTypesHold, PTL DEF FormsSpec

----------------------------------------------------------------------------
(* Offers.  A message is sent once for each time it was put on offer: an     *)
(* offer is either still open, or in the hands of one worker, or used up by  *)
(* a send, so the three together never exceed the offers made.               *)

Holders(g) == {w \in Workers : BeforeSend(w, g)}
OnOffer(g) == IF status[g] \in Offered THEN 1 ELSE 0

OfferKept(g) ==
    /\ IsFiniteSet(Holders(g))
    /\ sends[g] + Cardinality(Holders(g)) + OnOffer(g) <= 1 + resets[g]

OfferInv == \A g \in Messages : OfferKept(g)

LEMMA InitOffers == FormsInit => OfferInv
  <1>. SUFFICES ASSUME FormsInit, NEW g \in Messages PROVE OfferKept(g)
    BY DEF OfferInv
  <1>1. Holders(g) = {}
    BY DEF FormsInit, Init, Holders, BeforeSend, Generating
  <1>2. sends[g] = 0 /\ resets[g] = 0 /\ OnOffer(g) = 1
    BY DEF FormsInit, Init, OnOffer, Offered
  <1>. QED
    BY <1>1, <1>2, FS_EmptySet DEF OfferKept

\* A message nobody takes, sends or offers anew keeps its account.
LEMMA QuietOffer ==
    ASSUME FormsTypeOK, NEW g \in Messages, OfferKept(g),
           sends'[g] = sends[g], resets'[g] = resets[g],
           status'[g] \in Offered => status[g] \in Offered,
           \A v \in Workers : BeforeSend(v, g)' => BeforeSend(v, g)
    PROVE  OfferKept(g)'
  <1>1. Holders(g)' \in SUBSET Holders(g)
    BY DEF Holders
  <1>2. /\ IsFiniteSet(Holders(g)')
        /\ Cardinality(Holders(g)') <= Cardinality(Holders(g))
    BY <1>1, FS_Subset DEF OfferKept
  <1>3. Cardinality(Holders(g)) \in Nat /\ Cardinality(Holders(g)') \in Nat
    BY <1>2, FS_CardinalityType DEF OfferKept
  <1>4. OnOffer(g)' <= OnOffer(g) /\ OnOffer(g) \in Nat /\ OnOffer(g)' \in Nat
    BY DEF OnOffer
  <1>5. sends[g] \in Nat /\ resets[g] \in Nat
    BY DEF FormsTypeOK, TypeOK
  <1>. HIDE DEF Holders, OnOffer
  <1>. QED
    BY <1>2, <1>3, <1>4, <1>5 DEF OfferKept

\* One worker takes it off offer.
LEMMA TakenOffer ==
    ASSUME FormsTypeOK, NEW g \in Messages, OfferKept(g), NEW w \in Workers,
           sends'[g] = sends[g], resets'[g] = resets[g],
           status[g] \in Offered, status'[g] \notin Offered,
           \A v \in Workers : BeforeSend(v, g)' => BeforeSend(v, g) \/ v = w
    PROVE  OfferKept(g)'
  <1>1. Holders(g)' \in SUBSET (Holders(g) \union {w})
    BY DEF Holders
  <1>2. /\ IsFiniteSet(Holders(g) \union {w})
        /\ Cardinality(Holders(g) \union {w}) \in Nat
        /\ Cardinality(Holders(g)) \in Nat
        /\ Cardinality(Holders(g) \union {w}) <= Cardinality(Holders(g)) + 1
    <2>1. IsFiniteSet(Holders(g))
      BY DEF OfferKept
    <2>2. IsFiniteSet(Holders(g) \union {w})
      BY <2>1, FS_AddElement
    <2>3. Cardinality(Holders(g) \union {w}) =
            IF w \in Holders(g) THEN Cardinality(Holders(g)) ELSE Cardinality(Holders(g)) + 1
      BY <2>1, FS_AddElement
    <2>4. Cardinality(Holders(g)) \in Nat
      BY <2>1, FS_CardinalityType
    <2>. HIDE DEF Holders
    <2>. QED
      BY <2>2, <2>3, <2>4
  <1>3. /\ IsFiniteSet(Holders(g)')
        /\ Cardinality(Holders(g)') <= Cardinality(Holders(g) \union {w})
    BY <1>1, <1>2, FS_Subset
  <1>4. Cardinality(Holders(g)') \in Nat
    BY <1>3, FS_CardinalityType
  <1>5. OnOffer(g) = 1 /\ OnOffer(g)' = 0
    BY DEF OnOffer
  <1>6. sends[g] \in Nat /\ resets[g] \in Nat
    BY DEF FormsTypeOK, TypeOK
  <1>. QED
    BY <1>2, <1>3, <1>4, <1>5, <1>6 DEF OfferKept

\* A worker lets it go: it has sent it, or it offers it again, but not both.
LEMMA ReleasedOffer ==
    ASSUME FormsTypeOK, NEW g \in Messages, OfferKept(g), NEW w \in Workers,
           resets'[g] = resets[g],
           BeforeSend(w, g), ~BeforeSend(w, g)',
           \A v \in Workers : BeforeSend(v, g)' => BeforeSend(v, g),
           \/ sends'[g] = sends[g]
           \/ sends'[g] = sends[g] + 1 /\ status'[g] = status[g]
    PROVE  OfferKept(g)'
  <1>1. Holders(g)' \in SUBSET (Holders(g) \ {w}) /\ w \in Holders(g)
    BY DEF Holders
  <1>2. /\ IsFiniteSet(Holders(g) \ {w})
        /\ Cardinality(Holders(g) \ {w}) \in Nat
        /\ Cardinality(Holders(g)) \in Nat
        /\ Cardinality(Holders(g) \ {w}) = Cardinality(Holders(g)) - 1
    BY <1>1, FS_RemoveElement, FS_CardinalityType DEF OfferKept
  <1>3. /\ IsFiniteSet(Holders(g)')
        /\ Cardinality(Holders(g)') <= Cardinality(Holders(g) \ {w})
    BY <1>1, <1>2, FS_Subset
  <1>4. Cardinality(Holders(g)') \in Nat
    BY <1>3, FS_CardinalityType
  <1>5. /\ OnOffer(g) \in 0 .. 1 /\ OnOffer(g)' \in 0 .. 1
        /\ status'[g] = status[g] => OnOffer(g)' = OnOffer(g)
    BY DEF OnOffer
  <1>6. sends[g] \in Nat /\ resets[g] \in Nat
    BY DEF FormsTypeOK, TypeOK
  <1>. QED
    BY <1>2, <1>3, <1>4, <1>5, <1>6 DEF OfferKept

\* The steps of a worker that change no claim change no account.
LEMMA UnclaimedOffers ==
    ASSUME FormsTypeOK, OfferInv, resets' = resets, NEW w \in Workers,
           \/ Begin(w) \/ NextDueMessage(w) \/ EnqueueNextEligible(w) \/ EnqueueInitialMessage(w)
           \/ ReadSystemState(w) \/ CheckBeforeGeneration(w) \/ CheckBeforeClaim(w)
           \/ DecisionContended(w) \/ FailGeneration(w) \/ ReloadGenerated(w) \/ FinalCheck(w)
           \/ RecordBlock(w) \/ WriteAudit(w) \/ Approve(w) \/ SenderNotLoaded(w)
           \/ CommitFailed(w) \/ CommitSent(w) \/ CommitRefused(w) \/ Crash(w)
    PROVE  OfferInv'
  <1>1. /\ sends' = sends
        /\ \A g \in Messages : status'[g] \in Offered => status[g] \in Offered
        /\ \A v \in Workers \ {w} : pc'[v] = pc[v] /\ msg'[v] = msg[v]
        /\ \/ pc'[w] \notin HandStages
           \/ /\ msg'[w] = msg[w]
              /\ pc[w] \in {"final", "final_policy", "approve"}
              /\ pc'[w] \in {"final_policy", "rollback", "approve", "send"}
    BY UnclaimedMoves DEF FormsTypeOK
  <1>2. \A g \in Messages, v \in Workers : BeforeSend(v, g)' => BeforeSend(v, g)
    BY <1>1 DEF HandStages, BeforeSend, Generating
  <1>. QED
    BY <1>1, <1>2, QuietOffer DEF OfferInv

\* The steps that do.
LEMMA ClaimedOffers ==
    ASSUME FormsTypeOK, OfferInv, resets' = resets, NEW w \in Workers,
           \/ ClaimGeneration(w) \/ ApplyDecision(w) \/ ClaimSend(w) \/ Rollback(w) \/ Send(w)
    PROVE  OfferInv'
  <1>. USE DEF At, Goto, SetStatus, queue, job
  <1>0. TypeOK
    BY DEF FormsTypeOK
  <1>1. PICK g \in Messages : g = msg[w]
    BY <1>0 DEF TypeOK, Stages, ClaimGeneration, ApplyDecision, ClaimSend, Rollback, Send
  <1>2. SUFFICES ASSUME NEW h \in Messages PROVE OfferKept(h)'
    BY DEF OfferInv
  <1>3. OfferKept(h)
    BY DEF OfferInv
  <1>4. CASE \/ ClaimGeneration(w) /\ ~GenerationClaimable(g)
             \/ ClaimSend(w) /\ ~SendClaimable(g)
    <2>1. /\ status' = status /\ sends' = sends
          /\ pc' = [pc EXCEPT ![w] = "idle"] /\ msg' = [msg EXCEPT ![w] = NoMessage]
      BY <1>1, <1>4 DEF ClaimGeneration, ClaimSend, Return
    <2>2. \A v \in Workers : BeforeSend(v, h)' => BeforeSend(v, h)
      BY <1>0, <2>1 DEF TypeOK, BeforeSend, Generating
    <2>. QED
      BY <1>3, <2>1, <2>2, QuietOffer
  <1>5. CASE \/ ClaimGeneration(w) /\ GenerationClaimable(g)
             \/ ClaimSend(w) /\ SendClaimable(g)
    <2>1. PICK s \in {"GENERATING", "SENDING"} :
            /\ status' = [status EXCEPT ![g] = s] /\ sends' = sends
            /\ status[g] \in Offered /\ s \notin Offered
            /\ pc' \in {[pc EXCEPT ![w] = "generate"], [pc EXCEPT ![w] = "final"]} /\ msg' = msg
      BY <1>1, <1>5
         DEF ClaimGeneration, ClaimSend, GenerationClaimable, SendClaimable, Offered
    <2>2. \A v \in Workers : BeforeSend(v, h)' => BeforeSend(v, h) \/ (v = w /\ h = g)
      BY <1>0, <1>1, <2>1 DEF TypeOK, BeforeSend, Generating
    <2>3. status'[g] = s /\ (h # g => status'[h] = status[h])
      BY <1>0, <2>1 DEF TypeOK
    <2>4. CASE h = g
      BY <1>3, <2>1, <2>2, <2>3, <2>4, TakenOffer
    <2>5. CASE h # g
      BY <1>3, <2>1, <2>2, <2>3, <2>5, QuietOffer
    <2>. QED
      BY <2>4, <2>5
  <1>6. CASE ApplyDecision(w) \/ Rollback(w)
    <2>1. /\ sends' = sends /\ pc[w] \in {"generate", "rollback"}
          /\ \E s \in {"READY", "REQUIRES_HUMAN", "CANCELLED"} :
                status' = [status EXCEPT ![g] = s]
          /\ \E stage \in {"reload", "idle", "block"} : pc' = [pc EXCEPT ![w] = stage]
          /\ msg' \in {msg, [msg EXCEPT ![w] = NoMessage]}
      BY <1>1, <1>6 DEF ApplyDecision, Rollback, Return
    <2>2. /\ BeforeSend(w, g) /\ ~BeforeSend(w, g)'
          /\ \A v \in Workers : BeforeSend(v, h)' => BeforeSend(v, h)
      BY <1>0, <1>1, <2>1, KeyTypes DEF TypeOK, BeforeSend, Generating
    <2>3. CASE h = g
      BY <1>3, <2>1, <2>2, <2>3, ReleasedOffer
    <2>4. CASE h # g
      <3>1. status'[h] = status[h]
        BY <1>0, <2>1, <2>4 DEF TypeOK
      <3>. QED
        BY <1>3, <2>1, <2>2, <3>1, QuietOffer
    <2>. QED
      BY <2>3, <2>4
  <1>7. CASE Send(w)
    <2>1. /\ pc[w] = "send" /\ status' = status /\ msg' = msg
          /\ sends' = [sends EXCEPT ![g] = @ + 1]
          /\ \E stage \in {"commit_sent", "commit_failed"} : pc' = [pc EXCEPT ![w] = stage]
      BY <1>1, <1>7 DEF Send
    <2>2. /\ BeforeSend(w, g) /\ ~BeforeSend(w, g)'
          /\ \A v \in Workers : BeforeSend(v, h)' => BeforeSend(v, h)
      BY <1>0, <1>1, <2>1 DEF TypeOK, BeforeSend, Generating
    <2>3. sends'[g] = sends[g] + 1 /\ (h # g => sends'[h] = sends[h])
      BY <1>0, <2>1 DEF TypeOK
    <2>4. CASE h = g
      BY <1>3, <2>1, <2>2, <2>3, <2>4, ReleasedOffer
    <2>5. CASE h # g
      BY <1>3, <2>1, <2>2, <2>3, <2>5, QuietOffer
    <2>. QED
      BY <2>4, <2>5
  <1>. QED
    BY <1>1, <1>4, <1>5, <1>6, <1>7

\* A save may put a message on offer, and counts when it does.
LEMMA SavedOffers ==
    ASSUME FormsTypeOK, OfferInv, NEW o \in Operators, SaveMessage(o)
    PROVE  OfferInv'
  <1>. SUFFICES ASSUME NEW h \in Messages PROVE OfferKept(h)'
    BY DEF OfferInv
  <1>1. OfferKept(h) /\ sends' = sends
    BY DEF OfferInv, SaveMessage
  <1>2. \A v \in Workers : BeforeSend(v, h)' <=> BeforeSend(v, h)
    BY DEF SaveMessage, job, BeforeSend, Generating
  <1>3. PICK g, s : /\ g = form[o].of
                    /\ status' = [status EXCEPT ![g] = s]
                    /\ IF s \in Offered /\ status[g] \notin Offered
                         THEN resets' = [resets EXCEPT ![g] = resets[g] + 1]
                         ELSE resets' = resets
    BY DEF SaveMessage, SetStatus
  <1>4. g \in Messages
    BY <1>3, FormKinds DEF SaveMessage, Saves, FormsTypeOK, FormTypes, MessageForm
  <1>5. CASE h = g /\ s \in Offered /\ status[g] \notin Offered
    <2>1. resets'[h] = resets[h] + 1 /\ OnOffer(h) = 0 /\ OnOffer(h)' = 1
      BY <1>3, <1>4, <1>5 DEF FormsTypeOK, TypeOK, OnOffer
    <2>2. Holders(h)' = Holders(h)
      BY <1>2 DEF Holders
    <2>3. IsFiniteSet(Holders(h)) /\ Cardinality(Holders(h)) \in Nat
      BY <1>1, FS_CardinalityType DEF OfferKept
    <2>4. sends[h] \in Nat /\ resets[h] \in Nat
      BY DEF FormsTypeOK, TypeOK
    <2>. QED
      BY <1>1, <2>1, <2>2, <2>3, <2>4 DEF OfferKept
  <1>6. CASE ~(h = g /\ s \in Offered /\ status[g] \notin Offered)
    <2>1. resets'[h] = resets[h] /\ (status'[h] \in Offered => status[h] \in Offered)
      BY <1>3, <1>4, <1>6 DEF FormsTypeOK, TypeOK
    <2>. QED
      BY <1>1, <1>2, <2>1, QuietOffer
  <1>. QED
    BY <1>5, <1>6

\* Forms on other rows, opt-outs, new messages and the clock change no account.
LEMMA OtherOffers ==
    ASSUME FormsTypeOK, OfferInv,
           \/ \E o \in Operators : \/ Open(o) \/ Leave(o) \/ SaveMember(o) \/ SaveCandidate(o)
                                   \/ SaveCampaign(o) \/ SaveSystemState(o)
           \/ SetOutboundEnabled /\ UNCHANGED <<form, resets>>
           \/ /\ \/ \E k \in Candidates : ApplyOptOut(k)
                 \/ \E g \in Manual : AddMessage(g)
                 \/ Tick
              /\ UNCHANGED formVars
           \/ UNCHANGED allVars
    PROVE  OfferInv'
  <1>1. sends' = sends /\ resets' = resets /\ pc' = pc /\ msg' = msg
    BY DEF Open, Leave, SaveMember, SaveCandidate, SaveCampaign, SaveSystemState,
           SetOutboundEnabled, ApplyOptOut, AddMessage, Tick, job, vars, formVars, allVars
  <1>2. \A g \in Messages : status'[g] \in Offered => status[g] \in Offered
    <2>1. ASSUME NEW h \in Manual, AddMessage(h)
          PROVE  \A g \in Messages : status'[g] \in Offered => status[g] \in Offered
      BY <2>1, AddedMessages DEF FormsTypeOK, TypeOK, Offered
    <2>2. CASE status' = status
      BY <2>2
    <2>. QED
      BY <2>1, <2>2 DEF Open, Leave, SaveMember, SaveCandidate, SaveCampaign, SaveSystemState,
           SetOutboundEnabled, ApplyOptOut, Tick, queue, vars, allVars
  <1>3. \A g \in Messages, v \in Workers : BeforeSend(v, g)' => BeforeSend(v, g)
    BY <1>1 DEF BeforeSend, Generating
  <1>. QED
    BY <1>1, <1>2, <1>3, QuietOffer DEF OfferInv

\* A stale form can make a message be sent again, once for each save that put
\* it back on offer, and no race of workers adds a send to that.
THEOREM SendsHaveOffers == FormsSpec => []SendsAreAccounted
  <1>1. FormsTypeOK /\ OfferInv /\ [FormsNext]_allVars => OfferInv'
    <2>. SUFFICES ASSUME FormsTypeOK, OfferInv, [FormsNext]_allVars PROVE OfferInv'
      OBVIOUS
    <2>1. ASSUME NEW w \in Workers, WorkerStep(w) \/ Crash(w), UNCHANGED formVars
          PROVE  OfferInv'
      BY <2>1, UnclaimedOffers, ClaimedOffers DEF WorkerStep, formVars
    <2>. QED
      BY <2>1, SavedOffers, OtherOffers DEF FormsNext, Elsewhere
  <1>2. FormsTypeOK /\ OfferInv => SendsAreAccounted
    <2>. SUFFICES ASSUME FormsTypeOK, OfferInv, NEW g \in Messages
                  PROVE  sends[g] <= 1 + resets[g]
      BY DEF SendsAreAccounted
    <2>1. Cardinality(Holders(g)) \in Nat /\ OnOffer(g) \in Nat
      BY FS_CardinalityType DEF OfferInv, OfferKept, OnOffer
    <2>. QED
      BY <2>1 DEF OfferInv, OfferKept, FormsTypeOK, TypeOK
  <1>. QED
    BY InitOffers, FormsTypesHold, <1>1, <1>2, PTL DEF FormsSpec

----------------------------------------------------------------------------
(* Opt-outs.  A form may take an opt-out back, but only as a whole: no save  *)
(* and no commit leaves the flag with another status.                        *)

LEMMA FormsOptOutSteps ==
    ASSUME FormsTypeOK, DncForcesStatus, [FormsNext]_allVars
    PROVE  DncForcesStatus'
  <1>1. TypeOK
    BY DEF FormsTypeOK
  <1>2. CASE SetOutboundEnabled \/ Elsewhere \/ UNCHANGED vars
    <2>1. [Next]_vars
      BY <1>2 DEF Elsewhere, Next, OperatorStep
    <2>. QED
      BY <1>1, <2>1, OptOutSteps
  <1>3. ASSUME NEW o \in Operators, SaveCandidate(o)
        PROVE  DncForcesStatus'
    <2>1. form[o] \in FormTypes
      BY DEF FormsTypeOK, FormTypes
    <2>2. form[o] \in CandidateForm
      BY <1>3, <2>1, FormKinds DEF SaveCandidate, Saves
    <2>3. PICK c \in CandidateEdits \union {form[o].row} :
            candidate' = [candidate EXCEPT ![form[o].of] = Saved(c)]
      BY <1>3 DEF SaveCandidate
    <2>4. c \in Candidate
      BY <2>2, OperatorsAssumption DEF CandidateForm
    <2>5. Saved(c).dnc => Saved(c).status = "DO_NOT_CONTACT"
      BY <2>4 DEF Saved, Candidate
    <2>. QED
      BY <1>1, <2>3, <2>5 DEF TypeOK, DncForcesStatus
  <1>4. ASSUME NEW o \in Operators,
               \/ Open(o) \/ Leave(o) \/ SaveMessage(o) \/ SaveMember(o) \/ SaveCampaign(o)
               \/ SaveSystemState(o)
        PROVE  DncForcesStatus'
    <2>1. candidate' = candidate
      BY <1>4 DEF Open, Leave, SaveMessage, SaveMember, SaveCampaign, SaveSystemState, vars, people
    <2>. QED
      BY <2>1 DEF DncForcesStatus
  <1>. QED
    BY <1>2, <1>3, <1>4 DEF FormsNext, allVars

\* Under stale Candidate forms too, a recorded opt-out shows in the candidate's
\* status.
THEOREM OptOutSurvivesForms == FormsSpec => []DncForcesStatus
  <1>1. FormsInit => DncForcesStatus
    BY DEF FormsInit, Init, DncForcesStatus
  <1>. QED
    BY <1>1, FormsOptOutSteps, FormsTypesHold, PTL DEF FormsSpec
=============================================================================
