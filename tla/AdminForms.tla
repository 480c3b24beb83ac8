----------------------------- MODULE AdminForms -----------------------------
(***************************************************************************)
(* Outreach with the change forms of Django Admin as they work: a form is  *)
(* rendered from a row, and a save, any time later, writes every editable  *)
(* field of the form back, the untouched ones with the values they had     *)
(* when the form was opened.  The row is read again in the transaction of  *)
(* the save, so read-only fields keep what workers wrote meanwhile.        *)
(***************************************************************************)
EXTENDS Outreach

CONSTANTS
    Operators,      \* staff users, each with one form open at a time
    Forms,          \* the kinds of rows whose forms they use
    CampaignEdits,  \* the statuses they choose on the Campaign form
    MaxResets       \* bound: saves that put a handled message back on offer, per message

ASSUME FormsAssumption ==
    /\ Forms \subseteq {"message", "member", "candidate", "campaign", "system"}
    /\ CampaignEdits \subseteq CampaignStatus
    /\ MaxResets \in Nat

VARIABLES
    form,           \* the form each operator has open: the row's values when it was opened
    resets,         \* history: the saves that put a message on offer that was not, per message
    switch          \* the last SYSTEM_PAUSED or SYSTEM_RESUMED event

formVars == <<form, resets, switch>>
allVars  == <<vars, formVars>>

NoForm == [kind |-> "none"]

MessageForm   == [kind : {"message"}, of : Messages, status : MessageStatus,
                  content : BOOLEAN, scheduledAt : Nat, retries : Nat]
MemberForm    == [kind : {"member"}, of : Members, row : Member]
CandidateForm == [kind : {"candidate"}, of : Candidates, row : Candidate]
InlineRow     == [status : MemberStatus, human : BOOLEAN]
CampaignForm  == [kind : {"campaign"}, of : Campaigns, status : CampaignStatus,
                  rows : [Members -> InlineRow]]
SystemForm    == [kind : {"system"}, outbound : BOOLEAN]

FormsInit ==
    /\ Init
    /\ form = [o \in Operators |-> NoForm]
    /\ resets = [g \in Messages |-> 0]
    /\ switch = "NONE"

----------------------------------------------------------------------------
(* Opening a form. *)

Shows(o, values) == form[o] = NoForm /\ form' = [form EXCEPT ![o] = values]

Open(o) ==
    /\ \/ \E g \in Messages :
            /\ "message" \in Forms
            /\ status[g] # "NONE"
            /\ Shows(o, [kind |-> "message", of |-> g, status |-> status[g],
                         content |-> content[g], scheduledAt |-> scheduledAt[g],
                         retries |-> retries[g]])
       \/ \E m \in Members :
            "member" \in Forms /\ Shows(o, [kind |-> "member", of |-> m, row |-> member[m]])
       \/ \E k \in Candidates :
            "candidate" \in Forms
            /\ Shows(o, [kind |-> "candidate", of |-> k, row |-> candidate[k]])
       \/ \E c \in Campaigns :
            /\ "campaign" \in Forms
            /\ Shows(o, [kind |-> "campaign", of |-> c, status |-> campaign[c],
                         rows |-> [m \in Members |->
                                     [status |-> member[m].status, human |-> member[m].human]]])
       \/ "system" \in Forms /\ Shows(o, [kind |-> "system", outbound |-> outbound])
    /\ UNCHANGED <<vars, resets, switch>>

----------------------------------------------------------------------------
(* Saving it: the fields the operator edits, and the others as shown. *)

Saves(o, kind) == form[o].kind = kind /\ form' = [form EXCEPT ![o] = NoForm]

\* sent_at and the other timestamps are read-only on this form; retry_count is not.
ShownEntry(o) == [content |-> form[o].content, scheduledAt |-> form[o].scheduledAt]

SaveMessage(o) ==
    /\ Saves(o, "message")
    /\ LET g == form[o].of IN
       /\ \E s \in AdminStatuses \union {form[o].status} :
            /\ SetStatus(g, s)
            /\ IF s \in Offered /\ status[g] \notin Offered
                 THEN /\ resets[g] < MaxResets
                      /\ resets' = [resets EXCEPT ![g] = resets[g] + 1]
                 ELSE UNCHANGED resets
       /\ \E e \in Entries \union {ShownEntry(o)} : Enter(g, e)
       /\ retries' = [retries EXCEPT ![g] = form[o].retries]
    /\ UNCHANGED <<now, outbound, people, sentAt, audit, job, sends, switch>>

\* messages_sent and the contact dates are editable, so they go back as well.
SaveMember(o) ==
    /\ Saves(o, "member")
    /\ LET shown == form[o].row IN
       \E e \in MemberEdits \union {[status |-> shown.status, human |-> shown.human]},
          c \in CountEdits \union {CountsOf(shown)} :
         member' = [member EXCEPT ![form[o].of] = Edited(shown, e, c)]
    /\ UNCHANGED <<now, outbound, campaign, candidate, queue, audit, job, sends, resets, switch>>

SaveCandidate(o) ==
    /\ Saves(o, "candidate")
    /\ \E c \in CandidateEdits \union {form[o].row} :
         candidate' = [candidate EXCEPT ![form[o].of] = Saved(c)]
    /\ UNCHANGED <<now, outbound, campaign, member, queue, audit, job, sends, resets, switch>>

\* The campaign and, in the inline forms, the editable fields of its members.
Posted(r, shown) == [r EXCEPT !.status = shown.status, !.human = shown.human]

SaveCampaign(o) ==
    /\ Saves(o, "campaign")
    /\ \E s \in CampaignEdits \union {form[o].status} : campaign' = [campaign EXCEPT ![form[o].of] = s]
    /\ member' = [m \in Members |-> IF CampaignOf[m] = form[o].of
                                      THEN Posted(member[m], form[o].rows[m])
                                      ELSE member[m]]
    /\ UNCHANGED <<now, outbound, candidate, queue, audit, job, sends, resets, switch>>

\* SystemStateAdmin.save_model reads the switch again before it compares.
EnabledWhenOpened(o) == form[o].outbound
PreviousEnabled(o) == outbound

Event(enabled) == IF enabled THEN "SYSTEM_RESUMED" ELSE "SYSTEM_PAUSED"

SaveSystemState(o) ==
    /\ Saves(o, "system")
    /\ outbound' \in BOOLEAN
    /\ switch' = IF outbound' # PreviousEnabled(o) THEN Event(outbound') ELSE switch
    /\ UNCHANGED <<now, people, queue, audit, job, sends, resets>>

\* The form is left without saving.
Leave(o) ==
    /\ form[o] # NoForm
    /\ form' = [form EXCEPT ![o] = NoForm]
    /\ UNCHANGED <<vars, resets, switch>>

----------------------------------------------------------------------------
(* Everything else happens as in Outreach. *)

Elsewhere ==
    \/ \E w \in Workers : WorkerStep(w) \/ Crash(w)
    \/ \E k \in Candidates : ApplyOptOut(k)
    \/ \E g \in Manual : AddMessage(g)
    \/ Tick

FormsNext ==
    \/ \E o \in Operators : \/ Open(o) \/ Leave(o) \/ SaveMessage(o) \/ SaveMember(o)
                            \/ SaveCandidate(o) \/ SaveCampaign(o) \/ SaveSystemState(o)
    \/ SetOutboundEnabled /\ switch' = Event(outbound') /\ UNCHANGED <<form, resets>>
    \/ Elsewhere /\ UNCHANGED formVars

FormsSpec == FormsInit /\ [][FormsNext]_allVars

----------------------------------------------------------------------------
(* What must hold. *)

\* The rows keep their types under forms saved over newer rows, and a form
\* shows values the row can have.
FormsTypeOK ==
    /\ TypeOK
    /\ \A o \in Operators : form[o] \in {NoForm} \union MessageForm \union MemberForm
                              \union CandidateForm \union CampaignForm \union SystemForm
    /\ resets \in [Messages -> Nat]
    /\ switch \in {"NONE", "SYSTEM_PAUSED", "SYSTEM_RESUMED"}

\* Each send of a message after the first was made possible by a form, open for
\* however long, that put the message back on offer: no lost update of a status
\* by a stale form lets two workers share one offer.
SendsAreAccounted ==
    \A g \in Messages : sends[g] <= 1 + resets[g]

\* The trail of pauses and resumptions ends with what the switch is, although
\* two operators and set_outbound_enabled write it from forms of different age.
SwitchIsAudited ==
    outbound <=> switch # "SYSTEM_PAUSED"
=============================================================================
