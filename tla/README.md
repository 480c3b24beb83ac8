# A verification of Academy Outreach

Academy Outreach is a Django application that sends admissions messages. People
(candidates) are imported from CSV files into campaigns; worker processes pick
campaign members that have not been written to, have an agent generate a message,
check a deterministic policy and hand the message to a sender. Operators work
through Django Admin while the workers run. A separate script, `standalone/outreach.py`,
does the same from a CSV file with a log file as its only memory.

The modules here model that behaviour in TLA+. TLC checks them on small instances,
TLAPS proves every safety property of those runs for every size. The source is the
reference: `PROJECT.json` names, for every definition, the lines it translates.

## 1. Inventory

### Components, their state and their operations

| component (source) | state | operations |
|---|---|---|
| message worker (`messaging/worker.py`, `run_message_worker`) | a program counter, a Python `Message` object with cached related rows | `process_next`: pause check, `next_due_message`, enqueue, policy, generation, policy, claim, policy, send, commit |
| outbound policy (`messaging/policies.py`) | none; reads SystemState, campaign, candidate, member, messages | `evaluate_outbound` |
| queue (`messaging/queue.py`) | `Message` rows | `enqueue_next_eligible`, `enqueue_initial_message`, `next_due_message` |
| generation (`agents/services.py`) | `Message` rows | `generate_pending_message` (claim, agent call, decision), `_fail_generation` |
| agent contract (`agents/schemas.py`) | none | `AgentDecision.from_mapping`, the declared tool schema |
| OpenClaw client (`agents/openclaw.py`, `agents/client.py`) | the exchange in progress | `validate_configuration`, request for a decision and its parsing, request for delivery and its parsing |
| senders (`messaging/sender.py`) | none | `get_sender`, `FakeSender.send`, `OpenClawWhatsAppSender.send` |
| messages, global pause (`messaging/models.py`, `system_state.py`) | `Message`, the `SystemState` row | `transition_to` (tests only), `set_outbound_enabled`, the SystemState form |
| opt-out (`messaging/opt_out.py`) | `Candidate` | `apply_opt_out` |
| campaigns and members (`campaigns/`) | `Campaign`, `CampaignMember` with its constraints | activate, pause, forms, import view |
| candidates (`candidates/`) | `Candidate`, unique phones and emails | `save` (opt-out rule), normalisation, form |
| Admin forms (`*/admin.py`) | the values a form was rendered with | open, save over the row, leave |
| CSV import (`integrations/csv_import.py`) | the loop's seen sets and report | `import_candidates_csv`, a transaction per row |
| audit trail (`audit/`) | `AuditEvent` rows | creation only |
| standalone script (`standalone/outreach.py`) | log, review queue, do-not-contact file | `main`, once per invocation |

### How they interact

Everything but the script shares one SQLite database. A worker calls queue, policy,
generation and sender in one function, without a transaction around them: only single
statements (`filter(...).update(...)`, `save`) and the `transaction.atomic` blocks are
atomic. Other workers, imports, opt-outs and Admin forms commit between any two of
them. The worker's `Message` object caches related rows, so what it reads may be older
than what the database holds; `refresh_from_db` drops that cache. Generation and
delivery go over HTTP to an OpenClaw Gateway, with a timeout after which the fate of
the request is unknown.

### What is hard

* Two workers race for the enqueueing, the generation and the sending of one message;
  the only guards are a unique key and two compare-and-set updates.
* The loser of the enqueue race gets the winner's message and treats it as its own.
* Pauses, opt-outs and human locks arrive while rows are cached, during an agent
  call of many seconds, and during a send.
* Workers die after a claim, agents and senders fail or time out with the provider's
  state unknown; a request given up on may be delivered later, and again when the
  message is retried.
* What an agent answers is checked by the client and again by Django, and the
  parser has to find the one item of a response that speaks for it.
* Rate limits count confirmed messages, so messages in flight escape them; windows
  have edges; confirmations commit out of order.
* A deferred message returns every minute and competes with the others.
* Imports, operators and workers write the same candidates; a form writes every field
  back as it was when it was opened.
* The script's request and its log entry are two steps, other runs know the log
  only, and nothing keeps two runs apart.

`PROJECT.json` lists these one by one under `hazards`, each at its line, with the
properties aimed at it.

### What makes each component correct

* Worker, queue, generation: one worker per message at a time, at most one hand-over
  to the sender, everything sent was queued, generated and approved, counts agree
  with confirmations, a message in flight has a worker and does not stay in flight, a pause
  lets through no more than what workers have in hand, every stop is on record. Taken
  together: each message goes through the stages of `Contact`.
* Policy: no gate that was closed when a message was claimed and stays closed is
  passed; hourly, daily and interval limits exceeded by no more than what is in flight.
* Contract and client: Django acts on nothing outside the declared schema, SENT means
  delivered, a message is delivered once: what `Delivery` promises.
* Candidates and opt-out: an opt-out is not undone by a worker or an import.
* Forms: however stale, they cannot let two workers share one offer of a message,
  nor separate the switch from its audit trail.
* Import: constraints never break it off, what it reports is in the campaign, only rows
  that repeat one of their own file are left out as duplicates, and a person's phone and
  email are overwritten only as the person joins one more campaign.
* Script: one request per number and run, a session limit on the calls that return, the
  list respected as read, repeats only through overlapping runs and lost log entries.

## 2. Modules

| module | what it is |
|---|---|
| `Outreach` | the messaging core: workers, database, operators, clock |
| `Contact` | abstract specification: what the core promises about each message |
| `OutreachContact` | the refinement mapping from `Outreach` to `Contact` |
| `OutreachGates` | `Outreach` with a history variable that remembers which gates were open since a worker took its message |
| `AdminForms` | `Outreach` with change forms that stay open while rows change, and with the audit of the switch |
| `AgentContract` | the decision contract and the parsing of gateway responses, as operators |
| `OpenClaw` | the exchanges of workers with agent and gateway over an unreliable network; uses `AgentContract` |
| `Delivery` | abstract specification: what the exchange with the provider promises about each message |
| `CsvImport` | concurrent imports into the same campaign and into others |
| `Standalone` | runs of the script that may overlap |
| `MCOutreach`, `MCGates`, `MCAdminForms`, `MCOpenClaw`, `MCCsvImport`, `MCStandalone` | instances for TLC |
| `OutreachProofs`, `ContactProofs`, `GatesProofs`, `LimitsProofs`, `FormsProofs`, `OpenClawProofs`, `CsvImportProofs`, `StandaloneProofs` | theorems |

### Outreach

One action is one database statement or one atomic block, since SQLite's transactions
are serializable. `pc[w]` is the place in `process_next`; `msg[w]` and `copy[w]` are its
`message` object: the status and content it loaded, whether related rows are cached
(`copy.cached`, `copy.row`), and the `sent_at` it will store (`copy.stamp`). Database
columns are variables of their own, functions from primary keys.

| code | action |
|---|---|
| `worker.py:85-86` pause on entry | `Begin` |
| `queue.py` selection, eligibility, `get_or_create` | `NextDueMessage`, `EnqueueNextEligible`, `EnqueueInitialMessage` |
| `policies.py` SystemState, then the other rules | `ReadSystemState`, then `CheckBeforeGeneration`, `CheckBeforeClaim` or `FinalCheck` |
| `services.py` claim, decision, failure | `ClaimGeneration`, `ApplyDecision`, `DecisionContended`, `FailGeneration` |
| `worker.py` reload, claim, rollback, block | `ReloadGenerated`, `ClaimSend`, `Rollback`, `RecordBlock`, `WriteAudit` |
| `worker.py` approval, send, outcome | `Approve`, `SenderNotLoaded`, `Send`, `CommitFailed`, `CommitSent`, `CommitRefused` |
| the process is killed, or an uncaught database error (such as "database is locked") ends it | `Crash` |
| operators | `SetOutboundEnabled`, `ActivateCampaigns`, `PauseCampaigns`, `ApplyOptOut`, `EditCandidate`, `EditMember`, `EditMessage`, `AddMessage` |

Abstractions:

* Texts are present or absent (`content`); answers of agent and sender are chosen
  from `Answers`. `OpenClaw` shows what they may be and where they come from.
* Limits, interval and dates of a campaign are constants. Campaign statuses other than
  ACTIVE behave alike (COMPLETED and CANCELLED are PAUSED); candidate statuses REPLIED,
  INTERESTED and NOT_INTERESTED behave like CONTACTED.
* The rule DUPLICATE is absent: idempotency keys are unique in the database, so no
  second row can match it.
* `evaluate_outbound` is two steps: the SystemState read, and the rest. Between the
  single reads of the rest another process could commit; the second step takes them
  at one moment, and the clock is read there.
* Members are enqueued in key order, which is their creation order. Ties of
  `scheduled_at` are resolved arbitrarily.
* `apply_opt_out` has no caller in the code yet (inbound messages are deferred by the
  architecture document); it is modelled as an operation an operator triggers, the
  Candidate form does the same through `EditCandidate`.
* Operators' edits in `Outreach` take effect on the row as it is; `AdminForms` has the
  forms that are older than their row. What operators choose is a constant per form:
  `CandidateEdits`, `MemberEdits` (status and lock), `CountEdits` (`messages_sent` and the
  contact dates, in the order the constraint demands), `AdminStatuses` (of a message that exists),
  `AddedStatuses` (of one they add) and `Entries` (text present or not, and schedule).

### Contact and its refinement

`Contact` has two variables: the stage of each message (open, claimed, handed,
confirmed, closed) and each member's count. A message is claimed, given back or handed
over, a handed one is confirmed and counted in the same step, and what is closed stays
closed. The status column alone does not give the stage, because a worker that
lost the enqueue race may overwrite it at any time (section 5). `StageOf` therefore reads, in
this order: the audit trail (MESSAGE_SENT: confirmed), the history of hand-overs
(handed), the workers that hold the message (claimed), its status (on offer: open), else
closed. `ImplementsContact` is checked by TLC and proved, if operators neither put handled
messages back on offer (`NoManualRetry`, about `AdminStatuses`) nor write a member's counts
(`NoManualCounts`, about `CountEdits`).

### OutreachGates

Adds `open[w]`: the gates (not paused, campaign active, candidate contactable, no human
lock) that were open at some moment since the worker selected, enqueued, reloaded or
claimed its message. The policy is read in pieces from rows of different ages, so "all
gates are open when we send" is false in the code and cannot be made true without
locks; what the code does achieve, and what is checked, is that each gate was open at
some moment after the claim. A gate that was closed at the claim and stayed so stops
the message.

### AdminForms

Each operator has one form open: of a message, a member, a candidate, a campaign with
its inline members, or SystemState. Saving it writes every editable field back (a message's
`retry_count`, a member's counts and dates among them), the untouched ones as they were shown,
over whatever workers wrote meanwhile; read-only fields are not written. So an old form can take back an opt-out, a human lock, a
member's `messages_sent`, or put a message that was sent back to READY: these are what
Django's forms do, not errors of the model. What still holds is counted: `resets[g]` is the
number of saves that put a message back on offer, and `SendsAreAccounted` says that sends
never exceed them by more than the first one. `switch` is the last SYSTEM_PAUSED or
SYSTEM_RESUMED event; `SystemStateAdmin.save_model` reads the previous value again in the
transaction of the save, which is what `SwitchIsAudited` rests on.

### AgentContract and OpenClaw

A JSON value is told apart by what the validation looks at: its keys, the kind of each
field, and for texts what `strip()` and the length limit make of it ("padded" keeps its
limit only once stripped). `ParseResponse` picks the one item that speaks for a
response. `ToolSchema` is the contract as `ADMISSIONS_DECISION_TOOL` declares it.

`OpenClaw` abstracts who may work on what (the matter of `Outreach`: here a claim, its checks
and the call are one step) and details the calls: `Configured` is
`validate_configuration`, `Recommended` what each kind of agent may propose, `StartGeneration` and `ApplyDecision` are a request for a
decision and its (second) validation, `StartDelivery`, `CommitSent` and
`CommitFailed` a delivery. Requests in `net` are delivered, declined or lost in any
order and at any time, also after the worker gave up or was killed. The gateway is
external: it delivers one request per idempotency key, which is what the client's use of
the key supposes. What the code has to do for `DeliveredOnce` is to keep the key of a
message through all its attempts; that messages without a key are refused is part of it, and
that a message without text is cancelled by the policy before it gets there (`BlockBlank`).
The key is a field of the Message form: operators may change it within `KeyEdits`, under the
unique constraint. In the run they may blank it; a key that is neither a message's own nor
blank takes from the gateway the only thing it knows a request by, so `SentIsDelivered`,
`DeliveredOnce` and `ImplementsDelivery` have the condition `NoNewKeys`, stated beside them.

`Delivery` is the abstract specification of the exchange, in three variables: which
messages were asked for, how many copies of each were delivered, which are on record as
sent. A copy needs a request and is the only one for good; a record needs its copy and may
be given up, because operators and later attempts take SENT away. `OpenClaw` maps
`asked` to the messages with an attempt, `copies` to the number of delivered requests of
a message, `recorded` to status SENT (`Promise`, at the end of the module).

Things the modelling showed that no property is about: a message added by hand
without an idempotency key can never be sent through OpenClaw; a "send" decision with a
reason is accepted although the instructions ask for null; a list as the JSON body of an
error response raises AttributeError, which generation and worker catch and
`check_openclaw` does not; `AgentResponseValidationError` is not an `OpenClawError`;
`docs/architecture.md:43-45` speaks of a required function call, but the payload offers no tools
and a plain message is accepted; and a message generated anew after a failed delivery
keeps its key, so the gateway's first text is what was delivered, the second is on record.

### CsvImport

A row is read (`ReadRow`: malformed, seen before, or remembered) and then imported in
its own transaction (`ImportRow`: conflicting, opted out, already a member of this import's
campaign, updated or created). Membership is looked up per campaign: an import into another
campaign does overwrite the phone and email of a person who is a member elsewhere, since the
candidate is shared, and `OverwritingJoins` says that this is the only way. Two imports, opt-outs and confirmations interleave; an import may break off
and be repeated from the first row. Phones and emails are normalised values, "bad" is
a value the normalisation rejects. Header validation, other columns and field clean-up
are left out.

### Standalone

Runs share log, review queue and do-not-contact file, and copy list and log once at
their start. Request and log entry are two steps; a call that raises may have made its request
(`SendFails`, `raised`), which is then neither logged as requested nor counted. Names, texts, prompts and the browser
automation itself are left out; the operator's confirmation is the choice between
sending and declining. With `Overlap` runs may run at the same time, for which the
script has no guard: `earlier[r]` are the runs that had ended when r started, and
`added[r]` the numbers listed since r read the list.

## 3. What TLC checks

| run | instance | shows |
|---|---|---|
| `outreach_safety` | 2 workers, 1 member, crashes, every answer, operators who pause, opt out, reinstate, lock and cancel; clock at 0 | `ImplementsContact`, `AtMostOnceSend`, `ExclusiveClaim`, `DncForcesStatus`, `OnlyGeneratedIsSent`, `CountsMatchConfirmations`, `TypeOK` |
| `outreach_limits` | 2 workers, 3 messages (one added by hand, READY) of one campaign, clock 0..3, hour 1, day 3, limits 1 | `HourlyBound`, `DailyBound` |
| `outreach_gates` | 1 worker, 2 messages of one member, one added by hand as PENDING, READY or SENT without text and for later, texts taken away, all operators, clock 0..1 | `GatesOpenSinceClaim`, `GatesOpenSinceSelection`, `IntervalBound`, `SentIsFinal` with one worker |
| `outreach_live` | 2 fair workers, 1 message, pauses and campaign changes | `InFlightIsHeld`, `InFlightResolves`, `PauseDrains`, `StopsAreAudited` |
| `outreach_due` | 1 fair worker, 2 messages of 2 campaigns, clock 0..2 | `DueIsHandled` |
| `openclaw` | 2 workers, 2 messages, 2 delivery attempts each, the three kinds of agents, 6 settings of the endpoint, losses and delays, crashes, retries by hand, texts and keys blanked | `ImplementsDelivery`, `SentIsDelivered`, `DeliveredOnce`, `ActsOnContract`, `TypeOK` |
| `admin_forms` | 2 workers, 1 member, 1 operator with any form open, `set_outbound_enabled`, 1 save that offers a message again, counts set back | `SendsAreAccounted`, `SwitchIsAudited`, `FormsTypeOK` |
| `csv_import` | 2 imports of 2 rows into one campaign or two, 2 phones, 2 emails, 4 candidate keys, 1 abort | `ConstraintsNeverRefuse`, `DuplicatesRepeat`, `ReportedAreJoined`, `OptedOutUntouched`, `ContactedNotReset`, `OverwritingJoins`, `TypeOK` |
| `standalone` | 2 runs that may overlap, 3 numbers, 3 inputs of up to 4 rows, limit 2, calls that raise before or after the request left, lost log entries, crashes, a growing list | `OncePerRun`, `SessionLimitKept`, `RepeatsAreLostEntries`, `ListedAreSpared`, `TypeOK` |
| `sent_is_final`, `confirmed_is_recorded`, `campaigns_independent` | small | a statement of the repository the code does not keep (section 5) |

Why the bounds are enough. The races are between two holders of one message or
two messages of one member, one campaign or one candidate: two workers and two or
three messages produce all of them. `MaxTime` leaves room for two windows of the limit
in question and for the edge between them; at the bound a deferral moves a message
beyond the clock, so the runs about time check what happens before it. `MaxSends`
bounds how often operators edit a message that was already sent, `MaxResets` how often
forms offer it again, `MaxAttempts` the calls for its delivery, `MaxAborts` the imports
started over. `outreach_safety` keeps the clock at 0, where neither dates nor limits
interfere; the runs with a clock do without crashes and edits. `admin_forms` has one
operator (with two the state space is out of TLC's reach) beside
`set_outbound_enabled`, which needs no form. The theorems of section 4 hold without any
of these bounds, which is the better answer: the runs are where the formulas were tried
out and where each is shown to fail under a plausible bug.

Where an instance is smaller than what its property is about, the theorem is the
evidence: `outreach_gates` has one worker, so that `IntervalBound` allows no excess there
(`IntervalHolds` covers the rest). `outreach_live` has one message and no crash, so that
`StopsAreAudited` does not see a worker killed between a stop and its record; the code has
no transaction around the two, and such a stop stays without one. The contact dates need
two messages of one member: `ConfirmationsFit` is proved (`ConfirmationsAreTaken`) and not run.

`VIEW Observed` in the limits and gates runs leaves out `audit`, `retries` and `sends`:
with no hand edits (`AdminStatuses = {}`) they are written and never read, by the
actions or by those properties. `SYMMETRY` is over workers, importers, runs or messages
that no constant tells apart, and only in runs without liveness.

Deadlock is checked in all runs but two: a worker that finds nothing to do polls
again, and while outbound is paused an operator can resume it. `csv_import`
and `standalone` end, so theirs is not.

### Fairness

`FairSpec` assumes weak fairness of each worker's steps: the command loops for ever, a
database call returns, and the agent and sender calls have timeouts. Nothing is assumed
of operators, crashes or the clock. `InFlightResolves` is checked without crashes: a
worker killed between a claim and its outcome leaves the message in GENERATING or
SENDING for good, since no code takes such messages up (a hazard, not a promise).
`DueIsHandled` allows for a pause: while `outbound_enabled` is false, nothing is due to
anyone.

## 4. What is proved

Every safety and action property of the passing runs, for any sets of workers, members,
campaigns, messages, operators, importers and runs, any limits, clock bound, files, inputs,
answers and settings. The assumptions are the named ones on the constants in the
modules (keys are positive and distinct, limits are naturals, files hold rows, what operators
save is well formed, ...) and, where named in the theorem or the property, one of

* `NoManualRetry`: operators do not put a message back to PENDING, GENERATING or READY;
* `NoManualCounts`: operators do not write a member's `messages_sent` and contact dates;
* `NoNewKeys`: operators give no message another idempotency key (they may blank it);
* `OnlyWorkersStop`: operators neither cancel or fail messages nor add any as such, and workers are
  not killed;
* `OnlyWorkersSend`: operators neither set SENT and the like nor add messages as sent; workers and
  messages are finite;
* `OneWorker`: there is one worker process;
* `DatesFit`: `NoManualCounts`, and one worker or one message per member (`Manual = {}` and
  `NoManualRetry`);
* `NothingStrands`: no worker is killed, the sender loads, operators set no in-flight status and add
  no message with one;
* `~Overlap`, `Failures = {}`: runs of the script do not overlap; neither is a log entry lost
  nor a run killed, and a call that raises has made no request.

Without `NoManualRetry` an operator who sets a sent message to READY has it sent again; without
`NoManualCounts` the Member form, which has both fields, says what a member was sent; without `NoNewKeys`
the gateway delivers a retried message twice, or takes it for another one; without
`OnlyWorkersStop` a stop has nobody to record it; without `OnlyWorkersSend` the counting policy
is passed by. `OneWorker` and `DatesFit` describe installations, not the code, and are what the
repository's own statements need: the runs `sent_is_final` and `confirmed_is_recorded` violate
them with two workers. Without `NothingStrands` a message stays SENDING, as the hazards on killed
workers say. `~Overlap` is how the script's documentation expects it to be used, nothing in the
script enforces it.

| module | theorems | inductive invariant |
|---|---|---|
| `OutreachProofs` | `TypeCorrect`, `SendsAtMostOnce`, `ClaimsAreExclusive`, `OptOutIsKept`, `StopsAreRecorded`, `PausesDrain`, `CallsAdvance`, `OneWorkerKeepsSent` | `ClaimInv`; for the stops `RecordsDue` and the property; `HeldIsNotSent` |
| `ContactProofs` | `CoreImplementsContact`, `ContactIsKept`, `CountsAreExact`, `SentWasGenerated`, `ConfirmationsAreTaken`, `NoneIsStranded` | `ConfirmInv`, `CountInv`, `MarksInv`, each on top of `ClaimInv`; `FirstIsConfirmed`, `FirstsArePast` |
| `GatesProofs` | `GatesTypesHold`, `SendsAfterOpenGates`, `AsksAfterOpenGates`, `GatesImplementCore` | `GatesInv` |
| `LimitsProofs` | `HourHolds`, `DayHolds`, `IntervalHolds` | `HourInv`, `DayInv`, `IntervalInv` |
| `FormsProofs` | `FormsTypesHold`, `SendsHaveOffers`, `SwitchKeepsItsTrail`, `OptOutSurvivesForms` | `OfferInv` |
| `OpenClawProofs` | `TypeCorrect`, `DeliversOnce`, `SentWasDelivered`, `ContractIsKept`, `RevalidationKeeps`, `OnePartSpeaks`, `ExchangeImplementsDelivery`, `PromiseIsKept` | `DeliveryInv`, `AskedInv` |
| `CsvImportProofs` | `TypeCorrect`, `KeysHold`, `ReportsAreBacked`, `DuplicatesAreRepeats`, `OptOutsAreKept`, `ContactsAreKept`, `OverwritesJoin` | `TypeInv`, `ReportInv`, `SeenInv` |
| `StandaloneProofs` | `TypeCorrect`, `RequestedOnce`, `LimitHolds`, `RepeatsAreExplained`, `ListIsRespected`, `SuccessiveRunsLogOnce`, `RequestedOnceEver` | `MarksInv`, `LimitInv`, `LogInv`, `ListInv`, `SuccessionInv` |

**Claims.** `AtMostOnceSend` is not inductive: nothing in it forbids a message that was
sent and is READY. Neither is `ExclusiveClaim`: a held message might be on offer to
somebody else. `ClaimInv` puts the two together with what is missing:

* `OneHand`: at most one worker generates or sends a message;
* `HeldIsNotOffered`: a held message is in none of the statuses a claim or an
  insertion starts from (no row, PENDING, READY). It may well be in a status that
  the holder did not write, because `_record_block` and `_fail_generation` overwrite
  what they find: exclusion rests on these writers never writing PENDING or READY;
* `SentIsSpent`: a message that was handed over was so once, is not on offer, and
  nobody holds it in a place from which it could be sent or offered again.

Four kinds of steps are distinguished, each with a lemma: steps that change no claim
(`QuietSteps`), claims (`ClaimSteps`), steps by which the only holder offers the message
again (`OfferSteps`: a decision to send, a rollback) and the send. Every action is
shown to be of its kind.

**Refinement.** `ConfirmInv` ties confirmations to hand-overs: a MESSAGE_SENT event implies
a send, and a worker about to commit a confirmation holds a sent, unconfirmed message.
Each worker step then moves at most its own message, from a stage to the one `Contact`
allows next (`WorkerContact`), and operators' steps close messages at most. `ContactIsKept`
proves the promise on the abstract side and carries it over the refinement. That an exact
count is a sum over a set is `CountInv`, with finiteness of the set as part of it.

**Marks.** `MarksInv` carries the audit trail along: a message that exists by a worker's
insertion was queued, a READY or sending one was generated, one that is past approval has
its approval on record, an escalated one can no longer come to be sent.

**Calls.** `CallsAdvance` gives each place of `process_next` a rank and shows that every step
of a call raises it (`Advances`): a call ends, or waits for agent or sender, whatever other
workers do to its message. `PausesDrain` needs no more than the place of each
worker: the last look at SystemState is the only way past it. `HeldIsNotSent`, with one
worker, is why its blocks and rollbacks never find a sent message.

**In flight.** `InFlightIsHeld` is inductive beside `ConfirmationsFit`: a worker that leaves its
message in GENERATING or SENDING would have to be one whose confirmation the database refused
(`CommitRefused`). A confirmation fits if the member has no first contact yet or one
that is not later than the message's stamp. With one message per member the first contact
of a member belongs to a confirmed message, and nobody confirms it twice (`FirstIsConfirmed`);
with one worker, the stamp is read after every earlier commit (`FirstsArePast`).

**Gates.** A worker knows a gate was open since its claim at the latest when it read it
then. `KnownRow` (what the cached row says), `KnownSwitch` (SystemState was read and on)
and `KnownGates` (a verdict PASS was given) say what it knows at which place.

**Limits.** The bounds allow one message in excess per other worker because a check does not see
messages in flight. Counting sent messages alone is not inductive. `Counted` adds the
messages of workers that are past their last check, at a time from which they may still
be stamped into the window. Only a passed check adds a message to it; at that moment
the policy has counted what was sent, which was less than the limit, and the rest is in the
hands of the other workers, at most one message each.

**Forms.** `OfferInv` is a balance per message: its sends, the workers that hold it and
one if it is on offer are at most one plus the saves that offered it anew. A
stale form may break `OneHand`, two workers then hold one message at once; the balance shows that each of
them took up an offer of its own. `OptOutSurvivesForms` extends the opt-out rule to forms of any age:
`Candidate.save` applies it to every stale save.

**OpenClaw.** `DeliveryInv`: all requests of a message carry its one key, the gateway
knows exactly the keys it delivered, and who has read or recorded a confirmation has it for
a message that was delivered. It rests on each message having its own key or none (`OwnKeysKept`). For the refinement, `AskedInv` says that whatever travels was
counted as an attempt; the cardinality `copies` stands for is 0 or 1 by `DeliveryInv`
(`CopiesCounted`). `OnePartSpeaks` is about the parser alone: whatever the parts of a response,
the decision is the validated text of exactly one.

**Import and script.** `ReportInv` bounds what an import reports by the members of its campaign,
over aborted and repeated runs, with finiteness of these sets as part of it. `SeenInv` traces each
phone and email an importer remembers to a well-formed row of its file that it has read since it
was last started: that is why only repeated rows are left out as duplicates. `OverwritesJoin` needs no more
than the membership check being in the transaction of the write. `MarksInv` puts requested numbers
into `seen`. `LimitInv` splits the numbers requested into those whose call returned, which `sentCount`
bounds, and those whose call raised. `LogInv` says where a request is between the call and the
log, and what a later run has read of it; `ListInv` splits the list into what was read and
what was added since. `SuccessionInv` orders runs
that do not overlap: each has read the log of those before it, so a number is requested twice
only if its entry was lost (`SuccessiveRunsLogOnce`), and without loss once for all
(`RequestedOnceEver`).

Proved, but in no run: `OptOutSurvivesForms`, `SuccessiveRunsLogOnce` and `RequestedOnceEver`. The
first needs forms and opt-outs together, whose state space is out of TLC's reach; the others
are about an instance without overlap, while the `standalone` run is about one with it.

Model-checked only: the liveness properties `InFlightResolves` and `DueIsHandled` (liveness
under fairness is out of the prover's reach; `NoneIsStranded` and `CallsAdvance` prove what is
safety in the first: a message in flight has a worker, whose steps go forward), and the refuted
statements of section 5.

## 5. Where the code and the repository's own words part

* `SentIsFinal` (`messaging/models.py:32`, `docs/architecture.md:20-21`): a worker that lost
  the enqueue race blocks a message as INVALID_CANDIDATE, from a copy with blank content,
  and `_record_block` writes CANCELLED over SENT. With one worker it holds
  (`OneWorkerKeepsSent`).
* `ConfirmedIsRecorded` (`docs/architecture.md:38-39`): two workers that confirm two messages
  of one member out of order make `first_contact_at` later than `last_contact_at`; the
  constraint refuses the second commit and the confirmed message stays SENDING. It takes
  both, two workers and two messages of one member (or one retried by hand; `ConfirmationsAreTaken`).
* `CampaignsAreIndependent` (`docs/architecture.md:11-12`): the first campaign's message makes
  the candidate CONTACTED, and members of other campaigns are never enqueued.

Also met, and stated as the exception in a property that holds:

* A request of the script whose log entry cannot be written is made again by the next run
  (`lost` in `RepeatsAreLostEntries`), and so is one of a run that overlaps, although
  `standalone/README.md:91-93` says a repeated campaign name prevents it. Without overlap and
  losses it is true (`RequestedOnceEver`).
* `standalone/README.md:103` calls `--max-messages` the "Maximum real send requests per run".
  `sent_count` is raised after `send_whatsapp` returns (`outreach.py:229-230`): a call that raises after
  the message has left (closing the tab is part of the same call) is one more request, and is
  logged as failed. `SessionLimitKept` bounds the requests by the limit plus the calls that raised.
* `README.md:92-94` of the repository says that setting `outbound_enabled` to false stops "outbound
  processing immediately". It does not quite: SystemState is read for the last time in the final check
  (`worker.py:129`), the message is sent at `worker.py:149`, and a pause in between goes unseen.
  `PauseDrains` is what holds: one send per worker at most, of a message that was past its final check
  when the pause came. With an agent call in progress nothing follows, the checks after it see the pause.

What the code does, and no document denies:

* An import into a second campaign overwrites the phone and email of a person who is a member
  of the first; messages of the first campaign then go to the new number (`OverwritingJoins`).
* A row whose transaction rejects it (two candidates match) is remembered as seen, so a later good row
  with the same phone or email is left out as a duplicate and the person is not imported.
* A stale form takes back what workers and opt-outs wrote, and a Member form also the counts.

## 6. Not modelled

* `check_openclaw`, `check_health`, the Gateway's URLs, HTTP headers and the wording of
  requests and templates: they read, or format, and change no state.
* Phone and email normalisation character by character (a library decides; the model has
  accepted and rejected values), opt-out patterns, header validation and clean-up of CSV
  fields.
* A campaign's limits, interval and dates while workers run: the campaign form can change them,
  the model has them as constants. A changed limit would make the bounds of `LimitsProofs`
  statements about the largest limit in the window.
* The import's and the opt-out's audit events: nothing reads them.
* `transition_to`: only tests call it; its table is what `SentIsFinal` quotes.
* Deleting rows in Admin. A message may be deleted there (candidates, campaigns and members with
  messages may not: `on_delete=PROTECT`). Its idempotency key is free again then, and if the member is
  still READY a worker enqueues the initial message anew, so a sent message that is deleted, and whose
  member and candidate are set back to READY, is sent once more; a worker that holds a deleted message
  fails at its next `save(update_fields=...)` or finds nothing to claim. The model's messages stay.
* A message's candidate, campaign, member and direction, which the Message form can change, and its
  idempotency key in `Outreach` (it is in `OpenClaw`): with another key on its initial message a member
  that is put back to READY could be enqueued a second time. Inbound messages can be added by
  hand; no worker selects them.
* `provider_message_id`, `failure_reason` and, in `AdminForms`, `idempotency_key`: the Message form writes
  them back stale as well, and no step of a worker depends on the first two. A stale key is the
  one the message had, or one an operator took from it, which `KeyEdits` stands for.
* Admin list pages, settings of Django and entry points.
* Inbound messages, replies and delivery receipts are not implemented by the code: the
  statuses exist, nothing writes them.

## 7. Plan

Done: `Outreach`, `OutreachGates`, `CsvImport`, `Standalone`, `Contact` with its refinement,
`AgentContract`, `OpenClaw`, `Delivery` with its refinement, `AdminForms`, and the
proofs of all their safety properties.

Left:

1. `Scheduler`: deferral with relative times instead of a bounded clock, where a minute's
   worth of deferred messages can keep `enqueue_next_eligible` from ever being called.
2. Limits, interval and dates of a campaign as variables the campaign form writes, and the
   bounds restated over them.
3. Audit events of imports and opt-outs, should anything come to read them.
4. Content versions in `OpenClaw`: the text delivered against the text on record after a retry.
