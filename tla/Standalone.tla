----------------------------- MODULE Standalone -----------------------------
(***************************************************************************)
(* The standalone CSV tool (standalone/outreach.py): runs of one campaign  *)
(* that share a log file, a review queue and a do-not-contact list.  A run *)
(* reads the list and the log once, at its start, and appends to the log   *)
(* row by row; a send and its log entry are two steps, and the entry may   *)
(* not be written.                                                         *)
(***************************************************************************)
EXTENDS Integers, FiniteSets, Sequences

CONSTANTS
    Runs,           \* invocations of the script for one campaign, in any order
    Phones,         \* normalised phone numbers
    Inputs,         \* what the input file may hold when a run reads it
    MaxMessages,    \* --max-messages
    Failures,       \* "log": a log entry may not be written; "crash": a run may be killed;
                    \* "send": the browser may send the message and raise after it
    Overlap         \* TRUE: a run may start while another one is going on

Bad == "bad"        \* a phone that normalize_phone rejects

Prospect == [phone : Phones \union {Bad}, optOut : BOOLEAN, consent : BOOLEAN, complete : BOOLEAN]

\* What a cell of consent or opt-out means is read with is_truthy; parse_args
\* refuses a limit below 1.
ASSUME StandaloneAssumption ==
    /\ Inputs \subseteq Seq(Prospect)
    /\ Bad \notin Phones
    /\ MaxMessages \in Nat \ {0}
    /\ Failures \subseteq {"log", "crash", "send"}
    /\ Overlap \in BOOLEAN

VARIABLES
    requested,      \* phones with a send_requested entry in the log
    review,         \* phones in the review queue
    doNotContact,   \* phones in the do-not-contact file
    pc,             \* per run: "new", "row", "send", "log"; "done" or "dead" when it is over
    rows, at,       \* its input and the row it is at
    sending,        \* whether it was given --send
    blocked, previous,  \* its copies of the list and of the logged requests
    seen, sentCount,    \* what it has met and how many requests it has made
    sends,          \* history: requests made, per run and phone
    lost,           \* history: phones whose request left no entry in the log, per run
    raised,         \* history: phones whose request was made by a call that raised, per run
    earlier,        \* history: the runs that were over when the run started
    added           \* history: phones put on the do-not-contact list since the run started

files   == <<requested, review, doNotContact>>
own     == <<pc, rows, at, sending, blocked, previous, seen, sentCount>>
history == <<sends, lost, raised, earlier, added>>
vars    == <<files, own, history>>

Init ==
    /\ requested = {}
    /\ review = {}
    /\ doNotContact \in SUBSET Phones
    /\ pc = [r \in Runs |-> "new"]
    /\ rows = [r \in Runs |-> <<>>]
    /\ at = [r \in Runs |-> 1]
    /\ sending = [r \in Runs |-> FALSE]
    /\ blocked = [r \in Runs |-> {}]
    /\ previous = [r \in Runs |-> {}]
    /\ seen = [r \in Runs |-> {}]
    /\ sentCount = [r \in Runs |-> 0]
    /\ sends = [r \in Runs |-> [p \in Phones |-> 0]]
    /\ lost = [r \in Runs |-> {}]
    /\ raised = [r \in Runs |-> {}]
    /\ earlier = [r \in Runs |-> {}]
    /\ added = [r \in Runs |-> {}]

----------------------------------------------------------------------------
\* load_previous_sends keeps the requests that succeeded, load_do_not_contact
\* every number it can read.
NoPreviousSends == {}
LoadPreviousSends == requested

NoDoNotContact == {}
LoadDoNotContact == doNotContact

Over(q) == pc[q] \in {"done", "dead"}

MayStart(r) == pc[r] = "new" /\ (Overlap \/ \A q \in Runs : pc[q] = "new" \/ Over(q))

\* main up to the loop: the input, the mode the operator confirmed, the list
\* and the log.
StartRun(r) ==
    /\ MayStart(r)
    /\ \E input \in Inputs, mode \in BOOLEAN :
         /\ rows' = [rows EXCEPT ![r] = input]
         /\ sending' = [sending EXCEPT ![r] = mode]
    /\ blocked' = [blocked EXCEPT ![r] = LoadDoNotContact]
    /\ previous' = [previous EXCEPT ![r] = LoadPreviousSends]
    /\ earlier' = [earlier EXCEPT ![r] = {q \in Runs : Over(q)}]
    /\ pc' = [pc EXCEPT ![r] = "row"]
    /\ UNCHANGED <<files, at, seen, sentCount, sends, lost, raised, added>>

\* The arguments, the file or its columns are refused, or the operator does not
\* type SEND.
RefuseRun(r) ==
    /\ MayStart(r)
    /\ pc' = [pc EXCEPT ![r] = "done"]
    /\ UNCHANGED <<files, rows, at, sending, blocked, previous, seen, sentCount, history>>

CurrentRow(r) == rows[r][at[r]]

NextRow(r) ==
    /\ pc' = [pc EXCEPT ![r] = "row"]
    /\ at' = [at EXCEPT ![r] = @ + 1]

\* A row the script never takes up: it leaves a log entry and no trace in seen.
RefusedUnparsed(r, row) == row.optOut \/ ~row.consent \/ row.phone \in blocked[r]
Refused(r, row) == row.optOut \/ ~row.consent \/ row.phone = Bad \/ row.phone \in blocked[r]

OverLimit(r) == sentCount[r] > MaxMessages
AtLimit(r) == sentCount[r] >= MaxMessages

Unremembered(r, phone) == seen[r]
Remembered(r, phone) == seen[r] \union {phone}

ProcessRow(r) ==
    /\ pc[r] = "row"
    /\ at[r] <= Len(rows[r])
    /\ LET row == CurrentRow(r)
           fresh == ~Refused(r, row) /\ row.phone \notin seen[r]
           new == fresh /\ row.phone \notin previous[r] IN
       /\ seen' = [seen EXCEPT ![r] = IF fresh THEN Remembered(r, row.phone) ELSE @]
       /\ review' = review \union {p \in {row.phone} : new /\ ~row.complete}
       /\ \/ /\ new /\ row.complete /\ ~AtLimit(r) /\ sending[r]
             /\ pc' = [pc EXCEPT ![r] = "send"]
             /\ UNCHANGED at
          \/ NextRow(r)     \* skipped, reviewed, a dry run, or declined by the operator
    /\ UNCHANGED <<requested, doNotContact, rows, sending, blocked, previous, sentCount, history>>

Counting(made, phone) == [p \in Phones |-> IF p = phone THEN made[p] + 1 ELSE made[p]]

MakesRequest(r) == sends' = [sends EXCEPT ![r] = Counting(@, CurrentRow(r).phone)]
Loses(r) == lost' = [lost EXCEPT ![r] = @ \union {CurrentRow(r).phone}]

\* The browser automation returns, and the request counts.
SendWhatsapp(r) ==
    /\ pc[r] = "send"
    /\ MakesRequest(r)
    /\ sentCount' = [sentCount EXCEPT ![r] = @ + 1]
    /\ pc' = [pc EXCEPT ![r] = "log"]
    /\ UNCHANGED <<files, rows, at, sending, blocked, previous, seen, lost, raised, earlier, added>>

\* It raises, and the row is logged as failed and not counted, though the
\* message may have left before (the tab is closed after it).
SendFails(r) ==
    /\ pc[r] = "send"
    /\ \/ UNCHANGED history
       \/ /\ "send" \in Failures
          /\ MakesRequest(r) /\ Loses(r)
          /\ raised' = [raised EXCEPT ![r] = @ \union {CurrentRow(r).phone}]
          /\ UNCHANGED <<earlier, added>>
    /\ NextRow(r)
    /\ UNCHANGED <<files, rows, sending, blocked, previous, seen, sentCount>>

LogRequested(r) ==
    /\ pc[r] = "log"
    /\ requested' = requested \union {CurrentRow(r).phone}
    /\ NextRow(r)
    /\ UNCHANGED <<review, doNotContact, rows, sending, blocked, previous, seen, sentCount, history>>

\* log_result raises inside the same try block as the send, so the row that was
\* sent is logged as failed.
LogFails(r) ==
    /\ pc[r] = "log"
    /\ "log" \in Failures
    /\ Loses(r)
    /\ NextRow(r)
    /\ UNCHANGED <<files, rows, sending, blocked, previous, seen, sentCount, sends, raised, earlier, added>>

\* The run is killed, or writing the failure raises too.
Crash(r) ==
    /\ "crash" \in Failures
    /\ pc[r] \in {"row", "send", "log"}
    /\ pc' = [pc EXCEPT ![r] = "dead"]
    /\ IF pc[r] = "log" THEN Loses(r) ELSE UNCHANGED lost
    /\ UNCHANGED <<files, rows, at, sending, blocked, previous, seen, sentCount, sends, raised, earlier,
                   added>>

FinishRun(r) ==
    /\ pc[r] = "row"
    /\ at[r] > Len(rows[r])
    /\ pc' = [pc EXCEPT ![r] = "done"]
    /\ UNCHANGED <<files, rows, at, sending, blocked, previous, seen, sentCount, history>>

\* Someone adds a number to the do-not-contact file.
AddDoNotContact(p) ==
    /\ p \notin doNotContact
    /\ doNotContact' = doNotContact \union {p}
    /\ added' = [r \in Runs |-> IF pc[r] = "new" THEN added[r] ELSE added[r] \union {p}]
    /\ UNCHANGED <<requested, review, own, sends, lost, raised, earlier>>

Next ==
    \/ \E r \in Runs : \/ StartRun(r) \/ RefuseRun(r) \/ ProcessRow(r) \/ SendWhatsapp(r)
                       \/ SendFails(r) \/ LogRequested(r) \/ LogFails(r) \/ Crash(r) \/ FinishRun(r)
    \/ \E p \in Phones : AddDoNotContact(p)

Spec == Init /\ [][Next]_vars

----------------------------------------------------------------------------
TypeOK ==
    /\ requested \subseteq Phones
    /\ review \subseteq Phones
    /\ doNotContact \subseteq Phones
    /\ pc \in [Runs -> {"new", "row", "send", "log", "done", "dead"}]
    /\ rows \in [Runs -> Inputs \union {<<>>}]
    /\ at \in [Runs -> Nat \ {0}]
    /\ \A r \in Runs : at[r] <= Len(rows[r]) + 1
    /\ \A r \in Runs : pc[r] \in {"send", "log"} => /\ at[r] <= Len(rows[r])
                                                    /\ CurrentRow(r).phone \in Phones
    /\ sending \in [Runs -> BOOLEAN]
    /\ blocked \in [Runs -> SUBSET Phones]
    /\ previous \in [Runs -> SUBSET Phones]
    /\ seen \in [Runs -> SUBSET Phones]
    /\ sentCount \in [Runs -> Nat]
    /\ sends \in [Runs -> [Phones -> Nat]]
    /\ lost \in [Runs -> SUBSET Phones]
    /\ raised \in [Runs -> SUBSET Phones]
    /\ earlier \in [Runs -> SUBSET Runs]
    /\ added \in [Runs -> SUBSET Phones]

\* One run requests a number at most once, however often it is in the input and
\* whatever its requests come to.
OncePerRun == \A r \in Runs, p \in Phones : sends[r][p] <= 1

RunsThatSent(p) == {r \in Runs : sends[r][p] > 0}

\* The numbers a run really requests exceed --max-messages by no more than the
\* calls that raised after the request had left: sent_count is raised only when
\* send_whatsapp returns, and by nothing that fails after that.
SessionLimitKept ==
    \A r \in Runs :
        Cardinality({p \in Phones : sends[r][p] > 0}) <= MaxMessages + Cardinality(raised[r])

\* A number is requested again only by a run that overlapped the run before it,
\* or because the log has lost that run's request, however rows, modes and
\* failures differ.
RepeatsAreLostEntries ==
    \A p \in Phones : \A r \in RunsThatSent(p) :
        \A q \in earlier[r] \intersect RunsThatSent(p) : p \in lost[q]

\* A listed number that a run has requested was put on the list after the run
\* had read it.
ListedAreSpared ==
    \A r \in Runs, p \in doNotContact : sends[r][p] > 0 => p \in added[r]
=============================================================================
