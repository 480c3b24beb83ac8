------------------------------ MODULE CsvImport ------------------------------
(***************************************************************************)
(* import_candidates_csv (integrations/csv_import.py): importers that read *)
(* a CSV file row by row into the Candidate table and into a campaign,     *)
(* each row in a transaction of its own, while imports into the same and   *)
(* into other campaigns and opt-outs commit in between, and while an       *)
(* import may be broken off and started again from the first row.          *)
(***************************************************************************)
EXTENDS Integers, FiniteSets, Sequences

CONSTANTS
    Campaigns,      \* campaigns candidates are imported into
    Importers,      \* imports running at the same time (Admin requests, commands)
    Files,          \* the files, sequences of rows
    Ids,            \* primary keys of Candidate
    Tables,         \* what the Candidate table may hold at the start
    Phones, Emails, \* normalised phones and emails
    MaxAborts       \* bound: how often an import is broken off

Blank == "blank"    \* an empty email or phone
Bad   == "bad"      \* a value its normalisation rejects

Row == [name : BOOLEAN, phone : Phones \union {Bad}, email : Emails \union {Blank, Bad}]

Statuses == {"NEW", "READY", "CONTACTED", "DO_NOT_CONTACT", "INVALID"}
Person   == [phone : Phones \union {Blank}, email : Emails \union {Blank},
             status : Statuses, dnc : BOOLEAN]
NoPerson == [phone |-> Blank, email |-> Blank, status |-> "NONE", dnc |-> FALSE]

Outcomes == {"imported", "updated", "skipped", "duplicates", "invalid", "do_not_contact"}

\* unique_nonblank_candidate_phone and unique_nonblank_candidate_email.
UniqueKeys(table) ==
    \A j, k \in Ids : j # k =>
        /\ table[j].phone # Blank => table[j].phone # table[k].phone
        /\ table[j].email # Blank => table[j].email # table[k].email

ASSUME FilesAssumption ==
    /\ Files \subseteq Seq(Row)
    /\ Ids \subseteq Nat
    /\ Phones \intersect {Blank, Bad} = {} /\ Emails \intersect {Blank, Bad} = {}
    /\ Tables \subseteq {t \in [Ids -> Person \union {NoPerson}] : UniqueKeys(t)}
    /\ MaxAborts \in Nat

VARIABLES
    person,     \* the Candidate table
    joined,     \* per campaign, the candidates with a CampaignMember row
    file,       \* per importer, the file
    target,     \* and the campaign it imports into
    next,       \* the row it is at
    pc,         \* "row", "transaction" or "done"
    seenPhones, seenEmails,     \* what it has met in the file
    report,     \* the ImportReport counters
    aborts      \* how often an import was broken off

progress == <<file, target, next, pc, seenPhones, seenEmails, report, aborts>>
vars     == <<person, joined, progress>>

Existing == {k \in Ids : person[k] # NoPerson}

FreshReport == [o \in Outcomes |-> 0]

Init ==
    /\ person \in Tables
    /\ joined = [c \in Campaigns |-> {}]
    /\ file \in [Importers -> Files]
    /\ target \in [Importers -> Campaigns]
    /\ next = [i \in Importers |-> 1]
    /\ pc = [i \in Importers |-> "row"]
    /\ seenPhones = [i \in Importers |-> {}]
    /\ seenEmails = [i \in Importers |-> {}]
    /\ report = [i \in Importers |-> FreshReport]
    /\ aborts = 0

----------------------------------------------------------------------------
CurrentRow(i) == file[i][next[i]]

\* The row is counted under one outcome, and the loop goes on.
Plus(counts, outcome) ==
    [o \in Outcomes |-> IF o = outcome THEN counts[o] + 1 ELSE counts[o]]

Count(i, outcome) ==
    /\ report' = [report EXCEPT ![i] = Plus(@, outcome)]
    /\ next' = [next EXCEPT ![i] = @ + 1]
    /\ pc' = [pc EXCEPT ![i] = "row"]

Malformed(r) == ~r.name \/ r.phone = Bad \/ r.email = Bad

EmailIfAny(r) == {r.email}
EmailOf(r) == {r.email} \ {Blank}
SeenByAny(i, r) == \E j \in Importers : r.phone \in seenPhones[j]
Seen(i, r) == r.phone \in seenPhones[i] \/ (r.email # Blank /\ r.email \in seenEmails[i])

\* Up to the transaction nothing but the importer's own sets is touched. A row
\* is remembered as seen before its transaction can reject it.
ReadRow(i) ==
    /\ pc[i] = "row"
    /\ next[i] <= Len(file[i])
    /\ LET r == CurrentRow(i) IN
       \/ /\ Malformed(r)
          /\ Count(i, "invalid")
          /\ UNCHANGED <<seenPhones, seenEmails>>
       \/ /\ ~Malformed(r) /\ Seen(i, r)
          /\ Count(i, "duplicates")
          /\ UNCHANGED <<seenPhones, seenEmails>>
       \/ /\ ~Malformed(r) /\ ~Seen(i, r)
          /\ seenPhones' = [seenPhones EXCEPT ![i] = @ \union {r.phone}]
          /\ seenEmails' = [seenEmails EXCEPT ![i] = @ \union EmailOf(r)]
          /\ pc' = [pc EXCEPT ![i] = "transaction"]
          /\ UNCHANGED <<next, report>>
    /\ UNCHANGED <<person, joined, file, target, aborts>>

\* _find_existing_candidate: one person, none, or two that the row confuses.
MatchesByPhone(r) == {k \in Existing : person[k].phone = r.phone}
Matches(r) ==
    {k \in Existing : person[k].phone = r.phone \/ (r.email # Blank /\ person[k].email = r.email)}

UpdatedAfresh(c, r) ==
    [phone |-> r.phone, email |-> r.email, status |-> "READY", dnc |-> c.dnc]

\* A new row of the file overwrites what the candidate had, the email too.
Updated(c, r) ==
    [phone |-> r.phone, email |-> r.email, dnc |-> c.dnc,
     status |-> IF c.status \in {"NEW", "INVALID"} THEN "READY" ELSE c.status]

Created(r) == [phone |-> r.phone, email |-> r.email, status |-> "READY", dnc |-> FALSE]

OptedOutIfInvalid(c) == c.status = "INVALID"
OptedOut(c) == c.dnc

NeverMember(i, k) == FALSE
AlreadyMember(i, k) == k \in joined[target[i]]

Join(i, k) == joined' = [joined EXCEPT ![target[i]] = @ \union {k}]

ImportRow(i) ==
    /\ pc[i] = "transaction"
    /\ LET r == CurrentRow(i) IN
       \/ /\ Cardinality(Matches(r)) > 1
          /\ Count(i, "invalid")
          /\ UNCHANGED <<person, joined>>
       \/ \E k \in Matches(r) :
            /\ Matches(r) = {k}
            /\ \/ OptedOut(person[k]) /\ Count(i, "do_not_contact") /\ UNCHANGED <<person, joined>>
               \/ /\ ~OptedOut(person[k]) /\ AlreadyMember(i, k)
                  /\ Count(i, "skipped")
                  /\ UNCHANGED <<person, joined>>
               \/ /\ ~OptedOut(person[k]) /\ ~AlreadyMember(i, k)
                  /\ Count(i, "updated")
                  /\ person' = [person EXCEPT ![k] = Updated(@, r)]
                  /\ Join(i, k)
       \/ /\ Matches(r) = {}
          /\ \E k \in Ids \ Existing :
               /\ \A j \in Ids \ Existing : k <= j
               /\ person' = [person EXCEPT ![k] = Created(r)]
               /\ Join(i, k)
          /\ Count(i, "imported")
    /\ UNCHANGED <<file, target, seenPhones, seenEmails, aborts>>

\* The CSV_IMPORTED audit event closes the report.
FinishImport(i) ==
    /\ pc[i] = "row"
    /\ next[i] > Len(file[i])
    /\ pc' = [pc EXCEPT ![i] = "done"]
    /\ UNCHANGED <<person, joined, file, target, next, seenPhones, seenEmails, report, aborts>>

\* The process is killed, or a database error that the loop does not catch ends
\* the import; the operator imports the same file again, from the first row.
AbortAndRestart(i) ==
    /\ pc[i] # "done"
    /\ aborts < MaxAborts
    /\ aborts' = aborts + 1
    /\ next' = [next EXCEPT ![i] = 1]
    /\ pc' = [pc EXCEPT ![i] = "row"]
    /\ seenPhones' = [seenPhones EXCEPT ![i] = {}]
    /\ seenEmails' = [seenEmails EXCEPT ![i] = {}]
    /\ report' = [report EXCEPT ![i] = FreshReport]
    /\ UNCHANGED <<person, joined, file, target>>

WithStatus(c, status, dnc) == [phone |-> c.phone, email |-> c.email, status |-> status, dnc |-> dnc]

\* A candidate opts out (apply_opt_out) while imports run.
ApplyOptOut(k) ==
    /\ k \in Existing
    /\ person' = [person EXCEPT ![k] = WithStatus(@, "DO_NOT_CONTACT", TRUE)]
    /\ UNCHANGED <<joined, progress>>

\* A worker confirms a message to a READY candidate while imports run.
MarkContacted(k) ==
    /\ k \in Existing
    /\ person[k].status = "READY"
    /\ person' = [person EXCEPT ![k] = WithStatus(@, "CONTACTED", @.dnc)]
    /\ UNCHANGED <<joined, progress>>

Next ==
    \/ \E i \in Importers : ReadRow(i) \/ ImportRow(i) \/ FinishImport(i) \/ AbortAndRestart(i)
    \/ \E k \in Ids : ApplyOptOut(k) \/ MarkContacted(k)

Spec == Init /\ [][Next]_vars

----------------------------------------------------------------------------
TypeOK ==
    /\ person \in [Ids -> Person \union {NoPerson}]
    /\ joined \in [Campaigns -> SUBSET Existing]
    /\ file \in [Importers -> Files]
    /\ target \in [Importers -> Campaigns]
    /\ next \in [Importers -> Nat \ {0}]
    /\ \A i \in Importers : next[i] <= Len(file[i]) + 1
    /\ pc \in [Importers -> {"row", "transaction", "done"}]
    /\ \A i \in Importers : pc[i] = "transaction" => next[i] <= Len(file[i])
    /\ seenPhones \in [Importers -> SUBSET Phones]
    /\ seenEmails \in [Importers -> SUBSET Emails]
    /\ report \in [Importers -> [Outcomes -> Nat]]
    /\ aborts \in 0 .. MaxAborts

\* However rows of two files interleave and rename each other's candidates, no
\* insert or update runs into the unique constraints, whose IntegrityError the
\* loop does not catch: it would end the import.
ConstraintsNeverRefuse == UniqueKeys(person)

\* The row n repeats the phone, or the email if it has one, of an earlier row
\* of the file that was well formed.
Repeats(rows, n) ==
    \E m \in 1 .. n - 1 :
        /\ ~Malformed(rows[m])
        /\ \/ rows[m].phone = rows[n].phone
           \/ rows[n].email # Blank /\ rows[m].email = rows[n].email

\* Only a row that repeats another one of its own file is left out as a
\* duplicate: not one that another import has read, or this one before it was
\* broken off and started again.
DuplicatesRepeat ==
    [][\A i \in Importers :
          report'[i]["duplicates"] > report[i]["duplicates"] => Repeats(file[i], next[i])]_vars

\* No import changes or joins a candidate that has opted out, even when the
\* opt-out arrives after its row was read.
OptedOutUntouched ==
    [][\A k \in Ids : person[k].dnc => /\ person'[k].phone = person[k].phone
                                       /\ person'[k].email = person[k].email
                                       /\ \A c \in Campaigns : k \in joined'[c] => k \in joined[c]]_vars

\* A row that is reported imported or updated has a member to show for it: the
\* members of its campaign are at least as many as any single report claims.
ReportedAreJoined ==
    \A i \in Importers :
        report[i]["imported"] + report[i]["updated"] <= Cardinality(joined[target[i]])

\* A candidate who was contacted before is not made READY, hence eligible for
\* a first message, by being imported again.
ContactedNotReset ==
    [][\A k \in Existing : person[k].status \in {"CONTACTED", "DO_NOT_CONTACT"}
                              => person'[k].status # "READY"]_vars

\* An import overwrites the phone or the email of a candidate only together with
\* making it a member of one more campaign, and a member stays one: imports into
\* a campaign, of whatever files and however often started over, overwrite a
\* candidate once at most, and never one that is a member already.  (An import
\* into another campaign does overwrite it.)
OverwritingJoins ==
    [][\A k \in Existing :
          /\ \A c \in Campaigns : k \in joined[c] => k \in joined'[c]
          /\ \/ person'[k].phone = person[k].phone /\ person'[k].email = person[k].email
             \/ \E c \in Campaigns : k \in joined'[c] \ joined[c]]_vars
=============================================================================
