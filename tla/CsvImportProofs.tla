--------------------------- MODULE CsvImportProofs ---------------------------
(***************************************************************************)
(* Proofs about CSV imports, for any number of imports, files, candidates  *)
(* and restarts: the unique keys are never violated, what a report claims  *)
(* has members to show for it, only repeated rows are left out as such,    *)
(* and imports respect opt-outs, confirmed contacts and members.           *)
(***************************************************************************)
EXTENDS CsvImport, FiniteSetTheorems, TLAPS

(***************************************************************************)
(* Rows and candidates.                                                    *)
(***************************************************************************)

\* The row an import is at is one of its file.
LEMMA CurrentRowType ==
    ASSUME NEW i \in Importers, file \in [Importers -> Files], next \in [Importers -> Nat \ {0}],
           next[i] <= Len(file[i])
    PROVE  CurrentRow(i) \in Row
<1>1. file[i] \in Seq(Row)
  BY FilesAssumption DEF FilesAssumption
<1>2. next[i] \in 1 .. Len(file[i])
  BY <1>1
<1> QED
  BY <1>1, <1>2 DEF CurrentRow

\* A row that is not malformed has a phone, and an email or none.
LEMMA WellFormed ==
    ASSUME NEW r \in Row, ~Malformed(r)
    PROVE  /\ r.phone \in Phones /\ r.phone # Blank
           /\ r.email \in Emails \union {Blank}
           /\ EmailOf(r) \subseteq Emails
BY FilesAssumption DEF FilesAssumption, Row, Malformed, EmailOf

LEMMA PersonFacts ==
    /\ NoPerson \notin Person
    /\ \A c \in Person, r \in Row : ~Malformed(r) => Updated(c, r) \in Person /\ Created(r) \in Person
    /\ \A r \in Row : ~Malformed(r) => Created(r) \in Person
    /\ \A c \in Person, dnc \in BOOLEAN, s \in Statuses : WithStatus(c, s, dnc) \in Person
<1>1. \A r \in Row : ~Malformed(r) => r.phone \in Phones /\ r.email \in Emails \union {Blank}
  BY WellFormed
<1>2. NoPerson \notin Person
  BY DEF NoPerson, Person, Statuses
<1>3. \A c \in Person, dnc \in BOOLEAN, s \in Statuses : WithStatus(c, s, dnc) \in Person
  BY DEF WithStatus, Person
<1>4. \A r \in Row : ~Malformed(r) => Created(r) \in Person
  BY <1>1 DEF Created, Person, Statuses
<1>5. ASSUME NEW c \in Person, NEW r \in Row, ~Malformed(r) PROVE Updated(c, r) \in Person
  <2>1. r.phone \in Phones /\ r.email \in Emails \union {Blank}
    BY <1>1, <1>5
  <2> QED
    BY <2>1 DEF Updated, Person, Statuses
<1> QED
  BY <1>2, <1>3, <1>4, <1>5

(***************************************************************************)
(* Reports.                                                                *)
(***************************************************************************)

\* One more row under one outcome leaves what is counted under the others.
LEMMA PlusCounts ==
    ASSUME NEW c \in [Outcomes -> Nat], NEW outcome \in Outcomes
    PROVE  /\ Plus(c, outcome) \in [Outcomes -> Nat]
           /\ outcome # "duplicates" => Plus(c, outcome)["duplicates"] = c["duplicates"]
           /\ Plus(c, outcome)["imported"] + Plus(c, outcome)["updated"]
                = c["imported"] + c["updated"] + (IF outcome \in {"imported", "updated"} THEN 1 ELSE 0)
<1>1. Plus(c, outcome) \in [Outcomes -> Nat]
  BY DEF Plus
<1>2. \A o \in Outcomes : Plus(c, outcome)[o] = IF o = outcome THEN c[o] + 1 ELSE c[o]
  BY DEF Plus
<1>3. /\ "imported" \in Outcomes /\ "updated" \in Outcomes /\ "skipped" \in Outcomes
      /\ "duplicates" \in Outcomes /\ "invalid" \in Outcomes /\ "do_not_contact" \in Outcomes
  BY DEF Outcomes
<1>4. \A o \in Outcomes : c[o] \in Nat
  OBVIOUS
<1> QED
  BY <1>1, <1>2, <1>3, <1>4 DEF Outcomes

\* What Count does to an import that is at a row.
LEMMA CountMoves ==
    ASSUME TypeOK, NEW i \in Importers, NEW outcome \in Outcomes, next[i] <= Len(file[i]),
           Count(i, outcome), UNCHANGED file
    PROVE  /\ report' \in [Importers -> [Outcomes -> Nat]]
           /\ next' \in [Importers -> Nat \ {0}]
           /\ pc' \in [Importers -> {"row", "transaction", "done"}]
           /\ \A j \in Importers : next'[j] <= Len(file'[j]) + 1
           /\ \A j \in Importers : pc'[j] = "transaction" => next'[j] <= Len(file'[j])
           /\ report'[i] = Plus(report[i], outcome)
           /\ next'[i] = next[i] + 1
           /\ pc'[i] = "row"
           /\ \A j \in Importers : j # i => report'[j] = report[j] /\ next'[j] = next[j] /\ pc'[j] = pc[j]
<1>1. /\ report' = [report EXCEPT ![i] = Plus(report[i], outcome)]
      /\ next' = [next EXCEPT ![i] = next[i] + 1]
      /\ pc' = [pc EXCEPT ![i] = "row"]
  BY DEF Count
<1>2. /\ report[i] \in [Outcomes -> Nat] /\ report \in [Importers -> [Outcomes -> Nat]]
      /\ next \in [Importers -> Nat \ {0}] /\ pc \in [Importers -> {"row", "transaction", "done"}]
  BY DEF TypeOK
<1>3. Plus(report[i], outcome) \in [Outcomes -> Nat]
  BY <1>2, PlusCounts
<1>4. \A j \in Importers : Len(file[j]) \in Nat
  <2>1. \A j \in Importers : file[j] \in Seq(Row)
    BY FilesAssumption DEF TypeOK, FilesAssumption
  <2> QED
    BY <2>1
<1>5. report' \in [Importers -> [Outcomes -> Nat]]
  BY <1>1, <1>2, <1>3
<1>6. next' \in [Importers -> Nat \ {0}] /\ next'[i] = next[i] + 1
  BY <1>1, <1>2
<1>7. \A j \in Importers : j # i => next'[j] = next[j] /\ pc'[j] = pc[j] /\ report'[j] = report[j]
  BY <1>1, <1>2
<1>8. pc' \in [Importers -> {"row", "transaction", "done"}] /\ pc'[i] = "row"
  BY <1>1, <1>2
<1>9. report'[i] = Plus(report[i], outcome)
  BY <1>1, <1>2
<1>10. \A j \in Importers : next'[j] <= Len(file'[j]) + 1
  <2> SUFFICES ASSUME NEW j \in Importers PROVE next'[j] <= Len(file[j]) + 1
    OBVIOUS
  <2>1. CASE j = i
    BY <1>2, <1>4, <1>6, <2>1
  <2>2. CASE j # i
    BY <1>7, <2>2 DEF TypeOK
  <2> QED
    BY <2>1, <2>2
<1>11. \A j \in Importers : pc'[j] = "transaction" => next'[j] <= Len(file'[j])
  BY <1>7, <1>8 DEF TypeOK
<1> QED
  BY <1>5, <1>6, <1>7, <1>8, <1>9, <1>10, <1>11

(***************************************************************************)
(* Steps.                                                                  *)
(***************************************************************************)

\* A row that has reached its transaction is well formed.
ParsedInv ==
    \A i \in Importers : pc[i] = "transaction" => ~Malformed(CurrentRow(i))

\* The three ways an import's transaction ends: the tables stay as they are,
\* one candidate is updated, or one is created.
LeavesTables(i) ==
    /\ UNCHANGED <<person, joined>>
    /\ \E o \in {"invalid", "do_not_contact", "skipped"} : Count(i, o)

UpdatesOne(i, k, r) ==
    /\ k \in Existing /\ Matches(r) = {k}
    /\ ~person[k].dnc /\ k \notin joined[target[i]]
    /\ person' = [person EXCEPT ![k] = Updated(person[k], r)]
    /\ Join(i, k)
    /\ Count(i, "updated")

CreatesOne(i, k, r) ==
    /\ k \in Ids \ Existing /\ Matches(r) = {}
    /\ person' = [person EXCEPT ![k] = Created(r)]
    /\ Join(i, k)
    /\ Count(i, "imported")

LEMMA ImportRowCases ==
    ASSUME TypeOK, ParsedInv, NEW i \in Importers, ImportRow(i)
    PROVE  /\ next[i] <= Len(file[i])
           /\ UNCHANGED <<file, target, seenPhones, seenEmails, aborts>>
           /\ \E r \in Row : /\ ~Malformed(r)
                             /\ \/ LeavesTables(i)
                                \/ \E k \in Ids : UpdatesOne(i, k, r)
                                \/ \E k \in Ids : CreatesOne(i, k, r)
<1>1. PICK r \in Row : r = CurrentRow(i)
  BY CurrentRowType DEF ImportRow, TypeOK
<1>2. ~Malformed(r)
  BY <1>1 DEF ImportRow, ParsedInv
<1>3. CASE LeavesTables(i)
  BY <1>1, <1>2, <1>3 DEF ImportRow, TypeOK
<1>4. CASE ~LeavesTables(i)
  <2>1. \/ \E k \in Matches(r) : /\ Matches(r) = {k}
                                 /\ ~OptedOut(person[k]) /\ ~AlreadyMember(i, k)
                                 /\ Count(i, "updated")
                                 /\ person' = [person EXCEPT ![k] = Updated(@, r)]
                                 /\ Join(i, k)
        \/ /\ Matches(r) = {}
           /\ \E k \in Ids \ Existing : /\ person' = [person EXCEPT ![k] = Created(r)]
                                        /\ Join(i, k)
           /\ Count(i, "imported")
    BY <1>1, <1>4 DEF ImportRow, LeavesTables
  <2>2. Matches(r) \subseteq Existing /\ Existing \subseteq Ids
    BY DEF Matches, Existing
  <2>3. (\E k \in Ids : UpdatesOne(i, k, r)) \/ (\E k \in Ids : CreatesOne(i, k, r))
    BY <2>1, <2>2 DEF UpdatesOne, CreatesOne, OptedOut, AlreadyMember
  <2> QED
    BY <1>2, <2>3 DEF ImportRow, TypeOK
<1> QED
  BY <1>3, <1>4

\* What the other participants do to the tables.
TouchesOne(k) ==
    /\ k \in Existing
    /\ \/ person' = [person EXCEPT ![k] = WithStatus(person[k], "DO_NOT_CONTACT", TRUE)]
       \/ person[k].status = "READY" /\ person' = [person EXCEPT ![k] = WithStatus(person[k], "CONTACTED", person[k].dnc)]
    /\ UNCHANGED <<joined, progress>>

LEMMA TouchCases ==
    ASSUME NEW k \in Ids, ApplyOptOut(k) \/ MarkContacted(k)
    PROVE  TouchesOne(k)
BY DEF ApplyOptOut, MarkContacted, TouchesOne

(***************************************************************************)
(* Types.                                                                  *)
(***************************************************************************)
TypeInv == TypeOK /\ ParsedInv

LEMMA InitTypes == Init => TypeInv
<1> SUFFICES ASSUME Init PROVE TypeInv
  OBVIOUS
<1>1. \A i \in Importers : Len(file[i]) \in Nat
  <2>1. \A i \in Importers : file[i] \in Seq(Row)
    BY FilesAssumption DEF Init, FilesAssumption
  <2> QED
    BY <2>1
<1>2. person \in [Ids -> Person \union {NoPerson}]
  BY FilesAssumption DEF Init, FilesAssumption
<1>3. FreshReport \in [Outcomes -> Nat]
  BY DEF FreshReport
<1>4. joined \in [Campaigns -> SUBSET Existing]
  BY DEF Init
<1>5. report \in [Importers -> [Outcomes -> Nat]]
  BY <1>3 DEF Init
<1>6. aborts \in 0 .. MaxAborts
  BY FilesAssumption DEF Init, FilesAssumption
<1> QED
  BY <1>1, <1>2, <1>4, <1>5, <1>6 DEF Init, TypeInv, TypeOK, ParsedInv

\* Importers that stay where they are keep what is known of their rows.
LEMMA ParsedKept ==
    ASSUME ParsedInv, NEW i \in Importers, UNCHANGED file, pc'[i] # "transaction",
           \A j \in Importers : j # i => next'[j] = next[j] /\ pc'[j] = pc[j]
    PROVE  ParsedInv'
BY DEF ParsedInv, CurrentRow, Malformed

LEMMA TypePreserved == TypeInv /\ [Next]_vars => TypeInv'
<1> SUFFICES ASSUME TypeOK, ParsedInv, [Next]_vars PROVE TypeOK' /\ ParsedInv'
  BY DEF TypeInv
<1>0. \A i \in Importers : Len(file[i]) \in Nat
  <2>1. \A i \in Importers : file[i] \in Seq(Row)
    BY FilesAssumption DEF TypeOK, FilesAssumption
  <2> QED
    BY <2>1
<1>1. ASSUME NEW i \in Importers, ReadRow(i) PROVE TypeOK' /\ ParsedInv'
  <2>1. PICK r \in Row : r = CurrentRow(i)
    BY <1>1, CurrentRowType DEF ReadRow, TypeOK
  <2>2. next[i] <= Len(file[i]) /\ UNCHANGED <<person, joined, file, target, aborts>>
    BY <1>1 DEF ReadRow
  <2>3. CASE (Count(i, "invalid") \/ Count(i, "duplicates")) /\ UNCHANGED <<seenPhones, seenEmails>>
    <3>1. PICK o \in Outcomes : Count(i, o)
      BY <2>3 DEF Outcomes
    <3> QED
      BY <2>2, <2>3, <3>1, CountMoves, ParsedKept DEF TypeOK, Existing
  <2>4. CASE /\ ~Malformed(r)
             /\ seenPhones' = [seenPhones EXCEPT ![i] = @ \union {r.phone}]
             /\ seenEmails' = [seenEmails EXCEPT ![i] = @ \union EmailOf(r)]
             /\ pc' = [pc EXCEPT ![i] = "transaction"]
             /\ UNCHANGED <<next, report>>
    <3>1. r.phone \in Phones /\ EmailOf(r) \subseteq Emails
      BY <2>4, WellFormed
    <3>2. seenPhones' \in [Importers -> SUBSET Phones] /\ seenEmails' \in [Importers -> SUBSET Emails]
      BY <2>4, <3>1 DEF TypeOK
    <3>3. pc' \in [Importers -> {"row", "transaction", "done"}]
      BY <2>4 DEF TypeOK
    <3>4. \A j \in Importers : CurrentRow(j)' = CurrentRow(j)
      BY <2>2, <2>4 DEF CurrentRow
    <3>5. ParsedInv'
      <4> SUFFICES ASSUME NEW j \in Importers, pc'[j] = "transaction" PROVE ~Malformed(CurrentRow(j)')
        BY DEF ParsedInv, Malformed
      <4>1. CASE j = i
        BY <2>1, <2>4, <3>4, <4>1
      <4>2. CASE j # i
        BY <2>4, <3>4, <4>2 DEF ParsedInv, TypeOK
      <4> QED
        BY <4>1, <4>2
    <3>6. \A j \in Importers : pc'[j] = "transaction" => next'[j] <= Len(file'[j])
      BY <2>2, <2>4 DEF TypeOK
    <3> QED
      BY <2>2, <2>4, <3>2, <3>3, <3>5, <3>6 DEF TypeOK, Existing
  <2> QED
    BY <1>1, <2>1, <2>3, <2>4 DEF ReadRow
<1>2. ASSUME NEW i \in Importers, ImportRow(i) PROVE TypeOK' /\ ParsedInv'
  <2>0. next[i] <= Len(file[i]) /\ UNCHANGED <<file, target, seenPhones, seenEmails, aborts>>
    BY <1>2, ImportRowCases
  <2>1. PICK r \in Row : /\ ~Malformed(r)
                         /\ \/ LeavesTables(i)
                            \/ \E k \in Ids : UpdatesOne(i, k, r)
                            \/ \E k \in Ids : CreatesOne(i, k, r)
    BY <1>2, ImportRowCases
  <2>2. PICK o \in Outcomes : Count(i, o)
    BY <2>1 DEF LeavesTables, UpdatesOne, CreatesOne, Outcomes
  <2>3. person' \in [Ids -> Person \union {NoPerson}] /\ joined' \in [Campaigns -> SUBSET Existing']
    <3>0. /\ person \in [Ids -> Person \union {NoPerson}] /\ joined \in [Campaigns -> SUBSET Existing]
          /\ target[i] \in Campaigns
      BY DEF TypeOK
    <3>1. CASE LeavesTables(i)
      BY <3>0, <3>1 DEF LeavesTables, Existing
    <3>2. ASSUME NEW k \in Ids, NEW c \in Person, person' = [person EXCEPT ![k] = c], Join(i, k)
          PROVE  person' \in [Ids -> Person \union {NoPerson}] /\ joined' \in [Campaigns -> SUBSET Existing']
      <4>1. person' \in [Ids -> Person \union {NoPerson}]
        BY <3>0, <3>2
      <4>2. Existing \subseteq Existing' /\ k \in Existing'
        BY <3>0, <3>2, PersonFacts DEF Existing
      <4>3. \A d \in Campaigns : joined'[d] \subseteq joined[d] \union {k}
        BY <3>0, <3>2 DEF Join
      <4>4. joined' = [d \in Campaigns |-> joined'[d]]
        BY <3>0, <3>2 DEF Join
      <4>5. \A d \in Campaigns : joined'[d] \in SUBSET Existing'
        BY <3>0, <4>2, <4>3
      <4> QED
        BY <4>1, <4>4, <4>5
    <3>3. ASSUME NEW k \in Ids, UpdatesOne(i, k, r) PROVE \E c \in Person : person' = [person EXCEPT ![k] = c]
      BY <2>1, <3>0, <3>3, PersonFacts DEF UpdatesOne, Existing
    <3>4. ASSUME NEW k \in Ids, CreatesOne(i, k, r) PROVE \E c \in Person : person' = [person EXCEPT ![k] = c]
      BY <2>1, <3>4, PersonFacts DEF CreatesOne
    <3> QED
      BY <2>1, <3>1, <3>2, <3>3, <3>4 DEF UpdatesOne, CreatesOne
  <2>4. TypeOK'
    BY <2>0, <2>2, <2>3, CountMoves DEF TypeOK, Existing
  <2>5. ParsedInv'
    BY <2>0, <2>2, CountMoves, ParsedKept
  <2> QED
    BY <2>4, <2>5
<1>3. ASSUME NEW i \in Importers, FinishImport(i) PROVE TypeOK' /\ ParsedInv'
  BY <1>3 DEF FinishImport, TypeOK, ParsedInv, CurrentRow, Existing
<1>4. ASSUME NEW i \in Importers, AbortAndRestart(i) PROVE TypeOK' /\ ParsedInv'
  <2>1. FreshReport \in [Outcomes -> Nat]
    BY DEF FreshReport
  <2>2. ParsedInv'
    BY <1>4, ParsedKept DEF AbortAndRestart, TypeOK
  <2>3. \A j \in Importers : next'[j] <= Len(file'[j]) + 1
    BY <1>0, <1>4 DEF AbortAndRestart, TypeOK
  <2>4. aborts' \in 0 .. MaxAborts
    BY <1>4, FilesAssumption DEF AbortAndRestart, TypeOK, FilesAssumption
  <2>5. \A j \in Importers : pc'[j] = "transaction" => next'[j] <= Len(file'[j])
    BY <1>4 DEF AbortAndRestart, TypeOK
  <2>6. UNCHANGED <<person, joined, file, target>>
    BY <1>4 DEF AbortAndRestart
  <2>7. /\ next' \in [Importers -> Nat \ {0}]
        /\ pc' \in [Importers -> {"row", "transaction", "done"}]
        /\ seenPhones' \in [Importers -> SUBSET Phones]
        /\ seenEmails' \in [Importers -> SUBSET Emails]
        /\ report' \in [Importers -> [Outcomes -> Nat]]
    BY <1>4, <2>1 DEF AbortAndRestart, TypeOK
  <2> QED
    BY <2>2, <2>3, <2>4, <2>5, <2>6, <2>7 DEF TypeOK, Existing
<1>5. ASSUME NEW k \in Ids, ApplyOptOut(k) \/ MarkContacted(k) PROVE TypeOK' /\ ParsedInv'
  <2>1. TouchesOne(k)
    BY <1>5, TouchCases
  <2>2. PICK c \in Person : person' = [person EXCEPT ![k] = c]
    <3>1. person[k] \in Person /\ person[k].dnc \in BOOLEAN
      BY <2>1 DEF TouchesOne, Existing, TypeOK, Person
    <3>2. /\ WithStatus(person[k], "DO_NOT_CONTACT", TRUE) \in Person
          /\ WithStatus(person[k], "CONTACTED", person[k].dnc) \in Person
      BY <3>1, PersonFacts DEF Statuses
    <3> QED
      BY <2>1, <3>2 DEF TouchesOne
  <2>3. UNCHANGED <<joined, progress>>
    BY <2>1 DEF TouchesOne
  <2>4. person' \in [Ids -> Person \union {NoPerson}] /\ Existing \subseteq Existing'
    BY <2>2, PersonFacts DEF TypeOK, Existing
  <2> QED
    BY <2>3, <2>4 DEF progress, TypeOK, ParsedInv, CurrentRow, Malformed
<1>6. CASE UNCHANGED vars
  BY <1>6 DEF vars, progress, TypeOK, ParsedInv, CurrentRow, Existing
<1> QED
  BY <1>1, <1>2, <1>3, <1>4, <1>5, <1>6 DEF Next

LEMMA TypesHold == Spec => []TypeInv
BY InitTypes, TypePreserved, PTL DEF Spec

\* The tables, the importers' progress and their reports stay well-typed, and
\* only candidates that exist are members.
THEOREM TypeCorrect == Spec => []TypeOK
BY TypesHold, PTL DEF TypeInv

(***************************************************************************)
(* The unique keys.                                                        *)
(***************************************************************************)

\* A row that matches nobody, or only the candidate it is written to, does not
\* run into another candidate's phone or email.
LEMMA WriteKeepsKeys ==
    ASSUME person \in [Ids -> Person \union {NoPerson}], UniqueKeys(person),
           NEW k \in Ids, NEW r \in Row, ~Malformed(r), Matches(r) \subseteq {k},
           NEW c \in Person, c.phone = r.phone, c.email = r.email,
           person' = [person EXCEPT ![k] = c]
    PROVE  UniqueKeys(person')
<1>1. \A j \in Ids : j # k => person'[j] = person[j]
  OBVIOUS
<1>2. person'[k] = c
  OBVIOUS
<1>3. ASSUME NEW j \in Ids, j # k
      PROVE  person[j].phone # r.phone /\ (r.email # Blank => person[j].email # r.email)
  <2>1. CASE person[j] = NoPerson
    BY <2>1, WellFormed DEF NoPerson
  <2>2. CASE person[j] # NoPerson
    BY <1>3, <2>2 DEF Matches, Existing
  <2> QED
    BY <2>1, <2>2
<1> SUFFICES ASSUME NEW i \in Ids, NEW j \in Ids, i # j
             PROVE  /\ person'[i].phone # Blank => person'[i].phone # person'[j].phone
                    /\ person'[i].email # Blank => person'[i].email # person'[j].email
  BY DEF UniqueKeys
<1>4. CASE i = k
  BY <1>1, <1>2, <1>3, <1>4
<1>5. CASE j = k
  BY <1>1, <1>2, <1>3, <1>5
<1>6. CASE i # k /\ j # k
  BY <1>1, <1>6 DEF UniqueKeys
<1> QED
  BY <1>4, <1>5, <1>6

LEMMA KeysPreserved == TypeInv /\ UniqueKeys(person) /\ [Next]_vars => UniqueKeys(person')
<1> SUFFICES ASSUME TypeOK, ParsedInv, UniqueKeys(person), [Next]_vars PROVE UniqueKeys(person')
  BY DEF TypeInv
<1>0. person \in [Ids -> Person \union {NoPerson}]
  BY DEF TypeOK
<1>1. ASSUME NEW i \in Importers, ImportRow(i) PROVE UniqueKeys(person')
  <2>1. PICK r \in Row : /\ ~Malformed(r)
                         /\ \/ LeavesTables(i)
                            \/ \E k \in Ids : UpdatesOne(i, k, r)
                            \/ \E k \in Ids : CreatesOne(i, k, r)
    BY <1>1, ImportRowCases
  <2>2. CASE LeavesTables(i)
    BY <2>2 DEF LeavesTables
  <2>3. ASSUME NEW k \in Ids, UpdatesOne(i, k, r) PROVE UniqueKeys(person')
    <3>1. PICK c \in Person : c = Updated(person[k], r)
      BY <1>0, <2>1, <2>3, PersonFacts DEF UpdatesOne, Existing
    <3>2. c.phone = r.phone /\ c.email = r.email
      BY <3>1 DEF Updated
    <3>3. person' = [person EXCEPT ![k] = c] /\ Matches(r) \subseteq {k}
      BY <2>3, <3>1 DEF UpdatesOne
    <3> QED
      BY <1>0, <2>1, <3>2, <3>3, WriteKeepsKeys
  <2>4. ASSUME NEW k \in Ids, CreatesOne(i, k, r) PROVE UniqueKeys(person')
    <3>1. PICK c \in Person : c = Created(r)
      BY <2>1, PersonFacts
    <3>2. c.phone = r.phone /\ c.email = r.email
      BY <3>1 DEF Created
    <3>3. person' = [person EXCEPT ![k] = c] /\ Matches(r) \subseteq {k}
      BY <2>4, <3>1 DEF CreatesOne
    <3> QED
      BY <1>0, <2>1, <3>2, <3>3, WriteKeepsKeys
  <2> QED
    BY <2>1, <2>2, <2>3, <2>4
<1>2. ASSUME NEW k \in Ids, ApplyOptOut(k) \/ MarkContacted(k) PROVE UniqueKeys(person')
  <2>1. TouchesOne(k)
    BY <1>2, TouchCases
  <2>2. PICK c : person' = [person EXCEPT ![k] = c] /\ c.phone = person[k].phone /\ c.email = person[k].email
    BY <2>1 DEF TouchesOne, WithStatus
  <2>3. \A j \in Ids : person'[j].phone = person[j].phone /\ person'[j].email = person[j].email
    BY <1>0, <2>2
  <2> QED
    BY <2>3 DEF UniqueKeys
<1>3. CASE UNCHANGED person
  BY <1>3
<1> QED
  BY <1>1, <1>2, <1>3 DEF Next, ReadRow, FinishImport, AbortAndRestart, vars

\* No import ever runs into the unique constraints of phone and email, for any
\* number of imports of any files that interleave transaction by transaction.
THEOREM KeysHold == Spec => []ConstraintsNeverRefuse
<1>1. Init => UniqueKeys(person)
  BY FilesAssumption DEF Init, FilesAssumption
<1>2. Init => ConstraintsNeverRefuse
  BY <1>1 DEF ConstraintsNeverRefuse
<1>3. TypeInv /\ ConstraintsNeverRefuse /\ [Next]_vars => ConstraintsNeverRefuse'
  BY KeysPreserved DEF ConstraintsNeverRefuse
<1> QED
  BY <1>2, <1>3, TypesHold, PTL DEF Spec

(***************************************************************************)
(* The reports.                                                            *)
(***************************************************************************)

\* There are as many members of the campaign as the report claims.
Backed(i) ==
    report[i]["imported"] + report[i]["updated"] <= Cardinality(joined[target[i]])

ReportInv == (\A c \in Campaigns : IsFiniteSet(joined[c])) /\ \A i \in Importers : Backed(i)

LEMMA InitReport == Init => ReportInv
<1> SUFFICES ASSUME Init, NEW i \in Importers, NEW c \in Campaigns PROVE IsFiniteSet(joined[c]) /\ Backed(i)
  BY FS_EmptySet DEF Init, ReportInv
<1>1. report[i] = [o \in Outcomes |-> 0] /\ joined[c] = {} /\ joined[target[i]] = {}
  BY DEF Init, FreshReport
<1> QED
  BY <1>1, FS_EmptySet DEF Backed, Outcomes

\* The sums of a report are numbers.
LEMMA ReportNumbers ==
    ASSUME TypeOK, NEW i \in Importers
    PROVE  /\ report[i] \in [Outcomes -> Nat] /\ target[i] \in Campaigns
           /\ report[i]["duplicates"] \in Nat
           /\ report[i]["imported"] + report[i]["updated"] \in Nat
BY DEF TypeOK, Outcomes

LEMMA ReportPreserved == TypeInv /\ ReportInv /\ [Next]_vars => ReportInv'
<1> SUFFICES ASSUME TypeOK, ParsedInv, ReportInv, [Next]_vars PROVE ReportInv'
  BY DEF TypeInv
<1>0. /\ \A c \in Campaigns : IsFiniteSet(joined[c]) /\ Cardinality(joined[c]) \in Nat
      /\ \A j \in Importers : Backed(j)
  BY FS_CardinalityType DEF ReportInv
\* A row counted for an importer, with as many new members as it reports.
<1>1. ASSUME NEW i \in Importers, NEW o \in Outcomes, next[i] <= Len(file[i]), Count(i, o), UNCHANGED <<file, target>>,
             \A c \in Campaigns : /\ IsFiniteSet(joined'[c]) /\ Cardinality(joined'[c]) \in Nat
                                 /\ Cardinality(joined[c]) <= Cardinality(joined'[c]),
             o \in {"imported", "updated"} =>
                 Cardinality(joined'[target[i]]) = Cardinality(joined[target[i]]) + 1
      PROVE  ReportInv'
  <2>1. report'[i] = Plus(report[i], o) /\ \A j \in Importers : j # i => report'[j] = report[j]
    BY <1>1, CountMoves
  <2>2. Plus(report[i], o)["imported"] + Plus(report[i], o)["updated"]
           = report[i]["imported"] + report[i]["updated"] + (IF o \in {"imported", "updated"} THEN 1 ELSE 0)
    BY ReportNumbers, PlusCounts
  <2>3. Backed(i)'
    BY <1>0, <1>1, <2>1, <2>2, ReportNumbers DEF Backed
  <2>4. ASSUME NEW j \in Importers, j # i PROVE Backed(j)'
    <3>1. report'[j] = report[j] /\ Backed(j) /\ target'[j] = target[j]
      BY <1>0, <1>1, <2>1, <2>4
    <3> QED
      BY <1>0, <1>1, <3>1, ReportNumbers DEF Backed
  <2> QED
    BY <1>1, <2>3, <2>4 DEF ReportInv
<1>2. ASSUME NEW i \in Importers, ReadRow(i) PROVE ReportInv'
  <2>1. next[i] <= Len(file[i]) /\ UNCHANGED <<file, target, joined>>
    BY <1>2 DEF ReadRow
  <2>2. CASE \E o \in {"invalid", "duplicates"} : Count(i, o)
    BY <1>0, <1>1, <2>1, <2>2 DEF Outcomes
  <2>3. CASE UNCHANGED <<next, report>>
    BY <1>0, <2>1, <2>3 DEF ReportInv, Backed
  <2> QED
    BY <1>2, <2>2, <2>3 DEF ReadRow
<1>3. ASSUME NEW i \in Importers, ImportRow(i) PROVE ReportInv'
  <2>1. next[i] <= Len(file[i]) /\ UNCHANGED <<file, target>>
    BY <1>3, ImportRowCases
  <2>2. PICK r \in Row : \/ LeavesTables(i)
                         \/ \E k \in Ids : UpdatesOne(i, k, r)
                         \/ \E k \in Ids : CreatesOne(i, k, r)
    BY <1>3, ImportRowCases
  <2>3. CASE LeavesTables(i)
    <3>1. PICK o \in {"invalid", "do_not_contact", "skipped"} : Count(i, o)
      BY <2>3 DEF LeavesTables
    <3>2. joined' = joined /\ o \in Outcomes /\ o \notin {"imported", "updated"}
      BY <2>3 DEF LeavesTables, Outcomes
    <3> QED
      BY <1>0, <1>1, <2>1, <3>1, <3>2
  <2>4. ASSUME NEW k \in Ids, UpdatesOne(i, k, r) \/ CreatesOne(i, k, r) PROVE ReportInv'
    <3>0. target[i] \in Campaigns /\ joined \in [Campaigns -> SUBSET Existing]
      BY DEF TypeOK
    <3>1. k \notin joined[target[i]] /\ Join(i, k)
      BY <2>4, <3>0 DEF UpdatesOne, CreatesOne
    <3>2. /\ joined'[target[i]] = joined[target[i]] \union {k}
          /\ \A c \in Campaigns : c # target[i] => joined'[c] = joined[c]
      BY <3>0, <3>1 DEF Join
    <3>3. /\ IsFiniteSet(joined'[target[i]])
          /\ Cardinality(joined'[target[i]]) = Cardinality(joined[target[i]]) + 1
      <4>1. PICK S : S = joined[target[i]]
        OBVIOUS
      <4>2. IsFiniteSet(S) /\ k \notin S
        BY <1>0, <3>0, <3>1, <4>1
      <4>3. IsFiniteSet(S \union {k}) /\ Cardinality(S \union {k}) = Cardinality(S) + 1
        BY <4>2, FS_AddElement
      <4> QED
        BY <3>2, <4>1, <4>3
    <3>4. \A c \in Campaigns : /\ IsFiniteSet(joined'[c]) /\ Cardinality(joined'[c]) \in Nat
                                /\ Cardinality(joined[c]) <= Cardinality(joined'[c])
      <4> SUFFICES ASSUME NEW c \in Campaigns
                   PROVE  /\ IsFiniteSet(joined'[c]) /\ Cardinality(joined'[c]) \in Nat
                          /\ Cardinality(joined[c]) <= Cardinality(joined'[c])
        OBVIOUS
      <4>1. CASE c = target[i]
        BY <1>0, <3>3, <4>1, FS_CardinalityType
      <4>2. CASE c # target[i]
        BY <1>0, <3>2, <4>2
      <4> QED
        BY <4>1, <4>2
    <3>5. PICK o \in {"imported", "updated"} : Count(i, o)
      BY <2>4 DEF UpdatesOne, CreatesOne
    <3>6. o \in Outcomes
      BY DEF Outcomes
    <3> QED
      BY <1>1, <2>1, <3>3, <3>4, <3>5, <3>6
  <2> QED
    BY <2>2, <2>3, <2>4
<1>4. ASSUME NEW i \in Importers, AbortAndRestart(i) PROVE ReportInv'
  <2>1. report' = [report EXCEPT ![i] = [o \in Outcomes |-> 0]] /\ UNCHANGED <<joined, target>>
    BY <1>4 DEF AbortAndRestart, FreshReport
  <2>2. Backed(i)'
    <3>1. report'[i] = [o \in Outcomes |-> 0]
      BY <2>1 DEF TypeOK
    <3> QED
      BY <1>0, <2>1, <3>1, ReportNumbers DEF Backed, Outcomes
  <2>3. ASSUME NEW j \in Importers, j # i PROVE Backed(j)'
    <3>1. report'[j] = report[j]
      BY <2>1, <2>3 DEF TypeOK
    <3> QED
      BY <1>0, <2>1, <3>1 DEF Backed
  <2> QED
    BY <1>0, <2>1, <2>2, <2>3 DEF ReportInv
<1>5. CASE UNCHANGED <<report, target, joined>>
  BY <1>0, <1>5 DEF ReportInv, Backed
<1> QED
  BY <1>2, <1>3, <1>4, <1>5 DEF Next, FinishImport, ApplyOptOut, MarkContacted, progress, vars

LEMMA ReportsHold == Spec => [](TypeInv /\ ReportInv)
BY TypesHold, InitReport, ReportPreserved, PTL DEF Spec

\* The rows an import reports as imported or updated have members to show.
THEOREM ReportsAreBacked == Spec => []ReportedAreJoined
<1>1. ReportInv => ReportedAreJoined
  BY DEF ReportInv, Backed, ReportedAreJoined
<1> QED
  BY <1>1, ReportsHold, PTL

(***************************************************************************)
(* Opt-outs and contacts.                                                  *)
(***************************************************************************)

\* A transaction that writes to a candidate finds no opt-out on it.
LEMMA OptOutStep ==
    ASSUME TypeInv, [Next]_vars, NEW k \in Ids, person[k].dnc
    PROVE  /\ person'[k].phone = person[k].phone
           /\ person'[k].email = person[k].email
           /\ \A c \in Campaigns : k \in joined'[c] => k \in joined[c]
<1>0. person \in [Ids -> Person \union {NoPerson}] /\ person[k] # NoPerson
  BY DEF TypeInv, TypeOK, NoPerson
<1>1. ASSUME NEW i \in Importers, ImportRow(i)
      PROVE  person'[k] = person[k] /\ \A c \in Campaigns : k \in joined'[c] => k \in joined[c]
  <2>1. PICK r \in Row : \/ LeavesTables(i)
                         \/ \E j \in Ids : UpdatesOne(i, j, r)
                         \/ \E j \in Ids : CreatesOne(i, j, r)
    BY <1>1, ImportRowCases DEF TypeInv
  <2>2. CASE LeavesTables(i)
    BY <2>2 DEF LeavesTables
  <2>3. ASSUME NEW j \in Ids, UpdatesOne(i, j, r) \/ CreatesOne(i, j, r)
        PROVE  person'[k] = person[k] /\ \A c \in Campaigns : k \in joined'[c] => k \in joined[c]
    <3>1. j # k
      BY <1>0, <2>3 DEF UpdatesOne, CreatesOne, Existing
    <3>2. Join(i, j)
      BY <2>3 DEF UpdatesOne, CreatesOne
    <3>3. \A c \in Campaigns : k \in joined'[c] => k \in joined[c]
      BY <3>1, <3>2 DEF TypeInv, TypeOK, Join
    <3> QED
      BY <1>0, <2>3, <3>1, <3>3 DEF UpdatesOne, CreatesOne
  <2> QED
    BY <2>1, <2>2, <2>3
<1>2. ASSUME NEW j \in Ids, ApplyOptOut(j) \/ MarkContacted(j)
      PROVE  /\ person'[k].phone = person[k].phone /\ person'[k].email = person[k].email
             /\ joined' = joined
  <2>1. TouchesOne(j)
    BY <1>2, TouchCases
  <2>2. PICK c : person' = [person EXCEPT ![j] = c] /\ c.phone = person[j].phone /\ c.email = person[j].email
    BY <2>1 DEF TouchesOne, WithStatus
  <2> QED
    BY <1>0, <2>1, <2>2 DEF TouchesOne
<1>3. CASE UNCHANGED <<person, joined>>
  BY <1>3
<1> QED
  BY <1>1, <1>2, <1>3 DEF Next, ReadRow, FinishImport, AbortAndRestart, vars

\* No import changes or joins a candidate that has opted out, even when the
\* opt-out arrives after the import read the candidate's row.
THEOREM OptOutsAreKept == Spec => OptedOutUntouched
<1>1. TypeInv /\ [Next]_vars =>
        [\A k \in Ids : person[k].dnc => /\ person'[k].phone = person[k].phone
                                         /\ person'[k].email = person[k].email
                                         /\ \A c \in Campaigns : k \in joined'[c] => k \in joined[c]]_vars
  BY OptOutStep
<1> QED
  BY <1>1, TypesHold, PTL DEF Spec, OptedOutUntouched

LEMMA ContactedStep ==
    ASSUME TypeInv, [Next]_vars, NEW k \in Existing, person[k].status \in {"CONTACTED", "DO_NOT_CONTACT"}
    PROVE  person'[k].status # "READY"
<1>0. person \in [Ids -> Person \union {NoPerson}] /\ k \in Ids /\ person[k] # NoPerson
  BY DEF TypeInv, TypeOK, Existing
<1>1. ASSUME NEW i \in Importers, ImportRow(i) PROVE person'[k].status # "READY"
  <2>1. PICK r \in Row : \/ LeavesTables(i)
                         \/ \E j \in Ids : UpdatesOne(i, j, r)
                         \/ \E j \in Ids : CreatesOne(i, j, r)
    BY <1>1, ImportRowCases DEF TypeInv
  <2>2. CASE LeavesTables(i)
    BY <2>2 DEF LeavesTables
  <2>3. ASSUME NEW j \in Ids, UpdatesOne(i, j, r) PROVE person'[k].status # "READY"
    <3>1. CASE j = k
      <4>1. person'[k] = Updated(person[k], r)
        BY <1>0, <2>3, <3>1 DEF UpdatesOne
      <4> QED
        BY <4>1 DEF Updated
    <3>2. CASE j # k
      BY <1>0, <2>3, <3>2 DEF UpdatesOne
    <3> QED
      BY <3>1, <3>2
  <2>4. ASSUME NEW j \in Ids, CreatesOne(i, j, r) PROVE person'[k].status # "READY"
    BY <1>0, <2>4 DEF CreatesOne
  <2> QED
    BY <2>1, <2>2, <2>3, <2>4
<1>2. ASSUME NEW j \in Ids, ApplyOptOut(j) \/ MarkContacted(j) PROVE person'[k].status # "READY"
  <2>1. TouchesOne(j)
    BY <1>2, TouchCases
  <2>2. PICK c : person' = [person EXCEPT ![j] = c] /\ c.status # "READY"
    BY <2>1 DEF TouchesOne, WithStatus
  <2> QED
    BY <1>0, <2>2
<1>3. CASE UNCHANGED <<person, joined>>
  BY <1>3
<1> QED
  BY <1>1, <1>2, <1>3 DEF Next, ReadRow, FinishImport, AbortAndRestart, vars

\* Importing a candidate again does not make it eligible for a first message
\* when it was contacted or has opted out.
THEOREM ContactsAreKept == Spec => ContactedNotReset
<1>1. TypeInv /\ [Next]_vars =>
        [\A k \in Existing : person[k].status \in {"CONTACTED", "DO_NOT_CONTACT"}
                               => person'[k].status # "READY"]_vars
  BY ContactedStep
<1> QED
  BY <1>1, TypesHold, PTL DEF Spec, ContactedNotReset

(***************************************************************************)
(* Members.                                                                *)
(***************************************************************************)
Unwritten(k) == person'[k].phone = person[k].phone /\ person'[k].email = person[k].email

\* Members stay, and a transaction that writes to a candidate makes it a member.
LEMMA OverwriteStep ==
    ASSUME TypeInv, [Next]_vars, NEW k \in Existing
    PROVE  /\ \A c \in Campaigns : k \in joined[c] => k \in joined'[c]
           /\ Unwritten(k) \/ \E c \in Campaigns : k \in joined'[c] \ joined[c]
<1>0. /\ person \in [Ids -> Person \union {NoPerson}] /\ k \in Ids
      /\ joined \in [Campaigns -> SUBSET Existing] /\ target \in [Importers -> Campaigns]
  BY DEF TypeInv, TypeOK, Existing
<1>1. ASSUME NEW i \in Importers, ImportRow(i)
      PROVE  /\ \A c \in Campaigns : k \in joined[c] => k \in joined'[c]
             /\ Unwritten(k) \/ \E c \in Campaigns : k \in joined'[c] \ joined[c]
  <2>1. PICK r \in Row : \/ LeavesTables(i)
                         \/ \E j \in Ids : UpdatesOne(i, j, r)
                         \/ \E j \in Ids : CreatesOne(i, j, r)
    BY <1>1, ImportRowCases DEF TypeInv
  <2>2. CASE LeavesTables(i)
    BY <2>2 DEF LeavesTables, Unwritten
  <2>3. ASSUME NEW j \in Ids, UpdatesOne(i, j, r) \/ CreatesOne(i, j, r)
        PROVE  /\ \A c \in Campaigns : k \in joined[c] => k \in joined'[c]
               /\ Unwritten(k) \/ \E c \in Campaigns : k \in joined'[c] \ joined[c]
    <3>1. /\ j \notin joined[target[i]]
          /\ joined' = [joined EXCEPT ![target[i]] = @ \union {j}]
      BY <1>0, <2>3 DEF UpdatesOne, CreatesOne, Join
    <3>2. \A c \in Campaigns : k \in joined[c] => k \in joined'[c]
      BY <1>0, <3>1
    <3>3. CASE j = k
      BY <1>0, <3>1, <3>2, <3>3
    <3>4. CASE j # k
      BY <1>0, <2>3, <3>2, <3>4 DEF UpdatesOne, CreatesOne, Unwritten
    <3> QED
      BY <3>3, <3>4
  <2> QED
    BY <2>1, <2>2, <2>3
<1>2. ASSUME NEW j \in Ids, ApplyOptOut(j) \/ MarkContacted(j) PROVE Unwritten(k) /\ UNCHANGED joined
  <2>1. TouchesOne(j)
    BY <1>2, TouchCases
  <2>2. PICK c : person' = [person EXCEPT ![j] = c] /\ c.phone = person[j].phone /\ c.email = person[j].email
    BY <2>1 DEF TouchesOne, WithStatus
  <2> QED
    BY <1>0, <2>1, <2>2 DEF TouchesOne, Unwritten
<1>3. CASE UNCHANGED <<person, joined>>
  BY <1>3 DEF Unwritten
<1> QED
  BY <1>1, <1>2, <1>3 DEF Next, ReadRow, FinishImport, AbortAndRestart, vars

\* An import overwrites the phone or the email of a candidate only as it makes
\* the candidate a member of one more campaign, and members stay members: for
\* any number of campaigns and of overlapping imports, started over however often.
THEOREM OverwritesJoin == Spec => OverwritingJoins
<1>1. TypeInv /\ [Next]_vars =>
        [\A k \in Existing :
            /\ \A c \in Campaigns : k \in joined[c] => k \in joined'[c]
            /\ \/ person'[k].phone = person[k].phone /\ person'[k].email = person[k].email
               \/ \E c \in Campaigns : k \in joined'[c] \ joined[c]]_vars
  BY OverwriteStep DEF Unwritten
<1> QED
  BY <1>1, TypesHold, PTL DEF Spec, OverwritingJoins

(***************************************************************************)
(* Repeated rows.                                                          *)
(***************************************************************************)

\* The rows of its file an import has read, the one in its transaction included.
RowsRead(i) == 1 .. IF pc[i] = "transaction" THEN next[i] ELSE next[i] - 1

SeenPhone(i, p) == \E m \in RowsRead(i) : ~Malformed(file[i][m]) /\ file[i][m].phone = p
SeenEmail(i, e) == \E m \in RowsRead(i) : ~Malformed(file[i][m]) /\ file[i][m].email = e

\* What an import has met is in the well formed rows it has read.
SeenInv ==
    \A i \in Importers : /\ \A p \in seenPhones[i] : SeenPhone(i, p)
                         /\ \A e \in seenEmails[i] : SeenEmail(i, e)

\* An import that moves on, and meets nothing new, has read no fewer rows.
LEMMA SeenKept ==
    ASSUME SeenInv, NEW i \in Importers,
           UNCHANGED <<file, seenPhones, seenEmails>>,
           RowsRead(i) \subseteq RowsRead(i)',
           \A j \in Importers : j # i => next'[j] = next[j] /\ pc'[j] = pc[j]
    PROVE  SeenInv'
<1> SUFFICES ASSUME NEW j \in Importers
             PROVE  /\ \A p \in seenPhones[j] : SeenPhone(j, p)'
                    /\ \A e \in seenEmails[j] : SeenEmail(j, e)'
  BY DEF SeenInv
<1>1. RowsRead(j) \subseteq RowsRead(j)'
  BY DEF RowsRead
<1>2. (\A p \in seenPhones[j] : SeenPhone(j, p)) /\ (\A e \in seenEmails[j] : SeenEmail(j, e))
  BY DEF SeenInv
<1> QED
  BY <1>1, <1>2 DEF SeenPhone, SeenEmail, Malformed

LEMMA SeenPreserved == TypeInv /\ SeenInv /\ [Next]_vars => SeenInv'
<1> SUFFICES ASSUME TypeOK, ParsedInv, SeenInv, [Next]_vars PROVE SeenInv'
  BY DEF TypeInv
<1>0. \A j \in Importers : next[j] \in Nat \ {0}
  BY DEF TypeOK
\* A row counted is a row read.
<1>1. ASSUME NEW i \in Importers, NEW o \in Outcomes, next[i] <= Len(file[i]), Count(i, o),
             UNCHANGED <<file, seenPhones, seenEmails>>
      PROVE  SeenInv'
  <2>1. /\ next'[i] = next[i] + 1 /\ pc'[i] = "row"
        /\ \A j \in Importers : j # i => next'[j] = next[j] /\ pc'[j] = pc[j]
    BY <1>1, CountMoves
  <2>2. RowsRead(i) \subseteq RowsRead(i)'
    BY <1>0, <2>1 DEF RowsRead
  <2> QED
    BY <1>1, <2>1, <2>2, SeenKept
<1>2. ASSUME NEW i \in Importers, ReadRow(i) PROVE SeenInv'
  <2>1. next[i] <= Len(file[i]) /\ UNCHANGED file /\ pc[i] = "row"
    BY <1>2 DEF ReadRow
  <2>2. CASE (Count(i, "invalid") \/ Count(i, "duplicates")) /\ UNCHANGED <<seenPhones, seenEmails>>
    BY <1>1, <2>1, <2>2 DEF Outcomes
  <2>3. CASE /\ ~Malformed(CurrentRow(i))
             /\ seenPhones' = [seenPhones EXCEPT ![i] = @ \union {CurrentRow(i).phone}]
             /\ seenEmails' = [seenEmails EXCEPT ![i] = @ \union EmailOf(CurrentRow(i))]
             /\ pc' = [pc EXCEPT ![i] = "transaction"]
             /\ UNCHANGED next
    <3>1. /\ pc'[i] = "transaction" /\ \A j \in Importers : j # i => pc'[j] = pc[j]
          /\ seenPhones'[i] = seenPhones[i] \union {CurrentRow(i).phone}
          /\ seenEmails'[i] = seenEmails[i] \union EmailOf(CurrentRow(i))
          /\ \A j \in Importers : j # i => seenPhones'[j] = seenPhones[j] /\ seenEmails'[j] = seenEmails[j]
      BY <2>3 DEF TypeOK
    <3>2. ASSUME NEW j \in Importers, j # i
          PROVE  /\ \A p \in seenPhones'[j] : SeenPhone(j, p)'
                 /\ \A e \in seenEmails'[j] : SeenEmail(j, e)'
      <4>1. RowsRead(j)' = RowsRead(j)
        BY <2>3, <3>1, <3>2 DEF RowsRead
      <4>2. (\A p \in seenPhones[j] : SeenPhone(j, p)) /\ (\A e \in seenEmails[j] : SeenEmail(j, e))
        BY DEF SeenInv
      <4> QED
        BY <2>1, <3>1, <3>2, <4>1, <4>2 DEF SeenPhone, SeenEmail, Malformed
    <3>3. next[i] \in RowsRead(i)' /\ RowsRead(i) \subseteq RowsRead(i)'
      BY <1>0, <2>1, <2>3, <3>1 DEF RowsRead
    <3>4. (\A p \in seenPhones[i] : SeenPhone(i, p)') /\ (\A e \in seenEmails[i] : SeenEmail(i, e)')
      <4>1. (\A p \in seenPhones[i] : SeenPhone(i, p)) /\ (\A e \in seenEmails[i] : SeenEmail(i, e))
        BY DEF SeenInv
      <4> QED
        BY <2>1, <3>3, <4>1 DEF SeenPhone, SeenEmail, Malformed
    <3>5. ASSUME NEW row, row = CurrentRow(i)
          PROVE  SeenPhone(i, row.phone)' /\ \A e \in EmailOf(row) : SeenEmail(i, e)'
      BY <2>1, <2>3, <3>3, <3>5 DEF SeenPhone, SeenEmail, Malformed, CurrentRow, EmailOf
    <3>6. \A p \in seenPhones'[i] : SeenPhone(i, p)'
      BY <3>1, <3>4, <3>5
    <3>7. \A e \in seenEmails'[i] : SeenEmail(i, e)'
      BY <3>1, <3>4, <3>5
    <3> QED
      BY <3>2, <3>6, <3>7 DEF SeenInv
  <2> QED
    BY <1>2, <2>2, <2>3 DEF ReadRow
<1>3. ASSUME NEW i \in Importers, ImportRow(i) PROVE SeenInv'
  <2>1. next[i] <= Len(file[i]) /\ UNCHANGED <<file, seenPhones, seenEmails>>
    BY <1>3, ImportRowCases
  <2>2. PICK o \in Outcomes : Count(i, o)
    BY <1>3, ImportRowCases DEF LeavesTables, UpdatesOne, CreatesOne, Outcomes
  <2> QED
    BY <1>1, <2>1, <2>2
<1>4. ASSUME NEW i \in Importers, FinishImport(i) PROVE SeenInv'
  <2>1. /\ pc[i] = "row" /\ pc'[i] = "done" /\ UNCHANGED <<file, next, seenPhones, seenEmails>>
        /\ \A j \in Importers : j # i => pc'[j] = pc[j]
    BY <1>4 DEF FinishImport, TypeOK
  <2>2. RowsRead(i) \subseteq RowsRead(i)'
    BY <2>1 DEF RowsRead
  <2> QED
    BY <2>1, <2>2, SeenKept
<1>5. ASSUME NEW i \in Importers, AbortAndRestart(i) PROVE SeenInv'
  <2>1. /\ UNCHANGED file /\ seenPhones'[i] = {} /\ seenEmails'[i] = {}
        /\ \A j \in Importers : j # i => /\ pc'[j] = pc[j] /\ next'[j] = next[j]
                                         /\ seenPhones'[j] = seenPhones[j] /\ seenEmails'[j] = seenEmails[j]
    BY <1>5 DEF AbortAndRestart, TypeOK
  <2>2. \A j \in Importers : j # i => RowsRead(j)' = RowsRead(j)
    BY <2>1 DEF RowsRead
  <2> QED
    BY <2>1, <2>2 DEF SeenInv, SeenPhone, SeenEmail, Malformed
<1>6. CASE UNCHANGED progress
  BY <1>6 DEF progress, SeenInv, SeenPhone, SeenEmail, RowsRead, Malformed
<1> QED
  BY <1>2, <1>3, <1>4, <1>5, <1>6 DEF Next, ApplyOptOut, MarkContacted, vars

\* Only the loop counts a duplicate, and only for a row it has met.
LEMMA DuplicateStep ==
    ASSUME TypeInv, SeenInv, [Next]_vars, NEW i \in Importers,
           report'[i]["duplicates"] > report[i]["duplicates"]
    PROVE  Repeats(file[i], next[i])
<1>0. TypeOK /\ ParsedInv /\ report \in [Importers -> [Outcomes -> Nat]]
  BY DEF TypeInv, TypeOK
<1>1. \A j \in Importers : report[j]["duplicates"] \in Nat
  BY <1>0, ReportNumbers
<1>2. ASSUME NEW j \in Importers, NEW o \in Outcomes, o # "duplicates", Count(j, o) PROVE FALSE
  <2>1. report' = [report EXCEPT ![j] = Plus(report[j], o)]
    BY <1>2 DEF Count
  <2>2. Plus(report[j], o)["duplicates"] = report[j]["duplicates"]
    BY <1>0, <1>2, PlusCounts
  <2> QED
    BY <1>0, <1>1, <2>1, <2>2
<1>3. ASSUME NEW j \in Importers, ReadRow(j) PROVE Repeats(file[i], next[i])
  <2>1. CASE UNCHANGED report
    BY <1>1, <2>1
  <2>2. CASE Count(j, "invalid")
    BY <1>2, <2>2 DEF Outcomes
  <2>3. CASE ~Malformed(CurrentRow(j)) /\ Seen(j, CurrentRow(j)) /\ Count(j, "duplicates")
    <3>1. i = j
      BY <1>0, <1>1, <2>3 DEF Count
    <3>2. RowsRead(i) = 1 .. next[i] - 1
      BY <1>3, <3>1 DEF ReadRow, RowsRead
    <3>3. \/ SeenPhone(i, CurrentRow(i).phone)
          \/ CurrentRow(i).email # Blank /\ SeenEmail(i, CurrentRow(i).email)
      BY <2>3, <3>1 DEF Seen, SeenInv
    <3> QED
      BY <3>2, <3>3 DEF Repeats, SeenPhone, SeenEmail, CurrentRow
  <2> QED
    BY <1>3, <2>1, <2>2, <2>3 DEF ReadRow
<1>4. ASSUME NEW j \in Importers, ImportRow(j) PROVE FALSE
  <2>1. PICK o \in Outcomes : Count(j, o) /\ o # "duplicates"
    BY <1>0, <1>4, ImportRowCases DEF LeavesTables, UpdatesOne, CreatesOne, Outcomes
  <2> QED
    BY <1>2, <2>1
<1>5. ASSUME NEW j \in Importers, AbortAndRestart(j) PROVE FALSE
  <2>1. report' = [report EXCEPT ![j] = [o \in Outcomes |-> 0]]
    BY <1>5 DEF AbortAndRestart, FreshReport
  <2>2. i = j => report'[i]["duplicates"] = 0
    BY <1>0, <2>1 DEF Outcomes
  <2>3. i # j => report'[i] = report[i]
    BY <1>0, <2>1
  <2> QED
    BY <1>1, <2>2, <2>3
<1>6. CASE UNCHANGED report
  BY <1>1, <1>6
<1> QED
  BY <1>3, <1>4, <1>5, <1>6 DEF Next, FinishImport, ApplyOptOut, MarkContacted, progress, vars

\* Only a row that repeats the phone or the email of an earlier row of the same
\* file is left out as a duplicate, for any number of imports that overlap, of
\* any files, started over however often.
THEOREM DuplicatesAreRepeats == Spec => DuplicatesRepeat
<1>1. Init => SeenInv
  BY DEF Init, SeenInv
<1>2. TypeInv /\ SeenInv /\ [Next]_vars =>
        [\A i \in Importers :
            report'[i]["duplicates"] > report[i]["duplicates"] => Repeats(file[i], next[i])]_vars
  BY DuplicateStep
<1> QED
  BY <1>1, <1>2, SeenPreserved, TypesHold, PTL DEF Spec, DuplicatesRepeat
=============================================================================
