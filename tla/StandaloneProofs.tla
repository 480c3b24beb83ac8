-------------------------- MODULE StandaloneProofs --------------------------
(***************************************************************************)
(* Proofs about the standalone tool, for any number of runs, numbers and   *)
(* input files: the types, the run's own limits, and what its log and the  *)
(* do-not-contact file are worth to the runs that read them.               *)
(***************************************************************************)
EXTENDS Standalone, FiniteSetTheorems, TLAPS

Stages == {"new", "row", "send", "log", "done", "dead"}

(***************************************************************************)
(* Types.                                                                  *)
(***************************************************************************)

\* The row a run is at is one of its input.
LEMMA RowIsProspect ==
    ASSUME NEW r \in Runs, rows \in [Runs -> Inputs \union {<<>>}], at \in [Runs -> Nat \ {0}],
           at[r] <= Len(rows[r])
    PROVE  CurrentRow(r) \in Prospect
<1>1. rows[r] \in Seq(Prospect)
  BY StandaloneAssumption DEF StandaloneAssumption
<1>2. at[r] \in 1 .. Len(rows[r])
  BY <1>1
<1> QED
  BY <1>1, <1>2 DEF CurrentRow

\* A row that is not refused has a number the script could read.
LEMMA TakenIsPhone ==
    ASSUME NEW r \in Runs, NEW row \in Prospect, ~Refused(r, row)
    PROVE  row.phone \in Phones
BY DEF Refused, Prospect

\* The cursor moves by one row.
LEMMA CursorMoves ==
    ASSUME NEW r \in Runs, TypeOK, at[r] <= Len(rows[r]), NextRow(r), UNCHANGED rows
    PROVE  /\ at' \in [Runs -> Nat \ {0}]
           /\ \A q \in Runs : at'[q] <= Len(rows'[q]) + 1
           /\ pc' = [pc EXCEPT ![r] = "row"]
<1>1. \A q \in Runs : Len(rows[q]) \in Nat
  BY StandaloneAssumption DEF TypeOK, StandaloneAssumption
<1> QED
  BY <1>1 DEF TypeOK, NextRow

\* Counting keeps a run's requests a function from numbers to counts.
LEMMA CountingType ==
    ASSUME NEW made \in [Phones -> Nat], NEW phone \in Phones
    PROVE  Counting(made, phone) \in [Phones -> Nat]
BY DEF Counting

\* A run that has not started is at its first row and has requested nothing.
Untouched ==
    \A r \in Runs : pc[r] = "new" =>
        /\ at[r] = 1
        /\ \A p \in Phones : sends[r][p] = 0

LEMMA InitTypes == Init => TypeOK /\ Untouched
<1> SUFFICES ASSUME Init PROVE TypeOK /\ Untouched
  OBVIOUS
<1>1. Len(<<>>) = 0
  OBVIOUS
<1> QED
  BY <1>1 DEF Init, TypeOK, Untouched

LEMMA TypePreserved == TypeOK /\ Untouched /\ [Next]_vars => TypeOK' /\ Untouched'
<1> SUFFICES ASSUME TypeOK, Untouched, [Next]_vars PROVE TypeOK' /\ Untouched'
  OBVIOUS
<1>0. /\ Inputs \subseteq Seq(Prospect)
      /\ \A q \in Runs : rows[q] \in Seq(Prospect) /\ Len(rows[q]) \in Nat
  <2>1. Inputs \subseteq Seq(Prospect) /\ <<>> \in Seq(Prospect)
    BY StandaloneAssumption DEF StandaloneAssumption
  <2>2. \A q \in Runs : rows[q] \in Seq(Prospect)
    BY <2>1 DEF TypeOK
  <2>3. \A s \in Seq(Prospect) : Len(s) \in Nat
    OBVIOUS
  <2> QED
    BY <2>1, <2>2, <2>3
<1>1. ASSUME NEW r \in Runs, StartRun(r) PROVE TypeOK' /\ Untouched'
  <2>1. PICK input \in Inputs, mode \in BOOLEAN :
           /\ rows' = [rows EXCEPT ![r] = input]
           /\ sending' = [sending EXCEPT ![r] = mode]
    BY <1>1 DEF StartRun
  <2>2. Len(input) \in Nat
    BY <1>0
  <2>3. pc[r] = "new" /\ at' = at /\ at[r] = 1
    BY <1>1 DEF StartRun, MayStart, Untouched
  <2>4. \A q \in Runs : at'[q] <= Len(rows'[q]) + 1
    BY <2>1, <2>2, <2>3, <1>0 DEF TypeOK
  <2>5. \A q \in Runs : pc'[q] \in {"send", "log"} => /\ at'[q] <= Len(rows'[q])
                                                      /\ CurrentRow(q)'.phone \in Phones
    BY <1>1, <2>1 DEF StartRun, TypeOK, CurrentRow
  <2> QED
    BY <1>1, <2>1, <2>4, <2>5 DEF StartRun, TypeOK, Untouched, files, LoadDoNotContact, LoadPreviousSends
<1>2. ASSUME NEW r \in Runs, RefuseRun(r) PROVE TypeOK' /\ Untouched'
  BY <1>2 DEF RefuseRun, TypeOK, Untouched, files, history, CurrentRow
<1>3. ASSUME NEW r \in Runs, ProcessRow(r) PROVE TypeOK' /\ Untouched'
  <2> DEFINE row == CurrentRow(r)
             fresh == ~Refused(r, row) /\ row.phone \notin seen[r]
             new == fresh /\ row.phone \notin previous[r]
  <2>1. pc[r] = "row" /\ at[r] <= Len(rows[r]) /\ row \in Prospect
    BY <1>3, RowIsProspect DEF ProcessRow, TypeOK
  <2>2. fresh => row.phone \in Phones
    BY <2>1, TakenIsPhone
  <2>3. seen' = [seen EXCEPT ![r] = IF fresh THEN Remembered(r, row.phone) ELSE @]
    BY <1>3 DEF ProcessRow
  <2>4. review' = review \union {p \in {row.phone} : new /\ ~row.complete}
    BY <1>3 DEF ProcessRow
  <2>5. seen' \in [Runs -> SUBSET Phones] /\ review' \subseteq Phones
    <3> HIDE DEF fresh, row
    <3> QED
      BY <2>2, <2>3, <2>4 DEF TypeOK, Remembered
  <2>6. UNCHANGED <<requested, doNotContact, rows, sending, blocked, previous, sentCount, history>>
    BY <1>3 DEF ProcessRow
  <2>7. CASE fresh /\ pc' = [pc EXCEPT ![r] = "send"] /\ UNCHANGED at
    <3>1. \A q \in Runs : CurrentRow(q)' = CurrentRow(q)
      BY <2>6, <2>7 DEF CurrentRow
    <3>2. \A q \in Runs : pc'[q] \in {"send", "log"} => /\ at'[q] <= Len(rows'[q])
                                                        /\ CurrentRow(q)'.phone \in Phones
      <4> HIDE DEF fresh
      <4> QED
        BY <2>1, <2>2, <2>6, <2>7, <3>1 DEF TypeOK
    <3> HIDE DEF fresh
    <3> QED
      BY <2>1, <2>5, <2>6, <2>7, <3>2 DEF TypeOK, Untouched, history
  <2>8. CASE NextRow(r)
    <3>1. \A q \in Runs : pc'[q] \in {"send", "log"} => /\ at'[q] <= Len(rows'[q])
                                                        /\ CurrentRow(q)'.phone \in Phones
      BY <2>6, <2>8 DEF TypeOK, NextRow, CurrentRow
    <3> QED
      BY <2>1, <2>5, <2>6, <2>8, <3>1, CursorMoves DEF TypeOK, Untouched, history, NextRow
  <2> QED
    BY <1>3, <2>7, <2>8 DEF ProcessRow
<1>4. ASSUME NEW r \in Runs, SendWhatsapp(r) PROVE TypeOK' /\ Untouched'
  <2>1. PICK phone \in Phones : phone = CurrentRow(r).phone
    BY <1>4 DEF SendWhatsapp, TypeOK
  <2>2. sends' = [sends EXCEPT ![r] = Counting(@, phone)]
    BY <1>4, <2>1 DEF SendWhatsapp, MakesRequest
  <2>3. sends' \in [Runs -> [Phones -> Nat]]
    BY <2>2, CountingType DEF TypeOK
  <2>4. \A q \in Runs : CurrentRow(q)' = CurrentRow(q)
    BY <1>4 DEF SendWhatsapp, CurrentRow
  <2>5. sentCount' \in [Runs -> Nat]
    BY <1>4 DEF SendWhatsapp, TypeOK
  <2>6. Untouched'
    BY <1>4, <2>2 DEF SendWhatsapp, Untouched, TypeOK
  <2> QED
    BY <1>4, <2>3, <2>4, <2>5, <2>6 DEF SendWhatsapp, TypeOK, files
<1>5. ASSUME NEW r \in Runs, SendFails(r) \/ LogRequested(r) \/ LogFails(r) PROVE TypeOK' /\ Untouched'
  <2>1. /\ pc[r] \in {"send", "log"}
        /\ NextRow(r)
        /\ UNCHANGED <<review, doNotContact, rows, sending, blocked, previous, seen, sentCount,
                       earlier, added>>
    BY <1>5 DEF SendFails, LogRequested, LogFails, files, history
  <2>2. PICK phone \in Phones : phone = CurrentRow(r).phone
    BY <2>1 DEF TypeOK
  <2>3. /\ requested' = requested \/ requested' = requested \union {phone}
        /\ lost' = lost \/ lost' = [lost EXCEPT ![r] = @ \union {phone}]
        /\ raised' = raised \/ raised' = [raised EXCEPT ![r] = @ \union {phone}]
        /\ sends' = sends \/ sends' = [sends EXCEPT ![r] = Counting(@, phone)]
    BY <1>5, <2>2 DEF SendFails, LogRequested, LogFails, Loses, MakesRequest, files, history
  <2>4. requested' \subseteq Phones
    BY <2>3 DEF TypeOK
  <2>5. ASSUME NEW per \in [Runs -> SUBSET Phones]
        PROVE  [per EXCEPT ![r] = @ \union {phone}] \in [Runs -> SUBSET Phones]
    OBVIOUS
  <2>6. lost' \in [Runs -> SUBSET Phones] /\ raised' \in [Runs -> SUBSET Phones]
    <3>1. lost \in [Runs -> SUBSET Phones] /\ raised \in [Runs -> SUBSET Phones]
      BY DEF TypeOK
    <3>2. /\ [lost EXCEPT ![r] = @ \union {phone}] \in [Runs -> SUBSET Phones]
          /\ [raised EXCEPT ![r] = @ \union {phone}] \in [Runs -> SUBSET Phones]
      BY <2>5, <3>1
    <3>3. lost' \in [Runs -> SUBSET Phones]
      BY <2>3, <3>1, <3>2
    <3>4. raised' \in [Runs -> SUBSET Phones]
      BY <2>3, <3>1, <3>2
    <3> QED
      BY <3>3, <3>4
  <2>7. sends' \in [Runs -> [Phones -> Nat]] /\ \A q \in Runs : q # r => sends'[q] = sends[q]
    <3>1. CASE sends' = sends
      BY <3>1 DEF TypeOK
    <3>2. CASE sends' = [sends EXCEPT ![r] = Counting(@, phone)]
      BY <3>2, CountingType DEF TypeOK
    <3> QED
      BY <2>3, <3>1, <3>2
  <2>8. \A q \in Runs : pc'[q] \in {"send", "log"} => /\ at'[q] <= Len(rows'[q])
                                                      /\ CurrentRow(q)'.phone \in Phones
    BY <2>1 DEF TypeOK, NextRow, CurrentRow
  <2>9. Untouched'
    BY <2>1, <2>7 DEF TypeOK, NextRow, Untouched
  <2>10. TypeOK'
    BY <2>1, <2>4, <2>6, <2>7, <2>8, CursorMoves DEF TypeOK, NextRow
  <2> QED
    BY <2>9, <2>10
<1>6. ASSUME NEW r \in Runs, Crash(r) PROVE TypeOK' /\ Untouched'
  <2>1. lost' = lost \/ (pc[r] = "log" /\ lost' = [lost EXCEPT ![r] = @ \union {CurrentRow(r).phone}])
    BY <1>6 DEF Crash, Loses
  <2>2. lost' \in [Runs -> SUBSET Phones]
    <3>1. CASE lost' = lost
      BY <3>1 DEF TypeOK
    <3>2. CASE pc[r] = "log" /\ lost' = [lost EXCEPT ![r] = @ \union {CurrentRow(r).phone}]
      <4>1. PICK phone \in Phones : phone = CurrentRow(r).phone
        BY <3>2 DEF TypeOK
      <4> QED
        BY <3>2, <4>1 DEF TypeOK
    <3> QED
      BY <2>1, <3>1, <3>2
  <2>3. \A q \in Runs : CurrentRow(q)' = CurrentRow(q)
    BY <1>6 DEF Crash, CurrentRow
  <2> QED
    BY <1>6, <2>2, <2>3 DEF Crash, TypeOK, Untouched, files
<1>7. ASSUME NEW r \in Runs, FinishRun(r) PROVE TypeOK' /\ Untouched'
  BY <1>7 DEF FinishRun, TypeOK, Untouched, files, history, CurrentRow
<1>8. ASSUME NEW p \in Phones, AddDoNotContact(p) PROVE TypeOK' /\ Untouched'
  BY <1>8 DEF AddDoNotContact, TypeOK, Untouched, own, CurrentRow
<1>9. CASE UNCHANGED vars
  BY <1>9 DEF vars, files, own, history, TypeOK, Untouched, CurrentRow
<1> QED
  BY <1>1, <1>2, <1>3, <1>4, <1>5, <1>6, <1>7, <1>8, <1>9 DEF Next

\* The tool's state stays well-typed, and a run that is about to send is at a
\* row of its input with a number it could read.
THEOREM TypeCorrect == Spec => []TypeOK
<1>1. Spec => [](TypeOK /\ Untouched)
  BY InitTypes, TypePreserved, PTL DEF Spec
<1> QED
  BY <1>1, PTL

(***************************************************************************)
(* One run's requests.                                                     *)
(***************************************************************************)
RunStep(r) ==
    \/ StartRun(r) \/ RefuseRun(r) \/ ProcessRow(r) \/ SendWhatsapp(r)
    \/ SendFails(r) \/ LogRequested(r) \/ LogFails(r) \/ Crash(r) \/ FinishRun(r)

\* A run's step leaves the other runs as they are.
LEMMA OthersRest ==
    ASSUME TypeOK, NEW r \in Runs, RunStep(r), NEW q \in Runs, q # r
    PROVE  /\ pc'[q] = pc[q]
           /\ CurrentRow(q)' = CurrentRow(q)
           /\ sends'[q] = sends[q]
           /\ lost'[q] = lost[q]
           /\ raised'[q] = raised[q]
           /\ seen'[q] = seen[q]
           /\ sentCount'[q] = sentCount[q]
           /\ previous'[q] = previous[q]
           /\ blocked'[q] = blocked[q]
           /\ earlier'[q] = earlier[q]
           /\ added'[q] = added[q]
<1>1. CASE StartRun(r)
  BY <1>1 DEF StartRun, TypeOK, CurrentRow
<1>2. CASE RefuseRun(r)
  BY <1>2 DEF RefuseRun, TypeOK, CurrentRow, history
<1>3. CASE ProcessRow(r)
  <2>1. CASE pc' = [pc EXCEPT ![r] = "send"] /\ UNCHANGED at
    BY <1>3, <2>1 DEF ProcessRow, TypeOK, CurrentRow, history
  <2>2. CASE NextRow(r)
    BY <1>3, <2>2 DEF ProcessRow, NextRow, TypeOK, CurrentRow, history
  <2> QED
    BY <1>3, <2>1, <2>2 DEF ProcessRow
<1>4. CASE SendWhatsapp(r)
  BY <1>4 DEF SendWhatsapp, MakesRequest, TypeOK, CurrentRow
<1>5. CASE SendFails(r)
  BY <1>5 DEF SendFails, MakesRequest, Loses, NextRow, TypeOK, CurrentRow, history
<1>6. CASE LogRequested(r)
  BY <1>6 DEF LogRequested, NextRow, TypeOK, CurrentRow, history
<1>7. CASE LogFails(r)
  BY <1>7 DEF LogFails, Loses, NextRow, TypeOK, CurrentRow
<1>8. CASE Crash(r)
  BY <1>8 DEF Crash, Loses, TypeOK, CurrentRow
<1>9. CASE FinishRun(r)
  BY <1>9 DEF FinishRun, TypeOK, CurrentRow, history
<1> QED
  BY <1>1, <1>2, <1>3, <1>4, <1>5, <1>6, <1>7, <1>8, <1>9 DEF RunStep

\* What a run knows of a number it may still request, and of one it has
\* requested.
Unrequested(r, p) ==
    sends[r][p] = 0 /\ p \in seen[r] /\ p \notin previous[r] /\ p \notin blocked[r]

AboutToSend(r) == pc[r] = "send" => \A p \in Phones : p = CurrentRow(r).phone => Unrequested(r, p)

RequestMarks(r) ==
    \A p \in Phones : sends[r][p] > 0 => /\ sends[r][p] = 1
                                         /\ p \in seen[r]
                                         /\ p \notin previous[r]
                                         /\ p \notin blocked[r]

MarksInv == \A r \in Runs : AboutToSend(r) /\ RequestMarks(r)

LEMMA InitMarks == Init => MarksInv
BY DEF Init, MarksInv, AboutToSend, RequestMarks

\* The step of a run keeps its own marks.
LEMMA MarksOwn ==
    ASSUME TypeOK, Untouched, MarksInv, NEW r \in Runs, RunStep(r)
    PROVE  AboutToSend(r)' /\ RequestMarks(r)'
<1>1. AboutToSend(r) /\ RequestMarks(r) /\ pc \in [Runs -> Stages] /\ seen \in [Runs -> SUBSET Phones]
  BY DEF MarksInv, TypeOK, Stages
<1>2. CASE StartRun(r)
  BY <1>2 DEF StartRun, MayStart, Untouched, AboutToSend, RequestMarks, TypeOK
<1>3. CASE RefuseRun(r)
  BY <1>1, <1>3 DEF RefuseRun, history, AboutToSend, RequestMarks
<1>4. CASE ProcessRow(r)
  <2> DEFINE row == CurrentRow(r)
             fresh == ~Refused(r, row) /\ row.phone \notin seen[r]
             new == fresh /\ row.phone \notin previous[r]
  <2>1. /\ seen' = [seen EXCEPT ![r] = IF fresh THEN Remembered(r, row.phone) ELSE @]
        /\ UNCHANGED <<sends, previous, blocked, rows>>
    BY <1>4 DEF ProcessRow, history
  <2>2. seen[r] \subseteq seen'[r] /\ (fresh => row.phone \in seen'[r])
    <3> HIDE DEF fresh, row
    <3> QED
      BY <1>1, <2>1 DEF Remembered
  <2>3. RequestMarks(r)'
    BY <1>1, <2>1, <2>2 DEF RequestMarks
  <2>4. CASE new /\ pc' = [pc EXCEPT ![r] = "send"] /\ UNCHANGED at
    <3>1. row.phone \notin blocked[r]
      BY <2>4 DEF Refused
    <3>2. CurrentRow(r)' = row
      BY <2>1, <2>4 DEF CurrentRow
    <3>3. \A p \in Phones : p = row.phone => sends[r][p] = 0
      BY <1>1, <2>4 DEF RequestMarks, TypeOK
    <3> HIDE DEF row
    <3> QED
      BY <2>1, <2>2, <2>3, <2>4, <3>1, <3>2, <3>3 DEF AboutToSend, Unrequested
  <2>5. CASE NextRow(r)
    BY <1>1, <2>3, <2>5 DEF NextRow, AboutToSend
  <2> QED
    BY <1>4, <2>4, <2>5 DEF ProcessRow
<1>5. CASE pc[r] = "send" /\ MakesRequest(r) /\ pc'[r] # "send" /\ UNCHANGED <<seen, previous, blocked>>
  <2>1. PICK phone \in Phones : phone = CurrentRow(r).phone
    BY <1>5 DEF TypeOK
  <2>2. /\ sends' = [sends EXCEPT ![r] = Counting(@, phone)]
        /\ pc'[r] # "send"
        /\ UNCHANGED <<seen, previous, blocked>>
    BY <1>5, <2>1 DEF MakesRequest
  <2>3. Unrequested(r, phone)
    BY <1>1, <1>5, <2>1 DEF AboutToSend
  <2>4. sends'[r] = Counting(sends[r], phone)
    BY <2>2 DEF TypeOK
  <2>5. \A p \in Phones : sends'[r][p] = IF p = phone THEN 1 ELSE sends[r][p]
    BY <2>3, <2>4 DEF Counting, Unrequested, TypeOK
  <2>6. RequestMarks(r)'
    BY <1>1, <2>2, <2>3, <2>5 DEF RequestMarks, Unrequested
  <2> QED
    BY <2>2, <2>6 DEF AboutToSend
<1>6. CASE pc'[r] = "row" /\ UNCHANGED <<sends, seen, previous, blocked>>
  <2>1. pc'[r] = "row" /\ UNCHANGED <<sends, seen, previous, blocked>>
    BY <1>6
  <2> QED
    BY <1>1, <2>1 DEF AboutToSend, RequestMarks
<1>7. CASE Crash(r)
  BY <1>1, <1>7 DEF Crash, AboutToSend, RequestMarks
<1>8. CASE FinishRun(r)
  BY <1>1, <1>8 DEF FinishRun, history, AboutToSend, RequestMarks
<1>9. CASE SendWhatsapp(r)
  BY <1>1, <1>5, <1>9 DEF SendWhatsapp
<1>10. CASE SendFails(r) \/ LogRequested(r) \/ LogFails(r)
  BY <1>1, <1>5, <1>6, <1>10 DEF SendFails, LogRequested, LogFails, NextRow, history
<1> QED
  BY <1>2, <1>3, <1>4, <1>7, <1>8, <1>9, <1>10 DEF RunStep

LEMMA MarksPreserved ==
    TypeOK /\ Untouched /\ MarksInv /\ [Next]_vars => MarksInv'
<1> SUFFICES ASSUME TypeOK, Untouched, MarksInv, [Next]_vars, NEW q \in Runs
             PROVE  AboutToSend(q)' /\ RequestMarks(q)'
  BY DEF MarksInv
<1>1. AboutToSend(q) /\ RequestMarks(q)
  BY DEF MarksInv
<1>2. ASSUME NEW r \in Runs, RunStep(r) PROVE AboutToSend(q)' /\ RequestMarks(q)'
  <2>1. CASE q = r
    BY <1>2, <2>1, MarksOwn
  <2>2. CASE q # r
    BY <1>1, <1>2, <2>2, OthersRest DEF AboutToSend, RequestMarks, Unrequested
  <2> QED
    BY <2>1, <2>2
<1>3. CASE UNCHANGED own /\ UNCHANGED sends
  BY <1>1, <1>3 DEF own, AboutToSend, RequestMarks, Unrequested, CurrentRow
<1> QED
  BY <1>2, <1>3 DEF Next, RunStep, AddDoNotContact, vars, history

LEMMA MarksHold == Spec => [](TypeOK /\ Untouched /\ MarksInv)
BY InitTypes, InitMarks, TypePreserved, MarksPreserved, PTL DEF Spec

\* One run requests a number at most once, for any input: the number is in seen
\* before it is sent, whatever its first row came to.
THEOREM RequestedOnce == Spec => []OncePerRun
<1>1. TypeOK /\ MarksInv => OncePerRun
  <2> SUFFICES ASSUME TypeOK, MarksInv, NEW r \in Runs, NEW p \in Phones PROVE sends[r][p] <= 1
    BY DEF OncePerRun
  <2>1. sends[r][p] \in Nat /\ (sends[r][p] > 0 => sends[r][p] = 1)
    BY DEF TypeOK, MarksInv, RequestMarks
  <2> QED
    BY <2>1
<1> QED
  BY <1>1, MarksHold, PTL

(***************************************************************************)
(* The limit of a run.                                                     *)
(***************************************************************************)
Requests(r) == {p \in Phones : sends[r][p] > 0}

\* The counter bounds the numbers whose request returned, and the limit bounds
\* the counter.
Returned(r) == Requests(r) \ raised[r]

Limited(r) ==
    /\ IsFiniteSet(Requests(r)) /\ IsFiniteSet(raised[r])
    /\ Cardinality(Returned(r)) <= sentCount[r]
    /\ sentCount[r] <= MaxMessages
    /\ pc[r] = "send" => sentCount[r] < MaxMessages

LimitInv == \A r \in Runs : Limited(r)

LEMMA InitLimit == Init => LimitInv
<1> SUFFICES ASSUME Init, NEW r \in Runs PROVE Limited(r)
  BY DEF LimitInv
<1>1. Requests(r) = {} /\ raised[r] = {} /\ Returned(r) = {}
  BY DEF Init, Requests, Returned
<1> QED
  BY <1>1, FS_EmptySet, StandaloneAssumption DEF Init, Limited, StandaloneAssumption

\* A step that leaves a run's requests and counter alone, and does not take it
\* to a send, keeps its limit.
LEMMA LimitKept ==
    ASSUME NEW r \in Runs, Limited(r), sends'[r] = sends[r], sentCount'[r] = sentCount[r],
           raised'[r] = raised[r],
           pc'[r] = "send" => pc[r] = "send" \/ sentCount[r] < MaxMessages
    PROVE  Limited(r)'
<1>1. Requests(r)' = Requests(r) /\ Returned(r)' = Returned(r)
  BY DEF Requests, Returned
<1> QED
  BY <1>1 DEF Limited

LEMMA LimitPreserved == TypeOK /\ LimitInv /\ [Next]_vars => LimitInv'
<1> SUFFICES ASSUME TypeOK, LimitInv, [Next]_vars, NEW q \in Runs PROVE Limited(q)'
  BY DEF LimitInv
<1>1. /\ Limited(q)
      /\ MaxMessages \in Nat
      /\ sentCount \in [Runs -> Nat]
      /\ sends \in [Runs -> [Phones -> Nat]]
      /\ raised \in [Runs -> SUBSET Phones]
      /\ pc \in [Runs -> Stages]
  BY StandaloneAssumption DEF LimitInv, TypeOK, StandaloneAssumption, Stages
<1>2. ASSUME NEW r \in Runs, RunStep(r), q # r PROVE Limited(q)'
  BY <1>1, <1>2, OthersRest, LimitKept
<1>3. CASE ProcessRow(q)
  <2>1. sends' = sends /\ sentCount' = sentCount /\ raised' = raised
    BY <1>3 DEF ProcessRow, history
  <2>2. pc'[q] = "send" => sentCount[q] < MaxMessages
    <3>1. CASE ~AtLimit(q)
      BY <1>1, <3>1 DEF AtLimit
    <3>2. CASE NextRow(q)
      BY <1>1, <3>2 DEF NextRow
    <3> QED
      BY <1>3, <3>1, <3>2 DEF ProcessRow
  <2> QED
    BY <1>1, <2>1, <2>2, LimitKept
\* A request made adds at most one number to those requested.
<1>4. ASSUME pc[q] = "send", MakesRequest(q)
      PROVE  \E phone \in Phones : phone = CurrentRow(q).phone /\ Requests(q)' = Requests(q) \union {phone}
  <2>1. PICK phone \in Phones : phone = CurrentRow(q).phone
    BY <1>4 DEF TypeOK
  <2>2. sends'[q] = Counting(sends[q], phone)
    BY <1>1, <1>4, <2>1 DEF MakesRequest
  <2>3. Requests(q)' = Requests(q) \union {phone}
    BY <1>1, <2>2 DEF Requests, Counting
  <2> QED
    BY <2>1, <2>3
<1>5. IsFiniteSet(Returned(q)) /\ Cardinality(Returned(q)) \in Nat
  BY <1>1, FS_Difference, FS_CardinalityType DEF Limited, Returned
<1>6. CASE SendWhatsapp(q)
  <2>1. PICK phone \in Phones : Requests(q)' = Requests(q) \union {phone}
    BY <1>4, <1>6 DEF SendWhatsapp
  <2>2. raised' = raised /\ sentCount'[q] = sentCount[q] + 1 /\ pc'[q] = "log" /\ pc[q] = "send"
    BY <1>1, <1>6 DEF SendWhatsapp
  <2>3. /\ IsFiniteSet(Requests(q)') /\ IsFiniteSet(raised'[q])
        /\ Returned(q)' \subseteq Returned(q) \union {phone}
    <3>1. IsFiniteSet(Requests(q) \union {phone})
      BY <1>1, FS_AddElement DEF Limited
    <3>2. Returned(q)' \subseteq Returned(q) \union {phone}
      BY <2>1, <2>2 DEF Returned
    <3> QED
      BY <1>1, <2>1, <2>2, <3>1, <3>2 DEF Limited
  <2>4. /\ IsFiniteSet(Returned(q) \union {phone})
        /\ Cardinality(Returned(q) \union {phone}) <= Cardinality(Returned(q)) + 1
        /\ Cardinality(Returned(q) \union {phone}) \in Nat
    <3>1. PICK S : S = Returned(q)
      OBVIOUS
    <3>2. /\ IsFiniteSet(S \union {phone})
          /\ \/ Cardinality(S \union {phone}) = Cardinality(S)
             \/ Cardinality(S \union {phone}) = Cardinality(S) + 1
      BY <1>5, <3>1, FS_AddElement
    <3> QED
      BY <1>5, <3>1, <3>2
  <2>5. /\ Cardinality(Returned(q)') <= Cardinality(Returned(q) \union {phone})
        /\ Cardinality(Returned(q)') \in Nat
    BY <2>3, <2>4, FS_Subset, FS_CardinalityType
  <2> QED
    BY <1>1, <1>5, <2>2, <2>3, <2>4, <2>5 DEF Limited
<1>7. CASE SendFails(q)
  <2>1. sentCount' = sentCount /\ pc'[q] = "row" /\ pc[q] = "send"
    BY <1>1, <1>7 DEF SendFails, NextRow
  <2>2. CASE UNCHANGED history
    BY <1>1, <2>1, <2>2, LimitKept DEF history
  <2>3. CASE MakesRequest(q) /\ raised' = [raised EXCEPT ![q] = @ \union {CurrentRow(q).phone}]
    <3>1. PICK phone \in Phones : phone = CurrentRow(q).phone /\ Requests(q)' = Requests(q) \union {phone}
      BY <1>4, <2>1, <2>3
    <3>2. raised'[q] = raised[q] \union {phone}
      BY <1>1, <2>3, <3>1
    <3>3. IsFiniteSet(Requests(q)') /\ IsFiniteSet(raised'[q]) /\ Returned(q)' \subseteq Returned(q)
      <4>1. IsFiniteSet(Requests(q) \union {phone}) /\ IsFiniteSet(raised[q] \union {phone})
        BY <1>1, FS_AddElement DEF Limited
      <4>2. Returned(q)' \subseteq Returned(q)
        BY <3>1, <3>2 DEF Returned
      <4> QED
        BY <3>1, <3>2, <4>1, <4>2
    <3>4. Cardinality(Returned(q)') <= Cardinality(Returned(q)) /\ Cardinality(Returned(q)') \in Nat
      BY <1>5, <3>3, FS_Subset, FS_CardinalityType
    <3> QED
      BY <1>1, <1>5, <2>1, <3>3, <3>4 DEF Limited
  <2> QED
    BY <1>7, <2>2, <2>3 DEF SendFails
<1>8. CASE StartRun(q) \/ RefuseRun(q) \/ LogRequested(q) \/ LogFails(q) \/ Crash(q) \/ FinishRun(q)
  <2>1. sends' = sends /\ raised' = raised /\ sentCount' = sentCount /\ pc'[q] # "send"
    BY <1>1, <1>8 DEF StartRun, RefuseRun, LogRequested, LogFails, Crash, FinishRun, NextRow, history
  <2> QED
    BY <1>1, <2>1, LimitKept
<1>9. CASE UNCHANGED own /\ UNCHANGED <<sends, raised>>
  BY <1>1, <1>9, LimitKept DEF own
<1> QED
  BY <1>2, <1>3, <1>6, <1>7, <1>8, <1>9 DEF Next, RunStep, AddDoNotContact, vars, history

\* A run requests more numbers than --max-messages only by as many as its calls
\* have raised for after the request had left, for any limit and any input.
THEOREM LimitHolds == Spec => []SessionLimitKept
<1>1. Spec => [](TypeOK /\ LimitInv)
  BY MarksHold, InitLimit, LimitPreserved, PTL DEF Spec
<1>2. TypeOK /\ LimitInv => SessionLimitKept
  <2> SUFFICES ASSUME TypeOK, LimitInv, NEW r \in Runs
               PROVE  Cardinality({p \in Phones : sends[r][p] > 0}) <= MaxMessages + Cardinality(raised[r])
    BY DEF SessionLimitKept
  <2>1. Limited(r) /\ Requests(r) = {p \in Phones : sends[r][p] > 0}
    BY DEF LimitInv, Requests
  <2>2. PICK S, T : S = Requests(r) /\ T = raised[r]
    OBVIOUS
  <2>3. IsFiniteSet(S) /\ IsFiniteSet(T)
    BY <2>1, <2>2 DEF Limited
  <2>4. IsFiniteSet(S \ T) /\ Cardinality(S \ T) = Cardinality(S) - Cardinality(S \cap T)
    BY <2>3, FS_Difference
  <2>5. Cardinality(S \cap T) <= Cardinality(T) /\ IsFiniteSet(S \cap T)
    BY <2>3, FS_Subset, FS_Intersection
  <2>6. /\ Cardinality(S) \in Nat /\ Cardinality(T) \in Nat /\ Cardinality(S \ T) \in Nat
        /\ Cardinality(S \cap T) \in Nat
    BY <2>3, <2>4, <2>5, FS_CardinalityType
  <2>7. Cardinality(S \ T) <= MaxMessages /\ MaxMessages \in Nat
    <3>1. Cardinality(S \ T) <= sentCount[r] /\ sentCount[r] <= MaxMessages /\ sentCount[r] \in Nat
      BY <2>1, <2>2 DEF Limited, Returned, TypeOK
    <3>2. MaxMessages \in Nat
      BY StandaloneAssumption DEF StandaloneAssumption
    <3> QED
      BY <2>6, <3>1, <3>2
  <2> QED
    BY <2>1, <2>2, <2>4, <2>5, <2>6, <2>7
<1> QED
  BY <1>1, <1>2, PTL

(***************************************************************************)
(* What the log tells a later run.                                         *)
(***************************************************************************)

\* A request is in the log, is about to be written there, or is lost.
Accounted(r) ==
    \A p \in Phones : sends[r][p] > 0 => \/ p \in requested
                                         \/ p \in lost[r]
                                         \/ pc[r] = "log" /\ CurrentRow(r).phone = p

\* A run that was over when another one started has told it all it will tell.
Told(r, q) == Over(q) /\ \A p \in Phones : sends[q][p] > 0 => p \in lost[q] \/ p \in previous[r]

LogInv ==
    /\ \A r \in Runs : Accounted(r)
    /\ \A r \in Runs : \A q \in earlier[r] : Told(r, q)

LEMMA InitLog == Init => LogInv
BY DEF Init, LogInv, Accounted

\* Steps only add to the log and to what is lost.
LEMMA LogGrows ==
    ASSUME TypeOK, NEW r \in Runs, RunStep(r), NEW q \in Runs
    PROVE  requested \subseteq requested' /\ lost[q] \subseteq lost'[q]
<1>1. requested \subseteq requested'
  BY DEF RunStep, StartRun, RefuseRun, ProcessRow, SendWhatsapp, SendFails, LogRequested, LogFails, Crash,
         FinishRun, files
<1>2. lost' = lost \/ lost' = [lost EXCEPT ![r] = @ \union {CurrentRow(r).phone}]
  BY DEF RunStep, StartRun, RefuseRun, ProcessRow, SendWhatsapp, SendFails, LogRequested, LogFails, Loses,
         Crash, FinishRun, history
<1>3. lost \in [Runs -> SUBSET Phones]
  BY DEF TypeOK
<1> QED
  BY <1>1, <1>2, <1>3

\* The step of a run keeps its own requests accounted for.
LEMMA AccountedOwn ==
    ASSUME TypeOK, NEW r \in Runs, Accounted(r), RunStep(r)
    PROVE  Accounted(r)'
<1>0. /\ pc \in [Runs -> Stages] /\ lost \in [Runs -> SUBSET Phones]
      /\ requested \subseteq requested' /\ lost[r] \subseteq lost'[r]
  BY LogGrows DEF TypeOK, Stages
<1>1. CASE /\ \/ StartRun(r) \/ RefuseRun(r) \/ ProcessRow(r) \/ FinishRun(r)
              \/ SendFails(r) /\ UNCHANGED history
  <2>1. sends' = sends /\ pc[r] # "log"
    BY <1>1, <1>0 DEF StartRun, RefuseRun, MayStart, ProcessRow, SendFails, FinishRun, history
  <2> QED
    BY <1>0, <2>1 DEF Accounted
<1>2. CASE SendWhatsapp(r) \/ (SendFails(r) /\ MakesRequest(r) /\ Loses(r))
  <2>1. PICK phone \in Phones : phone = CurrentRow(r).phone
    BY <1>2 DEF SendWhatsapp, SendFails, TypeOK
  <2>2. sends'[r] = Counting(sends[r], phone)
    BY <1>2, <2>1 DEF SendWhatsapp, MakesRequest, TypeOK
  <2>3. pc[r] = "send" /\ (phone \in lost'[r] \/ (pc'[r] = "log" /\ CurrentRow(r)' = CurrentRow(r)))
    BY <1>0, <1>2, <2>1 DEF SendWhatsapp, SendFails, Loses, CurrentRow
  <2>4. \A p \in Phones : p # phone => sends'[r][p] = sends[r][p]
    BY <2>2 DEF Counting
  <2> QED
    BY <1>0, <2>1, <2>3, <2>4 DEF Accounted
<1>3. CASE LogRequested(r) \/ LogFails(r)
  <2>1. sends' = sends /\ (CurrentRow(r).phone \in requested' \/ CurrentRow(r).phone \in lost'[r])
    BY <1>0, <1>3 DEF LogRequested, LogFails, Loses, history
  <2> QED
    BY <1>0, <2>1 DEF Accounted
<1>4. CASE Crash(r)
  <2>1. sends' = sends /\ (pc[r] = "log" => CurrentRow(r).phone \in lost'[r])
    BY <1>0, <1>4 DEF Crash, Loses
  <2> QED
    BY <1>0, <2>1 DEF Accounted
<1> QED
  BY <1>1, <1>2, <1>3, <1>4 DEF RunStep, SendFails

\* A run that is over takes no step.
LEMMA OverIsFinal ==
    ASSUME NEW r \in Runs, RunStep(r)
    PROVE  ~Over(r)
BY DEF RunStep, StartRun, RefuseRun, MayStart, ProcessRow, SendWhatsapp, SendFails, LogRequested, LogFails,
       Crash, FinishRun, Over

\* Only the start of a run changes what it has read, and it starts once.
LEMMA ReadsOnce ==
    ASSUME TypeOK, NEW r \in Runs, RunStep(r), ~StartRun(r)
    PROVE  previous'[r] = previous[r] /\ blocked'[r] = blocked[r] /\ earlier'[r] = earlier[r]
           /\ added'[r] = added[r] /\ pc'[r] # "new"
BY DEF RunStep, RefuseRun, ProcessRow, SendWhatsapp, SendFails, LogRequested, LogFails, Crash, FinishRun,
       NextRow, history, TypeOK

LEMMA LogPreserved == TypeOK /\ LogInv /\ [Next]_vars => LogInv'
<1> SUFFICES ASSUME TypeOK, LogInv, [Next]_vars PROVE LogInv'
  OBVIOUS
<1>0. /\ \A q \in Runs : Accounted(q)
      /\ earlier \in [Runs -> SUBSET Runs]
      /\ pc \in [Runs -> Stages]
  BY DEF LogInv, TypeOK, Stages
<1>1. ASSUME NEW r \in Runs, RunStep(r) PROVE LogInv'
  <2>1. \A q \in Runs : Accounted(q)'
    <3> SUFFICES ASSUME NEW q \in Runs PROVE Accounted(q)'
      OBVIOUS
    <3>1. CASE q = r
      BY <1>0, <1>1, <3>1, AccountedOwn
    <3>2. CASE q # r
      BY <1>0, <1>1, <3>2, OthersRest, LogGrows DEF Accounted
    <3> QED
      BY <3>1, <3>2
  <2>2. ASSUME NEW q \in Runs, Over(q)
        PROVE  pc'[q] = pc[q] /\ sends'[q] = sends[q] /\ lost'[q] = lost[q]
    BY <1>1, <2>2, OverIsFinal, OthersRest
  <2>3. ASSUME NEW s \in Runs, NEW q \in earlier'[s] PROVE Told(s, q)'
    <3>1. CASE StartRun(r) /\ s = r
      <4>1. previous'[r] = requested /\ earlier'[r] = {t \in Runs : Over(t)}
        BY <1>0, <1>1, <3>1 DEF StartRun, LoadPreviousSends, TypeOK
      <4>2. q \in Runs /\ Over(q) /\ Accounted(q) /\ pc[q] # "log"
        BY <1>0, <2>3, <3>1, <4>1 DEF Over
      <4> QED
        BY <2>2, <3>1, <4>1, <4>2 DEF Told, Accounted, Over
    <3>2. CASE ~(StartRun(r) /\ s = r)
      <4>1. earlier'[s] = earlier[s] /\ previous'[s] = previous[s]
        BY <1>1, <3>2, OthersRest, ReadsOnce
      <4>2. q \in Runs /\ Told(s, q)
        BY <1>0, <2>3, <4>1 DEF LogInv
      <4> QED
        BY <2>2, <4>1, <4>2 DEF Told, Over
    <3> QED
      BY <3>1, <3>2
  <2> QED
    BY <2>1, <2>3 DEF LogInv
<1>2. CASE UNCHANGED <<requested, own, sends, lost, earlier>>
  BY <1>0, <1>2 DEF own, LogInv, Accounted, Told, Over, CurrentRow
<1> QED
  BY <1>1, <1>2 DEF Next, RunStep, AddDoNotContact, vars, files, history

\* A number is requested twice only by runs that overlapped, or because the log
\* has lost the first request: what the log holds, a later run reads.
THEOREM RepeatsAreExplained == Spec => []RepeatsAreLostEntries
<1>1. Spec => [](TypeOK /\ MarksInv /\ LogInv)
  BY MarksHold, InitLog, LogPreserved, PTL DEF Spec
<1>2. TypeOK /\ MarksInv /\ LogInv => RepeatsAreLostEntries
  <2> SUFFICES ASSUME TypeOK, MarksInv, LogInv, NEW p \in Phones, NEW r \in RunsThatSent(p),
                      NEW q \in earlier[r] \intersect RunsThatSent(p)
               PROVE  p \in lost[q]
    BY DEF RepeatsAreLostEntries
  <2>1. r \in Runs /\ sends[r][p] > 0 /\ sends[q][p] > 0
    BY DEF RunsThatSent
  <2>2. p \notin previous[r] /\ Told(r, q)
    BY <2>1 DEF MarksInv, RequestMarks, LogInv
  <2> QED
    BY <2>1, <2>2 DEF Told
<1> QED
  BY <1>1, <1>2, PTL

(***************************************************************************)
(* The do-not-contact list.                                                *)
(***************************************************************************)

\* What the list holds, a run that may still send has read, or it was added
\* since; so it is for the requests of a run that is over.
Listed(r) ==
    \A p \in doNotContact : pc[r] \in {"row", "send", "log"} \/ sends[r][p] > 0 =>
        p \in blocked[r] \union added[r]

ListInv == \A r \in Runs : Listed(r)

LEMMA InitList == Init => ListInv
BY DEF Init, ListInv, Listed

\* The step of a run keeps what it knows of the list.
LEMMA ListedOwn ==
    ASSUME TypeOK, Untouched, NEW r \in Runs, Listed(r), RunStep(r)
    PROVE  Listed(r)'
<1>0. /\ pc \in [Runs -> Stages]
      /\ doNotContact' = doNotContact /\ doNotContact \subseteq Phones
  BY DEF TypeOK, Stages, RunStep, StartRun, RefuseRun, ProcessRow, SendWhatsapp, SendFails, LogRequested,
         LogFails, Crash, FinishRun, files
<1>1. CASE StartRun(r)
  BY <1>0, <1>1 DEF StartRun, LoadDoNotContact, Listed, TypeOK
<1>2. CASE RefuseRun(r)
  BY <1>0, <1>2 DEF RefuseRun, MayStart, history, Listed, Untouched
<1>3. CASE ~StartRun(r) /\ ~RefuseRun(r)
  <2>1. pc[r] \in {"row", "send", "log"}
    BY <1>3 DEF RunStep, ProcessRow, SendWhatsapp, SendFails, LogRequested, LogFails, Crash, FinishRun
  <2>2. blocked'[r] = blocked[r] /\ added'[r] = added[r]
    BY <1>3, ReadsOnce
  <2> QED
    BY <1>0, <2>1, <2>2 DEF Listed
<1> QED
  BY <1>1, <1>2, <1>3

LEMMA ListPreserved == TypeOK /\ Untouched /\ ListInv /\ [Next]_vars => ListInv'
<1> SUFFICES ASSUME TypeOK, Untouched, ListInv, [Next]_vars, NEW q \in Runs PROVE Listed(q)'
  BY DEF ListInv
<1>1. Listed(q) /\ added \in [Runs -> SUBSET Phones] /\ pc \in [Runs -> Stages]
  BY DEF ListInv, TypeOK, Stages
<1>2. ASSUME NEW r \in Runs, RunStep(r) PROVE Listed(q)'
  <2>1. CASE q = r
    BY <1>1, <1>2, <2>1, ListedOwn
  <2>2. CASE q # r
    <3>1. doNotContact' = doNotContact
      BY <1>2 DEF RunStep, StartRun, RefuseRun, ProcessRow, SendWhatsapp, SendFails, LogRequested, LogFails,
                  Crash, FinishRun, files
    <3> QED
      BY <1>1, <1>2, <2>2, <3>1, OthersRest DEF Listed
  <2> QED
    BY <2>1, <2>2
<1>3. ASSUME NEW p \in Phones, AddDoNotContact(p) PROVE Listed(q)'
  <2>1. doNotContact' = doNotContact \union {p} /\ pc' = pc /\ sends' = sends /\ blocked' = blocked
    BY <1>3 DEF AddDoNotContact, own
  <2>2. CASE pc[q] = "new"
    BY <2>1, <2>2 DEF Untouched, Listed, TypeOK
  <2>3. CASE pc[q] # "new"
    <3>1. added'[q] = added[q] \union {p}
      BY <1>3, <2>3 DEF AddDoNotContact
    <3> QED
      BY <1>1, <2>1, <3>1 DEF Listed
  <2> QED
    BY <2>2, <2>3
<1>4. CASE UNCHANGED vars
  BY <1>1, <1>4 DEF vars, files, own, history, Listed
<1> QED
  BY <1>2, <1>3, <1>4 DEF Next, RunStep

\* No run requests a number that was on the list when the run read it.
THEOREM ListIsRespected == Spec => []ListedAreSpared
<1>1. Spec => [](TypeOK /\ MarksInv /\ ListInv)
  BY MarksHold, InitList, ListPreserved, PTL DEF Spec
<1>2. TypeOK /\ MarksInv /\ ListInv => ListedAreSpared
  <2> SUFFICES ASSUME TypeOK, MarksInv, ListInv, NEW r \in Runs, NEW p \in doNotContact, sends[r][p] > 0
               PROVE  p \in added[r]
    BY DEF ListedAreSpared
  <2>1. p \notin blocked[r]
    BY DEF MarksInv, RequestMarks, TypeOK
  <2> QED
    BY <2>1 DEF ListInv, Listed
<1> QED
  BY <1>1, <1>2, PTL

(***************************************************************************)
(* Runs one after another.                                                 *)
(***************************************************************************)

\* Of two runs that requested the same number, the log has lost a request.
LoggedOnce ==
    \A p \in Phones : \A r, q \in RunsThatSent(p) : r = q \/ p \in lost[r] \union lost[q]

\* The run has got past its start.
Entered(r) == pc[r] \in {"row", "send", "log"} \/ \E p \in Phones : sends[r][p] > 0

\* Of two runs that got past their starts, one was over when the other started.
SuccessionInv ==
    \A r, q \in Runs : r # q /\ Entered(r) /\ Entered(q) => q \in earlier[r] \/ r \in earlier[q]

\* Only its start makes a run enter.
LEMMA EntersAtStart ==
    ASSUME TypeOK, NEW r \in Runs, RunStep(r), ~StartRun(r), Entered(r)'
    PROVE  Entered(r)
<1>1. CASE SendWhatsapp(r)
  BY <1>1 DEF SendWhatsapp, Entered
<1>2. CASE RefuseRun(r)
  BY <1>2 DEF RefuseRun, history, Entered, TypeOK
<1>3. CASE ~SendWhatsapp(r) /\ ~RefuseRun(r)
  BY <1>3 DEF RunStep, ProcessRow, SendFails, LogRequested, LogFails, Crash, FinishRun, Entered
<1> QED
  BY <1>1, <1>2, <1>3

LEMMA SuccessionPreserved ==
    ~Overlap /\ TypeOK /\ Untouched /\ SuccessionInv /\ [Next]_vars => SuccessionInv'
<1> SUFFICES ASSUME ~Overlap, TypeOK, Untouched, SuccessionInv, [Next]_vars PROVE SuccessionInv'
  OBVIOUS
<1>1. ASSUME NEW r \in Runs, StartRun(r) PROVE SuccessionInv'
  <2>1. RunStep(r)
    BY <1>1 DEF RunStep
  <2>2. \A q \in Runs \ {r} : pc[q] = "new" \/ Over(q)
    BY <1>1 DEF StartRun, MayStart
  <2>3. earlier'[r] = {q \in Runs : Over(q)}
    BY <1>1 DEF StartRun, TypeOK
  <2>4. ASSUME NEW q \in Runs, q # r PROVE /\ Entered(q)' <=> Entered(q)
                                           /\ earlier'[q] = earlier[q]
    BY <2>1, <2>4, OthersRest DEF Entered
  <2>5. ASSUME NEW q \in Runs, q # r, Entered(q) PROVE q \in earlier'[r]
    <3>1. pc[q] # "new"
      BY <2>5 DEF Entered, Untouched, TypeOK
    <3> QED
      BY <2>2, <2>3, <2>5, <3>1
  <2> QED
    BY <2>4, <2>5 DEF SuccessionInv
<1>2. ASSUME NEW r \in Runs, RunStep(r), ~StartRun(r) PROVE SuccessionInv'
  <2>1. \A q \in Runs : Entered(q)' => Entered(q)
    <3> SUFFICES ASSUME NEW q \in Runs, Entered(q)' PROVE Entered(q)
      OBVIOUS
    <3>1. CASE q = r
      BY <1>2, <3>1, EntersAtStart
    <3>2. CASE q # r
      BY <1>2, <3>2, OthersRest DEF Entered
    <3> QED
      BY <3>1, <3>2
  <2>2. \A q \in Runs : earlier'[q] = earlier[q]
    BY <1>2, OthersRest, ReadsOnce
  <2> QED
    BY <2>1, <2>2 DEF SuccessionInv
<1>3. CASE UNCHANGED <<own, sends, earlier>>
  BY <1>3 DEF own, Entered, SuccessionInv
<1> QED
  BY <1>1, <1>2, <1>3 DEF Next, RunStep, AddDoNotContact, vars, history

\* Runs that do not overlap request a number again only while the log has lost
\* it: of all requests for it, at most one run's is logged.
THEOREM SuccessiveRunsLogOnce == ~Overlap => (Spec => []LoggedOnce)
<1> SUFFICES ASSUME ~Overlap PROVE Spec => []LoggedOnce
  OBVIOUS
<1>1. Init => SuccessionInv
  BY DEF Init, SuccessionInv, Entered
<1>2. TypeOK /\ Untouched /\ SuccessionInv /\ [Next]_vars => SuccessionInv'
  BY SuccessionPreserved
<1>3. RepeatsAreLostEntries /\ SuccessionInv => LoggedOnce
  <2> SUFFICES ASSUME RepeatsAreLostEntries, SuccessionInv, NEW p \in Phones,
                      NEW r \in RunsThatSent(p), NEW q \in RunsThatSent(p), r # q
               PROVE  p \in lost[r] \union lost[q]
    BY DEF LoggedOnce
  <2>1. r \in Runs /\ q \in Runs /\ Entered(r) /\ Entered(q)
    BY DEF RunsThatSent, Entered
  <2>2. q \in earlier[r] \/ r \in earlier[q]
    BY <2>1 DEF SuccessionInv
  <2> QED
    BY <2>2 DEF RepeatsAreLostEntries
<1> QED
  BY <1>1, <1>2, <1>3, MarksHold, RepeatsAreExplained, PTL DEF Spec

\* The log loses nothing when its writes succeed and no run is killed.
LEMMA NothingLost ==
    ASSUME Failures = {}
    PROVE  Spec => [](\A r \in Runs : lost[r] = {})
<1>1. Init => \A r \in Runs : lost[r] = {}
  BY DEF Init
<1>2. (\A r \in Runs : lost[r] = {}) /\ [Next]_vars => (\A r \in Runs : lost[r] = {})'
  <2> SUFFICES ASSUME \A r \in Runs : lost[r] = {}, [Next]_vars PROVE lost' = lost
    OBVIOUS
  <2> QED
    BY DEF Next, StartRun, RefuseRun, ProcessRow, SendWhatsapp, SendFails, LogRequested, LogFails,
           Crash, FinishRun, AddDoNotContact, history, vars
<1> QED
  BY <1>1, <1>2, PTL DEF Spec

\* Without overlap and failures a number is requested once over all runs, for
\* any inputs, modes and limits.
THEOREM RequestedOnceEver ==
    ~Overlap /\ Failures = {} => (Spec => [](\A p \in Phones : \A r, q \in RunsThatSent(p) : r = q))
<1> SUFFICES ASSUME ~Overlap, Failures = {}
             PROVE  Spec => [](\A p \in Phones : \A r, q \in RunsThatSent(p) : r = q)
  OBVIOUS
<1>1. LoggedOnce /\ (\A r \in Runs : lost[r] = {}) =>
          \A p \in Phones : \A r, q \in RunsThatSent(p) : r = q
  BY DEF LoggedOnce, RunsThatSent
<1> QED
  BY <1>1, SuccessiveRunsLogOnce, NothingLost, PTL
=============================================================================
