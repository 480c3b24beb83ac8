----------------------------- MODULE MCCsvImport -----------------------------
(* Small instances of CsvImport for TLC. *)
EXTENDS CsvImport, TLC

CONSTANTS i1, i2, c1, c2

MCRow(p, e) == [name |-> TRUE, phone |-> p, email |-> e]

Symmetry == Permutations(Importers) \union Permutations(Campaigns)

\* Rows that agree and disagree on phones and emails, perhaps after one that a
\* normalisation rejects.
MCRows  == {MCRow("p1", "e1"), MCRow("p1", Blank), MCRow("p2", "e1"), MCRow("p2", "e2")}
MCFiles == {<<r, q>> : r \in MCRows \union {MCRow(Bad, "e1")}, q \in MCRows}

\* An empty table, and tables in which candidate 1 has a phone and an email, with
\* and without an opt-out, and candidate 2 an email.
MCPerson(p, e, s) == [phone |-> p, email |-> e, status |-> s, dnc |-> s = "DO_NOT_CONTACT"]
MCTable(a, b) == [k \in Ids |-> IF k = 1 THEN a ELSE IF k = 2 THEN b ELSE NoPerson]
MCTables ==
    {MCTable(a, MCPerson(Blank, "e2", "NEW")) :
        a \in {MCPerson("p1", "e1", "CONTACTED"), MCPerson("p1", "e1", "DO_NOT_CONTACT"),
              MCPerson("p2", "e1", "INVALID"), NoPerson}}
    \union {MCTable(NoPerson, NoPerson)}
=============================================================================
