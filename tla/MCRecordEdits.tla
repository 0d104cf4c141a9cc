--------------------------- MODULE MCRecordEdits ---------------------------
(* RecordEdits for TLC: what the calls may ask in each run, as small sets   *)
(* of requests that meet in one record and differ in what they are given.   *)
EXTENDS RecordEdits, TLC

CONSTANTS limit, switch     \* the two fields

Symmetry == Permutations(Call)

Ask(op, ref, name, fields, confirm) ==
    [op |-> op, ref |-> ref, name |-> name, fields |-> fields, confirm |-> confirm]

Edits(refs, names) ==
    {Ask("edit", r, n, fs, FALSE) : r \in refs, n \in names, fs \in {{limit}, {switch}}}

(* Edits of a record by its id and by either name, deletes, and adds.       *)
PlainRequests ==
    Edits({1, 11}, {Keep})
        \cup {Ask("edit", 11, 12, {}, FALSE), Ask("edit", 1, Keep, {}, FALSE)}
        \cup {Ask("delete", 11, Keep, {}, TRUE), Ask("delete", 1, Keep, {}, FALSE)}
        \cup {Ask("add", 1, 11, {limit, switch}, FALSE)}

(* An edit, a delete, a forced add, and a restore or a stop.                *)
AloneRequests ==
    {Ask("edit", 11, Keep, {limit}, FALSE),
     Ask("delete", 11, Keep, {}, TRUE),
     Ask("forcedAdd", 1, 11, {limit, switch}, FALSE)}
        \cup {Ask("alone", 1, Keep, {}, b) : b \in BOOLEAN}

(* Edits alone, of records one of which has the other's id for a name.      *)
ClashRequests == Edits({1, 2, 11}, {Keep})
=============================================================================
