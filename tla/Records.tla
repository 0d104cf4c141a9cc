------------------------------ MODULE Records ------------------------------
(***************************************************************************)
(* The records the tools change and what they may be asked of them: what   *)
(* AtomicEdits, which says what a turn's calls promise, and RecordEdits,   *)
(* which says how they keep it, have in common.                            *)
(*                                                                         *)
(* A name is a number: one in Id is the name spelled as that id, and the   *)
(* others are names that spell no id.  Numbers are in alphabetical order.  *)
(* A field's value says which call gave it.                                *)
(***************************************************************************)
EXTENDS Naturals

CONSTANTS
    Call,           \* the tool calls, each made once
    Id,             \* the ids Radarr gives records
    Name,           \* the names records have and are given
    Field,          \* what else a record holds
    Request,        \* what the calls may ask
    Base,           \* a field as it was, or as Radarr starts it
    Keep,           \* no new name given
    Unborn, Gone,   \* no record with this id yet, or no more
    NoRequest       \* a call not made yet

Record == [name : Name, val : [Field -> Call \cup {Base}]]
Absent == {Unborn, Gone}
Ops == {"edit", "delete", "add", "forcedAdd", "alone"}

ASSUME NameAssumption == Id \subseteq Nat /\ Name \subseteq Nat /\ Keep \notin Name
ASSUME AbsentAssumption == /\ Unborn \notin Record /\ Gone \notin Record
                           /\ Unborn # Gone /\ Absent \cap Id = {}
ASSUME RequestAssumption ==
    /\ Request \subseteq [op : Ops, ref : Id \cup Name, name : Name \cup {Keep},
                          fields : SUBSET Field, confirm : BOOLEAN]
    /\ NoRequest \notin Request

NothingGiven(rq) == rq.name = Keep /\ rq.fields = {}

(* An edit's record: only what is given changes.                            *)
Filled(c, rq, r) ==
    [name |-> IF rq.name = Keep THEN r.name ELSE rq.name,
     val  |-> [f \in Field |-> IF f \in rq.fields THEN c ELSE r.val[f]]]

(* An added one: what is given, and the rest as Radarr starts it.           *)
New(c, rq, off) == [name |-> rq.name,
                    val  |-> [f \in Field |-> IF f \in rq.fields \ off THEN c ELSE Base]]
=============================================================================
