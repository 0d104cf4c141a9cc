---------------------------- MODULE AtomicEdits ----------------------------
(***************************************************************************)
(* What a turn's calls promise about the records Radarr keeps, as          *)
(* tools/locks.go states it: an edit changes, at one moment, what it was   *)
(* given of the record it named, and leaves the rest as it is at that      *)
(* moment, whatever else runs beside it.  A delete and an add act at one   *)
(* moment too.  A call acts once or not at all.  RecordEdits is how the    *)
(* tools do it, reading a record and sending it back whole.                *)
(***************************************************************************)
EXTENDS Records

VARIABLES
    store,      \* the records, as Radarr has them
    asks,       \* what each call was asked
    aim,        \* the id of the record each was found to name
    acted       \* the calls that have acted, or will not

vars == <<store, asks, aim, acted>>

Init == /\ store \in [Id -> Record \cup Absent]
        /\ asks = [c \in Call |-> NoRequest]
        /\ aim = [c \in Call |-> Unborn]
        /\ acted = {}

Ask(c, rq) == /\ asks[c] = NoRequest
              /\ asks' = [asks EXCEPT ![c] = rq]
              /\ UNCHANGED <<store, aim, acted>>

(* The call finds which record is meant: one with that id or that name.     *)
Aim(c, i) == /\ asks[c] # NoRequest
             /\ aim[c] = Unborn
             /\ store[i] \in Record
             /\ i = asks[c].ref \/ store[i].name = asks[c].ref
             /\ aim' = [aim EXCEPT ![c] = i]
             /\ UNCHANGED <<store, asks, acted>>

Acts(c, op) == /\ asks[c] # NoRequest
               /\ asks[c].op = op
               /\ c \notin acted
               /\ acted' = acted \cup {c}
               /\ UNCHANGED <<asks, aim>>

Edit(c) == /\ Acts(c, "edit")
           /\ aim[c] \in Id /\ store[aim[c]] \in Record
           /\ store' = [store EXCEPT ![aim[c]] = Filled(c, asks[c], @)]

Delete(c) == /\ Acts(c, "delete")
             /\ asks[c].confirm
             /\ aim[c] \in Id /\ store[aim[c]] \in Record
             /\ store' = [store EXCEPT ![aim[c]] = Gone]

Add(c) == /\ Acts(c, "add")
          /\ \E i \in Id : /\ store[i] = Unborn
                           /\ store' = [store EXCEPT ![i] = New(c, asks[c], {})]

(* Radarr refuses it, or there is nothing to do.                            *)
Refuse(c) == /\ \E op \in Ops : Acts(c, op)
             /\ UNCHANGED store

Next == \E c \in Call : \/ \E rq \in Request : Ask(c, rq)
                        \/ \E i \in Id : Aim(c, i)
                        \/ Edit(c)
                        \/ Delete(c)
                        \/ Add(c)
                        \/ Refuse(c)

Spec == Init /\ [][Next]_vars
=============================================================================
