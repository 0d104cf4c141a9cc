----------------------------- MODULE MultiLock -----------------------------
(***************************************************************************)
(* What go-kt's lock package promises its callers (lock.go's package       *)
(* comment): By locks every thing named in one call, all of them or none,  *)
(* until unlock; All locks everything there is or could be.  LockSet is    *)
(* the code that keeps the promise, and is shown to implement this module. *)
(* RecordEdits is what the tools do while they hold what is granted here.  *)
(***************************************************************************)
CONSTANTS
    Proc,   \* the tool calls that are running
    Key     \* what can be locked: a kind of record with an id, or a string

VARIABLES
    mode,   \* mode[p]: what p has asked of the locks, and whether it has it
    named   \* named[p]: the keys p named in its call of By

vars == <<mode, named>>

Modes == {"idle", "asked", "held", "askedAll", "heldAll"}

TypeOK == /\ mode \in [Proc -> Modes]
          /\ named \in [Proc -> SUBSET Key]

Init == /\ mode = [p \in Proc |-> "idle"]
        /\ named = [p \in Proc |-> {}]

-----------------------------------------------------------------------------
(* lock.By: the keys are named once, and nothing is held while they are    *)
(* waited for that another caller could need.                              *)
Ask(p, ks) == /\ mode[p] = "idle"
              /\ mode' = [mode EXCEPT ![p] = "asked"]
              /\ named' = [named EXCEPT ![p] = ks]

Grant(p) == /\ mode[p] = "asked"
            /\ \A q \in Proc \ {p} :
                  /\ mode[q] # "heldAll"
                  /\ mode[q] = "held" => named[p] \cap named[q] = {}
            /\ mode' = [mode EXCEPT ![p] = "held"]
            /\ UNCHANGED named

Release(p) == /\ mode[p] = "held"
              /\ mode' = [mode EXCEPT ![p] = "idle"]
              /\ named' = [named EXCEPT ![p] = {}]

(* lock.All: waits for every other lock to go, and none is granted until   *)
(* it is unlocked.                                                         *)
AskAll(p) == /\ mode[p] = "idle"
             /\ mode' = [mode EXCEPT ![p] = "askedAll"]
             /\ UNCHANGED named

GrantAll(p) == /\ mode[p] = "askedAll"
               /\ \A q \in Proc \ {p} : mode[q] \notin {"held", "heldAll"}
               /\ mode' = [mode EXCEPT ![p] = "heldAll"]
               /\ UNCHANGED named

ReleaseAll(p) == /\ mode[p] = "heldAll"
                 /\ mode' = [mode EXCEPT ![p] = "idle"]
                 /\ UNCHANGED named

Next == \E p \in Proc :
           \/ \E ks \in SUBSET Key : Ask(p, ks)
           \/ Grant(p)
           \/ Release(p)
           \/ AskAll(p)
           \/ GrantAll(p)
           \/ ReleaseAll(p)

Spec == Init /\ [][Next]_vars

-----------------------------------------------------------------------------
(* Two calls that hold locks at once named nothing in common, and neither  *)
(* holds everything (lock.go:71-84).                                       *)
Exclusion == \A p, q \in Proc : p # q =>
                /\ mode[p] = "held" /\ mode[q] = "held" => named[p] \cap named[q] = {}
                /\ mode[p] = "heldAll" => mode[q] \notin {"held", "heldAll"}
=============================================================================
