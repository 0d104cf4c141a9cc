---------------------------- MODULE RecordEdits ----------------------------
(***************************************************************************)
(* The tools that change one record by sending it back whole: custom       *)
(* formats, delay profiles and the like (tools/records.go), indexers,      *)
(* download clients and other providers (tools/provider_kinds.go), quality *)
(* profiles, size limits and naming (tools/quality*.go, naming.go), and    *)
(* what holds every lock while Radarr's database is swapped or Radarr      *)
(* stops (tools/admin.go).  Each call is a process; each action is one     *)
(* request that Radarr answers, with what the handler does up to the next. *)
(* A write that has timed out or was cancelled may still be carried out,   *)
(* long after its call has ended and unlocked.                             *)
(* The locks are MultiLock's, which LockSet is shown to implement.         *)
(***************************************************************************)
EXTENDS Records

CONSTANTS
    Kinds,      \* the kinds of record looked at: "record", "provider", "profile"
    Switch,     \* the field that switches a provider on
    GivesUp     \* whether a call may end, timed out or cancelled, with its write unanswered

ASSUME KindAssumption == /\ Kinds \subseteq {"record", "provider", "profile"}
                         /\ Switch \in Field
                         /\ GivesUp \in BOOLEAN

VARIABLES
    kind,   \* which kind of record this is
    store,  \* the records Radarr has of it
    pc,     \* where each call is
    asks,   \* what it was asked
    target, \* the id of the record it found, which it locks
    at,     \* the id it writes to
    copy,   \* the record it sends
    late,   \* the calls that gave up on a write Radarr may still carry out
    mode, named     \* the locks: MultiLock's variables

vars == <<kind, store, pc, asks, target, at, copy, late, mode, named>>

Locks == INSTANCE MultiLock WITH Proc <- Call, Key <- Id

Stages == {"new", "find", "lock", "held", "write", "second", "landed", "done", "failed"}

(* A call that is about to write to a record Radarr has, or may yet.        *)
Sends(c) == \/ pc[c] = "second"
            \/ /\ pc[c] = "write" \/ c \in late
               /\ asks[c].op \in {"edit", "delete"}

TypeOK == /\ kind \in Kinds
          /\ store \in [Id -> Record \cup Absent]
          /\ pc \in [Call -> Stages]
          /\ asks \in [Call -> Request \cup {NoRequest}]
          /\ target \in [Call -> Id \cup {Unborn}]
          /\ at \in [Call -> Id \cup {Unborn}]
          /\ copy \in [Call -> Record \cup {Unborn}]
          /\ late \in SUBSET Call
          /\ \A c \in Call : Sends(c) => at[c] \in Id
          /\ Locks!TypeOK

(* Radarr keeps some records, all as they were, when the turn begins.       *)
Init == /\ kind \in Kinds
        /\ store \in [Id -> [name : Name, val : {[f \in Field |-> Base]}] \cup {Unborn}]
        /\ pc = [c \in Call |-> "new"]
        /\ asks = [c \in Call |-> NoRequest]
        /\ target = [c \in Call |-> Unborn]
        /\ at = [c \in Call |-> Unborn]
        /\ copy = [c \in Call |-> Unborn]
        /\ late = {}
        /\ Locks!Init

-----------------------------------------------------------------------------
(* find and resolveProfile: the first of the list whose id or name is ref.  *)
Matches(i, ref) == store[i] \in Record /\ (i = ref \/ store[i].name = ref)

ListedBefore(i, j) ==
    IF kind = "provider"
    THEN \/ store[i].name < store[j].name
         \/ store[i].name = store[j].name /\ i < j
    ELSE i < j

Found(ref) == {i \in Id : /\ Matches(i, ref)
                          /\ \A j \in Id \ {i} : Matches(j, ref) => ListedBefore(i, j)}

(* How an edit reads its record again once it is locked: the generic kinds  *)
(* look its id up as a name or an id, quality profiles are read by id.      *)
ReadAgain(i) == IF kind = "profile" THEN {j \in {i} : store[j] \in Record} ELSE Found(i)

Step(c, from, to) == pc[c] = from /\ pc' = [pc EXCEPT ![c] = to]

-----------------------------------------------------------------------------
(* Slips these handlers could have made, each caught by a property below.   *)
FindDeleteUnnumbered(c) ==      \* a delete sent without the id found
    /\ pc[c] = "find"
    /\ asks[c].op = "delete"
    /\ asks[c].confirm
    /\ \E i \in Found(asks[c].ref) : target' = [target EXCEPT ![c] = i]
    /\ pc' = [pc EXCEPT ![c] = "write"]
    /\ UNCHANGED <<kind, store, asks, at, copy, late, mode, named>>

LockedUnasked(c) ==             \* a delete carried out whether or not it is confirmed
    /\ Locks!Grant(c) \/ Locks!GrantAll(c)
    /\ Step(c, "lock", IF asks[c].op = "edit" THEN "held" ELSE "write")
    /\ UNCHANGED <<kind, store, asks, target, at, copy, late>>

ReadByRef(c) ==                 \* read again by what the call named, not by the id found
    /\ Step(c, "held", "write")
    /\ \E i \in Found(asks[c].ref) :
          /\ at' = [at EXCEPT ![c] = i]
          /\ copy' = [copy EXCEPT ![c] = Filled(c, asks[c], store[i])]
    /\ UNCHANGED <<kind, store, asks, target, late, mode, named>>

ReadThenUnlock(c) ==            \* held for the read alone
    /\ Step(c, "held", "write")
    /\ \E i \in ReadAgain(target[c]) :
          /\ at' = [at EXCEPT ![c] = i]
          /\ copy' = [copy EXCEPT ![c] = Filled(c, asks[c], store[i])]
    /\ Locks!Release(c)
    /\ UNCHANGED <<kind, store, asks, target, late>>

ReadNothingLocked(c) ==         \* an error answered without unlocking
    /\ Step(c, "held", "failed")
    /\ UNCHANGED <<kind, store, asks, target, at, copy, late, mode, named>>

-----------------------------------------------------------------------------
(* A call begins.                                                           *)
Begin(c, rq) ==
    /\ Step(c, "new", IF rq.op \in {"add", "forcedAdd"} THEN "write" ELSE "find")
    /\ rq.op = "forcedAdd" => kind = "provider" /\ Switch \in rq.fields
    /\ rq.op \in {"add", "forcedAdd"} => rq.name \in Name
    /\ asks' = [asks EXCEPT ![c] = rq]
    /\ UNCHANGED <<kind, store, target, at, copy, late, mode, named>>

(* The list read first picks the record that is meant.                      *)
FindEdit(c) ==
    /\ Step(c, "find", "lock")
    /\ asks[c].op = "edit"
    /\ ~NothingGiven(asks[c])
    /\ \E i \in Found(asks[c].ref) :
          /\ target' = [target EXCEPT ![c] = i]
          /\ Locks!Ask(c, {i})
    /\ UNCHANGED <<kind, store, asks, at, copy, late>>

FindDelete(c) ==
    /\ pc[c] = "find"
    /\ asks[c].op = "delete"
    /\ \E i \in Found(asks[c].ref) :
          /\ target' = [target EXCEPT ![c] = i]
          /\ at' = [at EXCEPT ![c] = i]
          /\ \/ /\ kind = "profile"
                /\ Step(c, "find", "lock")
                /\ Locks!Ask(c, {i})
             \/ /\ kind # "profile"
                /\ asks[c].confirm
                /\ Step(c, "find", "write")
                /\ UNCHANGED <<mode, named>>
    /\ UNCHANGED <<kind, store, asks, copy, late>>

(* Not confirmed: the answer says what would go.                            *)
FindKept(c) ==
    /\ Step(c, "find", "done")
    /\ \/ asks[c].op = "delete" /\ kind # "profile" /\ Found(asks[c].ref) # {}
       \/ asks[c].op = "alone"
    /\ ~asks[c].confirm
    /\ UNCHANGED <<kind, store, asks, target, at, copy, late, mode, named>>

(* Radarr does not answer, has no such record, has films on the profile or  *)
(* no such backup, or nothing is given: an error, before anything is locked. *)
FindNothing(c) ==
    /\ Step(c, "find", "failed")
    /\ UNCHANGED <<kind, store, asks, target, at, copy, late, mode, named>>

(* server_backup_restore, server_restart, server_shutdown: confirmed, they  *)
(* lock everything.                                                         *)
FindAlone(c) ==
    /\ Step(c, "find", "lock")
    /\ asks[c].op = "alone"
    /\ asks[c].confirm
    /\ Locks!AskAll(c)
    /\ UNCHANGED <<kind, store, asks, target, at, copy, late>>

-----------------------------------------------------------------------------
(* By or All returns.  An edit then reads; a profile's delete, if it is     *)
(* confirmed, and a restore or a stop are sent.                             *)
Locked(c) ==
    /\ Locks!Grant(c) \/ Locks!GrantAll(c)
    /\ Step(c, "lock", IF asks[c].op = "edit" THEN "held"
                       ELSE IF asks[c].confirm THEN "write" ELSE "landed")
    /\ UNCHANGED <<kind, store, asks, target, at, copy, late>>

(* The record is read again, what was given is put in, and it is sent.      *)
Read(c) ==
    /\ Step(c, "held", "write")
    /\ \E i \in ReadAgain(target[c]) :
          /\ at' = [at EXCEPT ![c] = i]
          /\ copy' = [copy EXCEPT ![c] = Filled(c, asks[c], store[i])]
    /\ UNCHANGED <<kind, store, asks, target, late, mode, named>>

(* It is gone, or what was given does not fit: unlocked, and an error.      *)
ReadNothing(c) ==
    /\ Step(c, "held", "failed")
    /\ Locks!Release(c)
    /\ UNCHANGED <<kind, store, asks, target, at, copy, late>>

-----------------------------------------------------------------------------
(* Radarr carries out a write: a record is replaced by the one sent, taken  *)
(* away, or made, unless it is not there.                                   *)
Put(c) == IF store[at[c]] \in Record
          THEN store' = [store EXCEPT ![at[c]] = copy[c]]
          ELSE UNCHANGED store
Remove(c) == IF store[at[c]] \in Record
             THEN store' = [store EXCEPT ![at[c]] = Gone]
             ELSE UNCHANGED store

Make(c, i, off) == store[i] = Unborn /\ store' = [store EXCEPT ![i] = New(c, asks[c], off)]

LandEdit(c) == /\ Step(c, "write", "landed")
               /\ asks[c].op = "edit"
               /\ Put(c)
               /\ UNCHANGED <<kind, asks, target, at, copy, late, mode, named>>

LandDelete(c) == /\ Step(c, "write", "landed")
                 /\ asks[c].op = "delete"
                 /\ Remove(c)
                 /\ UNCHANGED <<kind, asks, target, at, copy, late, mode, named>>

LandAdd(c) == /\ Step(c, "write", "landed")
              /\ asks[c].op = "add"
              /\ \E i \in Id : Make(c, i, {})
              /\ UNCHANGED <<kind, asks, target, at, copy, late, mode, named>>

(* A forced add is made switched off; then the whole of it is sent again,   *)
(* as it was given, with what was to be on switched on.                     *)
LandForced(c) == /\ Step(c, "write", "second")
                 /\ asks[c].op = "forcedAdd"
                 /\ \E i \in Id : Make(c, i, {Switch}) /\ at' = [at EXCEPT ![c] = i]
                 /\ copy' = [copy EXCEPT ![c] = New(c, asks[c], {})]
                 /\ UNCHANGED <<kind, asks, target, late, mode, named>>

LandSecond(c) == /\ Step(c, "second", "landed")
                 /\ Put(c)
                 /\ UNCHANGED <<kind, asks, target, at, copy, late, mode, named>>

(* Radarr has taken the backup, or the request to restart or shut down.     *)
LandAlone(c) == /\ Step(c, "write", "landed")
                /\ asks[c].op = "alone"
                /\ UNCHANGED <<kind, store, asks, target, at, copy, late, mode, named>>

(* Radarr refuses the write.                                                *)
Refused(c) == /\ \/ Step(c, "write", "landed")
                 \/ Step(c, "second", "landed")
              /\ UNCHANGED <<kind, store, asks, target, at, copy, late, mode, named>>

Unlock(c) == CASE mode[c] = "held"    -> Locks!Release(c)
               [] mode[c] = "heldAll" -> Locks!ReleaseAll(c)
               [] OTHER               -> UNCHANGED <<mode, named>>

(* The answer comes, and whatever was locked is unlocked.                   *)
Answer(c) == /\ Step(c, "landed", "done")
             /\ Unlock(c)
             /\ UNCHANGED <<kind, store, asks, target, at, copy, late>>

(* The call ends without one, unlocked: its write, whichever it is, may     *)
(* still be carried out, a restore be gone on with.                         *)
GiveUp(c) == /\ Step(c, "write", "failed") \/ Step(c, "second", "failed")
             /\ GivesUp
             /\ Unlock(c)
             /\ late' = late \cup {c}
             /\ UNCHANGED <<kind, store, asks, target, at, copy>>

LandLate(c) == /\ c \in late
               /\ late' = late \ {c}
               /\ \/ asks[c].op = "edit" /\ Put(c)
                  \/ asks[c].op = "delete" /\ Remove(c)
                  \/ asks[c].op = "add" /\ \E i \in Id : Make(c, i, {})
                  \/ /\ asks[c].op = "forcedAdd"
                     /\ IF at[c] = Unborn THEN \E i \in Id : Make(c, i, {Switch}) ELSE Put(c)
                  \/ asks[c].op = "alone" /\ UNCHANGED store
               /\ UNCHANGED <<kind, pc, asks, target, at, copy, mode, named>>

-----------------------------------------------------------------------------
Steps(c) == \/ FindEdit(c) \/ FindDelete(c) \/ FindAlone(c) \/ FindKept(c) \/ FindNothing(c)
            \/ Locked(c) \/ Read(c) \/ ReadNothing(c)
            \/ LandEdit(c) \/ LandDelete(c) \/ LandAdd(c)
            \/ LandForced(c) \/ LandSecond(c) \/ LandAlone(c)
            \/ Refused(c) \/ Answer(c)

Next == \E c \in Call : \/ \E rq \in Request : Begin(c, rq)
                        \/ Steps(c)
                        \/ GiveUp(c)
                        \/ LandLate(c)

Spec == Init /\ [][Next]_vars

(* Radarr answers each request, or the client's time limit ends it, and a   *)
(* lock that is free is granted (LockSet's ByGranted and AllGranted): a     *)
(* call that has begun goes on.                                             *)
FairSpec == Spec /\ \A c \in Call : WF_vars(Steps(c))

-----------------------------------------------------------------------------
(* While an edit has its record in hand, Radarr's is the one it read, or    *)
(* gone: what it sends back undoes nothing.  "An edit locks the record it   *)
(* has resolved, and only then reads what it will write back" (locks.go:18). *)
CopyIsCurrent ==
    \A c \in Call :
       pc[c] = "write" /\ asks[c].op = "edit" =>
          \/ store[target[c]] = Gone
          \/ /\ store[target[c]] \in Record
             /\ copy[c] = Filled(c, asks[c], store[target[c]])

(* An edit writes to the record it has locked.                              *)
WritesWhatItLocked ==
    \A c \in Call : pc[c] = "write" /\ asks[c].op = "edit" => at[c] = target[c]

(* The calls of a turn do not undo each other (locks.go:10): a step changes *)
(* of a record only what the call that acts in it was given.                *)
Changes(i, f) == /\ store[i] \in Record
                 /\ store'[i] \in Record
                 /\ store[i].val[f] # store'[i].val[f]
MayChange(c, i, f) ==
    \/ pc[c] = "write" /\ asks[c].op = "edit" /\ target[c] = i /\ f \in asks[c].fields
    \/ pc[c] = "second" /\ at[c] = i /\ f = Switch
NothingUndone ==
    [][\A i \in Id, f \in Field :
          Changes(i, f) => \E c \in Call : MayChange(c, i, f) /\ pc'[c] = "landed"]_vars

(* "Nothing else may write while the database is swapped out from under it" *)
(* (admin.go:116).                                                          *)
Alone(a) == pc[a] = "write" /\ asks[a].op = "alone"
NoWriteWhileAlone == [][(\E a \in Call : Alone(a)) => UNCHANGED store]_vars

(* What holds of it: until a restore or a stop is answered or given up on,  *)
(* whatever is carried out beside it is the write of a call that locks      *)
(* nothing, or one its call had given up on, and unlocked, before.  No edit *)
(* that is still under way writes, nor does a quality profile's delete.     *)
LocksNothing(c) == /\ asks[c] # NoRequest
                   /\ \/ asks[c].op \in {"add", "forcedAdd"}
                      \/ asks[c].op = "delete" /\ kind # "profile"
LockedKeepClear ==
    [][(\E a \in Call : Alone(a)) =>
          \/ UNCHANGED store
          \/ \E c \in Call : \/ LocksNothing(c) /\ pc'[c] # pc[c]
                             \/ c \in late /\ c \notin late']_vars

(* Every call is answered, and then nothing is locked (defer unlock()).     *)
Answered == \A c \in Call : pc[c] # "new" ~> pc[c] \in {"done", "failed"} /\ mode[c] = "idle"

(* The calls behave as if each did all it does at one moment, to the record *)
(* it was found to name.                                                    *)
acts == {c \in Call : pc[c] \in {"landed", "done", "failed"}} \ late
Atomic == INSTANCE AtomicEdits WITH aim <- target, acted <- acts
ActsAtOnce == Atomic!Spec
=============================================================================
