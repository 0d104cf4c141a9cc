------------------------------ MODULE LockSet ------------------------------
(***************************************************************************)
(* go-kt's lock.Set (vendor/github.com/katbyte/go-kt/lock/set.go), the     *)
(* locks the tools of one server share, step by step: a reader-writer lock *)
(* `all` that By reads and All writes, a map from key to lock with a count *)
(* of its holders, and one mutex per key named, taken in key order.        *)
(*                                                                         *)
(* A section under s.mu is one action: s.mu guards the map and the counts, *)
(* nothing else touches them, and nothing blocks inside.  The Go runtime's *)
(* own locks are external and modelled by their contract: a mutex has one  *)
(* owner; a pending writer of an RWMutex holds back new readers, and the   *)
(* readers it held back go first when it unlocks.                          *)
(***************************************************************************)
EXTENDS Naturals, FiniteSets

CONSTANTS
    Proc,     \* the calls that lock: at most one By or All each ("lock once")
    Key,      \* the keys, numbered in the order By sorts them (kind, id, field)
    Lock,     \* keyLock objects: the memory the map's values are allocated from
    NoProc,   \* no owner
    NoLock    \* a nil *keyLock

ASSUME KeyAssumption == Key \subseteq Nat
ASSUME ProcAssumption == IsFiniteSet(Proc) /\ NoProc \notin Proc
ASSUME LockAssumption == NoLock \notin Lock

VARIABLES
    pc,       \* where each call is in By, All or unlock
    want,     \* the keys it named, each once
    ptr,      \* ptr[p][k]: the keyLock p counts as a holder of for k
    readers,  \* the calls that hold `all` for reading
    writer,   \* the call that holds `all` for writing or waits for its readers
    table,    \* s.keys
    holders,  \* keyLock.holders
    owner     \* who has each keyLock's mutex

vars == <<pc, want, ptr, readers, writer, table, holders, owner>>

Stages == {"idle", "parked", "take", "wait", "in", "drop", "release",
           "wlock", "drain", "all"}
Asking == {"parked", "take", "wait"}    \* inside a call of By

(* The keys p counts as a holder of, and those it has locked.               *)
Joined(p) == {k \in Key : ptr[p][k] # NoLock}
Locked(p) == {k \in Joined(p) : owner[ptr[p][k]] = p}
Todo(p) == want[p] \ Joined(p)

First(ks) == {k \in ks : \A j \in ks : k <= j}   \* the least key alone
Last(ks) == {k \in ks : \A j \in ks : j <= k}    \* the greatest alone

(* Memory nobody points to, which is what &keyLock{} can return.            *)
Unused(o) == /\ \A k \in Key : table[k] # o
             /\ \A p \in Proc, k \in Key : ptr[p][k] # o

TypeOK == /\ pc \in [Proc -> Stages]
          /\ want \in [Proc -> SUBSET Key]
          /\ ptr \in [Proc -> [Key -> Lock \cup {NoLock}]]
          /\ readers \in SUBSET Proc
          /\ writer \in Proc \cup {NoProc}
          /\ table \in [Key -> Lock \cup {NoLock}]
          /\ holders \in [Lock -> Nat]
          /\ owner \in [Lock -> Proc \cup {NoProc}]

Init == /\ pc = [p \in Proc |-> "idle"]
        /\ want = [p \in Proc |-> {}]
        /\ ptr = [p \in Proc |-> [k \in Key |-> NoLock]]
        /\ readers = {}
        /\ writer = NoProc
        /\ table = [k \in Key |-> NoLock]
        /\ holders = [o \in Lock |-> 0]
        /\ owner = [o \in Lock |-> NoProc]

-----------------------------------------------------------------------------
(* Slips this code could have made, each caught by a property below.        *)
JoinInAnyOrder(p) ==        \* the keys not sorted
    /\ pc[p] = "take"
    /\ \E k \in Todo(p), o \in Lock :
          /\ \/ table[k] = o /\ holders' = [holders EXCEPT ![o] = @ + 1]
             \/ table[k] = NoLock /\ Unused(o) /\ holders' = [holders EXCEPT ![o] = 1]
          /\ table' = [table EXCEPT ![k] = o]
          /\ ptr' = [ptr EXCEPT ![p][k] = o]
    /\ pc' = [pc EXCEPT ![p] = "wait"]
    /\ UNCHANGED <<want, readers, writer, owner>>

JoinUncounted(p) ==         \* only the call that makes the lock counts
    /\ pc[p] = "take"
    /\ \E k \in First(Todo(p)), o \in Lock :
          /\ \/ table[k] = o /\ UNCHANGED holders
             \/ table[k] = NoLock /\ Unused(o) /\ holders' = [holders EXCEPT ![o] = 1]
          /\ table' = [table EXCEPT ![k] = o]
          /\ ptr' = [ptr EXCEPT ![p][k] = o]
    /\ pc' = [pc EXCEPT ![p] = "wait"]
    /\ UNCHANGED <<want, readers, writer, owner>>

DropDeletes(p, left) ==     \* the entry deleted at another count than none left
    /\ pc[p] = "drop"
    /\ \E k \in Joined(p) \ Locked(p) :
          /\ holders' = [holders EXCEPT ![ptr[p][k]] = @ - 1]
          /\ table' = IF holders'[ptr[p][k]] \in left THEN [table EXCEPT ![k] = NoLock]
                                                      ELSE table
          /\ ptr' = [ptr EXCEPT ![p][k] = NoLock]
    /\ pc' = [pc EXCEPT ![p] = "release"]
    /\ UNCHANGED <<want, readers, writer, owner>>
DropAlways(p) == DropDeletes(p, Nat)
DropNever(p) == DropDeletes(p, {})

RUnlockForgotten(p) ==      \* unlock that gives back the keys but not `all`
    /\ pc[p] \in {"in", "release"}
    /\ Joined(p) = {}
    /\ want' = [want EXCEPT ![p] = {}]
    /\ pc' = [pc EXCEPT ![p] = "idle"]
    /\ UNCHANGED <<ptr, readers, writer, table, holders, owner>>

UnlockAllAlone(p) ==        \* all.Unlock that lets nobody in
    /\ pc[p] = "all"
    /\ writer' = NoProc
    /\ pc' = [pc EXCEPT ![p] = "idle"]
    /\ UNCHANGED <<want, ptr, readers, table, holders, owner>>

-----------------------------------------------------------------------------
(* By: the keys sorted and compacted, then all.RLock, which parks the       *)
(* caller while a writer holds the lock or waits for it.                    *)
By(p, ks) ==
    /\ pc[p] = "idle"
    /\ want' = [want EXCEPT ![p] = ks]
    /\ \/ /\ writer = NoProc
          /\ readers' = readers \cup {p}
          /\ pc' = [pc EXCEPT ![p] = "take"]
       \/ /\ writer # NoProc
          /\ pc' = [pc EXCEPT ![p] = "parked"]
          /\ UNCHANGED readers
    /\ UNCHANGED <<ptr, writer, table, holders, owner>>

(* Under s.mu: find or make the next key's lock, and count as a holder      *)
(* before waiting for it.                                                   *)
Join(p) ==
    /\ pc[p] = "take"
    /\ \E k \in First(Todo(p)), o \in Lock :
          /\ \/ /\ table[k] = o
                /\ holders' = [holders EXCEPT ![o] = @ + 1]
             \/ /\ table[k] = NoLock
                /\ Unused(o)
                /\ holders' = [holders EXCEPT ![o] = 1]
          /\ table' = [table EXCEPT ![k] = o]
          /\ ptr' = [ptr EXCEPT ![p][k] = o]
    /\ pc' = [pc EXCEPT ![p] = "wait"]
    /\ UNCHANGED <<want, readers, writer, owner>>

(* k.Lock() of the key just joined.                                         *)
Acquire(p) ==
    /\ pc[p] = "wait"
    /\ \E k \in Joined(p) \ Locked(p) :
          /\ owner[ptr[p][k]] = NoProc
          /\ owner' = [owner EXCEPT ![ptr[p][k]] = p]
    /\ pc' = [pc EXCEPT ![p] = "take"]
    /\ UNCHANGED <<want, ptr, readers, writer, table, holders>>

(* By returns: every key it named is locked.                                *)
Enter(p) ==
    /\ pc[p] = "take"
    /\ Todo(p) = {}
    /\ pc' = [pc EXCEPT ![p] = "in"]
    /\ UNCHANGED <<want, ptr, readers, writer, table, holders, owner>>

-----------------------------------------------------------------------------
(* unlock, from the last key taken to the first: k.Unlock() ...             *)
Unlock(p) ==
    /\ pc[p] \in {"in", "release"}
    /\ \E k \in Last(Locked(p)) : owner' = [owner EXCEPT ![ptr[p][k]] = NoProc]
    /\ pc' = [pc EXCEPT ![p] = "drop"]
    /\ UNCHANGED <<want, ptr, readers, writer, table, holders>>

(* ... then, under s.mu, one holder fewer, and the last one deletes it.     *)
Drop(p) ==
    /\ pc[p] = "drop"
    /\ \E k \in Joined(p) \ Locked(p) :
          /\ holders' = [holders EXCEPT ![ptr[p][k]] = @ - 1]
          /\ table' = IF holders[ptr[p][k]] = 1 THEN [table EXCEPT ![k] = NoLock] ELSE table
          /\ ptr' = [ptr EXCEPT ![p][k] = NoLock]
    /\ pc' = [pc EXCEPT ![p] = "release"]
    /\ UNCHANGED <<want, readers, writer, owner>>

(* all.RUnlock, once no key is left.                                        *)
RUnlock(p) ==
    /\ pc[p] \in {"in", "release"}
    /\ Joined(p) = {}
    /\ readers' = readers \ {p}
    /\ want' = [want EXCEPT ![p] = {}]
    /\ pc' = [pc EXCEPT ![p] = "idle"]
    /\ UNCHANGED <<ptr, writer, table, holders, owner>>

-----------------------------------------------------------------------------
(* All: all.Lock is taken by one writer at a time, keeps new readers out    *)
(* from then on, and returns when the readers there were have gone.         *)
All(p) == /\ pc[p] = "idle"
          /\ pc' = [pc EXCEPT ![p] = "wlock"]
          /\ UNCHANGED <<want, ptr, readers, writer, table, holders, owner>>

Announce(p) == /\ pc[p] = "wlock"
               /\ writer = NoProc
               /\ writer' = p
               /\ pc' = [pc EXCEPT ![p] = "drain"]
               /\ UNCHANGED <<want, ptr, readers, table, holders, owner>>

Drained(p) == /\ pc[p] = "drain"
              /\ readers = {}
              /\ pc' = [pc EXCEPT ![p] = "all"]
              /\ UNCHANGED <<want, ptr, readers, writer, table, holders, owner>>

(* all.Unlock lets in every reader that was held back.                      *)
UnlockAll(p) ==
    /\ pc[p] = "all"
    /\ writer' = NoProc
    /\ readers' = readers \cup {q \in Proc : pc[q] = "parked"}
    /\ pc' = [q \in Proc |-> IF q = p THEN "idle"
                             ELSE IF pc[q] = "parked" THEN "take" ELSE pc[q]]
    /\ UNCHANGED <<want, ptr, table, holders, owner>>

-----------------------------------------------------------------------------
Next == \E p \in Proc :
           \/ \E ks \in SUBSET Key : By(p, ks)
           \/ Join(p)
           \/ Acquire(p)
           \/ Enter(p)
           \/ Unlock(p)
           \/ Drop(p)
           \/ RUnlock(p)
           \/ All(p)
           \/ Announce(p)
           \/ Drained(p)
           \/ UnlockAll(p)

Spec == Init /\ [][Next]_vars

(* Fairness: a call asks when it likes, and then goes on.  A tool unlocks   *)
(* when it returns (defer unlock()), which its HTTP time limits make sure   *)
(* of.  A sync.Mutex that is passed over for 1 ms is handed to its longest  *)
(* waiter, so the two places where calls race for one, a key's mutex and    *)
(* the RWMutex's writer mutex, are strongly fair.                           *)
Fairness == \A p \in Proc :
               /\ WF_vars(Join(p)) /\ WF_vars(Enter(p))
               /\ WF_vars(Unlock(p)) /\ WF_vars(Drop(p)) /\ WF_vars(RUnlock(p))
               /\ WF_vars(Drained(p)) /\ WF_vars(UnlockAll(p))
               /\ SF_vars(Acquire(p)) /\ SF_vars(Announce(p))

FairSpec == Spec /\ Fairness

-----------------------------------------------------------------------------
(* Set.Idle, for a test to see that no call left a lock behind: `all` can   *)
(* be had for writing and the map is empty.                                 *)
Idle == /\ readers = {}
        /\ writer = NoProc
        /\ \A k \in Key : table[k] = NoLock

(* A key two calls hold or wait for is one lock object, the map's (deleting *)
(* it under a waiter would give the next caller a second one): set.go:48.   *)
OneLockPerKey == \A p \in Proc, k \in Key : ptr[p][k] # NoLock => ptr[p][k] = table[k]

(* "A lock is kept only while held or waited for" (set.go:10-11): the       *)
(* count is the number of calls that hold it or wait for it, and the map    *)
(* has no entry nobody counts in.                                           *)
HoldersExact == \A k \in Key :
                   table[k] # NoLock =>
                      /\ holders[table[k]] = Cardinality({p \in Proc : ptr[p][k] = table[k]})
                      /\ holders[table[k]] > 0

(* A call that By has returned to holds the mutex of every key it named,    *)
(* so no two such calls named one key, and none is in beside All.           *)
InsideHoldsAll == /\ \A p \in Proc : pc[p] = "in" => Locked(p) = want[p]
                  /\ \A p, q \in Proc : p # q =>
                        /\ pc[p] = "in" /\ pc[q] = "in" => want[p] \cap want[q] = {}
                        /\ pc[p] = "all" => pc[q] \notin {"take", "wait", "in", "all"}

(* q has what p is waiting for: the key it joined last, or `all`.           *)
Blocks(q, p) == \/ /\ pc[p] = "wait"
                   /\ \E k \in Joined(p) \ Locked(p) : owner[ptr[p][k]] = q
                \/ pc[p] \in {"parked", "wlock"} /\ writer = q
                \/ pc[p] = "drain" /\ q \in readers

(* Callers never wait on each other in a circle, of any length and through  *)
(* any mix of keys and All (lock.go:13-15, 71-72).                          *)
NoWaitCycle == \A S \in (SUBSET Proc) \ {{}} : \E p \in S : \A q \in S : ~Blocks(q, p)

(* No call leaves a lock behind (lock_test's Idle check).                   *)
NothingLeftBehind == (\A p \in Proc : pc[p] = "idle") => Idle

(* Every call of By is granted, and every call of All: two callers with     *)
(* overlapping things never wait on each other (lock.go:71-72), and a       *)
(* stream of readers does not keep All out.                                 *)
ByGranted == \A p \in Proc : pc[p] \in Asking ~> pc[p] = "in"
AllGranted == \A p \in Proc : pc[p] = "wlock" ~> pc[p] = "all"

(* Acting on the map and the mutexes one at a time, the set still behaves   *)
(* as if every By and every All were granted at one moment.                 *)
ModeOf(stage) == CASE stage \in Asking            -> "asked"
                   [] stage = "in"                -> "held"
                   [] stage \in {"wlock", "drain"} -> "askedAll"
                   [] stage = "all"               -> "heldAll"
                   [] stage \in {"idle", "drop", "release"} -> "idle"

absMode == [p \in Proc |-> ModeOf(pc[p])]
absNamed == [p \in Proc |-> IF pc[p] \in Asking \cup {"in"} THEN want[p] ELSE {}]

Abstract == INSTANCE MultiLock WITH mode <- absMode, named <- absNamed

GrantsAtOnce == Abstract!Spec
=============================================================================
