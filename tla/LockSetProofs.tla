--------------------------- MODULE LockSetProofs ---------------------------
(***************************************************************************)
(* Proofs about go-kt's lock.Set for any number of calls, keys and lock    *)
(* objects.  Inv is the inductive invariant: what each stage of By and     *)
(* unlock says of the map, the counts and the mutexes.                     *)
(***************************************************************************)
EXTENDS LockSet, FiniteSetTheorems, WellFoundedInduction, TLAPS

(* Where a call holds `all` for reading.                                    *)
Reading == {"take", "wait", "in", "drop", "release"}

(* Two keys are never one lock object.                                      *)
OneKeyPerLock == \A j, k \in Key : table[j] = table[k] /\ table[j] # NoLock => j = k

(* A mutex is held by a call that counts as a holder of its key.            *)
OwnerJoined == \A o \in Lock : owner[o] # NoProc => \E k \in Key : ptr[owner[o]][k] = o

(* `all` as each stage has it.                                              *)
AllMatches == /\ readers = {p \in Proc : pc[p] \in Reading}
              /\ \A p \in Proc : writer = p <=> pc[p] \in {"drain", "all"}
              /\ \A p \in Proc : pc[p] = "all" => readers = {}

(* The keys as each stage has them: every one joined is locked, but the one *)
(* being waited for, or being dropped.                                      *)
StageOf(p) ==
    /\ pc[p] \notin Reading => Joined(p) = {}
    /\ pc[p] \in {"take", "in", "release"} => Joined(p) = Locked(p)
    /\ pc[p] \in {"wait", "drop"} => \E k \in Joined(p) : Joined(p) \ Locked(p) = {k}
    /\ pc[p] = "in" => Joined(p) = want[p]
    /\ pc[p] \in {"take", "wait"} => Joined(p) \subseteq want[p]

StageMatches == \A p \in Proc : StageOf(p)

Inv == /\ TypeOK
       /\ OneLockPerKey
       /\ OneKeyPerLock
       /\ HoldersExact
       /\ OwnerJoined
       /\ AllMatches
       /\ StageMatches

-----------------------------------------------------------------------------
(* Initially nothing is locked.                                             *)
LEMMA InitInv == Init => Inv
  <1> SUFFICES ASSUME Init PROVE Inv
    OBVIOUS
  <1> USE ProcAssumption, LockAssumption DEF Init
  <1>1. TypeOK
    BY DEF TypeOK, Stages
  <1>2. OneLockPerKey /\ OneKeyPerLock /\ HoldersExact
    BY DEF OneLockPerKey, OneKeyPerLock, HoldersExact
  <1>3. OwnerJoined /\ AllMatches
    BY DEF OwnerJoined, AllMatches, Reading
  <1>4. StageMatches
    BY DEF StageMatches, StageOf, Reading, Joined
  <1> QED
    BY <1>1, <1>2, <1>3, <1>4 DEF Inv

-----------------------------------------------------------------------------
(* Counting callers: one more, one fewer, and none left.                    *)
LEMMA OneMore ==
  ASSUME NEW S \in SUBSET Proc, NEW p \in Proc, p \notin S
  PROVE  /\ Cardinality(S) \in Nat
         /\ Cardinality(S \cup {p}) = Cardinality(S) + 1
  BY ProcAssumption, FS_Subset, FS_AddElement, FS_CardinalityType

(* Taking a caller away, the last one leaves none.                          *)
LEMMA OneFewer ==
  ASSUME NEW S \in SUBSET Proc, NEW p \in S
  PROVE  /\ Cardinality(S) \in Nat
         /\ Cardinality(S \ {p}) = Cardinality(S) - 1
         /\ Cardinality(S) = 1 => S = {p}
  <1>1. IsFiniteSet(S) /\ IsFiniteSet(S \ {p})
    BY ProcAssumption, FS_Subset
  <1>2. Cardinality(S) \in Nat /\ Cardinality(S \ {p}) = Cardinality(S) - 1
    BY <1>1, FS_RemoveElement, FS_CardinalityType
  <1>3. ASSUME Cardinality(S) = 1 PROVE S = {p}
    <2>1. S \ {p} = {}
      BY <1>1, <1>2, <1>3, FS_EmptySet
    <2> QED
      BY <2>1
  <1> QED
    BY <1>2, <1>3

-----------------------------------------------------------------------------
(* The calls that count as holders of a key.                                *)
HoldersOf(k) == {p \in Proc : ptr[p][k] = table[k]}

(* The stages that touch only pc, `all` and what is named leave the map,    *)
(* the counts and the mutexes as the invariant has them.                    *)
LEMMA MapUntouched ==
  ASSUME Inv, UNCHANGED <<ptr, table, holders, owner>>
  PROVE  /\ (OneLockPerKey /\ OneKeyPerLock)'
         /\ (HoldersExact /\ OwnerJoined)'
         /\ \A p \in Proc : /\ Joined(p)' = Joined(p)
                            /\ Locked(p)' = Locked(p)
                            /\ Locked(p) \subseteq Joined(p)
  <1>1. (OneLockPerKey /\ OneKeyPerLock)'
    BY DEF Inv, OneLockPerKey, OneKeyPerLock
  <1>2. (HoldersExact /\ OwnerJoined)'
    BY DEF Inv, HoldersExact, OwnerJoined
  <1>3. \A p \in Proc : /\ Joined(p)' = Joined(p)
                       /\ Locked(p)' = Locked(p)
                       /\ Locked(p) \subseteq Joined(p)
    BY DEF Joined, Locked
  <1> QED
    BY <1>1, <1>2, <1>3

(* Asking: readers and stages change, keys do not.                          *)
LEMMA ByInv == ASSUME Inv, NEW p \in Proc, NEW ks \in SUBSET Key, By(p, ks) PROVE Inv'
  <1> USE ProcAssumption DEF By
  <1>1. TypeOK'
    BY DEF Inv, TypeOK, Stages
  <1>2. AllMatches'
    <2>1. CASE writer = NoProc
      <3>1. \A q \in Proc : pc[q] \notin {"drain", "all"}
        BY <2>1 DEF Inv, AllMatches
      <3> QED
        BY <2>1, <3>1 DEF Inv, TypeOK, AllMatches, Reading
    <2>2. CASE writer # NoProc
      BY <2>2 DEF Inv, TypeOK, AllMatches, Reading
    <2> QED
      BY <2>1, <2>2
  <1>3. StageMatches'
    <2> SUFFICES ASSUME NEW q \in Proc PROVE StageOf(q)'
      BY DEF StageMatches
    <2>1. CASE q = p
      <3>1. Joined(q) = {} /\ Locked(q) = {}
        BY <2>1, MapUntouched DEF Inv, StageMatches, StageOf, Reading
      <3>2. pc'[q] \in {"take", "parked"}
        BY <2>1 DEF Inv, TypeOK
      <3> QED
        BY <3>1, <3>2, MapUntouched DEF StageOf, Reading
    <2>2. CASE q # p
      BY <2>2, MapUntouched DEF Inv, TypeOK, StageMatches, StageOf
    <2> QED
      BY <2>1, <2>2
  <1> QED
    BY <1>1, <1>2, <1>3, MapUntouched DEF Inv

(* By returns: with nothing to do, what is joined is what was named.        *)
LEMMA EnterInv == ASSUME Inv, NEW p \in Proc, Enter(p) PROVE Inv'
  <1> USE DEF Enter
  <1>1. TypeOK'
    BY DEF Inv, TypeOK, Stages
  <1>2. AllMatches'
    BY DEF Inv, TypeOK, AllMatches, Reading
  <1>3. Joined(p) = want[p]
    BY DEF Inv, StageMatches, StageOf, Todo
  <1>4. StageMatches'
    BY <1>3, MapUntouched DEF Inv, TypeOK, StageMatches, StageOf, Reading
  <1> QED
    BY <1>1, <1>2, <1>4, MapUntouched DEF Inv

(* Asking for all of it changes a stage alone.                              *)
LEMMA AllInv == ASSUME Inv, NEW p \in Proc, All(p) PROVE Inv'
  <1> USE DEF All
  <1>1. TypeOK'
    BY DEF Inv, TypeOK, Stages
  <1>2. AllMatches'
    BY DEF Inv, TypeOK, AllMatches, Reading
  <1>3. StageMatches'
    BY MapUntouched DEF Inv, TypeOK, StageMatches, StageOf, Reading
  <1> QED
    BY <1>1, <1>2, <1>3, MapUntouched DEF Inv

(* A writer announced: it is the only one.                                  *)
LEMMA AnnounceInv == ASSUME Inv, NEW p \in Proc, Announce(p) PROVE Inv'
  <1> USE ProcAssumption DEF Announce
  <1>1. TypeOK'
    BY DEF Inv, TypeOK, Stages
  <1>2. AllMatches'
    BY DEF Inv, TypeOK, AllMatches, Reading
  <1>3. StageMatches'
    BY MapUntouched DEF Inv, TypeOK, StageMatches, StageOf, Reading
  <1> QED
    BY <1>1, <1>2, <1>3, MapUntouched DEF Inv

(* It has all of it once the readers have gone.                             *)
LEMMA DrainedInv == ASSUME Inv, NEW p \in Proc, Drained(p) PROVE Inv'
  <1> USE DEF Drained
  <1>1. TypeOK'
    BY DEF Inv, TypeOK, Stages
  <1>2. AllMatches'
    BY DEF Inv, TypeOK, AllMatches, Reading
  <1>3. StageMatches'
    BY MapUntouched DEF Inv, TypeOK, StageMatches, StageOf, Reading
  <1> QED
    BY <1>1, <1>2, <1>3, MapUntouched DEF Inv

(* Unlocking all of it: the parked are readers, with no key yet.            *)
LEMMA UnlockAllInv == ASSUME Inv, NEW p \in Proc, UnlockAll(p) PROVE Inv'
  <1> USE ProcAssumption DEF UnlockAll
  <1>1. TypeOK'
    BY DEF Inv, TypeOK, Stages
  <1>2. AllMatches'
    BY DEF Inv, TypeOK, AllMatches, Reading
  <1>3. StageMatches'
    <2> SUFFICES ASSUME NEW q \in Proc PROVE StageOf(q)'
      BY DEF StageMatches
    <2>1. CASE pc[q] = "parked" \/ q = p
      <3>1. Joined(q) = {} /\ Locked(q) = {}
        BY <2>1, MapUntouched DEF Inv, StageMatches, StageOf, Reading
      <3>2. pc'[q] \in {"take", "idle"}
        BY <2>1 DEF Inv, TypeOK
      <3> QED
        BY <3>1, <3>2, MapUntouched DEF StageOf, Reading
    <2>2. CASE pc[q] # "parked" /\ q # p
      BY <2>2, MapUntouched DEF Inv, TypeOK, StageMatches, StageOf
    <2> QED
      BY <2>1, <2>2
  <1> QED
    BY <1>1, <1>2, <1>3, MapUntouched DEF Inv

(* Once its keys are dropped, a caller reads no more.                       *)
LEMMA RUnlockInv == ASSUME Inv, NEW p \in Proc, RUnlock(p) PROVE Inv'
  <1> USE DEF RUnlock
  <1>1. TypeOK'
    BY DEF Inv, TypeOK, Stages
  <1>2. AllMatches'
    BY DEF Inv, TypeOK, AllMatches, Reading
  <1>3. StageMatches'
    BY MapUntouched DEF Inv, TypeOK, StageMatches, StageOf, Reading
  <1> QED
    BY <1>1, <1>2, <1>3, MapUntouched DEF Inv

-----------------------------------------------------------------------------
(* Locking a key: the waiter's last key is locked, nobody else's changes.   *)
LEMMA AcquireInv == ASSUME Inv, NEW p \in Proc, Acquire(p) PROVE Inv'
  <1>1. PICK k \in Joined(p) \ Locked(p) : /\ owner[ptr[p][k]] = NoProc
                                          /\ owner' = [owner EXCEPT ![ptr[p][k]] = p]
    BY DEF Acquire
  <1> DEFINE o == ptr[p][k]
  <1>2. /\ pc[p] = "wait"
        /\ pc' = [pc EXCEPT ![p] = "take"]
        /\ UNCHANGED <<want, ptr, readers, writer, table, holders>>
    BY DEF Acquire
  <1>3. k \in Key /\ o \in Lock /\ o = table[k]
    BY <1>1 DEF Inv, TypeOK, Joined, OneLockPerKey
  <1>4. TypeOK'
    BY <1>1, <1>2, <1>3 DEF Inv, TypeOK, Stages
  <1>5. (OneLockPerKey /\ OneKeyPerLock /\ HoldersExact)'
    BY <1>2 DEF Inv, OneLockPerKey, OneKeyPerLock, HoldersExact
  <1>6. OwnerJoined'
    BY <1>1, <1>2, <1>3 DEF Inv, TypeOK, OwnerJoined
  <1>7. AllMatches'
    BY <1>2 DEF Inv, TypeOK, AllMatches, Reading
  <1>8. \A q \in Proc : Joined(q)' = Joined(q)
    BY <1>2 DEF Joined
  <1>9. StageMatches'
    <2> SUFFICES ASSUME NEW q \in Proc PROVE StageOf(q)'
      BY DEF StageMatches
    <2>1. CASE q = p
      <3>1. Joined(p) \ Locked(p) = {k}
        BY <1>1, <1>2 DEF Inv, StageMatches, StageOf
      <3>2. \A j \in Joined(p) : owner'[ptr[p][j]] = p
        BY <1>1, <1>3, <3>1 DEF Inv, TypeOK, Joined, Locked
      <3>3. Locked(p)' = Joined(p)
        BY <1>2, <1>8, <3>2 DEF Locked
      <3>4. pc'[q] = "take" /\ Joined(p) \subseteq want'[p]
        BY <1>2, <2>1 DEF Inv, TypeOK, StageMatches, StageOf
      <3> QED
        BY <1>8, <2>1, <3>3, <3>4 DEF StageOf, Reading
    <2>2. CASE q # p
      <3>1. Locked(q)' = Locked(q)
        BY <1>1, <1>2, <1>3, <1>8, <2>2, ProcAssumption DEF Inv, TypeOK, Locked, Joined
      <3> QED
        BY <1>2, <1>8, <2>2, <3>1 DEF Inv, TypeOK, StageMatches, StageOf, Reading
    <2> QED
      BY <2>1, <2>2
  <1> QED
    BY <1>4, <1>5, <1>6, <1>7, <1>9 DEF Inv

(* Unlocking a key: its call still counts as a holder until it drops it.    *)
LEMMA UnlockInv == ASSUME Inv, NEW p \in Proc, Unlock(p) PROVE Inv'
  <1>1. PICK k \in Last(Locked(p)) : owner' = [owner EXCEPT ![ptr[p][k]] = NoProc]
    BY DEF Unlock
  <1> DEFINE o == ptr[p][k]
  <1>2. /\ pc[p] \in {"in", "release"}
        /\ pc' = [pc EXCEPT ![p] = "drop"]
        /\ UNCHANGED <<want, ptr, readers, writer, table, holders>>
    BY DEF Unlock
  <1>3. k \in Joined(p) /\ k \in Key /\ o \in Lock /\ o = table[k] /\ owner[o] = p
    BY <1>1 DEF Inv, TypeOK, Joined, Locked, Last, OneLockPerKey
  <1>4. TypeOK'
    BY <1>1, <1>2, <1>3 DEF Inv, TypeOK, Stages
  <1>5. (OneLockPerKey /\ OneKeyPerLock /\ HoldersExact)'
    BY <1>2 DEF Inv, OneLockPerKey, OneKeyPerLock, HoldersExact
  <1>6. OwnerJoined'
    BY <1>1, <1>2, <1>3 DEF Inv, TypeOK, OwnerJoined
  <1>7. AllMatches'
    BY <1>2 DEF Inv, TypeOK, AllMatches, Reading
  <1>8. \A q \in Proc : Joined(q)' = Joined(q)
    BY <1>2 DEF Joined
  <1>9. StageMatches'
    <2> SUFFICES ASSUME NEW q \in Proc PROVE StageOf(q)'
      BY DEF StageMatches
    <2>1. CASE q = p
      <3>1. Joined(p) = Locked(p)
        BY <1>2 DEF Inv, StageMatches, StageOf
      <3>2. \A j \in Joined(p) : owner'[ptr[p][j]] = p <=> j # k
        <4> SUFFICES ASSUME NEW j \in Joined(p) PROVE owner'[ptr[p][j]] = p <=> j # k
          OBVIOUS
        <4>1. j \in Key /\ ptr[p][j] = table[j] /\ ptr[p][j] \in Lock /\ owner[ptr[p][j]] = p
          BY <3>1 DEF Inv, TypeOK, Joined, Locked, OneLockPerKey
        <4>2. ptr[p][j] = o <=> j = k
          BY <1>3, <4>1, LockAssumption DEF Inv, OneKeyPerLock
        <4> QED
          BY <1>1, <1>3, <4>1, <4>2, ProcAssumption DEF Inv, TypeOK
      <3>3. (Joined(p) \ Locked(p))' = {k}
        BY <1>2, <1>3, <1>8, <3>2 DEF Locked
      <3>4. pc'[q] = "drop"
        BY <1>2, <2>1 DEF Inv, TypeOK
      <3> QED
        BY <1>3, <1>8, <2>1, <3>3, <3>4 DEF StageOf, Reading
    <2>2. CASE q # p
      <3>1. Locked(q)' = Locked(q)
        BY <1>1, <1>2, <1>3, <1>8, <2>2, ProcAssumption DEF Inv, TypeOK, Locked, Joined
      <3> QED
        BY <1>2, <1>8, <2>2, <3>1 DEF Inv, TypeOK, StageMatches, StageOf, Reading
    <2> QED
      BY <2>1, <2>2
  <1> QED
    BY <1>4, <1>5, <1>6, <1>7, <1>9 DEF Inv

-----------------------------------------------------------------------------
(* Joining a key: found in the map or made, the lock is the key's own, and  *)
(* one more call counts in it.                                              *)
LEMMA JoinInv == ASSUME Inv, NEW p \in Proc, Join(p) PROVE Inv'
  <1>1. PICK k \in First(Todo(p)), o \in Lock :
           /\ \/ table[k] = o /\ holders' = [holders EXCEPT ![o] = @ + 1]
              \/ table[k] = NoLock /\ Unused(o) /\ holders' = [holders EXCEPT ![o] = 1]
           /\ table' = [table EXCEPT ![k] = o]
           /\ ptr' = [ptr EXCEPT ![p][k] = o]
    BY DEF Join
  <1>2. /\ pc[p] = "take"
        /\ pc' = [pc EXCEPT ![p] = "wait"]
        /\ UNCHANGED <<want, readers, writer, owner>>
    BY DEF Join
  <1>3. k \in Key /\ k \in want[p] /\ k \notin Joined(p) /\ ptr[p][k] = NoLock
    BY <1>1 DEF Inv, TypeOK, First, Todo, Joined
  <1>4. o # NoLock /\ table'[k] = o /\ ptr'[p][k] = o
    BY <1>1, <1>3, LockAssumption DEF Inv, TypeOK
  <1>5. \A q \in Proc, j \in Key : <<q, j>> # <<p, k>> => ptr'[q][j] = ptr[q][j]
    BY <1>1 DEF Inv, TypeOK
  <1>6. \A j \in Key \ {k} : table'[j] = table[j] /\ table[j] # o
    BY <1>1, <1>3, <1>4 DEF Inv, TypeOK, Unused, OneKeyPerLock
  <1>7. TypeOK'
    BY <1>1, <1>2, <1>3 DEF Inv, TypeOK, Stages
  <1>8. OneLockPerKey'
    <2> SUFFICES ASSUME NEW q \in Proc, NEW j \in Key, ptr'[q][j] # NoLock
                 PROVE  ptr'[q][j] = table'[j]
      BY DEF OneLockPerKey
    <2>1. CASE q = p /\ j = k
      BY <1>4, <2>1
    <2>2. CASE q # p /\ j = k
      BY <1>1, <1>4, <1>5, <2>2 DEF Inv, OneLockPerKey
    <2>3. CASE j # k
      BY <1>5, <1>6, <2>3 DEF Inv, OneLockPerKey
    <2> QED
      BY <2>1, <2>2, <2>3
  <1>9. OneKeyPerLock'
    BY <1>4, <1>6 DEF Inv, OneKeyPerLock
  <1>10. HoldersExact'
    <2> SUFFICES ASSUME NEW j \in Key, table'[j] # NoLock
                 PROVE  /\ holders'[table'[j]] = Cardinality(HoldersOf(j)')
                        /\ holders'[table'[j]] > 0
      BY DEF HoldersExact, HoldersOf
    <2>1. CASE j = k
      <3>1. HoldersOf(k)' = {q \in Proc : ptr[q][k] = o} \cup {p}
        <4>1. \A q \in Proc : ptr'[q][k] = table'[k] <=> (ptr[q][k] = o \/ q = p)
          <5> SUFFICES ASSUME NEW q \in Proc
                       PROVE  ptr'[q][k] = table'[k] <=> (ptr[q][k] = o \/ q = p)
            OBVIOUS
          <5>1. CASE q = p
            BY <1>4, <5>1
          <5>2. CASE q # p
            BY <1>3, <1>4, <1>5, <5>2
          <5> QED
            BY <5>1, <5>2
        <4> QED
          BY <4>1 DEF HoldersOf
      <3>2. p \notin {q \in Proc : ptr[q][k] = o}
        BY <1>3, <1>4
      <3>3. Cardinality(HoldersOf(k)') = Cardinality({q \in Proc : ptr[q][k] = o}) + 1
        BY <3>1, <3>2, OneMore
      <3>4. CASE table[k] = o /\ holders' = [holders EXCEPT ![o] = @ + 1]
        <4>1. holders[o] = Cardinality({q \in Proc : ptr[q][k] = o}) /\ holders[o] > 0
          BY <1>3, <1>4, <3>4 DEF Inv, HoldersExact
        <4> QED
          BY <1>4, <2>1, <3>3, <3>4, <4>1 DEF Inv, TypeOK
      <3>5. CASE table[k] = NoLock /\ Unused(o) /\ holders' = [holders EXCEPT ![o] = 1]
        <4>1. {q \in Proc : ptr[q][k] = o} = {}
          BY <1>3, <3>5 DEF Unused
        <4>2. Cardinality({q \in Proc : ptr[q][k] = o}) = 0
          BY <4>1, FS_EmptySet
        <4>3. holders'[o] = 1
          BY <3>5 DEF Inv, TypeOK
        <4> QED
          BY <1>4, <2>1, <3>3, <4>2, <4>3
      <3> QED
        BY <1>1, <3>4, <3>5
    <2>2. CASE j # k
      <3>1. table'[j] = table[j] /\ table[j] # o
        BY <1>6, <2>2
      <3>2. HoldersOf(j)' = {q \in Proc : ptr[q][j] = table[j]}
        BY <1>5, <2>2, <3>1 DEF HoldersOf
      <3>3. holders'[table[j]] = holders[table[j]]
        BY <1>1, <3>1 DEF Inv, TypeOK
      <3> QED
        BY <3>1, <3>2, <3>3 DEF Inv, HoldersExact
    <2> QED
      BY <2>1, <2>2
  <1>11. OwnerJoined'
    <2> SUFFICES ASSUME NEW b \in Lock, owner[b] # NoProc
                 PROVE  \E j \in Key : ptr'[owner[b]][j] = b
      BY <1>2 DEF OwnerJoined
    <2>1. PICK j \in Key : ptr[owner[b]][j] = b
      BY DEF Inv, OwnerJoined
    <2>2. owner[b] \in Proc
      BY DEF Inv, TypeOK
    <2>3. <<owner[b], j>> # <<p, k>>
      BY <1>3, <2>1, LockAssumption
    <2> QED
      BY <1>5, <2>1, <2>2, <2>3
  <1>12. AllMatches'
    BY <1>2 DEF Inv, TypeOK, AllMatches, Reading
  <1>13. owner[o] # p
    <2> SUFFICES ASSUME owner[o] = p PROVE FALSE
      OBVIOUS
    <2>1. PICK j \in Key : ptr[p][j] = o
      BY ProcAssumption DEF Inv, OwnerJoined
    <2>2. table[j] = o
      BY <1>4, <2>1 DEF Inv, OneLockPerKey
    <2> QED
      BY <1>3, <1>4, <1>6, <2>1, <2>2
  <1>14. StageMatches'
    <2> SUFFICES ASSUME NEW q \in Proc PROVE StageOf(q)'
      BY DEF StageMatches
    <2>1. CASE q = p
      <3>1. Joined(p)' = Joined(p) \cup {k}
        BY <1>3, <1>4, <1>5 DEF Joined
      <3>2. Locked(p)' = Locked(p)
        BY <1>2, <1>3, <1>4, <1>5, <1>13, <3>1 DEF Locked, Joined
      <3>3. Joined(p) = Locked(p) /\ Joined(p) \subseteq want[p]
        BY <1>2 DEF Inv, StageMatches, StageOf
      <3>4. (Joined(p) \ Locked(p))' = {k}
        BY <1>3, <3>1, <3>2, <3>3
      <3>5. pc'[q] = "wait"
        BY <1>2, <2>1 DEF Inv, TypeOK
      <3> QED
        BY <1>2, <1>3, <2>1, <3>1, <3>3, <3>4, <3>5 DEF StageOf, Reading
    <2>2. CASE q # p
      <3>1. Joined(q)' = Joined(q)
        BY <1>5, <2>2 DEF Joined
      <3>2. Locked(q)' = Locked(q)
        BY <1>2, <1>5, <2>2, <3>1 DEF Locked, Joined
      <3> QED
        BY <1>2, <2>2, <3>1, <3>2 DEF Inv, TypeOK, StageMatches, StageOf, Reading
    <2> QED
      BY <2>1, <2>2
  <1> QED
    BY <1>7, <1>8, <1>9, <1>10, <1>11, <1>12, <1>14 DEF Inv

(* Dropping a key: one call fewer counts in its lock, and the entry goes    *)
(* only when no other call holds it or waits for it.                        *)
LEMMA DropInv == ASSUME Inv, NEW p \in Proc, Drop(p) PROVE Inv'
  <1>1. PICK k \in Joined(p) \ Locked(p) :
           /\ holders' = [holders EXCEPT ![ptr[p][k]] = @ - 1]
           /\ table' = IF holders[ptr[p][k]] = 1 THEN [table EXCEPT ![k] = NoLock] ELSE table
           /\ ptr' = [ptr EXCEPT ![p][k] = NoLock]
    BY DEF Drop
  <1> DEFINE o == ptr[p][k]
  <1>2. /\ pc[p] = "drop"
        /\ pc' = [pc EXCEPT ![p] = "release"]
        /\ UNCHANGED <<want, readers, writer, owner>>
    BY DEF Drop
  <1>3. k \in Key /\ o \in Lock /\ o # NoLock /\ o = table[k] /\ owner[o] # p
    BY <1>1 DEF Inv, TypeOK, Joined, Locked, OneLockPerKey
  <1>4. ptr'[p][k] = NoLock
    BY <1>1, <1>3 DEF Inv, TypeOK
  <1>5. \A q \in Proc, j \in Key : <<q, j>> # <<p, k>> => ptr'[q][j] = ptr[q][j]
    BY <1>1 DEF Inv, TypeOK
  <1>6. \A j \in Key \ {k} : table'[j] = table[j] /\ table[j] # o
    BY <1>1, <1>3 DEF Inv, TypeOK, OneKeyPerLock
  <1>7. /\ p \in HoldersOf(k)
        /\ HoldersOf(k) \in SUBSET Proc
        /\ holders[o] = Cardinality(HoldersOf(k))
        /\ holders[o] \in Nat /\ holders[o] > 0
    BY <1>3 DEF HoldersOf, Inv, TypeOK, HoldersExact
  <1>8. holders[o] = 1 => \A q \in Proc \ {p} : ptr[q][k] = NoLock
    BY <1>3, <1>7, OneFewer DEF HoldersOf, Inv, OneLockPerKey
  <1>9. table'[k] = IF holders[o] = 1 THEN NoLock ELSE o
    BY <1>1, <1>3 DEF Inv, TypeOK
  <1>10. TypeOK'
    BY <1>1, <1>2, <1>3, <1>7 DEF Inv, TypeOK, Stages
  <1>11. OneLockPerKey'
    BY <1>3, <1>4, <1>5, <1>6, <1>8, <1>9 DEF Inv, OneLockPerKey
  <1>12. OneKeyPerLock'
    BY <1>3, <1>6, <1>9 DEF Inv, OneKeyPerLock
  <1>13. HoldersExact'
    <2> SUFFICES ASSUME NEW j \in Key, table'[j] # NoLock
                 PROVE  /\ holders'[table'[j]] = Cardinality(HoldersOf(j)')
                        /\ holders'[table'[j]] > 0
      BY DEF HoldersExact, HoldersOf
    <2>1. CASE j = k
      <3>1. holders[o] # 1 /\ table'[k] = o
        BY <1>9, <2>1
      <3>2. HoldersOf(k)' = HoldersOf(k) \ {p}
        BY <1>3, <1>4, <1>5, <3>1 DEF HoldersOf
      <3>3. Cardinality(HoldersOf(k)') = holders[o] - 1
        BY <1>7, <3>2, OneFewer
      <3>4. holders'[o] = holders[o] - 1
        BY <1>1, <1>3 DEF Inv, TypeOK
      <3> QED
        BY <1>7, <2>1, <3>1, <3>3, <3>4
    <2>2. CASE j # k
      <3>1. table'[j] = table[j] /\ table[j] # o
        BY <1>6, <2>2
      <3>2. HoldersOf(j)' = {q \in Proc : ptr[q][j] = table[j]}
        BY <1>5, <2>2, <3>1 DEF HoldersOf
      <3>3. holders'[table[j]] = holders[table[j]]
        BY <1>1, <3>1 DEF Inv, TypeOK
      <3> QED
        BY <3>1, <3>2, <3>3 DEF Inv, HoldersExact
    <2> QED
      BY <2>1, <2>2
  <1>14. OwnerJoined'
    <2> SUFFICES ASSUME NEW b \in Lock, owner[b] # NoProc
                 PROVE  \E j \in Key : ptr'[owner[b]][j] = b
      BY <1>2 DEF OwnerJoined
    <2>1. PICK j \in Key : ptr[owner[b]][j] = b
      BY DEF Inv, OwnerJoined
    <2>2. owner[b] \in Proc
      BY DEF Inv, TypeOK
    <2>3. <<owner[b], j>> # <<p, k>>
      BY <1>3, <2>1
    <2> QED
      BY <1>5, <2>1, <2>2, <2>3
  <1>15. AllMatches'
    BY <1>2 DEF Inv, TypeOK, AllMatches, Reading
  <1>16. StageMatches'
    <2> SUFFICES ASSUME NEW q \in Proc PROVE StageOf(q)'
      BY DEF StageMatches
    <2>1. CASE q = p
      <3>1. Joined(p) \ Locked(p) = {k}
        BY <1>1, <1>2 DEF Inv, StageMatches, StageOf
      <3>2. Joined(p)' = Joined(p) \ {k}
        BY <1>4, <1>5 DEF Joined
      <3>3. Locked(p)' = Joined(p) \ {k}
        BY <1>2, <1>5, <3>1, <3>2 DEF Locked, Joined
      <3>4. pc'[q] = "release"
        BY <1>2, <2>1 DEF Inv, TypeOK
      <3> QED
        BY <2>1, <3>2, <3>3, <3>4 DEF StageOf, Reading
    <2>2. CASE q # p
      <3>1. Joined(q)' = Joined(q)
        BY <1>5, <2>2 DEF Joined
      <3>2. Locked(q)' = Locked(q)
        BY <1>2, <1>5, <2>2, <3>1 DEF Locked, Joined
      <3> QED
        BY <1>2, <2>2, <3>1, <3>2 DEF Inv, TypeOK, StageMatches, StageOf, Reading
    <2> QED
      BY <2>1, <2>2
  <1> QED
    BY <1>10, <1>11, <1>12, <1>13, <1>14, <1>15, <1>16 DEF Inv

-----------------------------------------------------------------------------
(* Every step keeps the invariant, so every state has it.                   *)
LEMMA StepInv == Inv /\ [Next]_vars => Inv'
  <1> SUFFICES ASSUME Inv, [Next]_vars PROVE Inv'
    OBVIOUS
  <1>1. CASE UNCHANGED vars
    <2>1. UNCHANGED <<ptr, table, holders, owner>>
      BY <1>1 DEF vars
    <2>2. (TypeOK /\ AllMatches /\ StageMatches)'
      BY <1>1, <2>1, MapUntouched DEF vars, Inv, TypeOK, AllMatches, StageMatches, StageOf
    <2> QED
      BY <2>1, <2>2, MapUntouched DEF Inv
  <1>2. ASSUME NEW p \in Proc, NEW ks \in SUBSET Key, By(p, ks) PROVE Inv'
    BY <1>2, ByInv
  <1>3. ASSUME NEW p \in Proc, Join(p) PROVE Inv'
    BY <1>3, JoinInv
  <1>4. ASSUME NEW p \in Proc, Acquire(p) PROVE Inv'
    BY <1>4, AcquireInv
  <1>5. ASSUME NEW p \in Proc, Enter(p) PROVE Inv'
    BY <1>5, EnterInv
  <1>6. ASSUME NEW p \in Proc, Unlock(p) PROVE Inv'
    BY <1>6, UnlockInv
  <1>7. ASSUME NEW p \in Proc, Drop(p) PROVE Inv'
    BY <1>7, DropInv
  <1>8. ASSUME NEW p \in Proc, RUnlock(p) PROVE Inv'
    BY <1>8, RUnlockInv
  <1>9. ASSUME NEW p \in Proc, All(p) PROVE Inv'
    BY <1>9, AllInv
  <1>10. ASSUME NEW p \in Proc, Announce(p) PROVE Inv'
    BY <1>10, AnnounceInv
  <1>11. ASSUME NEW p \in Proc, Drained(p) PROVE Inv'
    BY <1>11, DrainedInv
  <1>12. ASSUME NEW p \in Proc, UnlockAll(p) PROVE Inv'
    BY <1>12, UnlockAllInv
  <1> QED
    BY <1>1, <1>2, <1>3, <1>4, <1>5, <1>6, <1>7, <1>8, <1>9, <1>10, <1>11, <1>12 DEF Next

(* Every state has the invariant.                                           *)
LEMMA Invariance == Spec => []Inv
  BY InitInv, StepInv, PTL DEF Spec

(* The variables have their types in every state.                           *)
THEOREM TypeCorrect == Spec => []TypeOK
  <1>1. Inv => TypeOK
    BY DEF Inv
  <1> QED
    BY <1>1, Invariance, PTL

(* A key that calls hold or wait for is one lock object, the map's, so      *)
(* deleting an entry never gives a later caller a lock of its own           *)
(* (set.go:43-54, 63-68).                                               *)
THEOREM OneLockEach == Spec => []OneLockPerKey
  <1>1. Inv => OneLockPerKey
    BY DEF Inv
  <1> QED
    BY <1>1, Invariance, PTL

(* keyLock.holders is the number of calls that hold the lock or wait for it *)
(* and is never nought in the map (set.go:10-11, 53, 64-67).           *)
THEOREM CountsExact == Spec => []HoldersExact
  <1>1. Inv => HoldersExact
    BY DEF Inv
  <1> QED
    BY <1>1, Invariance, PTL

(* Two calls By has returned to named nothing in common, and All returns to *)
(* a caller alone (lock.go:71-84).                                          *)
LEMMA InvInside == Inv => InsideHoldsAll
  <1> SUFFICES ASSUME Inv PROVE InsideHoldsAll
    OBVIOUS
  <1>1. \A p \in Proc : pc[p] = "in" => Locked(p) = want[p]
    BY DEF Inv, StageMatches, StageOf
  <1>2. ASSUME NEW p \in Proc, NEW q \in Proc, p # q, pc[p] = "in", pc[q] = "in"
        PROVE  want[p] \cap want[q] = {}
    <2> SUFFICES ASSUME NEW k \in want[p] \cap want[q] PROVE FALSE
      OBVIOUS
    <2>1. k \in Locked(p) /\ k \in Locked(q)
      BY <1>1, <1>2
    <2>2. ptr[p][k] = ptr[q][k]
      BY <2>1 DEF Inv, OneLockPerKey, Locked, Joined
    <2> QED
      BY <1>2, <2>1, <2>2 DEF Locked
  <1>3. ASSUME NEW p \in Proc, NEW q \in Proc, p # q, pc[p] = "all"
        PROVE  pc[q] \notin {"take", "wait", "in", "all"}
    BY <1>3 DEF Inv, AllMatches, Reading
  <1> QED
    BY <1>1, <1>2, <1>3 DEF InsideHoldsAll

(* A call that By has returned to holds every key it named, and no other    *)
(* call named one of them; none is inside beside All (set.go:31-53).        *)
THEOREM Exclusive == Spec => []InsideHoldsAll
  BY InvInside, Invariance, PTL

(* Once every call has unlocked, nothing is left locked and the map is      *)
(* empty: Idle answers true (set.go:86-97).                               *)
THEOREM LeavesNothing == Spec => []NothingLeftBehind
  <1>1. Inv => NothingLeftBehind
    <2> SUFFICES ASSUME Inv, \A p \in Proc : pc[p] = "idle" PROVE Idle
      BY DEF NothingLeftBehind
    <2>1. readers = {} /\ writer = NoProc
      BY DEF Inv, TypeOK, AllMatches, Reading
    <2>2. ASSUME NEW k \in Key, table[k] # NoLock PROVE FALSE
      <3>1. {p \in Proc : ptr[p][k] = table[k]} = {}
        BY <2>2 DEF Inv, StageMatches, StageOf, Reading, Joined
      <3> QED
        BY <2>2, <3>1, FS_EmptySet DEF Inv, HoldersExact
    <2> QED
      BY <2>1, <2>2 DEF Idle
  <1> QED
    BY <1>1, Invariance, PTL

-----------------------------------------------------------------------------
(* What a caller sees of a call: what it asked for, and whether it has it.  *)
Seen(stage, ks) == <<ModeOf(stage), IF stage \in Asking \cup {"in"} THEN ks ELSE {}>>

(* A step after which every call looks the same is a stutter of MultiLock.  *)
LEMMA Silent ==
  ASSUME \A q \in Proc : Seen(pc'[q], want'[q]) = Seen(pc[q], want[q])
  PROVE  UNCHANGED Abstract!vars
  <1>1. /\ \A q \in Proc : ModeOf(pc'[q]) = ModeOf(pc[q])
        /\ \A q \in Proc : (IF pc'[q] \in Asking \cup {"in"} THEN want'[q] ELSE {})
                        = (IF pc[q] \in Asking \cup {"in"} THEN want[q] ELSE {})
    BY DEF Seen
  <1> HIDE DEF ModeOf, Asking
  <1> QED
    BY <1>1 DEF absMode, absNamed, Abstract!vars

(* Acting on one part at a time, the set implements MultiLock: each step is *)
(* one of its steps or changes nothing a caller sees.                       *)
LEMMA StepImplements == Inv /\ [Next]_vars => [Abstract!Next]_(Abstract!vars)
  <1> SUFFICES ASSUME Inv, [Next]_vars PROVE [Abstract!Next]_(Abstract!vars)
    OBVIOUS
  <1> USE DEF absMode, absNamed, ModeOf, Asking
  <1>1. CASE UNCHANGED vars
    BY <1>1 DEF vars, Abstract!vars
  <1>2. ASSUME NEW p \in Proc, NEW ks \in SUBSET Key, By(p, ks)
        PROVE  Abstract!Ask(p, ks)
    BY <1>2 DEF By, Abstract!Ask, Inv, TypeOK, Stages
  <1>3. ASSUME NEW p \in Proc, Join(p) \/ Acquire(p)
        PROVE  UNCHANGED Abstract!vars
    <2>1. /\ pc[p] \in {"take", "wait"} /\ UNCHANGED want
          /\ \E s \in {"take", "wait"} : pc' = [pc EXCEPT ![p] = s]
      BY <1>3 DEF Join, Acquire
    <2>2. \A q \in Proc : Seen(pc'[q], want'[q]) = Seen(pc[q], want[q])
      BY <2>1 DEF Seen, Inv, TypeOK
    <2> QED
      BY <2>2, Silent
  <1>4. ASSUME NEW p \in Proc, Enter(p)
        PROVE  Abstract!Grant(p)
    <2>1. Inv'
      BY <1>4, EnterInv
    <2>2. InsideHoldsAll' /\ pc'[p] = "in" /\ pc[p] = "take" /\ UNCHANGED want
      <3>1. InsideHoldsAll'
        BY <2>1, InvInside, PTL
      <3> QED
        BY <1>4, <3>1 DEF Enter, Inv, TypeOK
    <2>3. ASSUME NEW q \in Proc \ {p}
          PROVE  /\ absMode[q] # "heldAll"
                 /\ absMode[q] = "held" => absNamed[p] \cap absNamed[q] = {}
      BY <1>4, <2>2, <2>3 DEF Enter, Inv, TypeOK, Stages, InsideHoldsAll
    <2> QED
      BY <1>4, <2>3 DEF Enter, Abstract!Grant, Inv, TypeOK, Stages
  <1>5. ASSUME NEW p \in Proc, Unlock(p)
        PROVE  [Abstract!Next]_(Abstract!vars)
    <2>1. /\ UNCHANGED want
          /\ pc' = [pc EXCEPT ![p] = "drop"]
      BY <1>5 DEF Unlock
    <2>2. CASE pc[p] = "in"
      <3>1. Abstract!Release(p)
        BY <2>1, <2>2 DEF Abstract!Release, Inv, TypeOK, Stages
      <3> QED
        BY <3>1 DEF Abstract!Next
    <2>3. CASE pc[p] = "release"
      <3>1. \A q \in Proc : Seen(pc'[q], want'[q]) = Seen(pc[q], want[q])
        BY <2>1, <2>3 DEF Seen, Inv, TypeOK
      <3> QED
        BY <3>1, Silent
    <2> QED
      BY <1>5, <2>2, <2>3 DEF Unlock
  <1>6. ASSUME NEW p \in Proc, Drop(p)
        PROVE  UNCHANGED Abstract!vars
    <2>1. \A q \in Proc : Seen(pc'[q], want'[q]) = Seen(pc[q], want[q])
      BY <1>6 DEF Drop, Seen, Inv, TypeOK
    <2> QED
      BY <2>1, Silent
  <1>7. ASSUME NEW p \in Proc, RUnlock(p)
        PROVE  [Abstract!Next]_(Abstract!vars)
    <2>1. CASE pc[p] = "in"
      <3>1. Abstract!Release(p)
        BY <1>7, <2>1 DEF RUnlock, Abstract!Release, Inv, TypeOK, Stages
      <3> QED
        BY <3>1 DEF Abstract!Next
    <2>2. CASE pc[p] = "release"
      <3>1. \A q \in Proc : Seen(pc'[q], want'[q]) = Seen(pc[q], want[q])
        BY <1>7, <2>2 DEF RUnlock, Seen, Inv, TypeOK
      <3> QED
        BY <3>1, Silent
    <2> QED
      BY <1>7, <2>1, <2>2 DEF RUnlock
  <1>8. ASSUME NEW p \in Proc, All(p)
        PROVE  Abstract!AskAll(p)
    BY <1>8 DEF All, Abstract!AskAll, Inv, TypeOK, Stages
  <1>9. ASSUME NEW p \in Proc, Announce(p)
        PROVE  UNCHANGED Abstract!vars
    <2>1. \A q \in Proc : Seen(pc'[q], want'[q]) = Seen(pc[q], want[q])
      BY <1>9 DEF Announce, Seen, Inv, TypeOK
    <2> QED
      BY <2>1, Silent
  <1>10. ASSUME NEW p \in Proc, Drained(p)
         PROVE  Abstract!GrantAll(p)
    <2>1. \A q \in Proc \ {p} : pc[q] \notin {"in", "all"}
      BY <1>10 DEF Drained, Inv, AllMatches, Reading
    <2>2. \A q \in Proc \ {p} : absMode[q] \notin {"held", "heldAll"}
      BY <2>1 DEF Inv, TypeOK, Stages
    <2> QED
      BY <1>10, <2>2 DEF Drained, Abstract!GrantAll, Inv, TypeOK, Stages
  <1>11. ASSUME NEW p \in Proc, UnlockAll(p)
         PROVE  Abstract!ReleaseAll(p)
    BY <1>11 DEF UnlockAll, Abstract!ReleaseAll, Inv, TypeOK, Stages
  <1> QED
    BY <1>1, <1>2, <1>3, <1>4, <1>5, <1>6, <1>7, <1>8, <1>9, <1>10, <1>11
       DEF Next, Abstract!Next

(* By and All are as if granted, and given back, at one moment: what the    *)
(* package comment promises of them (MultiLock).                            *)
THEOREM Implements == Spec => GrantsAtOnce
  <1>1. Init => Abstract!Init
    BY DEF Init, Abstract!Init, absMode, absNamed, ModeOf, Asking
  <1> QED
    BY <1>1, StepImplements, Invariance, PTL DEF Spec, GrantsAtOnce, Abstract!Spec

-----------------------------------------------------------------------------
(* A call joins its keys in order: each is beyond every one it has.         *)
Upward == \A p \in Proc :
    /\ pc[p] \in {"take", "wait"} => \A j \in Joined(p), k \in Todo(p) : j < k
    /\ pc[p] = "wait" => \A j \in Locked(p), k \in Joined(p) \ Locked(p) : j < k

(* Nothing is joined at first.                                              *)
LEMMA UpwardInit == Init => Upward
  BY DEF Init, Upward

(* A step of a call that then takes no key keeps the others in order.       *)
LEMMA UpwardKept ==
  ASSUME Inv, Upward, NEW p \in Proc,
         \A q \in Proc \ {p} : UNCHANGED <<want[q], ptr[q]>>,
         \A q \in Proc \ {p} : pc'[q] = "wait" => pc[q] = "wait" /\ Locked(q)' = Locked(q),
         \A q \in Proc \ {p} : pc'[q] = "take" => pc[q] = "take" \/ Joined(q) = {},
         pc'[p] \notin {"take", "wait"}
  PROVE  Upward'
  <1> SUFFICES ASSUME NEW q \in Proc \ {p}
               PROVE  /\ pc'[q] \in {"take", "wait"} => \A j \in Joined(q)', k \in Todo(q)' : j < k
                      /\ pc'[q] = "wait" => \A j \in Locked(q)', k \in (Joined(q) \ Locked(q))' : j < k
    BY DEF Upward
  <1>1. Joined(q)' = Joined(q) /\ Todo(q)' = Todo(q)
    BY DEF Joined, Todo
  <1> QED
    BY <1>1 DEF Upward

(* Every step keeps the order: the next key joined is the least left.       *)
LEMMA UpwardStep == Inv /\ Upward /\ [Next]_vars => Upward'
  <1> SUFFICES ASSUME Inv, Upward, [Next]_vars PROVE Upward'
    OBVIOUS
  <1>1. CASE UNCHANGED vars
    BY <1>1 DEF vars, Upward, Joined, Locked, Todo
  <1>2. ASSUME NEW p \in Proc, NEW ks \in SUBSET Key, By(p, ks) PROVE Upward'
    <2>1. Joined(p)' = {} /\ pc'[p] # "wait"
      BY <1>2 DEF By, Inv, TypeOK, StageMatches, StageOf, Reading, Joined
    <2>2. \A q \in Proc \ {p} : /\ pc'[q] = pc[q]
                                /\ UNCHANGED <<Joined(q), Locked(q), Todo(q)>>
      BY <1>2 DEF By, Inv, TypeOK, Joined, Locked, Todo
    <2> QED
      BY <2>1, <2>2 DEF Upward
  <1>3. ASSUME NEW p \in Proc, Join(p) PROVE Upward'
    <2>1. PICK k \in First(Todo(p)), o \in Lock :
             /\ o # NoLock
             /\ ptr' = [ptr EXCEPT ![p][k] = o]
      BY <1>3, LockAssumption DEF Join
    <2>2. pc[p] = "take" /\ pc' = [pc EXCEPT ![p] = "wait"] /\ UNCHANGED <<want, owner>>
      BY <1>3 DEF Join
    <2>3. k \in Key /\ k \in Todo(p) /\ Joined(p) \subseteq Key /\ Todo(p) \subseteq Key
      BY <2>1 DEF First, Todo, Joined, Inv, TypeOK
    <2>4. Joined(p)' = Joined(p) \cup {k} /\ Todo(p)' = Todo(p) \ {k}
      BY <2>1, <2>2, <2>3 DEF Joined, Todo, Inv, TypeOK
    <2>5. \A j \in Joined(p), i \in Todo(p) : j < i
      BY <2>2 DEF Upward
    <2>6. \A j \in Joined(p)', i \in Todo(p)' : j < i
      BY <2>1, <2>3, <2>4, <2>5, KeyAssumption DEF First
    <2>7. Inv'
      BY <1>3, JoinInv
    <2>8. pc'[p] = "wait" /\ Joined(p) = Locked(p)
      BY <2>2 DEF Inv, TypeOK, StageMatches, StageOf
    <2>9. Locked(p) \subseteq Locked(p)'
      BY <2>1, <2>2, <2>3 DEF Locked, Joined, Todo, Inv, TypeOK
    <2>10. (Joined(p) \ Locked(p))' = {k} /\ Locked(p)' = Joined(p)
      BY <2>3, <2>4, <2>7, <2>8, <2>9 DEF Inv, StageMatches, StageOf, Locked, Todo
    <2>11. \A j \in Locked(p)', i \in (Joined(p) \ Locked(p))' : j < i
      BY <2>3, <2>5, <2>10
    <2>12. \A q \in Proc \ {p} : /\ pc'[q] = pc[q]
                                 /\ UNCHANGED <<Joined(q), Locked(q), Todo(q)>>
      BY <2>1, <2>2 DEF Inv, TypeOK, Joined, Locked, Todo
    <2> QED
      BY <2>6, <2>11, <2>12 DEF Upward
  <1>4. ASSUME NEW p \in Proc, Acquire(p) PROVE Upward'
    <2>1. /\ pc[p] = "wait" /\ pc' = [pc EXCEPT ![p] = "take"]
          /\ UNCHANGED <<want, ptr>>
      BY <1>4 DEF Acquire
    <2>2. PICK k \in Joined(p) \ Locked(p) : owner[ptr[p][k]] = NoProc
                                           /\ owner' = [owner EXCEPT ![ptr[p][k]] = p]
      BY <1>4 DEF Acquire
    <2>3. \A q \in Proc : Joined(q)' = Joined(q) /\ Todo(q)' = Todo(q)
      BY <2>1 DEF Joined, Todo
    <2>4. \A q \in Proc \ {p} : Locked(q)' = Locked(q) /\ pc'[q] = pc[q]
      BY <2>1, <2>2, ProcAssumption DEF Inv, TypeOK, Locked, Joined
    <2> QED
      BY <2>1, <2>3, <2>4 DEF Upward, Inv, TypeOK
  <1>5. ASSUME NEW p \in Proc, Unlock(p) PROVE Upward'
    <2>1. /\ pc' = [pc EXCEPT ![p] = "drop"] /\ UNCHANGED <<want, ptr>>
          /\ \E k \in Last(Locked(p)) : owner' = [owner EXCEPT ![ptr[p][k]] = NoProc]
      BY <1>5 DEF Unlock
    <2>2. \A q \in Proc \ {p} : Locked(q)' = Locked(q)
      BY <2>1, ProcAssumption DEF Inv, TypeOK, Locked, Joined, Last
    <2> QED
      BY <2>1, <2>2, UpwardKept DEF Inv, TypeOK
  <1>6. ASSUME NEW p \in Proc, Drop(p) PROVE Upward'
    <2>1. /\ pc' = [pc EXCEPT ![p] = "release"] /\ UNCHANGED <<want, owner>>
          /\ \E k \in Key : ptr' = [ptr EXCEPT ![p][k] = NoLock]
      BY <1>6 DEF Drop, Joined
    <2>2. \A q \in Proc \ {p} : ptr'[q] = ptr[q] /\ Locked(q)' = Locked(q)
      BY <2>1 DEF Inv, TypeOK, Locked, Joined
    <2> QED
      BY <2>1, <2>2, UpwardKept DEF Inv, TypeOK
  <1>7. ASSUME NEW p \in Proc, RUnlock(p) PROVE Upward'
    <2>1. \A q \in Proc \ {p} : want'[q] = want[q] /\ Locked(q)' = Locked(q)
      BY <1>7 DEF RUnlock, Inv, TypeOK, Locked, Joined
    <2> QED
      BY <1>7, <2>1, UpwardKept DEF RUnlock, Inv, TypeOK
  <1>8. ASSUME NEW p \in Proc, Enter(p) \/ All(p) \/ Announce(p) \/ Drained(p) PROVE Upward'
    <2>1. /\ UNCHANGED <<want, ptr, owner>>
          /\ \E s \in {"in", "wlock", "drain", "all"} : pc' = [pc EXCEPT ![p] = s]
      BY <1>8 DEF Enter, All, Announce, Drained
    <2>2. \A q \in Proc : Locked(q)' = Locked(q)
      BY <2>1 DEF Locked, Joined
    <2> QED
      BY <2>1, <2>2, UpwardKept DEF Inv, TypeOK
  <1>9. ASSUME NEW p \in Proc, UnlockAll(p) PROVE Upward'
    <2>1. \A q \in Proc : Locked(q)' = Locked(q)
      BY <1>9 DEF UnlockAll, Locked, Joined
    <2>2. \A q \in Proc \ {p} : pc'[q] = "take" => pc[q] = "take" \/ Joined(q) = {}
      BY <1>9 DEF UnlockAll, Inv, StageMatches, StageOf, Reading
    <2> QED
      BY <1>9, <2>1, <2>2, UpwardKept DEF UnlockAll, Inv, TypeOK
  <1> QED
    BY <1>1, <1>2, <1>3, <1>4, <1>5, <1>6, <1>7, <1>8, <1>9 DEF Next

(* Callers that wait for keys do not wait in a circle: a circle would have  *)
(* a caller whose key is beyond every other's, and its holder waits for one *)
(* further still.  Writers and the readers they hold back lead to one.      *)
LEMMA InvNoCycle == Inv /\ Upward => NoWaitCycle
  <1> SUFFICES ASSUME Inv, Upward, NEW S \in (SUBSET Proc) \ {{}},
                      \A p \in S : \E q \in S : Blocks(q, p)
               PROVE  FALSE
    BY DEF NoWaitCycle
  <1> DEFINE W == {p \in S : pc[p] = "wait"}
             For(p) == Joined(p) \ Locked(p)
             Above(p) == {q \in W : \E i \in For(p), j \in For(q) : i < j}
             T == {Above(p) : p \in W}
  <1>1. \A p \in S : pc[p] \in {"wait", "parked", "wlock", "drain"}
    BY DEF Blocks
  <1>2. \A q \in S : Joined(q) # {} => q \in W
    BY <1>1 DEF Inv, StageMatches, StageOf, Reading
  <1>3. \A p \in S : pc[p] = "drain" => W # {}
    <2> SUFFICES ASSUME NEW p \in S, pc[p] = "drain" PROVE W # {}
      OBVIOUS
    <2>1. PICK r \in S : r \in readers
      BY DEF Blocks
    <2> QED
      BY <1>1, <2>1 DEF Inv, AllMatches, Reading
  <1>4. W # {}
    <2>1. PICK p \in S : TRUE
      OBVIOUS
    <2>2. CASE pc[p] \in {"parked", "wlock"}
      <3>1. PICK q \in S : writer = q
        BY <2>2 DEF Blocks
      <3>2. pc[q] = "drain"
        BY <1>1, <3>1 DEF Inv, AllMatches
      <3> QED
        BY <1>3, <3>2
    <2> QED
      BY <1>1, <1>3, <2>2
  <1>5. \A p \in W : \E k \in Key : For(p) = {k}
    BY DEF Inv, StageMatches, StageOf, Joined
  <1>6. ASSUME NEW p \in W PROVE \E q \in W : \E i \in For(p), j \in For(q) : i < j
    <2>1. PICK q \in S : \E i \in For(p) : owner[ptr[p][i]] = q
      BY <1>6 DEF Blocks
    <2>2. PICK i \in For(p) : owner[ptr[p][i]] = q
      BY <2>1
    <2>3. i \in Key /\ ptr[p][i] = table[i] /\ table[i] # NoLock /\ ptr[p][i] \in Lock
      BY <2>2, LockAssumption DEF Inv, TypeOK, Joined, OneLockPerKey
    <2>4. PICK k \in Key : ptr[q][k] = table[i]
      BY <2>2, <2>3, ProcAssumption DEF Inv, OwnerJoined
    <2>5. k = i
      BY <2>3, <2>4 DEF Inv, OneLockPerKey, OneKeyPerLock
    <2>6. i \in Locked(q) /\ q \in W
      BY <1>2, <2>2, <2>3, <2>4, <2>5 DEF Locked, Joined
    <2>7. PICK j \in Key : For(q) = {j}
      BY <1>5, <2>6
    <2>8. i < j
      BY <2>6, <2>7 DEF Upward
    <2> QED
      BY <2>2, <2>6, <2>7, <2>8
  <1>7. ASSUME NEW p \in W, NEW q \in W, NEW i \in For(p), NEW j \in For(q), i < j
        PROVE  Above(q) \subseteq Above(p) /\ Above(q) # Above(p)
    <2>1. For(p) = {i} /\ For(q) = {j} /\ i \in Nat /\ j \in Nat
      BY <1>5, <1>7, KeyAssumption
    <2>2. \A r \in W : \A k \in For(r) : k \in Nat
      BY <1>5, KeyAssumption
    <2>3. q \in Above(p) /\ q \notin Above(q)
      BY <1>7, <2>1
    <2>4. Above(q) \subseteq Above(p)
      BY <1>7, <2>1, <2>2
    <2> QED
      BY <2>3, <2>4
  <1>8. T # {} /\ T \subseteq FiniteSubsetsOf(Proc)
    <2>1. \A p \in W : Above(p) \in SUBSET Proc
      OBVIOUS
    <2>2. \A U \in SUBSET Proc : IsFiniteSet(U)
      BY ProcAssumption, FS_Subset
    <2>3. \A p \in W : Above(p) \in FiniteSubsetsOf(Proc)
      BY <2>1, <2>2 DEF FiniteSubsetsOf
    <2>4. T # {}
      <3>1. PICK p \in W : TRUE
        BY <1>4
      <3>2. Above(p) \in T
        BY <3>1
      <3> QED
        BY <3>2
    <2>5. T \subseteq FiniteSubsetsOf(Proc)
      <3> HIDE DEF Above, W
      <3> QED
        BY <2>3
    <2> QED
      BY <2>4, <2>5
  <1>9. PICK U \in T : \A V \in T : <<V, U>> \notin StrictSubsetOrdering(Proc)
    <2>1. IsWellFoundedOn(StrictSubsetOrdering(Proc), FiniteSubsetsOf(Proc))
      BY FS_StrictSubsetOrderingWellFounded
    <2> HIDE DEF T
    <2> QED
      BY <1>8, <2>1, WFMin
  <1>10. PICK p \in W : U = Above(p)
    OBVIOUS
  <1>11. PICK q \in W : \E i \in For(p), j \in For(q) : i < j
    BY <1>6
  <1>12. Above(q) \subseteq Above(p) /\ Above(q) # Above(p)
    BY <1>7, <1>11
  <1>13. <<Above(q), Above(p)>> \in StrictSubsetOrdering(Proc)
    BY <1>12 DEF StrictSubsetOrdering
  <1> QED
    BY <1>9, <1>10, <1>13

(* No set of calls, however many and whatever they named, wait on each      *)
(* other for ever (lock.go:13-15, 71-72; set.go:36-39).                   *)
THEOREM NeverInACircle == Spec => []NoWaitCycle
  <1>1. Spec => [](Inv /\ Upward)
    BY InitInv, StepInv, UpwardInit, UpwardStep, PTL DEF Spec
  <1> QED
    BY <1>1, InvNoCycle, PTL
=============================================================================
