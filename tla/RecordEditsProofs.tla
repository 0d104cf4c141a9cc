------------------------- MODULE RecordEditsProofs -------------------------
(***************************************************************************)
(* Proofs about RecordEdits, for any number of calls, records, names and   *)
(* fields.  Fits says what a call's stage implies of what it has found,    *)
(* read and locked; it holds whatever the calls ask.  Calm names what the  *)
(* handlers do not guard against: under it, an edit's copy is current when *)
(* it is sent, and every call acts at one moment.                          *)
(***************************************************************************)
EXTENDS RecordEdits, TLAPS

(* What each stage of a call implies.                                       *)
FitsOne(c) ==
    /\ pc[c] # "new" => asks[c] \in Request
    /\ pc[c] = "new" => asks[c] = NoRequest /\ at[c] = Unborn
    /\ c \in late => pc[c] = "failed"
    /\ pc[c] \in {"new", "find"} => target[c] = Unborn /\ mode[c] = "idle"
    /\ pc[c] \in {"lock", "held"} => asks[c].op \in {"edit", "delete", "alone"}
    /\ pc[c] = "held" => asks[c].op = "edit"
    /\ pc[c] = "second" => asks[c].op = "forcedAdd"
    /\ pc[c] \in {"write", "second"} \/ c \in late
          => (asks[c].op \in {"add", "forcedAdd"} => asks[c].name \in Name)
    /\ pc[c] = "write" /\ asks[c].op = "forcedAdd" => at[c] = Unborn
    /\ pc[c] = "write" /\ asks[c].op = "delete" => asks[c].confirm
    /\ pc[c] = "write" \/ c \in late => (asks[c].op = "edit" => copy[c] \in Record)
    /\ pc[c] = "second" => copy[c] \in Record
    /\ c \in late /\ asks[c].op = "forcedAdd" => at[c] = Unborn \/ copy[c] \in Record
    /\ pc[c] \in {"lock", "held", "write"} /\ asks[c].op \in {"edit", "delete"}
          => target[c] \in Id
    /\ pc[c] \in {"lock", "write"} /\ asks[c].op = "delete" => at[c] = target[c]
    /\ pc[c] = "lock" /\ asks[c].op \in {"edit", "delete"}
          => mode[c] = "asked" /\ named[c] = {target[c]}
    /\ pc[c] = "write" /\ asks[c].op = "delete" /\ kind = "profile" => mode[c] = "held"
    /\ pc[c] \in {"held", "write"} /\ asks[c].op = "edit"
          => mode[c] = "held" /\ named[c] = {target[c]}
    /\ pc[c] = "lock" /\ asks[c].op = "alone" => mode[c] = "askedAll"
    /\ pc[c] = "write" /\ asks[c].op = "alone" => mode[c] = "heldAll"

Fits == \A c \in Call : FitsOne(c)

Inv == TypeOK /\ Locks!Exclusion /\ Fits

-----------------------------------------------------------------------------
(* What a record becomes is a record.                                       *)
LEMMA FilledRecord ==
    ASSUME NEW c \in Call, NEW rq \in Request, NEW r \in Record
    PROVE  Filled(c, rq, r) \in Record
BY RequestAssumption DEF Filled, Record

(* So is what an add makes.                                                 *)
LEMMA NewRecord ==
    ASSUME NEW c \in Call, NEW rq \in Request, NEW off, rq.name \in Name
    PROVE  New(c, rq, off) \in Record
BY RequestAssumption DEF New, Record

(* No name is an absence or an id's lack.                                   *)
LEMMA Distinct ==
    /\ Unborn \notin Id /\ Gone \notin Id /\ Unborn \notin Record /\ Gone \notin Record
    /\ NoRequest \notin Request
BY AbsentAssumption, RequestAssumption DEF Absent

(* The locks: whatever a call asks of them or gives back, those it shares   *)
(* with nobody stay its own, and nobody else's change.                      *)
LockMove(c) ==
    \/ \E ks \in SUBSET Id : Locks!Ask(c, ks)
    \/ Locks!Grant(c) \/ Locks!Release(c)
    \/ Locks!AskAll(c) \/ Locks!GrantAll(c) \/ Locks!ReleaseAll(c)
    \/ UNCHANGED <<mode, named>>

(* A move of one call keeps the locks apart, and the others' as they are.   *)
LEMMA LocksStep ==
    ASSUME NEW c \in Call, Locks!TypeOK, Locks!Exclusion, LockMove(c)
    PROVE  /\ Locks!TypeOK'
           /\ Locks!Exclusion'
           /\ \A d \in Call \ {c} : mode'[d] = mode[d] /\ named'[d] = named[d]
<1> USE DEF Locks!TypeOK, Locks!Exclusion, Locks!Modes
<1>1. CASE \E ks \in SUBSET Id : Locks!Ask(c, ks)  BY <1>1 DEF Locks!Ask
<1>2. CASE Locks!Grant(c)                          BY <1>2 DEF Locks!Grant
<1>3. CASE Locks!Release(c)                        BY <1>3 DEF Locks!Release
<1>4. CASE Locks!AskAll(c)                         BY <1>4 DEF Locks!AskAll
<1>5. CASE Locks!GrantAll(c)                       BY <1>5 DEF Locks!GrantAll
<1>6. CASE Locks!ReleaseAll(c)                     BY <1>6 DEF Locks!ReleaseAll
<1>7. CASE UNCHANGED <<mode, named>>               BY <1>7
<1>8. QED  BY <1>1, <1>2, <1>3, <1>4, <1>5, <1>6, <1>7 DEF LockMove

(* A step leaves the other calls as they were, and so what Fits says of     *)
(* them.                                                                    *)
SameFor(d) == /\ pc'[d] = pc[d] /\ asks'[d] = asks[d] /\ target'[d] = target[d]
              /\ at'[d] = at[d] /\ copy'[d] = copy[d]
              /\ mode'[d] = mode[d] /\ named'[d] = named[d]
              /\ d \in late' => d \in late
              /\ kind' = kind

Frame(c) == \A d \in Call \ {c} : SameFor(d)

(* What Fits says of the calls a step leaves alone, it still says.          *)
LEMMA OthersFit ==
    ASSUME NEW c \in Call, Fits, Frame(c)
    PROVE  \A d \in Call \ {c} : FitsOne(d)'
BY DEF Fits, FitsOne, Frame, SameFor

-----------------------------------------------------------------------------
(* Calls that have not begun fit.                                           *)
LEMMA InitInv == Init => Inv
<1> SUFFICES ASSUME Init PROVE Inv
  OBVIOUS
<1> USE Distinct DEF Init, Locks!Init
<1>1. TypeOK
  BY KindAssumption, \A n \in Name : [name |-> n, val |-> [f \in Field |-> Base]] \in Record
     DEF TypeOK, Sends, Stages, Locks!TypeOK, Locks!Modes, Record, Absent
<1>2. Locks!Exclusion /\ Fits
  BY DEF Locks!Exclusion, Fits, FitsOne
<1> QED
  BY <1>1, <1>2 DEF Inv

(* One lemma per action: a call begins ...                                  *)
LEMMA BeginInv ==
    ASSUME Inv, NEW c \in Call, NEW rq \in Request, Begin(c, rq)
    PROVE  Inv' /\ Frame(c)
<1> USE Distinct DEF Inv, Begin, Step
<1>1. TypeOK'
  BY DEF TypeOK, Sends, Stages, Locks!TypeOK, Fits, FitsOne
<1>2. Locks!Exclusion'
  BY DEF Locks!Exclusion
<1>3. Frame(c)
  BY DEF Frame, SameFor, TypeOK
<1>4. FitsOne(c)'
  BY RequestAssumption DEF FitsOne, Fits, TypeOK, Ops
<1> QED
  BY <1>1, <1>2, <1>3, <1>4, OthersFit DEF Fits

(* ... finds what it is to edit ...                                         *)
LEMMA FindEditInv ==
    ASSUME Inv, NEW c \in Call, FindEdit(c)
    PROVE  Inv' /\ Frame(c)
<1> USE Distinct DEF Inv, FindEdit, Step
<1>1. LockMove(c)
  BY DEF LockMove, Found
<1>2. /\ Locks!TypeOK' /\ Locks!Exclusion'
      /\ \A d \in Call \ {c} : mode'[d] = mode[d] /\ named'[d] = named[d]
  BY <1>1, LocksStep DEF TypeOK
<1>3. TypeOK'
  BY <1>2 DEF TypeOK, Sends, Stages, Fits, FitsOne, Found
<1>4. Frame(c)
  BY <1>2 DEF Frame, SameFor, TypeOK
<1>5. FitsOne(c)'
  BY <1>2 DEF FitsOne, Fits, TypeOK, Locks!TypeOK, Locks!Ask, Locks!Grant, Locks!GrantAll,
              Locks!Release, Locks!AskAll, Found, Matches
<1> QED
  BY <1>2, <1>3, <1>4, <1>5, OthersFit DEF Fits

(* ... finds what it is to delete ...                                       *)
LEMMA FindDeleteInv ==
    ASSUME Inv, NEW c \in Call, FindDelete(c)
    PROVE  Inv' /\ Frame(c)
<1> USE Distinct DEF Inv, FindDelete, Step
<1>1. LockMove(c)
  BY DEF LockMove, Found
<1>2. /\ Locks!TypeOK' /\ Locks!Exclusion'
      /\ \A d \in Call \ {c} : mode'[d] = mode[d] /\ named'[d] = named[d]
  BY <1>1, LocksStep DEF TypeOK
<1>3. TypeOK'
  BY <1>2 DEF TypeOK, Sends, Stages, Fits, FitsOne, Found
<1>4. Frame(c)
  BY <1>2 DEF Frame, SameFor, TypeOK
<1>5. FitsOne(c)'
  BY <1>2 DEF FitsOne, Fits, TypeOK, Locks!TypeOK, Locks!Ask, Locks!Grant, Locks!GrantAll,
              Locks!Release, Locks!AskAll, Found, Matches
<1> QED
  BY <1>2, <1>3, <1>4, <1>5, OthersFit DEF Fits

(* ... answers what would go ...                                            *)
LEMMA FindKeptInv ==
    ASSUME Inv, NEW c \in Call, FindKept(c)
    PROVE  Inv' /\ Frame(c)
<1> USE Distinct DEF Inv, FindKept, Step
<1>1. TypeOK'
  BY DEF TypeOK, Sends, Stages, Locks!TypeOK, Fits, FitsOne
<1>2. Locks!Exclusion'
  BY DEF Locks!Exclusion
<1>3. Frame(c)
  BY DEF Frame, SameFor, TypeOK
<1>4. FitsOne(c)'
  BY DEF FitsOne, Fits, TypeOK
<1> QED
  BY <1>1, <1>2, <1>3, <1>4, OthersFit DEF Fits

(* ... ends with an error ...                                               *)
LEMMA FindNothingInv ==
    ASSUME Inv, NEW c \in Call, FindNothing(c)
    PROVE  Inv' /\ Frame(c)
<1> USE Distinct DEF Inv, FindNothing, Step
<1>1. TypeOK'
  BY DEF TypeOK, Sends, Stages, Locks!TypeOK, Fits, FitsOne
<1>2. Locks!Exclusion'
  BY DEF Locks!Exclusion
<1>3. Frame(c)
  BY DEF Frame, SameFor, TypeOK
<1>4. FitsOne(c)'
  BY DEF FitsOne, Fits, TypeOK
<1> QED
  BY <1>1, <1>2, <1>3, <1>4, OthersFit DEF Fits

(* ... asks for every lock ...                                              *)
LEMMA FindAloneInv ==
    ASSUME Inv, NEW c \in Call, FindAlone(c)
    PROVE  Inv' /\ Frame(c)
<1> USE Distinct DEF Inv, FindAlone, Step
<1>1. LockMove(c)
  BY DEF LockMove
<1>2. /\ Locks!TypeOK' /\ Locks!Exclusion'
      /\ \A d \in Call \ {c} : mode'[d] = mode[d] /\ named'[d] = named[d]
  BY <1>1, LocksStep DEF TypeOK
<1>3. TypeOK'
  BY <1>2 DEF TypeOK, Sends, Stages, Fits, FitsOne
<1>4. Frame(c)
  BY <1>2 DEF Frame, SameFor, TypeOK
<1>5. FitsOne(c)'
  BY <1>2 DEF FitsOne, Fits, TypeOK, Locks!TypeOK, Locks!Ask, Locks!Grant, Locks!GrantAll,
              Locks!Release, Locks!AskAll, Found, Matches
<1> QED
  BY <1>2, <1>3, <1>4, <1>5, OthersFit DEF Fits

(* ... is granted its locks ...                                             *)
LEMMA LockedInv ==
    ASSUME Inv, NEW c \in Call, Locked(c)
    PROVE  Inv' /\ Frame(c)
<1> USE Distinct DEF Inv, Locked, Step
<1>1. LockMove(c)
  BY DEF LockMove
<1>2. /\ Locks!TypeOK' /\ Locks!Exclusion'
      /\ \A d \in Call \ {c} : mode'[d] = mode[d] /\ named'[d] = named[d]
  BY <1>1, LocksStep DEF TypeOK
<1>3. TypeOK'
  BY <1>2 DEF TypeOK, Sends, Stages, Fits, FitsOne
<1>4. Frame(c)
  BY <1>2 DEF Frame, SameFor, TypeOK
<1>5. FitsOne(c)'
  BY <1>2 DEF FitsOne, Fits, TypeOK, Locks!TypeOK, Locks!Ask, Locks!Grant, Locks!GrantAll,
              Locks!Release, Locks!AskAll, Found, Matches
<1> QED
  BY <1>2, <1>3, <1>4, <1>5, OthersFit DEF Fits

(* ... reads its record again ...                                           *)
LEMMA ReadInv ==
    ASSUME Inv, NEW c \in Call, Read(c)
    PROVE  Inv' /\ Frame(c)
<1> USE Distinct DEF Inv, Read, Step
<1>1. TypeOK'
  BY FilledRecord DEF TypeOK, Sends, Stages, Locks!TypeOK, Fits, FitsOne, ReadAgain, Found, Matches
<1>2. Locks!Exclusion'
  BY DEF Locks!Exclusion
<1>3. Frame(c)
  BY DEF Frame, SameFor, TypeOK
<1>4. FitsOne(c)'
  BY FilledRecord DEF FitsOne, Fits, TypeOK, ReadAgain, Found, Matches
<1> QED
  BY <1>1, <1>2, <1>3, <1>4, OthersFit DEF Fits

(* ... or does not find it ...                                              *)
LEMMA ReadNothingInv ==
    ASSUME Inv, NEW c \in Call, ReadNothing(c)
    PROVE  Inv' /\ Frame(c)
<1> USE Distinct DEF Inv, ReadNothing, Step
<1>1. LockMove(c)
  BY DEF LockMove
<1>2. /\ Locks!TypeOK' /\ Locks!Exclusion'
      /\ \A d \in Call \ {c} : mode'[d] = mode[d] /\ named'[d] = named[d]
  BY <1>1, LocksStep DEF TypeOK
<1>3. TypeOK'
  BY <1>2 DEF TypeOK, Sends, Stages, Fits, FitsOne
<1>4. Frame(c)
  BY <1>2 DEF Frame, SameFor, TypeOK
<1>5. FitsOne(c)'
  BY <1>2 DEF FitsOne, Fits, TypeOK, Locks!TypeOK, Locks!Ask, Locks!Grant, Locks!GrantAll,
              Locks!Release, Locks!AskAll, Found, Matches
<1> QED
  BY <1>2, <1>3, <1>4, <1>5, OthersFit DEF Fits

(* ... its record is replaced ...                                           *)
LEMMA LandEditInv ==
    ASSUME Inv, NEW c \in Call, LandEdit(c)
    PROVE  Inv' /\ Frame(c)
<1> USE Distinct DEF Inv, LandEdit, Step
<1>1. TypeOK'
  BY DEF TypeOK, Sends, Stages, Locks!TypeOK, Fits, FitsOne, Put
<1>2. Locks!Exclusion'
  BY DEF Locks!Exclusion
<1>3. Frame(c)
  BY DEF Frame, SameFor, TypeOK
<1>4. FitsOne(c)'
  BY DEF FitsOne, Fits, TypeOK
<1> QED
  BY <1>1, <1>2, <1>3, <1>4, OthersFit DEF Fits

(* ... a record is deleted ...                                              *)
LEMMA LandDeleteInv ==
    ASSUME Inv, NEW c \in Call, LandDelete(c)
    PROVE  Inv' /\ Frame(c)
<1> USE Distinct DEF Inv, LandDelete, Step
<1>1. TypeOK'
  BY DEF TypeOK, Sends, Stages, Locks!TypeOK, Fits, FitsOne, Remove, Absent
<1>2. Locks!Exclusion'
  BY DEF Locks!Exclusion
<1>3. Frame(c)
  BY DEF Frame, SameFor, TypeOK
<1>4. FitsOne(c)'
  BY DEF FitsOne, Fits, TypeOK
<1> QED
  BY <1>1, <1>2, <1>3, <1>4, OthersFit DEF Fits

(* ... or added ...                                                         *)
LEMMA LandAddInv ==
    ASSUME Inv, NEW c \in Call, LandAdd(c)
    PROVE  Inv' /\ Frame(c)
<1> USE Distinct DEF Inv, LandAdd, Step
<1>1. TypeOK'
  BY NewRecord DEF TypeOK, Sends, Stages, Locks!TypeOK, Fits, FitsOne, Make
<1>2. Locks!Exclusion'
  BY DEF Locks!Exclusion
<1>3. Frame(c)
  BY DEF Frame, SameFor, TypeOK
<1>4. FitsOne(c)'
  BY NewRecord DEF FitsOne, Fits, TypeOK, Make
<1> QED
  BY <1>1, <1>2, <1>3, <1>4, OthersFit DEF Fits

(* ... or added switched off ...                                            *)
LEMMA LandForcedInv ==
    ASSUME Inv, NEW c \in Call, LandForced(c)
    PROVE  Inv' /\ Frame(c)
<1> USE Distinct DEF Inv, LandForced, Step
<1>1. TypeOK'
  BY NewRecord DEF TypeOK, Sends, Stages, Locks!TypeOK, Fits, FitsOne, Make
<1>2. Locks!Exclusion'
  BY DEF Locks!Exclusion
<1>3. Frame(c)
  BY DEF Frame, SameFor, TypeOK
<1>4. FitsOne(c)'
  BY NewRecord DEF FitsOne, Fits, TypeOK, Make
<1> QED
  BY <1>1, <1>2, <1>3, <1>4, OthersFit DEF Fits

(* ... and sent again ...                                                   *)
LEMMA LandSecondInv ==
    ASSUME Inv, NEW c \in Call, LandSecond(c)
    PROVE  Inv' /\ Frame(c)
<1> USE Distinct DEF Inv, LandSecond, Step
<1>1. TypeOK'
  BY DEF TypeOK, Sends, Stages, Locks!TypeOK, Fits, FitsOne, Put
<1>2. Locks!Exclusion'
  BY DEF Locks!Exclusion
<1>3. Frame(c)
  BY DEF Frame, SameFor, TypeOK
<1>4. FitsOne(c)'
  BY DEF FitsOne, Fits, TypeOK
<1> QED
  BY <1>1, <1>2, <1>3, <1>4, OthersFit DEF Fits

(* ... a restore or a stop is taken ...                                     *)
LEMMA LandAloneInv ==
    ASSUME Inv, NEW c \in Call, LandAlone(c)
    PROVE  Inv' /\ Frame(c)
<1> USE Distinct DEF Inv, LandAlone, Step
<1>1. TypeOK'
  BY DEF TypeOK, Sends, Stages, Locks!TypeOK, Fits, FitsOne
<1>2. Locks!Exclusion'
  BY DEF Locks!Exclusion
<1>3. Frame(c)
  BY DEF Frame, SameFor, TypeOK
<1>4. FitsOne(c)'
  BY DEF FitsOne, Fits, TypeOK
<1> QED
  BY <1>1, <1>2, <1>3, <1>4, OthersFit DEF Fits

(* ... a write is refused ...                                               *)
LEMMA RefusedInv ==
    ASSUME Inv, NEW c \in Call, Refused(c)
    PROVE  Inv' /\ Frame(c)
<1> USE Distinct DEF Inv, Refused, Step
<1>1. TypeOK'
  BY DEF TypeOK, Sends, Stages, Locks!TypeOK, Fits, FitsOne
<1>2. Locks!Exclusion'
  BY DEF Locks!Exclusion
<1>3. Frame(c)
  BY DEF Frame, SameFor, TypeOK
<1>4. FitsOne(c)'
  BY DEF FitsOne, Fits, TypeOK
<1> QED
  BY <1>1, <1>2, <1>3, <1>4, OthersFit DEF Fits

(* ... the call is answered ...                                             *)
LEMMA AnswerInv ==
    ASSUME Inv, NEW c \in Call, Answer(c)
    PROVE  Inv' /\ Frame(c)
<1> USE Distinct DEF Inv, Answer, Step
<1>1. LockMove(c)
  BY DEF LockMove, Unlock
<1>2. /\ Locks!TypeOK' /\ Locks!Exclusion'
      /\ \A d \in Call \ {c} : mode'[d] = mode[d] /\ named'[d] = named[d]
  BY <1>1, LocksStep DEF TypeOK
<1>3. TypeOK'
  BY <1>2 DEF TypeOK, Sends, Stages, Fits, FitsOne
<1>4. Frame(c)
  BY <1>2 DEF Frame, SameFor, TypeOK
<1>5. FitsOne(c)'
  BY <1>2 DEF FitsOne, Fits, TypeOK, Locks!TypeOK, Locks!Ask, Locks!Grant, Locks!GrantAll,
              Locks!Release, Locks!AskAll, Found, Matches
<1> QED
  BY <1>2, <1>3, <1>4, <1>5, OthersFit DEF Fits

(* ... it gives up, its write unanswered ...                                *)
LEMMA GiveUpInv ==
    ASSUME Inv, NEW c \in Call, GiveUp(c)
    PROVE  Inv' /\ Frame(c)
<1> USE Distinct DEF Inv, GiveUp, Step
<1>1. LockMove(c)
  BY DEF LockMove, Unlock
<1>2. /\ Locks!TypeOK' /\ Locks!Exclusion'
      /\ \A d \in Call \ {c} : mode'[d] = mode[d] /\ named'[d] = named[d]
  BY <1>1, LocksStep DEF TypeOK
<1>3. TypeOK'
  BY <1>2 DEF TypeOK, Sends, Stages, Fits, FitsOne
<1>4. Frame(c)
  BY <1>2 DEF Frame, SameFor, TypeOK
<1>5. /\ asks[c] \in Request
      /\ asks[c].op \in {"add", "forcedAdd"} => asks[c].name \in Name
      /\ asks[c].op = "edit" => copy[c] \in Record
      /\ asks[c].op = "forcedAdd" => at[c] = Unborn \/ copy[c] \in Record
  BY DEF FitsOne, Fits
<1>6. pc'[c] = "failed" /\ UNCHANGED <<asks, at, copy>>
  BY DEF TypeOK
<1>7. FitsOne(c)'
  BY <1>5, <1>6 DEF FitsOne
<1> QED
  BY <1>2, <1>3, <1>4, <1>7, OthersFit DEF Fits

(* ... and its write lands late: what is made or replaced is a record's.    *)
LEMMA LateStore ==
    ASSUME Inv, NEW c \in Call, LandLate(c)
    PROVE  store' \in [Id -> Record \cup Absent]
<1> USE Distinct DEF Inv, TypeOK
<1>1. c \in late /\ pc[c] = "failed" /\ asks[c] \in Request
  BY DEF LandLate, Fits, FitsOne
<1>2. CASE asks[c].op \in {"edit", "delete"}
  <2>1. at[c] \in Id /\ (asks[c].op = "edit" => copy[c] \in Record)
    BY <1>1, <1>2 DEF Sends, Fits, FitsOne
  <2> QED
    BY <1>2, <2>1 DEF LandLate, Put, Remove, Absent
<1>3. CASE asks[c].op \in {"add", "forcedAdd"}
  <2>1. asks[c].name \in Name
    BY <1>1, <1>3 DEF Fits, FitsOne
  <2>2. \A off : New(c, asks[c], off) \in Record
    BY <1>1, <2>1, NewRecord
  <2>3. at[c] = Unborn \/ asks[c].op = "add" \/ copy[c] \in Record
    BY <1>1, <1>3 DEF Fits, FitsOne
  <2> QED
    BY <1>3, <2>2, <2>3 DEF LandLate, Make, Put
<1>4. CASE asks[c].op = "alone"
  BY <1>4 DEF LandLate
<1> QED
  BY <1>1, <1>2, <1>3, <1>4, RequestAssumption DEF Ops

(* ... so the calls still fit.                                              *)
LEMMA LandLateInv ==
    ASSUME Inv, NEW c \in Call, LandLate(c)
    PROVE  Inv' /\ Frame(c)
<1> USE Distinct DEF Inv
<1>1. UNCHANGED <<kind, pc, asks, target, at, copy, mode, named>> /\ late' = late \ {c}
  BY DEF LandLate
<1>2. TypeOK'
  BY <1>1, LateStore DEF TypeOK, Sends, Locks!TypeOK
<1>3. Locks!Exclusion'
  BY <1>1 DEF Locks!Exclusion
<1>4. Frame(c) /\ FitsOne(c)'
  BY <1>1 DEF Frame, SameFor, FitsOne, Fits
<1> QED
  BY <1>2, <1>3, <1>4, OthersFit DEF Fits

-----------------------------------------------------------------------------
(* Every step is one call's, and is one of the actions above.               *)
Moves(c) == (\E rq \in Request : Begin(c, rq)) \/ Steps(c) \/ GiveUp(c) \/ LandLate(c)

(* So does every move of one call, and so every step.                       *)
LEMMA MoveInv ==
    ASSUME Inv, NEW c \in Call, Moves(c)
    PROVE  Inv' /\ Frame(c)
BY BeginInv, FindEditInv, FindDeleteInv, FindAloneInv, FindKeptInv, FindNothingInv, LockedInv,
   ReadInv, ReadNothingInv, LandEditInv, LandDeleteInv, LandAddInv, LandForcedInv,
   LandSecondInv, LandAloneInv, RefusedInv, AnswerInv, GiveUpInv, LandLateInv
   DEF Moves, Steps

(* Every step keeps the invariant.                                          *)
LEMMA StepInv == Inv /\ [Next]_vars => Inv'
<1> SUFFICES ASSUME Inv, [Next]_vars PROVE Inv'
  OBVIOUS
<1>1. CASE \E c \in Call : Moves(c)
  BY <1>1, MoveInv
<1>2. CASE UNCHANGED vars
  BY <1>2 DEF vars, Inv, TypeOK, Sends, Locks!TypeOK, Locks!Exclusion, Fits, FitsOne
<1> QED
  BY <1>1, <1>2 DEF Next, Moves

(* Every state has it: what each stage implies holds whatever is asked.     *)
THEOREM Invariance == Spec => []Inv
<1> QED
  BY InitInv, StepInv, PTL DEF Spec

(* Whatever the calls ask and however they overlap, each stage has what it  *)
(* needs: no write is sent without the id of its record.                    *)
THEOREM TypeCorrect == Spec => []TypeOK
<1>1. Inv => TypeOK
  BY DEF Inv
<1> QED
  BY <1>1, Invariance, PTL

(* "Nothing else may write while the database is swapped out from under it" *)
(* (admin.go:116): until a restore or a stop is answered or given up on,    *)
(* nothing is carried out beside it but the writes of calls that lock       *)
(* nothing and those given up on before, whatever the calls ask and however *)
(* many of them outlive their calls.                                        *)
THEOREM LockedStayClear == Spec => LockedKeepClear
<1> DEFINE Clear == (\E a \in Call : Alone(a)) =>
                       \/ UNCHANGED store
                       \/ \E c \in Call : \/ LocksNothing(c) /\ pc'[c] # pc[c]
                                          \/ c \in late /\ c \notin late'
<1>1. Inv /\ [Next]_vars => Clear
  <2> SUFFICES ASSUME Inv, [Next]_vars, NEW a \in Call, Alone(a) PROVE Clear
    OBVIOUS
  <2> USE DEF Inv
  <2>1. \A c \in Call : mode[c] # "held"
    BY DEF Alone, Fits, FitsOne, Locks!Exclusion
  <2>2. ASSUME NEW c \in Call, Steps(c) PROVE Clear
    <3>1. CASE LandEdit(c)
      BY <2>1, <3>1 DEF LandEdit, Step, Fits, FitsOne
    <3>2. CASE LandDelete(c)
      <4>1. pc[c] = "write" /\ asks[c].op = "delete" /\ pc'[c] # pc[c]
        BY <3>2 DEF LandDelete, Step, TypeOK
      <4>2. asks[c] # NoRequest /\ kind # "profile"
        BY <2>1, <4>1, Distinct DEF Fits, FitsOne
      <4> QED
        BY <4>1, <4>2 DEF LocksNothing
    <3>3. CASE LandAdd(c) \/ LandForced(c) \/ LandSecond(c)
      <4>1. asks[c] # NoRequest /\ asks[c].op \in {"add", "forcedAdd"} /\ pc'[c] # pc[c]
        BY <3>3, Distinct DEF LandAdd, LandForced, LandSecond, Step, TypeOK, Fits, FitsOne
      <4> QED
        BY <4>1 DEF LocksNothing
    <3>4. CASE UNCHANGED store
      BY <3>4
    <3> QED
      BY <2>2, <3>1, <3>2, <3>3, <3>4
         DEF Steps, FindEdit, FindDelete, FindAlone, FindKept, FindNothing, Locked, Read,
             ReadNothing, LandAlone, Refused, Answer
  <2>3. ASSUME NEW c \in Call, LandLate(c) PROVE Clear
    BY <2>3 DEF LandLate
  <2>4. CASE UNCHANGED store
    BY <2>4
  <2> QED
    BY <2>2, <2>3, <2>4 DEF Next, Begin, GiveUp, vars
<1> HIDE DEF Clear
<1>2. Spec => [][Clear]_vars
  BY <1>1, Invariance, PTL DEF Spec
<1> QED
  BY <1>2 DEF LockedKeepClear, Clear

-----------------------------------------------------------------------------
(* No record's name spells an id.  Then what is read again by its id is the *)
(* record that was found.                                                   *)
Apart == Name \cap Id = {}

(* What is read again is what was found (records.go:467).                   *)
LEMMA ReadsItsOwn ==
    ASSUME Apart, TypeOK, NEW i \in Id, NEW j \in ReadAgain(i)
    PROVE  j = i
BY DEF Apart, ReadAgain, Found, Matches, TypeOK, Record, Absent

(* So a step leaves each edit writing to what it locked.                    *)
LEMMA OwnStep ==
    ASSUME Apart, Inv, WritesWhatItLocked, NEW c \in Call, Moves(c)
    PROVE  WritesWhatItLocked'
<1> USE DEF WritesWhatItLocked
<1>1. \A d \in Call \ {c} : (pc[d] = "write" /\ asks[d].op = "edit" => at[d] = target[d])'
  BY MoveInv DEF Frame, SameFor
<1>2. (pc[c] = "write" /\ asks[c].op = "edit" => at[c] = target[c])'
  <2>1. CASE Read(c)
    BY <2>1, ReadsItsOwn DEF Read, Step, Inv, Fits, FitsOne, TypeOK
  <2>2. CASE \E rq \in Request : Begin(c, rq)
    BY <2>2, RequestAssumption DEF Begin, Step, Inv, TypeOK
  <2>3. CASE FindEdit(c) \/ FindDelete(c) \/ FindAlone(c) \/ FindKept(c) \/ FindNothing(c)
    BY <2>3 DEF FindEdit, FindDelete, FindAlone, FindKept, FindNothing, Step, Inv, TypeOK
  <2>4. CASE Locked(c) \/ ReadNothing(c) \/ GiveUp(c) \/ LandLate(c)
    BY <2>4 DEF Locked, ReadNothing, GiveUp, LandLate, Step, Inv, TypeOK
  <2>5. CASE LandEdit(c) \/ LandDelete(c) \/ LandAdd(c) \/ LandForced(c) \/ LandSecond(c) \/ LandAlone(c)
    BY <2>5 DEF LandEdit, LandDelete, LandAdd, LandForced, LandSecond, LandAlone, Step, Inv, TypeOK
  <2>6. CASE Refused(c) \/ Answer(c)
    BY <2>6 DEF Refused, Answer, Step, Inv, TypeOK
  <2> QED
    BY <2>1, <2>2, <2>3, <2>4, <2>5, <2>6 DEF Moves, Steps
<1> QED
  BY <1>1, <1>2

(* And so does every behaviour.                                             *)
LEMMA OwnInvariance == ASSUME Apart PROVE Spec => [](Inv /\ WritesWhatItLocked)
<1>1. Init => Inv /\ WritesWhatItLocked
  BY InitInv DEF Init, WritesWhatItLocked
<1>2. Inv /\ WritesWhatItLocked /\ [Next]_vars => (Inv /\ WritesWhatItLocked)'
  <2> SUFFICES ASSUME Inv, WritesWhatItLocked, [Next]_vars PROVE WritesWhatItLocked'
    BY StepInv
  <2>1. CASE \E c \in Call : Moves(c)
    BY <2>1, OwnStep
  <2>2. CASE UNCHANGED vars
    BY <2>2 DEF vars, WritesWhatItLocked
  <2> QED
    BY <2>1, <2>2 DEF Next, Moves
<1> QED
  BY <1>1, <1>2, PTL DEF Spec

(* An edit writes to the record it locked (locks.go:18), if no name spells  *)
(* an id: the run that checks it with one that does finds it broken.        *)
THEOREM WritesItsOwn == ASSUME Apart PROVE Spec => []WritesWhatItLocked
BY OwnInvariance, PTL

-----------------------------------------------------------------------------
(* What the handlers do not guard against left out: a name that spells an   *)
(* id, a forced add's second write, and a write that outlives its call.     *)
Calm == /\ Apart
        /\ \A rq \in Request : rq.op # "forcedAdd"
        /\ ~GivesUp

CalmInv == Inv /\ WritesWhatItLocked /\ CopyIsCurrent /\ late = {}

CurrentOne(d) == pc[d] = "write" /\ asks[d].op = "edit" =>
                    \/ store[target[d]] = Gone
                    \/ /\ store[target[d]] \in Record
                       /\ copy[d] = Filled(d, asks[d], store[target[d]])

(* Two edits that are about to write have not locked the same record.       *)
LEMMA WritersApart ==
    ASSUME Inv, NEW c \in Call, NEW d \in Call, c # d,
           pc[c] = "write", asks[c].op = "edit", pc[d] = "write", asks[d].op = "edit"
    PROVE  target[c] # target[d]
BY DEF Inv, Fits, FitsOne, Locks!Exclusion

(* A step of another call leaves an edit's record as it read it.            *)
LEMMA CurrentStep ==
    ASSUME Calm, CalmInv, NEW c \in Call, Moves(c)
    PROVE  CopyIsCurrent' /\ late' = {}
<1> USE DEF CalmInv
<1>1. Frame(c)
  BY MoveInv
<1>2. (pc[c] = "second" => FALSE) /\ c \notin late /\ ~GiveUp(c) /\ ~LandForced(c)
  BY DEF Calm, Inv, Fits, FitsOne, GiveUp, LandForced, Step
<1>3. late' = {}
  BY <1>2 DEF Moves, Steps, Begin, FindEdit, FindDelete, FindAlone, FindKept, FindNothing, Locked, Read,
              ReadNothing, LandEdit, LandDelete, LandAdd, LandSecond, LandAlone, Refused, Answer, LandLate
<1>4. CASE LandEdit(c)
  <2>1. store' = [store EXCEPT ![target[c]] = copy[c]] \/ store' = store
    BY <1>4 DEF LandEdit, Put, Step, WritesWhatItLocked
  <2>2. ASSUME NEW d \in Call \ {c}, pc[d] = "write", asks[d].op = "edit"
        PROVE  store'[target[d]] = store[target[d]]
    <3>1. target[c] # target[d]
      BY <1>4, <2>2, WritersApart DEF LandEdit, Step
    <3> QED
      BY <2>1, <2>2, <3>1 DEF Inv, TypeOK, Fits, FitsOne
  <2>3. \A d \in Call \ {c} : CurrentOne(d)'
    BY <1>1, <2>2 DEF Frame, SameFor, CurrentOne, CopyIsCurrent
  <2>4. CurrentOne(c)'
    BY <1>4 DEF LandEdit, Step, CurrentOne, Inv, TypeOK
  <2> QED
    BY <1>3, <2>3, <2>4 DEF CurrentOne, CopyIsCurrent
<1>5. CASE LandDelete(c)
  <2>1. \E i \in Id : store' = [store EXCEPT ![i] = Gone] \/ store' = store
    BY <1>5 DEF LandDelete, Remove, Step, Inv, TypeOK, Sends
  <2>2. \A d \in Call \ {c} : CurrentOne(d)'
    BY <1>1, <2>1 DEF Frame, SameFor, CurrentOne, CopyIsCurrent, Inv, TypeOK, Fits, FitsOne
  <2>3. CurrentOne(c)'
    BY <1>5 DEF LandDelete, Step, CurrentOne, Inv, TypeOK
  <2> QED
    BY <1>3, <2>2, <2>3 DEF CurrentOne, CopyIsCurrent
<1>6. CASE LandAdd(c)
  <2>1. \A i \in Id : store[i] # Unborn => store'[i] = store[i]
    BY <1>6 DEF LandAdd, Make, Inv, TypeOK
  <2>2. \A d \in Call \ {c} : CurrentOne(d)'
    BY <1>1, <2>1, Distinct, AbsentAssumption
       DEF Frame, SameFor, CurrentOne, CopyIsCurrent, Inv, Fits, FitsOne
  <2>3. CurrentOne(c)'
    BY <1>6 DEF LandAdd, Step, CurrentOne, Inv, TypeOK
  <2> QED
    BY <1>3, <2>2, <2>3 DEF CurrentOne, CopyIsCurrent
<1>7. CASE Read(c)
  <2>1. \A d \in Call \ {c} : CurrentOne(d)'
    BY <1>1, <1>7 DEF Read, Frame, SameFor, CurrentOne, CopyIsCurrent
  <2>2. CurrentOne(c)'
    BY <1>7, ReadsItsOwn DEF Calm, Read, Step, ReadAgain, Found, Matches, CurrentOne, Inv, TypeOK, Fits, FitsOne
  <2> QED
    BY <1>3, <2>1, <2>2 DEF CurrentOne, CopyIsCurrent
<1>8. CASE ~(pc'[c] = "write" /\ asks'[c].op = "edit") /\ store' = store
  <2>1. \A d \in Call \ {c} : CurrentOne(d)'
    BY <1>1, <1>8 DEF Frame, SameFor, CurrentOne, CopyIsCurrent
  <2> QED
    BY <1>3, <1>8, <2>1 DEF CurrentOne, CopyIsCurrent
<1>9. CASE \E rq \in Request : Begin(c, rq)
  BY <1>8, <1>9, RequestAssumption DEF Begin, Step, Inv, TypeOK
<1>10. CASE FindEdit(c) \/ FindDelete(c) \/ FindAlone(c) \/ FindKept(c) \/ FindNothing(c)
  BY <1>8, <1>10 DEF FindEdit, FindDelete, FindAlone, FindKept, FindNothing, Step, Inv, TypeOK
<1>11. CASE Locked(c) \/ ReadNothing(c) \/ LandAlone(c) \/ Refused(c) \/ Answer(c)
  BY <1>8, <1>11 DEF Locked, ReadNothing, LandAlone, Refused, Answer, Step, Inv, TypeOK
<1> QED
  BY <1>2, <1>4, <1>5, <1>6, <1>7, <1>9, <1>10, <1>11 DEF Moves, Steps, LandSecond, LandLate, Step

(* Every state of a calm turn has current copies, and nothing late.         *)
LEMMA CalmInvariance == ASSUME Calm PROVE Spec => []CalmInv
<1>1. Init => CalmInv
  BY InitInv DEF Init, CalmInv, WritesWhatItLocked, CopyIsCurrent
<1>2. CalmInv /\ [Next]_vars => CalmInv'
  <2> SUFFICES ASSUME CalmInv, [Next]_vars PROVE CalmInv'
    OBVIOUS
  <2>1. CASE \E c \in Call : Moves(c)
    BY <2>1, StepInv, OwnStep, CurrentStep DEF Calm, CalmInv
  <2>2. CASE UNCHANGED vars
    BY <2>2, StepInv DEF vars, CalmInv, WritesWhatItLocked, CopyIsCurrent
  <2> QED
    BY <2>1, <2>2 DEF Next, Moves
<1> QED
  BY <1>1, <1>2, PTL DEF Spec

(* While an edit has its record in hand, Radarr's is the one it read: no    *)
(* edit, delete or add of the same turn comes between its read and its      *)
(* write, however many run (locks.go:10-19).                                *)
THEOREM ReadsCurrent == ASSUME Calm PROVE Spec => []CopyIsCurrent
BY CalmInvariance, PTL DEF CalmInv

-----------------------------------------------------------------------------
(* Every step of a call is one of AtomicEdits', or changes nothing it says. *)
Over == {"landed", "done", "failed"}

(* How acts follows the stages, when nothing is late.                       *)
LEMMA ActsStep ==
    ASSUME CalmInv, late' = {}, NEW c \in Call, Frame(c)
    PROVE  /\ c \in acts <=> pc[c] \in Over
           /\ pc'[c] \in Over => acts' = acts \cup {c}
           /\ (pc'[c] \in Over <=> pc[c] \in Over) => acts' = acts
BY DEF CalmInv, acts, Frame, SameFor, Over

(* Both modules have their data from Records.                               *)
LEMMA SameData ==
    /\ Atomic!Ops = Ops /\ Atomic!Record = Record /\ Atomic!Absent = Absent
    /\ \A c, rq, r : Atomic!Filled(c, rq, r) = Filled(c, rq, r)
    /\ \A c, rq, off : Atomic!New(c, rq, off) = New(c, rq, off)
BY DEF Atomic!Ops, Ops, Atomic!Record, Record, Atomic!Absent, Absent,
       Atomic!Filled, Filled, Atomic!New, New

(* A call that ends with nothing changed is AtomicEdits' Refuse.            *)
LEMMA Refusing ==
    ASSUME CalmInv, late' = {}, NEW c \in Call, Frame(c), pc[c] # "new",
           pc[c] \notin Over, pc'[c] \in Over, UNCHANGED <<store, asks, target>>
    PROVE  Atomic!Next
<1>1. asks[c] \in Request /\ asks[c].op \in Ops /\ asks[c] # NoRequest
  BY RequestAssumption, Distinct DEF CalmInv, Inv, Fits, FitsOne
<1>2. c \notin acts /\ acts' = acts \cup {c}
  BY ActsStep
<1>3. Atomic!Acts(c, asks[c].op)
  BY <1>1, <1>2 DEF Atomic!Acts
<1>4. Atomic!Refuse(c)
  BY <1>1, <1>3, SameData DEF Atomic!Refuse
<1> QED
  BY <1>4 DEF Atomic!Next

(* A step on the way changes nothing that AtomicEdits says.                 *)
LEMMA Stuttering ==
    ASSUME CalmInv, late' = {}, NEW c \in Call, Frame(c),
           pc'[c] \in Over <=> pc[c] \in Over, UNCHANGED <<store, asks, target>>
    PROVE  UNCHANGED Atomic!vars
BY ActsStep DEF Atomic!vars

(* Every move of a call is AtomicEdits' step, or none.                      *)
LEMMA Implementing ==
    ASSUME Calm, CalmInv, NEW c \in Call, Moves(c)
    PROVE  [Atomic!Next]_(Atomic!vars)
<1>1. Inv /\ Frame(c) /\ late' = {}
  BY MoveInv, CurrentStep DEF CalmInv
<1>2. /\ c \in acts <=> pc[c] \in Over
      /\ pc'[c] \in Over => acts' = acts \cup {c}
      /\ (pc'[c] \in Over <=> pc[c] \in Over) => acts' = acts
  BY <1>1, ActsStep
<1>3. pc \in [Call -> Stages]
  BY <1>1 DEF Inv, TypeOK
<1>4. pc[c] # "new" => asks[c] \in Request /\ asks[c] # NoRequest
  BY <1>1, Distinct DEF Inv, Fits, FitsOne
<1>5. CASE \E rq \in Request : Begin(c, rq)
  <2>1. PICK rq \in Request : Begin(c, rq)
    BY <1>5
  <2>2. Atomic!Ask(c, rq)
    BY <1>1, <1>2, <1>3, <2>1 DEF Atomic!Ask, Begin, Step, Over, Inv, Fits, FitsOne
  <2> QED
    BY <2>2 DEF Atomic!Next
<1>6. CASE FindEdit(c) \/ FindDelete(c)
  <2>1. PICK i \in Found(asks[c].ref) : target' = [target EXCEPT ![c] = i]
    BY <1>6 DEF FindEdit, FindDelete
  <2>2. pc[c] = "find" /\ pc'[c] \in {"lock", "write"} /\ UNCHANGED <<store, asks>>
    BY <1>3, <1>6 DEF FindEdit, FindDelete, Step
  <2>3. i \in Id /\ store[i] \in Record /\ (i = asks[c].ref \/ store[i].name = asks[c].ref)
    BY <2>1 DEF Found, Matches
  <2>4. Atomic!Aim(c, i)
    BY <1>1, <1>2, <1>4, <2>1, <2>2, <2>3, SameData DEF Atomic!Aim, Over, Inv, Fits, FitsOne
  <2> QED
    BY <2>3, <2>4 DEF Atomic!Next
<1>7. CASE FindKept(c) \/ FindNothing(c) \/ ReadNothing(c) \/ LandAlone(c)
  <2>1. /\ pc[c] # "new" /\ pc[c] \notin Over /\ pc'[c] \in Over
        /\ UNCHANGED <<store, asks, target>>
    BY <1>3, <1>7 DEF FindKept, FindNothing, ReadNothing, LandAlone, Step, Over
  <2> QED
    BY <1>1, <2>1, Refusing
<1>8. CASE Refused(c)
  <2>1. /\ pc[c] # "new" /\ pc[c] \notin Over /\ pc'[c] \in Over
        /\ UNCHANGED <<store, asks, target>>
    BY <1>3, <1>8 DEF Refused, Step, Over
  <2> QED
    BY <1>1, <2>1, Refusing
<1>9. CASE FindAlone(c) \/ Read(c) \/ Answer(c)
  <2>1. (pc'[c] \in Over <=> pc[c] \in Over) /\ UNCHANGED <<store, asks, target>>
    BY <1>3, <1>9 DEF FindAlone, Read, Answer, Step, Over
  <2> QED
    BY <1>1, <2>1, Stuttering
<1>10. CASE Locked(c)
  <2>1. /\ pc[c] = "lock" /\ pc'[c] \in {"held", "write", "landed"}
        /\ UNCHANGED <<store, asks, target>>
    BY <1>3, <1>10 DEF Locked, Step
  <2>2. CASE pc'[c] = "landed"
    BY <1>1, <2>1, <2>2, Refusing DEF Over
  <2>3. CASE pc'[c] # "landed"
    BY <1>1, <2>1, <2>3, Stuttering DEF Over
  <2> QED
    BY <2>2, <2>3
<1>11. CASE LandEdit(c)
  <2>1. pc[c] = "write" /\ pc'[c] = "landed" /\ asks[c].op = "edit" /\ UNCHANGED <<asks, target>>
    BY <1>3, <1>11 DEF LandEdit, Step
  <2>2. target[c] \in Id /\ at[c] = target[c]
    BY <1>1, <2>1 DEF CalmInv, WritesWhatItLocked, Inv, Fits, FitsOne
  <2>3. CASE store[target[c]] \in Record
    <3>1. store' = [store EXCEPT ![target[c]] = Filled(c, asks[c], store[target[c]])]
      BY <1>11, <2>1, <2>2, <2>3, Distinct DEF LandEdit, Put, CalmInv, CopyIsCurrent
    <3>2. Atomic!Edit(c)
      BY <1>2, <1>4, <2>1, <2>2, <2>3, <3>1, SameData DEF Atomic!Edit, Atomic!Acts, Over
    <3> QED
      BY <3>2 DEF Atomic!Next
  <2>4. CASE store[target[c]] \notin Record
    BY <1>1, <1>11, <2>1, <2>2, <2>4, Refusing DEF LandEdit, Put, Over
  <2> QED
    BY <2>3, <2>4
<1>12. CASE LandDelete(c)
  <2>1. pc[c] = "write" /\ pc'[c] = "landed" /\ asks[c].op = "delete" /\ UNCHANGED <<asks, target>>
    BY <1>3, <1>12 DEF LandDelete, Step
  <2>2. target[c] \in Id /\ at[c] = target[c] /\ asks[c].confirm
    BY <1>1, <2>1 DEF Inv, Fits, FitsOne
  <2>3. CASE store[target[c]] \in Record
    <3>1. Atomic!Delete(c)
      BY <1>2, <1>4, <1>12, <2>1, <2>2, <2>3, SameData
         DEF LandDelete, Remove, Atomic!Delete, Atomic!Acts, Over
    <3> QED
      BY <3>1 DEF Atomic!Next
  <2>4. CASE store[target[c]] \notin Record
    BY <1>1, <1>12, <2>1, <2>2, <2>4, Refusing DEF LandDelete, Remove, Over
  <2> QED
    BY <2>3, <2>4
<1>13. CASE LandAdd(c)
  <2>1. Atomic!Add(c)
    BY <1>2, <1>3, <1>4, <1>13, SameData DEF LandAdd, Make, Step, Atomic!Add, Atomic!Acts, Over
  <2> QED
    BY <2>1 DEF Atomic!Next
<1>14. ~LandForced(c) /\ ~LandSecond(c) /\ ~GiveUp(c) /\ ~LandLate(c)
  BY <1>1 DEF Calm, CalmInv, Inv, Fits, FitsOne, LandForced, LandSecond, GiveUp, LandLate, Step
<1> QED
  BY <1>5, <1>6, <1>7, <1>8, <1>9, <1>10, <1>11, <1>12, <1>13, <1>14 DEF Moves, Steps

(* The calls of a turn behave as if each did all it does at one moment, to  *)
(* the record it was found to name: the promise of locks.go:10-19, kept     *)
(* whatever the calls ask and however they overlap, Calm being so.          *)
THEOREM ActsOnce == ASSUME Calm PROVE Spec => ActsAtOnce
<1>1. Init => Atomic!Init
  <2> SUFFICES ASSUME Init PROVE Atomic!Init
    OBVIOUS
  <2>1. store \in [Id -> Record \cup Absent]
    BY InitInv DEF Inv, TypeOK
  <2>2. acts = {}
    BY DEF Init, acts
  <2> QED
    BY <2>1, <2>2, SameData DEF Init, Atomic!Init
<1>2. CalmInv /\ [Next]_vars => [Atomic!Next]_(Atomic!vars)
  <2> SUFFICES ASSUME CalmInv, [Next]_vars PROVE [Atomic!Next]_(Atomic!vars)
    OBVIOUS
  <2>1. CASE \E c \in Call : Moves(c)
    BY <2>1, Implementing
  <2>2. CASE UNCHANGED vars
    BY <2>2 DEF vars, Atomic!vars, acts
  <2> QED
    BY <2>1, <2>2 DEF Next, Moves
<1> QED
  BY <1>1, <1>2, CalmInvariance, PTL DEF Spec, ActsAtOnce, Atomic!Spec
=============================================================================
