--------------------------- MODULE CommandsProofs ---------------------------
(***************************************************************************)
(* Proofs about Commands, for any calls, whatever they ask, and any number *)
(* of commands: its state keeps its types, what task_cancel, an edit that  *)
(* moves and movie_add answer is so, and a backup is found.                *)
(***************************************************************************)
EXTENDS Commands, SequenceTheorems, TLAPS

Statuses == Final \cup {"queued", "started"}

(* What each stage of a call implies.                                       *)
StageOf(c) ==
    /\ pc[c] = "new" <=> asks[c] = None
    /\ pc[c] = "new" => mine[c] = 0
    /\ pc[c] = "post" => asks[c].tool \in {"run", "backup", "add"} /\ mine[c] = 0
    /\ pc[c] = "poll" => asks[c].tool \in {"run", "backup", "add"} /\ mine[c] # 0
    /\ pc[c] = "list" => asks[c].tool = "backup" /\ mine[c] # 0
    /\ pc[c] \in {"look", "unseen"} => asks[c].tool = "add" /\ mine[c] = 0
    /\ pc[c] = "moving" => asks[c].tool = "move"
    /\ pc[c] \in {"cancel", "delete"} => asks[c].tool = "cancel"
    /\ told[c] # "nothing" => pc[c] \in {"done", "failed"}

(* A command that was cancelled stays so.                                   *)
CancelOf(c) ==
    Is(c, "cancel") => /\ mine[c] # 0
                       /\ told[c] = "cancelled" => Status(mine[c]) = "cancelled"

(* A call's own move is among those it waits for.                           *)
MoveOf(c) ==
    Is(c, "move") =>
       /\ since[c] # 0
       /\ mine[c] # 0 => since[c] <= mine[c] /\ cmds[mine[c]].kind = "move"
       /\ pc[c] = "done" /\ mine[c] # 0 => Status(mine[c]) \in Final \ {"failed"}
       /\ told[c] = "failed" => Failed(Moves(c))

(* Of a film no refresh of which was listed, any there is came after that.  *)
ScanOf(c) ==
    Is(c, "add") =>
       /\ pc[c] \in {"unseen", "post"} \/ mine[c] # 0 =>
             since[c] <= Len(cmds) + 1 /\ \A i \in Refreshes(c) : i >= since[c]
       /\ pc[c] = "done" => \/ mine[c] # 0
                            \/ \E i \in Refreshes(c) : Status(i) \in Final \ {"failed"}

(* The backup a call posted was not among those it had listed.              *)
BackupOf(c) ==
    Is(c, "backup") =>
       /\ pc[c] \in {"poll", "list"} => mine[c] \notin had[c] /\ cmds[mine[c]].kind = "backup"
       /\ pc[c] = "list" => mine[c] \in files
       /\ ~(pc[c] = "failed" /\ told[c] = "completed")

CallInv(c) == StageOf(c) /\ CancelOf(c) /\ MoveOf(c) /\ ScanOf(c) /\ BackupOf(c)

(* Only an edit queues a move, and it queues one.                           *)
MoveOwners ==
    \A i \in DOMAIN cmds : cmds[i].kind = "move" =>
       /\ cmds[i].by \in Call
       /\ Is(cmds[i].by, "move")
       /\ mine[cmds[i].by] = i

(* A backup that completed is listed.                                       *)
BackupsListed ==
    \A i \in DOMAIN cmds : cmds[i].kind = "backup" /\ Status(i) = "completed" => i \in files

Inv == TypeOK /\ (\A c \in Call : CallInv(c)) /\ MoveOwners /\ BackupsListed

-----------------------------------------------------------------------------
(* Commands are only added, and keep what they are; one that has ended      *)
(* stays as it ended.                                                       *)
Later ==
    /\ cmds' \in Seq(Command)
    /\ Len(cmds) <= Len(cmds')
    /\ files \subseteq files' /\ files' \subseteq DOMAIN cmds'
    /\ \A i \in DOMAIN cmds :
          /\ cmds'[i].kind = cmds[i].kind /\ cmds'[i].by = cmds[i].by
          /\ cmds'[i].film = cmds[i].film
          /\ Status(i) \in Final => cmds'[i].status = Status(i)

(* The commands are numbered from 1.                                        *)
LEMMA Numbered == ASSUME TypeOK PROVE /\ DOMAIN cmds = 1 .. Len(cmds) /\ Len(cmds) \in Nat
                                      /\ \A i \in DOMAIN cmds : cmds[i] \in Command
BY LenProperties, ElementOfSeq DEF TypeOK

(* Nothing is queued and nothing changes.                                   *)
LEMMA LaterSame ==
    ASSUME TypeOK, UNCHANGED <<cmds, files>>
    PROVE  Later
BY Numbered DEF Later, TypeOK, Status

(* A command is queued.                                                     *)
LEMMA LaterQueued ==
    ASSUME TypeOK, UNCHANGED files,
           NEW kind \in {"task", "refresh", "rescan", "move", "backup"},
           NEW by \in Call \cup {Radarr}, NEW film \in Call \cup {None},
           cmds' = Append(cmds, Queued(kind, by, film))
    PROVE  /\ Later
           /\ Len(cmds') = Len(cmds) + 1
           /\ DOMAIN cmds' = DOMAIN cmds \cup {Len(cmds) + 1}
           /\ \A i \in DOMAIN cmds : cmds'[i] = cmds[i]
           /\ cmds'[Len(cmds) + 1] = Queued(kind, by, film)
<1> DEFINE q == Queued(kind, by, film)
<1>1. q \in Command
  BY DEF Queued, Command
<1>2. /\ cmds' \in Seq(Command)
      /\ Len(cmds') = Len(cmds) + 1
      /\ \A i \in 1 .. Len(cmds) : cmds'[i] = cmds[i]
      /\ cmds'[Len(cmds) + 1] = q
  BY <1>1, AppendProperties DEF TypeOK
<1>3. DOMAIN cmds' = 1 .. Len(cmds')
  BY <1>2, LenProperties
<1> HIDE DEF q
<1>5. Len(cmds) \in Nat /\ DOMAIN cmds = 1 .. Len(cmds)
  BY Numbered
<1>6. DOMAIN cmds' = DOMAIN cmds \cup {Len(cmds) + 1}
  BY <1>2, <1>3, <1>5
<1>7. Later
  BY <1>2, <1>5, <1>6 DEF Later, TypeOK, Status
<1> QED
  BY <1>2, <1>5, <1>6, <1>7 DEF q

(* A command that has not ended goes on.                                    *)
LEMMA LaterChanged ==
    ASSUME TypeOK, NEW i \in DOMAIN cmds, Status(i) \notin Final,
           NEW s \in Statuses, cmds' = [cmds EXCEPT ![i].status = s],
           files \subseteq files', files' \subseteq DOMAIN cmds
    PROVE  /\ Later
           /\ DOMAIN cmds' = DOMAIN cmds
           /\ Len(cmds') = Len(cmds)
           /\ \A j \in DOMAIN cmds \ {i} : cmds'[j] = cmds[j]
           /\ cmds'[i].status = s
<1> DEFINE q == [cmds[i] EXCEPT !.status = s]
<1>1. cmds[i] \in Command /\ DOMAIN cmds = 1 .. Len(cmds) /\ Len(cmds) \in Nat
  BY Numbered
<1>2. /\ q \in Command /\ q.status = s /\ q.kind = cmds[i].kind /\ q.by = cmds[i].by
      /\ q.film = cmds[i].film
  BY <1>1 DEF Command, Statuses
<1>3. cmds' = [cmds EXCEPT ![i] = q]
  OBVIOUS
<1> HIDE DEF q
<1>4. /\ cmds' \in Seq(Command)
      /\ Len(cmds') = Len(cmds)
      /\ \A j \in 1 .. Len(cmds) : cmds'[j] = IF j = i THEN q ELSE cmds[j]
  <2>1. i \in 1 .. Len(cmds) /\ cmds \in Seq(Command)
    BY <1>1 DEF TypeOK
  <2> QED
    BY <1>2, <1>3, <2>1, ExceptSeq
<1>5. DOMAIN cmds' = DOMAIN cmds
  BY <1>3
<1> QED
  BY <1>1, <1>2, <1>4, <1>5 DEF Later, TypeOK, Status

(* What holds of a call that takes no step goes on to.                      *)
LEMMA Bystander ==
    ASSUME TypeOK, Later, NEW d \in Call, CallInv(d),
           pc'[d] = pc[d], asks'[d] = asks[d], mine'[d] = mine[d], since'[d] = since[d],
           had'[d] = had[d], told'[d] = told[d]
    PROVE  CallInv(d)'
<1>1. /\ DOMAIN cmds = 1 .. Len(cmds) /\ Len(cmds) \in Nat
      /\ DOMAIN cmds' = 1 .. Len(cmds') /\ Len(cmds') \in Nat
      /\ mine[d] \in Nat /\ (mine[d] # 0 => mine[d] \in DOMAIN cmds) /\ since[d] \in Nat
  BY Numbered, LenProperties DEF TypeOK, Later
<1>2. StageOf(d)'
  BY DEF CallInv, StageOf
<1>3. CancelOf(d)'
  BY <1>1 DEF CallInv, CancelOf, Is, Status, Later, Final
<1>4. MoveOf(d)'
  BY <1>1 DEF CallInv, MoveOf, Is, Status, Later, Final, Failed, Moves
<1>5. ScanOf(d)'
  BY <1>1 DEF CallInv, ScanOf, Is, Status, Later, Final, Refreshes
<1>6. BackupOf(d)'
  BY <1>1 DEF CallInv, StageOf, BackupOf, Is, Later
<1> QED
  BY <1>2, <1>3, <1>4, <1>5, <1>6 DEF CallInv

-----------------------------------------------------------------------------
(* A step of call c that leaves the commands and the files alone.           *)
Frame(c) == /\ UNCHANGED <<cmds, files>>
            /\ \A d \in Call \ {c} :
                  /\ pc'[d] = pc[d] /\ asks'[d] = asks[d] /\ mine'[d] = mine[d]
                  /\ since'[d] = since[d] /\ had'[d] = had[d] /\ told'[d] = told[d]
            /\ asks[c] # None => asks'[c] = asks[c] /\ mine'[c] = mine[c]

(* Such a step has only the call itself to answer for.                      *)
LEMMA FrameInv ==
    ASSUME Inv, NEW c \in Call, Frame(c), TypeOK', CallInv(c)'
    PROVE  Inv'
<1>1. Later
  BY LaterSame DEF Inv, Frame
<1>2. ASSUME NEW d \in Call \ {c} PROVE CallInv(d)'
  BY <1>1, Bystander DEF Inv, Frame
<1>3. MoveOwners'
  <2> SUFFICES ASSUME NEW i \in DOMAIN cmds, cmds[i].kind = "move"
               PROVE  Is(cmds[i].by, "move")' /\ mine'[cmds[i].by] = i
    BY DEF Inv, Frame, MoveOwners
  <2>1. cmds[i].by \in Call /\ Is(cmds[i].by, "move") /\ mine[cmds[i].by] = i
    BY DEF Inv, MoveOwners
  <2> QED
    BY <2>1 DEF Frame, Is
<1>4. BackupsListed'
  BY DEF Inv, Frame, BackupsListed, Status
<1> QED
  BY <1>2, <1>3, <1>4 DEF Inv

(* It holds at first.                                                       *)
LEMMA InitInv == Init => Inv
<1> SUFFICES ASSUME Init PROVE Inv
  OBVIOUS
<1>1. TypeOK
  BY EmptySeq DEF Init, TypeOK, Stages
<1>2. (\A c \in Call : CallInv(c)) /\ MoveOwners /\ BackupsListed
  BY DEF Init, CallInv, StageOf, CancelOf, MoveOf, ScanOf, BackupOf, Is, MoveOwners, BackupsListed
<1> QED
  BY <1>1, <1>2 DEF Inv

(* A command that was posted has ended.                                     *)
LEMMA PollInv == ASSUME Inv, NEW c \in Call, Poll(c) PROVE Inv'
<1> USE DEF Poll, Goes, Ends
<1>1. CallInv(c) /\ TypeOK /\ BackupsListed
  BY DEF Inv
<1>2. TypeOK'
  BY <1>1, Numbered DEF TypeOK, Stages, Status, Final, Command
<1>3. Frame(c)
  BY <1>1 DEF TypeOK, Frame
<1>4. CallInv(c)'
  <2> USE <1>1, Numbered
  <2>1. StageOf(c)'
    BY DEF TypeOK, CallInv, StageOf
  <2>2. CancelOf(c)'
    BY DEF TypeOK, CallInv, StageOf, CancelOf, Is, Status
  <2>3. MoveOf(c)'
    BY DEF TypeOK, CallInv, StageOf, MoveOf, Is, Status, Failed, Pending, Moves, Final
  <2>4. ScanOf(c)'
    BY DEF TypeOK, CallInv, StageOf, ScanOf, Is, Status, Failed, Pending, Refreshes, Final
  <2>5. BackupOf(c)'
    BY DEF TypeOK, CallInv, StageOf, BackupOf, Is, Status, BackupsListed, Final
  <2> QED
    BY <2>1, <2>2, <2>3, <2>4, <2>5 DEF CallInv
<1> QED
  BY <1>2, <1>3, <1>4, FrameInv

(* A backup has ended.                                                      *)
LEMMA PollBackupInv == ASSUME Inv, NEW c \in Call, PollBackup(c) PROVE Inv'
<1> USE DEF PollBackup, Goes, Ends
<1>1. CallInv(c) /\ TypeOK /\ BackupsListed
  BY DEF Inv
<1>2. TypeOK'
  <2>1. pc' \in [Call -> Stages]
    BY <1>1 DEF TypeOK, Stages
  <2>2. told' \in [Call -> Final \cup {"queued", "started", "nothing", "error"}]
    BY <1>1 DEF TypeOK
  <2> QED
    BY <1>1, <2>1, <2>2 DEF TypeOK
<1>3. Frame(c)
  BY <1>1 DEF TypeOK, Frame
<1>4. CallInv(c)'
  <2> USE <1>1, Numbered
  <2>1. StageOf(c)'
    BY DEF TypeOK, CallInv, StageOf
  <2>2. CancelOf(c)'
    BY DEF TypeOK, CallInv, StageOf, CancelOf, Is, Status
  <2>3. MoveOf(c)'
    BY DEF TypeOK, CallInv, StageOf, MoveOf, Is, Status, Failed, Pending, Moves, Final
  <2>4. ScanOf(c)'
    BY DEF TypeOK, CallInv, StageOf, ScanOf, Is, Status, Failed, Pending, Refreshes, Final
  <2>5. BackupOf(c)'
    BY DEF TypeOK, CallInv, StageOf, BackupOf, Is, Status, BackupsListed, Final
  <2> QED
    BY <2>1, <2>2, <2>3, <2>4, <2>5 DEF CallInv
<1> QED
  BY <1>2, <1>3, <1>4, FrameInv

(* The backups are listed again.                                            *)
LEMMA ListBackupsInv == ASSUME Inv, NEW c \in Call, ListBackups(c) PROVE Inv'
<1> USE DEF ListBackups, Goes, Ends
<1>1. CallInv(c) /\ TypeOK /\ BackupsListed
  BY DEF Inv
<1>2. TypeOK'
  <2>1. CASE files \subseteq had[c]
    BY <1>1, <2>1 DEF TypeOK, Stages, Final
  <2>2. CASE ~(files \subseteq had[c])
    <3> PICK b \in files \ had[c] : gave' = [gave EXCEPT ![c] = b]
      BY <2>2
    <3>1. gave' \in [Call -> {0} \cup DOMAIN cmds]
      BY <1>1 DEF TypeOK
    <3> QED
      BY <1>1, <2>2, <3>1 DEF TypeOK, Stages, Final
  <2> QED
    BY <2>1, <2>2
<1>3. Frame(c)
  BY <1>1 DEF TypeOK, Frame
<1>4. CallInv(c)'
  <2> USE <1>1, Numbered
  <2>1. StageOf(c)'
    BY DEF TypeOK, CallInv, StageOf
  <2>2. CancelOf(c)'
    BY DEF TypeOK, CallInv, StageOf, CancelOf, Is, Status
  <2>3. MoveOf(c)'
    BY DEF TypeOK, CallInv, StageOf, MoveOf, Is, Status, Failed, Pending, Moves, Final
  <2>4. ScanOf(c)'
    BY DEF TypeOK, CallInv, StageOf, ScanOf, Is, Status, Failed, Pending, Refreshes, Final
  <2>5. BackupOf(c)'
    BY DEF TypeOK, CallInv, StageOf, BackupOf, Is, Status, BackupsListed, Final
  <2> QED
    BY <2>1, <2>2, <2>3, <2>4, <2>5 DEF CallInv
<1> QED
  BY <1>2, <1>3, <1>4, FrameInv

(* An add looks for its refresh.                                            *)
LEMMA LookInv == ASSUME Inv, NEW c \in Call, Look(c) PROVE Inv'
<1> USE DEF Look, Goes, Ends
<1>1. CallInv(c) /\ TypeOK /\ BackupsListed
  BY DEF Inv
<1>2. TypeOK'
  <2>1. pc' \in [Call -> Stages]
    BY <1>1 DEF TypeOK, Stages
  <2>2. since' \in [Call -> Nat]
    <3>1. since \in [Call -> Nat] /\ Len(cmds) + 1 \in Nat
      BY <1>1, Numbered DEF TypeOK
    <3>2. UNCHANGED since \/ since' = [since EXCEPT ![c] = Len(cmds) + 1]
      OBVIOUS
    <3> QED
      BY <3>1, <3>2
  <2>3. told' \in [Call -> Final \cup {"queued", "started", "nothing", "error"}]
    BY <1>1 DEF TypeOK, Final
  <2> QED
    BY <1>1, <2>1, <2>2, <2>3 DEF TypeOK
<1>3. Frame(c)
  BY <1>1 DEF TypeOK, Frame
<1>4. CallInv(c)'
  <2> USE <1>1, Numbered
  <2>1. StageOf(c)'
    BY DEF TypeOK, CallInv, StageOf
  <2>2. CancelOf(c)'
    BY DEF TypeOK, CallInv, StageOf, CancelOf, Is, Status
  <2>3. MoveOf(c)'
    BY DEF TypeOK, CallInv, StageOf, MoveOf, Is, Status, Failed, Pending, Moves, Final
  <2>4. ScanOf(c)'
    <3>1. since[c] \in Nat /\ Len(cmds) \in Nat /\ c \in DOMAIN since /\ c \in DOMAIN pc
      BY DEF TypeOK
    <3>2. CASE Refreshes(c) = {}
      <4>1. pc'[c] = "unseen" /\ since'[c] = Len(cmds) + 1 /\ Refreshes(c)' = {}
        BY <3>1, <3>2 DEF Failed, Refreshes
      <4> QED
        BY <3>1, <4>1 DEF ScanOf
    <3>3. CASE Refreshes(c) # {}
      <4>1. pc'[c] \in {"done", "failed"} /\ mine[c] = 0 /\ asks[c].tool = "add"
        BY <3>1, <3>3 DEF CallInv, StageOf
      <4>2. pc'[c] = "done" => Refreshes(c) # {} /\ ~Pending(Refreshes(c)) /\ ~Failed(Refreshes(c))
        BY <3>1, <3>3
      <4> QED
        BY <4>1, <4>2 DEF ScanOf, Status, Failed, Pending, Refreshes
    <3> QED
      BY <3>2, <3>3
  <2>5. BackupOf(c)'
    BY DEF TypeOK, CallInv, StageOf, BackupOf, Is, Status, BackupsListed, Final
  <2> QED
    BY <2>1, <2>2, <2>3, <2>4, <2>5 DEF CallInv
<1> QED
  BY <1>2, <1>3, <1>4, FrameInv

(* An edit looks for its move.                                              *)
LEMMA LookMovesInv == ASSUME Inv, NEW c \in Call, LookMoves(c) PROVE Inv'
<1> USE DEF LookMoves, Goes, Ends
<1>1. CallInv(c) /\ TypeOK /\ BackupsListed
  BY DEF Inv
<1>2. TypeOK'
  <2>1. pc' \in [Call -> Stages]
    BY <1>1 DEF TypeOK, Stages
  <2>2. told' \in [Call -> Final \cup {"queued", "started", "nothing", "error"}]
    BY <1>1 DEF TypeOK, Final
  <2> QED
    BY <1>1, <2>1, <2>2 DEF TypeOK
<1>3. Frame(c)
  BY <1>1 DEF TypeOK, Frame
<1>4. CallInv(c)'
  <2> USE <1>1, Numbered
  <2>1. StageOf(c)'
    BY DEF TypeOK, CallInv, StageOf
  <2>2. CancelOf(c)'
    BY DEF TypeOK, CallInv, StageOf, CancelOf, Is, Status
  <2>3. MoveOf(c)'
    BY DEF TypeOK, CallInv, StageOf, MoveOf, Is, Status, Failed, Pending, Moves, Final
  <2>4. ScanOf(c)'
    BY DEF TypeOK, CallInv, StageOf, ScanOf, Is, Status, Failed, Pending, Refreshes, Final
  <2>5. BackupOf(c)'
    BY DEF TypeOK, CallInv, StageOf, BackupOf, Is, Status, BackupsListed, Final
  <2> QED
    BY <2>1, <2>2, <2>3, <2>4, <2>5 DEF CallInv
<1> QED
  BY <1>2, <1>3, <1>4, FrameInv

(* The deadline passes.                                                     *)
LEMMA DeadlineInv == ASSUME Inv, NEW c \in Call, Deadline(c) PROVE Inv'
<1> USE DEF Deadline, Goes, Ends
<1>1. CallInv(c) /\ TypeOK /\ BackupsListed
  BY DEF Inv
<1>2. TypeOK'
  <2>1. mine[c] \in DOMAIN cmds => cmds[mine[c]].status \in Statuses
    BY <1>1, Numbered DEF Command, Statuses
  <2> QED
    <3>1. pc' \in [Call -> Stages]
      BY <1>1 DEF TypeOK, Stages
    <3>2. told' \in [Call -> Final \cup {"queued", "started", "nothing", "error"}]
      BY <1>1, <2>1 DEF TypeOK, Status, Statuses, CallInv, StageOf, CancelOf, Is
    <3> QED
      BY <1>1, <3>1, <3>2 DEF TypeOK
<1>3. Frame(c)
  BY <1>1 DEF TypeOK, Frame
<1>4. CallInv(c)'
  <2> USE <1>1, Numbered
  <2>1. StageOf(c)'
    BY DEF TypeOK, CallInv, StageOf
  <2>2. CancelOf(c)'
    BY DEF TypeOK, CallInv, StageOf, CancelOf, Is, Status
  <2>3. MoveOf(c)'
    BY DEF TypeOK, CallInv, StageOf, MoveOf, Is, Status, Failed, Pending, Moves, Final
  <2>4. ScanOf(c)'
    BY DEF TypeOK, CallInv, StageOf, ScanOf, Is, Status, Failed, Pending, Refreshes, Final
  <2>5. BackupOf(c)'
    BY DEF TypeOK, CallInv, StageOf, BackupOf, Is, Status, BackupsListed, Final
  <2> QED
    BY <2>1, <2>2, <2>3, <2>4, <2>5 DEF CallInv
<1> QED
  BY <1>2, <1>3, <1>4, FrameInv

(* An add whose refresh is not listed scans itself, or looks again.         *)
LEMMA SeenNoneInv == ASSUME Inv, NEW c \in Call, SeenNone(c) PROVE Inv'
<1> USE DEF SeenNone, Goes, Ends
<1>1. CallInv(c) /\ TypeOK /\ BackupsListed
  BY DEF Inv
<1>2. TypeOK'
  <2>1. pc' \in [Call -> Stages]
    BY <1>1 DEF TypeOK, Stages
  <2>2. told' \in [Call -> Final \cup {"queued", "started", "nothing", "error"}]
    BY <1>1 DEF TypeOK, Final
  <2> QED
    BY <1>1, <2>1, <2>2 DEF TypeOK
<1>3. Frame(c)
  BY <1>1 DEF TypeOK, Frame
<1>4. CallInv(c)'
  <2> USE <1>1, Numbered
  <2>1. StageOf(c)'
    BY DEF TypeOK, CallInv, StageOf
  <2>2. CancelOf(c)'
    BY DEF TypeOK, CallInv, StageOf, CancelOf, Is, Status
  <2>3. MoveOf(c)'
    BY DEF TypeOK, CallInv, StageOf, MoveOf, Is, Status, Failed, Pending, Moves, Final
  <2>4. ScanOf(c)'
    BY DEF TypeOK, CallInv, StageOf, ScanOf, Is, Status, Failed, Pending, Refreshes, Final
  <2>5. BackupOf(c)'
    BY DEF TypeOK, CallInv, StageOf, BackupOf, Is, Status, BackupsListed, Final
  <2> QED
    BY <2>1, <2>2, <2>3, <2>4, <2>5 DEF CallInv
<1> QED
  BY <1>2, <1>3, <1>4, FrameInv

(* What is read does not come.                                              *)
LEMMA ReadFailsInv == ASSUME Inv, NEW c \in Call, ReadFails(c) PROVE Inv'
<1> USE DEF ReadFails, Goes, Ends
<1>1. CallInv(c) /\ TypeOK /\ BackupsListed
  BY DEF Inv
<1>2. TypeOK'
  <2>1. mine[c] \in DOMAIN cmds => cmds[mine[c]].status \in Statuses
    BY <1>1, Numbered DEF Command, Statuses
  <2> QED
    <3>1. pc' \in [Call -> Stages]
      BY <1>1 DEF TypeOK, Stages
    <3>2. told' \in [Call -> Final \cup {"queued", "started", "nothing", "error"}]
      BY <1>1, <2>1 DEF TypeOK, Status, Statuses, CallInv, StageOf, CancelOf, Is
    <3> QED
      BY <1>1, <3>1, <3>2 DEF TypeOK
<1>3. Frame(c)
  BY <1>1 DEF TypeOK, Frame
<1>4. CallInv(c)'
  <2> USE <1>1, Numbered
  <2>1. StageOf(c)'
    BY DEF TypeOK, CallInv, StageOf
  <2>2. CancelOf(c)'
    BY DEF TypeOK, CallInv, StageOf, CancelOf, Is, Status
  <2>3. MoveOf(c)'
    BY DEF TypeOK, CallInv, StageOf, MoveOf, Is, Status, Failed, Pending, Moves, Final
  <2>4. ScanOf(c)'
    BY DEF TypeOK, CallInv, StageOf, ScanOf, Is, Status, Failed, Pending, Refreshes, Final
  <2>5. BackupOf(c)'
    BY DEF TypeOK, CallInv, StageOf, BackupOf, Is, Status, BackupsListed, Final
  <2> QED
    BY <2>1, <2>2, <2>3, <2>4, <2>5 DEF CallInv
<1> QED
  BY <1>2, <1>3, <1>4, FrameInv

(* A command to cancel is read.                                             *)
LEMMA ReadCommandInv == ASSUME Inv, NEW c \in Call, ReadCommand(c) PROVE Inv'
<1> USE DEF ReadCommand, Goes, Ends
<1>1. CallInv(c) /\ TypeOK /\ BackupsListed
  BY DEF Inv
<1>2. TypeOK'
  <2>1. mine[c] \in DOMAIN cmds => cmds[mine[c]].status \in Statuses
    BY <1>1, Numbered DEF Command, Statuses
  <2> QED
    <3>1. pc' \in [Call -> Stages]
      BY <1>1 DEF TypeOK, Stages
    <3>2. told' \in [Call -> Final \cup {"queued", "started", "nothing", "error"}]
      BY <1>1, <2>1 DEF TypeOK, Status, Statuses, CallInv, StageOf, CancelOf, Is
    <3> QED
      BY <1>1, <3>1, <3>2 DEF TypeOK
<1>3. Frame(c)
  BY <1>1 DEF TypeOK, Frame
<1>4. CallInv(c)'
  <2> USE <1>1, Numbered
  <2>1. StageOf(c)'
    BY DEF TypeOK, CallInv, StageOf
  <2>2. CancelOf(c)'
    BY DEF TypeOK, CallInv, StageOf, CancelOf, Is, Status
  <2>3. MoveOf(c)'
    BY DEF TypeOK, CallInv, StageOf, MoveOf, Is, Status, Failed, Pending, Moves, Final
  <2>4. ScanOf(c)'
    BY DEF TypeOK, CallInv, StageOf, ScanOf, Is, Status, Failed, Pending, Refreshes, Final
  <2>5. BackupOf(c)'
    BY DEF TypeOK, CallInv, StageOf, BackupOf, Is, Status, BackupsListed, Final
  <2> QED
    BY <2>1, <2>2, <2>3, <2>4, <2>5 DEF CallInv
<1> QED
  BY <1>2, <1>3, <1>4, FrameInv

-----------------------------------------------------------------------------
(* The types a queue that has grown takes.                                  *)
LEMMA GrownTypes ==
    ASSUME TypeOK, Later
    PROVE  /\ DOMAIN cmds \subseteq DOMAIN cmds'
           /\ mine \in [Call -> {0} \cup DOMAIN cmds']
           /\ had \in [Call -> SUBSET DOMAIN cmds']
           /\ gave \in [Call -> {0} \cup DOMAIN cmds']
<1>1. DOMAIN cmds \subseteq DOMAIN cmds'
  BY Numbered, LenProperties DEF Later
<1> QED
  BY <1>1 DEF TypeOK

(* A call that posts a command has only itself to answer for.               *)
LEMMA PostInv ==
    ASSUME Inv, NEW c \in Call, NEW kind \in {"task", "refresh", "rescan", "move", "backup"},
           NEW film \in Call \cup {None}, Post(c, kind, film), UNCHANGED <<files, gave>>,
           \A d \in Call \ {c} : /\ pc'[d] = pc[d] /\ asks'[d] = asks[d] /\ since'[d] = since[d]
                                 /\ had'[d] = had[d] /\ told'[d] = told[d],
           pc' \in [Call -> Stages], DOMAIN asks' = Call, asks'[c] \in Request[c],
           since' \in [Call -> Nat], had' = had \/ had' = [had EXCEPT ![c] = {}], UNCHANGED told,
           ~Is(c, "move"), kind = "move" => Is(c, "move")',
           CallInv(c)'
    PROVE  Inv'
<1> USE DEF Inv, Post
<1>1. /\ Later
      /\ Len(cmds') = Len(cmds) + 1
      /\ DOMAIN cmds' = DOMAIN cmds \cup {Len(cmds) + 1}
      /\ \A i \in DOMAIN cmds : cmds'[i] = cmds[i]
      /\ cmds'[Len(cmds) + 1] = Queued(kind, c, film)
  BY LaterQueued
<1>2. mine'[c] = Len(cmds) + 1 /\ \A d \in Call \ {c} : mine'[d] = mine[d]
  BY <1>1 DEF TypeOK
<1>3. ASSUME NEW d \in Call \ {c} PROVE CallInv(d)'
  BY <1>1, <1>2, Bystander
<1>4. TypeOK'
  <2>1. mine' \in [Call -> {0} \cup DOMAIN cmds']
    BY <1>1, GrownTypes
  <2>2. had' \in [Call -> SUBSET DOMAIN cmds']
    BY GrownTypes, <1>1
  <2>3. \A d \in Call : asks'[d] \in Request[d] \cup {None}
    BY DEF TypeOK
  <2> QED
    BY <1>1, <2>1, <2>2, <2>3, GrownTypes DEF TypeOK, Later
<1>5. MoveOwners'
  <2> SUFFICES ASSUME NEW i \in DOMAIN cmds', cmds'[i].kind = "move"
               PROVE  (cmds[i].by \in Call /\ Is(cmds[i].by, "move") /\ mine[cmds[i].by] = i)'
    BY DEF MoveOwners
  <2>1. CASE i = Len(cmds) + 1
    BY <1>1, <1>2, <2>1 DEF Queued
  <2>2. CASE i \in DOMAIN cmds
    <3>1. cmds[i].by \in Call /\ Is(cmds[i].by, "move") /\ mine[cmds[i].by] = i /\ cmds'[i] = cmds[i]
      BY <1>1, <2>2 DEF MoveOwners
    <3>2. cmds[i].by # c
      BY <3>1
    <3> QED
      BY <1>2, <3>1, <3>2 DEF Is
  <2> QED
    BY <1>1, <2>1, <2>2
<1>6. BackupsListed'
  BY <1>1 DEF BackupsListed, Status, Queued
<1> QED
  BY <1>3, <1>4, <1>5, <1>6

(* A call posts its command.                                                *)
LEMMA PostCommandInv == ASSUME Inv, NEW c \in Call, PostCommand(c) PROVE Inv'
<1> DEFINE kind == CASE asks[c].tool = "run"    -> asks[c].kind
                     [] asks[c].tool = "backup" -> "backup"
                     [] asks[c].tool = "add"    -> "rescan"
           film == CASE asks[c].tool = "run"    -> asks[c].film
                     [] asks[c].tool = "backup" -> None
                     [] asks[c].tool = "add"    -> c
<1>1. CallInv(c) /\ TypeOK
  BY DEF Inv
<1>2. /\ pc[c] = "post" /\ pc' = [pc EXCEPT ![c] = "poll"] /\ asks[c] # None
      /\ asks[c] \in Request[c] /\ asks[c].tool \in {"run", "backup", "add"}
      /\ mine[c] = 0 /\ told[c] = "nothing"
      /\ UNCHANGED <<files, asks, since, had, told, gave>>
  BY <1>1 DEF PostCommand, Goes, CallInv, StageOf, TypeOK
<1>3. /\ kind \in {"task", "refresh", "rescan", "backup"} /\ film \in Call \cup {None}
      /\ asks[c].tool = "backup" => kind = "backup"
      /\ asks[c].tool = "add" => kind = "rescan"
  BY <1>2, CommandsAssumption
<1>4. Post(c, kind, film)
  <2>1. CASE asks[c].tool = "run"     BY <2>1 DEF PostCommand
  <2>2. CASE asks[c].tool = "backup"  BY <2>2 DEF PostCommand
  <2>3. CASE asks[c].tool = "add"     BY <2>3 DEF PostCommand
  <2> QED
    BY <1>2, <2>1, <2>2, <2>3
<1> HIDE DEF kind, film
<1>5. /\ Len(cmds') = Len(cmds) + 1
      /\ DOMAIN cmds' = DOMAIN cmds \cup {Len(cmds) + 1}
      /\ \A i \in DOMAIN cmds : cmds'[i] = cmds[i]
      /\ cmds'[Len(cmds) + 1] = Queued(kind, c, film)
      /\ mine'[c] = Len(cmds) + 1
      /\ Len(cmds) \in Nat /\ DOMAIN cmds = 1 .. Len(cmds)
  BY <1>1, <1>2, <1>3, <1>4, LaterQueued, Numbered DEF Post, TypeOK
<1>6. pc'[c] = "poll" /\ pc' \in [Call -> Stages]
  BY <1>1, <1>2 DEF TypeOK, Stages
<1>7. CallInv(c)'
  <2>1. StageOf(c)' /\ CancelOf(c)' /\ MoveOf(c)'
    BY <1>2, <1>5, <1>6 DEF StageOf, CancelOf, MoveOf, Is
  <2>2. ScanOf(c)'
    <3>1. CASE asks[c].tool = "add"
      <4>1. /\ since[c] \in Nat /\ since[c] <= Len(cmds) + 1 /\ since'[c] = since[c]
            /\ \A i \in Refreshes(c) : i >= since[c]
        BY <1>1, <1>2, <3>1 DEF CallInv, ScanOf, Is, TypeOK
      <4>2. Refreshes(c)' = Refreshes(c)
        BY <1>3, <1>5, <3>1 DEF Refreshes, Queued
      <4> QED
        BY <1>5, <1>6, <4>1, <4>2 DEF ScanOf
    <3>2. CASE asks[c].tool # "add"
      BY <1>2, <3>2 DEF ScanOf, Is
    <3> QED
      BY <3>1, <3>2
  <2>3. BackupOf(c)'
    BY <1>1, <1>2, <1>3, <1>5, <1>6 DEF BackupOf, Is, TypeOK, Queued
  <2> QED
    BY <2>1, <2>2, <2>3 DEF CallInv
<1>8. \A d \in Call \ {c} : pc'[d] = pc[d]
  BY <1>1, <1>2 DEF TypeOK
<1> QED
  <2>1. kind \in {"task", "refresh", "rescan", "move", "backup"} /\ kind # "move" /\ ~Is(c, "move")
    BY <1>2, <1>3 DEF Is
  <2>2. DOMAIN asks' = Call /\ asks'[c] \in Request[c] /\ since' \in [Call -> Nat] /\ had' = had /\ UNCHANGED told
    BY <1>1, <1>2 DEF TypeOK
  <2>3. \A d \in Call \ {c} : /\ pc'[d] = pc[d] /\ asks'[d] = asks[d] /\ since'[d] = since[d]
                              /\ had'[d] = had[d] /\ told'[d] = told[d]
    BY <1>2, <1>8
  <2> QED
    BY <1>2, <1>3, <1>4, <1>6, <1>7, <2>1, <2>2, <2>3, PostInv

(* A call begins.                                                           *)
LEMMA BeginInv == ASSUME Inv, NEW c \in Call, NEW rq \in Request[c], Begin(c, rq) PROVE Inv'
<1>1. /\ CallInv(c) /\ TypeOK /\ pc[c] = "new" /\ asks[c] = None /\ mine[c] = 0
      /\ told[c] = "nothing"
  BY DEF Inv, Begin, CallInv, StageOf, TypeOK
<1>2. /\ rq # None /\ rq.tool \in {"run", "backup", "add", "move", "cancel"}
      /\ asks' = [asks EXCEPT ![c] = rq]
      /\ UNCHANGED <<files, told, gave>>
      /\ had' = [had EXCEPT ![c] = IF rq.tool = "backup" THEN files ELSE {}]
  BY CommandsAssumption DEF Begin
<1>3. DOMAIN asks' = Call /\ asks'[c] = rq /\ \A d \in Call : asks'[d] \in Request[d] \cup {None}
  BY <1>1, <1>2 DEF TypeOK
<1>4. CASE rq.tool \in {"run", "backup", "add"}
  <2>1. /\ pc' = [pc EXCEPT ![c] = IF rq.tool = "add" THEN "look" ELSE "post"]
        /\ UNCHANGED <<cmds, mine, since>>
    <3>1. CASE rq.tool \in {"run", "backup"}  BY <3>1 DEF Begin, Goes
    <3>2. CASE rq.tool = "add"                BY <3>2 DEF Begin, Goes
    <3> QED
      BY <1>4, <3>1, <3>2
  <2>2. TypeOK'
    BY <1>1, <1>2, <1>3, <2>1 DEF TypeOK, Stages
  <2>3. Frame(c)
    BY <1>1, <1>2, <2>1 DEF Frame, TypeOK
  <2>4. CallInv(c)'
    BY <1>1, <1>2, <1>3, <1>4, <2>1
       DEF TypeOK, CallInv, StageOf, CancelOf, MoveOf, ScanOf, BackupOf, Is
  <2> QED
    BY <2>2, <2>3, <2>4, FrameInv
<1>5. CASE rq.tool = "cancel"
  <2>1. /\ pc' = [pc EXCEPT ![c] = "cancel"]
        /\ \E i \in DOMAIN cmds : mine' = [mine EXCEPT ![c] = i]
        /\ UNCHANGED <<cmds, since>>
    BY <1>5 DEF Begin, Goes
  <2>2. TypeOK'
    BY <1>1, <1>2, <1>3, <2>1 DEF TypeOK, Stages
  <2>3. Frame(c)
    BY <1>1, <1>2, <2>1 DEF Frame, TypeOK
  <2>4. CallInv(c)'
    BY <1>1, <1>2, <1>3, <1>5, <2>1, Numbered
       DEF TypeOK, CallInv, StageOf, CancelOf, MoveOf, ScanOf, BackupOf, Is
  <2> QED
    BY <2>2, <2>3, <2>4, FrameInv
<1>6. CASE rq.tool = "move"
  <2>1. /\ pc' = [pc EXCEPT ![c] = "moving"]
        /\ Post(c, "move", None) \/ UNCHANGED <<cmds, mine>>
    BY <1>6 DEF Begin, Goes
  <2> PICK i \in 1 .. Len(cmds) + 1 : since' = [since EXCEPT ![c] = i]
    BY <1>6 DEF Begin
  <2>2. /\ since' \in [Call -> Nat] /\ pc' \in [Call -> Stages] /\ had' = [had EXCEPT ![c] = {}]
        /\ since'[c] = i /\ i \in Nat \ {0} /\ pc'[c] = "moving"
    BY <1>1, <1>2, <1>6, <2>1, Numbered DEF TypeOK, Stages
  <2>3. CASE UNCHANGED <<cmds, mine>>
    <3>1. TypeOK'
      BY <1>1, <1>2, <1>3, <2>2, <2>3 DEF TypeOK
    <3>2. Frame(c)
      BY <1>1, <1>2, <2>1, <2>2, <2>3 DEF Frame, TypeOK
    <3>3. CallInv(c)'
      BY <1>1, <1>2, <1>3, <1>6, <2>2, <2>3
         DEF TypeOK, CallInv, StageOf, CancelOf, MoveOf, ScanOf, BackupOf, Is
    <3> QED
      BY <3>1, <3>2, <3>3, FrameInv
  <2>4. CASE Post(c, "move", None)
    <3>1. /\ cmds'[Len(cmds) + 1] = Queued("move", c, None)
          /\ mine'[c] = Len(cmds) + 1 /\ Len(cmds) \in Nat
      BY <1>1, <1>2, <2>4, LaterQueued, Numbered DEF Post, TypeOK
    <3>2. CallInv(c)'
      BY <1>1, <1>2, <1>3, <1>6, <2>2, <3>1
         DEF TypeOK, CallInv, StageOf, CancelOf, MoveOf, ScanOf, BackupOf, Is, Queued
    <3>3. \A d \in Call \ {c} : /\ pc'[d] = pc[d] /\ asks'[d] = asks[d] /\ since'[d] = since[d]
                                /\ had'[d] = had[d] /\ told'[d] = told[d]
      BY <1>1, <1>2, <2>1 DEF TypeOK, Begin
    <3>4. ~Is(c, "move") /\ Is(c, "move")'
      BY <1>1, <1>2, <1>3, <1>6 DEF Is
    <3> QED
      BY <1>2, <1>3, <2>2, <2>4, <3>2, <3>3, <3>4, PostInv
  <2> QED
    BY <2>1, <2>3, <2>4
<1> QED
  BY <1>2, <1>4, <1>5, <1>6

-----------------------------------------------------------------------------
(* What is left of the invariant when a command goes on.                    *)
LEMMA ChangedInv ==
    ASSUME Inv, UNCHANGED <<asks, mine>>, NEW i \in DOMAIN cmds, Status(i) \notin Final,
           NEW s \in Statuses, cmds' = [cmds EXCEPT ![i].status = s],
           files \subseteq files', files' \subseteq DOMAIN cmds,
           cmds[i].kind = "backup" /\ s = "completed" => i \in files'
    PROVE  MoveOwners' /\ BackupsListed'
<1>1. /\ Later
      /\ DOMAIN cmds' = DOMAIN cmds
      /\ \A j \in DOMAIN cmds \ {i} : cmds'[j] = cmds[j]
      /\ cmds'[i].status = s
  BY LaterChanged DEF Inv
<1>2. \A j \in DOMAIN cmds : cmds'[j].kind = cmds[j].kind /\ cmds'[j].by = cmds[j].by
  BY <1>1 DEF Later
<1>3. MoveOwners'
  BY <1>1, <1>2 DEF Inv, MoveOwners, Is
<1>4. BackupsListed'
  BY <1>1, <1>2 DEF Inv, BackupsListed, Status
<1> QED
  BY <1>3, <1>4

(* A command in the queue is asked to be taken out of it.                   *)
LEMMA CancelInv == ASSUME Inv, NEW c \in Call, Cancel(c) PROVE Inv'
<1>1. /\ CallInv(c) /\ TypeOK /\ pc[c] = "delete" /\ asks[c] # None /\ asks[c].tool = "cancel"
      /\ mine[c] # 0 /\ mine[c] \in DOMAIN cmds
      /\ UNCHANGED <<files, asks, mine, since, had, gave>>
  BY DEF Inv, Cancel, CallInv, StageOf, CancelOf, Is, TypeOK
<1>2. CASE Status(mine[c]) # "queued"
  <2>1. pc' = [pc EXCEPT ![c] = "done"] /\ told' = [told EXCEPT ![c] = "started"] /\ UNCHANGED cmds
    BY <1>2 DEF Cancel, Ends, Goes
  <2>2. TypeOK' /\ Frame(c)
    BY <1>1, <2>1 DEF TypeOK, Frame, Stages
  <2>3. CallInv(c)'
    BY <1>1, <2>1 DEF TypeOK, CallInv, StageOf, CancelOf, MoveOf, ScanOf, BackupOf, Is
  <2> QED
    BY <2>2, <2>3, FrameInv
<1>3. CASE Status(mine[c]) = "queued"
  <2>1. /\ pc' = [pc EXCEPT ![c] = "done"] /\ told' = [told EXCEPT ![c] = "cancelled"]
        /\ cmds' = [cmds EXCEPT ![mine[c]].status = "cancelled"]
    BY <1>3 DEF Cancel, Ends, Goes
  <2>2. Status(mine[c]) \notin Final /\ "cancelled" \in Statuses /\ files \subseteq DOMAIN cmds
    BY <1>1, <1>3 DEF Final, Statuses, TypeOK
  <2>3. /\ Later
        /\ DOMAIN cmds' = DOMAIN cmds
        /\ cmds'[mine[c]].status = "cancelled"
    BY <1>1, <2>1, <2>2, LaterChanged
  <2>4. MoveOwners' /\ BackupsListed'
    BY <1>1, <2>1, <2>2, ChangedInv
  <2>5. TypeOK'
    BY <1>1, <2>1, <2>3 DEF TypeOK, Later, Stages, Final
  <2>6. CallInv(c)'
    BY <1>1, <2>1, <2>3
       DEF TypeOK, CallInv, StageOf, CancelOf, MoveOf, ScanOf, BackupOf, Is, Status
  <2>7. ASSUME NEW d \in Call \ {c} PROVE CallInv(d)'
    BY <1>1, <2>1, <2>3, Bystander DEF Inv, TypeOK
  <2> QED
    BY <2>4, <2>5, <2>6, <2>7 DEF Inv
<1> QED
  BY <1>2, <1>3

(* Radarr starts a command, or ends it.                                     *)
LEMMA RunsInv ==
    ASSUME Inv, NEW i \in DOMAIN cmds, NEW how \in {"completed", "failed"}, Start(i) \/ End(i, how)
    PROVE  Inv'
<1>1. TypeOK /\ UNCHANGED <<pc, asks, mine, since, had, told, gave>> /\ Status(i) \notin Final
  BY DEF Inv, Start, End, Final
<1> PICK s \in {"started", how} :
       /\ cmds' = [cmds EXCEPT ![i].status = s]
       /\ files' = IF cmds[i].kind = "backup" /\ s = "completed" THEN files \cup {i} ELSE files
  BY DEF Start, End
<1>2. /\ s \in Statuses /\ files \subseteq files' /\ files' \subseteq DOMAIN cmds
      /\ cmds[i].kind = "backup" /\ s = "completed" => i \in files'
  BY <1>1 DEF Statuses, Final, TypeOK
<1>3. Later /\ DOMAIN cmds' = DOMAIN cmds
  BY <1>1, <1>2, LaterChanged
<1>4. MoveOwners' /\ BackupsListed'
  BY <1>1, <1>2, ChangedInv
<1>5. TypeOK'
  BY <1>1, <1>3 DEF TypeOK, Later
<1>6. ASSUME NEW d \in Call PROVE CallInv(d)'
  BY <1>1, <1>3, Bystander DEF Inv
<1> QED
  BY <1>4, <1>5, <1>6 DEF Inv

(* Radarr comes to refresh a film that was added.                           *)
LEMMA RefreshAddedInv == ASSUME Inv, NEW c \in Call, RefreshAdded(c) PROVE Inv'
<1>1. TypeOK /\ UNCHANGED <<files, pc, asks, mine, since, had, told, gave>>
      /\ cmds' = Append(cmds, Queued("refresh", Radarr, c))
  BY DEF Inv, RefreshAdded
<1>2. /\ Later
      /\ DOMAIN cmds' = DOMAIN cmds \cup {Len(cmds) + 1}
      /\ \A i \in DOMAIN cmds : cmds'[i] = cmds[i]
      /\ cmds'[Len(cmds) + 1] = Queued("refresh", Radarr, c)
  BY <1>1, LaterQueued
<1>3. TypeOK'
  BY <1>1, <1>2, GrownTypes DEF TypeOK, Later
<1>4. ASSUME NEW d \in Call PROVE CallInv(d)'
  BY <1>1, <1>2, Bystander DEF Inv
<1>5. MoveOwners' /\ BackupsListed'
  BY <1>1, <1>2 DEF Inv, MoveOwners, BackupsListed, Is, Status, Queued
<1> QED
  BY <1>3, <1>4, <1>5 DEF Inv

-----------------------------------------------------------------------------
(* Every step keeps the invariant.                                          *)
LEMMA StepInv == Inv /\ [Next]_vars => Inv'
<1> SUFFICES ASSUME Inv, [Next]_vars PROVE Inv'
  OBVIOUS
<1>1. ASSUME UNCHANGED vars PROVE Inv'
  <2>1. UNCHANGED <<cmds, files, pc, asks, mine, since, had, told, gave>>
    BY <1>1 DEF vars
  <2>2. TypeOK'
    BY <2>1 DEF Inv, TypeOK
  <2>3. Later
    BY <2>1, LaterSame DEF Inv, TypeOK
  <2>4. ASSUME NEW d \in Call PROVE CallInv(d)'
    BY <2>1, <2>3, Bystander DEF Inv
  <2>5. MoveOwners' /\ BackupsListed'
    BY <2>1 DEF Inv, MoveOwners, BackupsListed, Is, Status
  <2> QED
    BY <2>2, <2>4, <2>5 DEF Inv
<1>2. ASSUME NEW c \in Call, NEW rq \in Request[c], Begin(c, rq) PROVE Inv'
  BY <1>2, BeginInv
<1>3. ASSUME NEW c \in Call, Steps(c) PROVE Inv'
  BY <1>3, PostCommandInv, PollInv, PollBackupInv, ListBackupsInv, LookInv, LookMovesInv,
     SeenNoneInv, DeadlineInv, ReadCommandInv, CancelInv DEF Steps
<1>4. ASSUME NEW c \in Call, ReadFails(c) \/ RefreshAdded(c) PROVE Inv'
  BY <1>4, ReadFailsInv, RefreshAddedInv
<1>5. ASSUME NEW i \in DOMAIN cmds, Start(i) \/ \E how \in {"completed", "failed"} : End(i, how)
      PROVE  Inv'
  BY <1>5, RunsInv
<1> QED
  BY <1>1, <1>2, <1>3, <1>4, <1>5 DEF Next

(* The invariant holds of every behaviour.                                  *)
THEOREM Invariance == Spec => []Inv
BY InitInv, StepInv, PTL DEF Spec

-----------------------------------------------------------------------------
(* Whatever Radarr makes of its commands, the state keeps its types.        *)
THEOREM TypeCorrect == Spec => []TypeOK
<1>1. Inv => TypeOK
  BY DEF Inv
<1> QED
  BY <1>1, Invariance, PTL

(* A command that task_cancel answers was taken out of the queue never runs *)
(* (admin.go:248).                                                          *)
THEOREM NeverRuns == Spec => []CancelledNeverRan
<1>1. Inv => CancelledNeverRan
  BY DEF Inv, CallInv, CancelOf, CancelledNeverRan
<1> QED
  BY <1>1, Invariance, PTL

(* What an edit answers of its move is so (movie_edits.go:656).             *)
THEOREM MovesToldTrue == Spec => []MoveToldTrue
<1>1. Inv => MoveToldTrue
  <2> SUFFICES ASSUME Inv, NEW c \in Call, Is(c, "move"), told[c] = "failed",
                      \A d \in Call \ {c} : ~Is(d, "move")
               PROVE  mine[c] # 0 /\ Status(mine[c]) = "failed"
    BY DEF Inv, CallInv, MoveOf, MoveToldTrue
  <2>1. /\ since[c] \in Nat \ {0} /\ DOMAIN cmds = 1 .. Len(cmds) /\ Len(cmds) \in Nat
        /\ Failed(Moves(c))
    BY Numbered DEF Inv, CallInv, MoveOf, TypeOK
  <2> PICK i \in Moves(c) : Status(i) = "failed"
    BY <2>1 DEF Failed
  <2>2. i \in DOMAIN cmds /\ cmds[i].kind = "move"
    BY <2>1 DEF Moves
  <2>3. cmds[i].by = c /\ mine[c] = i
    BY <2>2 DEF Inv, MoveOwners
  <2> QED
    BY <2>1, <2>2, <2>3
<1> QED
  BY <1>1, Invariance, PTL

(* movie_add posts no rescan beside a refresh it could have seen            *)
(* (movie_edits.go:508), and answers without one only of a film that was    *)
(* scanned.                                                                 *)
THEOREM ScansUnseen == Spec => []AddScanned
<1>1. Inv => AddScanned
  BY DEF Inv, CallInv, ScanOf, AddScanned
<1> QED
  BY <1>1, Invariance, PTL

(* A backup that completed is found, and never answered as missing          *)
(* (server.go:347).                                                         *)
THEOREM FindsBackup == Spec => []BackupFound
<1>1. Inv => BackupFound
  BY DEF Inv, CallInv, BackupOf, BackupFound
<1> QED
  BY <1>1, Invariance, PTL
=============================================================================
