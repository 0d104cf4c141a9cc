------------------------------ MODULE Commands ------------------------------
(***************************************************************************)
(* The commands Radarr runs in the background, and the tools that wait for *)
(* one: those that post it and follow its id (ran and WaitForCommand),     *)
(* movie_add, which looks for the refresh Radarr starts of its own         *)
(* (waitForNewMovie), an edit that moves folders (waitForMove),            *)
(* server_backup_create and task_cancel.  Calls run side by side; a        *)
(* deadline or a period of grace may pass at any time.                     *)
(***************************************************************************)
EXTENDS Naturals, Sequences

CONSTANTS
    Call,
    Request,    \* Request[c]: what call c may be asked
    Radarr,     \* who queues a command no call posted
    None        \* no request, no film, no command

ASSUME CommandsAssumption ==
    /\ Radarr \notin Call /\ None \notin Call
    /\ \A c \in Call : \A rq \in Request[c] :
          /\ rq # None
          /\ rq.tool \in {"run", "backup", "add", "move", "cancel"}
          /\ rq.tool = "run" => /\ rq.kind \in {"task", "refresh", "rescan", "backup"}
                               /\ rq.film \in Call \cup {None}

VARIABLES
    cmds,   \* the commands, in the order they were queued
    files,  \* the commands whose backups Radarr lists
    pc,     \* where each call is
    asks,   \* what it was asked
    mine,   \* the command it posted, is to cancel, or whose move its edit queued
    since,  \* the first command its wait for a move counts, or its last look did not see
    had,    \* the backups it listed first
    told,   \* what it answered of its command: how it stood, or an error that does not say
    gave    \* the backup it answered with

vars == <<cmds, files, pc, asks, mine, since, had, told, gave>>

Final == {"completed", "failed", "cancelled"}   \* aborted and orphaned go as cancelled
Command == [kind : {"task", "refresh", "rescan", "move", "backup"}, by : Call \cup {Radarr},
            film : Call \cup {None},    \* the film the call of that name adds
            status : Final \cup {"queued", "started"}]

Stages == {"new", "post", "poll", "list", "look", "unseen", "moving", "cancel", "delete", "done", "failed"}

TypeOK == /\ cmds \in Seq(Command)
          /\ files \in SUBSET DOMAIN cmds
          /\ pc \in [Call -> Stages]
          /\ DOMAIN asks = Call /\ \A c \in Call : asks[c] \in Request[c] \cup {None}
          /\ mine \in [Call -> {0} \cup DOMAIN cmds]
          /\ since \in [Call -> Nat]
          /\ had \in [Call -> SUBSET DOMAIN cmds]
          /\ told \in [Call -> Final \cup {"queued", "started", "nothing", "error"}]
          /\ gave \in [Call -> {0} \cup DOMAIN cmds]

Init == /\ cmds = <<>>
        /\ files = {}
        /\ pc = [c \in Call |-> "new"]
        /\ asks = [c \in Call |-> None]
        /\ mine = [c \in Call |-> 0]
        /\ since = [c \in Call |-> 0]
        /\ had = [c \in Call |-> {}]
        /\ told = [c \in Call |-> "nothing"]
        /\ gave = [c \in Call |-> 0]

-----------------------------------------------------------------------------
Goes(c, to) == pc' = [pc EXCEPT ![c] = to]
Ends(c, how, word) == Goes(c, how) /\ told' = [told EXCEPT ![c] = word]

Queued(kind, by, film) == [kind |-> kind, by |-> by, film |-> film, status |-> "queued"]
(* c posts a command and has its id.                                        *)
Post(c, kind, film) == /\ cmds' = Append(cmds, Queued(kind, c, film))
                       /\ mine' = [mine EXCEPT ![c] = Len(cmds')]

Status(i) == cmds[i].status
Refreshes(c) == {i \in DOMAIN cmds : cmds[i].kind = "refresh" /\ cmds[i].film = c}
Moves(c) == {i \in since[c] .. Len(cmds) : cmds[i].kind = "move"}
Pending(is) == \E i \in is : Status(i) \notin Final
Failed(is) == \E i \in is : Status(i) = "failed"

-----------------------------------------------------------------------------
(* Slips these waits could have made, each caught by a property below.      *)
LookAlways(c) ==                \* a refresh that is pending taken for none
    /\ pc[c] = "look"
    /\ \/ Failed(Refreshes(c)) /\ Ends(c, "failed", "failed") /\ UNCHANGED since
       \/ /\ ~Failed(Refreshes(c))
          /\ IF Refreshes(c) # {} /\ ~Pending(Refreshes(c))
             THEN Ends(c, "done", "completed") /\ UNCHANGED since
             ELSE /\ Goes(c, "unseen")
                  /\ since' = [since EXCEPT ![c] = Len(cmds) + 1]
                  /\ UNCHANGED told
    /\ UNCHANGED <<cmds, files, asks, mine, had, gave>>

LookMovesOnce(c) ==             \* one look at the moves, whatever is pending
    /\ pc[c] = "moving"
    /\ IF Failed(Moves(c)) THEN Ends(c, "failed", "failed") ELSE Ends(c, "done", "completed")
    /\ UNCHANGED <<cmds, files, asks, mine, since, had, gave>>

CancelAnyway(c) ==              \* a conflict taken for a cancelled command
    /\ pc[c] = "delete"
    /\ cmds' = IF Status(mine[c]) = "queued" THEN [cmds EXCEPT ![mine[c]].status = "cancelled"] ELSE cmds
    /\ Ends(c, "done", "cancelled")
    /\ UNCHANGED <<files, asks, mine, since, had, gave>>

BackupUnlisted(c) ==            \* the backups listed first once the command is posted
    /\ pc[c] = "poll"
    /\ asks[c].tool = "backup"
    /\ Status(mine[c]) \in Final
    /\ had' = [had EXCEPT ![c] = files]
    /\ IF Status(mine[c]) = "completed"
       THEN Goes(c, "list") /\ UNCHANGED told
       ELSE Ends(c, "failed", Status(mine[c]))
    /\ UNCHANGED <<cmds, files, asks, mine, since, gave>>

PollFinished(c) ==              \* an answer without the id it is of
    /\ pc[c] = "poll"
    /\ asks[c].tool # "backup"
    /\ Status(mine[c]) \in Final
    /\ Ends(c, IF Status(mine[c]) = "failed" THEN "failed" ELSE "done", Status(mine[c]))
    /\ mine' = [mine EXCEPT ![c] = Len(cmds) + 1]
    /\ UNCHANGED <<cmds, files, asks, since, had, gave>>

DeadlineForPosted(c) ==         \* only a command that was posted has a deadline
    /\ pc[c] = "poll"
    /\ Status(mine[c]) \notin Final
    /\ Ends(c, "done", Status(mine[c]))
    /\ UNCHANGED <<cmds, files, asks, mine, since, had, gave>>

-----------------------------------------------------------------------------
(* A call begins: a film is added, a list of backups read, an edit sent     *)
(* (which queues its move before it is answered, if there is one), or a     *)
(* command chosen to cancel; a plain command is posted.  The moves an edit  *)
(* waits for are those queued up to two seconds before it was sent, by      *)
(* Radarr's clock and the server's taken to agree: its own, and any number  *)
(* of the commands before it.                                               *)
Begin(c, rq) ==
    /\ pc[c] = "new"
    /\ asks' = [asks EXCEPT ![c] = rq]
    /\ CASE rq.tool \in {"run", "backup"} -> Goes(c, "post") /\ UNCHANGED <<cmds, mine, since>>
         [] rq.tool = "add" -> Goes(c, "look") /\ UNCHANGED <<cmds, mine, since>>
         [] rq.tool = "move" ->
              /\ Goes(c, "moving")
              /\ \E i \in 1 .. Len(cmds) + 1 : since' = [since EXCEPT ![c] = i]
              /\ Post(c, "move", None) \/ UNCHANGED <<cmds, mine>>
         [] rq.tool = "cancel" ->
              /\ \E i \in DOMAIN cmds : mine' = [mine EXCEPT ![c] = i]
              /\ Goes(c, "cancel")
              /\ UNCHANGED <<cmds, since>>
    /\ had' = [had EXCEPT ![c] = IF rq.tool = "backup" THEN files ELSE {}]
    /\ UNCHANGED <<files, told, gave>>

(* <Name>AndWait: the command posted, and then asked after by its id.  An   *)
(* add whose refresh was not seen posts a rescan of its own.                *)
PostCommand(c) ==
    /\ pc[c] = "post"
    /\ CASE asks[c].tool = "run"    -> Post(c, asks[c].kind, asks[c].film)
         [] asks[c].tool = "backup" -> Post(c, "backup", None)
         [] asks[c].tool = "add"    -> Post(c, "rescan", c)
    /\ Goes(c, "poll")
    /\ UNCHANGED <<files, asks, since, had, told, gave>>

(* WaitForCommand: one that failed is an error, one that ended otherwise,   *)
(* cancelled or orphaned too, an answer.                                    *)
Poll(c) ==
    /\ pc[c] = "poll"
    /\ asks[c].tool # "backup"
    /\ Status(mine[c]) \in Final
    /\ Ends(c, IF Status(mine[c]) = "failed" THEN "failed" ELSE "done", Status(mine[c]))
    /\ UNCHANGED <<cmds, files, asks, mine, since, had, gave>>

(* A backup that did not complete is an error; one that did is looked for   *)
(* among the backups: the newest that was not listed before.                *)
PollBackup(c) ==
    /\ pc[c] = "poll"
    /\ asks[c].tool = "backup"
    /\ Status(mine[c]) \in Final
    /\ IF Status(mine[c]) = "completed"
       THEN Goes(c, "list") /\ UNCHANGED told
       ELSE Ends(c, "failed", Status(mine[c]))
    /\ UNCHANGED <<cmds, files, asks, mine, since, had, gave>>

ListBackups(c) ==
    /\ pc[c] = "list"
    /\ IF files \subseteq had[c]
       THEN Ends(c, "failed", "completed") /\ UNCHANGED gave
       ELSE /\ \E b \in files \ had[c] : gave' = [gave EXCEPT ![c] = b]
            /\ Ends(c, "done", "completed")
    /\ UNCHANGED <<cmds, files, asks, mine, since, had>>

(* waitForNewMovie: the commands are read, and it is over once every        *)
(* refresh of the film that is listed has ended; with none listed, it       *)
(* scans itself if by now the grace is over, and else looks again.  When    *)
(* that is, is left open: the clock is read once the answer has come.       *)
Look(c) ==
    /\ pc[c] = "look"
    /\ \/ Failed(Refreshes(c)) /\ Ends(c, "failed", "failed") /\ UNCHANGED since
       \/ /\ Refreshes(c) # {}
          /\ ~Pending(Refreshes(c))
          /\ ~Failed(Refreshes(c))
          /\ Ends(c, "done", "completed")
          /\ UNCHANGED since
       \/ /\ Refreshes(c) = {}
          /\ Goes(c, "unseen")
          /\ since' = [since EXCEPT ![c] = Len(cmds) + 1]
          /\ UNCHANGED told
    /\ UNCHANGED <<cmds, files, asks, mine, had, gave>>

SeenNone(c) ==
    /\ pc[c] = "unseen"
    /\ Goes(c, "post") \/ Goes(c, "look")
    /\ UNCHANGED <<cmds, files, asks, mine, since, had, told, gave>>

(* waitForMove: over once every move queued since it began has ended, and   *)
(* an error if one failed.                                                  *)
LookMoves(c) ==
    /\ pc[c] = "moving"
    /\ \/ Failed(Moves(c)) /\ Ends(c, "failed", "failed")
       \/ ~Failed(Moves(c)) /\ ~Pending(Moves(c)) /\ Ends(c, "done", "completed")
    /\ UNCHANGED <<cmds, files, asks, mine, since, had, gave>>

(* The deadline: an answer for a command posted, but for a backup; an error *)
(* for a film added, which does not look again, or a move.                  *)
Deadline(c) ==
    /\ pc[c] \in {"poll", "look", "unseen", "moving"}
    /\ IF pc[c] = "poll"
       THEN /\ Status(mine[c]) \notin Final
            /\ Ends(c, IF asks[c].tool = "backup" THEN "failed" ELSE "done", Status(mine[c]))
       ELSE Ends(c, "failed", "error")
    /\ UNCHANGED <<cmds, files, asks, mine, since, had, gave>>

(* task_cancel: a command read as queued is asked for, any other left; and  *)
(* Radarr answers a conflict when it has started since.                     *)
ReadCommand(c) ==
    /\ pc[c] = "cancel"
    /\ IF Status(mine[c]) = "queued"
       THEN Goes(c, "delete") /\ UNCHANGED told
       ELSE Ends(c, "done", Status(mine[c]))
    /\ UNCHANGED <<cmds, files, asks, mine, since, had, gave>>

Cancel(c) ==
    /\ pc[c] = "delete"
    /\ IF Status(mine[c]) = "queued"
       THEN /\ cmds' = [cmds EXCEPT ![mine[c]].status = "cancelled"]
            /\ Ends(c, "done", "cancelled")
       ELSE Ends(c, "done", "started") /\ UNCHANGED cmds
    /\ UNCHANGED <<files, asks, mine, since, had, gave>>

(* What is read of the commands or the backups does not come, or the call   *)
(* is cancelled: an error, and the command goes on.                         *)
ReadFails(c) ==
    /\ pc[c] \in {"poll", "list", "look", "unseen", "moving", "cancel"}
    /\ Ends(c, "failed", "error")
    /\ UNCHANGED <<cmds, files, asks, mine, since, had, gave>>

-----------------------------------------------------------------------------
(* Radarr: starts a command and ends it; refreshes a film that has been     *)
(* added, when it comes to it.                                              *)
Start(i) ==
    /\ Status(i) = "queued"
    /\ cmds' = [cmds EXCEPT ![i].status = "started"]
    /\ UNCHANGED <<files, pc, asks, mine, since, had, told, gave>>

End(i, how) ==
    /\ Status(i) = "started"
    /\ cmds' = [cmds EXCEPT ![i].status = how]
    /\ files' = IF cmds[i].kind = "backup" /\ how = "completed" THEN files \cup {i} ELSE files
    /\ UNCHANGED <<pc, asks, mine, since, had, told, gave>>

RefreshAdded(c) ==
    /\ asks[c] # None /\ asks[c].tool = "add"
    /\ \A i \in Refreshes(c) : cmds[i].by # Radarr
    /\ cmds' = Append(cmds, Queued("refresh", Radarr, c))
    /\ UNCHANGED <<files, pc, asks, mine, since, had, told, gave>>

-----------------------------------------------------------------------------
Steps(c) == \/ PostCommand(c) \/ Poll(c) \/ PollBackup(c) \/ ListBackups(c)
            \/ Look(c) \/ SeenNone(c) \/ LookMoves(c) \/ Deadline(c)
            \/ ReadCommand(c) \/ Cancel(c)

Next == \/ \E c \in Call : \/ \E rq \in Request[c] : Begin(c, rq)
                           \/ Steps(c)
                           \/ ReadFails(c)
                           \/ RefreshAdded(c)
        \/ \E i \in DOMAIN cmds : Start(i) \/ \E how \in {"completed", "failed"} : End(i, how)

Spec == Init /\ [][Next]_vars

(* A call goes on, and its deadline comes, however often it looks before.   *)
(* Nothing is asked of Radarr: a command may stay queued for ever.          *)
FairSpec == Spec /\ \A c \in Call : WF_vars(Steps(c)) /\ WF_vars(Deadline(c))

-----------------------------------------------------------------------------
Is(c, tool) == asks[c] # None /\ asks[c].tool = tool

(* A command that task_cancel answered was "taken out of the queue before   *)
(* it started" (admin.go:248) never runs, whatever it did between being     *)
(* read and being asked for.                                                *)
CancelledNeverRan ==
    \A c \in Call : Is(c, "cancel") /\ told[c] = "cancelled" => Status(mine[c]) = "cancelled"

(* An edit that moves answers when its own move has ended and has not       *)
(* failed; when no other call moves anything, it fails for its own.  With   *)
(* another's move queued within the two seconds it may fail for that one.   *)
MoveToldTrue ==
    \A c \in Call : Is(c, "move") =>
       /\ pc[c] = "done" /\ mine[c] # 0 => Status(mine[c]) \in Final \ {"failed"}
       /\ /\ told[c] = "failed"
          /\ \A d \in Call \ {c} : ~Is(d, "move")
          => mine[c] # 0 /\ Status(mine[c]) = "failed"

(* A film added is waited for "rather than starting a scan beside"          *)
(* Radarr's (movie_edits.go:133): movie_add posts a rescan of its own only  *)
(* of a film no refresh of which was listed when it last looked, so that    *)
(* any there is was queued after that; and without one it answers only when *)
(* a refresh of the film has ended and not failed.  A refresh queued after  *)
(* the look makes a second scan: nothing prevents that.                     *)
AddScanned ==
    \A c \in Call : Is(c, "add") =>
       /\ mine[c] # 0 => \A i \in Refreshes(c) : i >= since[c]
       /\ pc[c] = "done" => \/ mine[c] # 0
                            \/ \E i \in Refreshes(c) : Status(i) \in Final \ {"failed"}

(* A backup that completed is found among those that were not listed before *)
(* (server.go:347), so "no new backup is listed" is never answered of one.  *)
BackupFound ==
    \A c \in Call : Is(c, "backup") =>
       /\ pc[c] = "list" => mine[c] \in files \ had[c]
       /\ ~(pc[c] = "failed" /\ told[c] = "completed")

(* Every wait ends, though Radarr never gets to the command.                *)
WaitsEnd == \A c \in Call : pc[c] # "new" ~> pc[c] \in {"done", "failed"}
=============================================================================
