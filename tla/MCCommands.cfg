\* Three calls: two that each wait for a command, an add, a move or a backup,
\* that meet in one film, and one that cancels a command.  Radarr queues one
\* refresh of the film added.
\* Calls end, so deadlock is not checked.
SPECIFICATION FairSpec
CONSTANTS
    c1 = c1
    c2 = c2
    c3 = c3
    Call = {c1, c2, c3}
    Request <- Requests
    Radarr = Radarr
    None = None
INVARIANTS TypeOK CancelledNeverRan MoveToldTrue AddScanned BackupFound
PROPERTIES WaitsEnd
CHECK_DEADLOCK FALSE
