\* Three callers and two keys: two can share a key, or be kept apart by the
\* third; All can meet readers, parked readers and another All. As many locks
\* as keys: the safety run shows no more are ever wanted.
SPECIFICATION FairSpec
CONSTANTS
    Proc = {p1, p2, p3}
    Key = {1, 2}
    Lock = {l1, l2}
    NoProc = NoProc
    NoLock = NoLock
PROPERTIES ByGranted AllGranted GrantsAtOnce
