\* Three callers, three keys: any two calls can overlap in one key and differ
\* in another, and a circle of three is possible. Four lock objects: one more
\* than the keys, so that a second object for a key could appear.
SPECIFICATION Spec
CONSTANTS
    Proc = {p1, p2, p3}
    Key = {1, 2, 3}
    Lock = {l1, l2, l3, l4}
    NoProc = NoProc
    NoLock = NoLock
SYMMETRY Symmetry
INVARIANTS TypeOK OneLockPerKey HoldersExact InsideHoldsAll NoWaitCycle NothingLeftBehind
