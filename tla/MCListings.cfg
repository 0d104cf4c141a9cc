\* A client that walks a list and a call that takes rows off it.  Up to four
\* rows, made before or while they run, of which one may go by itself; pages of
\* Radarr's of two rows, so that a list has up to two; limits of none given,
\* two, and more than the most, which is three; offsets before the start and in
\* the middle of a page.
\* A walk ends, so deadlock is not checked.
SPECIFICATION Spec
CONSTANTS
    c1 = c1
    c2 = c2
    Call = {c1, c2}
    Request <- Requests
    DefaultLimit = 1
    MaxLimit = 3
    PageSize = 2
    Rows = 4
    Losses = 1
    None = None
INVARIANTS TypeOK StillShownAsIs NothingMissed RemovedWereThere
CHECK_DEADLOCK FALSE
