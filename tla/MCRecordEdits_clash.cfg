\* Two records, one with the other's id for a name, and two edits.
\* A turn ends, so deadlock is not checked.
SPECIFICATION Spec
CONSTANTS
    Call = {c1, c2}
    Id = {1, 2}
    Name = {2, 11}
    Kinds = {"record", "provider"}
    GivesUp = FALSE
    Request <- ClashRequests
    limit = limit
    switch = switch
    Field = {limit, switch}
    Switch = switch
    Base = Base
    Keep = Keep
    Unborn = Unborn
    Gone = Gone
    NoRequest = NoRequest
INVARIANTS WritesWhatItLocked
CHECK_DEADLOCK FALSE
