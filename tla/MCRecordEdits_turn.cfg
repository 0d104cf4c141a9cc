\* Three calls of any kind that meet in two records: edits by id and by name,
\* of either field or of the name, deletes confirmed and not, and adds. No name
\* spells an id. A turn ends, so deadlock is not checked.
SPECIFICATION Spec
CONSTANTS
    Call = {c1, c2, c3}
    Id = {1, 2}
    Name = {11, 12}
    Kinds = {"record", "provider", "profile"}
    GivesUp = FALSE
    Request <- PlainRequests
    limit = limit
    switch = switch
    Field = {limit, switch}
    Switch = switch
    Base = Base
    Keep = Keep
    Unborn = Unborn
    Gone = Gone
    NoRequest = NoRequest
SYMMETRY Symmetry
INVARIANTS TypeOK CopyIsCurrent WritesWhatItLocked
PROPERTIES ActsAtOnce
CHECK_DEADLOCK FALSE
