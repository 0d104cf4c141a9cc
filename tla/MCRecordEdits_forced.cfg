\* Two calls: a forced add, and an edit of what it adds.
\* A turn ends, so deadlock is not checked.
SPECIFICATION Spec
CONSTANTS
    Call = {c1, c2}
    Id = {1, 2}
    Name = {11}
    Kinds = {"provider"}
    GivesUp = FALSE
    Request <- AloneRequests
    limit = limit
    switch = switch
    Field = {limit, switch}
    Switch = switch
    Base = Base
    Keep = Keep
    Unborn = Unborn
    Gone = Gone
    NoRequest = NoRequest
PROPERTIES NothingUndone
CHECK_DEADLOCK FALSE
