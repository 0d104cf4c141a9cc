\* Two calls, a restore and a delete, and one record.
\* A turn ends, so deadlock is not checked.
SPECIFICATION Spec
CONSTANTS
    Call = {c1, c2}
    Id = {1}
    Name = {11}
    Kinds = {"record"}
    GivesUp = FALSE
    Request <- AloneRequests
    limit = limit
    switch = switch
    Field = {limit, switch}
    Switch = switch
    Base = Base
    Keep = Keep
    Unborn = Unborn
    Gone = Gone
    NoRequest = NoRequest
PROPERTIES NoWriteWhileAlone
CHECK_DEADLOCK FALSE
