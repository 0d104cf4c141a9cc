\* Three calls and one record, of a provider or a profile: a restore, beside an
\* edit and a delete, or an add that is forced. Any call may give up with its
\* write unanswered.
\* A turn ends, so deadlock is not checked: Answered is.
SPECIFICATION FairSpec
CONSTANTS
    Call = {c1, c2, c3}
    Id = {1}
    Name = {11}
    Kinds = {"provider", "profile"}
    GivesUp = TRUE
    Request <- AloneRequests
    limit = limit
    switch = switch
    Field = {limit, switch}
    Switch = switch
    Base = Base
    Keep = Keep
    Unborn = Unborn
    Gone = Gone
    NoRequest = NoRequest
PROPERTIES LockedKeepClear Answered
CHECK_DEADLOCK FALSE
