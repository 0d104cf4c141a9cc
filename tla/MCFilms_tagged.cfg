\* As MCFilms.cfg: an edit points a film at a folder while a tag_delete takes
\* its tag off the film.
SPECIFICATION Spec
CONSTANTS
    c1 = c1
    c2 = c2
    c3 = c3
    Call = {c1, c2, c3}
    f1 = f1
    f2 = f2
    x = x
    y = y
    Film = {f1, f2}
    Tag = {1, 2, 3}
    Label = {x, y}
    Kept <- KeptLabels
    Tagged = {f1}
    Addable = {f2}
    Request <- Requests
    MaxFaults = 0
    Base = Base
    NotGiven = NotGiven
    Absent = Absent
    Gone = Gone
    Unused = Unused
    Deleted = Deleted
    Nothing = Nothing
INVARIANTS CopyIsCurrent
CHECK_DEADLOCK FALSE
