\* Three calls over two films and two labels: one edits, one edits, adds or
\* deletes, one adds, deletes or changes the tags, in the requests MCFilms
\* lists. One request of the three calls may fail, and a write may be carried
\* out after it has. Three tag ids are enough: one is there at first, and each
\* label is created at most once more. A turn ends, so deadlock is not checked.
SPECIFICATION FairSpec
CONSTANTS
    c1 = c1
    c2 = c2
    c3 = c3
    Call = {c1, c2, c3}
    f1 = f1
    f2 = f2
    x = x
    y = y
    Film = {f1, f2}
    Tag = {1, 2, 3}
    Label = {x, y}
    Kept <- KeptLabels
    Tagged = {f1}
    Addable = {f2}
    Request <- Requests
    MaxFaults = 1
    Base = Base
    NotGiven = NotGiven
    Absent = Absent
    Gone = Gone
    Unused = Unused
    Deleted = Deleted
    Nothing = Nothing
INVARIANTS TypeOK PointUndoesOnlyTagDeletes EditStands RaceIsNoError AddedOnce
PROPERTIES HeldIsOwn Answered
CHECK_DEADLOCK FALSE
