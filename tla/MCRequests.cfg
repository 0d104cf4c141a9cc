\* Three calls, so that a library read has a leader, one who joins it and one
\* who comes after; one may write first. A request is sent up to twice, which
\* tells a first try from a last (three times differs by one more round).
\* Nothing else is bounded: Radarr may refuse, lose or delay any answer, and any
\* call be cancelled. A call ends, so deadlock is not checked.
SPECIFICATION FairSpec
CONSTANTS
    Call = {c1, c2, c3}
    Editors = {c1}
    Tries = 2
    None = None
INVARIANTS TypeOK AtMostOnce AnswerTrue OneLibraryRead SparedOthersCancel ShowsTheEdit
PROPERTIES CallsEnd
CHECK_DEADLOCK FALSE
