SPECIFICATION CardsSpec
CONSTANTS
    Request = {1, 2}
    Click = {1, 2}
    MaxFaults = 2
    Press = {1, 2}
    MaxTurn = 2
    Source = Source
    Target = Target
    Other = Other
    NoPress = NoPress
    MaxFailures = 2
    MaxHitches = 4
CONSTRAINTS
    Hard
    InOrder
INVARIANTS
    CardsTypeOK
    AnswerRecordedTruly
    ClosedWithTheTurn
    ButtonsToldTruly
    AnswerSeenOnce
PROPERTIES
    CallsEnd
\* A job that ended asks nothing more, and its buttons do nothing.
CHECK_DEADLOCK FALSE
