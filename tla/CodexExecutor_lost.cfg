SPECIFICATION Spec
CONSTANTS
    m1 = m1
    m2 = m2
    Call = {1, 2, 3}
    Message = {m1, m2}
    MessageOf <- MCMessageOf
    WhenBusy <- MCWhenBusy
    MaxThread = 2
    MaxFaults = 2
INVARIANTS
    FailureWasSeen
CHECK_DEADLOCK FALSE
