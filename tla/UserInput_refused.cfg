SPECIFICATION Spec
CONSTANTS
    Request = {1, 2}
    Click = {1}
    MaxFaults = 0
INVARIANT FormForEveryQuestion
CHECK_DEADLOCK FALSE
