SPECIFICATION Spec
CONSTANTS
    s1 = s1
    s2 = s2
    Streams = {s1}
    Menu <- Positions
    MaxFaults = 0
INVARIANT IntegerArguments
CHECK_DEADLOCK FALSE
