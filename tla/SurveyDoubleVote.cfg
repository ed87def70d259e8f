SPECIFICATION Spec
CONSTANTS
    Options = {o1, o2}
    Ballots = {b1, b2}
    Nothing = Nothing
INVARIANT SecondSubmitAddsNothing
CHECK_DEADLOCK FALSE
