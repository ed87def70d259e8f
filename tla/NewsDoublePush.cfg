SPECIFICATION Spec
CONSTANTS
    Articles = {a1}
    Readers = {u1}
    Runs = {n1, n2}
    Cap = 1
    Quota = 1
    NoPair = NoPair
INVARIANT NeverPushedTwice
CHECK_DEADLOCK FALSE
