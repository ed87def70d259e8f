SPECIFICATION Spec
CONSTANTS
  Sends = {s1, s2}
  MaxMessages = 2
  Never = Never
SYMMETRY Symmetry
INVARIANTS
  TypeOK
  BarHolds
  ShownAgain
PROPERTIES
  ToldRightly
CHECK_DEADLOCK FALSE
