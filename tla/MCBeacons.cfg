SPECIFICATION MCSpec
CONSTANTS
  Users = {u1, u2}
  BeaconIds = {b1, b2, b3}
  Requests = {r1, r2}
  Runs = {k1, k2}
  NoUser = NoUser
  MaxBeacons = 1
SYMMETRY Symmetry
INVARIANTS
  TypeOK
  SlotsBounded
  MatchesAreStamped
PROPERTIES
  RunsKeepOff
CHECK_DEADLOCK FALSE
