SPECIFICATION InboxSpec
CONSTANTS
  Sends = {s1}
  Passes = {p1, p2}
  Keys = {k1}
  Marks = {m1, m2}
  Dms = {d1}
  Groups = {g1}
  Requests = {r1, r2}
  Never = Never
  NoChat = NoChat
  RoomMessages = 1
  BellMessages = 2
  PlaceMessages = 3
  PlaceTime = 4
  Milli = 2
  PageRows = 1
  HalfRows = 1
  Second = 3
  Stale = 4
  MaxTime = 15
SYMMETRY Symmetry
INVARIANTS
  InboxTypeOK
  FeedIsPaidFor
  AnswersAreWhole
PROPERTIES
  MembersAreTold
  SpacesMessages
  BellSettles
CHECK_DEADLOCK FALSE
