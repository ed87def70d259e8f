SPECIFICATION ReceiptsSpec
CONSTANTS
  Senders = {s1, s2}
  Sends = {h1, h2}
  Connections = {c1}
  Opens = {}
  MaxMessages = 2
  MayFail = FALSE
  NoSender = NoSender
INVARIANTS
  BackfillHandlesLater
CHECK_DEADLOCK FALSE
