SPECIFICATION Spec
CONSTANTS
  Images = {i1}
  Languages = {l1}
  Requests = {r1, r2}
  MaxEdits = 1
  Speech = Speech
  Nothing = Nothing
INVARIANT DeletedStaysUnread
