SPECIFICATION Spec
CONSTANTS
  Images = {i1, i2}
  Languages = {l1, l2}
  Requests = {r1, r2}
  MaxEdits = 2
  Speech = Speech
  Nothing = Nothing
SYMMETRY Symmetry
CONSTRAINT FewLoose
INVARIANTS
  TypeOK
  RecordsAgree
  ModerationSettles
PROPERTIES
  TranslationsStay
