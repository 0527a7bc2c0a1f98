SPECIFICATION Spec
CONSTANTS
  NoRow = NoRow
  NullRow = NullRow
  Null = Null
  Users = {u1, u2}
  Texts = {x1, x2}
  Requests = {r1, r2, r3}
SYMMETRY Symmetry
INVARIANTS
  TypeOK
PROPERTIES
  UpdateKept
  StuckStays
  IsRegister
