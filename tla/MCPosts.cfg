SPECIFICATION Spec
CONSTANTS
  Nobody = Nobody
  All = All
  Null = Null
  Ids = {p1, p2}
  Users = {u1, u2}
  Tags = {t1}
  Requests = {r1, r2}
  PageSize = 1
  MaxMoves = 2
  MaxFaults = 1
SYMMETRY Symmetry
INVARIANTS
  TypeOK
  FewMissed
  FewRepeated
  TotalAgrees
PROPERTIES
  IsOwnership
  OnlyAuthorsWrite
