SPECIFICATION Spec
CONSTANTS
  Nobody = Nobody
  Comments = {c1, c2}
  Deletions = {d1, d2}
  Posts = {p1}
  Users = {u1, u2}
  MaxFaults = 2
SYMMETRY Symmetry
CHECK_DEADLOCK FALSE
INVARIANTS
  TypeOK
  DeletedOnce
  AnnouncedOnce
  AuthorsNamed
