SPECIFICATION CalmSpec
CONSTANTS
  NoRow = NoRow
  NullRow = NullRow
  Null = Null
  Users = {u1}
  Texts = {x1}
  Requests = {r1}
INVARIANTS
  GetAnswered
