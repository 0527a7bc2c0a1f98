SPECIFICATION FairNSpec
CONSTANTS
  Nobody = Nobody
  Comments = {c1, c2}
  Deletions = {}
  Posts = {p1}
  Users = {u1, u2}
  MaxFaults = 3
CHECK_DEADLOCK FALSE
INVARIANTS
  NTypeOK
  MailsTrue
  NothingLost
PROPERTIES
  IsLossyStream
  NoticeArrives
