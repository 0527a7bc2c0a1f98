SPECIFICATION NSpec
CONSTANTS
  Nobody = Nobody
  Comments = {c1}
  Deletions = {}
  Posts = {p1}
  Users = {u1}
  MaxFaults = 1
CHECK_DEADLOCK FALSE
INVARIANTS
  FailedIsRequeued
