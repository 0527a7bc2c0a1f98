SPECIFICATION Spec
CONSTANTS
  Nil = Nil
  Blacklisted = Blacklisted
  Tokens = {t1}
  Requests = {r1, r2, r3}
  TokenLife = 2
  TicksPerSecond = 2
  MaxSec = 4
  MaxFaults = 1
SYMMETRY Symmetry
CHECK_DEADLOCK FALSE
INVARIANTS
  TypeOK
  NoUseAfterLogout
  BlacklistOutlives
