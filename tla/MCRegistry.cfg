SPECIFICATION Spec
CONSTANTS
  Nil = Nil
  NoCall = NoCall
  OtherVal = OtherVal
  Services = {auth}
  Addresses = {a1, a2}
  OtherKeys = {}
  Handlers = {h1, h2}
  ServiceTTL = 8
  HeartbeatDelay = 3
  RetryDelay = 1
  RetryAttempts = 2
  MaxLatency = 2
  DownCap = 11
  MaxFaults = 2
SYMMETRY Symmetry
INVARIANTS
  TypeOK
  FreshLeaseHeld
  DeadForgotten
  OwnAddress
