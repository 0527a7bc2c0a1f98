SPECIFICATION FairDSpec
CONSTANTS
  Nil = Nil
  NoCall = NoCall
  OtherVal = OtherVal
  Services = {auth}
  Addresses = {a1}
  OtherKeys = {jti}
  Handlers = {h1}
  ServiceTTL = 5
  HeartbeatDelay = 2
  RetryDelay = 1
  RetryAttempts = 3
  MaxLatency = 1
  DownCap = 10
  RefreshInterval = 2
  MaxFaults = 1
INVARIANTS
  DTypeOK
  RoutesForgotten
  RoutesHeld
PROPERTIES
  RegistrationCompletes
  RouteAppears
