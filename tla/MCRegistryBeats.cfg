SPECIFICATION FairSpec
CONSTANTS
  Nil = Nil
  NoCall = NoCall
  OtherVal = OtherVal
  Services = {auth}
  Addresses = {a1}
  OtherKeys = {}
  Handlers = {h1, h2}
  ServiceTTL = 6
  HeartbeatDelay = 3
  RetryDelay = 1
  RetryAttempts = 2
  MaxLatency = 1
  DownCap = 8
  MaxFaults = 0
PROPERTIES
  HeartbeatsKeepListed
