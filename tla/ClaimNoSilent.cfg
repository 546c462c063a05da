CONSTANTS
  c1 = c1
  c2 = c2
  n1 = n1
  n2 = n2
  n3 = n3
  redis = redis
  memory = memory
  None = None
  NoNonce = NoNonce
  NoCommand = NoCommand
  Channel <- MCChannel
  Sender <- MCSender
  Command <- MCCommand
  Token <- MCToken
  LowerCase <- MCLowerCase
  Rules <- MCRules
  Registered <- MCRegistered
  EnabledFanoutTargets <- MCEnabled
  Addresses <- MCAddresses
  Stalling <- MCStalling
  Node = {n1}
  Store = {redis}
  Redis = {redis}
  StoreOf <- OneRedis
  Call = {c1}
  Message <- Redelivered
  ReplayTtl = 1
  IdempotencyTtl = 1
  Faults = {"audit"}
  MaxTime = 0
  MaxCrashes = 1
SPECIFICATION Spec
INVARIANT NoSilentFailure
