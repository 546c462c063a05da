CONSTANTS
  c1 = c1
  c2 = c2
  n1 = n1
  n2 = n2
  n3 = n3
  redis = redis
  memory = memory
  None = None
  NoNonce = NoNonce
  NoCommand = NoCommand
  Channel <- MCChannel
  Sender <- MCSender
  Command <- MCCommand
  Token <- MCToken
  LowerCase <- MCLowerCase
  Rules <- MCRulesNoFanout
  Registered <- MCRegistered
  EnabledFanoutTargets <- MCEnabled
  Addresses <- MCAddresses
  Stalling <- MCStalling
  Node = {n1}
  Store = {memory}
  Redis = {}
  StoreOf <- OneMemory
  Call = {c1, c2}
  Message <- Resent
  ReplayTtl = 2
  IdempotencyTtl = 3
  Faults = {}
  MaxTime = 0
  MaxCrashes = 0
SPECIFICATION Spec
INVARIANT AtMostOncePerId
