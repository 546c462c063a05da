CONSTANTS
  c1 = c1
  c2 = c2
  n1 = n1
  n2 = n2
  n3 = n3
  redis = redis
  memory = memory
  None = None
  NoNonce = NoNonce
  NoCommand = NoCommand
  Channel <- MCChannel
  Sender <- MCSender
  Command <- MCCommand
  Token <- MCToken
  LowerCase <- MCLowerCase
  Rules <- MCRulesShort
  Registered <- MCRegistered
  EnabledFanoutTargets <- MCEnabled
  Addresses <- MCAddresses
  Stalling <- MCStalling
  Node = {n1, n3}
  Store = {redis, memory}
  Redis = {redis}
  StoreOf <- OneOfEach
  Call = {c1, c2}
  Message <- Resent
  ReplayTtl = 1
  IdempotencyTtl = 2
  Faults = {"idempotency", "crash"}
  MaxTime = 2
  MaxCrashes = 1
SPECIFICATION Spec
SYMMETRY CallSymmetry
PROPERTIES ImplementsContract NonceHeldUntilExpiry
