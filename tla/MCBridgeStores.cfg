CONSTANTS
  c1 = c1
  c2 = c2
  n1 = n1
  n2 = n2
  n3 = n3
  redis = redis
  memory = memory
  None = None
  NoNonce = NoNonce
  NoCommand = NoCommand
  Channel <- MCChannel
  Sender <- MCSender
  Command <- MCCommand
  Token <- MCToken
  LowerCase <- MCLowerCase
  Rules <- MCRulesNoFanout
  Registered <- MCRegistered
  EnabledFanoutTargets <- MCEnabled
  Addresses <- MCAddresses
  Stalling <- MCStalling
  Node = {n1, n2, n3}
  Store = {redis, memory}
  Redis = {redis}
  StoreOf <- Mixed
  Call = {c1, c2}
  Message <- Redelivered
  ReplayTtl = 2
  IdempotencyTtl = 3
  Faults = {"replay", "idempotency", "gateway", "crash"}
  MaxTime = 3
  MaxCrashes = 1
SPECIFICATION Spec
SYMMETRY CallSymmetry
INVARIANTS TypeOK ReplaySpacing SecondIngestExplained ReplayRefusedForCause
           MarkedMeansTaken
