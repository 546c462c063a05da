CONSTANTS
  c1 = c1
  c2 = c2
  c3 = c3
  n1 = n1
  n2 = n2
  redis = redis
  None = None
  NoNonce = NoNonce
  NoCommand = NoCommand
  Channel <- Kinds
  Sender <- MCSender
  Command = {}
  Token <- MCToken
  LowerCase <- MCLowerCase
  Rules <- MCRules
  Registered <- Kinds
  EnabledFanoutTargets <- MCTargets
  Addresses <- MCAddresses
  Stalling = {}
  Node = {n1, n2}
  Store = {redis}
  Redis = {redis}
  StoreOf <- MCStoreOf
  Call = {c1, c2, c3}
  Posts <- MCPosts
  StatusKey <- MCStatusKey
  AllowedSenders = {"ann", "key1"}
  Mint <- MCMint
  Message <- MCMessage
  ReplayTtl = 1
  IdempotencyTtl = 2
  Faults = {"send"}
  MaxTime = 1
  MaxCrashes = 0
SPECIFICATION NetworkSpec
INVARIANTS
  TextTakenTwiceExplained
  EchoesEnd
