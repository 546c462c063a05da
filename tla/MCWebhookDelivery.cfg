CONSTANTS
  redis = redis
  memory = memory
  None = None
  Absent = Absent
  Unknown = "unknown"
  Name <- MCName
  LowerCase <- MCLowerCase
  Allowed <- MCAllowed
  RequireDkimPass = TRUE
  StatusChat = "room"
  Call = {c1, c2}
  Feeds <- MCFeeds
  Adapters <- MCAdapters
  IngressOf <- MCIngressOf
  Place = {redis, memory}
  Expiring = {redis}
  Ttl = 1
  CommitTtl = 2
  MaxTime = 2
SPECIFICATION Spec
SYMMETRY CallSymmetry
INVARIANTS
  RepeatTakenExplained
  KeyTakenExplained
  IdTakenExplained
  TakenIsVouchedFor
  AnswerKept
