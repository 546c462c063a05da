CONSTANTS
  Environment <- MCEnvironment
  Request = {r1, r2}
  Message = {m1}
  Signal = {SIGINT, SIGTERM}
SPECIFICATION FairSpec
INVARIANTS
  TypeOK
  CleanExit
  ConnectedWhileServing
  StoresOutliveAdapters
  ErrorExitExplained
  AwaitedIsToCome
PROPERTY SignalEndsProcess
