CONSTANTS
  Call = {c1, c2}
  Subject = {"alice"}
  PerMinute = 3
  Parts = 2
  Window = 2
  KeyTtl = 3
  MaxDelay = 1
  MaxTime = 5
  MaxCount = 3
SPECIFICATION LimiterSpec
INVARIANTS TypeOK MinuteBound CounterExact WindowBound EternalKeysExplained
