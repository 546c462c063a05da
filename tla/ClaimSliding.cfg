CONSTANTS
  Subject = {"alice"}
  PerMinute = 2
  Parts = 1
  Window = 3
  MaxTime = 6
SPECIFICATION Spec
INVARIANT SlidingWindow
