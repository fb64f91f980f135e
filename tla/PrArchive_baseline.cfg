\* A second hydration starts before the first bundle is written.
SPECIFICATION Spec
CONSTANTS
  MaxId = 4
  PageSize = 2
  MaxPages = 2
  TailK = 1
  WalkBack = 1
  Depth = 1
  MaxFaults = 0
INVARIANTS QuietIsExact
