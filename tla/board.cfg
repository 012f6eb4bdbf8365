SPECIFICATION Spec
CONSTANTS
  Day = 3
  MaxTime = 34
  TempMr = 1
  TempOsr = 0
  PrsMr = 1
  PrsOsr = 4
  Recommended = 1
  Values = {"rate", "other"}
INVARIANT TypeOK
INVARIANT Blind
INVARIANT KeepsPublishing
INVARIANT MeasuresAsConfigured
INVARIANT Compensated
PROPERTY FreshUnlessTick
CHECK_DEADLOCK FALSE
