SPECIFICATION Spec
CONSTANTS Day = 2  TimeRange = 99420  LastYear = 2107
INVARIANT SecondsSinceEpoch
CHECK_DEADLOCK FALSE
