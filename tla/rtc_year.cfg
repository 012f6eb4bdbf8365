SPECIFICATION Spec
CONSTANTS Day = 2  TimeRange = 99420  LastYear = 2107
INVARIANT RightExceptLeapMarch
PROPERTY StepsOfOne
CHECK_DEADLOCK FALSE
