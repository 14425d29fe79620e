CONSTANTS
  Instances <- MCInstances
  Limits = {3, 100}
  Ratios = {0, 2, 100}
SPECIFICATION TranslateSpec
INVARIANTS ObjectiveBelowLimit
CHECK_DEADLOCK FALSE
