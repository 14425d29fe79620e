CONSTANTS
  Instances <- MCInstances
  Limits = {3, 100}
  Ratios = {0, 2, 100}
SPECIFICATION TranslateSpec
INVARIANTS TranslationsExact SearchExact
CHECK_DEADLOCK FALSE
