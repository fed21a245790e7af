\* One or two items, so that a slice truncated inside its body is reached.
CONSTANTS
  Values = {0, 128}
  Strings <- MCStrings
  MaxItems = 2
  ProbeValues = {0}
SPECIFICATION Spec
CHECK_DEADLOCK FALSE
INVARIANT FailureKeepsInput
