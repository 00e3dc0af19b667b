\* Shows that require is not looked at inside a foreach.
SPECIFICATION Spec
CONSTANTS
  Pipelines <- OddPipelines
  Fields = {"b", "q"}
  Defaults = {"q"}
  MaxItems = 2
INVARIANTS
  RequireHoldsInside
CHECK_DEADLOCK FALSE
