SPECIFICATION Spec
CONSTANTS
  Tuples = {0, 1}
  Capacity = 2
  Scenarios <- MCScenarios
INVARIANTS FallbackValidated
