SPECIFICATION Spec
CONSTANT MaxGenerations = 3
INVARIANT TakenOverHasRuntime
