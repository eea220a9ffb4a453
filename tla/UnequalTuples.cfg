CONSTANT Sources <- MCSources
SPECIFICATION Spec
INVARIANT OnlyEqualityOfTuples
CHECK_DEADLOCK FALSE
