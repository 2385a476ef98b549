SPECIFICATION Spec
CONSTANT N = 2
INVARIANT AllCompletedMeansAll
CHECK_DEADLOCK FALSE
