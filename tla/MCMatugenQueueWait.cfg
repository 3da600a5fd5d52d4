SPECIFICATION Spec
CONSTANT MaxJobs = 3
INVARIANT CompletedMeansBuilt
CHECK_DEADLOCK FALSE
