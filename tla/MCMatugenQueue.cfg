SPECIFICATION FairSpec
CONSTANT MaxJobs = 3
INVARIANT TypeOK
INVARIANT QueueIsSound
PROPERTY EveryJobResolved
PROPERTY LatestWins
CHECK_DEADLOCK FALSE
