SPECIFICATION FairSpec
CONSTANTS
  Workers = {w1, w2}
  Actions <- MCActions
  Orders = {10}
  Planned <- MCPlanned
  Spawns <- MCSpawns
  Delay <- MCDelay
  Replaces <- MCReplaces
  Stubborn <- MCStubborn
  BatchSize = 2
  MaxTime = 1
  MaxFaults = 1
  Nobody = nobody
INVARIANTS TypeOK RowsTellOutcome HappensOnce UninterruptedSame
PROPERTIES InDueOrder ScheduleServed
