SPECIFICATION Spec
CONSTANTS
  Operators = {o1, o2}
  Releases <- MCReleases
  Registry <- MCRegistry
  Bundles <- MCBundles
  Profile <- MCProfile
  MaxAttempts = 2
  None = none
  MaxJournal = 2
  MaxJobs = 5
  MaxFaults = 1
CHECK_DEADLOCK FALSE
SYMMETRY OperatorSymmetry
INVARIANTS ContractAlone
PROPERTIES MigratedIsReady MatchIsTrue AlarmIsTrue
