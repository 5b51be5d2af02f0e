SPECIFICATION ObserverFairSpec
CONSTANTS
  Builders = {b1}
  BatchSize = 2
  None = none
  MaxJournal = 3
  MaxFaults = 1
  MaxRebuilds = 1
  FeedLimit = 2
  PageLimit = 2
  Requests = {r1, r2}
  MaxVisits = 1
INVARIANTS FeedUnbroken SnapshotMissesNothing MapTellsItsEvent SilentOnlyAfterReset
PROPERTIES ViewerFollows
