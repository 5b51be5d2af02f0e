SPECIFICATION FairSpec
CONSTANTS
  Builders = {b1, b2}
  BatchSize = 2
  None = none
  MaxJournal = 3
  MaxFaults = 1
  MaxRebuilds = 2
INVARIANTS TypeOK FeedIsWhole CardsAtPosition
PROPERTIES ProjectionFollows ImplementsFeed
