SPECIFICATION FairSpec
CONSTANTS
  Workers = {w1, w2}
  Poll = 4
  Minutes = 2
  Beats = 3
  Planned = {2, 9}
  Lengths = {4}
  Strides = {4}
  MaxOrders = 2
  MaxTroubles = 1
  MaxElapsed = 40
  None = none
INVARIANTS DelayIsBounded
PROPERTIES NeverEarly WaitsEnd
