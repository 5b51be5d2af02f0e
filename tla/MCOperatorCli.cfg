SPECIFICATION CliSpec
CONSTANTS
  Clients = {c1}
  Operators = {c1}
  CommandIds = {id1}
  Intents = {go}
  Expectations = {0, 1, unchecked}
  Times = {0, 1}
  MaxEvents = 1
  MaxSequence = 1
  MaxAttempts = 1
  Unchecked = unchecked
  Nobody = nobody
  None = none
INVARIANTS RepeatIsRecognised
