SPECIFICATION Spec
CONSTANTS
  Clients = {c1, c2}
  CommandIds = {id1, id2}
  Intents = {go}
  Expectations = {0, unchecked}
  Times = {0, 1}
  MaxEvents = 2
  MaxSequence = 3
  MaxAttempts = 1
  Unchecked = unchecked
  Nobody = nobody
  None = none
SYMMETRY HandlerSymmetry
INVARIANTS TypeOK JournalIsWhole EffectOnce ToldWhatIsRecorded AcceptedAsExpected LockHeld
PROPERTIES AttemptsKeepNewest AnswersNeverChange ImplementsLog
