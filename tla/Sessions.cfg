CONSTANTS
  Messages = 3
  None = None
  Cap = 3
  ResetAt = 3
  MaxResets = 1
  MaxDeletes = 1
  MaxRestarts = 1
CHECK_DEADLOCK FALSE
SPECIFICATION FairSpec
INVARIANTS TypeOK StopMeansSilence FreshAfterReset NothingLost
PROPERTIES ImplementsQueue MessagesEnd
