SPECIFICATION FairSpec
CONSTANTS
  ServerId = {6}
  PipeMax = 1
  MaxServing = 1
  None = None
INVARIANTS TurnIsVerified WritesHaveTheirAuthor
PROPERTIES RequestsAreRefused StartupEnds SessionEnds
CHECK_DEADLOCK FALSE
