SPECIFICATION FairSpec
CONSTANTS
  Requests <- ManyRequests
  Registrations <- Routes
  Modes <- Mode
  MaxRequests = 2
  StreamLength = 1
INVARIANTS ExchangeTypeOK BuffersOutliveTheirWrite RequestsToldOnceWhole CutOnlyAfterClose AnswersMatch
PROPERTY EveryRequestIsAnswered
CHECK_DEADLOCK FALSE
