CONSTANTS
  MaxRuns = 2
  MaxManagers = 3
SPECIFICATION FairSpec
INVARIANTS
  TypeOK
  ReadyMeansSetUp
  SignalConserved
  AnswersFromSameSegment
PROPERTIES
  HandshakeCompletes
CHECK_DEADLOCK FALSE
