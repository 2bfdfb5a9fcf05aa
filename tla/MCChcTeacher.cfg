CONSTANTS
  FalseDp = FalseDp
  Valuation <- Values
  VerifierError = "verifier.error"
  Renamed <- QAt
  Formula <- Formulas
  Height <- PartCount
  Systems <- AllSystems
  Point <- Points
  Relation = {"p", "q@"}
  RelationOf <- PQ
  Wide <- WidePoints
  Problems <- AllProblems
SPECIFICATION Spec
INVARIANTS
  TypeOK
  SuccessIsSolution
  BreaksOffOnlyIfUnsolvable
  RoundMakesProgress
  IdentifiersArePositions
  CounterexamplesAreSound
  CounterexamplesRefute
PROPERTIES
  Terminates
CHECK_DEADLOCK FALSE
