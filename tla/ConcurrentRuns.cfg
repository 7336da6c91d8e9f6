\* Two processes and a clock that may or may not tick between them.
SPECIFICATION Spec
CONSTANTS
  Runs = {r1, r2}
  NumSdks = 2
  SdkName <- TwoNames
  Suites <- OneFixture
  Declarations <- FullSdk
  Answers <- TwoAnswers
  PublicApiVariants = FALSE
  MaxClock = 2
  Nothing = Nothing
  Directory = Directory
  Mixed = Mixed
SYMMETRY Symmetry
INVARIANTS LatestComplete ReportsKept LatestLostOnlyMidSwap LatestNewest PublishInv
CHECK_DEADLOCK FALSE
