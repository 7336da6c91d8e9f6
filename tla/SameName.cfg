\* Two --sdk options with one name.
SPECIFICATION Spec
CONSTANTS
  Runs = {r1}
  NumSdks = 2
  SdkName <- SameNames
  Suites <- OneFixture
  Declarations <- FullSdk
  Answers <- TwoAnswers
  PublicApiVariants = FALSE
  MaxClock = 1
  Nothing = Nothing
  Directory = Directory
  Mixed = Mixed
INVARIANT NoFailureLost
CHECK_DEADLOCK FALSE
