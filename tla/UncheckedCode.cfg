\* One process, every fixture, declaration and answer of the small instance.
SPECIFICATION Spec
CONSTANTS
  Runs = {r1}
  NumSdks = 1
  SdkName <- OneName
  Suites <- MCSuites
  Declarations <- MCDeclarations
  Answers <- MCAnswers
  PublicApiVariants = TRUE
  MaxClock = 1
  Nothing = Nothing
  Directory = Directory
  Mixed = Mixed
INVARIANT ListedCodeIsEarned
CHECK_DEADLOCK FALSE
