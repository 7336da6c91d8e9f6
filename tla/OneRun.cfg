\* One process, every fixture, declaration and answer of the small instance.
SPECIFICATION FairSpec
CONSTANTS
  Runs = {r1}
  NumSdks = 1
  SdkName <- OneName
  Suites <- MCSuites
  Declarations <- MCDeclarations
  Answers <- MCAnswers
  PublicApiVariants = TRUE
  MaxClock = 1
  Nothing = Nothing
  Directory = Directory
  Mixed = Mixed
INVARIANTS TypeOK HooksDeclared NoMisleadingPass PassIsEarned NoFailureLost ResultsAreOwn
PROPERTIES KeepsPromise Terminates
CHECK_DEADLOCK FALSE
