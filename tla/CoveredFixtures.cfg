\* The reference and a port, the port run twice.
SPECIFICATION Spec
CONSTANTS
  Suites <- MCSuites
  Lanes = {"go", "port"}
  First = "go"
  Second = "port"
  Answers <- MCAnswers
  LiveAnswers <- MCLiveAnswers
  NumLive = 3
  LiveFacts = {"digest"}
  Taxonomy = {"POLICY", "QUOTE"}
  DeclaredStages <- AllDeclared
  MaxLaneRuns <- RerunPort
INVARIANT CoveredFixturesPass
CHECK_DEADLOCK FALSE
