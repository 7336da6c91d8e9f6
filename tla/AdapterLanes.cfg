\* The reference and a port, the port run twice.
SPECIFICATION Spec
CONSTANTS
  Suites <- MCSuites
  Lanes = {"go", "port"}
  First = "go"
  Second = "port"
  Answers <- MCAnswers
  LiveAnswers <- MCLiveAnswers
  NumLive = 3
  LiveFacts = {"digest"}
  Taxonomy = {"POLICY", "QUOTE"}
  DeclaredStages <- AllDeclared
  MaxLaneRuns <- RerunPort
INVARIANTS ReportInv ExitMatchesReport ComparedWhole IdenticalMeansSameStatus PassesAgree LiveAgreed
PROPERTY PortIsJudgedByVerdicts
CHECK_DEADLOCK FALSE
