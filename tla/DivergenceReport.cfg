\* Two fixtures and two SDKs, one fixture and four SDKs, every order of the walk.
SPECIFICATION Spec
CONSTANTS
  RecordedRuns <- MCRecordedRuns
  Answers <- MCAnswers
  NoId = "no id"
INVARIANTS LookupInv RowsShowTheirOwnCodes PassingSplitsAreAllowed UnequalSkipsAreExplained
  TargetsIgnoreOrder MatrixAgreesWithTable BehaviorSplitsAreFailures CoverageIsEarned
CHECK_DEADLOCK FALSE
