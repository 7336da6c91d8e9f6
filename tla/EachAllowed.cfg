\* Two fixtures, two SDKs, every order of the walk.
SPECIFICATION Spec
CONSTANTS
  RecordedRuns <- MCRecordedRuns
  Answers <- MCAnswers
  NoId = "no id"
INVARIANTS EachIndividuallyAllowed
CHECK_DEADLOCK FALSE
