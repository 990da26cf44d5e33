CONSTANTS
  Depth = 2
  Pipelines <- MCPipelines
  Size = 4
  SideSize = 2
  Failures <- MCFailures
  MaxNext = 5
  MaxCalls = 12
SPECIFICATION FairSpec
INVARIANTS AnswersInOrder ShuffleInWindow PacesUpstream
PROPERTIES NextAnswers
CHECK_DEADLOCK FALSE
