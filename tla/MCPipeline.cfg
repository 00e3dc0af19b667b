\* Pipelines of one and three steps, lists of up to two elements.
SPECIFICATION FairSpec
CONSTANTS
  Pipelines <- AllPipelines
  Fields = {"b", "q"}
  Defaults = {"q"}
  MaxItems = 2
INVARIANTS
  TypeOK
  ContextsAreIsolated
  AdmittedToolsRun
  AnswerIsEarned
PROPERTIES
  CallsEnd
CHECK_DEADLOCK FALSE
