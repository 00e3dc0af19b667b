\* Three runs over three documents, with and without a filter, and one edit.
SPECIFICATION Spec
CONSTANTS
  r1 = r1
  r2 = r2
  r3 = r3
  r4 = r4
  Ids = {"getUser", "addLabels", "addlabels", "2fa"}
  Requests = {r1, r2, r3, r4}
  Documents <- Evolving
  PascalCase <- MCPascalCase
  ToLower <- MCToLower
  Identifiers <- MCIdentifiers
  Filters <- MCFilters
  MaxRuns = 3
  MaxEdits = 1
  None = None
  Garbage = Garbage
  Twice = Twice
INVARIANTS
  TypeOK
  RunsAreWhole
  HandlersSurvive
CHECK_DEADLOCK FALSE
