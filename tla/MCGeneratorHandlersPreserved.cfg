\* Two operations whose ids differ only in case; the same document twice.
SPECIFICATION Spec
CONSTANTS
  r1 = r1
  r2 = r2
  r3 = r3
  r4 = r4
  Ids = {"addLabels", "addlabels"}
  Requests = {r2, r4}
  Documents <- OneDocument
  PascalCase <- MCPascalCase
  ToLower <- MCToLower
  Identifiers <- MCIdentifiers
  Filters <- NoFilters
  MaxRuns = 2
  MaxEdits = 1
  None = None
  Garbage = Garbage
  Twice = Twice
INVARIANT
  HandlersPreserved
CHECK_DEADLOCK FALSE
