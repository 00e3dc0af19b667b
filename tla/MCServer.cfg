CONSTANTS
  Index <- MCIndex
  EnvForm <- MCEnvForm
  Loaded <- LoadConfig
  Decoded <- MCDecoded
  Paths <- MCPaths
  Registry <- MCRegistry
  Starts <- MCStarts
  Conns = {c1, c2}
  Grace = 2
  None = None
SPECIFICATION Spec
INVARIANTS TypeOK OverridesAreLocal ToolsAreAsConfigured GraceIsGiven
PROPERTIES ProcessEnds
CHECK_DEADLOCK FALSE
