SPECIFICATION IndexSpec
CONSTANTS
  t1 = t1
  t2 = t2
  s1 = s1
  s2 = s2
  tool = tool
  other = other
  shell = shell
  padded = padded
  Turns <- TwoTurns
  Servers <- TwoServers
  Names <- AllNames
  Shell = shell
  PaddedShells <- Padded
  ShellProvider = ShellProvider
  McpProvider = McpProvider
  Nobody = Nobody
  MaxChanges = 2
SYMMETRY Symmetry
INVARIANTS OfferedToolsRouted ShellStaysOurs
CHECK_DEADLOCK FALSE
