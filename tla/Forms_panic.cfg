SPECIFICATION Spec
CONSTANTS
  None = None
  Pieces <- MCPieces
  IpLiterals <- MCIpLiterals
  Half = 131072
  InitSettings <- MCInitSettings
  RuleEntries <- MCRuleEntries
  DnsKinds = {"local", "name"}
  Mtus = {100, 1500}
  ShareLinks <- MCShareLinks
  Bodies <- MCBodies
  Typed <- MCTyped
  Destinations <- MCDestinations
  MaxEdits = 0
PROPERTIES
  SavingKeepsTheGuiAlive
