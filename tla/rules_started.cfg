SPECIFICATION Spec
CONSTANTS
  a = a
  b = b
  c = c
  NoIO = NoIO
  IOs = {a, b, c}
  RuleIds = {1, 4}
  AtLoad = {1, 4}
  Watches <- Watch
  Needs <- Need
  Writes <- Act
  Scripted = {}
  StartRules = {4}
  Marked = {}
  HubWrites <- Hub
  Reads = 1
  MaxScripts = 1
PROPERTIES
  StartRulesRun
