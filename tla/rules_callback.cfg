SPECIFICATION Spec
CONSTANTS
  a = a
  b = b
  c = c
  NoIO = NoIO
  IOs = {a, b, c}
  RuleIds = {1, 2}
  AtLoad = {1, 2}
  Watches <- Watch
  Needs <- Need
  Writes <- Act
  Scripted = {}
  StartRules = {}
  Marked = {}
  HubWrites <- Hub
  Reads = 0
  MaxScripts = 1
PROPERTIES
  CallbacksNotRecursive
