SPECIFICATION FairSpec
CONSTANTS
  a = a
  b = b
  c = c
  NoIO = NoIO
  IOs = {a, b, c}
  RuleIds = {1, 2, 3, 4, 5}
  AtLoad = {1, 2, 3, 4}
  Watches <- Watch
  Needs <- Need
  Writes <- Act
  Scripted = {3}
  StartRules = {4}
  Marked = {4, 5}
  HubWrites <- Hub
  Reads = 1
  MaxScripts = 1
INVARIANTS
  TypeOK ActingRulesAreWhole IndexMatches LockDiscipline
PROPERTIES
  ServesInOrder ServesAll
