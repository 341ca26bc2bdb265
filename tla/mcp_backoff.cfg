SPECIFICATION McpSpec
CONSTANTS
  MaxTokens = 1
  MaxExits = 2
INVARIANTS
  BackoffGrows
CHECK_DEADLOCK FALSE
