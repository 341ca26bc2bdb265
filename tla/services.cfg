SPECIFICATION ServicesFairSpec
CONSTANTS
  Parts = {"frames", "plc", "player", "history", "tokens", "polling", "files", "console",
           "socket", "link", "alerts", "mcp"}
  Payloads <- SmallPayloads
  MaxPayload = 2
  TypeMessage = 33
  MaxFrames = 3
  MaxChildren = 2
  DaliReads = {r1, r2}
  Orders = {o1}
  MaxQueued = 2
  SqCommands = {q1, q2}
  MaxLinks = 2
  HistEvents = {e1, e2}
  HistReads = {h1, h2}
  MaxHist = 3
  Phones = {1, 2}
  Clients = {p1, p2}
  PollTimeout = 2
  MaxEvents = 2
  ConfFiles = {io, rules}
  Versions = {v1, v2}
  MaxBackups = 1
  HighWater = 3
  LowWater = 1
  MaxChunk = 2
  OpenDelay = 2
  AttachDelay = 1
  PingPeriod = 2
  MaxMissed = 2
  CloseDelay = 1
  ReadDelay = 2
  LingerDelay = 1
  MaxWsFrames = 3
  MaxCloses = 2
  MinDelay = 1
  MaxDelay = 2
  Silence = 1
  PollDelay = 2
  MaxTurns = 2
  MaxStarts = 1
  Alerts = {a1, a2}
  PushKey <- SameKey
  MaxRetries = 1
  RetryDelay = 1
  PushInterval = 2
  MaxFaults = 1
  MaxCrashes = 1
  MaxTokens = 3
  MaxExits = 3
INVARIANTS
  ServicesTypeOK
  MessagesInOrder ReadsSeeEarlierEvents PollingIsSound
  UploadSurvives ConsoleIsSound AlertsAreKeptOnce StaysClosed
PROPERTIES
  EveryCallIsAnswered ConnectionsSettle KeptDataStays
CHECK_DEADLOCK FALSE
