SPECIFICATION Spec
CONSTANTS
  PiClients = {1, 2}
  CommandIds = {1, 2}
  MaxGenerations = 3
  BackoffInitial = 5
  BackoffMax = 150
  DurationBits = 12
  Waiters = {w1}
  Verdicts = {"healthy", "done"}
  ChanCap = 2
  Streams = {s1}
  MaxFeed = 4
  FeedCap = 2
  MaxAttach = 2
  ReadRequests <- MCReadRequests
  Agents = {1, 2, 3}
  Deleters = {1, 2}
  SpawnMaxDepth = 1
  SpawnMaxChildren = 1
  Images <- MCImages
  BindingTables <- MCTables
  ComposedEndpoints = {"h1", "h3"}
  PolicyMergeAttempts = 4
  MaxMoves = 2
  crA = crA
  crB = crB
  Creds = {crA, crB}
  SecretValues = {"v1", "v2"}
  Upstreams = {u1}
  ToolNames = {"t1", "t2"}
  Matched = {"t1"}
  Callers = {k1, k2}
  Batches <- MCBatches
  MaxPosts = 2
  MaxOutages = 3
  ApiIds = {1, 2, 3}
  ApiHandlers = {"h1", "h2"}
  Readers = {"r1"}
  Queries <- MCQueries
  MonthStarts <- Calendar
  MaxTick = 4
  MaxReadTick = 2
  DefaultLimit = 2
INVARIANTS Supervised QueueKnown StdoutAccounted MonitorFollowsTurn WakesExact PollsFaithful
  StreamFaithful CapsHold  LogAgrees CredentialsBound PolicyKept
  StatusHonest CallsServed WebhookTruth RowsFound
CHECK_DEADLOCK FALSE
