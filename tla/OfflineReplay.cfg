SPECIFICATION BackOfficeSpec
CONSTANTS
  Users = {u1, u2}
  Nobody = nobody
  MaxOpen = 0
  MaxCuts = 0
  Bins = {b1, b2}
  Shelved <- MCShelved
  Promises <- MCPromises
  HandDeltas <- MCHandDeltas
  HandTotals <- MCHandDeltas
  OrderLines = {1}
  Ordered <- MCOrdered
  Sessions = {}
  Deliveries <- MCDeliveries
  MaxGot = 2
  Allowances = {FALSE, TRUE}
  LineBins = {b1}
  Counts = {}
  MaxFound = 0
  Tallies = {10, 19}
  Controlled = FALSE
  Devices = {d1}
  Batches = {ob1, ob2}
  Amounts = {6}
  MaxTasks = 2
  MaxRounds = 2
  SyncTasks <- MCSyncTasks
  Documents = {}
  MaxDispatches = 0
  RfqLines = {}
  LineQtys = {1, 2}
  Quotes = {}
  Prices = {1, 2}
  NoQuote = noquote
  Papers = {}
  Subjects = {e1}
  Staff = {w1, w2, w3}
  Reviews = {}
  MaxHalts = 0
  Attempts = {}
  Callbacks = {}
  SessionIds = {}
  RequestTtl = 1
  SessionTtl = 1
  CacheTtl = 1
  LastTick = 0
  Free = free
\* A desk stops when every row it may make is closed.
CHECK_DEADLOCK FALSE
INVARIANT
  AppliedOnce
