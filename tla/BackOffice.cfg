SPECIFICATION BackOfficeSpec
CONSTANTS
  Users = {u1, u2}
  Nobody = nobody
  MaxOpen = 1
  MaxCuts = 1
  Bins = {b1, b2}
  Shelved <- MCShelved
  Promises <- MCPromises
  HandDeltas <- MCHandDeltas
  HandTotals <- MCHandDeltas
  OrderLines = {1, 2}
  Ordered <- MCOrdered
  Sessions = {s1, s2}
  Deliveries <- MCDeliveries
  MaxGot = 2
  Allowances = {FALSE, TRUE}
  LineBins = {b1}
  Counts = {cc1, cc2}
  MaxFound = 2
  Tallies = {10, 19}
  Controlled = FALSE
  Devices = {d1}
  Batches = {ob1, ob2}
  Amounts = {6}
  MaxTasks = 2
  MaxRounds = 1
  SyncTasks <- MCSyncTasks
  Documents = {po1, rs1}
  MaxDispatches = 2
  RfqLines = {l1}
  LineQtys = {1, 2}
  Quotes = {q1, q2}
  Prices = {1, 2}
  NoQuote = noquote
  Papers = {doc1, doc2}
  Subjects = {e1}
  Staff = {w1, w2, w3}
  Reviews = {ar1}
  MaxHalts = 1
  Attempts = {a1}
  Callbacks = {c1, c2}
  SessionIds = {i1, i2}
  RequestTtl = 1
  SessionTtl = 1
  CacheTtl = 1
  LastTick = 3
  Free = free
SYMMETRY Interchangeable
\* A desk stops when every row it may make is closed.
CHECK_DEADLOCK FALSE
INVARIANTS
  DesksTypeOK
  StatusIsBacked
  DisposalIsSound
  ReceiptsAgree
  CountIsDecided
  StockIsExplained
  SkippedWasApplied
  ExportsAgree
  AwardStands
  EvidenceIsKept
  ReviewIsHonest
  SessionsAreCurrent
