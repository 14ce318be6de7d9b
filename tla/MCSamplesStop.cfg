SPECIFICATION MCSpec
CONSTANTS
  Channel = {ch}
  Chain = {c1, c2, c3}
  Listener = {t1, t2}
  Manager = manager
  None = none
  Directory = {dir}
  File = {f}
  Poller = {p1, p2}
  Missing = missing
  MaxChanges = 3
  Watched = {"ibm"}
  Symbol = {"ibm", "other"}
  Price = {0, 2, 3}
  Retained = 2
  THRESHOLD = 1
  Worth <- MCWorth
  WINDOWSIZE = 2
  Step = 4
  MaxThreshold = 20
  MaxOrders = 4
  Source = {s1, s2}
  NoSource = nosource
  maxPings = 1
  Interval = 2
  MaxPerUnit = 3
  Reading = {0, 1, 3}
  MaxWindow = 3
  MaxRequests = 3
  Byte = {"x", "y", "NUL"}
  NUL = "NUL"
  BufferSize = 2
  MaxReply = 3
  MaxCalls = 2
  HttpExchange = {r1, r2}
  Data = {d, e}
  NoData = nodata
  MaxObjects = 3
  Config = {x, y, z}
  Defaults = defaults
  ComponentName = {compA, compB}
  compA = compA
  compB = compB
  MonitorRequest <- MCRequest
  Half = 8
  Values <- MCValues
  MaxList = 3
  prep1 = prep1
  prep2 = prep2
  store = store
  Preparation = {prep1, prep2}
  Store = {store}
  StoreOf <- SameStore
  UpdateContext = {ctx1, ctx2}
  create1 = create1
  create2 = create2
  create3 = create3
  name1 = name1
  name2 = name2
  Version <- MCVersion
  Creation = {create1, create2, create3}
  Name = {name1, name2}
  NameOf <- MCNameOf
  MaxProcess = 2
  acctA = acctA
  acctB = acctB
  teller1 = teller1
  teller2 = teller2
  x1 = x1
  x2 = x2
  x3 = x3
  BankDB = BankDB
  Account = {acctA, acctB}
  Teller = {teller1, teller2}
  Transfer = {x1, x2, x3}
  TellerOf <- MCTellerOf
  From <- MCFrom
  To <- MCTo
  Amt <- MCAmt
  Setup <- MCSetup
  Rounds <- MCRounds
PROPERTIES
  StopMonitorStops
CHECK_DEADLOCK FALSE
