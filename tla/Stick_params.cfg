SPECIFICATION Spec
CONSTANTS
  Foci = {"web"}
  n1 = n1
  n2 = n2
  s1 = s1
  s2 = s2
  r1 = r1
  r2 = r2
  r3 = r3
  d1 = d1
  d2 = d2
  d3 = d3
  Net = {n1, n2}
  Right = {n1}
  NoNet = NoNet
  Port = {p1, p2}
  NoPort = NoPort
  ProvEnv <- MCNothing
  Task = {t1, t2}
  Web = Web
  OtaEnvs <- MCOtaEnvs
  Word = 24
  MaxStep = 2
  MaxTick = 2
  Jumps <- MCLeaps
  Limit = 5
  MaxCount = 1
  Cred = {c1, c2}
  NoCred = NoCred
  Overlaps = FALSE
  Entry = {e1, e2}
  Speaker = {v1, v2}
  Slot = {s1, s2}
  Lir = {s1}
  NoSlot = NoSlot
  MaxAttempts = 2
  MaxRescues = 1
  MaxWindow = 1
  MaxWire = 1
  Closings = {TRUE, FALSE}
  Req = {r1, r2, r3}
  NoReq = NoReq
  Events = {r2, r3}
  Size <- MCSize
  Account = {a1, a2}
  NoAccount = NoAccount
  MaxKey = 3
  LoginOverlaps = FALSE
  Device = {g1, g2, g3}
  MaxId = 2
  GroupEnvs <- MCGroupEnvs
  Button = {1, 2}
  Station = {x, y}
  NoStation = NoStation
  Depth = 2
  Slows = {TRUE, FALSE}
  Box = {b1, b2}
  NoBox = NoBox
  MaxSaves = 2
  Dev = {i1, i2}
  Record = {k1, k2}
  NoRecord = NoRecord
  Estimates = {TRUE, FALSE}
  Order <- MCOrder
  Bad = {d1}
  MaxPerBoot = 2
  RingLen = 2
  Slack = 1
  FreezeRun = 1
  BusyLimit = 2
  Dump = {q1, q2}
  DumpEnvs <- MCDumpEnvs
  MaxSample = 3
  Key = {m1, m2, m3}
  NoKey = NoKey
  Entries = 2
  Ttl = 2
  Wrap = 8
  u1 = u1
  u2 = u2
  l1 = l1
  l2 = l2
  Unit = {u1, u2}
  Place = {l1, l2, l3}
  NoPlace = NoPlace
  Debounce = 2
  MaxMoves = 1
INVARIANTS OwnPath
CHECK_DEADLOCK FALSE
