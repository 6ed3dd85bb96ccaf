SPECIFICATION Spec
CONSTANTS
  d1 = d1
  d2 = d2
  k1 = k1
  k2 = k2
  x = x
  y = y
  Empty = Empty
  NoEntry = NoEntry
  NoSlice = NoSlice
  Unreadable = Unreadable
  Nobody = Nobody
  NoRecord = NoRecord
  Device = {d1}
  Slot = {k1, k2}
  Preset = {x, y}
  Skipped = {}
  Env <- Gated
PROPERTIES EditKept
