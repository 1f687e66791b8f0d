SPECIFICATION Spec
CONSTANTS
  v = v
  m = m
  a = a
  y = y
  z = z
  Num = {0, 1}
  Port = {p, q}
  Vendor = {v}
  Inbox = {m}
  Ata = {a}
  Hnd = {w1, w2, w3, w4}
  Object = {h}
  Scratch = scratch
  Volume = {y, z}
  Lies <- MCLies
  MaxMoves = 2
  Blank = Blank
  None = None
INVARIANTS OwnHandle Accounted Enumerates VolumesAreTheDrives
PROPERTIES NumberIsTheDrives
SYMMETRY Symmetry
