SPECIFICATION Spec
CONSTANTS
  Path = {p, q}
  Ata = {a}
  Nvme = {n}
  Scsi = {s}
  Handle = {h, i}
  Scratch = scratch
  MaxFd = 5
  None = None
INVARIANTS OwnDescriptor Accounted Enumerates
SYMMETRY Symmetry
