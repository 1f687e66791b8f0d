SPECIFICATION Spec
CONSTANTS
  sda = sda
  sdb = sdb
  sda1 = sda1
  sda16 = sda16
  Disk = {sda, sdb}
  Part = {sda1, sda16}
  DiskOf <- MCDiskOf
  Number <- MCNumber
  JMicron = {j, k}
  Usb = {u}
  Sata = {s}
  FixedSense = {u}
  None = None
INVARIANTS OkIsEarned DataIsTheDrives RegistersAreTheDrives FailureIsReal BridgeIsRight
