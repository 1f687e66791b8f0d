SPECIFICATION QSpec
CONSTANTS
  Piece = 8
  Room = 8
  Half = 16
  Lens = {0, 1, 3, 4, 6, 8, 9, 12, 16, 20, 23, 24, 64, 96, 100, 252, 255}
  PageLen = 8
  Slots = 3
  Ids = {0, 1, 2}
  Bytes = {0, 79, 160, 255}
  Word32 = 65536
  Replies <- MCReplies
  Rooms = {2048, 3071}
  MaxMounts = 3
INVARIANTS ReadsAll IdentityTold DiscoveryTold SanitizeAsAsked SanitizeTold CapacityTold TaskfileAddresses SmartTold VolumesTold
