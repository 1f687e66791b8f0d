SPECIFICATION Spec
CONSTANTS
  BlockSize = 5
  DigestSize = 2
  WordSize = 2
  Word = 80
  MaxPassword = 3
  Iterations = 2
  KeyLength = 3
  Chunks = {0, 1, 2, 3, 4, 5, 6, 10, 21}
  KeyLens = {0, 1, 4, 5, 6, 11}
  PasswordLens = {0, 1, 2, 3, 4}
  SaltLens = {0, 1, 2}
  RoundCounts = {1, 2, 3}
  DerivedLens = {0, 1, 2, 3, 4, 5}
  MaxLen = 42
INVARIANTS DigestIsStandard DerivedIsStandard PasswordIsAtom
