\* Two tries for each transfer, so that a command may arrive twice; answers that
\* fit, that do not, and that are garbled.
CONSTANTS
  Cmd = {c1, c2}
  NoCmd = none
  Body = {fits, big, junk}
  Oversize = {big}
  Garbled = {junk}
  Attempts = 2
  Capacity = 2
  Timeout = 2
  MaxLag = 0
SPECIFICATION FairSpec
INVARIANTS SyncKept
PROPERTIES RpcRefined ExecReturns
