\* Answers get lost, calls give up, the TPer closes sessions; commands arrive
\* twice; drivers report transfers as done that were not; or the TPer sends
\* answers it should not send.
CONSTANTS
  Sess = {s1, s2}
  NoCmd = none
  Attempts = 2
  Capacity = 2
  Slots = 2
  MaxCalls = 2
  FaultSets = {{"lose", "giveup", "abort"}, {"resend"}, {"swallow"}, {"odd"}}
SPECIFICATION Spec
CHECK_DEADLOCK FALSE
SYMMETRY Symmetry
INVARIANTS NoSessionLeft BeliefRight OwnSession EndOnce SuccessIsReal
