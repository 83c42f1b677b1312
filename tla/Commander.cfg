\* Two callers of one charger; answers may be lost or late, cooldowns change.
CONSTANTS
  p1 = p1
  p2 = p2
  c1 = c1
  Callers = {p1, p2}
  Chargers = {c1}
  Cooldowns = {2, 3}
  CommandTimeout = 1
  MaxTime = 3
  MaxCalls = 3
SPECIFICATION FairSpec
CHECK_DEADLOCK FALSE
INVARIANTS TypeOK CallerLockout NoSpuriousLockout
PROPERTY CallReturns
