\* Two callers of one charger; the lockout the documentation promises.
CONSTANTS
  p1 = p1
  p2 = p2
  c1 = c1
  Callers = {p1, p2}
  Chargers = {c1}
  Cooldowns = {2, 3}
  CommandTimeout = 1
  MaxTime = 3
  MaxCalls = 3
SPECIFICATION Spec
CHECK_DEADLOCK FALSE
INVARIANT Lockout
