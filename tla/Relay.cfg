\* One charger that connects twice and sends two messages, across two instants.
CONSTANTS
  c1 = c1
  Chargers = {c1}
  Proxied = {c1}
  Overrides <- MCOverrides
  Actions = {"BootNotification", "MeterValues", "StopTransaction"}
  MinInterval = 1
  MaxHooks = 3
  MaxMessages = 2
  MaxClock = 1
SPECIFICATION FairSpec
INVARIANTS TypeOK NoOrphan RateBounded OnlyWhatMayLeave InOrder QuietAgrees IdleIsCounted
PROPERTIES RequestsAnswered ClientsStop ImplementsUplink
CHECK_DEADLOCK FALSE
