\* One charger with two connectors that may refuse or answer late.
CONSTANTS
  c1 = c1
  Chargers = {c1}
  Connectors = {1, 2}
  Obedient = FALSE
SPECIFICATION FairSpec
INVARIANTS TypeOK StoppedIsRemembered
PROPERTY SunnyPasses
