\* One obedient charger; the sun returns within the cooldown.
CONSTANTS
  c1 = c1
  Chargers = {c1}
  Connectors = {1}
  Obedient = TRUE
SPECIFICATION FairSpec
PROPERTY GateReopens
