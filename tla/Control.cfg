\* One connector, a safe current above the minimum, a charger that keeps its profiles; no manual currents.
CONSTANTS
  GridVolt = 1
  c1 = c1
  Chargers = {c1}
  Connectors = {1}
  Samples <- MCSamples
  Configs <- MCConfig
  UserAmps = {}
  FactoryAmps = 32
  AnswersGetLost = FALSE
  TxProfileRefused = FALSE
  ProfilesForgotten = FALSE
SPECIFICATION FairSpec
INVARIANTS TypeOK CacheCoherent
PROPERTIES ThreeTicksToStop DefaultComesDown
