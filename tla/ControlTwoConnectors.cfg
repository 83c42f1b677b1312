\* Two connectors share the stop counters of their charger.
CONSTANTS
  GridVolt = 1
  c1 = c1
  Chargers = {c1}
  Connectors = {1, 2}
  Samples <- MCSamples
  Configs <- MCConfig
  UserAmps = {}
  FactoryAmps = 32
  AnswersGetLost = FALSE
  TxProfileRefused = FALSE
  ProfilesForgotten = FALSE
SPECIFICATION Spec
PROPERTIES ThreeTicksToStop
