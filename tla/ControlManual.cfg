\* Data goes stale after a current was set by hand.
CONSTANTS
  GridVolt = 1
  c1 = c1
  Chargers = {c1}
  Connectors = {1}
  Samples <- MCSunny
  Configs <- MCPlain
  UserAmps = {10}
  FactoryAmps = 32
  AnswersGetLost = FALSE
  TxProfileRefused = FALSE
  ProfilesForgotten = FALSE
SPECIFICATION FairSpec
PROPERTIES StaleReverts
