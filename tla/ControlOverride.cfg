\* One connector and every failure, always some surplus; a user sets 10 A by hand.
CONSTANTS
  GridVolt = 1
  c1 = c1
  Chargers = {c1}
  Connectors = {1}
  Samples <- MCSunny
  Configs <- MCPlain
  UserAmps = {10}
  FactoryAmps = 32
  AnswersGetLost = TRUE
  TxProfileRefused = TRUE
  ProfilesForgotten = TRUE
SPECIFICATION FairSpec
PROPERTIES OverrideSettles
