\* One connector, two requests at work at once, three transactions, one restart.
CONSTANTS
  Connectors = {1}
  Workers = {1, 2}
  MaxTx = 3
  MaxRestarts = 1
SPECIFICATION FairSpec
INVARIANTS TypeOK ActiveIsLive BegunOnce
PROPERTIES Recovers StopsEnd ImplementsTransactions
