SPECIFICATION FairSpec
CONSTANTS
  MaxFiles = 2
  Accounts <- MCAccounts
  NoAccount = NoAccount
  Workers <- MCWorkers
  Types <- MCTypes
  ApiCalls <- MCApiCalls
  AdminCalls <- MCAdminCalls
  MaxBoots = 2
  MaxFaults = 1
INVARIANTS SchemaExact PartsReady AccountsDecided DrainServed
PROPERTY LifeCycleEnds
CHECK_DEADLOCK FALSE
