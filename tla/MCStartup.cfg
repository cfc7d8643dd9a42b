CONSTANTS
  Servers = {"p", "q"}
  Configs <- MCConfigs
  NameOf <- MCNameOf
  LeaseDuration = 5
  RenewDeadline = 2
  RetryPeriod = 1
  MaxTroubles = 2
SPECIFICATION Spec
INVARIANTS OneMaster StoresAreReady
PROPERTIES AllComeUp
