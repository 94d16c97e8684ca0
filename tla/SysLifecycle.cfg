\* Stop, wake-up and the environment under power failures: never too early, no
\* request left behind, nothing lost.
SPECIFICATION FairSpec
CONSTANTS
  Values = {0, 1}
  LockValues <- OneLock
  Written = {"afe_cfg"}
  Asked = {"stop", "wkup", "restore_afe", "restart", "store"}
  StopTime = 2
  WkupTime = 1
INVARIANTS TypeOK ReportedExactly CleanMeansWhole DirtyMeansPending NeverHasty
PROPERTIES RequestsServed
