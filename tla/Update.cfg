\* A good image and one that does not run, a failing flash operation anywhere;
\* what must happen, once the crashes stop.
SPECIFICATION FairSpec
CONSTANTS
  Images = {"v1", "bad"}
  Good = {"v0", "v1"}
  MaxFaults = 1
  Factory = "v0"
  Blocks = 3
INVARIANTS
  TypeOK
  Recoverable
  CommitMeansWhole
  AckedMeansStored
PROPERTIES
  InstallsWhole
  SotaCompletes
  LoopEnds
