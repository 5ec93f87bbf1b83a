\* An edit, and a restart with a new authority at every point.
SPECIFICATION Spec
CONSTANTS
  Nil = Nil
  Text <- MCText
  Hosts <- MCHosts
  PackageNames <- MCPackageNames
  PackageVersions <- MCPackageVersions
  Kinds = {"StatefulSet", "Secret"}
  UserSpecs <- EditSpecs
  Limits <- CrashLimits
  GC = TRUE
  CollectBound = 3
INVARIANTS
  SettledMeansDone
PROPERTIES
  CertificateKept
  TearsDownOnlyToChange
\* When everything has settled and users stop, nothing may be left to do.
CHECK_DEADLOCK FALSE
