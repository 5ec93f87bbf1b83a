\* Lost requests, refused specifications and deletion, without a garbage collector.
SPECIFICATION Spec
CONSTANTS
  Nil = Nil
  Text <- MCText
  Hosts <- MCHosts
  PackageNames <- MCPackageNames
  PackageVersions <- MCPackageVersions
  Kinds = {"StatefulSet"}
  UserSpecs <- FaultSpecs
  Limits <- FaultLimits
  GC = FALSE
  CollectBound = 3
PROPERTIES
  Converges
\* When everything has settled and users stop, nothing may be left to do.
CHECK_DEADLOCK FALSE
