\* A notebook that is deleted and made again, with a garbage collector.
SPECIFICATION Spec
CONSTANTS
  Nil = Nil
  Text <- MCText
  Hosts <- MCHosts
  PackageNames <- MCPackageNames
  PackageVersions <- MCPackageVersions
  Kinds = {"Service"}
  UserSpecs <- AgainSpecs
  Limits <- AgainLimits
  GC = TRUE
  CollectBound = 3
PROPERTIES
  Converges
\* When everything has settled and users stop, nothing may be left to do.
CHECK_DEADLOCK FALSE
