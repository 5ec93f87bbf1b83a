\* One package is replaced by another.
SPECIFICATION Spec
CONSTANTS
  Nil = Nil
  Text <- MCText
  Hosts <- MCHosts
  PackageNames <- MCPackageNames
  PackageVersions <- MCPackageVersions
  Kinds = {"StatefulSet"}
  UserSpecs <- PackageSpecs
  Limits <- EditLimits
  GC = TRUE
  CollectBound = 3
INVARIANTS
  PackagesInstalled
\* When everything has settled and users stop, nothing may be left to do.
CHECK_DEADLOCK FALSE
