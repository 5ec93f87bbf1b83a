\* A notebook with a GPU, and nothing else.
SPECIFICATION Spec
CONSTANTS
  Nil = Nil
  Text <- MCText
  Hosts <- MCHosts
  PackageNames <- MCPackageNames
  PackageVersions <- MCPackageVersions
  Kinds = {"StatefulSet"}
  UserSpecs <- GPUSpecs
  Limits <- OnceLimits
  GC = TRUE
  CollectBound = 3
PROPERTIES
  TearsDownOnlyToChange
\* When everything has settled and users stop, nothing may be left to do.
CHECK_DEADLOCK FALSE
