\* An operator takes over while another still runs; the notebook may be deleted.
SPECIFICATION Spec
CONSTANTS
  Nil = Nil
  Text <- MCText
  Hosts <- MCHosts
  PackageNames <- MCPackageNames
  PackageVersions <- MCPackageVersions
  Kinds = {"Secret"}
  UserSpecs <- AgainSpecs
  Limits <- RolloutLimits
  GC = TRUE
  CollectBound = 2
PROPERTIES
  Converges
\* When everything has settled and users stop, nothing may be left to do.
CHECK_DEADLOCK FALSE
