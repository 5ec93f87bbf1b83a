\* A notebook without a host, and nothing else.
SPECIFICATION Spec
CONSTANTS
  Nil = Nil
  Text <- MCText
  Hosts <- MCHosts
  PackageNames <- MCPackageNames
  PackageVersions <- MCPackageVersions
  Kinds = {"Service", "Ingress"}
  UserSpecs <- HostlessSpecs
  Limits <- OnceLimits
  GC = TRUE
  CollectBound = 3
PROPERTIES
  HostlessRuns
\* When everything has settled and users stop, nothing may be left to do.
CHECK_DEADLOCK FALSE
