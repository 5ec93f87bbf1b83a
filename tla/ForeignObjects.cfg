\* Somebody else's objects, lost requests and broken watches.
SPECIFICATION Spec
CONSTANTS
  Nil = Nil
  Text <- MCText
  Hosts <- MCHosts
  PackageNames <- MCPackageNames
  PackageVersions <- MCPackageVersions
  Kinds = {"Ingress"}
  UserSpecs <- ForeignSpecs
  Limits <- ForeignLimits
  GC = TRUE
  CollectBound = 3
INVARIANTS
  TypeOK
  VersionsAgree
PROPERTIES
  ForeignNotAdopted
  NoLostEdit
\* When everything has settled and users stop, nothing may be left to do.
CHECK_DEADLOCK FALSE
