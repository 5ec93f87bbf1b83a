\* The documents of a notebook: all that differ from the usual one in up to two
\* fields, submitted twice.
CONSTANTS
  Nil = Nil
  Text = {"", "acme", "self-signed", "none", "minimal", "false", "r", "sa", "secret",
          "example.com", "-", "proxy", "http", "8888", "numpy", "pip", "1.2"}
  Hosts = {"example.com"}
  PackageNames = {"numpy", "pip"}
  PackageVersions = {"1.2"}
  UserSpecs <- Specs
  UserPackages <- Packages
  NotebookName = "lab"
  MaxEdits = 2
SPECIFICATION Spec
INVARIANTS AdmittedDecodes WritesAdmitted ComparisonFindsEdits ResourcesConform ResourcesFit
PROPERTY WritesReadBack
\* Users submit no more, and the last document may be one nobody can decode.
CHECK_DEADLOCK FALSE
