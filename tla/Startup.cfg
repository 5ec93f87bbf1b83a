\* Two notebooks, which may be there before the process or come while it starts.
SPECIFICATION Spec
CONSTANTS
  Notebooks = {a, b}
  Kinds = {"Secret"}
  Workers = {w1}
  None = None
  MaxChanges = 1
INVARIANTS
  TypeOK
  SyncsSeeWhatWasThere
PROPERTIES
  StartEnds
  StopExits
  EveryNotebookServed
\* The process ends.
CHECK_DEADLOCK FALSE
