\* One wait, with a condition that may come and go.
SPECIFICATION Spec
INVARIANTS
  FailureIsTimeout
  CrashIsTie
PROPERTIES
  ImplementsWaiting
  NothingLeft
