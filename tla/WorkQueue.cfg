\* Three notebooks, two workers, and a channel that is full with one key.
SPECIFICATION Spec
CONSTANTS
  Keys = {a, b, c}
  Workers = {w1, w2}
  Capacity = 1
  NoKey = NoKey
INVARIANTS
  QueueHoldsWork
  OneWorkerPerKey
  NoLostWakeup
PROPERTIES
  ImplementsKeyedWork
  ShutsDown
