SPECIFICATION Spec
CONSTANTS
  Keys = {k1, k2}
  Scalars = {v}
  MaxCalls = 9
INVARIANTS
  StackIsAChain
  BuiltIsWhatWasCalled
  NothingDropped
PROPERTY
  ThrowChangesNothing
CHECK_DEADLOCK FALSE
