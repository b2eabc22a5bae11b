\* Three callers on two coordinators that share the store, two attempts.
SPECIFICATION Spec
CONSTANTS
  Heads = {h1, h2}
  Callers = {c1, c2, c3}
  Coordinators = {k1, k2}
  MaxAttempts = 2
  None = None
INVARIANTS TypeOK ReturnedIsStored OneRunPerHead
PROPERTIES ImplementsRegister EveryCallReturns
