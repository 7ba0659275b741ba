CONSTANTS
  Callers = {c1, c2, c3, c4}
  Names = {n1, n2, n3}
  Handles = {h1, h2, h3}
  None = None
  MaxCounter = 5
SPECIFICATION Spec
SYMMETRY Symmetry
CONSTRAINT Explored
INVARIANTS TypeOK HandlesServed CountersExact NothingLeftOpen
