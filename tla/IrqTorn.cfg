SPECIFICATION Spec
CONSTANTS
  i1 = i1
  i2 = i2
  i3 = i3
  h1 = h1
  h2 = h2
  NULL = NULL
  Irqs <- MCIrqs
  Handlers <- MCHandlers
  MaxCrit = 2
SYMMETRY Symmetry
INVARIANTS DispatchesRegistered
