CONSTANTS
  MAX_FRAMES = 3
  Items = {f1, f2, f3}
  Garbage = garbage
SPECIFICATION Spec
INVARIANT TypeOK
PROPERTY ImplementsFifo
