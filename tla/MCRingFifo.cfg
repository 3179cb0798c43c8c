\* An owner that offers no more than is free, any sequence of calls.
SPECIFICATION Spec
CONSTANTS
  Size = 4
  Byte <- Three
  MaxWrite = 3
  Oversize = FALSE
INVARIANT TypeOK
PROPERTY ImplementsFifo
