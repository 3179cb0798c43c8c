\* Lines, raw reads, new rates and reopening, through a ring of four bytes.
SPECIFICATION Spec
CONSTANTS
  Size = 4
  Byte <- Characters
  Linefeeds <- LineEnds
  NoByte = NoByte
  BufSizes = {2, 4}
  ReadSizes = {4}
  MaxSent = 5
  MaxOpens = 1
INVARIANT TypeOK
PROPERTY ReadsInOrder
