\* Lines and raw reads mixed, through a ring of four bytes, with line buffers
\* shorter and longer than it.
SPECIFICATION Spec
CONSTANTS
  Size = 4
  Byte <- Characters
  Linefeeds <- LineEnds
  NoByte = NoByte
  BufSizes = {2, 3, 6}
  ReadSizes = {3, 5}
  RawAnytime = FALSE
  MaxSent = 6
INVARIANT TypeOK
PROPERTY ReadsInOrder
