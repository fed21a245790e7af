\* A 3-byte string of all-zero or all-one bytes.  Fields: inside one byte
\* off a boundary (offset 2, width 3), on a boundary (8), across two bytes
\* (offset 8 or 13, width 11, the latter ending on the last bit), across
\* three bytes (offset 5, width 12), and past the end (offset 13, width
\* 12), which the REQUIRES check refuses.  8191 is wider than every field.
CONSTANTS
  L = 3
  InitBytes = {0, 255}
  Offsets = {2, 5, 8, 13}
  Widths = {0, 3, 11, 12}
  Values = {1365, 8191}
  MaxPuts = 3
SPECIFICATION Spec
CHECK_DEADLOCK FALSE
INVARIANT BitsAsWritten
INVARIANT FieldsReadBack
