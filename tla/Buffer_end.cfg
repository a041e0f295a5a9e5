SPECIFICATION Spec
CONSTANTS
  Bufs = {b1, b2}
  Byte = {0, 1}
  Junk = junk
  Widths = {2}
  MaxLen = 3
INVARIANT EndIsLastElement
