SPECIFICATION Spec
CONSTANTS
  Data = {d1, d2}
  Empty = Empty
  Part = Part
  None = None
  Inodes = {i1, i2, i3, i4}
  Readers = {r1, r2}
  MaxFaults = 2
INVARIANT TypeOK
PROPERTIES ReplacedWhole OpenFileIsStable ReadsAreAtomic
