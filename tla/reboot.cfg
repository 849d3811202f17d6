CONSTANTS
  Node = {n1, n2, n3}
  Value = {v1}
  Nil = Nil
  MaxTerm = 1
  MaxEntries = 1
  NullRead = {"trap"}
SPECIFICATION RebootSpec
SYMMETRY NodeSymmetry
INVARIANT ElectionSafety
