CONSTANTS
  n1 = n1
  n2 = n2
  n3 = n3
  Node = {n1, n2}
  Cut <- Mesh
  Campaign <- Everyone
  Forwarding = FALSE
  Value = {v1}
  Nil = Nil
  MaxTerm = 1
  MaxEntries = 2
  NullRead = {"trap"}
SPECIFICATION MCSpec
INVARIANT NodesRun
