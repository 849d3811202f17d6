CONSTANTS
  n1 = n1
  n2 = n2
  n3 = n3
  Node = {n1, n2, n3}
  Cut <- Mesh
  Campaign <- Everyone
  Forwarding = FALSE
  Value = {v1}
  Nil = Nil
  MaxTerm = 4
  MaxEntries = 1
  NullRead = {"trap"}
SPECIFICATION HandoverSpec
INVARIANT NodesRun
