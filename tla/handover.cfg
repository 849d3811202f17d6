CONSTANTS
  n1 = n1
  n2 = n2
  n3 = n3
  Node = {n1, n2, n3}
  Cut <- Mesh
  Campaign <- Everyone
  Forwarding = FALSE
  Value = {v1}
  Nil = Nil
  MaxTerm = 4
  MaxEntries = 2
  NullRead = {"trap", "word"}
SPECIFICATION HandoverSpec
VIEW NoApplyView
INVARIANTS LogMatching MatchIsReplicated LibraryAsserts
