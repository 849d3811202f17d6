CONSTANTS
  n1 = n1
  n2 = n2
  n3 = n3
  Node = {n1, n2}
  Cut <- Mesh
  Campaign <- FirstOnly
  Forwarding = TRUE
  Value = {v1}
  Nil = Nil
  MaxTerm = 1
  MaxEntries = 3
  NullRead = {"trap", "word"}
SPECIFICATION MCReplicationSpec
INVARIANT TypeOK
PROPERTIES LeaderCommits AppliedEventually CommitStable
