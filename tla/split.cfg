CONSTANTS
  n1 = n1
  n2 = n2
  n3 = n3
  Node = {n1, n2, n3}
  Cut <- Split
  Campaign <- FirstTwo
  Forwarding = FALSE
  Value = {v1}
  Nil = Nil
  MaxTerm = 2
  MaxEntries = 2
  NullRead = {"trap", "word"}
SPECIFICATION MCSpec
SYMMETRY PairSymmetry
VIEW NoApplyView
INVARIANTS ElectionSafety LeaderCompleteness CommittedOnMajority LeaderKnown
PROPERTY Agreement
