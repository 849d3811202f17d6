CONSTANTS
  Node = {n1, n2}
  Value = {}
  Nil = Nil
  MaxTerm = 2
  MaxEntries = 0
  NullRead = {"trap"}
  RAFT_PERIODIC_TICK = 4
  REQUEST_TIMEOUT = 8
  ELECTION_TIMEOUT = 50
  RandomParts = {0, 20}
  MaxUnheard = 4
SPECIFICATION TimedSpec
INVARIANT Punctual
PROPERTY LeaderKept
