CONSTANTS
  Self = n1
  Initial = {n1, n2}
  First = n1
  Joining = {n3}
  PromotesLeaving = TRUE
  MaxEntries = 5
SPECIFICATION Spec
CHECK_DEADLOCK FALSE
PROPERTY ServerRuns
