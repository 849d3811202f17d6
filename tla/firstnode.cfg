CONSTANTS
  Self = n1
  Initial = {n1, n2}
  First = n2
  Joining = {n3}
  PromotesLeaving = FALSE
  MaxEntries = 5
SPECIFICATION Spec
CHECK_DEADLOCK FALSE
INVARIANT RemovedIsGone
