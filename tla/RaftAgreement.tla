--------------------------- MODULE RaftAgreement ---------------------------
(***************************************************************************)
(* The cluster of RaftCluster seen as one agreed log: what any node knows  *)
(* committed is chosen.                                                    *)
(***************************************************************************)
EXTENDS RaftCluster

\* A node that knows most.
best_informed == CHOOSE n \in Node : \A m \in Node : commit_idx[m] <= commit_idx[n]

committed(n) == SubSeq(log[n], 1, commit_idx[n])

Agreed == INSTANCE AgreedLog WITH
    chosen <- committed(best_informed),
    known  <- [n \in Node |-> committed(n)]

\* The cluster implements the agreed log: whatever is lost, repeated or late and
\* whoever leads, the entries that any node may apply are those of one sequence,
\* which a leader's commit extends and which no node ever has to take back
\* (raft_set_commit_idx, and what raft_recv_appendentries does to the log).
Agreement == Agreed!AgreedSpec

=============================================================================
