--------------------------- MODULE MC_RaftCluster ---------------------------
(***************************************************************************)
(* RaftCluster on small clusters, for TLC.  The constants pick the part of *)
(* the behaviours a run explores; every step of MCNext is a step of Next.  *)
(***************************************************************************)
EXTENDS RaftAgreement, TLC

CONSTANTS
    n1, n2, n3,
    Cut,            \* pairs <<a, b>>: packets from a to b are lost
    Campaign,       \* pairs <<n, t>>: node n may be a candidate in term t
    Forwarding      \* whether proposals travel to the leader as packets

\* All nodes hear one another; two of them meet only through the third.
Mesh  == {}
Split == {<<n1, n2>>, <<n2, n1>>}

\* Every node may be a candidate in every term; n1 and n2 may.
Everyone == Node \X Terms
FirstTwo == {n1, n2} \X Terms
FirstOnly == {n1} \X Terms

Heard(m) == <<m.src, m.dst>> \notin Cut

MCNext ==
    \E n \in Node :
        \/ raft_periodic(n) /\ (state'[n] = "candidate" => <<n, current_term'[n]>> \in Campaign)
        \/ \E m \in msgs : Heard(m) /\ Receive(n, m)
        \/ \E v \in Value :
              /\ Forwarding \/ current_leader[n] = n
              /\ client_new_message(n, v)

MCSpec == Init /\ [][MCNext]_vars
MCFairSpec == MCSpec /\ Fairness
MCReplicationSpec == MCFairSpec /\ ReplicationFairness

PairSymmetry == Permutations({n1, n2})

\* Lost packets influence nothing (they differ from the ones that are heard by
\* their destination and the peer indices only), and no other part of the server
\* reads last_applied_idx: for properties that speak of neither.
NoApplyView == <<serverVars, log, commit_idx, peerVars, down,
                 {m \in msgs : Heard(m)}>>

\* A start in the middle: n1 leads term 1 and n2 led term 2, elected by n3, and
\* the first entry of each has reached nobody.  A challenge by n3 in term 3 found
\* no majority but deposed n2, which n3 has just elected again in term 4.  The
\* packets of the elections are lost.
HandoverInit ==
    /\ current_term = (n1 :> 1 @@ n2 :> 4 @@ n3 :> 4)
    /\ voted_for = (n1 :> n1 @@ n2 :> n2 @@ n3 :> n2)
    /\ state = (n1 :> "leader" @@ n2 :> "leader" @@ n3 :> "follower")
    /\ current_leader = (n1 :> n1 @@ n2 :> n2 @@ n3 :> Nil)
    /\ vote_for_me = (n1 :> {n3} @@ n2 :> {n3} @@ n3 :> {})
    /\ \E v, w \in Value :
          log = (n1 :> <<[term |-> 1, data |-> v]>> @@ n2 :> <<[term |-> 2, data |-> w]>>
                 @@ n3 :> <<>>)
    /\ commit_idx = [n \in Node |-> 0]
    /\ last_applied_idx = [n \in Node |-> 0]
    /\ next_idx = [n \in Node |-> [m \in Node |-> IF n = n2 /\ m # n2 THEN 2 ELSE 1]]
    /\ match_idx = [n \in Node |-> [m \in Node |-> 0]]
    /\ down = {}
    /\ msgs = UNION {{msg_appendentries(n, m) : m \in Others(n)} : n \in {n1, n2}}

HandoverSpec == HandoverInit /\ [][MCNext]_vars

=============================================================================
