----------------------------- MODULE RaftReboot -----------------------------
(***************************************************************************)
(* RaftCluster with nodes that lose power and boot again.                  *)
(*                                                                         *)
(* The persist_vote, persist_term and log_offer callbacks of               *)
(* src/app/main.c store nothing, and main_process reads nothing back: it   *)
(* builds a fresh server with raft_new and adds the nodes.                 *)
(***************************************************************************)
EXTENDS RaftCluster, TLC

reboot(n) ==
    /\ current_term' = [current_term EXCEPT ![n] = 0]
    /\ voted_for' = [voted_for EXCEPT ![n] = Nil]
    /\ state' = [state EXCEPT ![n] = "follower"]
    /\ current_leader' = [current_leader EXCEPT ![n] = Nil]
    /\ vote_for_me' = [vote_for_me EXCEPT ![n] = {}]
    /\ log' = [log EXCEPT ![n] = <<>>]
    /\ commit_idx' = [commit_idx EXCEPT ![n] = 0]
    /\ last_applied_idx' = [last_applied_idx EXCEPT ![n] = 0]
    /\ next_idx' = [next_idx EXCEPT ![n] = [m \in Node |-> 1]]
    /\ match_idx' = [match_idx EXCEPT ![n] = [m \in Node |-> 0]]
    /\ down' = down \ {n}
    /\ UNCHANGED msgs

RebootNext == Next \/ \E n \in Node : reboot(n)

RebootSpec == Init /\ [][RebootNext]_vars

NodeSymmetry == Permutations(Node)

=============================================================================
