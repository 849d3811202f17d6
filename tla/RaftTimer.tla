------------------------------ MODULE RaftTimer ------------------------------
(***************************************************************************)
(* The handlers of RaftCluster with their timers: raft_periodic no longer  *)
(* chooses freely whether a timeout has passed, it counts.                 *)
(*                                                                         *)
(* Time.  Every node runs the periodic process with the same period.  In   *)
(* a round each running node has one period, in any order, and packets are *)
(* received in between: periods shift against each other, clocks do not    *)
(* drift.                                                                  *)
(*                                                                         *)
(* The air.  As in RaftCluster, but when a timer fires at most MaxUnheard  *)
(* heartbeats in a row to a node have not been heard: those lost, and one  *)
(* that may be under way.  (netflood_open is given a queue time of two     *)
(* seconds, so a packet is heard before the leader's next one, or never.)  *)
(* Those of a leader whose term the node has left behind do not count.     *)
(***************************************************************************)
EXTENDS RaftCluster

CONSTANTS
    RAFT_PERIODIC_TICK, REQUEST_TIMEOUT, ELECTION_TIMEOUT,     \* in seconds
    RandomParts,        \* what random_rand() % election_timeout may return
    MaxUnheard          \* bound: heartbeats in a row lost or under way

ASSUME TimerAssumption ==
    /\ RAFT_PERIODIC_TICK \in Nat \ {0} /\ REQUEST_TIMEOUT \in Nat \ {0} /\ MaxUnheard \in Nat
    /\ ELECTION_TIMEOUT \in Nat \ {0} /\ RandomParts \subseteq 0 .. ELECTION_TIMEOUT - 1

VARIABLES
    timeout_elapsed,
    election_timeout_rand,
    ticked,             \* nodes that have had their period in this round
    unheard             \* [n] heartbeats to n, in its term, since it heard one

timerVars == <<timeout_elapsed, election_timeout_rand>>
timedVars == <<vars, timerVars, ticked, unheard>>

RandomTimeouts == {ELECTION_TIMEOUT + r : r \in RandomParts}

TimedInit ==
    /\ Init
    /\ timeout_elapsed = [n \in Node |-> 0]
    /\ election_timeout_rand \in [Node -> RandomTimeouts]
    /\ ticked = {}
    /\ unheard = [n \in Node |-> 0]

reset_elapsed(n) == timeout_elapsed' = [timeout_elapsed EXCEPT ![n] = 0]

raft_randomize_election_timeout(n) ==
    \E r \in RandomTimeouts :
        election_timeout_rand' = [election_timeout_rand EXCEPT ![n] = r]

-----------------------------------------------------------------------------
(* Periods *)

elapsed_now(n) == timeout_elapsed[n] + RAFT_PERIODIC_TICK

request_due(n)  == state[n] = "leader" /\ REQUEST_TIMEOUT <= elapsed_now(n)

slip_election_due(n) ==         \* a timeout passed to the tick is not taken
    /\ num_voting_nodes > 1 /\ state[n] # "leader"
    /\ election_timeout_rand[n] < timeout_elapsed[n]

election_due(n) ==
    /\ num_voting_nodes > 1 /\ state[n] # "leader"
    /\ election_timeout_rand[n] <= elapsed_now(n)

heartbeats_sent(n) ==
    unheard' = [p \in Node |-> IF p \in Others(n) /\ current_term[p] <= current_term[n]
                                THEN unheard[p] + 1 ELSE unheard[p]]

heartbeat_heard(n) == unheard' = [unheard EXCEPT ![n] = 0]

\* Node n has had its period; with the last node the round ends.
period_over(n) ==
    ticked' = IF Node \ down \subseteq ticked \cup {n} THEN {} ELSE ticked \cup {n}

timed_periodic(n) ==
    /\ n \notin ticked
    /\ \A p \in Node : unheard[p] <= MaxUnheard
    /\ n \notin down
    /\ UNCHANGED <<log, commit_idx, peerVars, down>>
    /\ raft_apply_entry(n)
    /\ period_over(n)
    /\ \/ /\ become_sole_leader(n)
          /\ reset_elapsed(n)
          /\ UNCHANGED <<election_timeout_rand, unheard>>
       \/ /\ request_due(n)
          /\ raft_send_appendentries_all(n)
          /\ reset_elapsed(n)
          /\ heartbeats_sent(n)
          /\ UNCHANGED election_timeout_rand
       \/ /\ election_due(n)
          /\ raft_election_start(n)
          /\ reset_elapsed(n)
          /\ raft_randomize_election_timeout(n)
          /\ UNCHANGED unheard
       \/ /\ ~ request_due(n) /\ ~ election_due(n)
          /\ no_timeout(n)
          /\ timeout_elapsed' = [timeout_elapsed EXCEPT ![n] = elapsed_now(n)]
          /\ UNCHANGED <<election_timeout_rand, unheard>>

-----------------------------------------------------------------------------
(* Packets *)

\* raft_become_follower, in the handler of any packet.  The heartbeats of an
\* earlier term are nothing to wait for any more.
timer_of_new_follower(n) ==
    /\ reset_elapsed(n)
    /\ raft_randomize_election_timeout(n)
    /\ heartbeat_heard(n)

timed_requestvote(n, m) ==
    /\ raft_recv_requestvote(n, m)
    /\ IF newer(n, m)
       THEN timer_of_new_follower(n)
       ELSE /\ UNCHANGED <<election_timeout_rand, unheard>>
            /\ IF voted_for'[n] # voted_for[n]          \* granted
               THEN reset_elapsed(n)
               ELSE UNCHANGED timeout_elapsed

\* A new leader sends its first heartbeats.
timed_requestvote_response(n, m) ==
    /\ raft_recv_requestvote_response(n, m)
    /\ \/ /\ newer(n, m)
          /\ timer_of_new_follower(n)
       \/ /\ state'[n] = "leader"
          /\ reset_elapsed(n)
          /\ heartbeats_sent(n)
          /\ UNCHANGED election_timeout_rand
       \/ /\ state'[n] = "candidate"
          /\ UNCHANGED <<timerVars, unheard>>

slip_timed_appendentries(n, m) ==       \* only new followers reset their timer
    /\ raft_recv_appendentries(n, m)
    /\ \/ stale_term(n, m) /\ UNCHANGED <<timerVars, unheard>>
       \/ /\ current_term[n] <= m.term
          /\ IF newer(n, m) \/ state[n] = "candidate"
             THEN timer_of_new_follower(n)
             ELSE UNCHANGED timerVars /\ heartbeat_heard(n)

timed_appendentries(n, m) ==
    /\ raft_recv_appendentries(n, m)
    /\ \/ stale_term(n, m) /\ UNCHANGED <<timerVars, unheard>>
       \/ /\ current_term[n] <= m.term
          /\ IF newer(n, m) \/ state[n] = "candidate"
             THEN timer_of_new_follower(n)
             ELSE /\ reset_elapsed(n) /\ UNCHANGED election_timeout_rand
                  /\ heartbeat_heard(n)

timed_appendentries_response(n, m) ==
    /\ raft_recv_appendentries_response(n, m)
    /\ IF newer(n, m) THEN timer_of_new_follower(n) ELSE UNCHANGED <<timerVars, unheard>>

-----------------------------------------------------------------------------
TimedNext ==
    \E n \in Node :
        \/ timed_periodic(n)
        \/ /\ UNCHANGED ticked
           /\ \E m \in msgs : \/ timed_requestvote(n, m)
                              \/ timed_requestvote_response(n, m)
                              \/ timed_appendentries(n, m)
                              \/ timed_appendentries_response(n, m)

TimedSpec == TimedInit /\ [][TimedNext]_timedVars

-----------------------------------------------------------------------------
(* Properties *)

\* n follows a node that leads the term n is in.
Follows(n) ==
    /\ state[n] = "follower" /\ current_leader[n] # Nil
    /\ state[current_leader[n]] = "leader"
    /\ current_term[current_leader[n]] = current_term[n]

\* With the timeouts of src/app/main.c nobody challenges a leader it follows,
\* although MaxUnheard heartbeats in a row may be lost or under way and the
\* periods of leader and follower are shifted against each other.
LeaderKept == [][\A n \in Node : Follows(n) => state'[n] # "candidate"]_timedVars

\* No timeout is overdue: a leader's heartbeats and a candidate's next attempt
\* come with the first period after the timeout, whatever was received since.
Punctual ==
    \A n \in Node : n \notin down =>
        timeout_elapsed[n] < IF state[n] = "leader" THEN REQUEST_TIMEOUT
                             ELSE election_timeout_rand[n]

=============================================================================
