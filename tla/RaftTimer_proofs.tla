-------------------------- MODULE RaftTimer_proofs --------------------------
(***************************************************************************)
(* Proofs about RaftTimer.  The handlers with timers are handlers of       *)
(* RaftCluster, so what is proved of the cluster holds with timers too; no *)
(* timeout is overdue; and a leader that is followed is not challenged, in *)
(* a cluster of any size, as long as the election timeout covers           *)
(* MaxUnheard + 1 heartbeats and one period.                                  *)
(***************************************************************************)
EXTENDS RaftTimer, RaftIndex_proofs

-----------------------------------------------------------------------------
(* The cluster with timers is the cluster *)

LEMMA TimedStep == [TimedNext]_timedVars => [Next]_vars
<1> SUFFICES ASSUME [TimedNext]_timedVars PROVE [Next]_vars
  OBVIOUS
<1>1. CASE UNCHANGED timedVars
  BY <1>1 DEF timedVars
<1>2. ASSUME NEW n \in Node, timed_periodic(n) PROVE Next
  BY <1>2 DEF timed_periodic, Next, raft_periodic
<1>3. ASSUME NEW n \in Node, NEW m \in msgs,
             \/ timed_requestvote(n, m) \/ timed_requestvote_response(n, m)
             \/ timed_appendentries(n, m) \/ timed_appendentries_response(n, m)
      PROVE  Next
  BY <1>3 DEF timed_requestvote, timed_requestvote_response, timed_appendentries,
              timed_appendentries_response, Next, Receive
<1> QED
  BY <1>1, <1>2, <1>3 DEF TimedNext

\* Counting time only chooses among the steps of the cluster: raft_periodic fires
\* the timeouts it counts, the handlers do what they do without timers.  Every
\* safety theorem about the cluster holds of the one with timers.
THEOREM TimedImplements == TimedSpec => Spec
<1>1. TimedInit => Init
  BY DEF TimedInit
<1> QED
  BY <1>1, TimedStep, PTL DEF TimedSpec, Spec

-----------------------------------------------------------------------------
(* Timers *)

tick == RAFT_PERIODIC_TICK

LEMMA TimerConstants ==
    /\ tick \in Nat \ {0} /\ REQUEST_TIMEOUT \in Nat \ {0} /\ MaxUnheard \in Nat
    /\ ELECTION_TIMEOUT \in Nat \ {0}
    /\ \A r \in RandomTimeouts : r \in Nat /\ ELECTION_TIMEOUT <= r
  BY TimerAssumption DEF tick, RandomTimeouts

TimerTypes ==
    /\ timeout_elapsed \in [Node -> Nat]
    /\ election_timeout_rand \in [Node -> RandomTimeouts]
    /\ unheard \in [Node -> Nat]
    /\ ticked \in SUBSET Node

\* What a handler of node n may do to the timers.
TimerStep(n) ==
    /\ \A p \in Others(n) : /\ timeout_elapsed'[p] = timeout_elapsed[p]
                            /\ election_timeout_rand'[p] = election_timeout_rand[p]
                            /\ unheard[p] <= unheard'[p]
    /\ timeout_elapsed'[n] \in {timeout_elapsed[n], elapsed_now(n), 0}

LEMMA ResetElapsed ==
    ASSUME TimerTypes, NEW n \in Node, reset_elapsed(n)
    PROVE  /\ timeout_elapsed' \in [Node -> Nat]
           /\ timeout_elapsed'[n] = 0
           /\ \A p \in Others(n) : timeout_elapsed'[p] = timeout_elapsed[p]
  BY DEF TimerTypes, reset_elapsed, Others

LEMMA Randomized ==
    ASSUME TimerTypes, NEW n \in Node, raft_randomize_election_timeout(n)
    PROVE  /\ election_timeout_rand' \in [Node -> RandomTimeouts]
           /\ \A p \in Others(n) : election_timeout_rand'[p] = election_timeout_rand[p]
  BY DEF TimerTypes, raft_randomize_election_timeout, Others

LEMMA HeartbeatsSent ==
    ASSUME TimerTypes, NEW n \in Node, heartbeats_sent(n)
    PROVE  /\ unheard' \in [Node -> Nat]
           /\ \A p \in Node : unheard[p] <= unheard'[p]
           /\ \A p \in Others(n) : current_term[p] <= current_term[n]
                                     => unheard'[p] = unheard[p] + 1
<1>1. \A p \in Node : unheard[p] \in Nat
  BY DEF TimerTypes
<1> QED
  BY <1>1 DEF heartbeats_sent, Others

LEMMA HeartbeatHeard ==
    ASSUME TimerTypes, NEW n \in Node, heartbeat_heard(n)
    PROVE  /\ unheard' \in [Node -> Nat] /\ unheard'[n] = 0
           /\ \A p \in Others(n) : unheard'[p] = unheard[p]
  BY DEF TimerTypes, heartbeat_heard, Others

LEMMA NewFollower ==
    ASSUME TimerTypes, NEW n \in Node, timer_of_new_follower(n), UNCHANGED ticked
    PROVE  TimerTypes' /\ TimerStep(n) /\ timeout_elapsed'[n] = 0
<1>1. \A p \in Others(n) : unheard[p] \in Nat
  BY DEF TimerTypes, Others
<1> QED
  BY <1>1, ResetElapsed, Randomized, HeartbeatHeard
     DEF timer_of_new_follower, TimerTypes, TimerStep

LEMMA TimersKept ==
    ASSUME TimerTypes, NEW n \in Node, UNCHANGED timerVars, UNCHANGED <<unheard, ticked>>
    PROVE  TimerTypes' /\ TimerStep(n)
<1>1. \A p \in Others(n) : unheard[p] \in Nat
  BY DEF TimerTypes, Others
<1> QED
  BY <1>1 DEF TimerTypes, TimerStep, timerVars

LEMMA PeriodicTimers ==
    ASSUME TimerTypes, NEW n \in Node, timed_periodic(n)
    PROVE  TimerTypes' /\ TimerStep(n)
<1>1. ticked' \in SUBSET Node
  BY DEF timed_periodic, period_over, TimerTypes
<1>2. \A p \in Node : unheard[p] \in Nat
  BY DEF TimerTypes
<1>3. CASE reset_elapsed(n)
  <2>1. /\ election_timeout_rand' \in [Node -> RandomTimeouts]
        /\ \A p \in Others(n) : election_timeout_rand'[p] = election_timeout_rand[p]
    BY Randomized DEF timed_periodic, TimerTypes
  <2>2. unheard' \in [Node -> Nat] /\ \A p \in Node : unheard[p] <= unheard'[p]
    BY <1>2, HeartbeatsSent DEF timed_periodic, TimerTypes
  <2> QED
    BY <1>1, <1>3, <2>1, <2>2, ResetElapsed DEF TimerTypes, TimerStep, Others
<1>4. CASE ~ reset_elapsed(n)
  <2>1. /\ timeout_elapsed' = [timeout_elapsed EXCEPT ![n] = elapsed_now(n)]
        /\ UNCHANGED <<election_timeout_rand, unheard>>
    BY <1>4 DEF timed_periodic
  <2>2. elapsed_now(n) \in Nat
    BY TimerConstants DEF elapsed_now, tick, TimerTypes
  <2> QED
    BY <1>1, <1>2, <2>1, <2>2 DEF TimerTypes, TimerStep, Others
<1> QED
  BY <1>3, <1>4

LEMMA PacketTimers ==
    ASSUME TimerTypes, NEW n \in Node, NEW m \in msgs, UNCHANGED ticked,
           \/ timed_requestvote(n, m) \/ timed_requestvote_response(n, m)
           \/ timed_appendentries(n, m) \/ timed_appendentries_response(n, m)
    PROVE  TimerTypes' /\ TimerStep(n)
<1>1. \A p \in Node : unheard[p] \in Nat
  BY DEF TimerTypes
<1>2. CASE timer_of_new_follower(n)
  BY <1>2, NewFollower
<1>3. CASE UNCHANGED timerVars /\ UNCHANGED unheard
  BY <1>3, TimersKept
<1>4. CASE /\ reset_elapsed(n) /\ UNCHANGED election_timeout_rand
           /\ (UNCHANGED unheard \/ heartbeat_heard(n) \/ heartbeats_sent(n))
  <2>1. /\ unheard' \in [Node -> Nat]
        /\ \A p \in Others(n) : unheard[p] <= unheard'[p]
    <3>1. CASE UNCHANGED unheard
      BY <1>1, <3>1 DEF TimerTypes, Others
    <3>2. CASE heartbeat_heard(n)
      BY <1>1, <3>2, HeartbeatHeard DEF Others
    <3>3. CASE heartbeats_sent(n)
      BY <3>3, HeartbeatsSent DEF Others
    <3> QED
      BY <1>4, <3>1, <3>2, <3>3
  <2> QED
    BY <1>4, <2>1, ResetElapsed DEF TimerTypes, TimerStep, Others
<1> QED
  BY <1>2, <1>3, <1>4 DEF timed_requestvote, timed_requestvote_response,
     timed_appendentries, timed_appendentries_response, timerVars

-----------------------------------------------------------------------------
(* Logs stay empty, for nothing is proposed, and so no node stops *)

QuietPacket(m) ==
    /\ m.type = "ae"  => m.prev_log_idx = 0 /\ m.entries = <<>> /\ m.src # m.dst
    /\ m.type = "aer" => m.current_idx = 0

Quiet ==
    /\ down = {}
    /\ \A n \in Node : log[n] = <<>>
    /\ \A n, p \in Node : next_idx[n][p] = 1 /\ match_idx[n][p] = 0
    /\ \A m \in msgs : QuietPacket(m)

LEMMA QuietHeartbeat ==
    ASSUME NEW n \in Node, NEW p \in Others(n), log'[n] = <<>>, next_idx'[n][p] = 1
    PROVE  QuietPacket(msg_appendentries(n, p)')
<1>1. SubSeq(<<>>, 1, Len(<<>>)) = <<>>
  OBVIOUS
<1>2. entries_from(log'[n], 1) = <<>>
  BY <1>1 DEF entries_from
<1> QED
  BY <1>2 DEF QuietPacket, msg_appendentries, Others

LEMMA QuietPeriodic ==
    ASSUME Quiet, NEW n \in Node, raft_periodic(n)
    PROVE  Quiet'
<1>1. UNCHANGED <<log, next_idx, match_idx, down>>
  BY DEF raft_periodic, peerVars
<1>2. CASE UNCHANGED msgs
  BY <1>1, <1>2 DEF Quiet
<1>3. CASE raft_send_appendentries_all(n)
  <2>1. msgs' = msgs \cup {msg_appendentries(n, p)' : p \in Others(n)}
    BY <1>3 DEF raft_send_appendentries_all, raft_send
  <2>2. \A p \in Others(n) : QuietPacket(msg_appendentries(n, p)')
    BY <1>1, QuietHeartbeat DEF Quiet, Others
  <2> QED
    BY <1>1, <2>1, <2>2 DEF Quiet
<1>4. CASE raft_election_start(n)
  <2>1. msgs' = msgs \cup {msg_requestvote(n, p)' : p \in Others(n)}
    BY <1>4 DEF raft_election_start, raft_become_candidate, raft_send
  <2>2. \A p \in Others(n) : QuietPacket(msg_requestvote(n, p)')
    BY DEF QuietPacket, msg_requestvote
  <2> QED
    BY <1>1, <2>1, <2>2 DEF Quiet
<1> QED
  BY <1>2, <1>3, <1>4 DEF raft_periodic, become_sole_leader, no_timeout

LEMMA QuietRequestVote ==
    ASSUME Quiet, NEW n \in Node, NEW m \in msgs, raft_recv_requestvote(n, m)
    PROVE  Quiet'
  BY DEF Quiet, QuietPacket, raft_recv_requestvote, raft_send, logVars, peerVars

LEMMA QuietStepDown ==
    ASSUME Quiet, NEW n \in Node, NEW m \in msgs, step_down(n, m)
    PROVE  Quiet'
  BY DEF Quiet, step_down, logVars, peerVars

LEMMA QuietVoteResponse ==
    ASSUME TypeOK, Quiet, NEW n \in Node, NEW m \in msgs,
           raft_recv_requestvote_response(n, m)
    PROVE  Quiet'
<1>1. CASE step_down(n, m)
  BY <1>1, QuietStepDown
<1>2. CASE count_vote(n, m) /\ raft_become_leader(n)
  <2>1. /\ UNCHANGED <<log, down>>
        /\ next_idx' = [next_idx EXCEPT ![n] =
                           [p \in Node |-> IF p = n THEN @[p] ELSE new_next_idx(n)]]
        /\ match_idx' = [match_idx EXCEPT ![n] =
                            [p \in Node |-> IF p = n THEN @[p] ELSE 0]]
        /\ msgs' = msgs \cup {msg_appendentries(n, p)' : p \in Others(n)}
    BY <1>2 DEF count_vote, raft_become_leader, raft_send, logVars
  <2>2. new_next_idx(n) = 1
    BY DEF new_next_idx, Quiet
  <2>3. \A p, q \in Node : next_idx'[p][q] = 1 /\ match_idx'[p][q] = 0
    BY <2>1, <2>2 DEF Quiet, TypeOK
  <2>4. \A p \in Others(n) : QuietPacket(msg_appendentries(n, p)')
    BY <2>1, <2>3, QuietHeartbeat DEF Quiet, Others
  <2> QED
    BY <2>1, <2>3, <2>4 DEF Quiet
<1>3. CASE count_vote(n, m) /\ ~ raft_become_leader(n)
  BY <1>3 DEF count_vote, Quiet, logVars, peerVars
<1> QED
  BY <1>1, <1>2, <1>3 DEF raft_recv_requestvote_response

LEMMA QuietAppendEntries ==
    ASSUME TypeOK, Quiet, NEW n \in Node, NEW m \in msgs, raft_recv_appendentries(n, m)
    PROVE  Quiet'
<1>1. /\ m.prev_log_idx = 0 /\ m.entries = <<>> /\ Len(m.entries) = 0
      /\ log[n] = <<>> /\ Len(log[n]) = 0
  BY DEF Quiet, QuietPacket, raft_recv_appendentries
<1>2. last_idx(m) = 0
  BY <1>1 DEF last_idx
<1>3. stale_term(n, m) \/ all_present(n, m)
  BY <1>1 DEF raft_recv_appendentries, no_prev_entry, prev_conflict, prev_differs,
     prev_matches, entry_conflict, append_first, batch_cut_short, null_entry
<1>4. UNCHANGED <<log, down>> /\ \E success : reply(n, m, success, 0)
  BY <1>1, <1>2, <1>3 DEF stale_term, all_present, logVars
<1>5. msgs \subseteq msgs' /\ \A r \in msgs' : r \in msgs \/ QuietPacket(r)
  BY <1>4 DEF reply, raft_send, QuietPacket
<1> QED
  BY <1>4, <1>5 DEF Quiet, raft_recv_appendentries, peerVars

LEMMA QuietAppendResponse ==
    ASSUME TypeOK, Quiet, NEW n \in Node, NEW m \in msgs,
           raft_recv_appendentries_response(n, m)
    PROVE  Quiet'
<1>1. m.type = "aer" /\ m \in AppendEntriesResponse
  BY PacketKinds DEF raft_recv_appendentries_response
<1>2. m.src \in Node /\ m.current_idx = 0
  BY <1>1 DEF AppendEntriesResponse, Quiet, QuietPacket
<1>3. next_idx[n][m.src] = 1 /\ match_idx[n][m.src] = 0
  BY <1>2 DEF Quiet
<1>4. ~ append_failed(n, m) /\ ~ append_succeeded(n, m)
  BY <1>2, <1>3 DEF append_failed, stale_failure, append_succeeded
<1> QED
  BY <1>4, QuietStepDown DEF raft_recv_appendentries_response

LEMMA QuietInit == Init => Quiet
  BY DEF Init, Quiet

-----------------------------------------------------------------------------
(* Steps of one node *)

\* A handler of node n runs, for a packet or for a period.
PacketStep(n, m) ==
    /\ UNCHANGED ticked
    /\ \/ timed_requestvote(n, m) \/ timed_requestvote_response(n, m)
       \/ timed_appendentries(n, m) \/ timed_appendentries_response(n, m)

HandlerStep(n) == timed_periodic(n) \/ \E m \in msgs : PacketStep(n, m)

LEMMA TimedNextIs == TimedNext => \E n \in Node : HandlerStep(n)
  BY DEF TimedNext, HandlerStep, PacketStep

LEMMA TimedPeriodic ==
    ASSUME NEW n \in Node, timed_periodic(n)
    PROVE  raft_periodic(n)
  BY DEF timed_periodic, raft_periodic

LEMMA TimedHandler ==
    ASSUME NEW n \in Node, NEW m \in msgs, PacketStep(n, m)
    PROVE  \/ raft_recv_requestvote(n, m) \/ raft_recv_requestvote_response(n, m)
           \/ raft_recv_appendentries(n, m) \/ raft_recv_appendentries_response(n, m)
  BY DEF PacketStep, timed_requestvote, timed_requestvote_response,
         timed_appendentries, timed_appendentries_response

LEMMA HandlerIsNext ==
    ASSUME NEW n \in Node, HandlerStep(n)
    PROVE  Next
  BY TimedPeriodic, TimedHandler DEF HandlerStep, Next, Receive

ClusterBase == ElectionInv /\ LeaderInv

LEMMA BaseStep == ClusterBase /\ [TimedNext]_timedVars => ClusterBase'
  BY TimedStep, ElectionStep, LeaderNext DEF ClusterBase

LEMMA QuietNext == ClusterBase /\ Quiet /\ [TimedNext]_timedVars => Quiet'
<1> SUFFICES ASSUME ClusterBase, Quiet, [TimedNext]_timedVars PROVE Quiet'
  OBVIOUS
<1>1. TypeOK
  BY DEF ClusterBase, ElectionInv
<1>2. CASE UNCHANGED timedVars
  BY <1>2 DEF timedVars, vars, logVars, peerVars, Quiet
<1>3. CASE TimedNext
  <2>1. PICK n \in Node : HandlerStep(n)
    BY <1>3, TimedNextIs
  <2> QED
    BY <1>1, <2>1, TimedPeriodic, TimedHandler, QuietPeriodic, QuietRequestVote,
       QuietVoteResponse, QuietAppendEntries, QuietAppendResponse DEF HandlerStep
<1> QED
  BY <1>2, <1>3

LEMMA HandlerVotes ==
    ASSUME ClusterBase, ClusterBase', Cardinality(Node) # 1, NEW n \in Node, HandlerStep(n)
    PROVE  VoteStep(n) /\ LeaderStep(n)
<1>1. TypeOK /\ TypeOK' /\ VoteInv /\ LeadersHeard
  BY DEF ClusterBase, ElectionInv, LeaderInv
<1>2. CASE timed_periodic(n)
  BY <1>1, <1>2, TimedPeriodic, PeriodicVotes, PeriodicLeader
<1>3. ASSUME NEW m \in msgs, PacketStep(n, m) PROVE VoteStep(n) /\ LeaderStep(n)
  BY <1>1, <1>3, TimedHandler, RequestVoteVotes, VoteResponseVotes, AppendEntriesVotes,
     AppendResponseVotes, RequestVoteLeader, VoteResponseLeader, AppendEntriesLeader,
     AppendResponseLeader
<1> QED
  BY <1>2, <1>3 DEF HandlerStep

\* A handler changes the role of its own node only.
LEMMA RolesElsewhere ==
    ASSUME ClusterBase, ClusterBase', NEW n \in Node, HandlerStep(n), NEW p \in Others(n)
    PROVE  /\ current_term'[p] = current_term[p] /\ state'[p] = state[p]
           /\ current_leader'[p] = current_leader[p]
<1>1. Cardinality(Node) # 1
  <2> SUFFICES ASSUME Cardinality(Node) = 1 PROVE FALSE
    OBVIOUS
  <2>1. PICK x : Node = {x}
    BY NodeAssumption, FS_Singleton
  <2> QED
    BY <2>1 DEF Others
<1> QED
  BY <1>1, HandlerVotes DEF VoteStep, LeaderStep

\* A leader stays one while its term lasts.
LEMMA LeaderLeaves ==
    ASSUME TypeOK, NEW n \in Node, HandlerStep(n), state[n] = "leader"
    PROVE  \/ current_term[n] < current_term'[n]
           \/ state'[n] = "leader" /\ current_term'[n] = current_term[n]
<1>1. CASE timed_periodic(n)
  BY <1>1, TimedPeriodic DEF raft_periodic, become_sole_leader,
     raft_send_appendentries_all, raft_election_start, no_timeout, serverVars
<1>2. ASSUME NEW m \in msgs, PacketStep(n, m)
      PROVE  \/ current_term[n] < current_term'[n]
             \/ state'[n] = "leader" /\ current_term'[n] = current_term[n]
  <2>1. /\ current_term[n] \in Nat /\ (m.type # "client" => m.term \in Nat)
    BY TermTypes
  <2>2. CASE raft_recv_requestvote(n, m)
    <3>1. /\ current_term'[n] = adopt_term(n, m)
          /\ state'[n] = IF newer(n, m) THEN "follower" ELSE state[n]
      BY <2>2 DEF raft_recv_requestvote, TypeOK
    <3> QED
      BY <2>1, <2>2, <3>1 DEF raft_recv_requestvote, adopt_term, newer, greater
  <2>3. CASE step_down(n, m)
    BY <2>3 DEF step_down, newer, TypeOK
  <2>4. CASE raft_recv_appendentries(n, m)
    <3>1. CASE stale_term(n, m)
      BY <3>1 DEF stale_term, serverVars
    <3>2. CASE ~ stale_term(n, m)
      <4>1. /\ current_term[n] <= m.term /\ current_term'[n] = m.term /\ m.type = "ae"
            /\ state'[n] = IF newer(n, m) \/ state[n] = "candidate" THEN "follower"
                                                                    ELSE state[n]
        BY <2>4, <3>2 DEF raft_recv_appendentries, TypeOK
      <4> QED
        BY <2>1, <4>1 DEF newer
    <3> QED
      BY <3>1, <3>2
  <2>5. CASE raft_recv_appendentries_response(n, m) /\ UNCHANGED serverVars
    BY <2>5 DEF serverVars
  <2> QED
    BY <1>2, <2>2, <2>3, <2>4, <2>5, TimedHandler
       DEF raft_recv_requestvote_response, raft_recv_appendentries_response
<1> QED
  BY <1>1, <1>2 DEF HandlerStep

\* Who has sent heartbeats leads still, or has entered a later term.
LeadersStay ==
    \A m \in msgs : m.type = "ae" =>
        /\ m.term <= current_term[m.src]
        /\ m.term = current_term[m.src] => state[m.src] = "leader"

LEMMA LeadersStayStep ==
    ASSUME ClusterBase, ClusterBase', LeadersStay, NEW n \in Node, HandlerStep(n)
    PROVE  LeadersStay'
<1>1. TypeOK /\ TypeOK'
  BY DEF ClusterBase, ElectionInv
<1>2. CASE Cardinality(Node) = 1
  BY <1>2 DEF ClusterBase, LeaderInv, Alone, LeadersStay
<1>3. CASE Cardinality(Node) # 1
  <2> SUFFICES ASSUME NEW m \in msgs', m.type = "ae"
               PROVE  /\ m.term <= current_term'[m.src]
                      /\ m.term = current_term'[m.src] => state'[m.src] = "leader"
    BY DEF LeadersStay
  <2>1. VoteStep(n)
    BY <1>3, HandlerVotes
  <2>2. current_term[n] \in Nat /\ current_term'[n] \in Nat
    BY <1>1, StepTypes
  <2>3. CASE m \notin msgs
    BY <2>1, <2>2, <2>3 DEF VoteStep, NewPacket
  <2>4. CASE m \in msgs
    <3>1. m.src \in Node /\ m.term \in Nat
      BY <1>1, <2>4, PacketKinds, TermTypes DEF AppendEntries
    <3>2. /\ m.term <= current_term[m.src]
          /\ m.term = current_term[m.src] => state[m.src] = "leader"
      BY <2>4 DEF LeadersStay
    <3>3. CASE m.src = n
      <4>1. current_term[n] <= current_term'[n]
        BY <2>1, <2>2 DEF VoteStep
      <4> QED
        BY <1>1, <2>2, <3>1, <3>2, <3>3, <4>1, LeaderLeaves
    <3>4. CASE m.src # n
      BY <3>1, <3>2, <3>4, RolesElsewhere DEF Others
    <3> QED
      BY <3>3, <3>4
  <2> QED
    BY <2>3, <2>4
<1> QED
  BY <1>2, <1>3

-----------------------------------------------------------------------------
(* No timeout is overdue *)

Limit(n) == IF state[n] = "leader" THEN REQUEST_TIMEOUT ELSE election_timeout_rand[n]

InTime == \A n \in Node : timeout_elapsed[n] < Limit(n)

\* Only whole periods are counted.
Multiples == \A n \in Node : \E k \in Nat : timeout_elapsed[n] = k * tick

\* A packet leaves a timer alone, or resets it.
LEMMA PacketOutcome ==
    ASSUME TypeOK, TimerTypes, NEW n \in Node, NEW m \in msgs, PacketStep(n, m)
    PROVE  \/ timeout_elapsed'[n] = 0
           \/ /\ timeout_elapsed'[n] = timeout_elapsed[n]
              /\ election_timeout_rand'[n] = election_timeout_rand[n]
              /\ unheard'[n] = unheard[n]
              /\ state'[n] = state[n]
<1>1. CASE reset_elapsed(n)
  BY <1>1, ResetElapsed
<1>2. CASE timed_requestvote(n, m) /\ ~ reset_elapsed(n)
  <2>1. UNCHANGED timerVars /\ UNCHANGED unheard /\ ~ newer(n, m)
    BY <1>2 DEF timed_requestvote, timer_of_new_follower, timerVars
  <2>2. state'[n] = state[n]
    BY <1>2, <2>1 DEF timed_requestvote, raft_recv_requestvote, TypeOK
  <2> QED
    BY <2>1, <2>2 DEF timerVars
<1>3. CASE timed_requestvote_response(n, m) /\ ~ reset_elapsed(n)
  <2>1. UNCHANGED timerVars /\ UNCHANGED unheard /\ state'[n] = "candidate"
    BY <1>3 DEF timed_requestvote_response, timer_of_new_follower, timerVars
  <2>2. state[n] = "candidate"
    BY <1>3 DEF timed_requestvote_response, raft_recv_requestvote_response
  <2> QED
    BY <2>1, <2>2 DEF timerVars
<1>4. CASE timed_appendentries(n, m) /\ ~ reset_elapsed(n)
  <2>1. stale_term(n, m) /\ UNCHANGED timerVars /\ UNCHANGED unheard
    BY <1>4 DEF timed_appendentries, timer_of_new_follower, timerVars
  <2> QED
    BY <2>1 DEF stale_term, serverVars, timerVars
<1>5. CASE timed_appendentries_response(n, m) /\ ~ reset_elapsed(n)
  <2>1. UNCHANGED timerVars /\ UNCHANGED unheard /\ ~ newer(n, m)
    BY <1>5 DEF timed_appendentries_response, timer_of_new_follower, timerVars
  <2>2. state' = state
    BY <1>5, <2>1 DEF timed_appendentries_response, raft_recv_appendentries_response,
       step_down, serverVars
  <2> QED
    BY <2>1, <2>2 DEF timerVars
<1> QED
  BY <1>1, <1>2, <1>3, <1>4, <1>5 DEF PacketStep

\* So does a period that fires a timeout; any other counts on, below the limit.
LEMMA PeriodOutcome ==
    ASSUME TypeOK, TimerTypes, NEW n \in Node, timed_periodic(n)
    PROVE  \/ timeout_elapsed'[n] = 0
           \/ /\ timeout_elapsed'[n] = timeout_elapsed[n] + tick
              /\ timeout_elapsed'[n] < Limit(n)
              /\ UNCHANGED <<serverVars, election_timeout_rand, unheard>>
<1>1. CASE reset_elapsed(n)
  BY <1>1, ResetElapsed
<1>2. CASE ~ reset_elapsed(n)
  <2>1. /\ ~ request_due(n) /\ ~ election_due(n) /\ no_timeout(n)
        /\ timeout_elapsed' = [timeout_elapsed EXCEPT ![n] = elapsed_now(n)]
        /\ UNCHANGED <<election_timeout_rand, unheard>>
    BY <1>2 DEF timed_periodic
  <2>2. timeout_elapsed'[n] = elapsed_now(n)
    BY <2>1 DEF TimerTypes
  <2>3. /\ timeout_elapsed[n] \in Nat /\ elapsed_now(n) \in Nat
        /\ election_timeout_rand[n] \in Nat
    BY TimerConstants DEF elapsed_now, tick, TimerTypes
  <2>4. elapsed_now(n) < Limit(n)
    BY <2>1, <2>3, TimerConstants DEF request_due, election_due, no_timeout, Limit
  <2> QED
    BY <2>1, <2>2, <2>4 DEF no_timeout, elapsed_now, tick, serverVars
<1> QED
  BY <1>1, <1>2

LEMMA TimersStep ==
    ASSUME TimerTypes, NEW n \in Node, HandlerStep(n)
    PROVE  TimerTypes' /\ TimerStep(n)
  BY PeriodicTimers, PacketTimers DEF HandlerStep, PacketStep

LEMMA InTimeStep ==
    ASSUME ClusterBase, ClusterBase', TimerTypes, InTime, NEW n \in Node, HandlerStep(n)
    PROVE  InTime'
<1>1. TypeOK /\ TimerTypes' /\ TimerStep(n)
  BY TimersStep DEF ClusterBase, ElectionInv
<1> SUFFICES ASSUME NEW p \in Node
             PROVE  timeout_elapsed'[p] < Limit(p)'
  BY DEF InTime
<1>2. CASE timeout_elapsed'[p] = 0
  <2>1. election_timeout_rand'[p] \in RandomTimeouts
    BY <1>1 DEF TimerTypes
  <2> QED
    BY <1>2, <2>1, TimerConstants DEF Limit
<1>3. CASE p # n
  BY <1>1, <1>3, RolesElsewhere DEF TimerStep, InTime, Limit, Others
<1>4. CASE p = n /\ timeout_elapsed'[p] # 0
  <2>1. CASE timed_periodic(n)
    BY <1>1, <1>4, <2>1, PeriodOutcome DEF Limit, serverVars
  <2>2. ASSUME NEW m \in msgs, PacketStep(n, m) PROVE timeout_elapsed'[p] < Limit(p)'
    BY <1>1, <1>4, <2>2, PacketOutcome DEF InTime, Limit
  <2> QED
    BY <2>1, <2>2 DEF HandlerStep
<1> QED
  BY <1>2, <1>3, <1>4

LEMMA MultiplesStep ==
    ASSUME TypeOK, TimerTypes, Multiples, NEW n \in Node, HandlerStep(n)
    PROVE  Multiples'
<1> SUFFICES ASSUME NEW p \in Node
             PROVE  \E k \in Nat : timeout_elapsed'[p] = k * tick
  BY DEF Multiples
<1>1. PICK k \in Nat : timeout_elapsed[p] = k * tick
  BY DEF Multiples
<1>2. CASE timeout_elapsed'[p] = timeout_elapsed[p]
  BY <1>1, <1>2
<1>3. CASE timeout_elapsed'[p] = 0
  <2>1. 0 * tick = 0
    BY TimerConstants
  <2> QED
    BY <1>3, <2>1
<1>4. CASE timeout_elapsed'[p] = timeout_elapsed[p] + tick
  <2>1. (k + 1) * tick = k * tick + tick
    BY TimerConstants
  <2> QED
    BY <1>1, <1>4, <2>1
<1> QED
  BY <1>2, <1>3, <1>4, TimersStep DEF TimerStep, Others, elapsed_now, tick

\* The inductive invariant, whatever the timeouts are.
TimedInv ==
    /\ ClusterBase /\ Quiet /\ LeadersStay
    /\ TimerTypes /\ InTime /\ Multiples

LEMMA TimedInvInit == TimedInit => TimedInv
<1> SUFFICES ASSUME TimedInit PROVE TimedInv
  OBVIOUS
<1>1. ClusterBase /\ Quiet
  BY ElectionInit, LeaderInit, QuietInit DEF TimedInit, ClusterBase
<1>2. LeadersStay
  BY DEF TimedInit, Init, LeadersStay
<1>3. TimerTypes
  BY DEF TimedInit, TimerTypes
<1>4. \A n \in Node : timeout_elapsed[n] = 0 /\ election_timeout_rand[n] \in RandomTimeouts
  BY DEF TimedInit
<1>5. InTime
  BY <1>4, TimerConstants DEF InTime, Limit
<1>6. Multiples
  <2>1. 0 * tick = 0
    BY TimerConstants
  <2> QED
    BY <1>4, <2>1 DEF Multiples
<1> QED
  BY <1>1, <1>2, <1>3, <1>5, <1>6 DEF TimedInv

LEMMA TimedInvStep == TimedInv /\ [TimedNext]_timedVars => TimedInv'
<1> SUFFICES ASSUME TimedInv, [TimedNext]_timedVars PROVE TimedInv'
  OBVIOUS
<1>1. ClusterBase' /\ Quiet'
  BY BaseStep, QuietNext DEF TimedInv
<1>2. CASE UNCHANGED timedVars
  BY <1>1, <1>2 DEF timedVars, vars, serverVars, timerVars, TimedInv, LeadersStay,
     TimerTypes, InTime, Limit, Multiples
<1>3. CASE TimedNext
  <2>1. PICK n \in Node : HandlerStep(n)
    BY <1>3, TimedNextIs
  <2>2. LeadersStay' /\ InTime' /\ TimerTypes' /\ Multiples'
    BY <1>1, <2>1, LeadersStayStep, InTimeStep, TimersStep, MultiplesStep
       DEF TimedInv, ClusterBase, ElectionInv
  <2> QED
    BY <1>1, <2>2 DEF TimedInv
<1> QED
  BY <1>2, <1>3

LEMMA TimedAlways == TimedSpec => []TimedInv
  BY TimedInvInit, TimedInvStep, PTL DEF TimedSpec

\* A leader's heartbeats and a candidate's next attempt come with the first period
\* after the timeout, in a cluster of any size and with any timeouts: no handler
\* resets less than it must, none leaves a timer beyond its limit behind when the
\* role changes.
THEOREM NoneOverdue == TimedSpec => []Punctual
<1>1. TimedInv => Punctual
  BY DEF TimedInv, InTime, Limit, Punctual
<1> QED
  BY <1>1, TimedAlways, PTL

-----------------------------------------------------------------------------
(* How far a follower's timer can run ahead of the heartbeats *)

\* In this round a has had its period and b has not.
ahead(a, b) == IF a \in ticked /\ b \notin ticked THEN tick ELSE 0

\* Follower n counts at most h seconds for every heartbeat of l it has missed,
\* what l has counted since the last one, and a period for being out of step.
DriftOf(n, l, h) ==
    timeout_elapsed[n] + ahead(l, n)
        <= unheard[n] * h + timeout_elapsed[l] + ahead(n, l) + tick

Drift(h) ==
    \A n, l \in Node : Follows(n) /\ current_leader[n] = l => DriftOf(n, l, h)

LEMMA Products ==
    ASSUME NEW a \in Nat, NEW b \in Nat, NEW h \in Nat, a <= b
    PROVE  a * h \in Nat /\ a * h <= b * h /\ (a + 1) * h = a * h + h
<1>1. (b - a) * h \in Nat /\ a * h \in Nat
  OBVIOUS
<1>2. b * h = a * h + (b - a) * h
  OBVIOUS
<1> QED
  BY <1>1, <1>2

LEMMA AheadType ==
    ASSUME NEW a, NEW b
    PROVE  /\ ahead(a, b) \in Nat /\ ahead(a, b) <= tick
           /\ ahead(a, b)' \in Nat /\ ahead(a, b)' <= tick
  BY TimerConstants DEF ahead

\* The period of n, and that of a third node.
LEMMA PeriodTurn ==
    ASSUME Quiet, NEW n \in Node, NEW l \in Node, n # l, timed_periodic(n)
    PROVE  ahead(l, n) + ahead(n, l)' = ahead(l, n)' + ahead(n, l) + tick
<1>1. /\ n \notin ticked
      /\ ticked' = IF Node \subseteq ticked \cup {n} THEN {} ELSE ticked \cup {n}
  BY DEF timed_periodic, period_over, Quiet
<1>2. CASE l \in ticked
  BY <1>1, <1>2, TimerConstants DEF ahead
<1>3. CASE l \notin ticked
  <2>1. ticked' = ticked \cup {n}
    BY <1>1, <1>3
  <2> QED
    BY <1>1, <1>3, <2>1, TimerConstants DEF ahead
<1> QED
  BY <1>2, <1>3

LEMMA OthersTurn ==
    ASSUME Quiet, NEW x \in Node, NEW n \in Others(x), NEW l \in Others(x), timed_periodic(x)
    PROVE  ahead(l, n)' = ahead(l, n)
<1>1. ticked' = IF Node \subseteq ticked \cup {x} THEN {} ELSE ticked \cup {x}
  BY DEF timed_periodic, period_over, Quiet
<1>2. CASE Node \subseteq ticked \cup {x}
  BY <1>1, <1>2 DEF ahead, Others
<1>3. CASE ~ (Node \subseteq ticked \cup {x})
  BY <1>1, <1>3 DEF ahead, Others
<1> QED
  BY <1>2, <1>3

LEMMA SeveralNodesHere ==
    ASSUME NEW n \in Node, NEW l \in Node, n # l
    PROVE  Cardinality(Node) # 1
<1> SUFFICES ASSUME Cardinality(Node) = 1 PROVE FALSE
  OBVIOUS
<1>1. PICK x : Node = {x}
  BY NodeAssumption, FS_Singleton
<1> QED
  BY <1>1

\* A follower whose timer is not reset has the leader it had.
LEMMA FollowerKept ==
    ASSUME TypeOK, TypeOK', TimerTypes, NEW n \in Node, NEW m \in msgs, PacketStep(n, m),
           state'[n] = "follower", current_leader'[n] # Nil, timeout_elapsed'[n] # 0
    PROVE  /\ state[n] = "follower" /\ current_leader'[n] = current_leader[n]
           /\ current_term'[n] = current_term[n]
           /\ timeout_elapsed'[n] = timeout_elapsed[n] /\ unheard'[n] = unheard[n]
<1>1. /\ state[n] = "follower" /\ timeout_elapsed'[n] = timeout_elapsed[n]
      /\ unheard'[n] = unheard[n]
  BY PacketOutcome
<1>2. ~ reset_elapsed(n)
  BY ResetElapsed
<1>3. CASE timed_requestvote(n, m)
  <2>1. ~ newer(n, m)
    BY <1>2, <1>3 DEF timed_requestvote, timer_of_new_follower
  <2>2. /\ current_term'[n] = adopt_term(n, m)
        /\ current_leader'[n] = Nil \/ current_leader'[n] = current_leader[n]
    BY <1>3 DEF timed_requestvote, raft_recv_requestvote, TypeOK
  <2>3. current_term[n] \in Nat /\ m.term \in Nat
    BY <1>3, TermTypes DEF timed_requestvote, raft_recv_requestvote
  <2>4. adopt_term(n, m) = current_term[n]
    BY <2>1, <2>3 DEF adopt_term, greater, newer
  <2> QED
    BY <1>1, <2>2, <2>4
<1>4. CASE timed_appendentries(n, m)
  <2>1. stale_term(n, m)
    BY <1>2, <1>4 DEF timed_appendentries, timer_of_new_follower
  <2> QED
    BY <1>1, <2>1 DEF stale_term, serverVars
<1> QED
  BY <1>1, <1>3, <1>4 DEF PacketStep, timed_requestvote_response,
     raft_recv_requestvote_response, timed_appendentries_response,
     raft_recv_appendentries_response

\* No packet touches the timer of a leader that stays.
LEMMA LeaderTimerKept ==
    ASSUME TimedInv, TimedInv', Cardinality(Node) # 1, NEW l \in Node, NEW m \in msgs,
           PacketStep(l, m), state[l] = "leader", current_term'[l] = current_term[l]
    PROVE  timeout_elapsed'[l] = timeout_elapsed[l] /\ UNCHANGED unheard
<1>1. /\ TypeOK /\ LeadersHeard /\ ElectionInv
      /\ VoteStep(l) /\ voted_for[l] = l /\ voted_for[l] # Nil
  BY NilAssumption, HandlerVotes
     DEF TimedInv, ClusterBase, ElectionInv, LeaderInv, LeadersHeard, HandlerStep
<1>2. current_term[l] \in Nat /\ current_term[l] \in Terms
  BY <1>1, TermTypes DEF TypeOK
<1>3. voted_for'[l] = voted_for[l]
  BY <1>1, <1>2 DEF VoteStep
<1>4. m.type # "client" => m.term \in Nat
  BY <1>1, TermTypes
<1>5. CASE timed_requestvote(l, m)
  <2>1. current_term'[l] = adopt_term(l, m)
    BY <1>1, <1>5 DEF timed_requestvote, raft_recv_requestvote, TypeOK
  <2>2. ~ newer(l, m)
    BY <1>2, <1>4, <1>5, <2>1
       DEF timed_requestvote, raft_recv_requestvote, adopt_term, greater, newer
  <2> QED
    BY <1>3, <1>5, <2>2 DEF timed_requestvote
<1>6. CASE timed_appendentries(l, m)
  <2>1. CASE stale_term(l, m)
    <3>1. m.term < current_term[l] /\ m.type = "ae"
      BY <1>6, <2>1 DEF timed_appendentries, stale_term, raft_recv_appendentries
    <3>2. ~ (current_term[l] <= m.term)
      BY <1>2, <1>4, <3>1
    <3>3. UNCHANGED <<timerVars, unheard>>
      BY <1>6, <3>2 DEF timed_appendentries
    <3> QED
      BY <3>3 DEF timerVars
  <2>2. CASE ~ stale_term(l, m)
    <3>1. /\ m.type = "ae" /\ m.dst = l /\ current_term'[l] = m.term
      BY <1>1, <1>6, <2>2 DEF timed_appendentries, raft_recv_appendentries, TypeOK
    <3>2. WasLeader(l, current_term[l]) /\ WasLeader(m.src, current_term[l])
      BY <3>1 DEF WasLeader
    <3>3. m.src \in Node
      BY <1>1, <3>1, PacketKinds DEF AppendEntries
    <3>4. m.src = l
      BY <1>1, <1>2, <3>2, <3>3, InvElectionSafety DEF ElectionSafety
    <3>5. m.src # m.dst
      BY <3>1 DEF TimedInv, Quiet, QuietPacket
    <3> QED
      BY <3>1, <3>4, <3>5
  <2> QED
    BY <2>1, <2>2
<1>7. CASE timed_appendentries_response(l, m)
  <2>1. CASE newer(l, m)
    <3>1. current_term'[l] = m.term
      BY <1>1, <1>2, <1>4, <1>7, <2>1 DEF timed_appendentries_response,
         raft_recv_appendentries_response, step_down, newer, TypeOK
    <3> QED
      BY <1>2, <2>1, <3>1 DEF newer
  <2>2. CASE ~ newer(l, m)
    BY <1>7, <2>2 DEF timed_appendentries_response, timerVars
  <2> QED
    BY <2>1, <2>2
<1> QED
  BY <1>5, <1>6, <1>7 DEF PacketStep, timed_requestvote_response,
     raft_recv_requestvote_response

\* A node that is taken for the leader of the present term is one.
LEMMA FollowedLeads ==
    ASSUME TimedInv, NEW n \in Node, NEW l \in Node, n # l, current_leader[n] = l
    PROVE  /\ current_term[n] <= current_term[l]
           /\ current_term[n] = current_term[l] => state[l] = "leader"
<1>1. LeadersHeard /\ l # Nil
  BY NilAssumption, SeveralNodesHere DEF TimedInv, ClusterBase, LeaderInv
<1>2. PICK m \in msgs : m.type = "ae" /\ m.src = l /\ m.term = current_term[n]
  BY <1>1 DEF LeadersHeard, Led
<1> QED
  BY <1>2 DEF TimedInv, LeadersStay

LEMMA DriftTypes ==
    ASSUME TimerTypes, TimerTypes', NEW n \in Node
    PROVE  /\ timeout_elapsed[n] \in Nat /\ timeout_elapsed'[n] \in Nat
           /\ unheard[n] \in Nat /\ unheard'[n] \in Nat
  BY DEF TimerTypes

LEMMA DriftStep ==
    ASSUME TimedInv, TimedInv', NEW h \in Nat, Drift(h), NEW x \in Node, HandlerStep(x),
           \A l \in Node : state[l] = "leader" => timeout_elapsed[l] + tick <= h
    PROVE  Drift(h)'
<1> SUFFICES ASSUME NEW n \in Node, NEW l \in Node, Follows(n)', current_leader'[n] = l
             PROVE  DriftOf(n, l, h)'
  BY DEF Drift
<1>1. /\ TypeOK /\ TypeOK' /\ ClusterBase /\ ClusterBase' /\ Quiet
      /\ TimerTypes /\ TimerTypes' /\ TimerStep(x)
  BY TimersStep DEF TimedInv, ClusterBase, ElectionInv
<1>2. /\ state'[n] = "follower" /\ l # Nil /\ state'[l] = "leader"
      /\ current_term'[l] = current_term'[n] /\ n # l
  BY DEF Follows
<1>3. Cardinality(Node) # 1
  BY <1>2, SeveralNodesHere
<1>4. /\ tick \in Nat \ {0}
      /\ timeout_elapsed[n] \in Nat /\ timeout_elapsed'[n] \in Nat
      /\ timeout_elapsed[l] \in Nat /\ timeout_elapsed'[l] \in Nat
      /\ unheard[n] \in Nat /\ unheard'[n] \in Nat
  BY <1>1, DriftTypes, TimerConstants
<1>5. /\ ahead(l, n) \in Nat /\ ahead(l, n)' \in Nat /\ ahead(n, l) \in Nat
      /\ ahead(n, l)' \in Nat /\ ahead(l, n)' <= tick
  BY AheadType
<1>6. unheard[n] * h \in Nat /\ unheard'[n] * h \in Nat
  BY <1>4
<1>7. unheard[n] <= unheard'[n] => unheard[n] * h <= unheard'[n] * h
  BY <1>4, Products
<1>8. DriftOf(n, l, h)' <=> timeout_elapsed'[n] + ahead(l, n)'
          <= unheard'[n] * h + timeout_elapsed'[l] + ahead(n, l)' + tick
  BY DEF DriftOf
<1>9. Follows(n) /\ current_leader[n] = l =>
          timeout_elapsed[n] + ahead(l, n)
              <= unheard[n] * h + timeout_elapsed[l] + ahead(n, l) + tick
  BY DEF Drift, DriftOf
<1> DEFINE u  == unheard[n] * h
           v  == unheard'[n] * h
           a  == ahead(l, n)
           b  == ahead(n, l)
           c  == ahead(l, n)'
           d  == ahead(n, l)'
           e  == timeout_elapsed[n]
           f  == timeout_elapsed[l]
           e2 == timeout_elapsed'[n]
           f2 == timeout_elapsed'[l]
<1>10. /\ u \in Nat /\ v \in Nat /\ a \in Nat /\ b \in Nat /\ c \in Nat /\ d \in Nat
       /\ e \in Nat /\ f \in Nat /\ e2 \in Nat /\ f2 \in Nat /\ tick \in Nat /\ c <= tick
       /\ (unheard[n] <= unheard'[n] => u <= v)
       /\ (Follows(n) /\ current_leader[n] = l => e + a <= u + f + b + tick)
       /\ (DriftOf(n, l, h)' <=> e2 + c <= v + f2 + d + tick)
  BY <1>4, <1>5, <1>6, <1>7, <1>8, <1>9
<1>11. unheard[n] <= unheard[n]
  BY <1>4
<1>12. CASE e2 = 0
  <2> HIDE DEF u, v, a, b, c, d, e, f, e2, f2
  <2> QED
    BY <1>10, <1>12
<1>13. CASE x = n /\ e2 # 0
  <2>1. f2 = f
    BY <1>1, <1>2, <1>13 DEF TimerStep, Others
  <2>2. /\ current_term'[l] = current_term[l] /\ state'[l] = state[l]
    BY <1>1, <1>2, <1>13, RolesElsewhere DEF Others
  <2>3. CASE timed_periodic(n)
    <3>1. e2 = e + tick /\ UNCHANGED <<serverVars, election_timeout_rand, unheard>>
      BY <1>1, <1>13, <2>3, PeriodOutcome
    <3>2. Follows(n) /\ current_leader[n] = l /\ v = u
      BY <3>1 DEF Follows, serverVars
    <3>3. a + d = c + b + tick
      BY <1>1, <1>2, <2>3, PeriodTurn
    <3> HIDE DEF u, v, a, b, c, d, e, f, e2, f2
    <3> QED
      BY <1>10, <2>1, <3>1, <3>2, <3>3
  <2>4. ASSUME NEW m \in msgs, PacketStep(n, m) PROVE DriftOf(n, l, h)'
    <3>1. /\ state[n] = "follower" /\ current_leader'[n] = current_leader[n]
          /\ current_term'[n] = current_term[n] /\ e2 = e /\ unheard'[n] = unheard[n]
      BY <1>1, <1>2, <1>13, <2>4, FollowerKept
    <3>2. Follows(n) /\ current_leader[n] = l /\ v = u
      BY <1>2, <2>2, <3>1 DEF Follows
    <3>3. c = a /\ d = b
      BY <2>4 DEF PacketStep, ahead
    <3> HIDE DEF u, v, a, b, c, d, e, f, e2, f2
    <3> QED
      BY <1>10, <2>1, <3>1, <3>2, <3>3
  <2> QED
    BY <1>13, <2>3, <2>4 DEF HandlerStep
<1>14. ASSUME x # n
       PROVE  /\ e2 = e /\ unheard[n] <= unheard'[n]
              /\ current_term'[n] = current_term[n] /\ state[n] = "follower"
              /\ current_leader[n] = l
  BY <1>1, <1>2, <1>14, RolesElsewhere DEF TimerStep, Others
<1>15. CASE x = l
  <2>1. current_term[l] \in Nat /\ current_term'[l] \in Nat /\ current_term[n] \in Nat
    BY <1>1, StepTypes
  <2>2. current_term[l] <= current_term'[l]
    BY <1>3, <1>1, <1>15, <2>1, HandlerVotes DEF VoteStep
  <2>3. /\ current_term[n] = current_term[l] /\ state[l] = "leader"
        /\ current_term'[l] = current_term[l]
    BY <1>2, <1>14, <1>15, <2>1, <2>2, FollowedLeads
  <2>4. Follows(n)
    BY <1>2, <1>14, <1>15, <2>3 DEF Follows
  <2>5. CASE timed_periodic(l)
    <3>1. b + c = d + a + tick
      BY <1>1, <1>2, <2>5, PeriodTurn
    <3>2. CASE f2 = f + tick
      <4>1. e2 = e /\ u <= v /\ e + a <= u + f + b + tick
        BY <1>2, <1>10, <1>14, <1>15, <2>4
      <4> HIDE DEF u, v, a, b, c, d, e, f, e2, f2
      <4> QED
        BY <1>10, <3>1, <3>2, <4>1
    <3>3. CASE f2 # f + tick
      <4>1. reset_elapsed(l)
        <5> SUFFICES ASSUME ~ reset_elapsed(l) PROVE FALSE
          OBVIOUS
        <5>1. timeout_elapsed' = [timeout_elapsed EXCEPT ![l] = elapsed_now(l)]
          BY <2>5 DEF timed_periodic
        <5> QED
          BY <1>1, <3>3, <5>1 DEF TimerTypes, elapsed_now, tick
      <4>2. f2 = 0
        BY <1>1, <4>1, ResetElapsed
      <4>3. heartbeats_sent(l)
        <5>1. \/ become_sole_leader(l) \/ heartbeats_sent(l) \/ election_due(l)
              \/ timeout_elapsed' = [timeout_elapsed EXCEPT ![l] = elapsed_now(l)]
          BY <2>5 DEF timed_periodic
        <5>2. timeout_elapsed' # [timeout_elapsed EXCEPT ![l] = elapsed_now(l)]
          BY <1>1, <3>3 DEF TimerTypes, elapsed_now, tick
        <5> QED
          BY <2>3, <5>1, <5>2 DEF become_sole_leader, election_due
      <4>4. unheard'[n] = unheard[n] + 1
        <5>1. n \in Others(l) /\ current_term[n] <= current_term[l]
          BY <1>2, <2>1, <2>3 DEF Others
        <5> QED
          BY <1>1, <4>3, <5>1, HeartbeatsSent
      <4>5. v = u + h
        BY <1>4, <1>11, <4>4, Products
      <4>6. f + tick <= h
        BY <2>3
      <4>7. e2 = e /\ e + a <= u + f + b + tick
        BY <1>2, <1>10, <1>14, <1>15, <2>4
      <4> HIDE DEF u, v, a, b, c, d, e, f, e2, f2
      <4> QED
        BY <1>10, <3>1, <4>2, <4>5, <4>6, <4>7
    <3> QED
      BY <3>2, <3>3
  <2>6. ASSUME NEW m \in msgs, PacketStep(l, m) PROVE DriftOf(n, l, h)'
    <3>1. f2 = f /\ unheard' = unheard
      BY <1>3, <2>3, <2>6, LeaderTimerKept
    <3>2. c = a /\ d = b
      BY <2>6 DEF PacketStep, ahead
    <3>3. e2 = e /\ v = u /\ e + a <= u + f + b + tick
      BY <1>2, <1>10, <1>14, <1>15, <2>4, <3>1
    <3> HIDE DEF u, v, a, b, c, d, e, f, e2, f2
    <3> QED
      BY <1>10, <3>1, <3>2, <3>3
  <2> QED
    BY <1>15, <2>5, <2>6 DEF HandlerStep
<1>16. CASE x # n /\ x # l
  <2>1. /\ current_term'[l] = current_term[l] /\ state'[l] = state[l] /\ f2 = f
    BY <1>1, <1>16, RolesElsewhere DEF TimerStep, Others
  <2>2. Follows(n)
    BY <1>2, <1>14, <1>16, <2>1 DEF Follows
  <2>3. c = a /\ d = b
    <3>1. n \in Others(x) /\ l \in Others(x)
      BY <1>16 DEF Others
    <3> QED
      BY <1>1, <3>1, OthersTurn DEF HandlerStep, PacketStep, ahead
  <2>4. e2 = e /\ u <= v /\ e + a <= u + f + b + tick
    BY <1>10, <1>14, <1>16, <2>2
  <2> HIDE DEF u, v, a, b, c, d, e, f, e2, f2
  <2> QED
    BY <1>10, <2>1, <2>3, <2>4
<1> QED
  BY <1>12, <1>13, <1>15, <1>16

-----------------------------------------------------------------------------
(* A leader that is followed is not challenged *)

\* A leader sends heartbeats every p periods; MaxUnheard + 1 of these and one more
\* period are shorter than the election timeout.
FitsWith(p) ==
    /\ REQUEST_TIMEOUT <= p * tick
    /\ (MaxUnheard + 1) * (p * tick) + tick < ELECTION_TIMEOUT

HeartbeatsFit == \E p \in Nat : FitsWith(p)

\* With the timeouts of main.c they fit, if four heartbeats in a row are not heard.
LEMMA SourceTimeouts ==
    ASSUME RAFT_PERIODIC_TICK = 4, REQUEST_TIMEOUT = 8, ELECTION_TIMEOUT = 50, MaxUnheard = 4
    PROVE  HeartbeatsFit
<1>1. FitsWith(2)
  BY DEF FitsWith, tick
<1> QED
  BY <1>1 DEF HeartbeatsFit

LEMMA HeartbeatPeriod ==
    ASSUME TimedInv, NEW p \in Nat, FitsWith(p), NEW l \in Node, state[l] = "leader"
    PROVE  timeout_elapsed[l] + tick <= p * tick
<1>1. tick \in Nat \ {0} /\ REQUEST_TIMEOUT \in Nat
  BY TimerConstants
<1>2. PICK k \in Nat : timeout_elapsed[l] = k * tick
  BY DEF TimedInv, Multiples
<1>3. k * tick < REQUEST_TIMEOUT
  BY <1>2 DEF TimedInv, InTime, Limit
<1>4. k * tick \in Nat /\ p * tick \in Nat
  BY <1>1
<1>5. k * tick < p * tick
  BY <1>1, <1>3, <1>4 DEF FitsWith
<1>6. k + 1 <= p
  <2> SUFFICES ASSUME p <= k PROVE FALSE
    OBVIOUS
  <2>1. p * tick <= k * tick
    BY <1>1, Products
  <2> QED
    BY <1>4, <1>5, <2>1
<1>7. (k + 1) * tick <= p * tick
  BY <1>1, <1>6, Products
<1>8. (k + 1) * tick = k * tick + tick
  BY <1>1
<1> QED
  BY <1>2, <1>7, <1>8

\* Only a timeout makes a candidate of a follower.
LEMMA FromFollower ==
    ASSUME TypeOK, NEW n \in Node, HandlerStep(n), state[n] = "follower",
           state'[n] = "candidate"
    PROVE  timed_periodic(n) /\ election_due(n)
<1>1. ASSUME NEW m \in msgs, PacketStep(n, m) PROVE FALSE
  <2>1. CASE raft_recv_requestvote(n, m)
    BY <2>1 DEF raft_recv_requestvote, TypeOK
  <2>2. CASE raft_recv_appendentries(n, m)
    BY <2>2 DEF raft_recv_appendentries, stale_term, serverVars, TypeOK
  <2> QED
    BY <1>1, <2>1, <2>2, TimedHandler
       DEF raft_recv_requestvote_response, raft_recv_appendentries_response
<1>2. timed_periodic(n)
  BY <1>1 DEF HandlerStep
<1>3. CASE become_sole_leader(n)
  BY <1>3 DEF become_sole_leader, TypeOK
<1>4. CASE raft_send_appendentries_all(n)
  BY <1>4 DEF raft_send_appendentries_all
<1>5. CASE no_timeout(n)
  BY <1>5 DEF no_timeout, serverVars
<1> QED
  BY <1>2, <1>3, <1>4, <1>5 DEF timed_periodic

LEMMA KeptStep ==
    ASSUME TimedInv, TimedInv', NEW p \in Nat, FitsWith(p), Drift(p * tick),
           NEW x \in Node, HandlerStep(x), NEW n \in Node, Follows(n)
    PROVE  state'[n] # "candidate"
<1> SUFFICES ASSUME state'[n] = "candidate" PROVE FALSE
  OBVIOUS
<1> DEFINE h == p * tick
           l == current_leader[n]
<1>1. /\ TypeOK /\ ClusterBase /\ ClusterBase' /\ TimerTypes /\ TimerTypes'
      /\ state[n] = "follower" /\ state[l] = "leader" /\ l # Nil
  BY DEF TimedInv, ClusterBase, ElectionInv, Follows
<1>2. l \in Node
  BY <1>1 DEF TypeOK
<1>3. x = n
  BY <1>1, RolesElsewhere DEF Others
<1>4. timed_periodic(n) /\ election_due(n)
  BY <1>1, <1>3, FromFollower
<1>5. /\ tick \in Nat \ {0} /\ MaxUnheard \in Nat /\ ELECTION_TIMEOUT \in Nat
      /\ timeout_elapsed[n] \in Nat /\ timeout_elapsed[l] \in Nat /\ unheard[n] \in Nat
      /\ election_timeout_rand[n] \in Nat /\ ELECTION_TIMEOUT <= election_timeout_rand[n]
  <2>1. election_timeout_rand[n] \in RandomTimeouts
    BY <1>1 DEF TimerTypes
  <2> QED
    BY <1>1, <1>2, <2>1, DriftTypes, TimerConstants
<1>6. election_timeout_rand[n] <= timeout_elapsed[n] + tick
  BY <1>4 DEF election_due, elapsed_now, tick
<1>7. unheard[n] <= MaxUnheard /\ n \notin ticked
  BY <1>4 DEF timed_periodic
<1>8. /\ timeout_elapsed[n] + ahead(l, n)
            <= unheard[n] * h + timeout_elapsed[l] + ahead(n, l) + tick
      /\ ahead(l, n) \in Nat /\ ahead(n, l) = 0
  BY <1>2, <1>7, AheadType DEF Drift, DriftOf, ahead
<1>9. timeout_elapsed[l] + tick <= h
  BY <1>1, <1>2, HeartbeatPeriod
<1>10. h \in Nat
  BY <1>5
<1>11. /\ unheard[n] * h \in Nat /\ unheard[n] * h <= MaxUnheard * h
       /\ MaxUnheard * h \in Nat /\ (MaxUnheard + 1) * h = MaxUnheard * h + h
  <2> HIDE DEF h
  <2> QED
    BY <1>5, <1>7, <1>10, Products
<1>12. (MaxUnheard + 1) * h + tick < ELECTION_TIMEOUT
  BY DEF FitsWith
<1> DEFINE e == timeout_elapsed[n]
           f == timeout_elapsed[l]
           u == unheard[n] * h
           v == MaxUnheard * h
           a == ahead(l, n)
           r == election_timeout_rand[n]
<1>13. /\ e \in Nat /\ f \in Nat /\ u \in Nat /\ v \in Nat /\ a \in Nat /\ r \in Nat
       /\ h \in Nat /\ tick \in Nat /\ ELECTION_TIMEOUT \in Nat
       /\ e + a <= u + f + 0 + tick /\ f + tick <= h /\ u <= v
       /\ v + h + tick < ELECTION_TIMEOUT /\ ELECTION_TIMEOUT <= r /\ r <= e + tick
  <2>1. e + a <= u + f + 0 + tick
    BY <1>8
  <2>2. v + h + tick < ELECTION_TIMEOUT
    BY <1>11, <1>12
  <2> QED
    BY <1>5, <1>6, <1>8, <1>9, <1>10, <1>11, <2>1, <2>2
<1> HIDE DEF e, f, u, v, a, r, h
<1> QED
  BY <1>13

\* Nobody challenges a leader it follows, in a cluster of any size: periods in any
\* order, MaxUnheard heartbeats in a row not heard by a node, answers and votes late or
\* repeated, deposed leaders still sending.  The timeouts may be any that fit
\* (HeartbeatsFit); by SourceTimeouts those of main.c do, for four.
THEOREM LeadersKept == ASSUME HeartbeatsFit PROVE TimedSpec => LeaderKept
<1>1. PICK p \in Nat : FitsWith(p)
  BY DEF HeartbeatsFit
<1> DEFINE h == p * tick
           D == Drift(h)
<1>2. h \in Nat
  BY TimerConstants
<1>3. TimedInit => D
  BY DEF TimedInit, Init, Drift, Follows
<1>4. TimedInv /\ TimedInv' /\ D /\ [TimedNext]_timedVars => D'
  <2> SUFFICES ASSUME TimedInv, TimedInv', D, [TimedNext]_timedVars PROVE D'
    OBVIOUS
  <2>1. CASE UNCHANGED timedVars
    BY <2>1 DEF timedVars, vars, serverVars, timerVars, Drift, DriftOf, Follows, ahead
  <2>2. CASE TimedNext
    <3>1. PICK x \in Node : HandlerStep(x)
      BY <2>2, TimedNextIs
    <3>2. \A l \in Node : state[l] = "leader" => timeout_elapsed[l] + tick <= h
      BY <1>1, HeartbeatPeriod
    <3> HIDE DEF h
    <3> QED
      BY <1>2, <3>1, <3>2, DriftStep
  <2> QED
    BY <2>1, <2>2
<1>5. TimedInv /\ TimedInv' /\ D /\ [TimedNext]_timedVars
        => [\A n \in Node : Follows(n) => state'[n] # "candidate"]_timedVars
  BY <1>1, TimedNextIs, KeptStep
<1> HIDE DEF D
<1> QED
  BY <1>3, <1>4, <1>5, TimedAlways, PTL DEF TimedSpec, LeaderKept

=============================================================================
