---------------------------- MODULE RaftCluster ----------------------------
(***************************************************************************)
(* A cluster of nodes that run the Raft library of src/src/raft_server.c   *)
(* inside the Contiki application src/app/main.c.                          *)
(*                                                                         *)
(* Every node is one raft_server_private_t.  A handler of the application  *)
(* runs to completion (Contiki processes and the netflood receive callback *)
(* do not preempt one another), so each handler is one action: it reads    *)
(* the packet, changes the server, and leaves its answers on the air.      *)
(*                                                                         *)
(* Packets are flooded over radio.  They may be lost, delayed, reordered   *)
(* or delivered more than once, so `msgs' holds every packet ever sent and *)
(* an action may receive any of them at any time, any number of times.     *)
(*                                                                         *)
(* Operators named slip_... are likely mistakes in the definition that     *)
(* follows them.  No specification uses them; they serve to confirm that   *)
(* the properties would notice.                                            *)
(*                                                                         *)
(* The membership is the static one main_process builds: every node is     *)
(* active and voting and knows all the others.  Snapshots are stubs in the *)
(* source: snapshot_in_progress is never set, snapshot_last_term is 0.     *)
(***************************************************************************)
EXTENDS Integers, Sequences, FiniteSets

CONSTANTS
    Node,           \* the node ids 1..5 of main_process
    Value,          \* payloads a client may propose
    Nil,            \* a NULL current_leader, a voted_for of -1
    MaxTerm,        \* bound on the terms explored
    MaxEntries,     \* MAX_ENTRIES: a full log takes no more entries here
    NullRead        \* what reading through a NULL entry can do (see below)

ASSUME NodeAssumption == IsFiniteSet(Node) /\ Node # {}
ASSUME NilAssumption == Nil \notin Node
ASSUME BoundAssumption == MaxTerm \in Nat /\ MaxEntries \in Nat
\* "trap": the node stops (native and simulated targets).
\* "word": a word of low memory is read (sky has no memory protection); there
\* the words are interrupt flags, and never equal one of the terms 1..MaxTerm.
ASSUME NullReadAssumption == NullRead # {} /\ NullRead \subseteq {"trap", "word"}

VARIABLES
    current_term, voted_for, state, current_leader, \* raft_server_private_t
    vote_for_me,        \* [n] peers whose RAFT_NODE_VOTED_FOR_ME flag is set
    log,                \* [n] the entries, indexed from 1
    commit_idx, last_applied_idx,
    next_idx, match_idx,\* [n][m] the fields of n's raft_node_t for m
    down,               \* nodes stopped by a failed assertion or a trap
    msgs                \* every packet ever sent

serverVars == <<current_term, voted_for, state, current_leader, vote_for_me>>
logVars    == <<log, commit_idx, last_applied_idx>>
peerVars   == <<next_idx, match_idx>>
vars       == <<serverVars, logVars, peerVars, down, msgs>>

-----------------------------------------------------------------------------
(* Data *)

Roles == {"follower", "candidate", "leader"}
Terms == 0 .. MaxTerm
Entry == [term : Terms, data : Value]

RequestVote == [type : {"rv"}, src : Node, dst : Node, term : Terms,
                last_log_idx : Nat, last_log_term : Terms]
RequestVoteResponse == [type : {"rvr"}, src : Node, dst : Node, term : Terms,
                        vote_granted : BOOLEAN]
AppendEntries == [type : {"ae"}, src : Node, dst : Node, term : Terms,
                  prev_log_idx : Nat, prev_log_term : Terms,
                  leader_commit : Nat, entries : Seq(Entry)]
AppendEntriesResponse == [type : {"aer"}, src : Node, dst : Node, term : Terms,
                          success : BOOLEAN, current_idx : Nat]
ClientMessage == [type : {"client"}, src : Node, dst : Node, data : Value]
Message == RequestVote \cup RequestVoteResponse \cup AppendEntries
           \cup AppendEntriesResponse \cup ClientMessage

Others(n) == Node \ {n}
num_voting_nodes == Cardinality(Node)
lesser(a, b) == IF a < b THEN a ELSE b
greater(a, b) == IF a < b THEN b ELSE a

slip_term_at(lg, i) ==      \* no entry reported as -1
    IF i \in 1 .. Len(lg) THEN lg[i].term ELSE -1

\* The term of entry i, or 0 when the log has no such entry.
term_at(lg, i) == IF i \in 1 .. Len(lg) THEN lg[i].term ELSE 0

\* log_get_from_idx: the entries from idx to the end.
entries_from(lg, idx) == SubSeq(lg, idx, Len(lg))

log_append_entry(n, ety) == log' = [log EXCEPT ![n] = Append(@, ety)]

-----------------------------------------------------------------------------
Init ==
    /\ current_term = [n \in Node |-> 0]
    /\ voted_for = [n \in Node |-> Nil]
    /\ state = [n \in Node |-> "follower"]
    /\ current_leader = [n \in Node |-> Nil]
    /\ vote_for_me = [n \in Node |-> {}]
    /\ log = [n \in Node |-> <<>>]
    /\ commit_idx = [n \in Node |-> 0]
    /\ last_applied_idx = [n \in Node |-> 0]
    /\ next_idx = [n \in Node |-> [m \in Node |-> 1]]
    /\ match_idx = [n \in Node |-> [m \in Node |-> 0]]
    /\ down = {}
    /\ msgs = {}

-----------------------------------------------------------------------------
(* Packets, built from the sender's state at the moment of sending.        *)
(* Handlers change the server first and then send, so they use the primed  *)
(* packets.                                                                *)

msg_requestvote(n, m) ==
    [type |-> "rv", src |-> n, dst |-> m, term |-> current_term[n],
     last_log_idx |-> Len(log[n]), last_log_term |-> term_at(log[n], Len(log[n]))]

msg_appendentries(n, m) ==
    [type |-> "ae", src |-> n, dst |-> m, term |-> current_term[n],
     prev_log_idx |-> next_idx[n][m] - 1,
     prev_log_term |-> term_at(log[n], next_idx[n][m] - 1),
     leader_commit |-> commit_idx[n],
     entries |-> entries_from(log[n], next_idx[n][m])]

\* One handler run that puts the packets S on the air.
raft_send(S) == msgs' = msgs \cup S

-----------------------------------------------------------------------------
(* raft_periodic *)

raft_become_candidate(n) ==
    /\ current_term[n] < MaxTerm
    /\ current_term' = [current_term EXCEPT ![n] = @ + 1]
    /\ vote_for_me' = [vote_for_me EXCEPT ![n] = {}]
    /\ voted_for' = [voted_for EXCEPT ![n] = n]
    /\ current_leader' = [current_leader EXCEPT ![n] = Nil]
    /\ state' = [state EXCEPT ![n] = "candidate"]
    /\ raft_send({msg_requestvote(n, m)' : m \in Others(n)})

\* The only voting node needs no election, and takes no new term.
become_sole_leader(n) ==
    /\ num_voting_nodes = 1 /\ state[n] # "leader"
    /\ state' = [state EXCEPT ![n] = "leader"]
    /\ current_leader' = [current_leader EXCEPT ![n] = n]
    /\ UNCHANGED <<current_term, voted_for, vote_for_me, msgs>>

\* request_timeout has passed.
raft_send_appendentries_all(n) ==
    /\ state[n] = "leader"
    /\ UNCHANGED serverVars
    /\ raft_send({msg_appendentries(n, m)' : m \in Others(n)})

\* election_timeout_rand has passed.
raft_election_start(n) ==
    /\ num_voting_nodes > 1 /\ state[n] # "leader"
    /\ raft_become_candidate(n)

no_timeout(n) ==
    /\ num_voting_nodes > 1 \/ state[n] = "leader"
    /\ UNCHANGED <<serverVars, msgs>>

slip_raft_apply_entry(n) ==     \* the last committed entry is never applied
    last_applied_idx' =
        IF last_applied_idx[n] + 1 < commit_idx[n]
        THEN [last_applied_idx EXCEPT ![n] = @ + 1]
        ELSE last_applied_idx

\* One committed entry per call reaches applylog.
raft_apply_entry(n) ==
    last_applied_idx' =
        IF last_applied_idx[n] < commit_idx[n] /\ last_applied_idx[n] < Len(log[n])
        THEN [last_applied_idx EXCEPT ![n] = @ + 1]
        ELSE last_applied_idx

raft_periodic(n) ==
    /\ n \notin down
    /\ UNCHANGED <<log, commit_idx, peerVars, down>>
    /\ raft_apply_entry(n)
    /\ \/ become_sole_leader(n)
       \/ raft_send_appendentries_all(n)
       \/ raft_election_start(n)
       \/ no_timeout(n)

-----------------------------------------------------------------------------
(* MSG_REQUESTVOTE *)

slip_vote_twice(lg, term, voted, vr) ==     \* raft_already_voted not asked
    LET last == Len(lg) IN
    /\ ~ (vr.term < term)
    /\ \/ last = 0
       \/ term_at(lg, last) < vr.last_log_term
       \/ term_at(lg, last) = vr.last_log_term /\ last <= vr.last_log_idx

slip_vote_any_log(lg, term, voted, vr) ==   \* logs not compared
    ~ (vr.term < term) /\ voted = Nil

\* lg, term and voted are the voter's log, current_term and voted_for after it
\* has adopted a newer term.
should_grant_vote(lg, term, voted, vr) ==
    LET last == Len(lg) IN
    /\ ~ (vr.term < term)
    /\ voted = Nil
    /\ \/ last = 0
       \/ term_at(lg, last) < vr.last_log_term
       \/ term_at(lg, last) = vr.last_log_term /\ last <= vr.last_log_idx

\* A newer term in any packet: adopt it, forget the vote, follow.
newer(n, m) == current_term[n] < m.term
adopt_term(n, m) == greater(current_term[n], m.term)
adopt_vote(n, m) == IF newer(n, m) THEN Nil ELSE voted_for[n]

raft_recv_requestvote(n, m) ==
    LET grant == should_grant_vote(log[n], adopt_term(n, m), adopt_vote(n, m), m)
    IN
    /\ n \notin down /\ m.type = "rv" /\ m.dst = n
    /\ current_term' = [current_term EXCEPT ![n] = adopt_term(n, m)]
    /\ state' = [state EXCEPT ![n] = IF newer(n, m) THEN "follower" ELSE @]
    /\ voted_for' = [voted_for EXCEPT ![n] =
                        IF grant THEN m.src ELSE adopt_vote(n, m)]
    /\ current_leader' = [current_leader EXCEPT ![n] =
                             IF newer(n, m) \/ grant THEN Nil ELSE @]
    /\ raft_send({[type |-> "rvr", src |-> n, dst |-> m.src,
                   term |-> adopt_term(n, m), vote_granted |-> grant]})
    /\ UNCHANGED <<vote_for_me, logVars, peerVars, down>>

-----------------------------------------------------------------------------
(* MSG_REQUESTVOTE_RESPONSE *)

raft_votes_is_majority(nvotes) ==
    /\ nvotes <= num_voting_nodes
    /\ num_voting_nodes \div 2 + 1 <= nvotes

raft_get_nvotes_for_me(n, flags) ==
    Cardinality(flags \ {n}) + (IF voted_for[n] = n THEN 1 ELSE 0)

slip_step_down(n, m) ==     \* current_leader kept
    /\ newer(n, m)
    /\ current_term' = [current_term EXCEPT ![n] = m.term]
    /\ voted_for' = [voted_for EXCEPT ![n] = Nil]
    /\ state' = [state EXCEPT ![n] = "follower"]
    /\ UNCHANGED <<current_leader, vote_for_me, logVars, peerVars, down, msgs>>

\* A response of a newer term to a candidate or a leader.
step_down(n, m) ==
    /\ newer(n, m)
    /\ current_term' = [current_term EXCEPT ![n] = m.term]
    /\ voted_for' = [voted_for EXCEPT ![n] = Nil]
    /\ state' = [state EXCEPT ![n] = "follower"]
    /\ current_leader' = [current_leader EXCEPT ![n] = Nil]
    /\ UNCHANGED <<vote_for_me, logVars, peerVars, down, msgs>>

new_next_idx(n) == Len(log[n]) + 1

raft_become_leader(n) ==
    /\ state' = [state EXCEPT ![n] = "leader"]
    /\ current_leader' = [current_leader EXCEPT ![n] = n]
    /\ next_idx' = [next_idx EXCEPT ![n] =
                       [m \in Node |-> IF m = n THEN @[m] ELSE new_next_idx(n)]]
    /\ match_idx' = [match_idx EXCEPT ![n] =
                        [m \in Node |-> IF m = n THEN @[m] ELSE 0]]
    /\ UNCHANGED <<current_term, voted_for, logVars>>
    /\ raft_send({msg_appendentries(n, m)' : m \in Others(n)})

count_vote(n, m) ==
    LET flags == vote_for_me[n] \cup {m.src} IN
    /\ current_term[n] = m.term /\ m.vote_granted
    /\ vote_for_me' = [vote_for_me EXCEPT ![n] = flags]
    /\ UNCHANGED down
    /\ IF raft_votes_is_majority(raft_get_nvotes_for_me(n, flags))
       THEN raft_become_leader(n)
       ELSE UNCHANGED <<current_term, voted_for, state, current_leader,
                        logVars, peerVars, msgs>>

\* A refusal and a response of an older term change nothing.
raft_recv_requestvote_response(n, m) ==
    /\ n \notin down /\ m.type = "rvr" /\ m.dst = n
    /\ state[n] = "candidate"
    /\ step_down(n, m) \/ count_vote(n, m)

-----------------------------------------------------------------------------
(* MSG_APPENDENTRIES                                                       *)
(*                                                                         *)
(* The sender zeroes the list pointer of every entry it marshals, so the   *)
(* receiver finds the first entry of a batch and then NULL: of the entries *)
(* only the first can be compared or appended.                             *)
(*                                                                         *)
(* Nothing can be deleted: log_delete asks the log_pop callback, which     *)
(* returns -1 always.  A conflict makes the handler's result nonzero and   *)
(* the application's assert(e == 0) fails.                                 *)

reply(n, m, success, idx) ==
    raft_send({[type |-> "aer", src |-> n, dst |-> m.src, term |-> adopt_term(n, m),
                success |-> success, current_idx |-> idx]})

\* assert(e == 0) with e # 0 stops the node, or prints a line and goes on.
failed_assert(n, m, success, idx) ==
    /\ UNCHANGED logVars
    /\ \/ down' = down \cup {n} /\ UNCHANGED msgs
       \/ UNCHANGED down /\ reply(n, m, success, idx)

\* All that a receiver finds of the entries.
first_entry(m) == m.entries[1]

first_idx(m) == m.prev_log_idx + 1
slip_last_idx(m) == m.prev_log_idx + Len(m.entries) + 1     \* one too many
last_idx(m) == m.prev_log_idx + Len(m.entries)

slip_prev_matches(lg, m) == m.prev_log_idx <= Len(lg)       \* terms not compared

\* The entry at prev_log_idx is there and has the term the leader says.
prev_matches(lg, m) ==
    m.prev_log_idx > 0 => /\ m.prev_log_idx <= Len(lg)
                          /\ lg[m.prev_log_idx].term = m.prev_log_term

\* The entry at prev_log_idx is there and has another term.
prev_differs(lg, m) == m.prev_log_idx <= Len(lg) /\ ~ prev_matches(lg, m)

slip_commit_after(n, m, len) ==         \* an older leader_commit is taken too
    lesser(greater(len, 1), m.leader_commit)

\* commit_idx when the log has len entries and the whole packet was processed.
commit_after(n, m, len) ==
    IF commit_idx[n] < m.leader_commit
    THEN lesser(greater(len, 1), m.leader_commit)
    ELSE commit_idx[n]

set_commit_idx(n, idx) == commit_idx' = [commit_idx EXCEPT ![n] = idx]

stale_term(n, m) ==
    /\ m.term < current_term[n]
    /\ UNCHANGED <<serverVars, logVars, down>>
    /\ reply(n, m, FALSE, Len(log[n]))

\* "AE no log at prev_idx"
no_prev_entry(n, m) ==
    /\ m.prev_log_idx > Len(log[n])
    /\ UNCHANGED <<logVars, down>>
    /\ reply(n, m, FALSE, Len(log[n]))

\* "AE term doesn't match prev_term": the deletion fails.
prev_conflict(n, m) ==
    /\ prev_differs(log[n], m)
    /\ failed_assert(n, m, FALSE, Len(log[n]))

conflicts(n, m) ==
    /\ log[n][first_idx(m)].term # first_entry(m).term
    /\ commit_idx[n] < first_idx(m)

\* The first new entry conflicts with the one in the log: the deletion fails.
entry_conflict(n, m) ==
    /\ m.entries # <<>> /\ first_idx(m) <= Len(log[n])
    /\ conflicts(n, m)
    /\ failed_assert(n, m, TRUE, m.prev_log_idx)

slip_append_first(n, m) ==      \* the whole batch is acknowledged
    /\ m.entries # <<>> /\ first_idx(m) = Len(log[n]) + 1
    /\ log_append_entry(n, first_entry(m))
    /\ set_commit_idx(n, commit_idx[n])
    /\ UNCHANGED <<last_applied_idx, down>>
    /\ reply(n, m, TRUE, last_idx(m))

\* Append the first entry; a longer batch ends here, without the commit step.
append_first(n, m) ==
    /\ m.entries # <<>> /\ first_idx(m) = Len(log[n]) + 1
    /\ log_append_entry(n, first_entry(m))
    /\ set_commit_idx(n, IF Len(m.entries) = 1
                         THEN commit_after(n, m, first_idx(m))
                         ELSE commit_idx[n])
    /\ UNCHANGED <<last_applied_idx, down>>
    /\ reply(n, m, TRUE, first_idx(m))

\* The log ends with the first entry of a longer batch: the next one is NULL.
batch_cut_short(n, m) ==
    /\ Len(m.entries) > 1 /\ first_idx(m) = Len(log[n])
    /\ ~ conflicts(n, m)
    /\ UNCHANGED <<logVars, down>>
    /\ reply(n, m, TRUE, first_idx(m))

\* Nothing new in the packet.
all_present(n, m) ==
    /\ \/ m.entries = <<>>
       \/ /\ Len(m.entries) = 1 /\ first_idx(m) <= Len(log[n])
          /\ ~ conflicts(n, m)
    /\ set_commit_idx(n, commit_after(n, m, Len(log[n])))
    /\ UNCHANGED <<log, last_applied_idx, down>>
    /\ reply(n, m, TRUE, last_idx(m))

\* Two entries of the batch are in the log already: the second comparison
\* reads the term of a NULL entry.
null_entry(n, m) ==
    LET len   == Len(log[n])
        known == lesser(len, last_idx(m))
        fresh == greater(first_idx(m), commit_idx[n]) + 1
    IN
    /\ Len(m.entries) > 1 /\ first_idx(m) < len
    /\ ~ conflicts(n, m)
    /\ \/ /\ "trap" \in NullRead
          /\ down' = down \cup {n}
          /\ UNCHANGED <<logVars, msgs>>
       \* the word differs from the term of an entry that may still be deleted
       \/ /\ "word" \in NullRead /\ fresh <= known
          /\ failed_assert(n, m, TRUE, fresh - 1)
       \* committed entries are not compared further
       \/ /\ "word" \in NullRead /\ known < fresh /\ known = last_idx(m)
          /\ set_commit_idx(n, commit_after(n, m, len))
          /\ UNCHANGED <<log, last_applied_idx, down>>
          /\ reply(n, m, TRUE, last_idx(m))
       \* list_item_next(NULL) is NULL: there is nothing to append
       \/ /\ "word" \in NullRead /\ known < fresh /\ known < last_idx(m)
          /\ UNCHANGED <<logVars, down>>
          /\ reply(n, m, TRUE, known)

raft_recv_appendentries(n, m) ==
    /\ n \notin down /\ m.type = "ae" /\ m.dst = n
    /\ UNCHANGED peerVars
    /\ \/ stale_term(n, m)
       \/ /\ current_term[n] <= m.term
          /\ current_term' = [current_term EXCEPT ![n] = m.term]
          /\ voted_for' = [voted_for EXCEPT ![n] = adopt_vote(n, m)]
          /\ state' = [state EXCEPT ![n] =
                          IF newer(n, m) \/ @ = "candidate" THEN "follower" ELSE @]
          /\ current_leader' = [current_leader EXCEPT ![n] = m.src]
          /\ UNCHANGED vote_for_me
          /\ \/ no_prev_entry(n, m)
             \/ prev_conflict(n, m)
             \/ /\ prev_matches(log[n], m)
                /\ \/ entry_conflict(n, m)
                   \/ append_first(n, m)
                   \/ batch_cut_short(n, m)
                   \/ all_present(n, m)
                   \/ null_entry(n, m)

-----------------------------------------------------------------------------
(* MSG_APPENDENTRIES_RESPONSE *)

set_next_idx(n, p, idx) ==
    next_idx' = [next_idx EXCEPT ![n][p] = IF idx < 1 THEN 1 ELSE idx]

slip_stale_failure(n, p) == FALSE   \* every failure moves next_idx back

\* The peer has acknowledged everything up to next_idx since.
stale_failure(n, p) == match_idx[n][p] = next_idx[n][p] - 1

append_failed(n, m) ==
    LET p == m.src IN
    /\ ~ m.success
    /\ ~ stale_failure(n, p)
    /\ set_next_idx(n, p, IF m.current_idx < next_idx[n][p] - 1
                          THEN lesser(m.current_idx + 1, Len(log[n]))
                          ELSE next_idx[n][p] - 1)
    /\ UNCHANGED <<match_idx, commit_idx>>
    /\ raft_send({msg_appendentries(n, p)'})

slip_commit_allowed(n, point, matches) ==   \* the leader itself not counted
    /\ commit_idx[n] < point
    /\ term_at(log[n], point) = current_term[n]
    /\ num_voting_nodes \div 2 < Cardinality({q \in Others(n) : point <= matches[q]})

\* Node n, a leader, sees point stored on a majority; matches is its view of
\* its peers' match_idx.
commit_allowed(n, point, matches) ==
    /\ commit_idx[n] < point
    /\ term_at(log[n], point) = current_term[n]
    /\ num_voting_nodes \div 2
         < 1 + Cardinality({q \in Others(n) : point <= matches[q]})

append_succeeded(n, m) ==
    LET p == m.src
        point == m.current_idx
    IN
    /\ m.success
    /\ match_idx[n][p] < point                  \* otherwise stale: ignored
    /\ set_next_idx(n, p, point + 1)
    /\ match_idx' = [match_idx EXCEPT ![n][p] = point]
    /\ set_commit_idx(n, IF commit_allowed(n, point, match_idx'[n])
                         THEN point ELSE commit_idx[n])
    /\ IF point + 1 <= Len(log[n])
       THEN raft_send({msg_appendentries(n, p)'})
       ELSE UNCHANGED msgs

\* A response of an older term changes nothing.
raft_recv_appendentries_response(n, m) ==
    /\ n \notin down /\ m.type = "aer" /\ m.dst = n
    /\ state[n] = "leader"
    /\ \/ step_down(n, m)
       \/ /\ current_term[n] = m.term
          /\ UNCHANGED <<serverVars, log, last_applied_idx, down>>
          /\ append_failed(n, m) \/ append_succeeded(n, m)

-----------------------------------------------------------------------------
(* MSG_CLIENT and the client process *)

raft_recv_entry(n, data) ==
    LET ety == [term |-> current_term[n], data |-> data]
        idx == Len(log[n]) + 1
    IN
    /\ state[n] = "leader"
    /\ idx <= MaxEntries
    /\ log_append_entry(n, ety)
    /\ set_commit_idx(n, IF num_voting_nodes = 1 THEN idx ELSE commit_idx[n])
    /\ UNCHANGED <<serverVars, last_applied_idx, peerVars, down>>
    /\ raft_send({msg_appendentries(n, p)' :
                     p \in {q \in Others(n) : next_idx[n][q] = idx}})

handle_msg_client(n, m) ==
    /\ n \notin down /\ m.type = "client" /\ m.dst = n
    /\ raft_recv_entry(n, m.data)

\* A proposal is dropped while no leader is known.
client_new_message(n, data) ==
    /\ n \notin down /\ current_leader[n] # Nil
    /\ \/ /\ current_leader[n] # n
          /\ raft_send({[type |-> "client", src |-> n, dst |-> current_leader[n],
                       data |-> data]})
          /\ UNCHANGED <<serverVars, logVars, peerVars, down>>
       \/ /\ current_leader[n] = n
          /\ raft_recv_entry(n, data)

-----------------------------------------------------------------------------
Receive(n, m) ==
    \/ raft_recv_requestvote(n, m)
    \/ raft_recv_requestvote_response(n, m)
    \/ raft_recv_appendentries(n, m)
    \/ raft_recv_appendentries_response(n, m)
    \/ handle_msg_client(n, m)

Next ==
    \E n \in Node :
        \/ raft_periodic(n)
        \/ \E m \in msgs : Receive(n, m)
        \/ \E v \in Value : client_new_message(n, v)

Spec == Init /\ [][Next]_vars

\* The periodic process of a running node is driven by a timer that always
\* fires again, and the scheduler reaches it.
Fairness == \A n \in Node : WF_vars(raft_periodic(n))
FairSpec == Spec /\ Fairness

\* A leader's request timeout passes again and again, and of the packets it
\* repeats, and of the answers to them, some get through.
ReplicationFairness ==
    \A n \in Node :
        /\ WF_vars(raft_periodic(n) /\ raft_send_appendentries_all(n))
        /\ WF_vars(\E m \in msgs : raft_recv_appendentries(n, m))
        /\ WF_vars(\E m \in msgs : raft_recv_appendentries_response(n, m))

-----------------------------------------------------------------------------
(* Properties *)

\* Every field of every server and of every packet stays in its range.
TypeOK ==
    /\ current_term \in [Node -> Terms]
    /\ voted_for \in [Node -> Node \cup {Nil}]
    /\ state \in [Node -> Roles]
    /\ current_leader \in [Node -> Node \cup {Nil}]
    /\ vote_for_me \in [Node -> SUBSET Node]
    /\ log \in [Node -> Seq(Entry)]
    /\ commit_idx \in [Node -> Nat]
    /\ last_applied_idx \in [Node -> Nat]
    /\ next_idx \in [Node -> [Node -> Nat \ {0}]]
    /\ match_idx \in [Node -> [Node -> Nat]]
    /\ down \in SUBSET Node
    /\ msgs \in SUBSET Message

\* n leads, or has led, term t: a leader marks its packets with its term.
WasLeader(n, t) ==
    \/ state[n] = "leader" /\ current_term[n] = t
    \/ \E m \in msgs : m.type = "ae" /\ m.src = n /\ m.term = t

\* No term ever has two leaders, whatever requests and votes are lost, late or
\* repeated (raft_recv_requestvote, raft_recv_requestvote_response).
ElectionSafety ==
    \A a, b \in Node : \A t \in Terms :
        WasLeader(a, t) /\ WasLeader(b, t) => a = b

\* A client that asks raft_get_current_leader is sent to a node that has led
\* the term the asked node is in, not to a leader of an earlier term.
LeaderKnown ==
    \A n \in Node :
        current_leader[n] # Nil => WasLeader(current_leader[n], current_term[n])

\* The first i entries of two logs are the same.
SamePrefix(lg1, lg2, i) ==
    /\ i <= Len(lg1) /\ i <= Len(lg2)
    /\ \A j \in 1 .. i : lg1[j] = lg2[j]

\* Two logs that agree on the term of an entry agree on it and on everything
\* before it: what the prev_log checks of raft_recv_appendentries are for.
LogMatching ==
    \A a, b \in Node : \A i \in 1 .. lesser(Len(log[a]), Len(log[b])) :
        log[a][i].term = log[b][i].term => SamePrefix(log[a], log[b], i)

\* match_idx, on which the leader commits, is what the peer really stores, even
\* after late, repeated or half-processed packets.
MatchIsReplicated ==
    \A n \in Node : state[n] = "leader" =>
        \A p \in Others(n) : SamePrefix(log[n], log[p], match_idx[n][p])

\* What any node believes committed is stored by a majority.
CommittedOnMajority ==
    \A n \in Node :
        2 * Cardinality({p \in Node : SamePrefix(log[n], log[p], commit_idx[n])})
            > Cardinality(Node)

\* A leader has every entry that any node of its term or of an earlier one
\* believes committed (__should_grant_vote refuses a shorter or older log).
LeaderCompleteness ==
    \A l, n \in Node :
        state[l] = "leader" /\ current_term[n] <= current_term[l]
            => SamePrefix(log[l], log[n], commit_idx[n])

\* The asserts a packet m meets at its receiver n.
rv_asserts(n, m) ==         \* a leader or a candidate grants no vote
    should_grant_vote(log[n], adopt_term(n, m), adopt_vote(n, m), m)
        => newer(n, m) \/ state[n] = "follower"
ae_asserts(n, m) ==         \* deletions and commits respect the commit index
    current_term[n] <= m.term =>
        /\ prev_differs(log[n], m)
             => commit_idx[n] < greater(m.prev_log_idx, m.leader_commit + 1)
        /\ m.leader_commit <= last_idx(m)
aer_asserts(n, m) ==        \* indices of a peer never run ahead of the log
    state[n] = "leader" /\ m.term = current_term[n] =>
        /\ match_idx[n][m.src] <= next_idx[n][m.src] - 1
        /\ m.success => m.current_idx <= Len(log[n])

\* No packet on the air, delivered now, can fail an assert of the library:
\* raft_recv_requestvote, raft_delete_entry_from_idx, raft_set_commit_idx and
\* raft_recv_appendentries_response keep theirs.
LibraryAsserts ==
    \A m \in msgs : m.dst \notin down =>
        /\ m.type = "rv"  => rv_asserts(m.dst, m)
        /\ m.type = "ae"  => ae_asserts(m.dst, m)
        /\ m.type = "aer" => aer_asserts(m.dst, m)

\* A late heartbeat with an older leader_commit never takes back what a node
\* knows committed, and committed entries are never rewritten.
CommitStable ==
    [][\A n \in Node :
          /\ commit_idx[n] <= commit_idx'[n]
          /\ SamePrefix(log[n], log'[n], commit_idx[n])]_vars

\* A node that keeps running hands every entry it knows committed to applylog,
\* although raft_periodic applies one entry per call.
AppliedEventually ==
    \A n \in Node : \A i \in 1 .. MaxEntries :
        i <= commit_idx[n] ~> i <= last_applied_idx[n] \/ n \in down

\* While a leader stays, whatever it has appended is committed, although a
\* follower takes one entry of a packet and late answers move next_idx about.
LeaderCommits ==
    \A n \in Node : \A i \in 1 .. MaxEntries :
        state[n] = "leader" /\ i <= Len(log[n])
            ~> i <= commit_idx[n] \/ state[n] # "leader" \/ down # {}

-----------------------------------------------------------------------------
(* Statements of the source that do not hold of it. *)

\* assert(e == 0) in the packet handler of src/app/main.c never fails, and no
\* handler reads through NULL: no node is ever stopped.
NodesRun == down = {}

=============================================================================
