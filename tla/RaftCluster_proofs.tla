------------------------- MODULE RaftCluster_proofs -------------------------
(* Theorems about RaftCluster, for every cluster and every value of the bounds. *)
EXTENDS RaftCluster, FiniteSetTheorems, TLAPS

USE NodeAssumption, NilAssumption, BoundAssumption

-----------------------------------------------------------------------------
(* Data *)

\* What log_get_at_idx and log_get_from_idx return has the type of an entry.
LEMMA TermAtType ==
    ASSUME NEW lg \in Seq(Entry), NEW i \in Int
    PROVE  term_at(lg, i) \in Terms
<1>1. CASE i \in 1 .. Len(lg)
  <2>1. lg[i] \in Entry
    BY <1>1
  <2> QED
    BY <1>1, <2>1 DEF term_at, Entry
<1>2. CASE i \notin 1 .. Len(lg)
  BY <1>2 DEF term_at, Terms
<1> QED
  BY <1>1, <1>2

LEMMA EntriesFromType ==
    ASSUME NEW lg \in Seq(Entry), NEW i \in Nat \ {0}
    PROVE  entries_from(lg, i) \in Seq(Entry)
<1>1. CASE i > Len(lg)
  BY <1>1 DEF entries_from
<1>2. CASE i <= Len(lg)
  BY <1>2 DEF entries_from
<1> QED
  BY <1>1, <1>2

LEMMA AppendEntriesType ==
    ASSUME NEW n \in Node, NEW p \in Node, NEW t \in Terms, NEW lg \in Seq(Entry),
           NEW next \in Nat \ {0}, NEW commit \in Nat
    PROVE  [type |-> "ae", src |-> n, dst |-> p, term |-> t,
            prev_log_idx |-> next - 1,
            prev_log_term |-> term_at(lg, next - 1),
            leader_commit |-> commit,
            entries |-> entries_from(lg, next)] \in AppendEntries
BY TermAtType, EntriesFromType DEF AppendEntries

\* A packet that raft_send_appendentries builds after the peer indices, the log
\* and the commit index have changed.
LEMMA SentAppendEntriesType ==
    ASSUME NEW n \in Node, NEW p \in Node,
           current_term' \in [Node -> Terms], log' \in [Node -> Seq(Entry)],
           commit_idx' \in [Node -> Nat],
           next_idx' \in [Node -> [Node -> Nat \ {0}]]
    PROVE  msg_appendentries(n, p)' \in AppendEntries
<1>1. /\ current_term'[n] \in Terms /\ log'[n] \in Seq(Entry)
      /\ commit_idx'[n] \in Nat /\ next_idx'[n][p] \in Nat \ {0}
  OBVIOUS
<1> QED
  BY <1>1, AppendEntriesType DEF msg_appendentries

-----------------------------------------------------------------------------
(* Types: every handler keeps every field in its range. *)

LEMMA NextTerm ==
    ASSUME NEW t \in Terms, t < MaxTerm
    PROVE  t + 1 \in Terms
BY DEF Terms

LEMMA LogType ==
    ASSUME TypeOK, NEW n \in Node
    PROVE  log[n] \in Seq(Entry) /\ Len(log[n]) \in Nat
<1>1. log[n] \in Seq(Entry)
  BY DEF TypeOK
<1> QED
  BY <1>1

LEMMA AppendEntriesFields ==
    ASSUME NEW m \in AppendEntries
    PROVE  /\ m.term \in Terms /\ m.src \in Node
           /\ m.prev_log_idx \in Nat /\ m.leader_commit \in Nat
           /\ m.entries \in Seq(Entry) /\ Len(m.entries) \in Nat
           /\ first_idx(m) \in Nat /\ last_idx(m) \in Nat
<1>1. /\ m.term \in Terms /\ m.src \in Node
      /\ m.prev_log_idx \in Nat /\ m.leader_commit \in Nat
      /\ m.entries \in Seq(Entry)
  BY DEF AppendEntries
<1>2. Len(m.entries) \in Nat
  BY <1>1
<1> QED
  BY <1>1, <1>2 DEF first_idx, last_idx

LEMMA PeriodicType ==
    ASSUME TypeOK, NEW n \in Node, raft_periodic(n)
    PROVE  TypeOK'
<1> USE DEF TypeOK, Others
<1>1. last_applied_idx' \in [Node -> Nat]
  BY SMTT(30) DEF raft_periodic, raft_apply_entry
<1>2. UNCHANGED <<log, commit_idx, next_idx, match_idx, down>>
  BY DEF raft_periodic, peerVars
<1>3. CASE become_sole_leader(n)
  BY <1>1, <1>2, <1>3 DEF become_sole_leader, Roles
<1>4. CASE raft_send_appendentries_all(n)
  <2>1. UNCHANGED <<current_term, voted_for, state, current_leader, vote_for_me>>
    BY <1>4 DEF raft_send_appendentries_all, serverVars
  <2>2. \A p \in Node : msg_appendentries(n, p)' \in AppendEntries
    BY <1>2, <2>1, SentAppendEntriesType
  <2>3. msgs' \in SUBSET Message
    BY <1>4, <2>2 DEF raft_send_appendentries_all, raft_send, Message
  <2> QED
    BY <1>1, <1>2, <2>1, <2>3
<1>5. CASE raft_election_start(n)
  <2>1. current_term' \in [Node -> Terms]
    <3>1. current_term[n] \in Terms /\ current_term[n] < MaxTerm
      BY <1>5 DEF raft_election_start, raft_become_candidate
    <3>2. current_term[n] + 1 \in Terms
      BY <3>1, NextTerm
    <3> QED
      BY <1>5, <3>2 DEF raft_election_start, raft_become_candidate
  <2>2. \A p \in Node : msg_requestvote(n, p)' \in RequestVote
    <3>1. log[n] \in Seq(Entry) /\ Len(log[n]) \in Nat
      OBVIOUS
    <3>2. term_at(log[n], Len(log[n])) \in Terms
      BY <3>1, TermAtType
    <3> QED
      BY <1>2, <2>1, <3>1, <3>2 DEF msg_requestvote, RequestVote
  <2>3. msgs' \in SUBSET Message
    BY <1>5, <2>2 DEF raft_election_start, raft_become_candidate, raft_send, Message
  <2>4. /\ vote_for_me' \in [Node -> SUBSET Node]
        /\ voted_for' \in [Node -> Node \cup {Nil}]
        /\ current_leader' \in [Node -> Node \cup {Nil}]
        /\ state' \in [Node -> Roles]
    BY <1>5 DEF raft_election_start, raft_become_candidate, Roles
  <2> QED
    BY <1>1, <1>2, <2>1, <2>3, <2>4
<1>6. CASE no_timeout(n)
  BY <1>1, <1>2, <1>6 DEF no_timeout, serverVars
<1> QED
  BY <1>3, <1>4, <1>5, <1>6 DEF raft_periodic

LEMMA AdoptType ==
    ASSUME TypeOK, NEW n \in Node, NEW m, m.term \in Terms
    PROVE  adopt_term(n, m) \in Terms /\ adopt_vote(n, m) \in Node \cup {Nil}
BY DEF TypeOK, adopt_term, adopt_vote, newer, greater, Terms

LEMMA RequestVoteType ==
    ASSUME TypeOK, NEW n \in Node, NEW m \in msgs, raft_recv_requestvote(n, m)
    PROVE  TypeOK'
<1>1. m \in RequestVote
  BY DEF TypeOK, raft_recv_requestvote, Message, RequestVote, RequestVoteResponse,
         AppendEntries, AppendEntriesResponse, ClientMessage
<1>2. m.term \in Terms /\ m.src \in Node
  BY <1>1 DEF RequestVote
<1>3. adopt_term(n, m) \in Terms /\ adopt_vote(n, m) \in Node \cup {Nil}
  BY <1>2, AdoptType
<1>4. UNCHANGED <<vote_for_me, log, commit_idx, last_applied_idx, next_idx,
                  match_idx, down>>
  BY DEF raft_recv_requestvote, logVars, peerVars
<1> DEFINE grant == should_grant_vote(log[n], adopt_term(n, m), adopt_vote(n, m), m)
<1>5. msgs' \in SUBSET Message
  <2>1. grant \in BOOLEAN
    BY DEF should_grant_vote
  <2>2. [type |-> "rvr", src |-> n, dst |-> m.src, term |-> adopt_term(n, m),
         vote_granted |-> grant] \in RequestVoteResponse
    BY <1>2, <1>3, <2>1 DEF RequestVoteResponse
  <2> QED
    BY <2>2 DEF raft_recv_requestvote, raft_send, TypeOK, Message
<1>6. /\ current_term' \in [Node -> Terms]
      /\ state' \in [Node -> Roles]
      /\ voted_for' \in [Node -> Node \cup {Nil}]
      /\ current_leader' \in [Node -> Node \cup {Nil}]
  BY <1>2, <1>3 DEF raft_recv_requestvote, TypeOK, Roles
<1> QED
  BY <1>4, <1>5, <1>6 DEF TypeOK

LEMMA StepDownType ==
    ASSUME TypeOK, NEW n \in Node, NEW m, m.term \in Terms, step_down(n, m)
    PROVE  TypeOK'
BY DEF TypeOK, step_down, Roles, logVars, peerVars

LEMMA VoteResponseType ==
    ASSUME TypeOK, NEW n \in Node, NEW m \in msgs,
           raft_recv_requestvote_response(n, m)
    PROVE  TypeOK'
<1>1. m \in RequestVoteResponse
  BY DEF TypeOK, raft_recv_requestvote_response, Message, RequestVote,
         RequestVoteResponse, AppendEntries, AppendEntriesResponse, ClientMessage
<1>2. m.term \in Terms /\ m.src \in Node
  BY <1>1 DEF RequestVoteResponse
<1>3. CASE step_down(n, m)
  BY <1>2, <1>3, StepDownType
<1>4. CASE count_vote(n, m)
  <2> DEFINE flags == vote_for_me[n] \cup {m.src}
  <2>1. vote_for_me' \in [Node -> SUBSET Node] /\ UNCHANGED down
    BY <1>2, <1>4 DEF count_vote, TypeOK
  <2>2. CASE raft_become_leader(n)
    <3>1. UNCHANGED <<current_term, voted_for, log, commit_idx, last_applied_idx>>
      BY <2>2 DEF raft_become_leader, logVars
    <3>2. /\ state' \in [Node -> Roles]
          /\ current_leader' \in [Node -> Node \cup {Nil}]
      BY <2>2 DEF raft_become_leader, TypeOK, Roles
    <3>3. new_next_idx(n) \in Nat \ {0}
      BY DEF TypeOK, new_next_idx
    <3>4. /\ next_idx' \in [Node -> [Node -> Nat \ {0}]]
          /\ match_idx' \in [Node -> [Node -> Nat]]
      BY <2>2, <3>3, SMTT(30) DEF raft_become_leader, TypeOK
    <3>5. \A p \in Node : msg_appendentries(n, p)' \in AppendEntries
      BY <3>1, <3>4, SentAppendEntriesType DEF TypeOK
    <3>6. msgs' \in SUBSET Message
      BY <2>2, <3>5 DEF raft_become_leader, raft_send, TypeOK, Message, Others
    <3> QED
      BY <2>1, <3>1, <3>2, <3>4, <3>6 DEF TypeOK
  <2>3. CASE UNCHANGED <<current_term, voted_for, state, current_leader,
                         logVars, peerVars, msgs>>
    BY <2>1, <2>3 DEF TypeOK, logVars, peerVars
  <2> QED
    BY <1>4, <2>2, <2>3 DEF count_vote
<1> QED
  BY <1>3, <1>4 DEF raft_recv_requestvote_response

LEMMA CommitAfterType ==
    ASSUME TypeOK, NEW n \in Node, NEW m \in AppendEntries, NEW len \in Nat
    PROVE  commit_after(n, m, len) \in Nat
BY DEF TypeOK, commit_after, lesser, greater, AppendEntries

\* A reply of raft_recv_appendentries is a packet.
LEMMA ReplyType ==
    ASSUME TypeOK, NEW n \in Node, NEW m \in AppendEntries,
           NEW success \in BOOLEAN, NEW idx \in Nat, reply(n, m, success, idx)
    PROVE  msgs' \in SUBSET Message
<1>1. m.term \in Terms /\ m.src \in Node
  BY DEF AppendEntries
<1>2. adopt_term(n, m) \in Terms
  BY <1>1, AdoptType
<1>3. [type |-> "aer", src |-> n, dst |-> m.src, term |-> adopt_term(n, m),
       success |-> success, current_idx |-> idx] \in AppendEntriesResponse
  BY <1>1, <1>2 DEF AppendEntriesResponse
<1> QED
  BY <1>3 DEF reply, raft_send, TypeOK, Message

LEMMA FailedAssertType ==
    ASSUME TypeOK, NEW n \in Node, NEW m \in AppendEntries,
           NEW success \in BOOLEAN, NEW idx \in Nat,
           failed_assert(n, m, success, idx)
    PROVE  UNCHANGED logVars /\ down' \in SUBSET Node /\ msgs' \in SUBSET Message
<1>1. CASE down' = down \cup {n} /\ UNCHANGED msgs
  BY <1>1 DEF failed_assert, TypeOK
<1>2. CASE UNCHANGED down /\ reply(n, m, success, idx)
  BY <1>2, ReplyType, SMTT(30) DEF failed_assert, TypeOK
<1> QED
  BY <1>1, <1>2 DEF failed_assert

\* The part of TypeOK that the branches of raft_recv_appendentries change.
StoreOK ==
    /\ log \in [Node -> Seq(Entry)]
    /\ commit_idx \in [Node -> Nat]
    /\ last_applied_idx \in [Node -> Nat]
    /\ down \in SUBSET Node
    /\ msgs \in SUBSET Message

LEMMA ConflictBranchesType ==
    ASSUME TypeOK, NEW n \in Node, NEW m \in AppendEntries,
           \/ stale_term(n, m) \/ no_prev_entry(n, m) \/ prev_conflict(n, m)
           \/ entry_conflict(n, m) \/ batch_cut_short(n, m)
    PROVE  StoreOK'
<1> USE DEF TypeOK, StoreOK
<1>1. Len(log[n]) \in Nat /\ first_idx(m) \in Nat /\ m.prev_log_idx \in Nat
  BY LogType, AppendEntriesFields
<1>2. CASE stale_term(n, m)
  BY <1>1, <1>2, ReplyType DEF stale_term, logVars
<1>3. CASE no_prev_entry(n, m)
  BY <1>1, <1>3, ReplyType DEF no_prev_entry, logVars
<1>4. CASE prev_conflict(n, m)
  BY <1>1, <1>4, FailedAssertType DEF prev_conflict, logVars
<1>5. CASE entry_conflict(n, m)
  BY <1>1, <1>5, FailedAssertType DEF entry_conflict, logVars
<1>6. CASE batch_cut_short(n, m)
  BY <1>1, <1>6, ReplyType DEF batch_cut_short, logVars
<1> QED
  BY <1>2, <1>3, <1>4, <1>5, <1>6

LEMMA AppendFirstType ==
    ASSUME TypeOK, NEW n \in Node, NEW m \in AppendEntries, append_first(n, m)
    PROVE  StoreOK'
<1>1. first_idx(m) \in Nat /\ m.entries \in Seq(Entry) /\ m.entries # <<>>
  BY AppendEntriesFields DEF append_first
<1>2. first_entry(m) \in Entry
  BY <1>1 DEF first_entry
<1>3. log' \in [Node -> Seq(Entry)]
  BY <1>2 DEF append_first, log_append_entry, TypeOK
<1>4. commit_after(n, m, first_idx(m)) \in Nat
  BY <1>1, CommitAfterType
<1>5. commit_idx' \in [Node -> Nat]
  BY <1>4 DEF append_first, set_commit_idx, TypeOK
<1>6. msgs' \in SUBSET Message
  BY <1>1, ReplyType DEF append_first
<1> QED
  BY <1>3, <1>5, <1>6 DEF append_first, StoreOK, TypeOK

LEMMA AllPresentType ==
    ASSUME TypeOK, NEW n \in Node, NEW m \in AppendEntries, all_present(n, m)
    PROVE  StoreOK'
<1>1. Len(log[n]) \in Nat /\ last_idx(m) \in Nat
  BY LogType, AppendEntriesFields
<1>2. commit_after(n, m, Len(log[n])) \in Nat
  BY <1>1, CommitAfterType
<1>3. commit_idx' \in [Node -> Nat]
  BY <1>2 DEF all_present, set_commit_idx, TypeOK
<1>4. msgs' \in SUBSET Message
  BY <1>1, ReplyType DEF all_present
<1> QED
  BY <1>3, <1>4 DEF all_present, StoreOK, TypeOK

LEMMA NullEntryType ==
    ASSUME TypeOK, NEW n \in Node, NEW m \in AppendEntries, null_entry(n, m)
    PROVE  StoreOK'
<1> DEFINE len   == Len(log[n])
           known == lesser(len, last_idx(m))
           fresh == greater(first_idx(m), commit_idx[n]) + 1
<1>1. len \in Nat /\ last_idx(m) \in Nat /\ fresh - 1 \in Nat
  <2>1. commit_idx[n] \in Nat
    BY DEF TypeOK
  <2> QED
    BY <2>1, LogType, AppendEntriesFields DEF greater
<1>2. CASE down' = down \cup {n} /\ UNCHANGED <<logVars, msgs>>
  BY <1>2 DEF StoreOK, TypeOK, logVars
<1>3. CASE failed_assert(n, m, TRUE, fresh - 1)
  BY <1>1, <1>3, FailedAssertType DEF StoreOK, TypeOK, logVars
<1>4. CASE /\ set_commit_idx(n, commit_after(n, m, len))
           /\ UNCHANGED <<log, last_applied_idx, down>>
           /\ reply(n, m, TRUE, last_idx(m))
  <2>1. commit_after(n, m, len) \in Nat
    BY <1>1, CommitAfterType
  <2>2. msgs' \in SUBSET Message
    BY <1>1, <1>4, ReplyType
  <2> QED
    BY <1>4, <2>1, <2>2 DEF set_commit_idx, StoreOK, TypeOK
<1>5. CASE UNCHANGED <<logVars, down>> /\ reply(n, m, TRUE, known)
  <2>1. known \in Nat
    BY <1>1 DEF lesser
  <2>2. msgs' \in SUBSET Message
    BY <1>5, <2>1, ReplyType
  <2> QED
    BY <1>5, <2>2 DEF logVars, StoreOK, TypeOK
<1> QED
  BY <1>2, <1>3, <1>4, <1>5 DEF null_entry

LEMMA AppendEntriesHandlerType ==
    ASSUME TypeOK, NEW n \in Node, NEW m \in msgs, raft_recv_appendentries(n, m)
    PROVE  TypeOK'
<1>1. m \in AppendEntries
  BY DEF TypeOK, raft_recv_appendentries, Message, RequestVote, RequestVoteResponse,
         AppendEntries, AppendEntriesResponse, ClientMessage
<1>2. m.term \in Terms /\ m.src \in Node /\ adopt_vote(n, m) \in Node \cup {Nil}
  BY <1>1, AdoptType DEF AppendEntries
<1>3. UNCHANGED <<next_idx, match_idx>>
  BY DEF raft_recv_appendentries, peerVars
<1>4. /\ current_term' \in [Node -> Terms]
      /\ voted_for' \in [Node -> Node \cup {Nil}]
      /\ state' \in [Node -> Roles]
      /\ current_leader' \in [Node -> Node \cup {Nil}]
      /\ vote_for_me' \in [Node -> SUBSET Node]
  <2>1. CASE stale_term(n, m)
    BY <2>1 DEF stale_term, serverVars, TypeOK
  <2>2. CASE ~ stale_term(n, m)
    <3>1. /\ current_term' = [current_term EXCEPT ![n] = m.term]
          /\ voted_for' = [voted_for EXCEPT ![n] = adopt_vote(n, m)]
          /\ state' = [state EXCEPT ![n] =
                          IF newer(n, m) \/ @ = "candidate" THEN "follower" ELSE @]
          /\ current_leader' = [current_leader EXCEPT ![n] = m.src]
          /\ UNCHANGED vote_for_me
      BY <2>2 DEF raft_recv_appendentries
    <3>2. state' \in [Node -> Roles]
      BY <3>1 DEF TypeOK, Roles
    <3> QED
      BY <1>2, <3>1, <3>2 DEF TypeOK
  <2> QED
    BY <2>1, <2>2
<1>5. StoreOK'
  BY <1>1, ConflictBranchesType, AppendFirstType, AllPresentType, NullEntryType
     DEF raft_recv_appendentries
<1> QED
  BY <1>3, <1>4, <1>5 DEF TypeOK, StoreOK

LEMMA AppendResponseType ==
    ASSUME TypeOK, NEW n \in Node, NEW m \in msgs,
           raft_recv_appendentries_response(n, m)
    PROVE  TypeOK'
<1>1. m \in AppendEntriesResponse
  BY DEF TypeOK, raft_recv_appendentries_response, Message, RequestVote,
         RequestVoteResponse, AppendEntries, AppendEntriesResponse, ClientMessage
<1>2. m.term \in Terms /\ m.src \in Node /\ m.current_idx \in Nat
  BY <1>1 DEF AppendEntriesResponse
<1>3. CASE step_down(n, m)
  BY <1>2, <1>3, StepDownType
<1>4. CASE /\ UNCHANGED <<serverVars, log, last_applied_idx, down>>
           /\ append_failed(n, m) \/ append_succeeded(n, m)
  <2>1. UNCHANGED <<current_term, voted_for, state, current_leader, vote_for_me,
                    log, last_applied_idx, down>>
    BY <1>4 DEF serverVars
  <2>2. ASSUME NEW idx \in Int, set_next_idx(n, m.src, idx)
        PROVE  next_idx' \in [Node -> [Node -> Nat \ {0}]]
    <3>1. (IF idx < 1 THEN 1 ELSE idx) \in Nat \ {0}
      BY <2>2
    <3>2. next_idx \in [Node -> [Node -> Nat \ {0}]]
      BY DEF TypeOK
    <3> QED
      BY <1>2, <2>2, <3>1, <3>2 DEF set_next_idx
  <2>3. /\ next_idx' \in [Node -> [Node -> Nat \ {0}]]
        /\ match_idx' \in [Node -> [Node -> Nat]]
        /\ commit_idx' \in [Node -> Nat]
    <3>1. CASE append_failed(n, m)
      <4>1. /\ next_idx[n][m.src] \in Nat \ {0}
            /\ Len(log[n]) \in Nat
        <5>1. next_idx \in [Node -> [Node -> Nat \ {0}]]
          BY DEF TypeOK
        <5> QED
          BY <1>2, <5>1, LogType
      <4>2. next_idx' \in [Node -> [Node -> Nat \ {0}]]
        BY <1>2, <2>2, <3>1, <4>1 DEF append_failed, lesser
      <4> QED
        BY <3>1, <4>2 DEF append_failed, TypeOK
    <3>2. CASE append_succeeded(n, m)
      <4>1. next_idx' \in [Node -> [Node -> Nat \ {0}]]
        BY <1>2, <2>2, <3>2 DEF append_succeeded
      <4> QED
        BY <1>2, <3>2, <4>1 DEF append_succeeded, set_commit_idx, TypeOK
    <3> QED
      BY <1>4, <3>1, <3>2
  <2>4. msg_appendentries(n, m.src)' \in AppendEntries
    BY <1>2, <2>1, <2>3, SentAppendEntriesType DEF TypeOK
  <2>5. msgs' \in SUBSET Message
    <3>1. msgs' = msgs \cup {msg_appendentries(n, m.src)'} \/ UNCHANGED msgs
      BY <1>4 DEF append_failed, append_succeeded, raft_send
    <3> QED
      BY <2>4, <3>1 DEF TypeOK, Message
  <2> QED
    BY <2>1, <2>3, <2>5 DEF TypeOK
<1> QED
  BY <1>3, <1>4 DEF raft_recv_appendentries_response

LEMMA EntryType ==
    ASSUME TypeOK, NEW n \in Node, NEW v \in Value, raft_recv_entry(n, v)
    PROVE  TypeOK'
<1>1. UNCHANGED <<current_term, voted_for, state, current_leader, vote_for_me,
                  last_applied_idx, next_idx, match_idx, down>>
  BY DEF raft_recv_entry, serverVars, peerVars
<1>2. [term |-> current_term[n], data |-> v] \in Entry
  BY DEF TypeOK, Entry
<1>3. log' \in [Node -> Seq(Entry)]
  BY <1>2 DEF raft_recv_entry, log_append_entry, TypeOK
<1>4. commit_idx' \in [Node -> Nat]
  BY DEF raft_recv_entry, set_commit_idx, TypeOK
<1>5. \A p \in Node : msg_appendentries(n, p)' \in AppendEntries
  BY <1>1, <1>3, <1>4, SentAppendEntriesType DEF TypeOK
<1>6. msgs' \in SUBSET Message
  BY <1>5 DEF raft_recv_entry, raft_send, TypeOK, Message, Others
<1> QED
  BY <1>1, <1>3, <1>4, <1>6 DEF TypeOK

LEMMA ClientType ==
    ASSUME TypeOK, NEW n \in Node, NEW v \in Value, client_new_message(n, v)
    PROVE  TypeOK'
<1>1. CASE raft_recv_entry(n, v)
  BY <1>1, EntryType
<1>2. CASE ~ raft_recv_entry(n, v)
  <2>1. current_leader[n] \in Node
    BY DEF client_new_message, TypeOK
  <2>2. [type |-> "client", src |-> n, dst |-> current_leader[n], data |-> v]
          \in ClientMessage
    BY <2>1 DEF ClientMessage
  <2>3. msgs' \in SUBSET Message
    BY <1>2, <2>2 DEF client_new_message, raft_send, TypeOK, Message
  <2> QED
    BY <1>2, <2>3 DEF client_new_message, serverVars, logVars, peerVars, TypeOK
<1> QED
  BY <1>1, <1>2

\* Every step of every node keeps the types.
LEMMA TypeStep ==
    ASSUME TypeOK, [Next]_vars
    PROVE  TypeOK'
<1>1. CASE UNCHANGED vars
  BY <1>1 DEF TypeOK, vars, serverVars, logVars, peerVars
<1>2. ASSUME NEW n \in Node, NEW m \in msgs, Receive(n, m)
      PROVE  TypeOK'
  <2>1. CASE handle_msg_client(n, m)
    <3>1. m.data \in Value
      BY <2>1 DEF handle_msg_client, TypeOK, Message, RequestVote,
            RequestVoteResponse, AppendEntries, AppendEntriesResponse, ClientMessage
    <3> QED
      BY <2>1, <3>1, EntryType DEF handle_msg_client
  <2> QED
    BY <1>2, <2>1, RequestVoteType, VoteResponseType, AppendEntriesHandlerType,
       AppendResponseType DEF Receive
<1> QED
  BY <1>1, <1>2, PeriodicType, ClientType DEF Next

LEMMA TypeInit == Init => TypeOK
BY DEF Init, TypeOK, Roles, Terms

\* Every field of every server and every packet keeps its range, for any number
\* of nodes and any bounds: in particular next_idx, from which the index of the
\* previous entry is computed, never drops below 1.
THEOREM TypeCorrect == Spec => []TypeOK
<1>1. TypeOK /\ [Next]_vars => TypeOK'
  BY TypeStep
<1> QED
  BY TypeInit, <1>1, PTL DEF Spec

=============================================================================
