-------------------------- MODULE RaftIndex_proofs --------------------------
(***************************************************************************)
(* What holds of indices and of current_leader in every cluster, whatever  *)
(* a NULL read does: a node never takes back what it knows committed, and  *)
(* the leader it names has led its present term.                           *)
(***************************************************************************)
EXTENDS RaftElection_proofs

USE NodeAssumption, NilAssumption, BoundAssumption

-----------------------------------------------------------------------------
(* Prefixes and packets *)

LEMMA PacketKinds ==
    ASSUME TypeOK, NEW m \in msgs
    PROVE  /\ m.type = "rv"  => m \in RequestVote
           /\ m.type = "rvr" => m \in RequestVoteResponse
           /\ m.type = "ae"  => m \in AppendEntries
           /\ m.type = "aer" => m \in AppendEntriesResponse
BY DEF TypeOK, Message, RequestVote, RequestVoteResponse, AppendEntries,
       AppendEntriesResponse, ClientMessage

\* Terms are numbers, in the servers and in the packets of the protocol.
LEMMA TermTypes ==
    ASSUME TypeOK
    PROVE  /\ \A n \in Node : current_term[n] \in Nat
           /\ \A m \in msgs : m.type # "client" => m.term \in Nat /\ m.term \in Terms
<1>1. \A n \in Node : current_term[n] \in Nat
  BY DEF TypeOK, Terms
<1>2. \A t \in Terms : t \in Nat
  BY DEF Terms
<1>3. \A m \in msgs : m.type # "client" => m.term \in Terms
  BY DEF TypeOK, Message, RequestVote, RequestVoteResponse, AppendEntries,
         AppendEntriesResponse, ClientMessage
<1> QED
  BY <1>1, <1>2, <1>3

LEMMA StepTypes ==
    ASSUME TypeOK, TypeOK', NEW p \in Node
    PROVE  /\ log[p] \in Seq(Entry) /\ log'[p] \in Seq(Entry)
           /\ Len(log[p]) \in Nat /\ Len(log'[p]) \in Nat
           /\ commit_idx[p] \in Nat /\ commit_idx'[p] \in Nat
           /\ current_term[p] \in Nat /\ current_term'[p] \in Nat
<1>1. log[p] \in Seq(Entry) /\ log'[p] \in Seq(Entry)
  BY DEF TypeOK
<1>2. commit_idx[p] \in Nat /\ commit_idx'[p] \in Nat
  BY DEF TypeOK
<1>3. current_term[p] \in Nat /\ current_term'[p] \in Nat
  BY DEF TypeOK, Terms
<1> QED
  BY <1>1, <1>2, <1>3

LEMMA SamePrefixTrans ==
    ASSUME NEW a \in Seq(Entry), NEW b \in Seq(Entry), NEW c \in Seq(Entry),
           NEW i \in Nat, NEW j \in Nat, j <= i,
           SamePrefix(a, b, i), SamePrefix(b, c, j)
    PROVE  SamePrefix(a, c, j)
BY DEF SamePrefix

LEMMA SamePrefixSym ==
    ASSUME NEW a, NEW b, NEW i, SamePrefix(a, b, i)
    PROVE  SamePrefix(b, a, i)
BY DEF SamePrefix

LEMMA SamePrefixLess ==
    ASSUME NEW a \in Seq(Entry), NEW b \in Seq(Entry), NEW i \in Nat, NEW j \in Nat,
           j <= i, SamePrefix(a, b, i)
    PROVE  SamePrefix(a, b, j)
BY DEF SamePrefix

LEMMA SamePrefixRefl ==
    ASSUME NEW a \in Seq(Entry), NEW b \in Seq(Entry), NEW i \in Nat, i <= Len(a)
    PROVE  SamePrefix(a, a, i) /\ SamePrefix(a, b, 0)
BY DEF SamePrefix

LEMMA AppendPrefix ==
    ASSUME NEW a \in Seq(Entry), NEW e \in Entry
    PROVE  /\ SamePrefix(a, Append(a, e), Len(a))
           /\ Append(a, e) \in Seq(Entry)
           /\ Len(Append(a, e)) = Len(a) + 1 /\ Append(a, e)[Len(a) + 1] = e
BY DEF SamePrefix

LEMMA ConcatPrefix ==
    ASSUME NEW a \in Seq(Entry), NEW b \in Seq(Entry)
    PROVE  SamePrefix(a, a \o b, Len(a)) /\ Len(a \o b) = Len(a) + Len(b)
BY DEF SamePrefix

\* A packet holds the entries from next to the end of the sender's log.
LEMMA SentEntries ==
    ASSUME NEW lg \in Seq(Entry), NEW next \in Nat \ {0}, next <= Len(lg) + 1,
           NEW m, m.prev_log_idx = next - 1, m.entries = entries_from(lg, next)
    PROVE  /\ last_idx(m) = Len(lg)
           /\ Len(m.entries) = Len(lg) - m.prev_log_idx
           /\ \A k \in 1 .. Len(m.entries) : m.entries[k] = lg[m.prev_log_idx + k]
<1>1. Len(m.entries) = Len(lg) - next + 1
  BY DEF entries_from
<1>2. \A k \in 1 .. Len(m.entries) : m.entries[k] = lg[next - 1 + k]
  BY <1>1 DEF entries_from
<1> QED
  BY <1>1, <1>2 DEF last_idx

-----------------------------------------------------------------------------
(* Indices *)

AeBounded(m) ==
    m.type = "ae" =>
        last_idx(m) <= Len(log[m.src]) /\ m.leader_commit <= last_idx(m)

AckBounded(m) ==
    m.type = "aer" /\ m.success => m.current_idx <= Len(log[m.dst])

\* No index points beyond the log it is about.
IndexInv ==
    /\ \A n \in Node : commit_idx[n] <= Len(log[n]) /\ Len(log[n]) <= MaxEntries
    /\ \A n, p \in Node : next_idx[n][p] <= Len(log[n]) + 1
    /\ \A m \in msgs : AeBounded(m) /\ AckBounded(m)

\* Logs grow at their end, and only that of n.
GrowStep(n) ==
    /\ \A p \in Others(n) : log'[p] = log[p]
    /\ SamePrefix(log[n], log'[n], Len(log[n]))
    /\ msgs \subseteq msgs'

\* What any handler of node n may do to indices.
IndexStep(n) ==
    /\ GrowStep(n)
    /\ Len(log'[n]) <= MaxEntries
    /\ commit_idx[n] <= commit_idx'[n] /\ commit_idx'[n] <= Len(log'[n])
    /\ \A p \in Node : next_idx'[n][p] <= Len(log'[n]) + 1
    /\ \A p \in Others(n) : commit_idx'[p] = commit_idx[p] /\ next_idx'[p] = next_idx[p]
    /\ \A r \in msgs' \ msgs : AeBounded(r)' /\ AckBounded(r)'

LEMMA LogsGrow ==
    ASSUME TypeOK, TypeOK', NEW n \in Node, GrowStep(n), NEW p \in Node
    PROVE  /\ SamePrefix(log[p], log'[p], Len(log[p]))
           /\ Len(log[p]) <= Len(log'[p])
           /\ \A i \in 1 .. Len(log[p]) : log'[p][i] = log[p][i]
<1>1. log[p] \in Seq(Entry) /\ log'[p] \in Seq(Entry)
  BY DEF TypeOK
<1>2. SamePrefix(log[p], log'[p], Len(log[p]))
  <2>1. CASE p = n
    BY <2>1 DEF GrowStep
  <2>2. CASE p # n
    BY <1>1, <2>2, SamePrefixRefl DEF GrowStep, Others
  <2> QED
    BY <2>1, <2>2
<1> QED
  BY <1>1, <1>2 DEF SamePrefix

LEMMA IndexStepInv ==
    ASSUME TypeOK, TypeOK', IndexInv, NEW n \in Node, IndexStep(n)
    PROVE  /\ IndexInv'
           /\ \A p \in Node : /\ commit_idx[p] <= commit_idx'[p]
                              /\ SamePrefix(log[p], log'[p], commit_idx[p])
<1>1. \A p \in Node : /\ Len(log[p]) <= Len(log'[p])
                      /\ SamePrefix(log[p], log'[p], Len(log[p]))
  BY LogsGrow DEF IndexStep
<1>2. \A p \in Node :
         /\ log[p] \in Seq(Entry) /\ log'[p] \in Seq(Entry)
         /\ Len(log[p]) \in Nat /\ Len(log'[p]) \in Nat
         /\ commit_idx[p] \in Nat /\ commit_idx'[p] \in Nat
  BY StepTypes
<1>3. \A p \in Node : /\ commit_idx[p] <= commit_idx'[p]
                      /\ SamePrefix(log[p], log'[p], commit_idx[p])
  <2> SUFFICES ASSUME NEW p \in Node
               PROVE  /\ commit_idx[p] <= commit_idx'[p]
                      /\ SamePrefix(log[p], log'[p], commit_idx[p])
    OBVIOUS
  <2>1. commit_idx[p] <= commit_idx'[p]
    BY <1>2 DEF IndexStep, Others
  <2> QED
    BY <1>1, <1>2, <2>1, SamePrefixLess DEF IndexInv
<1>4. \A p \in Node : commit_idx'[p] <= Len(log'[p]) /\ Len(log'[p]) <= MaxEntries
  BY <1>2 DEF IndexStep, IndexInv, GrowStep, Others
<1>5. \A p, q \in Node : next_idx'[p][q] <= Len(log'[p]) + 1
  BY <1>2 DEF IndexStep, IndexInv, GrowStep, Others
<1>6. ASSUME NEW m \in msgs'
      PROVE  AeBounded(m)' /\ AckBounded(m)'
  <2>1. CASE m \in msgs
    <3>1. AeBounded(m) /\ AckBounded(m)
      BY <2>1 DEF IndexInv
    <3>2. AeBounded(m)'
      <4>1. SUFFICES ASSUME m.type = "ae"
                     PROVE  last_idx(m) <= Len(log'[m.src]) /\ m.leader_commit <= last_idx(m)
        BY DEF AeBounded
      <4>2. m.src \in Node /\ last_idx(m) \in Nat
        BY <2>1, <4>1, PacketKinds, AppendEntriesFields
      <4> QED
        BY <1>1, <1>2, <3>1, <4>1, <4>2 DEF AeBounded
    <3>3. AckBounded(m)'
      <4>1. SUFFICES ASSUME m.type = "aer", m.success
                     PROVE  m.current_idx <= Len(log'[m.dst])
        BY DEF AckBounded
      <4>2. m.dst \in Node /\ m.current_idx \in Nat
        BY <2>1, <4>1, PacketKinds DEF AppendEntriesResponse
      <4> QED
        BY <1>1, <1>2, <3>1, <4>1, <4>2 DEF AckBounded
    <3> QED
      BY <3>2, <3>3
  <2>2. CASE m \notin msgs
    BY <2>2 DEF IndexStep
  <2> QED
    BY <2>1, <2>2
<1> QED
  BY <1>3, <1>4, <1>5, <1>6 DEF IndexInv

-----------------------------------------------------------------------------
(* Every handler is a step of that kind. *)

LEMMA SentBounded ==
    ASSUME TypeOK', NEW n \in Node, NEW p \in Node,
           next_idx'[n][p] <= Len(log'[n]) + 1, commit_idx'[n] <= Len(log'[n]),
           NEW r, r = msg_appendentries(n, p)'
    PROVE  AeBounded(r)' /\ AckBounded(r)'
<1>1. /\ r.type = "ae" /\ r.src = n /\ r.prev_log_idx = next_idx'[n][p] - 1
      /\ r.leader_commit = commit_idx'[n]
      /\ r.entries = entries_from(log'[n], next_idx'[n][p])
  BY DEF msg_appendentries
<1>2. log'[n] \in Seq(Entry) /\ next_idx'[n][p] \in Nat \ {0}
  BY DEF TypeOK
<1>3. last_idx(r) = Len(log'[n])
  BY <1>1, <1>2, SentEntries
<1> QED
  BY <1>1, <1>2, <1>3 DEF AeBounded, AckBounded

\* A handler that leaves log, commit index and peers alone.
LEMMA QuietIndex ==
    ASSUME TypeOK, IndexInv, NEW n \in Node, UNCHANGED <<log, commit_idx, next_idx>>,
           msgs \subseteq msgs', \A r \in msgs' \ msgs : AeBounded(r)' /\ AckBounded(r)'
    PROVE  IndexStep(n)
<1>1. log[n] \in Seq(Entry) /\ Len(log[n]) \in Nat /\ commit_idx[n] \in Nat
  BY LogType DEF TypeOK
<1>2. SamePrefix(log[n], log'[n], Len(log[n]))
  BY <1>1, SamePrefixRefl
<1> QED
  BY <1>1, <1>2 DEF IndexStep, GrowStep, IndexInv

LEMMA PeriodicIndex ==
    ASSUME TypeOK, TypeOK', IndexInv, NEW n \in Node, raft_periodic(n)
    PROVE  IndexStep(n)
<1>1. UNCHANGED <<log, commit_idx, next_idx>>
  BY DEF raft_periodic, peerVars
<1>2. CASE raft_send_appendentries_all(n)
  <2>1. msgs' = msgs \cup {msg_appendentries(n, m)' : m \in Others(n)}
    BY <1>2 DEF raft_send_appendentries_all, raft_send
  <2>2. \A p \in Others(n) : next_idx'[n][p] <= Len(log'[n]) + 1
    BY <1>1 DEF IndexInv, Others
  <2>3. commit_idx'[n] <= Len(log'[n])
    BY <1>1 DEF IndexInv
  <2>4. \A r \in msgs' \ msgs : AeBounded(r)' /\ AckBounded(r)'
    BY <2>1, <2>2, <2>3, SentBounded DEF Others
  <2> QED
    BY <1>1, <2>1, <2>4, QuietIndex
<1>3. CASE raft_election_start(n)
  <2>1. msgs' = msgs \cup {msg_requestvote(n, m)' : m \in Others(n)}
    BY <1>3 DEF raft_election_start, raft_become_candidate, raft_send
  <2>2. \A r \in msgs' \ msgs : AeBounded(r)' /\ AckBounded(r)'
    BY <2>1 DEF msg_requestvote, AeBounded, AckBounded
  <2> QED
    BY <1>1, <2>1, <2>2, QuietIndex
<1>4. CASE UNCHANGED msgs
  BY <1>1, <1>4, QuietIndex
<1> QED
  BY <1>2, <1>3, <1>4 DEF raft_periodic, become_sole_leader, no_timeout

LEMMA RequestVoteIndex ==
    ASSUME TypeOK, IndexInv, NEW n \in Node, NEW m \in msgs, raft_recv_requestvote(n, m)
    PROVE  IndexStep(n)
<1>1. UNCHANGED <<log, commit_idx, next_idx>>
  BY DEF raft_recv_requestvote, logVars, peerVars
<1>2. msgs \subseteq msgs' /\ \A r \in msgs' \ msgs : r.type = "rvr"
  BY DEF raft_recv_requestvote, raft_send
<1> QED
  BY <1>1, <1>2, QuietIndex DEF AeBounded, AckBounded

LEMMA StepDownIndex ==
    ASSUME TypeOK, IndexInv, NEW n \in Node, NEW m, step_down(n, m)
    PROVE  IndexStep(n)
<1>1. UNCHANGED <<log, commit_idx, next_idx, msgs>>
  BY DEF step_down, logVars, peerVars
<1> QED
  BY <1>1, QuietIndex

LEMMA BecomeLeaderIndex ==
    ASSUME TypeOK, TypeOK', IndexInv, NEW n \in Node, raft_become_leader(n)
    PROVE  IndexStep(n)
<1>1. /\ UNCHANGED <<log, commit_idx>>
      /\ msgs' = msgs \cup {msg_appendentries(n, m)' : m \in Others(n)}
      /\ next_idx' = [next_idx EXCEPT ![n] =
                         [m \in Node |-> IF m = n THEN @[m] ELSE new_next_idx(n)]]
  BY DEF raft_become_leader, raft_send, logVars
<1>2. log[n] \in Seq(Entry) /\ Len(log[n]) \in Nat /\ commit_idx[n] \in Nat
  BY LogType DEF TypeOK
<1>3. \A p \in Node : next_idx'[n][p] <= Len(log'[n]) + 1
  <2>1. \A p \in Node :
            next_idx'[n][p] = IF p = n THEN next_idx[n][p] ELSE Len(log[n]) + 1
    BY <1>1 DEF TypeOK, new_next_idx
  <2> QED
    BY <1>1, <1>2, <2>1 DEF IndexInv
<1>4. \A p \in Others(n) : next_idx'[p] = next_idx[p]
  BY <1>1 DEF TypeOK, Others
<1>5. commit_idx'[n] <= Len(log'[n])
  BY <1>1 DEF IndexInv
<1>6. \A r \in msgs' \ msgs : AeBounded(r)' /\ AckBounded(r)'
  BY <1>1, <1>3, <1>5, SentBounded DEF Others
<1>7. SamePrefix(log[n], log'[n], Len(log[n]))
  BY <1>1, <1>2, SamePrefixRefl
<1> QED
  BY <1>1, <1>2, <1>3, <1>4, <1>5, <1>6, <1>7 DEF IndexStep, GrowStep, IndexInv

LEMMA VoteResponseIndex ==
    ASSUME TypeOK, TypeOK', IndexInv, NEW n \in Node, NEW m \in msgs,
           raft_recv_requestvote_response(n, m)
    PROVE  IndexStep(n)
<1>1. CASE step_down(n, m)
  BY <1>1, StepDownIndex
<1>2. CASE count_vote(n, m)
  <2>1. CASE raft_become_leader(n)
    BY <2>1, BecomeLeaderIndex
  <2>2. CASE UNCHANGED <<logVars, peerVars, msgs>>
    BY <2>2, QuietIndex DEF logVars, peerVars
  <2> QED
    BY <1>2, <2>1, <2>2 DEF count_vote
<1> QED
  BY <1>1, <1>2 DEF raft_recv_requestvote_response

\* An answer that acknowledges no more than the packet held.
LEMMA ReplyBounded ==
    ASSUME TypeOK, TypeOK', IndexInv, NEW n \in Node, NEW m \in msgs, m.type = "ae",
           Len(log[m.src]) <= Len(log'[m.src]),
           NEW success, NEW idx \in Nat, success => idx <= last_idx(m),
           reply(n, m, success, idx)
    PROVE  msgs \subseteq msgs' /\ \A r \in msgs' \ msgs : AeBounded(r)' /\ AckBounded(r)'
<1>1. /\ m.src \in Node /\ last_idx(m) \in Nat
      /\ Len(log[m.src]) \in Nat /\ Len(log'[m.src]) \in Nat
  BY PacketKinds, AppendEntriesFields, StepTypes
<1>2. last_idx(m) <= Len(log[m.src])
  BY DEF IndexInv, AeBounded
<1>3. ASSUME NEW r \in msgs' \ msgs
      PROVE  AeBounded(r)' /\ AckBounded(r)'
  <2>1. r = [type |-> "aer", src |-> n, dst |-> m.src, term |-> adopt_term(n, m),
             success |-> success, current_idx |-> idx]
    BY <1>3 DEF reply, raft_send
  <2>2. r.type = "aer" /\ r.dst = m.src /\ r.success = success /\ r.current_idx = idx
    BY <2>1
  <2> QED
    BY <1>1, <1>2, <2>2 DEF AeBounded, AckBounded
<1> QED
  BY <1>3 DEF reply, raft_send

LEMMA FailedAssertIndex ==
    ASSUME TypeOK, TypeOK', IndexInv, NEW n \in Node, NEW m \in msgs, m.type = "ae",
           UNCHANGED next_idx,
           NEW success, NEW idx \in Nat, success => idx <= last_idx(m),
           failed_assert(n, m, success, idx)
    PROVE  IndexStep(n)
<1>1. UNCHANGED <<log, commit_idx>>
  BY DEF failed_assert, logVars
<1>2. Len(log[m.src]) <= Len(log'[m.src])
  <2>1. Len(log[m.src]) \in Nat
    BY PacketKinds, AppendEntriesFields, StepTypes
  <2> QED
    BY <1>1, <2>1
<1>3. CASE UNCHANGED msgs
  BY <1>1, <1>3, QuietIndex
<1>4. CASE reply(n, m, success, idx)
  BY <1>1, <1>2, <1>4, QuietIndex, ReplyBounded
<1> QED
  BY <1>3, <1>4 DEF failed_assert

\* commit_after is the leader's commit index or what it was, and stays within
\* a log that has all entries up to the last one of the packet.
LEMMA CommitAfter ==
    ASSUME TypeOK, NEW n \in Node, NEW m \in AppendEntries, NEW len \in Nat,
           commit_idx[n] <= len, last_idx(m) <= len, m.leader_commit <= last_idx(m)
    PROVE  /\ commit_after(n, m, len) \in {commit_idx[n], m.leader_commit}
           /\ commit_after(n, m, len) \in Nat
           /\ commit_idx[n] <= commit_after(n, m, len)
           /\ commit_after(n, m, len) <= len
<1>1. commit_idx[n] \in Nat /\ m.leader_commit \in Nat /\ last_idx(m) \in Nat
  BY AppendEntriesFields DEF TypeOK
<1> QED
  BY <1>1 DEF commit_after, lesser, greater

\* The log of n gets longer, but not longer than the packet says, and the
\* commit index stays or becomes commit_after.
LEMMA StoreIndex ==
    ASSUME TypeOK, TypeOK', IndexInv, NEW n \in Node, NEW m \in msgs, m.type = "ae",
           UNCHANGED next_idx,
           SamePrefix(log[n], log'[n], Len(log[n])),
           \A p \in Others(n) : log'[p] = log[p],
           Len(log'[n]) <= Len(log[n]) \/ Len(log'[n]) <= last_idx(m),
           NEW idx \in Nat, idx <= last_idx(m), reply(n, m, TRUE, idx),
           \/ set_commit_idx(n, commit_idx[n])
           \/ /\ last_idx(m) <= Len(log'[n])
              /\ set_commit_idx(n, commit_after(n, m, Len(log'[n])))
    PROVE  IndexStep(n)
<1>1. /\ m \in AppendEntries /\ m.src \in Node /\ last_idx(m) \in Nat
  BY PacketKinds, AppendEntriesFields
<1>2. \A p \in Node :
         /\ Len(log[p]) \in Nat /\ Len(log'[p]) \in Nat
         /\ commit_idx[p] \in Nat /\ commit_idx'[p] \in Nat
  BY StepTypes
<1>3. Len(log[n]) <= Len(log'[n])
  BY DEF SamePrefix
<1>4. Len(log[m.src]) <= Len(log'[m.src])
  BY <1>1, <1>2, <1>3 DEF Others
<1>5. msgs \subseteq msgs' /\ \A r \in msgs' \ msgs : AeBounded(r)' /\ AckBounded(r)'
  BY <1>4, ReplyBounded
<1>6. Len(log'[n]) <= MaxEntries
  <2>1. last_idx(m) <= Len(log[m.src]) /\ Len(log[m.src]) <= MaxEntries
    BY <1>1 DEF IndexInv, AeBounded
  <2>2. Len(log[n]) <= MaxEntries
    BY DEF IndexInv
  <2> QED
    BY <1>1, <1>2, <2>1, <2>2
<1>7. /\ commit_idx[n] <= commit_idx'[n] /\ commit_idx'[n] <= Len(log'[n])
      /\ \A p \in Others(n) : commit_idx'[p] = commit_idx[p]
  <2>1. commit_idx[n] <= Len(log[n]) /\ m.leader_commit <= last_idx(m)
    BY DEF IndexInv, AeBounded
  <2>2. commit_idx[n] <= Len(log'[n])
    BY <1>2, <1>3, <2>1
  <2>3. CASE set_commit_idx(n, commit_idx[n])
    BY <1>2, <2>2, <2>3 DEF set_commit_idx, TypeOK, Others
  <2>4. CASE /\ last_idx(m) <= Len(log'[n])
             /\ set_commit_idx(n, commit_after(n, m, Len(log'[n])))
    <3>1. /\ commit_idx'[n] = commit_after(n, m, Len(log'[n]))
          /\ \A p \in Others(n) : commit_idx'[p] = commit_idx[p]
      BY <2>4 DEF set_commit_idx, TypeOK, Others
    <3> QED
      BY <1>1, <1>2, <2>1, <2>2, <2>4, <3>1, CommitAfter
  <2> QED
    BY <2>3, <2>4
<1>8. \A p \in Node : next_idx'[n][p] <= Len(log'[n]) + 1
  <2>1. \A p \in Node : next_idx[n][p] \in Nat /\ next_idx[n][p] <= Len(log[n]) + 1
    BY DEF IndexInv, TypeOK
  <2> QED
    BY <1>2, <1>3, <2>1
<1> QED
  BY <1>5, <1>6, <1>7, <1>8 DEF IndexStep, GrowStep

LEMMA AppendFirstIndex ==
    ASSUME TypeOK, TypeOK', IndexInv, NEW n \in Node, NEW m \in msgs, m.type = "ae",
           UNCHANGED next_idx, append_first(n, m)
    PROVE  IndexStep(n)
<1>1. /\ m.entries \in Seq(Entry) /\ m.entries # <<>> /\ m.prev_log_idx \in Nat
      /\ first_idx(m) \in Nat /\ last_idx(m) \in Nat /\ Len(m.entries) \in Nat
  BY PacketKinds, AppendEntriesFields DEF append_first
<1>2. first_entry(m) \in Entry /\ Len(m.entries) >= 1
  BY <1>1 DEF first_entry
<1>3. first_idx(m) <= last_idx(m) /\ (Len(m.entries) = 1 => first_idx(m) = last_idx(m))
  <2> DEFINE a == m.prev_log_idx
             b == Len(m.entries)
  <2>1. a \in Nat /\ b \in Nat /\ b >= 1
    BY <1>1, <1>2
  <2>2. first_idx(m) = a + 1 /\ last_idx(m) = a + b
    BY DEF first_idx, last_idx
  <2> HIDE DEF a, b
  <2>3. first_idx(m) <= last_idx(m) /\ (b = 1 => first_idx(m) = last_idx(m))
    BY <2>1, <2>2
  <2> QED
    BY <2>3 DEF b
<1>4. /\ log'[n] = Append(log[n], first_entry(m)) /\ log[n] \in Seq(Entry)
      /\ \A p \in Others(n) : log'[p] = log[p]
  BY DEF append_first, log_append_entry, TypeOK, Others
<1>5. /\ SamePrefix(log[n], log'[n], Len(log[n])) /\ Len(log'[n]) = first_idx(m)
  BY <1>2, <1>4, AppendPrefix DEF append_first
<1>6. reply(n, m, TRUE, first_idx(m))
  BY DEF append_first
<1>7. \/ set_commit_idx(n, commit_idx[n])
      \/ /\ last_idx(m) <= Len(log'[n])
         /\ set_commit_idx(n, commit_after(n, m, Len(log'[n])))
  BY <1>1, <1>3, <1>5 DEF append_first
<1> QED
  BY <1>1, <1>3, <1>4, <1>5, <1>6, <1>7, StoreIndex

LEMMA AllPresentIndex ==
    ASSUME TypeOK, TypeOK', IndexInv, NEW n \in Node, NEW m \in msgs, m.type = "ae",
           UNCHANGED next_idx, prev_matches(log[n], m), all_present(n, m)
    PROVE  IndexStep(n)
<1>1. /\ m.prev_log_idx \in Nat /\ first_idx(m) \in Nat /\ last_idx(m) \in Nat
      /\ m.entries \in Seq(Entry) /\ Len(m.entries) \in Nat
  BY PacketKinds, AppendEntriesFields
<1>2. UNCHANGED log /\ log[n] \in Seq(Entry) /\ Len(log[n]) \in Nat
  BY LogType DEF all_present
<1>3. last_idx(m) <= Len(log'[n])
  <2>1. CASE m.entries = <<>>
    BY <1>1, <1>2, <2>1 DEF last_idx, prev_matches
  <2>2. CASE Len(m.entries) = 1 /\ first_idx(m) <= Len(log[n])
    BY <1>1, <1>2, <2>2 DEF last_idx, first_idx
  <2> QED
    BY <2>1, <2>2 DEF all_present
<1>4. SamePrefix(log[n], log'[n], Len(log[n]))
  BY <1>2, SamePrefixRefl
<1>5. /\ set_commit_idx(n, commit_after(n, m, Len(log'[n])))
      /\ reply(n, m, TRUE, last_idx(m))
  BY <1>2 DEF all_present
<1>6. /\ Len(log'[n]) <= Len(log[n]) /\ last_idx(m) <= last_idx(m)
      /\ \A p \in Others(n) : log'[p] = log[p]
  BY <1>1, <1>2
<1> QED
  BY <1>1, <1>3, <1>4, <1>5, <1>6, StoreIndex

LEMMA NullEntryIndex ==
    ASSUME TypeOK, TypeOK', IndexInv, NEW n \in Node, NEW m \in msgs, m.type = "ae",
           UNCHANGED next_idx, null_entry(n, m)
    PROVE  IndexStep(n)
<1> DEFINE len   == Len(log[n])
           known == lesser(len, last_idx(m))
           fresh == greater(first_idx(m), commit_idx[n]) + 1
<1>1. /\ first_idx(m) \in Nat /\ last_idx(m) \in Nat /\ len \in Nat
      /\ commit_idx[n] \in Nat /\ log[n] \in Seq(Entry)
  BY PacketKinds, AppendEntriesFields, LogType DEF TypeOK
<1>2. CASE UNCHANGED <<logVars, msgs>>
  BY <1>2, QuietIndex DEF logVars
<1>3. CASE fresh <= known /\ failed_assert(n, m, TRUE, fresh - 1)
  <2>1. fresh - 1 \in Nat /\ fresh - 1 <= last_idx(m)
    BY <1>1, <1>3 DEF lesser, greater
  <2> QED
    BY <1>3, <2>1, FailedAssertIndex
<1>4. CASE /\ known = last_idx(m)
           /\ set_commit_idx(n, commit_after(n, m, len))
           /\ UNCHANGED <<log, last_applied_idx, down>>
           /\ reply(n, m, TRUE, last_idx(m))
  <2>1. last_idx(m) <= Len(log'[n]) /\ Len(log'[n]) = len
    BY <1>1, <1>4 DEF lesser
  <2>2. SamePrefix(log[n], log'[n], Len(log[n]))
    BY <1>1, <1>4, SamePrefixRefl
  <2>3. /\ Len(log'[n]) <= Len(log[n]) /\ last_idx(m) <= last_idx(m)
        /\ \A p \in Others(n) : log'[p] = log[p]
    BY <1>1, <1>4
  <2>4. set_commit_idx(n, commit_after(n, m, Len(log'[n]))) /\ reply(n, m, TRUE, last_idx(m))
    BY <1>4
  <2> QED
    BY <1>1, <2>1, <2>2, <2>3, <2>4, StoreIndex
<1>5. CASE UNCHANGED <<logVars, down>> /\ reply(n, m, TRUE, known)
  <2>1. known \in Nat /\ known <= last_idx(m) /\ known <= len
    BY <1>1 DEF lesser
  <2>2. UNCHANGED <<log, commit_idx>> /\ Len(log'[n]) = len
    BY <1>5 DEF logVars
  <2>3. SamePrefix(log[n], log'[n], Len(log[n]))
    BY <1>1, <2>2, SamePrefixRefl
  <2>4. set_commit_idx(n, commit_idx[n])
    BY <2>2 DEF set_commit_idx, TypeOK
  <2>5. /\ \A p \in Others(n) : log'[p] = log[p]
        /\ Len(log'[n]) <= Len(log[n])
    BY <1>1, <2>2
  <2> HIDE DEF known
  <2> QED
    BY <1>1, <1>5, <2>1, <2>2, <2>3, <2>4, <2>5, StoreIndex
<1> QED
  BY <1>2, <1>3, <1>4, <1>5 DEF null_entry

LEMMA AppendEntriesIndex ==
    ASSUME TypeOK, TypeOK', IndexInv, NEW n \in Node, NEW m \in msgs,
           raft_recv_appendentries(n, m)
    PROVE  IndexStep(n)
<1>1. m.type = "ae" /\ UNCHANGED next_idx
  BY DEF raft_recv_appendentries, peerVars
<1>2. /\ m.prev_log_idx \in Nat /\ first_idx(m) \in Nat /\ last_idx(m) \in Nat
      /\ m.entries \in Seq(Entry) /\ Len(m.entries) \in Nat /\ Len(log[n]) \in Nat
      /\ Len(log[m.src]) \in Nat
  BY <1>1, PacketKinds, AppendEntriesFields, LogType
<1>3. ASSUME NEW success, NEW idx \in Nat, success => idx <= last_idx(m),
             reply(n, m, success, idx), UNCHANGED logVars
      PROVE  IndexStep(n)
  <2>1. UNCHANGED <<log, commit_idx>>
    BY <1>3 DEF logVars
  <2>2. Len(log[m.src]) <= Len(log'[m.src])
    BY <1>2, <2>1
  <2> QED
    BY <1>1, <1>3, <2>1, <2>2, ReplyBounded, QuietIndex
<1>4. CASE stale_term(n, m)
  BY <1>2, <1>3, <1>4 DEF stale_term
<1>5. CASE no_prev_entry(n, m)
  BY <1>2, <1>3, <1>5 DEF no_prev_entry
<1>6. CASE prev_conflict(n, m)
  BY <1>1, <1>2, <1>6, FailedAssertIndex DEF prev_conflict
<1>7. CASE entry_conflict(n, m)
  <2>1. m.prev_log_idx <= last_idx(m)
    BY <1>2 DEF last_idx
  <2> QED
    BY <1>1, <1>2, <1>7, <2>1, FailedAssertIndex DEF entry_conflict
<1>8. CASE batch_cut_short(n, m)
  <2>1. first_idx(m) <= last_idx(m)
    BY <1>2, <1>8 DEF first_idx, last_idx, batch_cut_short
  <2> QED
    BY <1>2, <1>3, <1>8, <2>1 DEF batch_cut_short
<1> QED
  BY <1>1, <1>4, <1>5, <1>6, <1>7, <1>8, AppendFirstIndex, AllPresentIndex,
     NullEntryIndex DEF raft_recv_appendentries

LEMMA AppendResponseIndex ==
    ASSUME TypeOK, TypeOK', IndexInv, NEW n \in Node, NEW m \in msgs,
           raft_recv_appendentries_response(n, m)
    PROVE  IndexStep(n)
<1>1. /\ m \in AppendEntriesResponse /\ m.type = "aer" /\ m.dst = n
      /\ m.src \in Node /\ m.current_idx \in Nat
  BY PacketKinds DEF raft_recv_appendentries_response, AppendEntriesResponse
<1>2. CASE step_down(n, m)
  BY <1>2, StepDownIndex
<1>3. CASE /\ UNCHANGED <<serverVars, log, last_applied_idx, down>>
           /\ append_failed(n, m) \/ append_succeeded(n, m)
  <2>1. /\ UNCHANGED log /\ log[n] \in Seq(Entry) /\ Len(log[n]) \in Nat
        /\ commit_idx[n] \in Nat /\ commit_idx[n] <= Len(log[n])
    BY <1>3, LogType DEF TypeOK, IndexInv
  <2>2. \A p \in Node : next_idx[n][p] \in Nat \ {0} /\ next_idx[n][p] <= Len(log[n]) + 1
    BY DEF IndexInv, TypeOK
  <2>3. /\ \A p \in Node : next_idx'[n][p] <= Len(log[n]) + 1
        /\ \A p \in Others(n) : commit_idx'[p] = commit_idx[p] /\ next_idx'[p] = next_idx[p]
        /\ commit_idx[n] <= commit_idx'[n] /\ commit_idx'[n] <= Len(log[n])
    <3>1. ASSUME NEW idx \in Int, idx <= Len(log[n]) + 1, set_next_idx(n, m.src, idx)
          PROVE  /\ \A p \in Node : next_idx'[n][p] <= Len(log[n]) + 1
                 /\ \A p \in Others(n) : next_idx'[p] = next_idx[p]
      <4>1. /\ \A p \in Node : next_idx'[n][p] = IF p = m.src
                                  THEN IF idx < 1 THEN 1 ELSE idx ELSE next_idx[n][p]
            /\ \A p \in Others(n) : next_idx'[p] = next_idx[p]
        BY <1>1, <3>1 DEF set_next_idx, TypeOK, Others
      <4> QED
        BY <2>1, <2>2, <3>1, <4>1
    <3>2. CASE append_failed(n, m)
      <4> DEFINE idx == IF m.current_idx < next_idx[n][m.src] - 1
                        THEN lesser(m.current_idx + 1, Len(log[n]))
                        ELSE next_idx[n][m.src] - 1
      <4>1. idx \in Int /\ idx <= Len(log[n]) + 1
        BY <1>1, <2>1, <2>2 DEF lesser
      <4>2. set_next_idx(n, m.src, idx) /\ UNCHANGED commit_idx
        BY <3>2 DEF append_failed
      <4> QED
        BY <2>1, <3>1, <4>1, <4>2
    <3>3. CASE append_succeeded(n, m)
      <4>1. m.current_idx <= Len(log[n])
        BY <1>1, <3>3 DEF append_succeeded, IndexInv, AckBounded
      <4>2. set_next_idx(n, m.src, m.current_idx + 1)
        BY <3>3 DEF append_succeeded
      <4>3. /\ commit_idx'[n] = IF commit_allowed(n, m.current_idx, match_idx'[n])
                                THEN m.current_idx ELSE commit_idx[n]
            /\ \A p \in Others(n) : commit_idx'[p] = commit_idx[p]
        BY <3>3 DEF append_succeeded, set_commit_idx, TypeOK, Others
      <4>4. commit_idx[n] <= commit_idx'[n] /\ commit_idx'[n] <= Len(log[n])
        BY <1>1, <2>1, <4>1, <4>3 DEF commit_allowed
      <4> QED
        BY <1>1, <2>1, <3>1, <4>1, <4>2, <4>3, <4>4
    <3> QED
      BY <1>3, <3>2, <3>3
  <2>4. msgs' = msgs \cup {msg_appendentries(n, m.src)'} \/ UNCHANGED msgs
    BY <1>3 DEF append_failed, append_succeeded, raft_send
  <2>5. \A r \in msgs' \ msgs : AeBounded(r)' /\ AckBounded(r)'
    <3>1. next_idx'[n][m.src] <= Len(log'[n]) + 1 /\ commit_idx'[n] <= Len(log'[n])
      BY <1>1, <2>1, <2>3
    <3> QED
      BY <1>1, <2>4, <3>1, SentBounded
  <2>6. SamePrefix(log[n], log'[n], Len(log[n])) /\ Len(log'[n]) <= MaxEntries
    BY <2>1, SamePrefixRefl DEF IndexInv
  <2> QED
    BY <2>1, <2>3, <2>4, <2>5, <2>6 DEF IndexStep, GrowStep
<1> QED
  BY <1>2, <1>3 DEF raft_recv_appendentries_response

LEMMA EntryIndex ==
    ASSUME TypeOK, TypeOK', IndexInv, NEW n \in Node, NEW v \in Value,
           raft_recv_entry(n, v)
    PROVE  IndexStep(n)
<1> DEFINE ety == [term |-> current_term[n], data |-> v]
<1>1. /\ log[n] \in Seq(Entry) /\ Len(log[n]) \in Nat /\ ety \in Entry
      /\ commit_idx[n] \in Nat /\ commit_idx[n] <= Len(log[n])
  BY LogType DEF TypeOK, Entry, IndexInv
<1>2. /\ log'[n] = Append(log[n], ety)
      /\ \A p \in Others(n) : log'[p] = log[p]
      /\ Len(log[n]) + 1 <= MaxEntries
      /\ UNCHANGED next_idx
  BY DEF raft_recv_entry, log_append_entry, TypeOK, Others, peerVars
<1>3. SamePrefix(log[n], log'[n], Len(log[n])) /\ Len(log'[n]) = Len(log[n]) + 1
  BY <1>1, <1>2, AppendPrefix
<1>4. /\ commit_idx'[n] \in {commit_idx[n], Len(log[n]) + 1}
      /\ \A p \in Others(n) : commit_idx'[p] = commit_idx[p]
  BY DEF raft_recv_entry, set_commit_idx, TypeOK, Others
<1>5. commit_idx[n] <= commit_idx'[n] /\ commit_idx'[n] <= Len(log'[n])
  BY <1>1, <1>3, <1>4
<1>6. \A p \in Node : next_idx'[n][p] <= Len(log'[n]) + 1
  <2>1. \A p \in Node : next_idx[n][p] \in Nat /\ next_idx[n][p] <= Len(log[n]) + 1
    BY DEF IndexInv, TypeOK
  <2> QED
    BY <1>1, <1>2, <1>3, <2>1
<1>7. msgs \subseteq msgs' /\ \A r \in msgs' \ msgs : AeBounded(r)' /\ AckBounded(r)'
  <2>1. msgs' = msgs \cup {msg_appendentries(n, p)' :
                              p \in {q \in Others(n) : next_idx[n][q] = Len(log[n]) + 1}}
    BY DEF raft_recv_entry, raft_send
  <2> QED
    BY <1>5, <1>6, <2>1, SentBounded DEF Others
<1> QED
  BY <1>2, <1>3, <1>4, <1>5, <1>6, <1>7 DEF IndexStep, GrowStep

LEMMA ClientIndex ==
    ASSUME TypeOK, TypeOK', IndexInv, NEW n \in Node, NEW v \in Value,
           client_new_message(n, v)
    PROVE  IndexStep(n)
<1>1. CASE raft_recv_entry(n, v)
  BY <1>1, EntryIndex
<1>2. CASE ~ raft_recv_entry(n, v)
  <2>1. /\ UNCHANGED <<log, commit_idx, next_idx>> /\ msgs \subseteq msgs'
        /\ \A r \in msgs' \ msgs : r.type = "client"
    BY <1>2 DEF client_new_message, raft_send, logVars, peerVars
  <2> QED
    BY <2>1, QuietIndex DEF AeBounded, AckBounded
<1> QED
  BY <1>1, <1>2

LEMMA NextIndex ==
    ASSUME TypeOK, TypeOK', IndexInv, Next
    PROVE  \E n \in Node : IndexStep(n)
<1>1. PICK n \in Node : \/ raft_periodic(n)
                        \/ \E m \in msgs : Receive(n, m)
                        \/ \E v \in Value : client_new_message(n, v)
  BY DEF Next
<1>2. ASSUME NEW m \in msgs, handle_msg_client(n, m)
      PROVE  IndexStep(n)
  <2>1. m.data \in Value
    BY <1>2 DEF handle_msg_client, TypeOK, Message, RequestVote,
          RequestVoteResponse, AppendEntries, AppendEntriesResponse, ClientMessage
  <2> QED
    BY <1>2, <2>1, EntryIndex DEF handle_msg_client
<1> QED
  BY <1>1, <1>2, PeriodicIndex, RequestVoteIndex, VoteResponseIndex,
     AppendEntriesIndex, AppendResponseIndex, ClientIndex DEF Receive

LEMMA IndexInit == Init => IndexInv
BY DEF Init, IndexInv

LEMMA IndexNext ==
    ASSUME TypeOK, IndexInv, [Next]_vars
    PROVE  /\ IndexInv'
           /\ \A p \in Node : /\ commit_idx[p] <= commit_idx'[p]
                              /\ SamePrefix(log[p], log'[p], commit_idx[p])
<1>1. TypeOK'
  BY TypeStep
<1>2. CASE Next
  BY <1>1, <1>2, NextIndex, IndexStepInv
<1>3. CASE UNCHANGED vars
  <2>1. PICK n \in Node : TRUE
    OBVIOUS
  <2>2. UNCHANGED <<log, commit_idx, next_idx, msgs>>
    BY <1>3 DEF vars, logVars, peerVars
  <2>3. IndexStep(n)
    BY <2>2, QuietIndex
  <2> QED
    BY <1>1, <2>3, IndexStepInv
<1> QED
  BY <1>2, <1>3

\* A node never takes back what it knows committed, whatever packets arrive late
\* or twice and whatever a NULL read returns: raft_set_commit_idx only moves
\* forward and stays within the log, which only grows.
THEOREM CommitsStay == Spec => CommitStable
<1>1. TypeOK /\ IndexInv /\ [Next]_vars =>
          [\A n \in Node : /\ commit_idx[n] <= commit_idx'[n]
                           /\ SamePrefix(log[n], log'[n], commit_idx[n])]_vars
  BY IndexNext
<1>2. TypeOK /\ IndexInv /\ [Next]_vars => (TypeOK /\ IndexInv)'
  BY TypeStep, IndexNext
<1> QED
  BY TypeInit, IndexInit, <1>1, <1>2, PTL DEF Spec, CommitStable

-----------------------------------------------------------------------------
(* Leaders *)

\* Node l has sent heartbeats or entries in term t.
Led(l, t) == \E m \in msgs : m.type = "ae" /\ m.src = l /\ m.term = t

\* A node that leads, and one that another takes for its leader, has sent
\* packets of that term already.
LeadersHeard ==
    \A n \in Node :
        /\ state[n] = "leader" => Led(n, current_term[n]) /\ voted_for[n] = n
        /\ current_leader[n] # Nil => Led(current_leader[n], current_term[n])

\* A node that is alone sends nothing.
Alone ==
    /\ msgs = {}
    /\ \A n \in Node : current_leader[n] # Nil => state[n] = "leader"

LeaderInv == IF Cardinality(Node) = 1 THEN Alone ELSE LeadersHeard

\* What any handler of node n may do to roles in a cluster of several nodes.
LeaderStep(n) ==
    /\ \A p \in Others(n) :
          /\ current_term'[p] = current_term[p] /\ voted_for'[p] = voted_for[p]
          /\ state'[p] = state[p] /\ current_leader'[p] = current_leader[p]
    /\ msgs \subseteq msgs'
    /\ state'[n] = "leader" => Led(n, current_term[n])' /\ voted_for'[n] = n
    /\ current_leader'[n] # Nil => Led(current_leader[n], current_term[n])'

LEMMA LeaderStepInv ==
    ASSUME LeadersHeard, NEW n \in Node, LeaderStep(n)
    PROVE  LeadersHeard'
BY DEF LeadersHeard, LeaderStep, Led, Others

\* A handler that keeps the role, or gives it up.
LEMMA KeepsRole ==
    ASSUME LeadersHeard, NEW n \in Node,
           \A p \in Others(n) :
              /\ current_term'[p] = current_term[p] /\ voted_for'[p] = voted_for[p]
              /\ state'[p] = state[p] /\ current_leader'[p] = current_leader[p],
           msgs \subseteq msgs',
           state'[n] = "leader" =>
              /\ state[n] = "leader" /\ current_term'[n] = current_term[n]
              /\ voted_for'[n] = voted_for[n],
           \/ current_leader'[n] = Nil
           \/ current_leader'[n] = current_leader[n] /\ current_term'[n] = current_term[n]
           \/ \E m \in msgs : /\ m.type = "ae" /\ m.src = current_leader'[n]
                              /\ m.term = current_term'[n]
    PROVE  LeaderStep(n)
BY DEF LeadersHeard, LeaderStep, Led

LEMMA PeriodicLeader ==
    ASSUME TypeOK, LeadersHeard, Cardinality(Node) # 1, NEW n \in Node, raft_periodic(n)
    PROVE  LeaderStep(n)
<1>1. CASE raft_send_appendentries_all(n)
  BY <1>1, KeepsRole DEF raft_send_appendentries_all, raft_send, serverVars
<1>2. CASE no_timeout(n)
  BY <1>2, KeepsRole DEF no_timeout, serverVars
<1>3. CASE raft_election_start(n)
  <2>1. /\ current_term' = [current_term EXCEPT ![n] = @ + 1]
        /\ voted_for' = [voted_for EXCEPT ![n] = n]
        /\ current_leader' = [current_leader EXCEPT ![n] = Nil]
        /\ state' = [state EXCEPT ![n] = "candidate"]
        /\ msgs \subseteq msgs'
    BY <1>3 DEF raft_election_start, raft_become_candidate, raft_send
  <2>2. state'[n] = "candidate" /\ current_leader'[n] = Nil
    BY <2>1 DEF TypeOK
  <2>3. \A p \in Others(n) :
          /\ current_term'[p] = current_term[p] /\ voted_for'[p] = voted_for[p]
          /\ state'[p] = state[p] /\ current_leader'[p] = current_leader[p]
    BY <2>1 DEF TypeOK, Others
  <2> QED
    BY <2>1, <2>2, <2>3, KeepsRole
<1> QED
  BY <1>1, <1>2, <1>3 DEF raft_periodic, become_sole_leader, num_voting_nodes

LEMMA RequestVoteLeader ==
    ASSUME TypeOK, LeadersHeard, NEW n \in Node, NEW m \in msgs,
           raft_recv_requestvote(n, m)
    PROVE  LeaderStep(n)
<1> DEFINE grant == should_grant_vote(log[n], adopt_term(n, m), adopt_vote(n, m), m)
<1>1. m.term \in Nat /\ current_term[n] \in Nat
  BY TermTypes DEF raft_recv_requestvote
<1>2. /\ current_term' = [current_term EXCEPT ![n] = adopt_term(n, m)]
      /\ state' = [state EXCEPT ![n] = IF newer(n, m) THEN "follower" ELSE @]
      /\ voted_for' = [voted_for EXCEPT ![n] = IF grant THEN m.src ELSE adopt_vote(n, m)]
      /\ current_leader' = [current_leader EXCEPT ![n] =
                               IF newer(n, m) \/ grant THEN Nil ELSE @]
      /\ msgs \subseteq msgs'
  BY DEF raft_recv_requestvote, raft_send
<1>3. \A p \in Others(n) :
          /\ current_term'[p] = current_term[p] /\ voted_for'[p] = voted_for[p]
          /\ state'[p] = state[p] /\ current_leader'[p] = current_leader[p]
  BY <1>2 DEF TypeOK, Others
<1>4. /\ current_term'[n] = adopt_term(n, m)
      /\ state'[n] = IF newer(n, m) THEN "follower" ELSE state[n]
      /\ voted_for'[n] = IF grant THEN m.src ELSE adopt_vote(n, m)
      /\ current_leader'[n] = IF newer(n, m) \/ grant THEN Nil ELSE current_leader[n]
  BY <1>2 DEF TypeOK
<1>5. /\ grant => adopt_vote(n, m) = Nil
      /\ ~ newer(n, m) => adopt_term(n, m) = current_term[n] /\ adopt_vote(n, m) = voted_for[n]
  BY <1>1 DEF should_grant_vote, newer, adopt_term, adopt_vote, greater
<1>6. state[n] = "leader" => voted_for[n] # Nil
  BY DEF LeadersHeard
<1> HIDE DEF grant
<1>7. state'[n] = "leader" =>
          /\ state[n] = "leader" /\ current_term'[n] = current_term[n]
          /\ voted_for'[n] = voted_for[n]
  BY <1>4, <1>5, <1>6
<1> QED
  BY <1>2, <1>3, <1>4, <1>5, <1>7, KeepsRole

LEMMA StepDownLeader ==
    ASSUME TypeOK, LeadersHeard, NEW n \in Node, NEW m, step_down(n, m)
    PROVE  LeaderStep(n)
<1>1. /\ current_term' = [current_term EXCEPT ![n] = m.term]
      /\ voted_for' = [voted_for EXCEPT ![n] = Nil]
      /\ state' = [state EXCEPT ![n] = "follower"]
      /\ current_leader' = [current_leader EXCEPT ![n] = Nil]
      /\ UNCHANGED msgs
  BY DEF step_down
<1>2. state'[n] = "follower" /\ current_leader'[n] = Nil
  BY <1>1 DEF TypeOK
<1>3. \A p \in Others(n) :
          /\ current_term'[p] = current_term[p] /\ voted_for'[p] = voted_for[p]
          /\ state'[p] = state[p] /\ current_leader'[p] = current_leader[p]
  BY <1>1 DEF TypeOK, Others
<1> QED
  BY <1>1, <1>2, <1>3, KeepsRole

LEMMA VoteResponseLeader ==
    ASSUME TypeOK, VoteInv, LeadersHeard, Cardinality(Node) # 1, NEW n \in Node,
           NEW m \in msgs, raft_recv_requestvote_response(n, m)
    PROVE  LeaderStep(n)
<1>1. CASE step_down(n, m)
  BY <1>1, StepDownLeader
<1>2. CASE count_vote(n, m) /\ raft_become_leader(n)
  <2>1. /\ state' = [state EXCEPT ![n] = "leader"]
        /\ current_leader' = [current_leader EXCEPT ![n] = n]
        /\ UNCHANGED <<current_term, voted_for>>
        /\ msgs' = msgs \cup {msg_appendentries(n, p)' : p \in Others(n)}
    BY <1>2 DEF raft_become_leader, raft_send
  <2>2. voted_for[n] = n
    BY DEF raft_recv_requestvote_response, VoteInv, CandidateCounts
  <2>3. Led(n, current_term[n])'
    <3>1. PICK p \in Others(n) : TRUE
      BY TwoNodes
    <3>2. msg_appendentries(n, p)' \in msgs'
      BY <2>1, <3>1
    <3> QED
      BY <3>2 DEF Led, msg_appendentries
  <2>4. state'[n] = "leader" /\ current_leader'[n] = n
    BY <2>1 DEF TypeOK
  <2>5. \A p \in Others(n) :
          /\ current_term'[p] = current_term[p] /\ voted_for'[p] = voted_for[p]
          /\ state'[p] = state[p] /\ current_leader'[p] = current_leader[p]
    BY <2>1 DEF TypeOK, Others
  <2>6. Led(current_leader[n], current_term[n])'
    BY <2>3, <2>4 DEF Led
  <2> QED
    BY <2>1, <2>2, <2>3, <2>5, <2>6 DEF LeaderStep
<1>3. CASE count_vote(n, m) /\ ~ raft_become_leader(n)
  BY <1>3, KeepsRole DEF count_vote
<1> QED
  BY <1>1, <1>2, <1>3 DEF raft_recv_requestvote_response

LEMMA AppendEntriesLeader ==
    ASSUME TypeOK, TypeOK', LeadersHeard, NEW n \in Node, NEW m \in msgs,
           raft_recv_appendentries(n, m)
    PROVE  LeaderStep(n)
<1>1. msgs \subseteq msgs' /\ m.type = "ae"
  BY AppendEntriesReplies DEF raft_recv_appendentries
<1>2. CASE stale_term(n, m)
  BY <1>1, <1>2, KeepsRole DEF stale_term, serverVars
<1>3. CASE ~ stale_term(n, m)
  <2>1. /\ current_term[n] <= m.term
        /\ current_term' = [current_term EXCEPT ![n] = m.term]
        /\ voted_for' = [voted_for EXCEPT ![n] = adopt_vote(n, m)]
        /\ state' = [state EXCEPT ![n] =
                        IF newer(n, m) \/ @ = "candidate" THEN "follower" ELSE @]
        /\ current_leader' = [current_leader EXCEPT ![n] = m.src]
    BY <1>3 DEF raft_recv_appendentries
  <2>2. /\ current_term'[n] = m.term /\ voted_for'[n] = adopt_vote(n, m)
        /\ current_leader'[n] = m.src
        /\ state'[n] = IF newer(n, m) \/ state[n] = "candidate" THEN "follower"
                                                                ELSE state[n]
    BY <2>1 DEF TypeOK
  <2>3. m.term \in Nat /\ current_term[n] \in Nat
    BY <1>1, TermTypes
  <2>4. state'[n] = "leader" =>
          /\ state[n] = "leader" /\ current_term'[n] = current_term[n]
          /\ voted_for'[n] = voted_for[n]
    BY <2>1, <2>2, <2>3 DEF newer, adopt_vote
  <2>5. \A p \in Others(n) :
          /\ current_term'[p] = current_term[p] /\ voted_for'[p] = voted_for[p]
          /\ state'[p] = state[p] /\ current_leader'[p] = current_leader[p]
    BY <2>1 DEF TypeOK, Others
  <2> QED
    BY <1>1, <2>2, <2>4, <2>5, KeepsRole
<1> QED
  BY <1>2, <1>3

LEMMA QuietLeader ==
    ASSUME LeadersHeard, NEW n \in Node, msgs \subseteq msgs',
           UNCHANGED <<current_term, voted_for, state, current_leader>>
    PROVE  LeaderStep(n)
BY KeepsRole

LEMMA AppendResponseLeader ==
    ASSUME TypeOK, LeadersHeard, NEW n \in Node, NEW m \in msgs,
           raft_recv_appendentries_response(n, m)
    PROVE  LeaderStep(n)
<1>1. CASE step_down(n, m)
  BY <1>1, StepDownLeader
<1>2. CASE UNCHANGED serverVars /\ (append_failed(n, m) \/ append_succeeded(n, m))
  <2>1. msgs \subseteq msgs'
    BY <1>2 DEF append_failed, append_succeeded, raft_send
  <2> QED
    BY <1>2, <2>1, QuietLeader DEF serverVars
<1> QED
  BY <1>1, <1>2 DEF raft_recv_appendentries_response

LEMMA EntryLeader ==
    ASSUME LeadersHeard, NEW n \in Node, NEW v, raft_recv_entry(n, v)
    PROVE  LeaderStep(n)
BY QuietLeader DEF raft_recv_entry, raft_send, serverVars

LEMMA ClientLeader ==
    ASSUME LeadersHeard, NEW n \in Node, NEW v, client_new_message(n, v)
    PROVE  LeaderStep(n)
BY EntryLeader, QuietLeader DEF client_new_message, raft_send, serverVars

LEMMA NextLeader ==
    ASSUME TypeOK, TypeOK', VoteInv, LeadersHeard, Cardinality(Node) # 1, Next
    PROVE  \E n \in Node : LeaderStep(n)
BY PeriodicLeader, RequestVoteLeader, VoteResponseLeader, AppendEntriesLeader,
   AppendResponseLeader, EntryLeader, ClientLeader DEF Next, Receive, handle_msg_client

\* The only node of a cluster has no packet to receive and nobody to send one to.
LEMMA AloneStep ==
    ASSUME TypeOK, Alone, Cardinality(Node) = 1, Next
    PROVE  Alone'
<1>1. PICK x : Node = {x}
  BY FS_Singleton
<1>2. PICK n \in Node : raft_periodic(n) \/ \E v \in Value : client_new_message(n, v)
  BY DEF Next, Alone
<1>3. Others(n) = {} /\ n = x
  BY <1>1 DEF Others
<1>4. CASE raft_periodic(n)
  <2>1. CASE become_sole_leader(n)
    <3>1. UNCHANGED msgs /\ state'[n] = "leader"
      BY <2>1 DEF become_sole_leader, TypeOK
    <3> QED
      BY <1>1, <1>3, <3>1 DEF Alone
  <2>2. CASE raft_send_appendentries_all(n)
    BY <1>3, <2>2 DEF raft_send_appendentries_all, raft_send, serverVars, Alone
  <2>3. CASE no_timeout(n)
    BY <2>3 DEF no_timeout, serverVars, Alone
  <2> QED
    BY <1>4, <2>1, <2>2, <2>3 DEF raft_periodic, raft_election_start, num_voting_nodes
<1>5. CASE \E v \in Value : client_new_message(n, v)
  <2>1. PICK v \in Value : client_new_message(n, v)
    BY <1>5
  <2>2. current_leader[n] = n
    BY <1>1, <1>3, <2>1 DEF client_new_message, TypeOK
  <2>3. raft_recv_entry(n, v)
    BY <2>1, <2>2 DEF client_new_message
  <2>4. UNCHANGED <<state, current_leader>> /\ msgs' = msgs
    BY <1>3, <2>3 DEF raft_recv_entry, raft_send, serverVars
  <2> QED
    BY <2>4 DEF Alone
<1> QED
  BY <1>2, <1>4, <1>5

LEMMA LeaderInit == Init => LeaderInv
BY DEF Init, LeaderInv, Alone, LeadersHeard

LEMMA LeaderNext ==
    ASSUME ElectionInv, LeaderInv, [Next]_vars
    PROVE  LeaderInv'
<1>1. TypeOK /\ TypeOK'
  BY TypeStep DEF ElectionInv
<1>2. CASE UNCHANGED vars
  BY <1>2 DEF vars, serverVars, LeaderInv, Alone, LeadersHeard, Led
<1>3. CASE Next /\ Cardinality(Node) = 1
  BY <1>1, <1>3, AloneStep DEF LeaderInv
<1>4. CASE Next /\ Cardinality(Node) # 1
  BY <1>1, <1>4, NextLeader, LeaderStepInv DEF LeaderInv, ElectionInv
<1> QED
  BY <1>2, <1>3, <1>4

LEMMA InvLeaderKnown == TypeOK /\ LeaderInv => LeaderKnown
<1> SUFFICES ASSUME TypeOK, LeaderInv, NEW n \in Node, current_leader[n] # Nil
             PROVE  WasLeader(current_leader[n], current_term[n])
  BY DEF LeaderKnown
<1>1. CASE Cardinality(Node) = 1
  <2>1. PICK x : Node = {x}
    BY <1>1, FS_Singleton
  <2>2. current_leader[n] = n
    BY <2>1 DEF TypeOK
  <2> QED
    BY <1>1, <2>2 DEF LeaderInv, Alone, WasLeader
<1>2. CASE Cardinality(Node) # 1
  BY <1>2 DEF LeaderInv, LeadersHeard, Led, WasLeader
<1> QED
  BY <1>1, <1>2

\* Whom a client is sent to has led the present term of the node it asked: no
\* change of term leaves current_leader behind.
THEOREM LeadersKnown == Spec => []LeaderKnown
<1>1. ElectionInv /\ LeaderInv /\ [Next]_vars => (ElectionInv /\ LeaderInv)'
  BY ElectionStep, LeaderNext
<1>2. ElectionInv /\ LeaderInv => LeaderKnown
  BY InvLeaderKnown DEF ElectionInv
<1> QED
  BY ElectionInit, LeaderInit, <1>1, <1>2, PTL DEF Spec

=============================================================================
