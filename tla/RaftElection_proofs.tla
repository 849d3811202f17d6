------------------------ MODULE RaftElection_proofs ------------------------
(***************************************************************************)
(* No term has two leaders, for every cluster.                             *)
(*                                                                         *)
(* The argument follows the votes.  A vote is a packet on the air: a       *)
(* granted response, or a candidate's own request, which it sends after it *)
(* has voted for itself.  A node votes once in a term because it never     *)
(* returns to an earlier term and changes voted_for only from -1 or with a *)
(* new term; a leader has the votes of a majority; two majorities meet.    *)
(***************************************************************************)
EXTENDS RaftCluster_proofs

USE NodeAssumption, NilAssumption, BoundAssumption

-----------------------------------------------------------------------------
\* Node v has voted for c in term t.
Voted(v, t, c) ==
    \/ \E r \in msgs : /\ r.type = "rvr" /\ r.src = v /\ r.dst = c
                       /\ r.term = t /\ r.vote_granted
    \/ v = c /\ \E r \in msgs : r.type = "rv" /\ r.src = c /\ r.term = t

\* A majority has voted for n in term t.
Backed(n, t) ==
    \E Q \in SUBSET Node :
        2 * Cardinality(Q) > Cardinality(Node) /\ \A v \in Q : Voted(v, t, n)

\* The voter remembers its vote until it enters a later term.
VotesRemembered ==
    \A v, c \in Node : \A t \in Terms : Voted(v, t, c) =>
        t < current_term[v] \/ (t = current_term[v] /\ voted_for[v] = c)

VotesUnique ==
    \A v, c, d \in Node : \A t \in Terms : Voted(v, t, c) /\ Voted(v, t, d) => c = d

\* A candidate has voted for itself, and counts votes of its own term only.
CandidateCounts ==
    \A n \in Node : state[n] = "candidate" =>
        /\ voted_for[n] = n
        /\ Voted(n, current_term[n], n)
        /\ \A p \in vote_for_me[n] : Voted(p, current_term[n], n)

LeadersBacked ==
    /\ \A n \in Node : state[n] = "leader" => Backed(n, current_term[n])
    /\ \A m \in msgs : m.type = "ae" => Backed(m.src, m.term)

VoteInv == VotesRemembered /\ VotesUnique /\ CandidateCounts /\ LeadersBacked

\* The inductive invariant.  A single voting node leads without votes.
ElectionInv == TypeOK /\ (Cardinality(Node) # 1 => VoteInv)

-----------------------------------------------------------------------------
\* What any handler of node n may do to votes, terms and roles.

NewPacket(n, r) ==
    /\ r.type \in {"rv", "rvr", "ae"} => r.src = n /\ r.term = current_term'[n]
    /\ r.type = "rv" => current_term[n] < current_term'[n] /\ voted_for'[n] = n
    /\ r.type = "rvr" /\ r.vote_granted =>
          /\ voted_for'[n] = r.dst
          /\ current_term[n] < current_term'[n] \/ voted_for[n] = Nil
    /\ r.type = "ae" => state'[n] = "leader"

VoteStep(n) ==
    /\ \A p \in Others(n) :
          /\ current_term'[p] = current_term[p] /\ voted_for'[p] = voted_for[p]
          /\ state'[p] = state[p] /\ vote_for_me'[p] = vote_for_me[p]
    /\ msgs \subseteq msgs'
    /\ \A r \in msgs' : r \in msgs \/ NewPacket(n, r)
    /\ \/ current_term[n] < current_term'[n]
       \/ /\ current_term'[n] = current_term[n]
          /\ voted_for'[n] = voted_for[n] \/ voted_for[n] = Nil
    /\ state'[n] = "candidate" =>
          \/ /\ state[n] = "candidate" /\ current_term'[n] = current_term[n]
             /\ voted_for'[n] = voted_for[n]
             /\ \A p \in vote_for_me'[n] :
                   p \in vote_for_me[n] \/ Voted(p, current_term[n], n)
          \/ /\ voted_for'[n] = n /\ vote_for_me'[n] = {}
             /\ Voted(n, current_term[n], n)'
    /\ state'[n] = "leader" =>
          \/ state[n] = "leader" /\ current_term'[n] = current_term[n]
          \/ Backed(n, current_term[n]) /\ current_term'[n] = current_term[n]

-----------------------------------------------------------------------------
(* Steps of that kind keep the votes in order. *)

LEMMA VotesStay ==
    ASSUME NEW n \in Node, VoteStep(n)
    PROVE  /\ \A v, t, c : Voted(v, t, c) => Voted(v, t, c)'
           /\ \A p, t : Backed(p, t) => Backed(p, t)'
<1>1. \A v, t, c : Voted(v, t, c) => Voted(v, t, c)'
  BY DEF VoteStep, Voted
<1> QED
  BY <1>1 DEF Backed

LEMMA OneNewVote ==
    ASSUME NEW n \in Node, VoteStep(n), NEW v, NEW t, NEW c,
           Voted(v, t, c)', ~ Voted(v, t, c)
    PROVE  /\ v = n /\ t = current_term'[n] /\ c = voted_for'[n]
           /\ current_term[n] < current_term'[n] \/ voted_for[n] = Nil
<1>1. CASE \E r \in msgs' : /\ r.type = "rvr" /\ r.src = v /\ r.dst = c
                            /\ r.term = t /\ r.vote_granted
  <2>1. PICK r \in msgs' : /\ r.type = "rvr" /\ r.src = v /\ r.dst = c
                           /\ r.term = t /\ r.vote_granted
    BY <1>1
  <2>2. NewPacket(n, r)
    BY <2>1 DEF VoteStep, Voted
  <2> QED
    BY <2>1, <2>2 DEF NewPacket
<1>2. CASE v = c /\ \E r \in msgs' : r.type = "rv" /\ r.src = c /\ r.term = t
  <2>1. PICK r \in msgs' : r.type = "rv" /\ r.src = c /\ r.term = t
    BY <1>2
  <2>2. NewPacket(n, r)
    BY <1>2, <2>1 DEF VoteStep, Voted
  <2> QED
    BY <1>2, <2>1, <2>2 DEF NewPacket
<1> QED
  BY <1>1, <1>2 DEF Voted

LEMMA VoteStepInv ==
    ASSUME TypeOK, TypeOK', VoteInv, NEW n \in Node, VoteStep(n)
    PROVE  VoteInv'
<1>1. \A p \in Node : current_term[p] \in Int /\ current_term'[p] \in Int
  BY DEF TypeOK, Terms
<1>2. \A p \in Node : p # n =>
         /\ current_term'[p] = current_term[p] /\ voted_for'[p] = voted_for[p]
         /\ state'[p] = state[p] /\ vote_for_me'[p] = vote_for_me[p]
  BY DEF VoteStep, Others
<1>3. VotesRemembered'
  <2> SUFFICES ASSUME NEW v \in Node, NEW c \in Node, NEW t \in Terms,
                      Voted(v, t, c)'
               PROVE  t < current_term'[v] \/ (t = current_term'[v] /\ voted_for'[v] = c)
    BY DEF VotesRemembered
  <2>1. CASE Voted(v, t, c)
    <3>1. t < current_term[v] \/ (t = current_term[v] /\ voted_for[v] = c)
      BY <2>1 DEF VoteInv, VotesRemembered
    <3>2. CASE v = n
      <4>1. t \in Int
        BY DEF Terms
      <4> QED
        BY <1>1, <3>1, <3>2, <4>1 DEF VoteStep
    <3> QED
      BY <1>2, <3>1, <3>2
  <2>2. CASE ~ Voted(v, t, c)
    BY <2>2, OneNewVote
  <2> QED
    BY <2>1, <2>2
<1>4. VotesUnique'
  <2>1. ASSUME NEW v \in Node, NEW c \in Node, NEW d \in Node, NEW t \in Terms,
               Voted(v, t, c), Voted(v, t, d)', ~ Voted(v, t, d)
        PROVE  c = d
    <3>1. /\ v = n /\ t = current_term'[n]
          /\ current_term[n] < current_term'[n] \/ voted_for[n] = Nil
      BY <2>1, OneNewVote
    <3>2. t < current_term[v] \/ (t = current_term[v] /\ voted_for[v] = c)
      BY <2>1 DEF VoteInv, VotesRemembered
    <3> QED
      BY <1>1, <3>1, <3>2 DEF VoteStep
  <2> SUFFICES ASSUME NEW v \in Node, NEW c \in Node, NEW d \in Node, NEW t \in Terms,
                      Voted(v, t, c)', Voted(v, t, d)'
               PROVE  c = d
    BY DEF VotesUnique
  <2>2. CASE Voted(v, t, c) /\ Voted(v, t, d)
    BY <2>2 DEF VoteInv, VotesUnique
  <2>3. CASE ~ Voted(v, t, c) /\ ~ Voted(v, t, d)
    BY <2>3, OneNewVote
  <2> QED
    BY <2>1, <2>2, <2>3
<1>5. CandidateCounts'
  <2> SUFFICES ASSUME NEW p \in Node, state'[p] = "candidate"
               PROVE  /\ voted_for'[p] = p
                      /\ Voted(p, current_term[p], p)'
                      /\ \A q \in vote_for_me'[p] : Voted(q, current_term[p], p)'
    BY DEF CandidateCounts
  <2>1. ASSUME state[p] = "candidate", current_term'[p] = current_term[p],
               voted_for'[p] = voted_for[p],
               \A q \in vote_for_me'[p] :
                   q \in vote_for_me[p] \/ Voted(q, current_term[p], p)
        PROVE  /\ voted_for'[p] = p
               /\ Voted(p, current_term[p], p)'
               /\ \A q \in vote_for_me'[p] : Voted(q, current_term[p], p)'
    <3>1. /\ voted_for[p] = p /\ Voted(p, current_term[p], p)
          /\ \A q \in vote_for_me'[p] : Voted(q, current_term[p], p)
      BY <2>1 DEF VoteInv, CandidateCounts
    <3> DEFINE t == current_term[p]
    <3>2. Voted(p, t, p) /\ \A q \in vote_for_me'[p] : Voted(q, t, p)
      BY <3>1
    <3>3. t' = t
      BY <2>1
    <3>4. /\ \E r \in msgs' : \/ /\ r.type = "rvr" /\ r.src = p /\ r.dst = p
                                 /\ r.term = t /\ r.vote_granted
                              \/ r.type = "rv" /\ r.src = p /\ r.term = t
          /\ \A q \in vote_for_me'[p] :
                \/ \E r \in msgs' : /\ r.type = "rvr" /\ r.src = q /\ r.dst = p
                                    /\ r.term = t /\ r.vote_granted
                \/ q = p /\ \E r \in msgs' : r.type = "rv" /\ r.src = p /\ r.term = t
      BY <3>2 DEF Voted, VoteStep
    <3> QED
      BY <2>1, <3>1, <3>3, <3>4 DEF Voted
  <2>2. CASE p # n
    BY <1>2, <2>1, <2>2
  <2>3. CASE p = n
    BY <2>1, <2>3 DEF VoteStep
  <2> QED
    BY <2>2, <2>3
<1>6. LeadersBacked'
  <2>1. ASSUME NEW p \in Node, state'[p] = "leader"
        PROVE  Backed(p, current_term[p])'
    <3>1. Backed(p, current_term[p]) /\ current_term'[p] = current_term[p]
      BY <1>2, <2>1 DEF VoteInv, LeadersBacked, VoteStep
    <3>2. PICK Q \in SUBSET Node : /\ 2 * Cardinality(Q) > Cardinality(Node)
                                   /\ \A v \in Q : Voted(v, current_term[p], p)
      BY <3>1 DEF Backed
    <3>3. \A v \in Q : Voted(v, current_term[p], p)'
      BY <3>1, <3>2 DEF Voted, VoteStep
    <3> QED
      BY <3>2, <3>3 DEF Backed
  <2>2. ASSUME NEW m \in msgs', m.type = "ae"
        PROVE  Backed(m.src, m.term)'
    <3>1. CASE m \in msgs
      <4>1. Backed(m.src, m.term)
        BY <2>2, <3>1 DEF VoteInv, LeadersBacked
      <4> QED
        BY <4>1, VotesStay
    <3>2. CASE m \notin msgs
      <4>1. state'[n] = "leader" /\ m.src = n /\ m.term = current_term'[n]
        BY <2>2, <3>2 DEF VoteStep, NewPacket
      <4> QED
        BY <2>1, <4>1
    <3> QED
      BY <3>1, <3>2
  <2> QED
    BY <2>1, <2>2 DEF LeadersBacked
<1> QED
  BY <1>3, <1>4, <1>5, <1>6 DEF VoteInv

-----------------------------------------------------------------------------
(* Every handler is a step of that kind. *)

\* A handler that keeps terms, votes and roles, and sends no more than a leader's
\* packets and refusals.
LEMMA QuietStep ==
    ASSUME TypeOK, NEW n \in Node,
           UNCHANGED <<current_term, voted_for, state, vote_for_me>>,
           msgs \subseteq msgs',
           \A r \in msgs' \ msgs :
               \/ r.type \in {"client", "aer"}
               \/ /\ r.type = "ae" /\ r.src = n /\ r.term = current_term[n]
                  /\ state[n] = "leader"
    PROVE  VoteStep(n)
<1>1. \A r \in msgs' : r \in msgs \/ NewPacket(n, r)
  BY DEF NewPacket
<1> QED
  BY <1>1 DEF VoteStep

LEMMA TwoNodes ==
    ASSUME NEW n \in Node, Cardinality(Node) # 1
    PROVE  Others(n) # {}
<1>1. Node # {n}
  BY FS_Singleton
<1> QED
  BY <1>1 DEF Others

LEMMA PeriodicVotes ==
    ASSUME TypeOK, TypeOK', VoteInv, Cardinality(Node) # 1, NEW n \in Node,
           raft_periodic(n)
    PROVE  VoteStep(n)
<1>1. CASE raft_send_appendentries_all(n)
  <2>1. UNCHANGED <<current_term, voted_for, state, vote_for_me>>
    BY <1>1 DEF raft_send_appendentries_all, serverVars
  <2>2. \A r \in msgs' \ msgs :
            /\ r.type = "ae" /\ r.src = n /\ r.term = current_term[n]
            /\ state[n] = "leader"
    BY <1>1, <2>1 DEF raft_send_appendentries_all, raft_send, msg_appendentries
  <2>3. msgs \subseteq msgs'
    BY <1>1 DEF raft_send_appendentries_all, raft_send
  <2> QED
    BY <2>1, <2>2, <2>3, QuietStep
<1>2. CASE no_timeout(n)
  BY <1>2, QuietStep DEF no_timeout, serverVars
<1>3. CASE raft_election_start(n)
  <2>1. /\ current_term' = [current_term EXCEPT ![n] = @ + 1]
        /\ vote_for_me' = [vote_for_me EXCEPT ![n] = {}]
        /\ voted_for' = [voted_for EXCEPT ![n] = n]
        /\ state' = [state EXCEPT ![n] = "candidate"]
        /\ msgs' = msgs \cup {msg_requestvote(n, m)' : m \in Others(n)}
    BY <1>3 DEF raft_election_start, raft_become_candidate, raft_send
  <2>2. /\ current_term'[n] = current_term[n] + 1 /\ current_term[n] \in Int
        /\ vote_for_me'[n] = {} /\ voted_for'[n] = n /\ state'[n] = "candidate"
    BY <2>1 DEF TypeOK, Terms
  <2>3. \A r \in msgs' \ msgs :
            r.type = "rv" /\ r.src = n /\ r.term = current_term'[n]
    BY <2>1 DEF msg_requestvote
  <2>4. \A r \in msgs' : r \in msgs \/ NewPacket(n, r)
    BY <2>2, <2>3 DEF NewPacket
  <2>5. Voted(n, current_term[n], n)'
    <3>1. PICK m \in Others(n) : TRUE
      BY TwoNodes
    <3>2. msg_requestvote(n, m)' \in msgs'
      BY <2>1, <3>1
    <3> QED
      BY <3>2 DEF Voted, msg_requestvote
  <2>6. \A p \in Others(n) :
          /\ current_term'[p] = current_term[p] /\ voted_for'[p] = voted_for[p]
          /\ state'[p] = state[p] /\ vote_for_me'[p] = vote_for_me[p]
    BY <2>1 DEF TypeOK, Others
  <2>7. msgs \subseteq msgs'
    BY <2>1
  <2>8. current_term[n] < current_term'[n]
    BY <2>2
  <2> QED
    BY <2>2, <2>4, <2>5, <2>6, <2>7, <2>8 DEF VoteStep
<1> QED
  BY <1>1, <1>2, <1>3 DEF raft_periodic, become_sole_leader, num_voting_nodes

LEMMA RequestVoteVotes ==
    ASSUME TypeOK, TypeOK', VoteInv, NEW n \in Node, NEW m \in msgs,
           raft_recv_requestvote(n, m)
    PROVE  VoteStep(n)
<1> DEFINE grant == should_grant_vote(log[n], adopt_term(n, m), adopt_vote(n, m), m)
           vote  == [type |-> "rvr", src |-> n, dst |-> m.src,
                     term |-> adopt_term(n, m), vote_granted |-> grant]
<1>1. m \in RequestVote
  BY DEF TypeOK, raft_recv_requestvote, Message, RequestVote, RequestVoteResponse,
         AppendEntries, AppendEntriesResponse, ClientMessage
<1>2. m.term \in Int /\ current_term[n] \in Int
  BY <1>1 DEF RequestVote, TypeOK, Terms
<1>3. /\ current_term' = [current_term EXCEPT ![n] = adopt_term(n, m)]
      /\ state' = [state EXCEPT ![n] = IF newer(n, m) THEN "follower" ELSE @]
      /\ voted_for' = [voted_for EXCEPT ![n] = IF grant THEN m.src ELSE adopt_vote(n, m)]
      /\ UNCHANGED vote_for_me
      /\ msgs' = msgs \cup {vote}
  BY DEF raft_recv_requestvote, raft_send
<1>4. /\ current_term'[n] = adopt_term(n, m)
      /\ state'[n] = IF newer(n, m) THEN "follower" ELSE state[n]
      /\ voted_for'[n] = IF grant THEN m.src ELSE adopt_vote(n, m)
      /\ vote_for_me'[n] = vote_for_me[n]
  BY <1>3 DEF TypeOK
<1>5. /\ newer(n, m) => current_term[n] < adopt_term(n, m) /\ adopt_vote(n, m) = Nil
      /\ ~ newer(n, m) => /\ adopt_term(n, m) = current_term[n]
                          /\ adopt_vote(n, m) = voted_for[n]
  BY <1>2 DEF newer, adopt_term, adopt_vote, greater
<1>6. grant => adopt_vote(n, m) = Nil
  BY DEF should_grant_vote
<1> HIDE DEF grant
<1>7. NewPacket(n, vote)
  BY <1>4, <1>5, <1>6 DEF NewPacket
<1>8. \A r \in msgs' : r \in msgs \/ NewPacket(n, r)
  BY <1>3, <1>7
<1>9. \A p \in Others(n) :
          /\ current_term'[p] = current_term[p] /\ voted_for'[p] = voted_for[p]
          /\ state'[p] = state[p] /\ vote_for_me'[p] = vote_for_me[p]
  BY <1>3 DEF TypeOK, Others
<1>10. CASE newer(n, m)
  BY <1>3, <1>4, <1>5, <1>8, <1>9, <1>10 DEF VoteStep
<1>11. CASE ~ newer(n, m)
  <2>1. state[n] = "candidate" => voted_for[n] # Nil
    BY DEF VoteInv, CandidateCounts
  <2>2. state'[n] = "candidate" => voted_for'[n] = voted_for[n]
    BY <1>4, <1>5, <1>6, <1>11, <2>1
  <2>3. /\ current_term'[n] = current_term[n]
        /\ voted_for'[n] = voted_for[n] \/ voted_for[n] = Nil
    BY <1>4, <1>5, <1>6, <1>11
  <2> QED
    BY <1>3, <1>4, <1>8, <1>9, <1>11, <2>2, <2>3 DEF VoteStep
<1> QED
  BY <1>10, <1>11

LEMMA StepDownVotes ==
    ASSUME TypeOK, NEW n \in Node, NEW m, m.term \in Terms, step_down(n, m)
    PROVE  VoteStep(n)
<1>1. /\ current_term' = [current_term EXCEPT ![n] = m.term]
      /\ voted_for' = [voted_for EXCEPT ![n] = Nil]
      /\ state' = [state EXCEPT ![n] = "follower"]
      /\ UNCHANGED <<vote_for_me, msgs>>
      /\ current_term[n] < m.term
  BY DEF step_down, newer
<1>2. \A p \in Others(n) :
          /\ current_term'[p] = current_term[p] /\ voted_for'[p] = voted_for[p]
          /\ state'[p] = state[p] /\ vote_for_me'[p] = vote_for_me[p]
  BY <1>1 DEF TypeOK, Others
<1>3. current_term[n] < current_term'[n] /\ state'[n] = "follower"
  BY <1>1 DEF TypeOK
<1> QED
  BY <1>1, <1>2, <1>3 DEF VoteStep

\* The majority that raft_votes_is_majority sees is a majority of voters.
LEMMA CountedVotes ==
    ASSUME TypeOK, VoteInv, NEW n \in Node, NEW m \in msgs,
           m \in RequestVoteResponse, m.dst = n,
           m.term = current_term[n], m.vote_granted, state[n] = "candidate",
           raft_votes_is_majority(
               raft_get_nvotes_for_me(n, vote_for_me[n] \cup {m.src}))
    PROVE  \E Q \in SUBSET Node :
               /\ 2 * Cardinality(Q) > Cardinality(Node)
               /\ \A v \in Q : Voted(v, current_term[n], n)
<1> DEFINE F == (vote_for_me[n] \cup {m.src}) \ {n}
           Q == F \cup {n}
<1>1. Q \in SUBSET Node /\ F \in SUBSET Node
  <2>1. m.src \in Node
    BY DEF RequestVoteResponse
  <2> QED
    BY <2>1 DEF TypeOK
<1>2. IsFiniteSet(F)
  BY <1>1, FS_Subset
<1>3. Cardinality(Q) = Cardinality(F) + 1
  BY <1>2, FS_AddElement
<1>4. Cardinality(F) \in Nat /\ Cardinality(Node) \in Nat
  BY <1>2, FS_CardinalityType
<1>5. raft_get_nvotes_for_me(n, vote_for_me[n] \cup {m.src}) = Cardinality(F) + 1
  BY DEF VoteInv, CandidateCounts, raft_get_nvotes_for_me
<1>6. Cardinality(Node) \div 2 + 1 <= Cardinality(F) + 1
  BY <1>5 DEF raft_votes_is_majority, num_voting_nodes
<1>7. 2 * Cardinality(Q) > Cardinality(Node)
  <2> DEFINE a == Cardinality(F)
             b == Cardinality(Node)
  <2>1. a \in Nat /\ b \in Nat /\ b \div 2 + 1 <= a + 1
    BY <1>4, <1>6
  <2> HIDE DEF a, b
  <2>2. 2 * (a + 1) > b
    BY <2>1
  <2> QED
    BY <1>3, <2>2 DEF a, b
<1>8. ASSUME NEW v \in Q
      PROVE  Voted(v, current_term[n], n)
  <2>1. CASE v = m.src
    BY <2>1 DEF Voted, RequestVoteResponse
  <2>2. CASE v = n \/ v \in vote_for_me[n]
    BY <2>2 DEF VoteInv, CandidateCounts
  <2> QED
    BY <2>1, <2>2
<1> QED
  BY <1>1, <1>7, <1>8

LEMMA VoteResponseVotes ==
    ASSUME TypeOK, TypeOK', VoteInv, NEW n \in Node, NEW m \in msgs,
           raft_recv_requestvote_response(n, m)
    PROVE  VoteStep(n)
<1>1. m \in RequestVoteResponse
  BY DEF TypeOK, raft_recv_requestvote_response, Message, RequestVote,
         RequestVoteResponse, AppendEntries, AppendEntriesResponse, ClientMessage
<1>2. m.term \in Terms
  BY <1>1 DEF RequestVoteResponse
<1>3. CASE step_down(n, m)
  BY <1>2, <1>3, StepDownVotes
<1>4. CASE count_vote(n, m)
  <2> DEFINE flags == vote_for_me[n] \cup {m.src}
  <2>1. /\ current_term[n] = m.term /\ m.vote_granted /\ m.type = "rvr" /\ m.dst = n
        /\ state[n] = "candidate"
        /\ vote_for_me' = [vote_for_me EXCEPT ![n] = flags]
        /\ UNCHANGED <<current_term, voted_for>>
    BY <1>4 DEF count_vote, raft_become_leader, raft_recv_requestvote_response
  <2>2. CASE raft_votes_is_majority(raft_get_nvotes_for_me(n, flags))
    <3>1. /\ state' = [state EXCEPT ![n] = "leader"]
          /\ msgs' = msgs \cup {msg_appendentries(n, p)' : p \in Others(n)}
      BY <1>4, <2>2 DEF count_vote, raft_become_leader, raft_send
    <3>2. Backed(n, current_term[n])
      BY <1>1, <2>1, <2>2, CountedVotes DEF Backed
    <3>3. \A p \in Others(n) :
              /\ current_term'[p] = current_term[p] /\ voted_for'[p] = voted_for[p]
              /\ state'[p] = state[p] /\ vote_for_me'[p] = vote_for_me[p]
      BY <2>1, <3>1 DEF TypeOK, Others
    <3>4. state'[n] = "leader"
      BY <3>1 DEF TypeOK
    <3>5. \A r \in msgs' \ msgs :
              r.type = "ae" /\ r.src = n /\ r.term = current_term'[n]
      BY <3>1 DEF msg_appendentries
    <3>6. \A r \in msgs' : r \in msgs \/ NewPacket(n, r)
      BY <3>4, <3>5 DEF NewPacket
    <3> QED
      BY <2>1, <3>1, <3>2, <3>3, <3>4, <3>6 DEF VoteStep
  <2>3. CASE UNCHANGED <<state, msgs>>
    <3>1. \A p \in Others(n) :
              /\ current_term'[p] = current_term[p] /\ voted_for'[p] = voted_for[p]
              /\ state'[p] = state[p] /\ vote_for_me'[p] = vote_for_me[p]
      BY <2>1, <2>3 DEF TypeOK, Others
    <3>2. vote_for_me'[n] = vote_for_me[n] \cup {m.src}
      BY <2>1 DEF TypeOK
    <3>3. Voted(m.src, current_term[n], n)
      BY <2>1 DEF Voted
    <3> QED
      BY <2>1, <2>3, <3>1, <3>2, <3>3 DEF VoteStep
  <2> QED
    BY <1>4, <2>2, <2>3 DEF count_vote
<1> QED
  BY <1>3, <1>4 DEF raft_recv_requestvote_response

\* However raft_recv_appendentries deals with the entries, it sends a reply or
\* nothing.
LEMMA AppendEntriesReplies ==
    ASSUME NEW n \in Node, NEW m \in msgs, raft_recv_appendentries(n, m)
    PROVE  msgs \subseteq msgs' /\ \A r \in msgs' \ msgs : r.type = "aer"
<1>1. ASSUME NEW success, NEW idx, reply(n, m, success, idx)
      PROVE  msgs \subseteq msgs' /\ \A r \in msgs' \ msgs : r.type = "aer"
  BY <1>1 DEF reply, raft_send
<1>2. ASSUME NEW success, NEW idx, failed_assert(n, m, success, idx)
      PROVE  msgs \subseteq msgs' /\ \A r \in msgs' \ msgs : r.type = "aer"
  BY <1>1, <1>2 DEF failed_assert
<1>3. CASE stale_term(n, m)
  BY <1>1, <1>3 DEF stale_term
<1>4. CASE no_prev_entry(n, m)
  BY <1>1, <1>4 DEF no_prev_entry
<1>5. CASE prev_conflict(n, m)
  BY <1>2, <1>5 DEF prev_conflict
<1>6. CASE entry_conflict(n, m)
  BY <1>2, <1>6 DEF entry_conflict
<1>7. CASE append_first(n, m)
  BY <1>1, <1>7 DEF append_first
<1>8. CASE batch_cut_short(n, m)
  BY <1>1, <1>8 DEF batch_cut_short
<1>9. CASE all_present(n, m)
  BY <1>1, <1>9 DEF all_present
<1>10. CASE null_entry(n, m)
  <2>1. \/ UNCHANGED msgs
        \/ \E success, idx : reply(n, m, success, idx)
        \/ \E success, idx : failed_assert(n, m, success, idx)
    BY <1>10, Zenon DEF null_entry
  <2> QED
    BY <1>1, <1>2, <2>1
<1> QED
  BY <1>3, <1>4, <1>5, <1>6, <1>7, <1>8, <1>9, <1>10 DEF raft_recv_appendentries

LEMMA AppendEntriesVotes ==
    ASSUME TypeOK, TypeOK', VoteInv, NEW n \in Node, NEW m \in msgs,
           raft_recv_appendentries(n, m)
    PROVE  VoteStep(n)
<1>1. msgs \subseteq msgs' /\ \A r \in msgs' \ msgs : r.type = "aer"
  BY AppendEntriesReplies
<1>2. \A r \in msgs' : r \in msgs \/ NewPacket(n, r)
  BY <1>1 DEF NewPacket
<1>3. CASE stale_term(n, m)
  BY <1>1, <1>3, QuietStep DEF stale_term, serverVars
<1>4. CASE ~ stale_term(n, m)
  <2>1. /\ current_term[n] <= m.term
        /\ current_term' = [current_term EXCEPT ![n] = m.term]
        /\ voted_for' = [voted_for EXCEPT ![n] = adopt_vote(n, m)]
        /\ state' = [state EXCEPT ![n] =
                        IF newer(n, m) \/ @ = "candidate" THEN "follower" ELSE @]
        /\ UNCHANGED vote_for_me
    BY <1>4 DEF raft_recv_appendentries
  <2>2. /\ current_term'[n] = m.term /\ voted_for'[n] = adopt_vote(n, m)
        /\ state'[n] = IF newer(n, m) \/ state[n] = "candidate" THEN "follower"
                                                                ELSE state[n]
    BY <2>1 DEF TypeOK
  <2>3. m.term \in Int /\ current_term[n] \in Int
    <3>1. current_term'[n] \in Terms /\ current_term[n] \in Terms
      BY DEF TypeOK
    <3> QED
      BY <2>2, <3>1 DEF Terms
  <2>4. \/ current_term[n] < current_term'[n]
        \/ current_term'[n] = current_term[n] /\ voted_for'[n] = voted_for[n]
    BY <2>1, <2>2, <2>3 DEF newer, adopt_vote
  <2>5. /\ state'[n] # "candidate"
        /\ state'[n] = "leader" =>
              state[n] = "leader" /\ current_term'[n] = current_term[n]
    BY <2>1, <2>2, <2>3 DEF newer
  <2>6. \A p \in Others(n) :
            /\ current_term'[p] = current_term[p] /\ voted_for'[p] = voted_for[p]
            /\ state'[p] = state[p] /\ vote_for_me'[p] = vote_for_me[p]
    BY <2>1 DEF TypeOK, Others
  <2> QED
    BY <1>1, <1>2, <2>4, <2>5, <2>6 DEF VoteStep
<1> QED
  BY <1>3, <1>4

LEMMA AppendResponseVotes ==
    ASSUME TypeOK, TypeOK', VoteInv, NEW n \in Node, NEW m \in msgs,
           raft_recv_appendentries_response(n, m)
    PROVE  VoteStep(n)
<1>1. m \in AppendEntriesResponse
  BY DEF TypeOK, raft_recv_appendentries_response, Message, RequestVote,
         RequestVoteResponse, AppendEntries, AppendEntriesResponse, ClientMessage
<1>2. m.term \in Terms
  BY <1>1 DEF AppendEntriesResponse
<1>3. CASE step_down(n, m)
  BY <1>2, <1>3, StepDownVotes
<1>4. CASE /\ UNCHANGED <<serverVars, log, last_applied_idx, down>>
           /\ append_failed(n, m) \/ append_succeeded(n, m)
  <2>1. /\ UNCHANGED <<current_term, voted_for, state, vote_for_me>>
        /\ state[n] = "leader"
    BY <1>4 DEF serverVars, raft_recv_appendentries_response
  <2>2. msgs' = msgs \cup {msg_appendentries(n, m.src)'} \/ UNCHANGED msgs
    BY <1>4 DEF append_failed, append_succeeded, raft_send
  <2>3. \A r \in msgs' \ msgs :
            r.type = "ae" /\ r.src = n /\ r.term = current_term[n]
    BY <2>1, <2>2 DEF msg_appendentries
  <2> QED
    BY <2>1, <2>2, <2>3, QuietStep
<1> QED
  BY <1>3, <1>4 DEF raft_recv_appendentries_response

LEMMA EntryVotes ==
    ASSUME TypeOK, NEW n \in Node, NEW v, raft_recv_entry(n, v)
    PROVE  VoteStep(n)
<1>1. /\ UNCHANGED <<current_term, voted_for, state, vote_for_me>>
      /\ state[n] = "leader"
  BY DEF raft_recv_entry, serverVars
<1>2. \A r \in msgs' \ msgs :
          r.type = "ae" /\ r.src = n /\ r.term = current_term[n]
  BY <1>1 DEF raft_recv_entry, raft_send, msg_appendentries
<1>3. msgs \subseteq msgs'
  BY DEF raft_recv_entry, raft_send
<1> QED
  BY <1>1, <1>2, <1>3, QuietStep

LEMMA ClientVotes ==
    ASSUME TypeOK, NEW n \in Node, NEW v, client_new_message(n, v)
    PROVE  VoteStep(n)
<1>1. CASE raft_recv_entry(n, v)
  BY <1>1, EntryVotes
<1>2. CASE ~ raft_recv_entry(n, v)
  BY <1>2, QuietStep DEF client_new_message, raft_send, serverVars
<1> QED
  BY <1>1, <1>2

-----------------------------------------------------------------------------
(* The theorem *)

LEMMA ElectionInit == Init => ElectionInv
<1>1. Init => VoteInv
  BY DEF Init, VoteInv, VotesRemembered, VotesUnique, CandidateCounts,
         LeadersBacked, Voted
<1> QED
  BY <1>1, TypeInit DEF ElectionInv

LEMMA ElectionStep ==
    ASSUME ElectionInv, [Next]_vars
    PROVE  ElectionInv'
<1>1. TypeOK /\ TypeOK'
  BY TypeStep DEF ElectionInv
<1>2. ASSUME Cardinality(Node) # 1
      PROVE  VoteInv'
  <2>1. VoteInv
    BY <1>2 DEF ElectionInv
  <2>2. CASE UNCHANGED vars
    BY <2>1, <2>2 DEF vars, serverVars, VoteInv, VotesRemembered, VotesUnique,
          CandidateCounts, LeadersBacked, Backed, Voted
  <2>3. CASE Next
    <3>1. PICK n \in Node :
              \/ raft_periodic(n)
              \/ \E m \in msgs : Receive(n, m)
              \/ \E v \in Value : client_new_message(n, v)
      BY <2>3 DEF Next
    <3>2. VoteStep(n)
      BY <1>1, <1>2, <2>1, <3>1, PeriodicVotes, RequestVoteVotes, VoteResponseVotes,
         AppendEntriesVotes, AppendResponseVotes, EntryVotes, ClientVotes
         DEF Receive, handle_msg_client
    <3> QED
      BY <1>1, <2>1, <3>2, VoteStepInv
  <2> QED
    BY <2>2, <2>3
<1> QED
  BY <1>1, <1>2 DEF ElectionInv

LEMMA InvElectionSafety == ElectionInv => ElectionSafety
<1> SUFFICES ASSUME ElectionInv, NEW a \in Node, NEW b \in Node, NEW t \in Terms,
                    WasLeader(a, t), WasLeader(b, t)
             PROVE  a = b
  BY DEF ElectionSafety
<1>1. CASE Cardinality(Node) = 1
  <2>1. PICK x : Node = {x}
    BY <1>1, FS_Singleton
  <2> QED
    BY <2>1
<1>2. CASE Cardinality(Node) # 1
  <2>1. VoteInv
    BY <1>2 DEF ElectionInv
  <2>2. Backed(a, t) /\ Backed(b, t)
    BY <2>1 DEF VoteInv, LeadersBacked, WasLeader
  <2>3. PICK Q \in SUBSET Node : /\ 2 * Cardinality(Q) > Cardinality(Node)
                                 /\ \A v \in Q : Voted(v, t, a)
    BY <2>2 DEF Backed
  <2>4. PICK R \in SUBSET Node : /\ 2 * Cardinality(R) > Cardinality(Node)
                                 /\ \A v \in R : Voted(v, t, b)
    BY <2>2 DEF Backed
  <2>5. Q \cap R # {}
    <3>1. IsFiniteSet(Q) /\ IsFiniteSet(R)
      BY FS_Subset
    <3>2. /\ Cardinality(Q) \in Nat /\ Cardinality(R) \in Nat
          /\ Cardinality(Node) \in Nat
      BY <3>1, FS_CardinalityType
    <3>3. Cardinality(Q) + Cardinality(R) > Cardinality(Node)
      BY <2>3, <2>4, <3>2
    <3> QED
      BY <3>3, FS_MajoritiesIntersect
  <2> QED
    BY <2>1, <2>3, <2>4, <2>5 DEF VoteInv, VotesUnique
<1> QED
  BY <1>1, <1>2

\* No term ever has two leaders, whatever the number of nodes and however vote
\* requests, votes and heartbeats are lost, delayed, reordered or repeated.
THEOREM ElectionSafe == Spec => []ElectionSafety
<1>1. ElectionInv /\ [Next]_vars => ElectionInv'
  BY ElectionStep
<1> QED
  BY ElectionInit, <1>1, InvElectionSafety, PTL DEF Spec

=============================================================================
