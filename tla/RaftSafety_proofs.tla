------------------------- MODULE RaftSafety_proofs -------------------------
(***************************************************************************)
(* Logs and commits, for every cluster.                                    *)
(*                                                                         *)
(* An entry is chosen when its leader has appended it in its own term and  *)
(* a majority has acknowledged it to that leader.  Acknowledgements and    *)
(* votes are packets on the air, and logs never shrink, so a chosen entry  *)
(* stays chosen.  A candidate that wins a later term has the vote of one   *)
(* of the nodes that stored the entry, and that node compared logs: the    *)
(* candidate has the entry, or a later one of a leader that has it.        *)
(***************************************************************************)
EXTENDS RaftIndex_proofs, WellFoundedInduction

USE NodeAssumption, NilAssumption, BoundAssumption

-----------------------------------------------------------------------------
\* v has told l, as the leader of term t, that it stores l's first i entries.
Ack(v, l, t, i) ==
    \E a \in msgs : /\ a.type = "aer" /\ a.success /\ a.src = v /\ a.dst = l
                    /\ a.term = t /\ i <= a.current_idx

Stored(v, l, t, i) == v = l \/ Ack(v, l, t, i)

\* Entry i of node l is one that l has appended as the leader of term t.
LedEntry(l, t, i) == Led(l, t) /\ i \in 1 .. Len(log[l]) /\ log[l][i].term = t

Chosen(l, t, i) ==
    /\ LedEntry(l, t, i)
    /\ \E Q \in SUBSET Node : /\ 2 * Cardinality(Q) > Cardinality(Node)
                              /\ \A v \in Q : Stored(v, l, t, i)

\* The first c entries of lg were chosen in term t or before.
Committed(lg, t, c) ==
    \/ c = 0
    \/ \E l \in Node : \E u \in Terms : \E i \in Nat :
          Chosen(l, u, i) /\ u <= t /\ c <= i /\ SamePrefix(lg, log[l], c)

\* The log that q tells of is not behind an entry i of term u.
UpToDate(q, u, i) ==
    \/ u < q.last_log_term
    \/ u = q.last_log_term /\ i <= q.last_log_idx

-----------------------------------------------------------------------------
\* Terms do not decrease along a log, nor exceed the node's own.
LogTerms ==
    \A n \in Node : \A i \in 1 .. Len(log[n]) :
        /\ log[n][i].term <= current_term[n]
        /\ \A j \in 1 .. i : log[n][j].term <= log[n][i].term

\* Every log up to any of its entries is a prefix of the log of the leader that
\* appended the entry.
EntryOrigin ==
    \A n \in Node : \A i \in 1 .. Len(log[n]) :
        \E l \in Node : Led(l, log[n][i].term) /\ SamePrefix(log[n], log[l], i)

\* What packets say remains true of the logs, which only grow.
AeTrue(m) ==
    m.type = "ae" =>
        /\ m.src # m.dst
        /\ m.prev_log_term = term_at(log[m.src], m.prev_log_idx)
        /\ \A k \in 1 .. Len(m.entries) : m.entries[k] = log[m.src][m.prev_log_idx + k]
        /\ \A j \in 1 .. last_idx(m) : log[m.src][j].term <= m.term
        /\ Committed(log[m.src], m.term, m.leader_commit)

AckTrue(m) ==
    m.type = "aer" =>
        /\ m.src # m.dst
        /\ m.success => /\ Led(m.dst, m.term)
                        /\ SamePrefix(log[m.dst], log[m.src], m.current_idx)

RvTrue(m) ==
    m.type = "rv" =>
        /\ m.last_log_idx <= Len(log[m.src])
        /\ m.last_log_term = term_at(log[m.src], m.last_log_idx)
        /\ m.last_log_term < m.term

PacketsTrue == \A m \in msgs : AeTrue(m) /\ AckTrue(m) /\ RvTrue(m)

\* v has stored nothing of a leader before term t that the log of candidate c,
\* as c told of it, is behind.
Informed(v, t, c) ==
    \E q \in msgs :
        /\ q.type = "rv" /\ q.src = c /\ q.term = t
        /\ \A l \in Node : \A u \in Terms : \A i \in Nat :
              u < t /\ LedEntry(l, u, i) /\ Stored(v, l, u, i) => UpToDate(q, u, i)

VotesInformed ==
    \A v, c \in Node : \A t \in Terms : Voted(v, t, c) => Informed(v, t, c)

\* A leader's match_idx is what the peer has acknowledged in this term.
PeersTrue ==
    \A n \in Node : state[n] = "leader" =>
        \A p \in Others(n) :
            \/ match_idx[n][p] = 0
            \/ /\ next_idx[n][p] = match_idx[n][p] + 1
               /\ Ack(p, n, current_term[n], match_idx[n][p])

CommitTrue == \A n \in Node : Committed(log[n], current_term[n], commit_idx[n])

\* What is known of a cluster of several nodes from the theorems before.
BaseInv == TypeOK /\ VoteInv /\ IndexInv /\ LeadersHeard

SafeInv ==
    /\ LogTerms /\ EntryOrigin /\ PacketsTrue /\ VotesInformed /\ PeersTrue /\ CommitTrue

-----------------------------------------------------------------------------
(* What the invariant says of one state. *)

LEMMA LeastNumber ==
    ASSUME NEW S, S \subseteq Nat, S # {}
    PROVE  \E x \in S : \A y \in S : x <= y
<1>1. PICK x \in S : \A y \in S : ~ (<<y, x>> \in OpToRel(<, Nat))
  BY WFMin, NatLessThanWellFounded
<1>2. \A y \in S : ~ (y < x)
  BY <1>1 DEF OpToRel
<1> QED
  BY <1>2

LEMMA EntryTerms ==
    ASSUME TypeOK, NEW n \in Node, NEW i \in 1 .. Len(log[n])
    PROVE  /\ log[n][i] \in Entry /\ log[n][i].term \in Terms
           /\ log[n][i].term \in Nat /\ i \in Nat
<1>1. log[n] \in Seq(Entry)
  BY LogType
<1>2. log[n][i] \in Entry
  BY <1>1
<1> QED
  BY <1>2 DEF Entry, Terms

LEMMA OneLeader ==
    ASSUME BaseInv, NEW a \in Node, NEW b \in Node, NEW t \in Terms, Led(a, t), Led(b, t)
    PROVE  a = b
<1>1. ElectionSafety
  BY InvElectionSafety DEF BaseInv, ElectionInv
<1> QED
  BY <1>1 DEF ElectionSafety, WasLeader, Led

LEMMA LogsMatch ==
    ASSUME BaseInv, EntryOrigin, NEW a \in Node, NEW b \in Node,
           NEW i \in 1 .. Len(log[a]), i <= Len(log[b]), log[a][i].term = log[b][i].term
    PROVE  SamePrefix(log[a], log[b], i)
<1>1. /\ TypeOK /\ i \in Nat /\ log[a][i].term \in Terms
      /\ \A p \in Node : log[p] \in Seq(Entry) /\ Len(log[p]) \in Nat
  BY LogType, EntryTerms DEF BaseInv
<1>2. i \in 1 .. Len(log[b])
  BY <1>1
<1>3. PICK l \in Node : Led(l, log[a][i].term) /\ SamePrefix(log[a], log[l], i)
  BY DEF EntryOrigin
<1>4. PICK k \in Node : Led(k, log[b][i].term) /\ SamePrefix(log[b], log[k], i)
  BY <1>2 DEF EntryOrigin
<1>5. k = l
  BY <1>1, <1>3, <1>4, OneLeader
<1>6. SamePrefix(log[l], log[b], i)
  BY <1>4, <1>5, SamePrefixSym
<1> QED
  BY <1>1, <1>3, <1>6, SamePrefixTrans

\* An entry of term t comes from the one leader of term t.
LEMMA OriginIs ==
    ASSUME BaseInv, EntryOrigin, NEW a \in Node, NEW l \in Node,
           NEW i \in 1 .. Len(log[a]), Led(l, log[a][i].term)
    PROVE  SamePrefix(log[a], log[l], i)
<1>1. log[a][i].term \in Terms
  BY EntryTerms DEF BaseInv
<1>2. PICK k \in Node : Led(k, log[a][i].term) /\ SamePrefix(log[a], log[k], i)
  BY DEF EntryOrigin
<1> QED
  BY <1>1, <1>2, OneLeader

\* Nodes that have stored an entry have it.
LEMMA StoredHas ==
    ASSUME BaseInv, PacketsTrue, NEW v \in Node, NEW l \in Node, NEW t \in Terms,
           NEW i \in Nat, LedEntry(l, t, i), Stored(v, l, t, i)
    PROVE  SamePrefix(log[l], log[v], i)
<1>1. /\ TypeOK /\ log[l] \in Seq(Entry) /\ log[v] \in Seq(Entry)
      /\ i \in 1 .. Len(log[l]) /\ Len(log[l]) \in Nat
  BY LogType DEF BaseInv, LedEntry
<1>2. CASE v = l
  BY <1>1, <1>2, SamePrefixRefl
<1>3. CASE Ack(v, l, t, i)
  <2>1. PICK a \in msgs : /\ a.type = "aer" /\ a.success /\ a.src = v /\ a.dst = l
                          /\ i <= a.current_idx
    BY <1>3 DEF Ack
  <2>2. a.current_idx \in Nat
    BY <1>1, <2>1, PacketKinds DEF AppendEntriesResponse
  <2>3. SamePrefix(log[l], log[v], a.current_idx)
    BY <2>1 DEF PacketsTrue, AckTrue
  <2> QED
    BY <1>1, <2>1, <2>2, <2>3, SamePrefixLess
<1> QED
  BY <1>2, <1>3 DEF Stored

\* A leader of a later term was elected by a node that has stored the entry.
LEMMA ElectorStored ==
    ASSUME BaseInv, VotesInformed, NEW l \in Node, NEW t \in Terms, NEW i \in Nat,
           Chosen(l, t, i), NEW c \in Node, NEW u \in Terms, Led(c, u), t < u
    PROVE  \E q \in msgs : q.type = "rv" /\ q.src = c /\ q.term = u /\ UpToDate(q, t, i)
<1>1. Backed(c, u)
  BY DEF BaseInv, VoteInv, LeadersBacked, Led
<1>2. PICK R \in SUBSET Node : /\ 2 * Cardinality(R) > Cardinality(Node)
                               /\ \A v \in R : Voted(v, u, c)
  BY <1>1 DEF Backed
<1>3. PICK Q \in SUBSET Node : /\ 2 * Cardinality(Q) > Cardinality(Node)
                               /\ \A v \in Q : Stored(v, l, t, i)
  BY DEF Chosen
<1>4. Q \cap R # {}
  <2>1. IsFiniteSet(Q) /\ IsFiniteSet(R)
    BY FS_Subset
  <2>2. /\ Cardinality(Q) \in Nat /\ Cardinality(R) \in Nat
        /\ Cardinality(Node) \in Nat
    BY <2>1, FS_CardinalityType
  <2>3. Cardinality(Q) + Cardinality(R) > Cardinality(Node)
    BY <1>2, <1>3, <2>2
  <2> QED
    BY <2>3, FS_MajoritiesIntersect
<1>5. PICK v \in Node : Voted(v, u, c) /\ Stored(v, l, t, i)
  BY <1>2, <1>3, <1>4
<1>6. Informed(v, u, c)
  BY <1>5 DEF VotesInformed
<1>7. LedEntry(l, t, i)
  BY DEF Chosen
<1> QED
  BY <1>5, <1>6, <1>7 DEF Informed

\* Every leader of a later term has what was chosen: the argument of Raft.  Take
\* the first later term whose leader might not.
LEMMA LeaderHasChosen ==
    ASSUME BaseInv, SafeInv, NEW l \in Node, NEW t \in Terms, NEW i \in Nat,
           Chosen(l, t, i), NEW c \in Node, NEW u \in Terms, Led(c, u), t < u
    PROVE  SamePrefix(log[c], log[l], i)
<1> DEFINE Bad == {w \in Terms : /\ t < w
                                 /\ \E d \in Node : Led(d, w) /\ ~ SamePrefix(log[d], log[l], i)}
<1> SUFFICES ASSUME Bad # {} PROVE FALSE
  OBVIOUS
<1>1. TypeOK /\ (\A p \in Node : log[p] \in Seq(Entry) /\ Len(log[p]) \in Nat)
  BY LogType DEF BaseInv
<1>2. \A w \in Terms : w \in Nat
  BY DEF Terms
<1>3. PICK w \in Bad : \A x \in Bad : w <= x
  BY <1>2, LeastNumber
<1>4. PICK d \in Node : Led(d, w) /\ ~ SamePrefix(log[d], log[l], i)
  BY <1>3
<1>5. w \in Terms /\ t < w
  BY <1>3
<1>6. PICK q \in msgs : q.type = "rv" /\ q.src = d /\ q.term = w /\ UpToDate(q, t, i)
  BY <1>4, <1>5, ElectorStored DEF SafeInv
<1> DEFINE k == q.last_log_idx
<1>7. /\ q.last_log_term = term_at(log[d], k) /\ k <= Len(log[d])
      /\ q.last_log_term < w /\ k \in Nat
  BY <1>1, <1>6, PacketKinds DEF SafeInv, PacketsTrue, RvTrue, RequestVote
<1>8. i \in 1 .. Len(log[l]) /\ log[l][i].term = t /\ Led(l, t)
  BY DEF Chosen, LedEntry
<1>9. k \in 1 .. Len(log[d]) /\ log[d][k].term = q.last_log_term
  <2>1. CASE k = 0
    BY <1>2, <1>6, <1>7, <1>8, <2>1 DEF term_at, UpToDate
  <2>2. CASE k # 0
    BY <1>1, <1>7, <2>2 DEF term_at
  <2> QED
    BY <2>1, <2>2
<1>10. log[d][k].term \in Terms
  BY <1>1, <1>9, EntryTerms
<1>11. CASE q.last_log_term = t /\ i <= k
  <2>1. SamePrefix(log[d], log[l], k)
    BY <1>8, <1>9, <1>11, OriginIs DEF SafeInv
  <2> QED
    BY <1>1, <1>4, <1>7, <1>11, <2>1, SamePrefixLess
<1>12. CASE t < q.last_log_term
  <2>1. PICK e \in Node : Led(e, log[d][k].term) /\ SamePrefix(log[d], log[e], k)
    BY <1>9 DEF SafeInv, EntryOrigin
  <2>2. SamePrefix(log[e], log[l], i)
    <3>1. log[d][k].term \notin Bad
      BY <1>2, <1>3, <1>5, <1>7, <1>9, <1>10
    <3> QED
      BY <1>9, <1>10, <1>12, <2>1, <3>1
  <2>3. i <= k
    <3>1. SUFFICES ASSUME k < i PROVE FALSE
      BY <1>7
    <3>2. /\ i \in 1 .. Len(log[e]) /\ k \in 1 .. i
          /\ log[e][i] = log[l][i] /\ log[e][k] = log[d][k]
      BY <1>1, <1>7, <1>8, <1>9, <2>1, <2>2, <3>1, SMTT(30) DEF SamePrefix
    <3>3. log[e][k].term <= log[e][i].term
      BY <3>2 DEF SafeInv, LogTerms
    <3> QED
      BY <1>2, <1>8, <1>9, <1>10, <1>12, <3>2, <3>3
  <2> QED
    BY <1>1, <1>4, <1>7, <2>1, <2>2, <2>3, SamePrefixTrans
<1> QED
  BY <1>6, <1>11, <1>12 DEF UpToDate

\* A leader of the term, or of a later one, has what is committed.
LEMMA LeaderHasCommitted ==
    ASSUME BaseInv, SafeInv, NEW lg \in Seq(Entry), NEW t \in Terms, NEW k \in Nat,
           Committed(lg, t, k), NEW c \in Node, NEW u \in Terms, Led(c, u), t <= u
    PROVE  SamePrefix(log[c], lg, k)
<1>1. \A p \in Node : log[p] \in Seq(Entry) /\ Len(log[p]) \in Nat
  BY LogType DEF BaseInv
<1>2. CASE k = 0
  BY <1>1, <1>2, SamePrefixRefl
<1>3. CASE k # 0
  <2>1. PICK l \in Node, w \in Terms, i \in Nat :
            Chosen(l, w, i) /\ w <= t /\ k <= i /\ SamePrefix(lg, log[l], k)
    BY <1>3 DEF Committed
  <2>2. SamePrefix(log[c], log[l], i)
    <3>1. CASE w < u
      BY <2>1, <3>1, LeaderHasChosen
    <3>2. CASE w = u
      <4>1. c = l /\ i <= Len(log[l])
        BY <2>1, <3>2, OneLeader DEF Chosen, LedEntry
      <4> QED
        BY <1>1, <4>1, SamePrefixRefl
    <3> QED
      BY <2>1, <3>1, <3>2 DEF Terms
  <2>3. SamePrefix(log[l], lg, k)
    BY <2>1, SamePrefixSym
  <2> QED
    BY <1>1, <2>1, <2>2, <2>3, SamePrefixTrans
<1> QED
  BY <1>2, <1>3

-----------------------------------------------------------------------------
(* What the air and the logs show stays true while they grow. *)

LEMMA PrefixGrows ==
    ASSUME TypeOK, TypeOK', NEW n \in Node, GrowStep(n), NEW a \in Node, NEW b \in Node,
           NEW i \in Nat, SamePrefix(log[a], log[b], i)
    PROVE  SamePrefix(log'[a], log'[b], i)
<1>1. \A p \in Node : /\ log[p] \in Seq(Entry) /\ log'[p] \in Seq(Entry)
                      /\ Len(log[p]) \in Nat /\ Len(log'[p]) \in Nat
                      /\ Len(log[p]) <= Len(log'[p])
                      /\ \A j \in 1 .. Len(log[p]) : log'[p][j] = log[p][j]
  BY StepTypes, LogsGrow
<1>2. i <= Len(log[a]) /\ i <= Len(log[b]) /\ \A j \in 1 .. i : log[a][j] = log[b][j]
  BY DEF SamePrefix
<1>3. i <= Len(log'[a]) /\ i <= Len(log'[b])
  BY <1>1, <1>2
<1>4. ASSUME NEW j \in 1 .. i
      PROVE  log'[a][j] = log'[b][j]
  <2>1. j \in 1 .. Len(log[a]) /\ j \in 1 .. Len(log[b]) /\ log[a][j] = log[b][j]
    BY <1>1, <1>2
  <2> QED
    BY <1>1, <2>1
<1> QED
  BY <1>3, <1>4 DEF SamePrefix

LEMMA AcksStay ==
    ASSUME NEW n \in Node, GrowStep(n)
    PROVE  /\ \A l, t : Led(l, t) => Led(l, t)'
           /\ \A v, l, t, i : Ack(v, l, t, i) => Ack(v, l, t, i)'
           /\ \A v, l, t, i : Stored(v, l, t, i) => Stored(v, l, t, i)'
BY DEF GrowStep, Led, Ack, Stored

LEMMA ChosenStays ==
    ASSUME TypeOK, TypeOK', NEW n \in Node, GrowStep(n), NEW l \in Node, NEW t, NEW i
    PROVE  /\ LedEntry(l, t, i) => LedEntry(l, t, i)'
           /\ Chosen(l, t, i) => Chosen(l, t, i)'
<1>1. ASSUME LedEntry(l, t, i)
      PROVE  LedEntry(l, t, i)'
  <2>1. Led(l, t)' /\ i \in 1 .. Len(log[l]) /\ log[l][i].term = t
    BY <1>1, AcksStay DEF LedEntry
  <2>2. /\ Len(log[l]) \in Nat /\ Len(log'[l]) \in Nat /\ Len(log[l]) <= Len(log'[l])
        /\ log'[l][i] = log[l][i]
    BY <2>1, StepTypes, LogsGrow
  <2>3. i \in 1 .. Len(log'[l]) /\ log'[l][i].term = t
    BY <2>1, <2>2
  <2> QED
    BY <2>1, <2>3 DEF LedEntry
<1>2. ASSUME Chosen(l, t, i)
      PROVE  Chosen(l, t, i)'
  BY <1>1, <1>2, AcksStay DEF Chosen
<1> QED
  BY <1>1, <1>2

LEMMA CommittedStays ==
    ASSUME TypeOK, TypeOK', NEW n \in Node, GrowStep(n), NEW p \in Node,
           NEW t \in Nat, NEW w \in Nat, t <= w, NEW c \in Nat,
           NEW lg \in Seq(Entry), SamePrefix(log[p], lg, c),
           Committed(log[p], t, c)
    PROVE  Committed(lg, w, c)'
<1>1. CASE c = 0
  BY <1>1 DEF Committed
<1>2. CASE c # 0
  <2>1. PICK l \in Node, u \in Terms, i \in Nat :
            Chosen(l, u, i) /\ u <= t /\ c <= i /\ SamePrefix(log[p], log[l], c)
    BY <1>2 DEF Committed
  <2>2. Chosen(l, u, i)'
    BY <2>1, ChosenStays
  <2>3. /\ log[p] \in Seq(Entry) /\ log'[p] \in Seq(Entry)
        /\ log[l] \in Seq(Entry) /\ log'[l] \in Seq(Entry)
    BY StepTypes
  <2>4. SamePrefix(lg, log[l], c)
    BY <2>1, <2>3, SamePrefixSym, SamePrefixTrans
  <2>5. SamePrefix(lg, log'[l], c)
    <3>1. SamePrefix(log[l], log'[l], Len(log[l]))
      BY LogsGrow
    <3>2. Len(log[l]) \in Nat /\ c <= Len(log[l])
      BY <2>3, <2>4 DEF SamePrefix
    <3>3. SamePrefix(log[l], log'[l], c)
      BY <2>3, <3>1, <3>2, SamePrefixLess
    <3> QED
      BY <2>3, <2>4, <3>3, SamePrefixTrans
  <2>6. u <= w
    BY <2>1 DEF Terms
  <2>7. \E ll \in Node : \E uu \in Terms : \E ii \in Nat :
            Chosen(ll, uu, ii)' /\ uu <= w /\ c <= ii /\ SamePrefix(lg, log'[ll], c)
    BY <2>1, <2>2, <2>5, <2>6
  <2> QED
    BY <2>7 DEF Committed
<1> QED
  BY <1>1, <1>2

-----------------------------------------------------------------------------
\* What any handler of node n may do to logs, commits and packets.

NewAck(n, r) ==
    /\ r.src = n /\ r.dst # n /\ r.dst \in Node
    /\ r.success => /\ r.term = current_term'[n] /\ Led(r.dst, r.term)
                    /\ SamePrefix(log[r.dst], log'[n], r.current_idx)

SentBy(n, r) ==
    /\ r.type = "ae" =>
          state'[n] = "leader" /\ \E p \in Others(n) : r = msg_appendentries(n, p)'
    /\ r.type = "aer" => NewAck(n, r)
    /\ r.type = "rv" =>
          /\ UNCHANGED log /\ current_term[n] < current_term'[n]
          /\ \E p \in Others(n) : r = msg_requestvote(n, p)'
    /\ r.type = "rvr" /\ r.vote_granted =>
          r.src = n /\ r.term = current_term'[n] /\ Informed(n, r.term, r.dst)

\* One more entry: a leader's own, or one that another node has at that place,
\* with the same entries before it.
OneMore(n) ==
    LET k == Len(log[n]) + 1 IN
    /\ Len(log'[n]) = k
    /\ \/ /\ state[n] = "leader" /\ current_term'[n] = current_term[n]
          /\ log'[n][k].term = current_term[n]
       \/ \E l \in Node : /\ SamePrefix(log[l], log'[n], k)
                          /\ log[l][k].term <= current_term'[n]

SafeStep(n) ==
    /\ GrowStep(n)
    /\ \A p \in Others(n) :
          /\ current_term'[p] = current_term[p] /\ state'[p] = state[p]
          /\ commit_idx'[p] = commit_idx[p]
          /\ next_idx'[p] = next_idx[p] /\ match_idx'[p] = match_idx[p]
    /\ current_term[n] <= current_term'[n]
    /\ log'[n] = log[n] \/ OneMore(n)
    /\ \/ commit_idx'[n] = commit_idx[n]
       \/ \E l \in Node : /\ Committed(log[l], current_term'[n], commit_idx'[n])
                          /\ SamePrefix(log[l], log'[n], commit_idx'[n])
    /\ state'[n] = "leader" =>
          \A p \in Others(n) :
              \/ match_idx'[n][p] = 0
              \/ /\ next_idx'[n][p] = match_idx'[n][p] + 1
                 /\ Ack(p, n, current_term'[n], match_idx'[n][p])
    /\ \A r \in msgs' : r \in msgs \/ SentBy(n, r)

-----------------------------------------------------------------------------
(* Steps of that kind keep the invariant. *)

LEMMA LogTermsStep ==
    ASSUME BaseInv, BaseInv', SafeInv, NEW n \in Node, SafeStep(n)
    PROVE  LogTerms'
<1> SUFFICES ASSUME NEW p \in Node, NEW i \in 1 .. Len(log'[p])
             PROVE  /\ log'[p][i].term <= current_term'[p]
                    /\ \A j \in 1 .. i : log'[p][j].term <= log'[p][i].term
  BY DEF LogTerms
<1>1. TypeOK /\ TypeOK' /\ GrowStep(n)
  BY DEF BaseInv, SafeStep
<1>2. \A q \in Node :
         /\ log[q] \in Seq(Entry) /\ log'[q] \in Seq(Entry)
         /\ Len(log[q]) \in Nat /\ Len(log'[q]) \in Nat
         /\ current_term[q] \in Nat /\ current_term'[q] \in Nat
         /\ Len(log[q]) <= Len(log'[q])
         /\ \A j \in 1 .. Len(log[q]) : log'[q][j] = log[q][j]
  BY <1>1, StepTypes, LogsGrow
<1>3. current_term[p] <= current_term'[p]
  BY <1>2 DEF SafeStep, Others
<1>4. \A q \in Node : \A j \in 1 .. Len(log[q]) : log[q][j].term \in Nat
  BY <1>1, EntryTerms
<1>5. CASE i <= Len(log[p])
  <2>1. /\ i \in 1 .. Len(log[p]) /\ log'[p][i] = log[p][i]
        /\ \A j \in 1 .. i : j \in 1 .. Len(log[p]) /\ log'[p][j] = log[p][j]
    BY <1>2, <1>5
  <2>2. /\ log[p][i].term <= current_term[p]
        /\ \A j \in 1 .. i : log[p][j].term <= log[p][i].term
    BY <2>1 DEF SafeInv, LogTerms
  <2>3. log[p][i].term <= current_term'[p]
    BY <1>2, <1>3, <1>4, <2>1, <2>2
  <2> QED
    BY <2>1, <2>2, <2>3
<1>6. CASE i > Len(log[p])
  <2>1. p = n /\ OneMore(n)
    BY <1>2, <1>6 DEF SafeStep, GrowStep, Others
  <2>2. i = Len(log[n]) + 1
    BY <1>2, <1>6, <2>1 DEF OneMore
  <2>3. \A j \in 1 .. i : j = i \/ (j \in 1 .. Len(log[n]) /\ log'[n][j] = log[n][j])
    BY <1>2, <2>2
  <2>4. CASE current_term'[n] = current_term[n] /\ log'[n][i].term = current_term[n]
    <3>1. \A j \in 1 .. Len(log[n]) : log[n][j].term <= current_term[n]
      BY DEF SafeInv, LogTerms
    <3>2. \A j \in 1 .. i : log'[n][j].term <= current_term[n]
      <4> SUFFICES ASSUME NEW j \in 1 .. i
                   PROVE  log'[n][j].term <= current_term[n]
        OBVIOUS
      <4>1. CASE j = i
        <5>1. current_term[n] \in Nat
          BY <1>2
        <5> QED
          BY <2>4, <4>1, <5>1
      <4>2. CASE j \in 1 .. Len(log[n]) /\ log'[n][j] = log[n][j]
        BY <3>1, <4>2
      <4> QED
        BY <2>3, <4>1, <4>2
    <3> QED
      BY <1>2, <2>1, <2>4, <3>2
  <2>5. ASSUME NEW l \in Node, SamePrefix(log[l], log'[n], i),
               log[l][i].term <= current_term'[n]
        PROVE  /\ log'[n][i].term <= current_term'[n]
               /\ \A j \in 1 .. i : log'[n][j].term <= log'[n][i].term
    <3>1. /\ i \in 1 .. Len(log[l])
          /\ \A j \in 1 .. i : log'[n][j] = log[l][j]
      BY <1>2, <2>2, <2>5 DEF SamePrefix
    <3>2. \A j \in 1 .. i : log[l][j].term <= log[l][i].term
      BY <3>1 DEF SafeInv, LogTerms
    <3>3. i \in 1 .. i
      BY <1>2, <2>2
    <3> QED
      BY <2>5, <3>1, <3>2, <3>3
  <2> QED
    BY <2>1, <2>2, <2>4, <2>5 DEF OneMore
<1> QED
  BY <1>2, <1>5, <1>6

LEMMA OriginStep ==
    ASSUME BaseInv, BaseInv', SafeInv, NEW n \in Node, SafeStep(n)
    PROVE  EntryOrigin'
<1>1. TypeOK /\ TypeOK' /\ GrowStep(n)
  BY DEF BaseInv, SafeStep
<1>2. \A q \in Node :
         /\ log[q] \in Seq(Entry) /\ log'[q] \in Seq(Entry)
         /\ Len(log[q]) \in Nat /\ Len(log'[q]) \in Nat
         /\ Len(log[q]) <= Len(log'[q])
         /\ \A j \in 1 .. Len(log[q]) : log'[q][j] = log[q][j]
  BY <1>1, StepTypes, LogsGrow
<1> SUFFICES ASSUME NEW p \in Node, NEW i \in 1 .. Len(log'[p])
             PROVE  \E l \in Node : /\ Led(l, log[p][i].term)'
                                    /\ SamePrefix(log'[p], log'[l], i)
  BY DEF EntryOrigin
<1> SUFFICES ASSUME NEW t, t = log'[p][i].term
             PROVE  \E l \in Node : Led(l, t)' /\ SamePrefix(log'[p], log'[l], i)
  BY DEF Led
<1>3. i \in Nat
  OBVIOUS
<1>4. CASE i <= Len(log[p])
  <2>1. i \in 1 .. Len(log[p]) /\ log[p][i].term = t
    BY <1>2, <1>4
  <2>2. PICK l \in Node : Led(l, t) /\ SamePrefix(log[p], log[l], i)
    BY <2>1 DEF SafeInv, EntryOrigin
  <2> QED
    BY <1>1, <1>3, <2>2, PrefixGrows, AcksStay
<1>5. CASE i > Len(log[p])
  <2>1. p = n /\ OneMore(n)
    BY <1>2, <1>5 DEF SafeStep, GrowStep, Others
  <2>2. i = Len(log[n]) + 1
    BY <1>2, <1>5, <2>1 DEF OneMore
  <2>3. CASE state[n] = "leader" /\ log'[n][i].term = current_term[n]
    <3>1. Led(n, t)
      BY <2>1, <2>3 DEF BaseInv, LeadersHeard
    <3>2. SamePrefix(log'[n], log'[n], i)
      BY <1>2, <1>3, <2>1, SamePrefixRefl
    <3> QED
      BY <1>1, <2>1, <3>1, <3>2, AcksStay
  <2>4. ASSUME NEW k \in Node, SamePrefix(log[k], log'[n], i)
        PROVE  \E l \in Node : Led(l, t)' /\ SamePrefix(log'[p], log'[l], i)
    <3>1. i \in 1 .. Len(log[k]) /\ log[k][i].term = t
      BY <1>2, <1>3, <2>1, <2>4 DEF SamePrefix
    <3>2. PICK l \in Node : Led(l, t) /\ SamePrefix(log[k], log[l], i)
      BY <3>1 DEF SafeInv, EntryOrigin
    <3>3. Led(l, t)' /\ SamePrefix(log'[k], log'[l], i)
      BY <1>1, <1>3, <3>2, PrefixGrows, AcksStay
    <3>4. SamePrefix(log'[n], log'[k], i)
      <4>1. SamePrefix(log'[n], log[k], i)
        BY <2>4, SamePrefixSym
      <4>2. SamePrefix(log[k], log'[k], i)
        BY <1>1, <1>2, <1>3, <3>1, LogsGrow, SamePrefixLess
      <4> QED
        BY <1>2, <1>3, <4>1, <4>2, SamePrefixTrans
    <3>5. SamePrefix(log'[n], log'[l], i)
      BY <1>2, <1>3, <3>3, <3>4, SamePrefixTrans
    <3> QED
      BY <2>1, <3>3, <3>5
  <2> QED
    BY <2>1, <2>2, <2>3, <2>4 DEF OneMore
<1> QED
  BY <1>2, <1>4, <1>5

LEMMA CommitStep ==
    ASSUME BaseInv, BaseInv', SafeInv, NEW n \in Node, SafeStep(n)
    PROVE  CommitTrue'
<1>1. TypeOK /\ TypeOK' /\ GrowStep(n)
  BY DEF BaseInv, SafeStep
<1>2. \A q \in Node :
         /\ log[q] \in Seq(Entry) /\ log'[q] \in Seq(Entry)
         /\ Len(log[q]) \in Nat /\ Len(log'[q]) \in Nat
         /\ commit_idx[q] \in Nat /\ commit_idx'[q] \in Nat
         /\ current_term[q] \in Nat /\ current_term'[q] \in Nat
         /\ SamePrefix(log[q], log'[q], Len(log[q]))
  BY <1>1, StepTypes, LogsGrow
<1> SUFFICES ASSUME NEW p \in Node
             PROVE  Committed(log[p], current_term[p], commit_idx[p])'
  BY DEF CommitTrue
<1> SUFFICES ASSUME NEW lg, lg = log'[p], NEW t, t = current_term'[p],
                    NEW c, c = commit_idx'[p]
             PROVE  Committed(lg, t, c)'
  BY DEF Committed
<1>3. lg \in Seq(Entry) /\ t \in Nat /\ c \in Nat
  BY <1>2
<1>4. CASE commit_idx'[p] = commit_idx[p]
  <2>1. Committed(log[p], current_term[p], c)
    BY <1>4 DEF SafeInv, CommitTrue
  <2>2. current_term[p] <= t
    BY <1>2 DEF SafeStep, Others
  <2>3. SamePrefix(log[p], lg, c)
    <3>1. c <= Len(log[p])
      BY <1>4 DEF BaseInv, IndexInv
    <3> QED
      BY <1>2, <1>3, <3>1, SamePrefixLess
  <2> QED
    BY <1>1, <1>2, <1>3, <2>1, <2>2, <2>3, CommittedStays
<1>5. CASE commit_idx'[p] # commit_idx[p]
  <2>1. p = n
    BY <1>5 DEF SafeStep, Others
  <2>2. PICK l \in Node : Committed(log[l], t, c) /\ SamePrefix(log[l], lg, c)
    BY <1>5, <2>1 DEF SafeStep
  <2>3. t <= t
    BY <1>3
  <2> QED
    BY <1>1, <1>3, <2>2, <2>3, CommittedStays
<1> QED
  BY <1>4, <1>5

LEMMA PeersStep ==
    ASSUME BaseInv, BaseInv', SafeInv, NEW n \in Node, SafeStep(n)
    PROVE  PeersTrue'
<1> SUFFICES ASSUME NEW q \in Node, state'[q] = "leader", NEW p \in Others(q)
             PROVE  \/ match_idx'[q][p] = 0
                    \/ /\ next_idx'[q][p] = match_idx'[q][p] + 1
                       /\ Ack(p, q, current_term[q], match_idx[q][p])'
  BY DEF PeersTrue
<1>1. \/ match_idx'[q][p] = 0
      \/ /\ next_idx'[q][p] = match_idx'[q][p] + 1
         /\ Ack(p, q, current_term'[q], match_idx'[q][p])
  <2>1. CASE q = n
    BY <2>1 DEF SafeStep
  <2>2. CASE q # n
    BY <2>2 DEF SafeStep, Others, SafeInv, PeersTrue
  <2> QED
    BY <2>1, <2>2
<1>2. msgs \subseteq msgs'
  BY DEF SafeStep, GrowStep
<1> QED
  BY <1>1, <1>2 DEF Ack

LEMMA OldPacketsTrue ==
    ASSUME BaseInv, BaseInv', SafeInv, NEW n \in Node, GrowStep(n), NEW m \in msgs
    PROVE  AeTrue(m)' /\ AckTrue(m)' /\ RvTrue(m)'
<1>1. TypeOK /\ TypeOK'
  BY DEF BaseInv
<1>2. \A q \in Node :
         /\ log[q] \in Seq(Entry) /\ log'[q] \in Seq(Entry)
         /\ Len(log[q]) \in Nat /\ Len(log'[q]) \in Nat
         /\ Len(log[q]) <= Len(log'[q])
         /\ SamePrefix(log[q], log'[q], Len(log[q]))
         /\ \A j \in 1 .. Len(log[q]) : log'[q][j] = log[q][j]
  BY <1>1, StepTypes, LogsGrow
<1>3. ASSUME NEW q \in Node, NEW j \in Nat, j <= Len(log[q])
      PROVE  term_at(log'[q], j) = term_at(log[q], j)
  BY <1>2, <1>3 DEF term_at
<1>4. AeTrue(m) /\ AckTrue(m) /\ RvTrue(m)
  BY DEF SafeInv, PacketsTrue
<1>5. AeTrue(m)'
  <2> SUFFICES ASSUME m.type = "ae" PROVE AeTrue(m)'
    BY DEF AeTrue
  <2>1. /\ m.src \in Node /\ m.prev_log_idx \in Nat /\ Len(m.entries) \in Nat
        /\ last_idx(m) \in Nat /\ m.leader_commit \in Nat /\ m.term \in Nat
    BY <1>1, PacketKinds, AppendEntriesFields, TermTypes
  <2>2. last_idx(m) <= Len(log[m.src]) /\ m.leader_commit <= last_idx(m)
    BY DEF BaseInv, IndexInv, AeBounded
  <2>3. m.prev_log_idx <= Len(log[m.src]) /\ m.leader_commit <= Len(log[m.src])
    BY <1>2, <2>1, <2>2 DEF last_idx
  <2>4. m.prev_log_term = term_at(log'[m.src], m.prev_log_idx)
    BY <1>3, <1>4, <2>1, <2>3 DEF AeTrue
  <2>5. \A k \in 1 .. Len(m.entries) : m.entries[k] = log'[m.src][m.prev_log_idx + k]
    <3>1. \A k \in 1 .. Len(m.entries) : m.prev_log_idx + k \in 1 .. Len(log[m.src])
      BY <1>2, <2>1, <2>2 DEF last_idx
    <3> QED
      BY <1>2, <1>4, <2>1, <3>1 DEF AeTrue
  <2>6. \A j \in 1 .. last_idx(m) : log'[m.src][j].term <= m.term
    <3>1. \A j \in 1 .. last_idx(m) : j \in 1 .. Len(log[m.src])
      BY <1>2, <2>1, <2>2
    <3> QED
      BY <1>2, <1>4, <2>1, <3>1 DEF AeTrue
  <2>7. ASSUME NEW lg, lg = log'[m.src]
        PROVE  Committed(lg, m.term, m.leader_commit)'
    <3>1. lg \in Seq(Entry) /\ SamePrefix(log[m.src], lg, m.leader_commit)
      BY <1>2, <2>1, <2>3, <2>7, SamePrefixLess
    <3>2. Committed(log[m.src], m.term, m.leader_commit) /\ m.term <= m.term
      BY <1>4, <2>1 DEF AeTrue
    <3> QED
      BY <1>1, <2>1, <3>1, <3>2, CommittedStays
  <2>8. Committed(log[m.src], m.term, m.leader_commit)'
    BY <2>7 DEF Committed
  <2> QED
    BY <1>4, <2>4, <2>5, <2>6, <2>8 DEF AeTrue
<1>6. AckTrue(m)'
  <2> SUFFICES ASSUME m.type = "aer" PROVE AckTrue(m)'
    BY DEF AckTrue
  <2>1. m.src \in Node /\ m.dst \in Node /\ m.current_idx \in Nat
    BY <1>1, PacketKinds DEF AppendEntriesResponse
  <2>2. Led(m.dst, m.term) => Led(m.dst, m.term)'
    BY AcksStay
  <2>3. SamePrefix(log[m.dst], log[m.src], m.current_idx)
            => SamePrefix(log'[m.dst], log'[m.src], m.current_idx)
    BY <1>1, <2>1, PrefixGrows
  <2> QED
    BY <1>4, <2>2, <2>3 DEF AckTrue
<1>7. RvTrue(m)'
  <2> SUFFICES ASSUME m.type = "rv" PROVE RvTrue(m)'
    BY DEF RvTrue
  <2>1. m.src \in Node /\ m.last_log_idx \in Nat
    BY <1>1, PacketKinds DEF RequestVote
  <2> QED
    BY <1>2, <1>3, <1>4, <2>1 DEF RvTrue
<1> QED
  BY <1>5, <1>6, <1>7

LEMMA NewPacketsTrue ==
    ASSUME BaseInv, BaseInv', SafeInv, LogTerms', CommitTrue', NEW n \in Node, GrowStep(n),
           NEW r \in msgs', SentBy(n, r)
    PROVE  AeTrue(r)' /\ AckTrue(r)' /\ RvTrue(r)'
<1>1. TypeOK /\ TypeOK'
  BY DEF BaseInv
<1>2. \A q \in Node :
         /\ log[q] \in Seq(Entry) /\ log'[q] \in Seq(Entry)
         /\ Len(log[q]) \in Nat /\ Len(log'[q]) \in Nat
         /\ current_term[q] \in Nat /\ current_term'[q] \in Nat
         /\ Len(log[q]) <= Len(log'[q])
         /\ SamePrefix(log[q], log'[q], Len(log[q]))
  BY <1>1, StepTypes, LogsGrow
<1>3. AeTrue(r)'
  <2> SUFFICES ASSUME r.type = "ae" PROVE AeTrue(r)'
    BY DEF AeTrue
  <2>1. PICK p \in Others(n) : r = msg_appendentries(n, p)'
    BY DEF SentBy
  <2> DEFINE next == next_idx'[n][p]
  <2>2. /\ r.src = n /\ r.dst = p /\ r.term = current_term'[n]
        /\ r.prev_log_idx = next - 1 /\ r.prev_log_term = term_at(log'[n], next - 1)
        /\ r.leader_commit = commit_idx'[n] /\ r.entries = entries_from(log'[n], next)
    BY <2>1 DEF msg_appendentries
  <2>3. p \in Node /\ p # n
    BY DEF Others
  <2>4. next \in Nat \ {0} /\ next <= Len(log'[n]) + 1
    BY <1>1, <2>3 DEF TypeOK, BaseInv, IndexInv
  <2>5. /\ last_idx(r) = Len(log'[n])
        /\ \A k \in 1 .. Len(r.entries) : r.entries[k] = log'[n][r.prev_log_idx + k]
    <3> HIDE DEF next
    <3> QED
      BY <1>2, <2>2, <2>4, SentEntries, SMTT(30)
  <2>6. \A j \in 1 .. last_idx(r) : log'[n][j].term <= r.term
    BY <2>2, <2>5 DEF LogTerms
  <2>7. Committed(log[r.src], r.term, r.leader_commit)'
    <3>1. Committed(log[n], current_term[n], commit_idx[n])'
      BY DEF CommitTrue
    <3> QED
      BY <2>2, <3>1 DEF Committed
  <2> HIDE DEF next
  <2> QED
    BY <2>2, <2>3, <2>5, <2>6, <2>7 DEF AeTrue
<1>4. AckTrue(r)'
  <2> SUFFICES ASSUME r.type = "aer" PROVE AckTrue(r)'
    BY DEF AckTrue
  <2>1. NewAck(n, r) /\ r.current_idx \in Nat
    BY <1>1 DEF SentBy, TypeOK, Message, RequestVote, RequestVoteResponse,
                AppendEntries, AppendEntriesResponse, ClientMessage
  <2>2. r.success => Led(r.dst, r.term)'
    BY <2>1, AcksStay DEF NewAck
  <2>3. r.success => SamePrefix(log'[r.dst], log'[r.src], r.current_idx)
    <3> SUFFICES ASSUME r.success
                 PROVE  SamePrefix(log'[r.dst], log'[n], r.current_idx)
      BY <2>1 DEF NewAck
    <3>1. SamePrefix(log[r.dst], log'[n], r.current_idx) /\ r.dst \in Node
      BY <2>1 DEF NewAck
    <3>2. r.current_idx <= Len(log[r.dst])
      BY <3>1 DEF SamePrefix
    <3>3. SamePrefix(log'[r.dst], log[r.dst], r.current_idx)
      BY <1>2, <2>1, <3>1, <3>2, SamePrefixLess, SamePrefixSym
    <3>4. r.current_idx <= r.current_idx
      BY <2>1
    <3> QED
      BY <1>2, <2>1, <3>1, <3>3, <3>4, SamePrefixTrans
  <2> QED
    BY <2>1, <2>2, <2>3 DEF AckTrue, NewAck
<1>5. RvTrue(r)'
  <2> SUFFICES ASSUME r.type = "rv" PROVE RvTrue(r)'
    BY DEF RvTrue
  <2>1. PICK p \in Others(n) : r = msg_requestvote(n, p)'
    BY DEF SentBy
  <2>2. current_term[n] < current_term'[n] /\ UNCHANGED log
    BY DEF SentBy
  <2>3. /\ r.src = n /\ r.term = current_term'[n] /\ r.last_log_idx = Len(log[n])
        /\ r.last_log_term = term_at(log[n], Len(log[n]))
    BY <2>1, <2>2 DEF msg_requestvote
  <2>4. term_at(log[n], Len(log[n])) < current_term'[n]
    <3>1. CASE Len(log[n]) = 0
      BY <1>2, <2>2, <3>1 DEF term_at
    <3>2. CASE Len(log[n]) # 0
      <4>1. Len(log[n]) \in 1 .. Len(log[n])
        BY <1>2, <3>2
      <4>2. /\ log[n][Len(log[n])].term <= current_term[n]
            /\ log[n][Len(log[n])].term \in Nat
        BY <1>1, <4>1, EntryTerms DEF SafeInv, LogTerms
      <4> QED
        BY <1>2, <2>2, <4>1, <4>2 DEF term_at
    <3> QED
      BY <3>1, <3>2
  <2> QED
    BY <1>2, <2>2, <2>3, <2>4 DEF RvTrue
<1> QED
  BY <1>3, <1>4, <1>5

LEMMA PacketsStep ==
    ASSUME BaseInv, BaseInv', SafeInv, NEW n \in Node, SafeStep(n)
    PROVE  PacketsTrue'
<1>1. GrowStep(n) /\ LogTerms' /\ CommitTrue'
  BY LogTermsStep, CommitStep DEF SafeStep
<1>2. ASSUME NEW r \in msgs'
      PROVE  AeTrue(r)' /\ AckTrue(r)' /\ RvTrue(r)'
  <2>1. CASE r \in msgs
    BY <1>1, <2>1, OldPacketsTrue
  <2>2. CASE SentBy(n, r)
    BY <1>1, <1>2, <2>2, NewPacketsTrue
  <2> QED
    BY <2>1, <2>2 DEF SafeStep
<1> QED
  BY <1>2 DEF PacketsTrue

\* A node stores nothing more of a leader whose term it has left.
LEMMA NoNewStored ==
    ASSUME BaseInv, BaseInv', SafeInv, NEW n \in Node, SafeStep(n),
           NEW v \in Node, NEW l \in Node, NEW u \in Terms, NEW i \in Nat,
           u < current_term'[v], LedEntry(l, u, i)', Stored(v, l, u, i)'
    PROVE  LedEntry(l, u, i) /\ Stored(v, l, u, i)
<1>1. TypeOK /\ TypeOK' /\ GrowStep(n)
  BY DEF BaseInv, SafeStep
<1>2. \A q \in Node :
         /\ log[q] \in Seq(Entry) /\ log'[q] \in Seq(Entry)
         /\ Len(log[q]) \in Nat /\ Len(log'[q]) \in Nat
         /\ current_term[q] \in Nat /\ current_term'[q] \in Nat
         /\ \A j \in 1 .. Len(log[q]) : log'[q][j] = log[q][j]
  BY <1>1, StepTypes, LogsGrow
<1>3. /\ i \in 1 .. Len(log'[l]) /\ log'[l][i].term = u
      /\ \E r \in msgs' : r.type = "ae" /\ r.src = l /\ r.term = u
  BY DEF LedEntry, Led
<1>4. u \in Nat /\ u # current_term'[v]
  BY <1>2 DEF Terms
<1>5. ASSUME Led(l, u), i <= Len(log[l])
      PROVE  LedEntry(l, u, i)
  <2>1. Len(log[l]) \in Nat /\ 1 <= i
    BY <1>2, <1>3
  <2>2. i \in 1 .. Len(log[l])
    BY <1>5, <2>1
  <2>3. log'[l][i] = log[l][i]
    BY <1>2, <2>2
  <2> QED
    BY <1>3, <1>5, <2>2, <2>3 DEF LedEntry
<1>6. CASE Ack(v, l, u, i)'
  <2>1. PICK a \in msgs' : /\ a.type = "aer" /\ a.success /\ a.src = v /\ a.dst = l
                           /\ a.term = u /\ i <= a.current_idx
    BY <1>6 DEF Ack
  <2>2. a \in msgs
    BY <1>4, <2>1 DEF SafeStep, SentBy, NewAck
  <2>3. Led(l, u) /\ SamePrefix(log[l], log[v], a.current_idx) /\ a.current_idx \in Nat
    BY <1>1, <2>1, <2>2, PacketKinds
       DEF SafeInv, PacketsTrue, AckTrue, AppendEntriesResponse
  <2>4. i <= Len(log[l])
    BY <1>2, <2>1, <2>3 DEF SamePrefix
  <2> QED
    BY <1>5, <2>1, <2>2, <2>3, <2>4 DEF Stored, Ack
<1>7. CASE v = l
  <2>1. PICK r \in msgs' : r.type = "ae" /\ r.src = l /\ r.term = u
    BY <1>3
  <2>2. r \in msgs
    <3>1. SUFFICES ASSUME SentBy(n, r) PROVE FALSE
      BY DEF SafeStep
    <3>2. r.src = n /\ r.term = current_term'[n]
      BY <2>1, <3>1 DEF SentBy, msg_appendentries
    <3> QED
      BY <1>4, <1>7, <2>1, <3>2
  <2>3. Led(l, u)
    BY <2>1, <2>2 DEF Led
  <2>4. i <= Len(log[l])
    <3>1. SUFFICES ASSUME i > Len(log[l]) PROVE FALSE
      BY <1>2
    <3>2. l = n /\ OneMore(n)
      BY <1>2, <1>3, <3>1 DEF SafeStep, GrowStep, Others
    <3>3. i = Len(log[n]) + 1
      BY <1>2, <1>3, <3>1, <3>2 DEF OneMore
    <3>4. PICK k \in Node : SamePrefix(log[k], log'[n], i)
      BY <1>3, <1>4, <1>7, <3>2, <3>3 DEF OneMore
    <3>5. i \in 1 .. Len(log[k]) /\ log[k][i].term = u
      BY <1>2, <1>3, <3>2, <3>4 DEF SamePrefix
    <3>6. SamePrefix(log[k], log[l], i)
      BY <2>3, <3>5, OriginIs DEF SafeInv
    <3> QED
      BY <1>2, <3>1, <3>6 DEF SamePrefix
  <2> QED
    BY <1>5, <1>7, <2>3, <2>4 DEF Stored
<1> QED
  BY <1>6, <1>7 DEF Stored

\* A log that ends no later than the log q tells of is no longer than it, as far
\* as the terms tell.
LEMMA ComparedLogs ==
    ASSUME TypeOK, LogTerms, NEW n \in Node, NEW l \in Node, NEW u \in Terms, NEW i \in Nat,
           LedEntry(l, u, i), SamePrefix(log[l], log[n], i),
           NEW q, q.last_log_term \in Terms, q.last_log_idx \in Nat,
           LET last == Len(log[n]) IN
           \/ term_at(log[n], last) < q.last_log_term
           \/ term_at(log[n], last) = q.last_log_term /\ last <= q.last_log_idx
    PROVE  UpToDate(q, u, i)
<1> DEFINE last == Len(log[n])
<1>1. /\ log[n] \in Seq(Entry) /\ last \in Nat
      /\ i \in 1 .. Len(log[l]) /\ log[l][i].term = u
  BY LogType DEF LedEntry
<1>2. i \in 1 .. last /\ log[n][i].term = u
  BY <1>1 DEF SamePrefix
<1>3. last \in 1 .. last /\ i \in 1 .. last
  BY <1>1, <1>2
<1>4. log[n][i].term <= log[n][last].term /\ log[n][last].term \in Nat
  BY <1>3, EntryTerms DEF LogTerms
<1>5. term_at(log[n], last) = log[n][last].term
  BY <1>3 DEF term_at
<1>6. \/ log[n][last].term < q.last_log_term
      \/ log[n][last].term = q.last_log_term /\ last <= q.last_log_idx
  BY <1>5
<1> HIDE DEF last
<1> QED
  BY <1>1, <1>2, <1>4, <1>6 DEF UpToDate, Terms

LEMMA VotesStep ==
    ASSUME BaseInv, BaseInv', SafeInv, NEW n \in Node, SafeStep(n)
    PROVE  VotesInformed'
<1> SUFFICES ASSUME NEW v \in Node, NEW c \in Node, NEW t \in Terms, Voted(v, t, c)'
             PROVE  Informed(v, t, c)'
  BY DEF VotesInformed
<1>1. TypeOK /\ TypeOK' /\ GrowStep(n) /\ msgs \subseteq msgs'
  BY DEF BaseInv, SafeStep, GrowStep
<1>2. t <= current_term'[v] /\ t \in Nat /\ current_term'[v] \in Nat
  <2>1. t \in Nat /\ current_term'[v] \in Nat
    BY <1>1, StepTypes DEF Terms
  <2>2. t < current_term'[v] \/ t = current_term'[v]
    BY DEF BaseInv, VoteInv, VotesRemembered
  <2> QED
    BY <2>1, <2>2
<1>3. ASSUME NEW q \in msgs', q.type = "rv", q.src = c, q.term = t,
             \A l \in Node : \A u \in Terms : \A i \in Nat :
                u < t /\ LedEntry(l, u, i) /\ Stored(v, l, u, i) => UpToDate(q, u, i)
      PROVE  Informed(v, t, c)'
  <2>1. ASSUME NEW l \in Node, NEW u \in Terms, NEW i \in Nat,
               u < t, LedEntry(l, u, i)', Stored(v, l, u, i)'
        PROVE  UpToDate(q, u, i)
    <3>1. u < current_term'[v]
      BY <1>2, <2>1 DEF Terms
    <3>2. LedEntry(l, u, i) /\ Stored(v, l, u, i)
      BY <2>1, <3>1, NoNewStored
    <3> QED
      BY <1>3, <2>1, <3>2
  <2> QED
    BY <1>3, <2>1 DEF Informed, UpToDate
<1>4. CASE Informed(v, t, c)
  BY <1>1, <1>3, <1>4 DEF Informed
<1>5. CASE Voted(v, t, c)
  BY <1>4, <1>5 DEF SafeInv, VotesInformed
<1>6. ASSUME NEW r \in msgs', r.type = "rvr", r.src = v, r.dst = c, r.term = t, r.vote_granted,
             r \notin msgs
      PROVE  Informed(v, t, c)'
  <2>1. Informed(n, r.term, r.dst) /\ r.src = n
    BY <1>6 DEF SafeStep, SentBy
  <2> QED
    BY <1>4, <1>6, <2>1
<1>7. ASSUME NEW r \in msgs', r.type = "rv", r.src = c, r.term = t, v = c, r \notin msgs
      PROVE  Informed(v, t, c)'
  <2>1. PICK p \in Others(n) : UNCHANGED log /\ r = msg_requestvote(n, p)'
    BY <1>7 DEF SafeStep, SentBy
  <2>2. /\ r.src = n /\ r.last_log_idx = Len(log[n])
        /\ r.last_log_term = term_at(log[n], Len(log[n]))
    BY <2>1 DEF msg_requestvote
  <2>3. /\ log[n] \in Seq(Entry) /\ Len(log[n]) \in Nat /\ Len(log[n]) <= Len(log[n])
        /\ r.last_log_term \in Terms
    BY <1>1, <2>2, LogType, TermAtType
  <2>4. ASSUME NEW l \in Node, NEW u \in Terms, NEW i \in Nat,
               LedEntry(l, u, i), Stored(n, l, u, i)
        PROVE  UpToDate(r, u, i)
    <3>1. SamePrefix(log[l], log[n], i)
      BY <2>4, StoredHas DEF SafeInv
    <3> QED
      BY <1>1, <2>2, <2>3, <2>4, <3>1, ComparedLogs DEF SafeInv
  <2> QED
    BY <1>3, <1>7, <2>2, <2>4
<1> QED
  BY <1>5, <1>6, <1>7 DEF Voted

LEMMA SafeStepInv ==
    ASSUME BaseInv, BaseInv', SafeInv, NEW n \in Node, SafeStep(n)
    PROVE  SafeInv'
BY LogTermsStep, OriginStep, PacketsStep, VotesStep, PeersStep, CommitStep DEF SafeInv

-----------------------------------------------------------------------------
(* Every handler is a step of that kind. *)

LEMMA MakesSafe ==
    ASSUME TypeOK, TypeOK', NEW n \in Node, VoteStep(n), IndexStep(n),
           \A p \in Others(n) : match_idx'[p] = match_idx[p],
           log'[n] = log[n] \/ OneMore(n),
           \/ commit_idx'[n] = commit_idx[n]
           \/ \E l \in Node : /\ Committed(log[l], current_term'[n], commit_idx'[n])
                              /\ SamePrefix(log[l], log'[n], commit_idx'[n]),
           state'[n] = "leader" =>
              \A p \in Others(n) :
                  \/ match_idx'[n][p] = 0
                  \/ /\ next_idx'[n][p] = match_idx'[n][p] + 1
                     /\ Ack(p, n, current_term'[n], match_idx'[n][p]),
           \A r \in msgs' \ msgs : SentBy(n, r)
    PROVE  SafeStep(n)
<1>1. current_term[n] <= current_term'[n]
  <2>1. current_term[n] \in Nat /\ current_term'[n] \in Nat
    BY StepTypes
  <2> QED
    BY <2>1 DEF VoteStep
<1>2. \A p \in Others(n) :
          /\ current_term'[p] = current_term[p] /\ state'[p] = state[p]
          /\ commit_idx'[p] = commit_idx[p] /\ next_idx'[p] = next_idx[p]
  BY DEF VoteStep, IndexStep
<1> QED
  BY <1>1, <1>2 DEF SafeStep, IndexStep

\* A handler that leaves the peers alone, and makes no leader.
LEMMA SamePeers ==
    ASSUME PeersTrue, NEW n \in Node, UNCHANGED <<next_idx, match_idx>>,
           state'[n] = "leader" =>
              state[n] = "leader" /\ current_term'[n] = current_term[n]
    PROVE  state'[n] = "leader" =>
              \A p \in Others(n) :
                  \/ match_idx'[n][p] = 0
                  \/ /\ next_idx'[n][p] = match_idx'[n][p] + 1
                     /\ Ack(p, n, current_term'[n], match_idx'[n][p])
BY DEF PeersTrue

LEMMA QuietSafe ==
    ASSUME TypeOK, TypeOK', SafeInv, NEW n \in Node, VoteStep(n), IndexStep(n),
           UNCHANGED <<log, commit_idx, next_idx, match_idx>>,
           state'[n] = "leader" =>
              state[n] = "leader" /\ current_term'[n] = current_term[n],
           \A r \in msgs' \ msgs : SentBy(n, r)
    PROVE  SafeStep(n)
BY MakesSafe, SamePeers DEF SafeInv

LEMMA PeriodicSafe ==
    ASSUME BaseInv, TypeOK', SafeInv, Cardinality(Node) # 1, NEW n \in Node,
           raft_periodic(n)
    PROVE  SafeStep(n)
<1>1. VoteStep(n) /\ IndexStep(n) /\ TypeOK
  BY PeriodicVotes, PeriodicIndex DEF BaseInv
<1>2. UNCHANGED <<log, commit_idx, next_idx, match_idx>>
  BY DEF raft_periodic, peerVars
<1>3. CASE raft_send_appendentries_all(n)
  <2>1. /\ UNCHANGED <<state, current_term>> /\ state'[n] = "leader"
        /\ msgs' = msgs \cup {msg_appendentries(n, m)' : m \in Others(n)}
    BY <1>3 DEF raft_send_appendentries_all, serverVars, raft_send
  <2>2. \A r \in msgs' \ msgs : SentBy(n, r)
    BY <2>1 DEF SentBy, msg_appendentries
  <2> QED
    BY <1>1, <1>2, <2>1, <2>2, QuietSafe
<1>4. CASE no_timeout(n)
  <2>1. UNCHANGED <<state, current_term, msgs>>
    BY <1>4 DEF no_timeout, serverVars
  <2> QED
    BY <1>1, <1>2, <2>1, QuietSafe
<1>5. CASE raft_election_start(n)
  <2>1. /\ current_term' = [current_term EXCEPT ![n] = @ + 1]
        /\ state' = [state EXCEPT ![n] = "candidate"]
        /\ msgs' = msgs \cup {msg_requestvote(n, m)' : m \in Others(n)}
    BY <1>5 DEF raft_election_start, raft_become_candidate, raft_send
  <2>2. state'[n] = "candidate" /\ current_term'[n] = current_term[n] + 1
    BY <1>1, <2>1 DEF TypeOK
  <2>3. current_term[n] < current_term'[n]
    BY <1>1, <2>2, StepTypes
  <2>4. \A r \in msgs' \ msgs : SentBy(n, r)
    BY <1>2, <2>1, <2>3 DEF SentBy, msg_requestvote
  <2> QED
    BY <1>1, <1>2, <2>2, <2>4, QuietSafe
<1> QED
  BY <1>3, <1>4, <1>5 DEF raft_periodic, become_sole_leader, num_voting_nodes

\* The voter compares logs before it grants: what it has stored of leaders, the
\* candidate's log is not behind of.
LEMMA RequestVoteSafe ==
    ASSUME BaseInv, TypeOK', SafeInv, NEW n \in Node, NEW m \in msgs,
           raft_recv_requestvote(n, m)
    PROVE  SafeStep(n)
<1> DEFINE grant == should_grant_vote(log[n], adopt_term(n, m), adopt_vote(n, m), m)
<1>1. VoteStep(n) /\ IndexStep(n) /\ TypeOK /\ LeaderStep(n)
  BY RequestVoteVotes, RequestVoteIndex, RequestVoteLeader DEF BaseInv
<1>2. UNCHANGED <<log, commit_idx, next_idx, match_idx>>
  BY DEF raft_recv_requestvote, logVars, peerVars
<1>3. /\ m.type = "rv" /\ m.term \in Nat /\ current_term[n] \in Nat
      /\ m.src \in Node /\ m.last_log_idx \in Nat /\ m.last_log_term \in Terms
  BY <1>1, PacketKinds, TermTypes DEF raft_recv_requestvote, RequestVote
<1>4. /\ current_term'[n] = adopt_term(n, m)
      /\ state'[n] = IF newer(n, m) THEN "follower" ELSE state[n]
      /\ msgs' = msgs \cup {[type |-> "rvr", src |-> n, dst |-> m.src,
                             term |-> adopt_term(n, m), vote_granted |-> grant]}
  BY <1>1 DEF raft_recv_requestvote, raft_send, TypeOK
<1>5. state'[n] = "leader" =>
          state[n] = "leader" /\ current_term'[n] = current_term[n]
  BY <1>3, <1>4 DEF newer, adopt_term, greater
<1>6. ASSUME grant
      PROVE  adopt_term(n, m) = m.term /\ Informed(n, m.term, m.src)
  <2>1. adopt_term(n, m) = m.term
    BY <1>3, <1>6 DEF should_grant_vote, adopt_term, greater
  <2>2. ASSUME NEW l \in Node, NEW u \in Terms, NEW i \in Nat,
               LedEntry(l, u, i), Stored(n, l, u, i)
        PROVE  UpToDate(m, u, i)
    <3>1. SamePrefix(log[l], log[n], i)
      BY <2>2, StoredHas DEF SafeInv
    <3>2. Len(log[n]) # 0
      <4>1. Len(log[n]) \in Nat /\ i >= 1
        BY <1>1, <2>2, LogType DEF LedEntry
      <4> QED
        BY <3>1, <4>1 DEF SamePrefix
    <3>3. LET last == Len(log[n]) IN
          \/ term_at(log[n], last) < m.last_log_term
          \/ term_at(log[n], last) = m.last_log_term /\ last <= m.last_log_idx
      BY <1>6, <3>2 DEF should_grant_vote
    <3> QED
      BY <1>1, <1>3, <2>2, <3>1, <3>3, ComparedLogs DEF SafeInv
  <2> QED
    BY <1>3, <2>1, <2>2 DEF Informed
<1> HIDE DEF grant
<1>7. \A r \in msgs' \ msgs : SentBy(n, r)
  <2> SUFFICES ASSUME NEW r \in msgs' \ msgs
               PROVE  SentBy(n, r)
    OBVIOUS
  <2>1. /\ r.type = "rvr" /\ r.src = n /\ r.dst = m.src
        /\ r.term = adopt_term(n, m) /\ r.vote_granted = grant
    BY <1>4
  <2> QED
    BY <1>4, <1>6, <2>1 DEF SentBy
<1> QED
  BY <1>1, <1>2, <1>5, <1>7, QuietSafe

LEMMA StepDownSafe ==
    ASSUME TypeOK, TypeOK', SafeInv, NEW n \in Node, VoteStep(n), IndexStep(n),
           NEW m, step_down(n, m)
    PROVE  SafeStep(n)
<1>1. UNCHANGED <<log, commit_idx, next_idx, match_idx, msgs>>
  BY DEF step_down, logVars, peerVars
<1>2. state'[n] = "follower"
  BY DEF step_down, TypeOK
<1> QED
  BY <1>1, <1>2, QuietSafe

LEMMA VoteResponseSafe ==
    ASSUME BaseInv, TypeOK', SafeInv, NEW n \in Node, NEW m \in msgs,
           raft_recv_requestvote_response(n, m)
    PROVE  SafeStep(n)
<1>1. VoteStep(n) /\ IndexStep(n) /\ TypeOK
  BY VoteResponseVotes, VoteResponseIndex DEF BaseInv
<1>2. CASE step_down(n, m)
  BY <1>1, <1>2, StepDownSafe
<1>3. CASE raft_become_leader(n)
  <2>1. /\ UNCHANGED <<log, commit_idx>> /\ state'[n] = "leader"
        /\ match_idx' = [match_idx EXCEPT ![n] =
                            [p \in Node |-> IF p = n THEN @[p] ELSE 0]]
        /\ msgs' = msgs \cup {msg_appendentries(n, p)' : p \in Others(n)}
    BY <1>1, <1>3 DEF raft_become_leader, raft_send, logVars, TypeOK
  <2>2. /\ \A p \in Others(n) : match_idx'[p] = match_idx[p]
        /\ \A p \in Others(n) : match_idx'[n][p] = 0
    BY <1>1, <2>1 DEF TypeOK, Others
  <2>3. \A r \in msgs' \ msgs : SentBy(n, r)
    BY <2>1 DEF SentBy, msg_appendentries
  <2> QED
    BY <1>1, <2>1, <2>2, <2>3, MakesSafe
<1>4. CASE count_vote(n, m) /\ ~ raft_become_leader(n)
  <2>1. UNCHANGED <<log, commit_idx, next_idx, match_idx, msgs, state, current_term>>
    BY <1>4 DEF count_vote, logVars, peerVars
  <2> QED
    BY <1>1, <2>1, QuietSafe
<1> QED
  BY <1>2, <1>3, <1>4 DEF raft_recv_requestvote_response

LEMMA EntrySafe ==
    ASSUME BaseInv, TypeOK', SafeInv, Cardinality(Node) # 1, NEW n \in Node, NEW v \in Value,
           raft_recv_entry(n, v)
    PROVE  SafeStep(n)
<1> DEFINE ety == [term |-> current_term[n], data |-> v]
<1>1. VoteStep(n) /\ IndexStep(n) /\ TypeOK
  BY EntryVotes, EntryIndex DEF BaseInv
<1>2. /\ UNCHANGED <<current_term, state, next_idx, match_idx>> /\ state[n] = "leader"
      /\ log'[n] = Append(log[n], ety) /\ commit_idx'[n] = commit_idx[n]
      /\ msgs' = msgs \cup {msg_appendentries(n, p)' :
                               p \in {q \in Others(n) : next_idx[n][q] = Len(log[n]) + 1}}
  BY <1>1 DEF raft_recv_entry, log_append_entry, set_commit_idx, num_voting_nodes,
              raft_send, serverVars, peerVars, TypeOK
<1>3. OneMore(n)
  <2>1. log[n] \in Seq(Entry) /\ ety \in Entry
    BY <1>1 DEF TypeOK, Entry
  <2>2. Len(log'[n]) = Len(log[n]) + 1 /\ log'[n][Len(log[n]) + 1] = ety
    BY <1>2, <2>1, AppendPrefix
  <2> QED
    BY <1>2, <2>2 DEF OneMore
<1>4. \A r \in msgs' \ msgs : SentBy(n, r)
  BY <1>2 DEF SentBy, msg_appendentries
<1> QED
  BY <1>1, <1>2, <1>3, <1>4, MakesSafe, SamePeers DEF SafeInv

LEMMA ClientSafe ==
    ASSUME BaseInv, TypeOK', SafeInv, Cardinality(Node) # 1, NEW n \in Node, NEW v \in Value,
           client_new_message(n, v)
    PROVE  SafeStep(n)
<1>1. CASE raft_recv_entry(n, v)
  BY <1>1, EntrySafe
<1>2. CASE ~ raft_recv_entry(n, v)
  <2>1. VoteStep(n) /\ IndexStep(n) /\ TypeOK
    BY ClientVotes, ClientIndex DEF BaseInv
  <2>2. /\ UNCHANGED <<log, commit_idx, next_idx, match_idx, state, current_term>>
        /\ \A r \in msgs' \ msgs : r.type = "client"
    BY <1>2 DEF client_new_message, raft_send, serverVars, logVars, peerVars
  <2> QED
    BY <2>1, <2>2, QuietSafe DEF SentBy
<1> QED
  BY <1>1, <1>2

\* What a leader commits is chosen: the peers it counts have acknowledged the
\* entry in this term, and the entry is of this term.
LEMMA CountedIsChosen ==
    ASSUME BaseInv, NEW n \in Node, state[n] = "leader", NEW point \in Nat,
           point <= Len(log[n]), NEW matches \in [Node -> Nat],
           commit_allowed(n, point, matches),
           \A p \in Others(n) : matches[p] = 0 \/ Ack(p, n, current_term[n], matches[p])
    PROVE  Chosen(n, current_term[n], point)
<1>1. /\ TypeOK /\ Len(log[n]) \in Nat /\ commit_idx[n] \in Nat /\ commit_idx[n] < point
      /\ term_at(log[n], point) = current_term[n]
  BY LogType DEF BaseInv, TypeOK, commit_allowed
<1>2. LedEntry(n, current_term[n], point)
  <2>1. point \in 1 .. Len(log[n])
    BY <1>1
  <2> QED
    BY <1>1, <2>1 DEF BaseInv, LeadersHeard, LedEntry, term_at
<1> DEFINE S == {q \in Others(n) : point <= matches[q]}
           Q == S \cup {n}
<1>3. Q \in SUBSET Node /\ S \subseteq Node /\ n \notin S
  BY DEF Others
<1>4. IsFiniteSet(S) /\ Cardinality(S) \in Nat /\ Cardinality(Node) \in Nat
  BY <1>3, FS_Subset, FS_CardinalityType
<1>5. Cardinality(Q) = Cardinality(S) + 1
  BY <1>3, <1>4, FS_AddElement
<1>6. Cardinality(Node) \div 2 < 1 + Cardinality(S)
  BY DEF commit_allowed, num_voting_nodes
<1>7. 2 * Cardinality(Q) > Cardinality(Node)
  <2> DEFINE a == Cardinality(Node)
             b == Cardinality(S)
  <2>1. a \in Nat /\ b \in Nat /\ a \div 2 < 1 + b /\ Cardinality(Q) = b + 1
    BY <1>4, <1>5, <1>6
  <2> HIDE DEF a, b, S
  <2>2. 2 * (b + 1) > a
    BY <2>1
  <2> QED
    BY <2>1, <2>2 DEF a
<1>8. ASSUME NEW v \in Q
      PROVE  Stored(v, n, current_term[n], point)
  <2>1. CASE v = n
    BY <2>1 DEF Stored
  <2>2. CASE v \in S
    <3>1. v \in Others(n) /\ v \in Node /\ point <= matches[v] /\ matches[v] \in Nat
      BY <1>3, <2>2
    <3>2. Ack(v, n, current_term[n], matches[v])
      BY <1>1, <3>1
    <3>3. PICK a \in msgs : /\ a.type = "aer" /\ a.success /\ a.src = v /\ a.dst = n
                            /\ a.term = current_term[n] /\ matches[v] <= a.current_idx
      BY <3>2 DEF Ack
    <3>4. a.current_idx \in Nat
      BY <1>1, <3>3, PacketKinds DEF AppendEntriesResponse
    <3>5. point <= a.current_idx
      BY <3>1, <3>3, <3>4
    <3> QED
      BY <3>3, <3>5 DEF Stored, Ack
  <2> QED
    BY <2>1, <2>2
<1> QED
  BY <1>2, <1>3, <1>7, <1>8 DEF Chosen

LEMMA AppendResponseSafe ==
    ASSUME BaseInv, TypeOK', SafeInv, NEW n \in Node, NEW m \in msgs,
           raft_recv_appendentries_response(n, m)
    PROVE  SafeStep(n)
<1>1. VoteStep(n) /\ IndexStep(n) /\ TypeOK
  BY AppendResponseVotes, AppendResponseIndex DEF BaseInv
<1>2. /\ m.type = "aer" /\ m.dst = n /\ m.src \in Node /\ m.current_idx \in Nat
      /\ state[n] = "leader"
  BY <1>1, PacketKinds DEF raft_recv_appendentries_response, AppendEntriesResponse
<1>3. m.src \in Others(n)
  BY <1>2 DEF SafeInv, PacketsTrue, AckTrue, Others
<1>4. CASE step_down(n, m)
  BY <1>1, <1>4, StepDownSafe
<1>5. ASSUME current_term[n] = m.term, UNCHANGED <<serverVars, log>>,
             append_failed(n, m) \/ append_succeeded(n, m)
      PROVE  SafeStep(n)
  <2> DEFINE p == m.src
  <2>1. UNCHANGED <<log, current_term, state>> /\ state'[n] = "leader"
    BY <1>2, <1>5 DEF serverVars
  <2>2. \A r \in msgs' \ msgs : SentBy(n, r)
    <3>1. \A r \in msgs' \ msgs : r = msg_appendentries(n, p)'
      BY <1>5 DEF append_failed, append_succeeded, raft_send
    <3> QED
      BY <1>3, <2>1, <3>1 DEF SentBy, msg_appendentries
  <2>3. \A q \in Others(n) :
            \/ match_idx[n][q] = 0
            \/ /\ next_idx[n][q] = match_idx[n][q] + 1
               /\ Ack(q, n, current_term[n], match_idx[n][q])
    BY <1>2 DEF SafeInv, PeersTrue
  <2>4. /\ next_idx[n][p] \in Nat /\ match_idx[n][p] \in Nat
        /\ \A q \in Others(n) : q \in Node
    <3>1. \A q \in Node : next_idx[n][q] \in Nat \ {0}
      BY <1>1 DEF TypeOK
    <3>2. \A q \in Node : match_idx[n][q] \in Nat
      BY <1>1 DEF TypeOK
    <3> QED
      BY <1>2, <3>1, <3>2 DEF Others
  <2>5. CASE append_failed(n, m)
    <3>1. /\ UNCHANGED <<match_idx, commit_idx>> /\ ~ stale_failure(n, p)
          /\ \A q \in Others(n) : q # p => next_idx'[n][q] = next_idx[n][q]
      BY <1>1, <2>4, <2>5 DEF append_failed, set_next_idx, TypeOK
    <3>2. match_idx'[n][p] = 0
      BY <1>3, <2>3, <2>4, <3>1 DEF stale_failure
    <3>3. \A q \in Others(n) :
              \/ match_idx'[n][q] = 0
              \/ /\ next_idx'[n][q] = match_idx'[n][q] + 1
                 /\ Ack(q, n, current_term'[n], match_idx'[n][q])
      BY <2>1, <2>3, <3>1, <3>2
    <3> QED
      BY <1>1, <2>1, <2>2, <3>1, <3>3, MakesSafe
  <2>6. CASE append_succeeded(n, m)
    <3> DEFINE point == m.current_idx
    <3>1. m.success /\ match_idx[n][p] < point
      BY <2>6 DEF append_succeeded
    <3>2. /\ next_idx'[n][p] = point + 1 /\ match_idx'[n][p] = point
          /\ \A q \in Others(n) : q # p => /\ next_idx'[n][q] = next_idx[n][q]
                                           /\ match_idx'[n][q] = match_idx[n][q]
          /\ \A q \in Others(n) : match_idx'[q] = match_idx[q]
      <4>1. ~ (point + 1 < 1)
        BY <1>2
      <4>2. next_idx' = [next_idx EXCEPT ![n][p] = point + 1]
        BY <2>6, <4>1 DEF append_succeeded, set_next_idx
      <4>3. match_idx' = [match_idx EXCEPT ![n][p] = point]
        BY <2>6 DEF append_succeeded
      <4>4. next_idx'[n][p] = point + 1 /\ match_idx'[n][p] = point
        BY <1>1, <1>2, <4>2, <4>3 DEF TypeOK
      <4>5. \A q \in Others(n) : q # p => /\ next_idx'[n][q] = next_idx[n][q]
                                          /\ match_idx'[n][q] = match_idx[n][q]
        BY <1>1, <1>2, <4>2, <4>3 DEF TypeOK, Others
      <4>6. \A q \in Others(n) : match_idx'[q] = match_idx[q]
        BY <1>1, <4>3 DEF TypeOK, Others
      <4> QED
        BY <4>4, <4>5, <4>6
    <3>3. Ack(p, n, current_term[n], point)
      <4>1. point <= m.current_idx
        BY <1>2
      <4> QED
        BY <1>2, <1>5, <3>1, <4>1 DEF Ack
    <3>4. \A q \in Others(n) :
              \/ match_idx'[n][q] = 0
              \/ /\ next_idx'[n][q] = match_idx'[n][q] + 1
                 /\ Ack(q, n, current_term[n], match_idx'[n][q])
      BY <2>3, <3>2, <3>3
    <3>5. \/ commit_idx'[n] = commit_idx[n]
          \/ commit_idx'[n] = point /\ commit_allowed(n, point, match_idx'[n])
      BY <1>1, <2>6 DEF append_succeeded, set_commit_idx, TypeOK
    <3>6. ASSUME commit_allowed(n, point, match_idx'[n])
          PROVE  /\ Committed(log[n], current_term'[n], point)
                 /\ SamePrefix(log[n], log'[n], point)
      <4>1. point <= Len(log[n])
        BY <1>2, <3>1 DEF BaseInv, IndexInv, AckBounded
      <4>2. match_idx'[n] \in [Node -> Nat]
        BY DEF TypeOK
      <4>3. Chosen(n, current_term[n], point)
        BY <1>2, <3>4, <3>6, <4>1, <4>2, CountedIsChosen
      <4>4. SamePrefix(log[n], log[n], point)
        BY <1>1, <1>2, <4>1, LogType, SamePrefixRefl
      <4>5. current_term[n] \in Terms /\ current_term[n] <= current_term[n] /\ point <= point
        <5>1. current_term[n] \in Terms
          BY <1>1 DEF TypeOK
        <5>2. current_term[n] \in Nat
          BY <1>1, TermTypes
        <5> QED
          BY <1>2, <5>1, <5>2
      <4>6. Committed(log[n], current_term[n], point)
        BY <1>2, <4>3, <4>4, <4>5 DEF Committed
      <4> QED
        BY <2>1, <4>4, <4>6
    <3> HIDE DEF point
    <3>7. \/ commit_idx'[n] = commit_idx[n]
          \/ \E l \in Node : /\ Committed(log[l], current_term'[n], commit_idx'[n])
                             /\ SamePrefix(log[l], log'[n], commit_idx'[n])
      BY <3>5, <3>6
    <3>8. \A q \in Others(n) :
              \/ match_idx'[n][q] = 0
              \/ /\ next_idx'[n][q] = match_idx'[n][q] + 1
                 /\ Ack(q, n, current_term'[n], match_idx'[n][q])
      BY <2>1, <3>4
    <3> QED
      BY <1>1, <2>1, <2>2, <3>2, <3>7, <3>8, MakesSafe
  <2> QED
    BY <1>5, <2>5, <2>6
<1> QED
  BY <1>4, <1>5 DEF raft_recv_appendentries_response

-----------------------------------------------------------------------------
(* MSG_APPENDENTRIES *)

\* How far the receiver's log is the sender's.
LEMMA PacketPrefix ==
    ASSUME BaseInv, SafeInv, NEW n \in Node, NEW m \in msgs, m.type = "ae",
           current_term[n] <= m.term
    PROVE  /\ prev_matches(log[n], m) => SamePrefix(log[m.src], log[n], m.prev_log_idx)
           /\ SamePrefix(log[m.src], log[n], commit_idx[n])
           /\ m.entries # <<>> /\ first_idx(m) <= Len(log[n]) /\ ~ conflicts(n, m)
                => SamePrefix(log[m.src], log[n], first_idx(m))
<1> DEFINE l == m.src
<1>1. /\ TypeOK /\ m \in AppendEntries
  BY PacketKinds DEF BaseInv
<1>2. /\ l \in Node /\ m.prev_log_idx \in Nat /\ first_idx(m) \in Nat /\ last_idx(m) \in Nat
      /\ m.term \in Terms /\ m.entries \in Seq(Entry) /\ Len(m.entries) \in Nat
      /\ log[l] \in Seq(Entry) /\ log[n] \in Seq(Entry)
      /\ Len(log[l]) \in Nat /\ Len(log[n]) \in Nat
      /\ commit_idx[n] \in Nat /\ current_term[n] \in Terms
  BY <1>1, AppendEntriesFields, LogType DEF TypeOK
<1>3. last_idx(m) <= Len(log[l])
  BY DEF BaseInv, IndexInv, AeBounded
<1>4. AeTrue(m) /\ EntryOrigin
  BY DEF SafeInv, PacketsTrue
<1>5. ASSUME prev_matches(log[n], m)
      PROVE  SamePrefix(log[l], log[n], m.prev_log_idx)
  <2>1. CASE m.prev_log_idx = 0
    BY <1>2, <2>1, SamePrefixRefl
  <2>2. CASE m.prev_log_idx # 0
    <3>1. m.prev_log_idx \in 1 .. Len(log[l])
      BY <1>2, <1>3, <2>2 DEF last_idx
    <3>2. /\ m.prev_log_idx <= Len(log[n])
          /\ log[n][m.prev_log_idx].term = m.prev_log_term
      BY <1>2, <1>5, <2>2 DEF prev_matches
    <3>3. m.prev_log_term = log[l][m.prev_log_idx].term
      BY <1>4, <3>1 DEF AeTrue, term_at
    <3> QED
      BY <1>2, <1>4, <3>1, <3>2, <3>3, LogsMatch
  <2> QED
    BY <2>1, <2>2
<1>6. SamePrefix(log[l], log[n], commit_idx[n])
  <2>1. Committed(log[n], current_term[n], commit_idx[n])
    BY DEF SafeInv, CommitTrue
  <2>2. Led(l, m.term)
    BY DEF Led
  <2> QED
    BY <1>2, <2>1, <2>2, LeaderHasCommitted
<1>7. ASSUME m.entries # <<>>, first_idx(m) <= Len(log[n]), ~ conflicts(n, m)
      PROVE  SamePrefix(log[l], log[n], first_idx(m))
  <2>1. CASE first_idx(m) <= commit_idx[n]
    BY <1>2, <1>6, <2>1, SamePrefixLess
  <2>2. CASE commit_idx[n] < first_idx(m)
    <3>1. 1 \in 1 .. Len(m.entries)
      BY <1>2, <1>7
    <3>2. first_entry(m) = log[l][first_idx(m)]
      BY <1>4, <3>1 DEF AeTrue, first_entry, first_idx
    <3>3. first_idx(m) \in 1 .. Len(log[l])
      BY <1>2, <1>3, <3>1 DEF first_idx, last_idx
    <3>4. log[n][first_idx(m)].term = log[l][first_idx(m)].term
      BY <1>7, <2>2, <3>2 DEF conflicts
    <3> QED
      BY <1>2, <1>4, <1>7, <3>3, <3>4, LogsMatch
  <2> QED
    BY <1>2, <2>1, <2>2
<1> QED
  BY <1>5, <1>6, <1>7

\* An answer tells the leader how far its log was found.
LEMMA ReplySafe ==
    ASSUME BaseInv, SafeInv, NEW n \in Node, NEW m \in msgs, m.type = "ae", m.dst = n,
           NEW success, NEW idx, reply(n, m, success, idx),
           success => /\ current_term[n] <= m.term /\ current_term'[n] = m.term
                      /\ SamePrefix(log[m.src], log'[n], idx)
    PROVE  \A r \in msgs' \ msgs : SentBy(n, r)
<1> SUFFICES ASSUME NEW r \in msgs' \ msgs PROVE SentBy(n, r)
  OBVIOUS
<1>1. /\ r.type = "aer" /\ r.src = n /\ r.dst = m.src /\ r.term = adopt_term(n, m)
      /\ r.success = success /\ r.current_idx = idx
  BY DEF reply, raft_send
<1>2. m.src # n /\ m.src \in Node /\ m.term \in Nat /\ current_term[n] \in Nat
  BY PacketKinds, AppendEntriesFields, TermTypes
     DEF SafeInv, PacketsTrue, AeTrue, BaseInv
<1>3. current_term[n] <= m.term => adopt_term(n, m) = m.term
  BY <1>2 DEF adopt_term, greater
<1>4. Led(m.src, m.term)
  BY DEF Led
<1> QED
  BY <1>1, <1>2, <1>3, <1>4 DEF SentBy, NewAck

\* n takes a packet of its own term or of a newer one.
Heard(n, m) ==
    /\ m.type = "ae" /\ m.dst = n
    /\ current_term[n] <= m.term /\ current_term'[n] = m.term
    /\ state'[n] = "leader" =>
          state[n] = "leader" /\ current_term'[n] = current_term[n]
    /\ UNCHANGED <<next_idx, match_idx>>
    /\ VoteStep(n) /\ IndexStep(n)

LEMMA StoreSafe ==
    ASSUME BaseInv, TypeOK', SafeInv, NEW n \in Node, NEW m \in msgs, Heard(n, m),
           log'[n] = log[n] \/ OneMore(n),
           NEW success, NEW idx \in Nat, UNCHANGED msgs \/ reply(n, m, success, idx),
           success => SamePrefix(log[m.src], log'[n], idx),
           \/ commit_idx'[n] = commit_idx[n]
           \/ commit_idx'[n] = m.leader_commit /\ success /\ m.leader_commit <= idx
    PROVE  SafeStep(n)
<1>1. TypeOK /\ VoteStep(n) /\ IndexStep(n)
  BY DEF BaseInv, Heard
<1>2. \A r \in msgs' \ msgs : SentBy(n, r)
  <2>1. CASE UNCHANGED msgs
    BY <2>1
  <2>2. CASE reply(n, m, success, idx)
    BY <2>2, ReplySafe DEF Heard
  <2> QED
    BY <2>1, <2>2
<1>3. ASSUME commit_idx'[n] = m.leader_commit, success, m.leader_commit <= idx
      PROVE  \E l \in Node : /\ Committed(log[l], current_term'[n], commit_idx'[n])
                             /\ SamePrefix(log[l], log'[n], commit_idx'[n])
  <2>1. /\ m.src \in Node /\ m.leader_commit \in Nat
        /\ log[m.src] \in Seq(Entry) /\ log'[n] \in Seq(Entry)
    BY <1>1, PacketKinds, AppendEntriesFields, StepTypes DEF Heard
  <2>2. SamePrefix(log[m.src], log'[n], m.leader_commit)
    BY <1>3, <2>1, SamePrefixLess
  <2>3. Committed(log[m.src], m.term, m.leader_commit)
    BY DEF SafeInv, PacketsTrue, AeTrue, Heard
  <2> QED
    BY <1>3, <2>1, <2>2, <2>3 DEF Heard
<1>4. \A p \in Others(n) : match_idx'[p] = match_idx[p]
  BY DEF Heard
<1> QED
  BY <1>1, <1>2, <1>3, <1>4, MakesSafe, SamePeers DEF Heard, SafeInv

LEMMA FailedAssertSafe ==
    ASSUME BaseInv, TypeOK', SafeInv, NEW n \in Node, NEW m \in msgs, Heard(n, m),
           NEW success, NEW idx \in Nat, failed_assert(n, m, success, idx),
           success => SamePrefix(log[m.src], log[n], idx)
    PROVE  SafeStep(n)
<1>1. UNCHANGED <<log, commit_idx>> /\ (UNCHANGED msgs \/ reply(n, m, success, idx))
  BY DEF failed_assert, logVars
<1> QED
  BY <1>1, StoreSafe

\* The whole packet is in the log: n may take the leader's commit index.
LEMMA WholePacketSafe ==
    ASSUME BaseInv, TypeOK', SafeInv, NEW n \in Node, NEW m \in msgs, Heard(n, m),
           log'[n] = log[n] \/ OneMore(n), SamePrefix(log[m.src], log'[n], last_idx(m)),
           reply(n, m, TRUE, last_idx(m)),
           set_commit_idx(n, commit_after(n, m, Len(log'[n])))
    PROVE  SafeStep(n)
<1>1. TypeOK /\ m \in AppendEntries /\ IndexStep(n)
  BY PacketKinds DEF BaseInv, Heard
<1>2. /\ last_idx(m) \in Nat /\ Len(log'[n]) \in Nat /\ Len(log[n]) \in Nat
      /\ commit_idx[n] \in Nat
  BY <1>1, AppendEntriesFields, StepTypes
<1>3. m.leader_commit <= last_idx(m) /\ commit_idx[n] <= Len(log[n])
  BY DEF BaseInv, IndexInv, AeBounded, Heard
<1>4. Len(log[n]) <= Len(log'[n]) /\ last_idx(m) <= Len(log'[n])
  BY <1>1 DEF IndexStep, GrowStep, SamePrefix
<1>5. commit_idx[n] <= Len(log'[n])
  BY <1>2, <1>3, <1>4
<1>6. commit_after(n, m, Len(log'[n])) \in {commit_idx[n], m.leader_commit}
  BY <1>1, <1>2, <1>3, <1>4, <1>5, CommitAfter
<1>7. commit_idx'[n] = commit_idx[n] \/ commit_idx'[n] = m.leader_commit
  BY <1>1, <1>6 DEF set_commit_idx, TypeOK
<1> QED
  BY <1>2, <1>3, <1>7, StoreSafe

LEMMA AppendFirstSafe ==
    ASSUME BaseInv, TypeOK', SafeInv, NEW n \in Node, NEW m \in msgs, Heard(n, m),
           prev_matches(log[n], m), append_first(n, m)
    PROVE  SafeStep(n)
<1> DEFINE l == m.src
           k == Len(log[n]) + 1
<1>1. TypeOK /\ m \in AppendEntries /\ IndexStep(n) /\ AeTrue(m) /\ m.type = "ae"
  BY PacketKinds DEF BaseInv, Heard, SafeInv, PacketsTrue
<1>2. /\ l \in Node /\ m.entries \in Seq(Entry) /\ m.entries # <<>>
      /\ m.prev_log_idx \in Nat /\ first_idx(m) \in Nat /\ last_idx(m) \in Nat
      /\ Len(m.entries) \in Nat
      /\ log[l] \in Seq(Entry) /\ log[n] \in Seq(Entry) /\ log'[n] \in Seq(Entry)
      /\ Len(log[l]) \in Nat /\ Len(log[n]) \in Nat
  BY <1>1, AppendEntriesFields, StepTypes DEF append_first
<1>3. 1 \in 1 .. Len(m.entries) /\ first_entry(m) \in Entry
  BY <1>2 DEF first_entry
<1>4. m.prev_log_idx = Len(log[n]) /\ first_idx(m) = k
  BY <1>2 DEF append_first, first_idx
<1>5. first_entry(m) = log[l][k]
  BY <1>1, <1>3, <1>4 DEF AeTrue, first_entry
<1>6. k \in 1 .. last_idx(m) /\ last_idx(m) <= Len(log[l])
  <2>1. last_idx(m) <= Len(log[l])
    BY <1>1 DEF BaseInv, IndexInv, AeBounded
  <2> QED
    <3> DEFINE a == m.prev_log_idx
               b == Len(m.entries)
    <3>1. a \in Nat /\ b \in Nat /\ b >= 1 /\ k = a + 1 /\ last_idx(m) = a + b
      BY <1>2, <1>3, <1>4 DEF last_idx
    <3> HIDE DEF a, b, k
    <3>2. k \in 1 .. last_idx(m)
      BY <3>1
    <3> QED
      BY <2>1, <3>2
<1>7. log'[n] = Append(log[n], first_entry(m))
  BY <1>1 DEF append_first, log_append_entry, TypeOK
<1>8. SamePrefix(log[n], log'[n], Len(log[n])) /\ Len(log'[n]) = k /\ log'[n][k] = log[l][k]
  BY <1>2, <1>3, <1>5, <1>7, AppendPrefix
<1>9. SamePrefix(log[l], log'[n], k)
  <2>1. SamePrefix(log[l], log[n], Len(log[n]))
    BY <1>1, <1>4, PacketPrefix DEF Heard
  <2>2. SamePrefix(log[l], log'[n], Len(log[n]))
    <3>1. Len(log[n]) <= Len(log[n])
      BY <1>2
    <3> QED
      BY <1>2, <1>8, <2>1, <3>1, SamePrefixTrans
  <2>3. k <= Len(log[l]) /\ k <= Len(log'[n])
    BY <1>2, <1>6, <1>8
  <2>4. \A j \in 1 .. k : j = k \/ j \in 1 .. Len(log[n])
    BY <1>2
  <2> QED
    BY <1>8, <2>2, <2>3, <2>4 DEF SamePrefix
<1>10. OneMore(n)
  <2>1. log[l][k].term <= current_term'[n]
    BY <1>1, <1>6 DEF AeTrue, Heard
  <2> QED
    BY <1>2, <1>8, <1>9, <2>1 DEF OneMore
<1>11. CASE Len(m.entries) = 1
  <2>1. last_idx(m) = k
    BY <1>2, <1>4, <1>11 DEF last_idx
  <2>2. set_commit_idx(n, commit_after(n, m, k)) /\ reply(n, m, TRUE, k)
    BY <1>4, <1>11 DEF append_first
  <2> HIDE DEF k
  <2> QED
    BY <1>8, <1>9, <1>10, <2>1, <2>2, WholePacketSafe
<1>12. CASE Len(m.entries) # 1
  <2>1. commit_idx'[n] = commit_idx[n] /\ reply(n, m, TRUE, k) /\ k \in Nat
    BY <1>1, <1>2, <1>4, <1>12 DEF append_first, set_commit_idx, TypeOK
  <2> HIDE DEF k
  <2> QED
    BY <1>9, <1>10, <2>1, StoreSafe
<1> QED
  BY <1>11, <1>12

LEMMA AllPresentSafe ==
    ASSUME BaseInv, TypeOK', SafeInv, NEW n \in Node, NEW m \in msgs, Heard(n, m),
           prev_matches(log[n], m), all_present(n, m)
    PROVE  SafeStep(n)
<1>1. TypeOK /\ m \in AppendEntries
  BY PacketKinds DEF BaseInv, Heard
<1>2. /\ m.prev_log_idx \in Nat /\ m.entries \in Seq(Entry)
  BY <1>1, AppendEntriesFields
<1>3. UNCHANGED log
  BY DEF all_present
<1>4. SamePrefix(log[m.src], log'[n], last_idx(m))
  <2>1. CASE m.entries = <<>>
    <3>1. last_idx(m) = m.prev_log_idx
      BY <1>2, <2>1 DEF last_idx
    <3> QED
      BY <1>3, <3>1, PacketPrefix DEF Heard
  <2>2. CASE Len(m.entries) = 1 /\ first_idx(m) <= Len(log[n]) /\ ~ conflicts(n, m)
    <3>1. last_idx(m) = first_idx(m)
      BY <1>2, <2>2 DEF last_idx, first_idx
    <3>2. m.entries # <<>>
      <4>1. Len(m.entries) > 0
        BY <2>2
      <4> QED
        BY <1>2, <4>1
    <3> QED
      BY <1>3, <2>2, <3>1, <3>2, PacketPrefix DEF Heard
  <2> QED
    BY <2>1, <2>2 DEF all_present
<1>5. /\ set_commit_idx(n, commit_after(n, m, Len(log'[n])))
      /\ reply(n, m, TRUE, last_idx(m))
  BY <1>3 DEF all_present
<1> QED
  BY <1>3, <1>4, <1>5, WholePacketSafe

LEMMA NullEntrySafe ==
    ASSUME BaseInv, TypeOK', SafeInv, NEW n \in Node, NEW m \in msgs, Heard(n, m),
           null_entry(n, m)
    PROVE  SafeStep(n)
<1> DEFINE len   == Len(log[n])
           known == lesser(len, last_idx(m))
           deep  == greater(first_idx(m), commit_idx[n])
           fresh == deep + 1
<1>1. TypeOK /\ m \in AppendEntries /\ m.type = "ae"
  BY PacketKinds DEF BaseInv, Heard
<1>2. /\ first_idx(m) \in Nat /\ last_idx(m) \in Nat /\ len \in Nat
      /\ commit_idx[n] \in Nat /\ m.src \in Node /\ m.prev_log_idx \in Nat
      /\ log[n] \in Seq(Entry) /\ log[m.src] \in Seq(Entry) /\ Len(log[m.src]) \in Nat
      /\ m.entries \in Seq(Entry) /\ Len(m.entries) \in Nat
  BY <1>1, AppendEntriesFields, LogType DEF TypeOK
<1>3. Len(m.entries) > 1 /\ first_idx(m) < len /\ ~ conflicts(n, m)
  BY DEF null_entry
<1>4. deep \in Nat /\ SamePrefix(log[m.src], log[n], deep)
  <2>1. m.entries # <<>> /\ first_idx(m) <= len
    BY <1>2, <1>3
  <2>2. /\ SamePrefix(log[m.src], log[n], commit_idx[n])
        /\ SamePrefix(log[m.src], log[n], first_idx(m))
    BY <1>3, <2>1, PacketPrefix DEF Heard
  <2> QED
    BY <1>2, <2>2 DEF greater
<1>5. CASE UNCHANGED <<logVars, msgs>>
  <2>1. UNCHANGED <<log, commit_idx, msgs>>
    BY <1>5 DEF logVars
  <2> QED
    BY <1>4, <2>1, StoreSafe
<1>6. CASE failed_assert(n, m, TRUE, fresh - 1)
  <2>1. fresh - 1 = deep
    BY <1>4
  <2> HIDE DEF deep
  <2> QED
    BY <1>4, <1>6, <2>1, FailedAssertSafe
<1>7. CASE /\ known < fresh /\ known = last_idx(m)
           /\ set_commit_idx(n, commit_after(n, m, len))
           /\ UNCHANGED log /\ reply(n, m, TRUE, last_idx(m))
  <2>1. last_idx(m) <= deep
    <3> HIDE DEF deep, known
    <3> QED
      BY <1>2, <1>4, <1>7
  <2>2. SamePrefix(log[m.src], log'[n], last_idx(m))
    BY <1>2, <1>4, <1>7, <2>1, SamePrefixLess
  <2> QED
    BY <1>7, <2>2, WholePacketSafe
<1>8. CASE known < fresh /\ UNCHANGED <<logVars, down>> /\ reply(n, m, TRUE, known)
  <2>1. known \in Nat
    BY <1>2 DEF lesser
  <2>2. UNCHANGED <<log, commit_idx>>
    BY <1>8 DEF logVars
  <2> HIDE DEF deep, known
  <2>3. known <= deep
    BY <1>4, <1>8, <2>1
  <2>4. SamePrefix(log[m.src], log'[n], known)
    BY <1>2, <1>4, <2>1, <2>2, <2>3, SamePrefixLess
  <2> QED
    BY <1>8, <2>1, <2>2, <2>4, StoreSafe
<1> HIDE DEF deep, known, fresh, len
<1> QED
  BY <1>5, <1>6, <1>7, <1>8 DEF null_entry, len, known, deep, fresh

LEMMA AppendEntriesSafe ==
    ASSUME BaseInv, TypeOK', SafeInv, NEW n \in Node, NEW m \in msgs,
           raft_recv_appendentries(n, m)
    PROVE  SafeStep(n)
<1>1. /\ VoteStep(n) /\ IndexStep(n) /\ TypeOK
      /\ m.type = "ae" /\ m.dst = n /\ UNCHANGED <<next_idx, match_idx>>
  BY AppendEntriesVotes, AppendEntriesIndex
     DEF BaseInv, raft_recv_appendentries, peerVars
<1>2. /\ m.prev_log_idx \in Nat /\ first_idx(m) \in Nat /\ Len(log[n]) \in Nat
      /\ m.entries \in Seq(Entry) /\ m.term \in Nat /\ current_term[n] \in Nat
  BY <1>1, PacketKinds, AppendEntriesFields, LogType, TermTypes
<1>3. CASE stale_term(n, m)
  <2>1. UNCHANGED <<log, commit_idx, state, current_term>> /\ reply(n, m, FALSE, Len(log[n]))
    BY <1>3 DEF stale_term, serverVars, logVars
  <2>2. \A r \in msgs' \ msgs : SentBy(n, r)
    BY <1>1, <2>1, ReplySafe
  <2> QED
    BY <1>1, <2>1, <2>2, QuietSafe
<1>4. CASE ~ stale_term(n, m)
  <2>1. /\ current_term[n] <= m.term
        /\ current_term' = [current_term EXCEPT ![n] = m.term]
        /\ state' = [state EXCEPT ![n] =
                        IF newer(n, m) \/ @ = "candidate" THEN "follower" ELSE @]
    BY <1>4 DEF raft_recv_appendentries
  <2>2. /\ current_term'[n] = m.term
        /\ state'[n] = IF newer(n, m) \/ state[n] = "candidate" THEN "follower"
                                                                ELSE state[n]
    BY <1>1, <2>1 DEF TypeOK
  <2>3. Heard(n, m)
    BY <1>1, <1>2, <2>1, <2>2 DEF Heard, newer
  <2>4. CASE no_prev_entry(n, m)
    <3>1. UNCHANGED <<log, commit_idx>> /\ reply(n, m, FALSE, Len(log[n]))
      BY <2>4 DEF no_prev_entry, logVars
    <3> QED
      BY <1>2, <2>3, <3>1, StoreSafe
  <2>5. CASE prev_conflict(n, m)
    BY <1>2, <2>3, <2>5, FailedAssertSafe DEF prev_conflict
  <2>6. CASE prev_matches(log[n], m) /\ entry_conflict(n, m)
    <3>1. SamePrefix(log[m.src], log[n], m.prev_log_idx)
      BY <1>1, <2>1, <2>6, PacketPrefix
    <3> QED
      BY <1>2, <2>3, <2>6, <3>1, FailedAssertSafe DEF entry_conflict
  <2>7. CASE batch_cut_short(n, m)
    <3>1. /\ UNCHANGED <<log, commit_idx>> /\ reply(n, m, TRUE, first_idx(m))
          /\ first_idx(m) = Len(log[n]) /\ ~ conflicts(n, m) /\ Len(m.entries) > 1
      BY <2>7 DEF batch_cut_short, logVars
    <3>2. first_idx(m) <= Len(log[n])
      BY <1>2, <3>1
    <3>3. m.entries # <<>>
      BY <1>2, <3>1
    <3>4. SamePrefix(log[m.src], log'[n], first_idx(m))
      BY <1>1, <2>1, <3>1, <3>2, <3>3, PacketPrefix
    <3> QED
      BY <1>2, <2>3, <3>1, <3>4, StoreSafe
  <2> QED
    BY <1>4, <2>3, <2>4, <2>5, <2>6, <2>7, AppendFirstSafe, AllPresentSafe, NullEntrySafe
       DEF raft_recv_appendentries
<1> QED
  BY <1>3, <1>4

-----------------------------------------------------------------------------
(* The inductive invariant of the cluster, and what follows from it. *)

ClusterInv ==
    /\ ElectionInv /\ IndexInv /\ LeaderInv
    /\ Cardinality(Node) # 1 => SafeInv

LEMMA SafeInit == Init => SafeInv
<1> SUFFICES ASSUME Init PROVE SafeInv
  OBVIOUS
<1>1. /\ msgs = {} /\ (\A n \in Node : log[n] = <<>> /\ commit_idx[n] = 0)
      /\ \A n \in Node : state[n] = "follower"
  BY DEF Init
<1>2. \A n \in Node : 1 .. Len(log[n]) = {}
  BY <1>1
<1>3. LogTerms /\ EntryOrigin
  BY <1>2 DEF LogTerms, EntryOrigin
<1>4. PacketsTrue /\ VotesInformed
  BY <1>1 DEF PacketsTrue, VotesInformed, Voted
<1>5. PeersTrue /\ CommitTrue
  BY <1>1 DEF PeersTrue, CommitTrue, Committed
<1> QED
  BY <1>3, <1>4, <1>5 DEF SafeInv

LEMMA NextSafe ==
    ASSUME BaseInv, TypeOK', SafeInv, Cardinality(Node) # 1, Next
    PROVE  \E n \in Node : SafeStep(n)
<1>1. PICK n \in Node : \/ raft_periodic(n)
                        \/ \E m \in msgs : Receive(n, m)
                        \/ \E v \in Value : client_new_message(n, v)
  BY DEF Next
<1>2. ASSUME NEW m \in msgs, handle_msg_client(n, m)
      PROVE  SafeStep(n)
  <2>1. m.data \in Value
    BY <1>2 DEF handle_msg_client, BaseInv, TypeOK, Message, RequestVote,
          RequestVoteResponse, AppendEntries, AppendEntriesResponse, ClientMessage
  <2> QED
    BY <1>2, <2>1, EntrySafe DEF handle_msg_client
<1> QED
  BY <1>1, <1>2, PeriodicSafe, RequestVoteSafe, VoteResponseSafe,
     AppendEntriesSafe, AppendResponseSafe, ClientSafe DEF Receive

\* Each step is a step of the kind above, or changes nothing.
LEMMA ClusterStep ==
    ASSUME ClusterInv, [Next]_vars, Cardinality(Node) # 1
    PROVE  \E n \in Node : SafeStep(n)
<1>1. BaseInv /\ SafeInv
  BY DEF ClusterInv, BaseInv, ElectionInv, LeaderInv
<1>2. TypeOK /\ TypeOK'
  BY <1>1, TypeStep DEF BaseInv
<1>3. CASE Next
  BY <1>1, <1>2, <1>3, NextSafe
<1>4. CASE UNCHANGED vars
  <2>1. PICK n \in Node : TRUE
    OBVIOUS
  <2>2. UNCHANGED <<log, commit_idx, next_idx, match_idx, msgs, current_term, voted_for,
                    state, vote_for_me>>
    BY <1>4 DEF vars, serverVars, logVars, peerVars
  <2>3. VoteStep(n) /\ IndexStep(n)
    BY <1>1, <1>2, <2>2, QuietStep, QuietIndex DEF BaseInv
  <2> QED
    BY <1>1, <1>2, <2>2, <2>3, QuietSafe
<1> QED
  BY <1>3, <1>4

LEMMA ClusterNext ==
    ASSUME ClusterInv, [Next]_vars
    PROVE  ClusterInv'
<1>1. ElectionInv' /\ IndexInv' /\ LeaderInv'
  BY ElectionStep, IndexNext, LeaderNext DEF ClusterInv, ElectionInv
<1>2. ASSUME Cardinality(Node) # 1
      PROVE  SafeInv'
  <2>1. BaseInv /\ SafeInv /\ BaseInv'
    BY <1>1, <1>2 DEF ClusterInv, BaseInv, ElectionInv, LeaderInv
  <2> QED
    BY <1>2, <2>1, ClusterStep, SafeStepInv
<1> QED
  BY <1>1, <1>2 DEF ClusterInv

LEMMA ClusterAlways == Spec => []ClusterInv
<1>1. Init => ClusterInv
  BY ElectionInit, IndexInit, LeaderInit, SafeInit DEF ClusterInv
<1>2. ClusterInv /\ [Next]_vars => ClusterInv'
  BY ClusterNext
<1> QED
  BY <1>1, <1>2, PTL DEF Spec

\* A cluster of one node has one log, and sends nothing.
LEMMA OnlyNode ==
    ASSUME ClusterInv, Cardinality(Node) = 1
    PROVE  /\ TypeOK /\ msgs = {} /\ \A a, b \in Node : a = b
           /\ \A a, b \in Node : SamePrefix(log[a], log[b], commit_idx[a])
           /\ \A a \in Node : Others(a) = {}
<1>1. PICK x : Node = {x}
  BY FS_Singleton
<1>2. TypeOK /\ msgs = {}
  BY DEF ClusterInv, ElectionInv, LeaderInv, Alone
<1>3. \A a \in Node : /\ log[a] \in Seq(Entry) /\ commit_idx[a] \in Nat
                      /\ commit_idx[a] <= Len(log[a])
  BY <1>2, LogType DEF TypeOK, ClusterInv, IndexInv
<1>4. \A a \in Node : SamePrefix(log[a], log[a], commit_idx[a])
  BY <1>3, SamePrefixRefl
<1> QED
  BY <1>1, <1>2, <1>4 DEF Others

LEMMA SeveralNodes ==
    ASSUME ClusterInv, Cardinality(Node) # 1
    PROVE  /\ BaseInv /\ SafeInv /\ TypeOK
           /\ \A p \in Node : /\ log[p] \in Seq(Entry) /\ Len(log[p]) \in Nat
                              /\ commit_idx[p] \in Nat /\ current_term[p] \in Terms
<1>1. BaseInv /\ SafeInv /\ TypeOK
  BY DEF ClusterInv, BaseInv, ElectionInv, LeaderInv
<1>2. \A p \in Node : log[p] \in Seq(Entry) /\ Len(log[p]) \in Nat
  BY <1>1, LogType
<1> QED
  BY <1>1, <1>2 DEF TypeOK

LEMMA InvLogMatching == ClusterInv => LogMatching
<1> SUFFICES ASSUME ClusterInv, NEW a \in Node, NEW b \in Node,
                    NEW i \in 1 .. lesser(Len(log[a]), Len(log[b])),
                    log[a][i].term = log[b][i].term
             PROVE  SamePrefix(log[a], log[b], i)
  BY DEF LogMatching
<1>1. TypeOK
  BY DEF ClusterInv, ElectionInv
<1>2. /\ log[a] \in Seq(Entry) /\ log[b] \in Seq(Entry)
      /\ Len(log[a]) \in Nat /\ Len(log[b]) \in Nat
  BY <1>1, LogType
<1>3. i \in 1 .. Len(log[a]) /\ i <= Len(log[b]) /\ i \in Nat
  BY <1>2 DEF lesser
<1>4. CASE Cardinality(Node) = 1
  <2>1. a = b
    BY <1>4, OnlyNode
  <2> QED
    BY <1>2, <1>3, <2>1, SamePrefixRefl
<1>5. CASE Cardinality(Node) # 1
  BY <1>3, <1>5, SeveralNodes, LogsMatch DEF SafeInv
<1> QED
  BY <1>4, <1>5

LEMMA InvMatch == ClusterInv => MatchIsReplicated
<1> SUFFICES ASSUME ClusterInv, NEW n \in Node, state[n] = "leader", NEW p \in Others(n)
             PROVE  SamePrefix(log[n], log[p], match_idx[n][p])
  BY DEF MatchIsReplicated
<1>1. Cardinality(Node) # 1
  BY OnlyNode
<1>2. BaseInv /\ SafeInv /\ TypeOK /\ p \in Node /\ log[n] \in Seq(Entry) /\ log[p] \in Seq(Entry)
  BY <1>1, SeveralNodes DEF Others
<1>3. match_idx[n][p] \in Nat
  <2>1. \A q \in Node : match_idx[n][q] \in Nat
    BY <1>2 DEF TypeOK
  <2> QED
    BY <1>2, <2>1
<1>4. CASE match_idx[n][p] = 0
  BY <1>2, <1>4, SamePrefixRefl
<1>5. CASE Ack(p, n, current_term[n], match_idx[n][p])
  <2>1. PICK a \in msgs : /\ a.type = "aer" /\ a.success /\ a.src = p /\ a.dst = n
                          /\ match_idx[n][p] <= a.current_idx
    BY <1>5 DEF Ack
  <2>2. SamePrefix(log[n], log[p], a.current_idx) /\ a.current_idx \in Nat
    BY <1>2, <2>1, PacketKinds DEF SafeInv, PacketsTrue, AckTrue, AppendEntriesResponse
  <2> QED
    BY <1>2, <1>3, <2>1, <2>2, SamePrefixLess
<1> QED
  BY <1>2, <1>4, <1>5 DEF SafeInv, PeersTrue

LEMMA InvLeaderCompleteness == ClusterInv => LeaderCompleteness
<1> SUFFICES ASSUME ClusterInv, NEW l \in Node, NEW n \in Node, state[l] = "leader",
                    current_term[n] <= current_term[l]
             PROVE  SamePrefix(log[l], log[n], commit_idx[n])
  BY DEF LeaderCompleteness
<1>1. CASE Cardinality(Node) = 1
  BY <1>1, OnlyNode
<1>2. CASE Cardinality(Node) # 1
  <2>1. Committed(log[n], current_term[n], commit_idx[n]) /\ Led(l, current_term[l])
    BY <1>2, SeveralNodes DEF SafeInv, CommitTrue, BaseInv, LeadersHeard
  <2> QED
    BY <1>2, <2>1, SeveralNodes, LeaderHasCommitted
<1> QED
  BY <1>1, <1>2

LEMMA InvCommitted == ClusterInv => CommittedOnMajority
<1> SUFFICES ASSUME ClusterInv, NEW n \in Node,
                    NEW S, S = {p \in Node : SamePrefix(log[n], log[p], commit_idx[n])}
             PROVE  2 * Cardinality(S) > Cardinality(Node)
  BY DEF CommittedOnMajority
<1>1. /\ S \subseteq Node /\ IsFiniteSet(S)
      /\ Cardinality(S) \in Nat /\ Cardinality(Node) \in Nat /\ Cardinality(Node) # 0
  BY FS_Subset, FS_CardinalityType, FS_EmptySet
<1>2. ASSUME NEW Q \in SUBSET Node, Q \subseteq S, 2 * Cardinality(Q) > Cardinality(Node)
      PROVE  2 * Cardinality(S) > Cardinality(Node)
  <2>1. Cardinality(Q) \in Nat /\ Cardinality(Q) <= Cardinality(S)
    BY <1>1, <1>2, FS_Subset, FS_CardinalityType
  <2> QED
    BY <1>1, <1>2, <2>1
<1>3. 2 * Cardinality(Node) > Cardinality(Node)
  BY <1>1
<1>4. CASE Cardinality(Node) = 1
  BY <1>2, <1>3, <1>4, OnlyNode
<1>5. CASE Cardinality(Node) # 1
  <2>1. /\ BaseInv /\ SafeInv /\ TypeOK /\ commit_idx[n] \in Nat
        /\ \A p \in Node : log[p] \in Seq(Entry) /\ Len(log[p]) \in Nat
    BY <1>5, SeveralNodes
  <2>2. Committed(log[n], current_term[n], commit_idx[n])
    BY <2>1 DEF SafeInv, CommitTrue
  <2>3. CASE commit_idx[n] = 0
    <3>1. \A p \in Node : SamePrefix(log[n], log[p], commit_idx[n])
      BY <2>1, <2>3, SamePrefixRefl
    <3> QED
      BY <1>2, <1>3, <3>1
  <2>4. CASE commit_idx[n] # 0
    <3>1. PICK l \in Node, u \in Terms, i \in Nat :
              /\ Chosen(l, u, i) /\ commit_idx[n] <= i
              /\ SamePrefix(log[n], log[l], commit_idx[n])
      BY <2>2, <2>4 DEF Committed
    <3>2. PICK Q \in SUBSET Node : /\ 2 * Cardinality(Q) > Cardinality(Node)
                                   /\ \A v \in Q : Stored(v, l, u, i)
      BY <3>1 DEF Chosen
    <3>3. ASSUME NEW v \in Q
          PROVE  v \in S
      <4>1. SamePrefix(log[l], log[v], i)
        BY <2>1, <3>1, <3>2, StoredHas DEF SafeInv, Chosen
      <4>2. SamePrefix(log[l], log[v], commit_idx[n])
        BY <2>1, <3>1, <4>1, SamePrefixLess
      <4>3. commit_idx[n] <= commit_idx[n]
        BY <2>1
      <4> QED
        BY <2>1, <3>1, <4>2, <4>3, SamePrefixTrans
    <3> QED
      BY <1>2, <3>2, <3>3
  <2> QED
    BY <2>3, <2>4
<1> QED
  BY <1>4, <1>5

LEMMA InvAsserts == ClusterInv => LibraryAsserts
<1> SUFFICES ASSUME ClusterInv, NEW m \in msgs
             PROVE  /\ m.type = "rv"  => rv_asserts(m.dst, m)
                    /\ m.type = "ae"  => ae_asserts(m.dst, m)
                    /\ m.type = "aer" => aer_asserts(m.dst, m)
  BY DEF LibraryAsserts
<1> DEFINE n == m.dst
<1>1. Cardinality(Node) # 1
  BY OnlyNode
<1>2. /\ BaseInv /\ SafeInv /\ TypeOK
      /\ \A p \in Node : /\ log[p] \in Seq(Entry) /\ Len(log[p]) \in Nat
                         /\ commit_idx[p] \in Nat /\ current_term[p] \in Terms
  BY <1>1, SeveralNodes
<1>3. ASSUME m.type = "rv"
      PROVE  rv_asserts(n, m)
  <2>1. n \in Node
    BY <1>2, <1>3, PacketKinds DEF RequestVote
  <2>2. state[n] # "follower" => voted_for[n] # Nil
    BY <1>2, <2>1 DEF BaseInv, VoteInv, CandidateCounts, LeadersHeard, TypeOK, Roles
  <2> QED
    BY <2>2 DEF rv_asserts, should_grant_vote, adopt_vote
<1>4. ASSUME m.type = "ae"
      PROVE  ae_asserts(n, m)
  <2>1. /\ n \in Node /\ m.src \in Node /\ m.prev_log_idx \in Nat /\ m.leader_commit \in Nat
    BY <1>2, <1>4, PacketKinds, AppendEntriesFields DEF AppendEntries
  <2>2. m.leader_commit <= last_idx(m)
    BY <1>2, <1>4 DEF BaseInv, IndexInv, AeBounded
  <2>3. ASSUME current_term[n] <= m.term, prev_differs(log[n], m)
        PROVE  commit_idx[n] < m.prev_log_idx
    <3>1. SUFFICES ASSUME m.prev_log_idx <= commit_idx[n] PROVE FALSE
      BY <1>2, <2>1
    <3>2. SamePrefix(log[m.src], log[n], commit_idx[n])
      BY <1>2, <1>4, <2>1, <2>3, PacketPrefix
    <3>3. SamePrefix(log[m.src], log[n], m.prev_log_idx)
      BY <1>2, <2>1, <3>1, <3>2, SamePrefixLess
    <3>4. /\ m.prev_log_idx > 0
          /\ ~ (m.prev_log_idx <= Len(log[n]) /\ log[n][m.prev_log_idx].term = m.prev_log_term)
      BY <2>3 DEF prev_differs, prev_matches
    <3>5. /\ m.prev_log_idx \in 1 .. Len(log[m.src]) /\ m.prev_log_idx <= Len(log[n])
          /\ log[n][m.prev_log_idx] = log[m.src][m.prev_log_idx]
      BY <1>2, <2>1, <3>3, <3>4 DEF SamePrefix
    <3>6. m.prev_log_term = log[m.src][m.prev_log_idx].term
      BY <1>2, <1>4, <3>5 DEF SafeInv, PacketsTrue, AeTrue, term_at
    <3> QED
      BY <3>4, <3>5, <3>6
  <2>4. ASSUME commit_idx[n] < m.prev_log_idx
        PROVE  commit_idx[n] < greater(m.prev_log_idx, m.leader_commit + 1)
    BY <1>2, <2>1, <2>4 DEF greater
  <2> QED
    BY <2>2, <2>3, <2>4 DEF ae_asserts
<1>5. ASSUME m.type = "aer"
      PROVE  aer_asserts(n, m)
  <2>1. n \in Node /\ m.src \in Node /\ m.src # n
    BY <1>2, <1>5, PacketKinds DEF AppendEntriesResponse, SafeInv, PacketsTrue, AckTrue
  <2>2. \A q \in Node : next_idx[n][q] \in Nat \ {0}
    BY <1>2, <2>1, SMTT(30) DEF TypeOK
  <2>3. \A q \in Node : match_idx[n][q] \in Nat
    BY <1>2, <2>1, SMTT(30) DEF TypeOK
  <2>4. m.success => m.current_idx <= Len(log[n])
    BY <1>2, <1>5 DEF BaseInv, IndexInv, AckBounded
  <2>5. ASSUME state[n] = "leader"
        PROVE  match_idx[n][m.src] <= next_idx[n][m.src] - 1
    <3>1. \/ match_idx[n][m.src] = 0
          \/ next_idx[n][m.src] = match_idx[n][m.src] + 1
      BY <1>2, <2>1, <2>5 DEF SafeInv, PeersTrue, Others
    <3> QED
      BY <2>1, <2>2, <2>3, <3>1
  <2> QED
    BY <2>4, <2>5 DEF aer_asserts
<1> QED
  BY <1>3, <1>4, <1>5

-----------------------------------------------------------------------------
\* Two logs that agree on the term of an entry agree up to it: entries are only
\* taken where prev_log_idx and prev_log_term fit.
THEOREM LogsAgree == Spec => []LogMatching
BY ClusterAlways, InvLogMatching, PTL

\* The match_idx a leader counts is what the peer stores: an answer of the
\* present term never claims more, however late it comes.
THEOREM MatchesReplicated == Spec => []MatchIsReplicated
BY ClusterAlways, InvMatch, PTL

\* A leader has all that anyone of its term or of an earlier one knows committed:
\* nobody wins an election without the vote of a node that stores it.
THEOREM LeadersComplete == Spec => []LeaderCompleteness
BY ClusterAlways, InvLeaderCompleteness, PTL

\* What any node knows committed is stored on a majority, on followers that
\* learned it from leader_commit too.
THEOREM CommitsStored == Spec => []CommittedOnMajority
BY ClusterAlways, InvCommitted, PTL

\* No packet on the air can fail an assert of raft_recv_requestvote,
\* raft_delete_entry_from_idx, raft_set_commit_idx or
\* raft_recv_appendentries_response, whenever it is delivered.
THEOREM AssertsHold == Spec => []LibraryAsserts
BY ClusterAlways, InvAsserts, PTL

=============================================================================
