----------------------- MODULE RaftAgreement_proofs -----------------------
(***************************************************************************)
(* The cluster implements the agreed log.  Committed prefixes of any two   *)
(* nodes are comparable, and a step changes the commit index of one node.  *)
(***************************************************************************)
EXTENDS RaftSafety_proofs, RaftAgreement, SequenceTheorems

USE NodeAssumption, NilAssumption, BoundAssumption

-----------------------------------------------------------------------------
(* Prefixes as sequences *)

LEMMA PrefixSeq ==
    ASSUME NEW a \in Seq(Entry), NEW i \in Nat, i <= Len(a)
    PROVE  /\ SubSeq(a, 1, i) \in Seq(Entry) /\ Len(SubSeq(a, 1, i)) = i
           /\ \A j \in 1 .. i : SubSeq(a, 1, i)[j] = a[j]
<1>1. Len(a) \in Nat /\ \A j \in 1 .. i : a[j] \in Entry
  OBVIOUS
<1>2. SubSeq(a, 1, i) \in Seq(Entry) /\ Len(SubSeq(a, 1, i)) = IF 1 <= i THEN i - 1 + 1 ELSE 0
  BY <1>1, SubSeqProperties
<1>3. \A j \in 1 .. i - 1 + 1 : SubSeq(a, 1, i)[j] = a[1 + j - 1]
  BY <1>1, SubSeqProperties
<1>4. Len(SubSeq(a, 1, i)) = i
  BY <1>2
<1>5. \A j \in 1 .. i : SubSeq(a, 1, i)[j] = a[j]
  BY <1>3
<1> QED
  BY <1>2, <1>4, <1>5

LEMMA SamePrefixSeq ==
    ASSUME NEW a \in Seq(Entry), NEW b \in Seq(Entry), NEW i \in Nat, SamePrefix(a, b, i)
    PROVE  SubSeq(a, 1, i) = SubSeq(b, 1, i)
<1>1. /\ i <= Len(a) /\ i <= Len(b) /\ \A j \in 1 .. i : a[j] = b[j]
  BY DEF SamePrefix
<1> QED
  BY <1>1, PrefixSeq, SeqEqual

LEMMA PrefixOfPrefix ==
    ASSUME NEW a \in Seq(Entry), NEW i \in Nat, NEW j \in Nat, j <= i, i <= Len(a)
    PROVE  SubSeq(SubSeq(a, 1, i), 1, j) = SubSeq(a, 1, j)
<1>1. /\ SubSeq(a, 1, i) \in Seq(Entry) /\ Len(SubSeq(a, 1, i)) = i
      /\ \A k \in 1 .. i : SubSeq(a, 1, i)[k] = a[k]
  BY PrefixSeq
<1>2. j <= Len(a) /\ Len(a) \in Nat
  OBVIOUS
<1>3. SamePrefix(SubSeq(a, 1, i), a, j)
  BY <1>1, <1>2 DEF SamePrefix
<1> QED
  BY <1>1, <1>3, SamePrefixSeq

-----------------------------------------------------------------------------
(* Nodes agree on what is committed. *)

CommitsAgree ==
    \A a, b \in Node :
        commit_idx[a] <= commit_idx[b] => SamePrefix(log[a], log[b], commit_idx[a])

LEMMA InvCommitsAgree == ClusterInv => CommitsAgree
<1> SUFFICES ASSUME ClusterInv, NEW a \in Node, NEW b \in Node, commit_idx[a] <= commit_idx[b]
             PROVE  SamePrefix(log[a], log[b], commit_idx[a])
  BY DEF CommitsAgree
<1>1. CASE Cardinality(Node) = 1
  BY <1>1, OnlyNode
<1>2. CASE Cardinality(Node) # 1
  <2> DEFINE ca == commit_idx[a]
             cb == commit_idx[b]
  <2>1. /\ BaseInv /\ SafeInv /\ ca \in Nat /\ cb \in Nat
        /\ \A p \in Node : log[p] \in Seq(Entry) /\ Len(log[p]) \in Nat
    BY <1>2, SeveralNodes
  <2>2. /\ Committed(log[a], current_term[a], ca)
        /\ Committed(log[b], current_term[b], cb)
    BY <2>1 DEF SafeInv, CommitTrue
  <2>3. CASE ca = 0
    BY <2>1, <2>3, SamePrefixRefl
  <2>4. CASE ca # 0
    <3>1. cb # 0
      BY <2>1, <2>4
    <3>2. PICK l \in Node, u \in Terms, i \in Nat :
              Chosen(l, u, i) /\ ca <= i /\ SamePrefix(log[a], log[l], ca)
      BY <2>2, <2>4 DEF Committed
    <3>3. PICK k \in Node, w \in Terms, j \in Nat :
              Chosen(k, w, j) /\ cb <= j /\ SamePrefix(log[b], log[k], cb)
      BY <2>2, <3>1 DEF Committed
    <3>4. u \in Nat /\ w \in Nat /\ Led(l, u) /\ Led(k, w)
      BY <3>2, <3>3 DEF Terms, Chosen, LedEntry
    <3>5. u <= u /\ w <= w
      BY <3>4
    <3>6. Committed(log[a], u, ca) /\ Committed(log[b], w, cb)
      BY <3>2, <3>3, <3>5 DEF Committed
    <3>7. CASE u <= w
      <4>1. SamePrefix(log[k], log[a], ca)
        BY <2>1, <3>4, <3>6, <3>7, LeaderHasCommitted
      <4>2. SamePrefix(log[b], log[a], ca)
        BY <2>1, <3>3, <4>1, SamePrefixTrans
      <4> QED
        BY <4>2, SamePrefixSym
    <3>8. CASE w <= u
      <4>1. SamePrefix(log[l], log[b], cb)
        BY <2>1, <3>4, <3>6, <3>8, LeaderHasCommitted
      <4>2. SamePrefix(log[l], log[b], ca)
        BY <2>1, <4>1, SamePrefixLess
      <4>3. ca <= ca
        BY <2>1
      <4> QED
        BY <2>1, <3>2, <4>2, <4>3, SamePrefixTrans
    <3> QED
      BY <3>4, <3>7, <3>8
  <2> QED
    BY <2>3, <2>4
<1> QED
  BY <1>1, <1>2

\* Some node knows most.
BestKnows ==
    best_informed \in Node /\ \A m \in Node : commit_idx[m] <= commit_idx[best_informed]

LEMMA InvBestKnows == ClusterInv => BestKnows
<1> SUFFICES ASSUME ClusterInv PROVE BestKnows
  OBVIOUS
<1> DEFINE Behind == {MaxEntries - commit_idx[n] : n \in Node}
<1>1. \A n \in Node : commit_idx[n] \in Nat /\ commit_idx[n] <= MaxEntries
  <2>1. \A n \in Node : commit_idx[n] \in Nat /\ Len(log[n]) \in Nat
    BY LogType DEF ClusterInv, ElectionInv, TypeOK
  <2> QED
    BY <2>1 DEF ClusterInv, IndexInv
<1>2. Behind \subseteq Nat /\ Behind # {}
  BY <1>1
<1>3. PICK d \in Behind : \A e \in Behind : d <= e
  BY <1>2, LeastNumber
<1>4. PICK n \in Node : d = MaxEntries - commit_idx[n]
  BY <1>3
<1>5. \A m \in Node : commit_idx[m] <= commit_idx[n]
  <2> SUFFICES ASSUME NEW m \in Node PROVE commit_idx[m] <= commit_idx[n]
    OBVIOUS
  <2>1. MaxEntries - commit_idx[n] <= MaxEntries - commit_idx[m]
    BY <1>3, <1>4
  <2> QED
    BY <1>1, <2>1
<1> QED
  BY <1>5 DEF BestKnows, best_informed

LEMMA AgreeNext ==
    ASSUME ClusterInv'
    PROVE  CommitsAgree' /\ BestKnows'
BY InvCommitsAgree, InvBestKnows, PTL

-----------------------------------------------------------------------------
(* Steps *)

\* What the step of node n does to committed prefixes.
CommitStepOf(n) ==
    /\ \A p \in Others(n) : log'[p] = log[p] /\ commit_idx'[p] = commit_idx[p]
    /\ commit_idx[n] <= commit_idx'[n]
    /\ SamePrefix(log[n], log'[n], commit_idx[n])

LEMMA OneCommit ==
    ASSUME ClusterInv, TypeOK', Next
    PROVE  \E n \in Node : CommitStepOf(n)
<1>1. TypeOK /\ IndexInv
  BY DEF ClusterInv, ElectionInv
<1>2. PICK n \in Node : IndexStep(n)
  BY <1>1, NextIndex
<1>3. SamePrefix(log[n], log'[n], commit_idx[n])
  BY <1>1, <1>2, IndexStepInv
<1> QED
  BY <1>2, <1>3 DEF IndexStep, GrowStep, CommitStepOf

\* The sequences that the step is about.
LEMMA CommittedSeqs ==
    ASSUME ClusterInv, ClusterInv', NEW p \in Node
    PROVE  /\ log[p] \in Seq(Entry) /\ log'[p] \in Seq(Entry)
           /\ commit_idx[p] \in Nat /\ commit_idx'[p] \in Nat
           /\ commit_idx[p] <= Len(log[p]) /\ commit_idx'[p] <= Len(log'[p])
           /\ committed(p) \in Seq(Entry) /\ Len(committed(p)) = commit_idx[p]
           /\ committed(p)' \in Seq(Entry) /\ Len(committed(p)') = commit_idx'[p]
           /\ committed(p)' = SubSeq(log'[p], 1, commit_idx'[p])
<1>1. TypeOK /\ TypeOK' /\ IndexInv /\ IndexInv'
  BY DEF ClusterInv, ElectionInv
<1>2. /\ log[p] \in Seq(Entry) /\ log'[p] \in Seq(Entry)
      /\ commit_idx[p] \in Nat /\ commit_idx'[p] \in Nat
  BY <1>1, StepTypes
<1>3. commit_idx[p] <= Len(log[p]) /\ commit_idx'[p] <= Len(log'[p])
  BY <1>1 DEF IndexInv
<1> QED
  BY <1>2, <1>3, PrefixSeq DEF committed

LEMMA AgreementStep ==
    ASSUME ClusterInv, ClusterInv', NEW n \in Node, CommitStepOf(n)
    PROVE  [Agreed!AgreedNext]_(Agreed!agreedVars)
<1>1. PICK b \in Node : b = best_informed /\ \A m \in Node : commit_idx[m] <= commit_idx[b]
  BY InvBestKnows DEF BestKnows
<1>2. PICK d \in Node : d = best_informed' /\ \A m \in Node : commit_idx'[m] <= commit_idx'[d]
  BY AgreeNext DEF BestKnows
<1>3. /\ committed(best_informed) = committed(b)
      /\ committed(best_informed)' = committed(d)'
  BY <1>1, <1>2 DEF committed
<1>4. \A p, q \in Node : commit_idx'[p] <= commit_idx'[q]
                            => SamePrefix(log'[p], log'[q], commit_idx'[p])
  BY AgreeNext DEF CommitsAgree
<1>5. \A p \in Node :
         /\ log[p] \in Seq(Entry) /\ log'[p] \in Seq(Entry)
         /\ commit_idx[p] \in Nat /\ commit_idx'[p] \in Nat
         /\ commit_idx[p] <= Len(log[p]) /\ commit_idx'[p] <= Len(log'[p])
         /\ Len(committed(p)) = commit_idx[p] /\ Len(committed(p)') = commit_idx'[p]
         /\ committed(p) = SubSeq(log[p], 1, commit_idx[p])
         /\ committed(p)' = SubSeq(log'[p], 1, commit_idx'[p])
  BY CommittedSeqs DEF committed
<1>6. \A p \in Node : p # n => /\ commit_idx'[p] = commit_idx[p] /\ log'[p] = log[p]
                               /\ committed(p)' = committed(p)
  BY DEF CommitStepOf, committed, Others
<1>7. /\ commit_idx[n] <= commit_idx'[n] /\ SamePrefix(log[n], log'[n], commit_idx[n])
      /\ committed(n) = SubSeq(log'[n], 1, commit_idx[n])
  BY <1>5, SamePrefixSeq DEF CommitStepOf
\* What was agreed is the beginning of every log that is committed as far.
<1>8. ASSUME NEW p \in Node, commit_idx[b] <= commit_idx'[p]
      PROVE  committed(b) = SubSeq(log'[p], 1, commit_idx[b])
  <2>1. CASE b = n
    <3>1. SamePrefix(log'[n], log'[p], commit_idx[n])
      <4>1. CASE commit_idx'[p] <= commit_idx'[n]
        <5>1. SamePrefix(log'[p], log'[n], commit_idx[n])
          BY <1>4, <1>5, <1>8, <2>1, <4>1, SamePrefixLess
        <5> QED
          BY <5>1, SamePrefixSym
      <4>2. CASE commit_idx'[n] <= commit_idx'[p]
        BY <1>4, <1>5, <1>7, <4>2, SamePrefixLess
      <4> QED
        BY <1>5, <4>1, <4>2
    <3>2. SubSeq(log'[n], 1, commit_idx[n]) = SubSeq(log'[p], 1, commit_idx[n])
      BY <1>5, <3>1, SamePrefixSeq
    <3> QED
      BY <1>7, <2>1, <3>2
  <2>2. CASE b # n
    <3>1. SamePrefix(log[b], log'[p], commit_idx[b])
      BY <1>4, <1>6, <1>8, <2>2
    <3> QED
      BY <1>5, <3>1, SamePrefixSeq
  <2> QED
    BY <2>1, <2>2
<1> DEFINE chosen == committed(best_informed)
           known  == [p \in Node |-> committed(p)]
<1>9. CASE commit_idx'[n] = commit_idx[n]
  <2>1. \A p \in Node : commit_idx'[p] = commit_idx[p] /\ committed(p)' = committed(p)
    BY <1>5, <1>6, <1>7, <1>9
  <2>2. commit_idx'[d] = commit_idx[b]
    BY <1>1, <1>2, <1>5, <2>1
  <2>3. committed(d)' = committed(b)
    <3>1. commit_idx[b] <= commit_idx'[d]
      BY <1>5, <2>2
    <3> QED
      BY <1>5, <1>8, <2>2, <3>1
  <2>4. chosen' = chosen /\ known' = known
    BY <1>3, <2>1, <2>3
  <2> QED
    BY <2>4 DEF Agreed!agreedVars
<1>10. CASE commit_idx[n] < commit_idx'[n] /\ commit_idx'[n] <= commit_idx[b]
  <2> DEFINE i == commit_idx'[n]
  <2>1. b # n
    BY <1>5, <1>10
  <2>2. commit_idx'[d] = commit_idx[b]
    <3>1. commit_idx[b] <= commit_idx'[d]
      BY <1>2, <1>6, <2>1
    <3>2. commit_idx'[d] <= commit_idx[b]
      <4>1. CASE d = n
        BY <1>10, <4>1
      <4>2. CASE d # n
        BY <1>1, <1>6, <4>2
      <4> QED
        BY <4>1, <4>2
    <3> QED
      BY <1>5, <3>1, <3>2
  <2>3. committed(d)' = committed(b)
    <3>1. commit_idx[b] <= commit_idx'[d]
      BY <1>5, <2>2
    <3> QED
      BY <1>5, <1>8, <2>2, <3>1
  <2>4. i \in Nat /\ i \in 1 .. Len(chosen)
    BY <1>3, <1>5, <1>10
  <2>5. committed(n)' = SubSeq(chosen, 1, i)
    <3>1. SamePrefix(log'[n], log[b], i)
      BY <1>4, <1>6, <1>10, <2>1
    <3>2. committed(n)' = SubSeq(log[b], 1, i)
      BY <1>5, <3>1, SamePrefixSeq
    <3>3. SubSeq(committed(b), 1, i) = SubSeq(log[b], 1, i)
      BY <1>5, <1>10, PrefixOfPrefix
    <3> QED
      BY <1>3, <3>2, <3>3
  <2>6. known' = [known EXCEPT ![n] = SubSeq(chosen, 1, i)]
    BY <1>6, <2>5
  <2>7. /\ Len(known[n]) < Len(known'[n])
        /\ SubSeq(known'[n], 1, Len(known[n])) = known[n]
    <3>1. SubSeq(committed(n)', 1, commit_idx[n]) = committed(n)
      BY <1>5, <1>7, PrefixOfPrefix
    <3> QED
      BY <1>5, <1>10, <3>1
  <2>8. chosen' = chosen
    BY <1>3, <2>3
  <2>9. Agreed!Learn(n)
    <3> HIDE DEF chosen, known, i
    <3> QED
      BY <2>4, <2>6, <2>7, <2>8 DEF Agreed!Learn, Agreed!Extends, chosen, known
  <2> QED
    BY <2>9 DEF Agreed!AgreedNext
<1>11. CASE commit_idx[b] < commit_idx'[n]
  <2>1. d = n
    <3> SUFFICES ASSUME d # n PROVE FALSE
      OBVIOUS
    <3>1. commit_idx'[d] = commit_idx[d] /\ commit_idx[d] <= commit_idx[b]
      BY <1>1, <1>6
    <3> QED
      BY <1>2, <1>5, <1>11, <3>1
  <2>2. chosen' = committed(n)'
    BY <1>3, <2>1
  <2>3. known' = [known EXCEPT ![n] = chosen']
    BY <1>6, <2>2
  <2>4. /\ Len(chosen) < Len(chosen')
        /\ SubSeq(chosen', 1, Len(chosen)) = chosen
    <3>1. commit_idx[b] <= commit_idx'[n]
      BY <1>5, <1>11
    <3>2. SubSeq(committed(n)', 1, commit_idx[b]) = committed(b)
      BY <1>5, <1>8, <3>1, PrefixOfPrefix
    <3> QED
      BY <1>3, <1>5, <1>11, <2>2, <3>2
  <2>5. Agreed!Choose(n)
    BY <2>3, <2>4 DEF Agreed!Choose, Agreed!Extends
  <2> QED
    BY <2>5 DEF Agreed!AgreedNext
<1> QED
  BY <1>5, <1>7, <1>9, <1>10, <1>11

LEMMA AgreementInit == Init => Agreed!AgreedInit
<1> SUFFICES ASSUME Init PROVE Agreed!AgreedInit
  OBVIOUS
<1>1. \A n \in Node : committed(n) = <<>>
  BY SubSeqEmpty DEF Init, committed
<1>2. best_informed \in Node
  BY ElectionInit, IndexInit, LeaderInit, SafeInit, InvBestKnows DEF ClusterInv, BestKnows
<1> QED
  BY <1>1, <1>2 DEF Agreed!AgreedInit

\* The cluster implements the agreed log: a commit of a leader extends the one
\* sequence, a follower that hears of it learns a longer prefix of that sequence,
\* and no other step of any handler changes what anyone may apply.
THEOREM ImplementsAgreedLog == Spec => Agreement
<1>1. ClusterInv /\ ClusterInv' /\ [Next]_vars => [Agreed!AgreedNext]_(Agreed!agreedVars)
  <2> SUFFICES ASSUME ClusterInv, ClusterInv', [Next]_vars
               PROVE  [Agreed!AgreedNext]_(Agreed!agreedVars)
    OBVIOUS
  <2>1. CASE Next
    <3>1. TypeOK'
      BY DEF ClusterInv, ElectionInv
    <3> QED
      BY <2>1, <3>1, OneCommit, AgreementStep
  <2>2. CASE UNCHANGED vars
    <3>1. UNCHANGED <<log, commit_idx>>
      BY <2>2 DEF vars, logVars
    <3> QED
      BY <3>1 DEF Agreed!agreedVars, committed, best_informed
  <2> QED
    BY <2>1, <2>2
<1> QED
  BY AgreementInit, ClusterAlways, <1>1, PTL DEF Spec, Agreement, Agreed!AgreedSpec

=============================================================================
