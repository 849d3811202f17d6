----------------------- MODULE RaftMembership_proofs -----------------------
(***************************************************************************)
(* The table of nodes of one server is what its log says, for any set of   *)
(* nodes and any length of the log, and no assert on it fails, as long as  *)
(* the application promotes no node that it is taking out of the cluster   *)
(* and entries are deleted from the end of the log.                        *)
(*                                                                         *)
(* The ranges (TypeInv) are inductive by themselves, whatever the          *)
(* application does.  The rest reads the table off the log.  It needs      *)
(* OrderKept, what an application that keeps to the documented order       *)
(* leaves in the log: a node joins, is promoted, demoted and removed at    *)
(* most once each, in that order.  The flags of a node do not remember the *)
(* entries behind them; it is this order that lets raft_pop_log take them  *)
(* back one by one.  The first node of the list, which raft_remove_node    *)
(* frees without unlinking it, is left out of the comparison: the order    *)
(* shows that nothing touches it until it gives up its place.              *)
(***************************************************************************)
EXTENDS RaftMembership, WellFoundedInduction, TLAPS

ChangeType == {"ADD_NONVOTING_NODE", "ADD_NODE", "DEMOTE_NODE", "REMOVE_NODE"}

\* For each type of change, the nodes to which the first n entries apply it.
Told(n) == [type \in ChangeType |-> changes(type, 1, n)]

\* The same with one entry more.
With(c, ety) ==
    [type \in ChangeType |-> c[type] \cup (IF ety.type = type THEN {ety.id} ELSE {})]

\* Nodes add up: what c tells, d tells too.
Within(c, d) == \A type \in ChangeType : c[type] \subseteq d[type]

\* The entry may follow a log that tells c.
InOrder(ety, c) ==
    /\ ety.type = "ADD_NONVOTING_NODE" =>
          /\ ety.id \in Joining
          /\ \A type \in ChangeType : ety.id \notin c[type]
    /\ ety.type = "ADD_NODE" =>
          /\ ety.id \in c["ADD_NONVOTING_NODE"]
          /\ ety.id \notin c["ADD_NODE"]
          /\ ety.id \notin c["DEMOTE_NODE"]
          /\ ety.id \notin c["REMOVE_NODE"]
    /\ ety.type = "DEMOTE_NODE" =>
          /\ ety.id \in Initial \cup c["ADD_NODE"]
          /\ ety.id \notin c["DEMOTE_NODE"]
          /\ ety.id \notin c["REMOVE_NODE"]
    /\ ety.type = "REMOVE_NODE" =>
          /\ ety.id \in Initial \cup c["ADD_NONVOTING_NODE"]
          /\ ety.id \notin c["REMOVE_NODE"]

OrderKept == \A k \in 1 .. Len(log) : InOrder(log[k], Told(k - 1))

\* What such a log tells: only nodes that joined are promoted, and so on.
Ordered(c) ==
    /\ c["ADD_NONVOTING_NODE"] \subseteq Joining
    /\ c["ADD_NODE"] \subseteq c["ADD_NONVOTING_NODE"]
    /\ c["DEMOTE_NODE"] \subseteq Initial \cup c["ADD_NODE"]
    /\ c["REMOVE_NODE"] \subseteq Initial \cup c["ADD_NONVOTING_NODE"]

Table == [nodes : SUBSET Id, voting : SUBSET Id, inactive : SUBSET Id,
          sufficient : SUBSET Id, voting_committed : SUBSET Id,
          addition_committed : SUBSET Id, first : Id, freed : BOOLEAN]

\* Only nodes of the table have flags, and one of them is first.
FlagsOfNodes(t) ==
    /\ t.voting \subseteq t.nodes /\ t.inactive \subseteq t.nodes
    /\ t.sufficient \subseteq t.nodes
    /\ t.voting_committed \subseteq t.nodes /\ t.addition_committed \subseteq t.nodes
    /\ t.first \in t.nodes

Left(t) == IF t.freed THEN {t.first} ELSE {}

\* The table t is that of a log which tells c, and whose applied part tells d.
Read(t, c, d) ==
    LET gone  == d["REMOVE_NODE"] \ {Self}
        nodes == (Initial \cup c["ADD_NONVOTING_NODE"]) \ gone
        left  == Left(t)
    IN
    /\ t.nodes \ left = nodes
    /\ t.voting \ left = (nodes \cap (Initial \cup c["ADD_NODE"])) \ c["DEMOTE_NODE"]
    /\ t.inactive \ left = c["REMOVE_NODE"] \ gone
    /\ t.voting_committed \ left = (nodes \cap d["ADD_NODE"]) \ d["DEMOTE_NODE"]
    /\ t.addition_committed \ left = (d["ADD_NODE"] \cup d["ADD_NONVOTING_NODE"]) \ gone
    /\ left \subseteq t.inactive /\ left \subseteq gone
    /\ t.first \in Initial

Ranges ==
    /\ state \in {"leader", "follower"}
    /\ log \in Seq(Entry)
    /\ commit_idx \in 0 .. Len(log)
    /\ last_applied_idx \in 0 .. commit_idx
    /\ voting_cfg_change_log_idx \in -1 .. Len(log)
    /\ table \in Table
    /\ running \in {"yes", "crashed", "shut down", "torn"}

TypeInv == Ranges /\ FlagsOfNodes(table)

TableRead == Read(table, Told(Len(log)), Told(last_applied_idx))

ReadInv == OrderKept /\ TableRead

MembersInv == TypeInv /\ (running = "yes" => ReadInv)

USE MembersAssumption

-----------------------------------------------------------------------------
(* Entries, and what a part of the log tells. *)

LEMMA EntryKinds ==
    ASSUME NEW ety \in Entry
    PROVE  /\ ety.id \in Id
           /\ ety.type \in ChangeType \cup {"NORMAL"}
           /\ ety = Normal <=> ety.type = "NORMAL"
BY DEF Entry, Normal, Change, ChangeType, Id

LEMMA ToldIs ==
    ASSUME NEW n \in Nat, NEW type \in ChangeType, NEW id
    PROVE  id \in Told(n)[type] <=> \E k \in 1 .. n : log[k].type = type /\ log[k].id = id
BY DEF Told, changes

LEMMA ToldTyped ==
    ASSUME log \in Seq(Entry), NEW n \in 0 .. Len(log)
    PROVE  Told(n) \in [ChangeType -> SUBSET Id]
<1>1. ASSUME NEW k \in 1 .. n PROVE log[k].id \in Id
  BY EntryKinds
<1> QED
  BY <1>1 DEF Told, changes

LEMMA ToldNothing == Told(0) = [type \in ChangeType |-> {}]
BY DEF Told, changes

LEMMA ToldNext ==
    ASSUME NEW n \in Nat
    PROVE  Told(n + 1) = With(Told(n), log[n + 1])
<1>1. ASSUME NEW type \in ChangeType
      PROVE  changes(type, 1, n + 1) =
                changes(type, 1, n) \cup (IF log[n + 1].type = type THEN {log[n + 1].id} ELSE {})
  <2>1. 1 .. n + 1 = (1 .. n) \cup {n + 1}
    OBVIOUS
  <2> QED
    BY <2>1 DEF changes
<1> QED
  BY <1>1 DEF Told, With

LEMMA ToldSame ==
    ASSUME NEW n \in Nat, \A k \in 1 .. n : log'[k] = log[k]
    PROVE  Told(n)' = Told(n)
<1>1. ASSUME NEW type \in ChangeType PROVE changes(type, 1, n)' = changes(type, 1, n)
  BY DEF changes
<1> QED
  BY <1>1 DEF Told

LEMMA ToldGrows ==
    ASSUME NEW m \in Nat, NEW n \in Nat, m <= n
    PROVE  Within(Told(m), Told(n))
BY DEF Told, changes, Within

LEMMA LogOrdered ==
    ASSUME log \in Seq(Entry), OrderKept, NEW n \in 0 .. Len(log)
    PROVE  Ordered(Told(n))
<1>1. ASSUME NEW type \in ChangeType, NEW id \in Told(n)[type]
      PROVE  \E k \in 1 .. n : /\ log[k].type = type /\ log[k].id = id
                               /\ InOrder(log[k], Told(k - 1))
                               /\ Within(Told(k - 1), Told(n))
  <2>1. PICK k \in 1 .. n : log[k].type = type /\ log[k].id = id
    BY ToldIs
  <2>2. k - 1 \in Nat /\ k - 1 <= n /\ k \in 1 .. Len(log)
    OBVIOUS
  <2> QED
    BY <2>1, <2>2, ToldGrows DEF OrderKept
<1> QED
  BY <1>1 DEF InOrder, Within, Ordered, ChangeType

-----------------------------------------------------------------------------
(* The last entry about a node. *)

LEMMA GreatestNumber ==
    ASSUME NEW n \in Nat, NEW S, S \subseteq 1 .. n, S # {}
    PROVE  \E k \in S : \A j \in S : j <= k
<1> DEFINE D == {n - k : k \in S}
<1>1. D \subseteq Nat /\ D # {}
  <2>1. \A k \in S : n - k \in Nat
    OBVIOUS
  <2> QED
    BY <2>1
<1>2. PICK x \in D : \A y \in D : ~ (<<y, x>> \in OpToRel(<, Nat))
  <2> HIDE DEF D
  <2> QED
    BY <1>1, WFMin, NatLessThanWellFounded
<1>3. \A y \in D : ~ (y < x)
  <2> HIDE DEF D
  <2> QED
    BY <1>1, <1>2 DEF OpToRel
<1>4. PICK k \in S : x = n - k
  OBVIOUS
<1>5. ASSUME NEW j \in S PROVE j <= k
  <2>1. n - j \in D /\ j \in 1 .. n /\ k \in 1 .. n
    OBVIOUS
  <2>2. ~ (n - j < n - k)
    BY <1>3, <1>4, <2>1
  <2> QED
    BY <2>1, <2>2
<1> QED
  BY <1>5

\* CHOOSE finds it.
LEMMA GreatestChosen ==
    ASSUME NEW n \in Nat, NEW S, S \subseteq 1 .. n, S # {},
           NEW k, k = CHOOSE i \in S : \A j \in S : j <= i
    PROVE  k \in S /\ \A j \in S : j <= k
BY GreatestNumber

\* The k-th entry is the last one about id: the log tells what it and the order say.
LEMMA ToldByLast ==
    ASSUME log \in Seq(Entry), OrderKept, NEW n \in 0 .. Len(log), NEW id, NEW T \in SUBSET ChangeType,
           NEW k \in 1 .. n, log[k].type \in T, log[k].id = id,
           \A j \in k + 1 .. n : log[j].type \in T => log[j].id # id
    PROVE  /\ InOrder(log[k], Told(k - 1))
           /\ id \in Told(n)[log[k].type]
           /\ \A type \in T \ {log[k].type} : id \in Told(n)[type] <=> id \in Told(k - 1)[type]
<1>1. k - 1 \in Nat /\ k \in 1 .. Len(log)
  OBVIOUS
<1>2. InOrder(log[k], Told(k - 1))
  BY <1>1 DEF OrderKept
<1>3. id \in Told(n)[log[k].type]
  BY ToldIs
<1>4. ASSUME NEW type \in T \ {log[k].type}
      PROVE  id \in Told(n)[type] <=> id \in Told(k - 1)[type]
  <2>1. ASSUME id \in Told(n)[type] PROVE id \in Told(k - 1)[type]
    <3>1. PICK j \in 1 .. n : log[j].type = type /\ log[j].id = id
      BY <2>1, ToldIs
    <3>2. j \notin k + 1 .. n /\ j # k
      BY <3>1
    <3>3. j \in 1 .. k - 1
      BY <3>2
    <3> QED
      BY <1>1, <3>1, <3>3, ToldIs
  <2>2. ASSUME id \in Told(k - 1)[type] PROVE id \in Told(n)[type]
    BY <1>1, <2>2, ToldGrows DEF Within
  <2> QED
    BY <2>1, <2>2
<1> QED
  BY <1>2, <1>3, <1>4

LEMMA LastChange ==
    ASSUME log \in Seq(Entry), OrderKept, NEW id, NEW c, c = Told(Len(log))
    PROVE  /\ last_change(id) \in ChangeType \cup {"NONE"}
           /\ last_change(id) = "NONE" => \A type \in ChangeType : id \notin c[type]
           /\ last_change(id) = "ADD_NONVOTING_NODE" =>
                 /\ id \in c["ADD_NONVOTING_NODE"] /\ id \notin c["ADD_NODE"]
                 /\ id \notin c["DEMOTE_NODE"] /\ id \notin c["REMOVE_NODE"]
           /\ last_change(id) = "ADD_NODE" =>
                 /\ id \in c["ADD_NODE"]
                 /\ id \notin c["DEMOTE_NODE"] /\ id \notin c["REMOVE_NODE"]
           /\ last_change(id) = "DEMOTE_NODE" =>
                 id \in c["DEMOTE_NODE"] /\ id \notin c["REMOVE_NODE"]
           /\ last_change(id) = "REMOVE_NODE" => id \in c["REMOVE_NODE"]
<1> DEFINE S == {k \in 1 .. Len(log) : log[k] # Normal /\ log[k].id = id}
           a == CHOOSE k \in S : \A j \in S : j <= k
<1>1. ASSUME NEW k \in 1 .. Len(log) PROVE log[k] # Normal <=> log[k].type \in ChangeType
  BY EntryKinds DEF ChangeType
<1>2. Len(log) \in Nat
  OBVIOUS
<1>3. CASE S = {}
  <2>1. last_change(id) = "NONE"
    BY <1>3 DEF last_change, about
  <2>2. ASSUME NEW type \in ChangeType, id \in c[type] PROVE FALSE
    BY <1>1, <1>2, <1>3, <2>2, ToldIs
  <2> QED
    BY <2>1, <2>2 DEF ChangeType
<1>4. CASE S # {}
  <2>1. a \in S /\ \A j \in S : j <= a
    <3> HIDE DEF S
    <3>1. S \subseteq 1 .. Len(log)
      BY DEF S
    <3> QED
      BY <1>2, <1>4, <3>1, GreatestChosen
  <2> HIDE DEF a
  <2>2. a \in 1 .. Len(log) /\ log[a].type \in ChangeType /\ log[a].id = id
    BY <1>1, <2>1
  <2>3. last_change(id) = log[a].type
    <3>1. about(id, Len(log)) = a
      BY <1>4 DEF about, a
    <3> QED
      BY <2>2, <3>1 DEF last_change
  <2>4. \A j \in a + 1 .. Len(log) : log[j].type \in ChangeType => log[j].id # id
    BY <1>1, <2>1, <2>2
  <2>5. /\ InOrder(log[a], Told(a - 1)) /\ id \in c[log[a].type]
        /\ \A type \in ChangeType \ {log[a].type} : id \in c[type] <=> id \in Told(a - 1)[type]
    <3>1. ChangeType \in SUBSET ChangeType /\ Len(log) \in 0 .. Len(log)
      BY <1>2
    <3> HIDE DEF S
    <3> QED
      BY <2>2, <2>4, <3>1, ToldByLast, Zenon
  <2> QED
    BY <2>2, <2>3, <2>5 DEF InOrder, ChangeType
<1> QED
  BY <1>3, <1>4

LEMMA LatestIs ==
    ASSUME log \in Seq(Entry), OrderKept, NEW n \in 0 .. Len(log), NEW id
    PROVE  /\ latest(id, n) = "ADD_NODE" <=>
                 id \in Told(n)["ADD_NODE"] /\ id \notin Told(n)["DEMOTE_NODE"]
           /\ latest(id, n) = "NONE" <=>
                 id \notin Told(n)["ADD_NODE"] /\ id \notin Told(n)["DEMOTE_NODE"]
<1> DEFINE T == {"ADD_NODE", "DEMOTE_NODE"}
           S == {k \in 1 .. n : raft_entry_is_voting_cfg_change(log[k]) /\ log[k].id = id}
           a == CHOOSE k \in S : \A j \in S : j <= k
<1>1. T \subseteq ChangeType /\ n \in Nat
  BY DEF ChangeType
<1>2. S = {k \in 1 .. n : log[k].type \in T /\ log[k].id = id}
  BY DEF raft_entry_is_voting_cfg_change
<1>3. CASE S = {}
  <2>1. latest(id, n) = "NONE"
    BY <1>3 DEF latest
  <2>2. ASSUME NEW type \in T, id \in Told(n)[type] PROVE FALSE
    <3>1. PICK k \in 1 .. n : log[k].type = type /\ log[k].id = id
      BY <1>1, <2>2, ToldIs
    <3> QED
      BY <1>2, <1>3, <3>1
  <2> QED
    BY <2>1, <2>2
<1>4. CASE S # {}
  <2>1. a \in S /\ \A j \in S : j <= a
    <3> HIDE DEF S
    <3>1. S \subseteq 1 .. n
      BY DEF S
    <3> QED
      BY <1>1, <1>4, <3>1, GreatestChosen
  <2>2. latest(id, n) = log[a].type
    BY <1>4 DEF latest
  <2> HIDE DEF a
  <2>3. a \in 1 .. n /\ log[a].type \in T /\ log[a].id = id
    BY <1>2, <2>1
  <2>4. \A j \in a + 1 .. n : log[j].type \in T => log[j].id # id
    BY <1>2, <2>1, <2>3
  <2>5. /\ InOrder(log[a], Told(a - 1)) /\ id \in Told(n)[log[a].type]
        /\ \A type \in T \ {log[a].type} : id \in Told(n)[type] <=> id \in Told(a - 1)[type]
    <3> HIDE DEF T
    <3> QED
      BY <1>1, <2>3, <2>4, ToldByLast
  <2> QED
    BY <2>2, <2>3, <2>5 DEF InOrder, ChangeType
<1> QED
  BY <1>3, <1>4

-----------------------------------------------------------------------------
(* What the operations do to the fields of the table. *)

LEMMA UnlinkFields ==
    ASSUME NEW t \in Table, NEW id, NEW u, u = unlink(t, id)
    PROVE  /\ u \in Table
           /\ u.nodes = t.nodes \ {id} /\ u.voting = t.voting \ {id}
           /\ u.inactive = t.inactive \ {id} /\ u.sufficient = t.sufficient \ {id}
           /\ u.voting_committed = t.voting_committed \ {id}
           /\ u.addition_committed = t.addition_committed \ {id}
           /\ u.first = t.first /\ u.freed = t.freed
<1>1. u = [nodes |-> t.nodes \ {id}, voting |-> t.voting \ {id},
           inactive |-> t.inactive \ {id}, sufficient |-> t.sufficient \ {id},
           voting_committed |-> t.voting_committed \ {id},
           addition_committed |-> t.addition_committed \ {id},
           first |-> t.first, freed |-> t.freed]
  BY DEF unlink, Table, Sets
<1> QED
  BY <1>1 DEF Table

LEMMA RemoveTyped ==
    ASSUME NEW t \in Table, FlagsOfNodes(t), NEW id, NEW u, u = raft_remove_node(t, id)
    PROVE  u \in Table /\ FlagsOfNodes(u)
<1>1. CASE id = t.first
  <2>1. u = [t EXCEPT !.freed = TRUE]
    BY <1>1 DEF raft_remove_node
  <2> QED
    BY <2>1 DEF Table, FlagsOfNodes
<1>2. CASE id # t.first
  <2>1. u = unlink(t, id)
    BY <1>2 DEF raft_remove_node
  <2> QED
    BY <1>2, <2>1, UnlinkFields DEF FlagsOfNodes
<1> QED
  BY <1>1, <1>2

LEMMA SlotFields ==
    ASSUME NEW t \in Table, FlagsOfNodes(t), NEW next \in t.nodes, NEW u, u = slot_for(t, next)
    PROVE  /\ u \in Table /\ FlagsOfNodes(u)
           /\ t.freed /\ next # t.first =>
                 /\ u.nodes = t.nodes \ {t.first} /\ u.voting = t.voting \ {t.first}
                 /\ u.inactive = t.inactive \ {t.first}
                 /\ u.voting_committed = t.voting_committed \ {t.first}
                 /\ u.addition_committed = t.addition_committed \ {t.first}
                 /\ u.first = next /\ ~ u.freed
           /\ ~ (t.freed /\ next # t.first) => u = t
<1>1. CASE t.freed /\ next # t.first
  <2> DEFINE v == unlink(t, t.first)
  <2>1. /\ v \in Table
        /\ v.nodes = t.nodes \ {t.first} /\ v.voting = t.voting \ {t.first}
        /\ v.inactive = t.inactive \ {t.first} /\ v.sufficient = t.sufficient \ {t.first}
        /\ v.voting_committed = t.voting_committed \ {t.first}
        /\ v.addition_committed = t.addition_committed \ {t.first}
    BY UnlinkFields
  <2>2. u = [v EXCEPT !.first = next, !.freed = FALSE]
    BY <1>1 DEF slot_for
  <2> HIDE DEF v
  <2>3. next \in Id
    BY DEF Table
  <2>4. /\ u \in Table /\ u.first = next /\ u.freed = FALSE
        /\ u.nodes = v.nodes /\ u.voting = v.voting /\ u.inactive = v.inactive
        /\ u.sufficient = v.sufficient /\ u.voting_committed = v.voting_committed
        /\ u.addition_committed = v.addition_committed
    BY <2>1, <2>2, <2>3 DEF Table
  <2>5. FlagsOfNodes(u)
    BY <1>1, <2>1, <2>4 DEF FlagsOfNodes
  <2> QED
    BY <1>1, <2>1, <2>4, <2>5
<1>2. CASE ~ (t.freed /\ next # t.first)
  <2>1. u = t
    BY <1>2 DEF slot_for
  <2> QED
    BY <1>2, <2>1
<1> QED
  BY <1>1, <1>2

LEMMA LinkFields ==
    ASSUME NEW s \in Table, FlagsOfNodes(s), NEW id \in Id,
           NEW u, u = [nodes |-> s.nodes \cup {id}, voting |-> s.voting \cup {id},
               inactive |-> s.inactive, sufficient |-> s.sufficient,
               voting_committed |-> s.voting_committed,
               addition_committed |-> s.addition_committed,
               first |-> s.first, freed |-> s.freed]
    PROVE  /\ u \in Table /\ FlagsOfNodes(u)
           /\ u.nodes = s.nodes \cup {id} /\ u.voting = s.voting \cup {id}
           /\ u.inactive = s.inactive /\ u.voting_committed = s.voting_committed
           /\ u.addition_committed = s.addition_committed
           /\ u.first = s.first /\ u.freed = s.freed
BY DEF Table, FlagsOfNodes

\* A new node has its place, s, and joins the others.
LEMMA AddFields ==
    ASSUME NEW t \in Table, FlagsOfNodes(t), NEW next \in t.nodes, NEW id \in Id,
           NEW u, u = raft_add_node(t, id, next)
    PROVE  \E s \in Table :
           /\ id \in t.nodes => s = t
           /\ id \notin t.nodes => s = slot_for(t, next)
           /\ u \in Table /\ FlagsOfNodes(u)
           /\ u.nodes = s.nodes \cup {id} /\ u.voting = s.voting \cup {id}
           /\ u.inactive = s.inactive /\ u.voting_committed = s.voting_committed
           /\ u.addition_committed = s.addition_committed
           /\ u.first = s.first /\ u.freed = s.freed
<1>1. PICK s : s = IF id \in t.nodes THEN t ELSE slot_for(t, next)
  OBVIOUS
<1>2. s \in Table /\ FlagsOfNodes(s)
  BY <1>1, SlotFields
<1>3. u = [nodes |-> s.nodes \cup {id}, voting |-> s.voting \cup {id},
               inactive |-> s.inactive, sufficient |-> s.sufficient,
               voting_committed |-> s.voting_committed,
               addition_committed |-> s.addition_committed,
               first |-> s.first, freed |-> s.freed]
  BY <1>1, <1>2 DEF raft_add_node, Table
<1>4. /\ u \in Table /\ FlagsOfNodes(u)
      /\ u.nodes = s.nodes \cup {id} /\ u.voting = s.voting \cup {id}
      /\ u.inactive = s.inactive /\ u.voting_committed = s.voting_committed
      /\ u.addition_committed = s.addition_committed
      /\ u.first = s.first /\ u.freed = s.freed
  BY <1>2, <1>3, LinkFields
<1> QED
  BY <1>1, <1>2, <1>4

-----------------------------------------------------------------------------
(* The ranges hold whatever is proposed. *)

LEMMA OfferTyped ==
    ASSUME NEW t \in Table, FlagsOfNodes(t), NEW ety \in Entry, NEW next \in t.nodes,
           NEW u, u = raft_offer_log(t, ety, next)
    PROVE  /\ u \in Table /\ FlagsOfNodes(u)
           /\ ety.type = "ADD_NODE" => ety.id \in u.nodes
<1> DEFINE id == ety.id
<1>1. id \in Id /\ ety.type \in ChangeType \cup {"NORMAL"}
  BY EntryKinds
<1>2. CASE ety.type = "ADD_NONVOTING_NODE" /\ id \in t.nodes /\ id # Self
  <2>1. u = [t EXCEPT !.inactive = t.inactive \ {id}]
    BY <1>2 DEF raft_offer_log, raft_node_set_active, Table
  <2> QED
    BY <1>1, <1>2, <2>1 DEF FlagsOfNodes, Table
<1>3. CASE ety.type = "ADD_NONVOTING_NODE" /\ id \notin t.nodes
  <2> DEFINE v == raft_add_node(t, id, next)
  <2>1. u = raft_node_set_voting(v, id, FALSE)
    BY <1>3 DEF raft_offer_log, raft_add_non_voting_node
  <2>2. v \in Table /\ FlagsOfNodes(v)
    BY <1>1, AddFields
  <2> HIDE DEF v
  <2>3. u = [v EXCEPT !.voting = v.voting \ {id}]
    BY <2>1, <2>2 DEF raft_node_set_voting, Table
  <2> QED
    BY <1>3, <2>2, <2>3 DEF FlagsOfNodes, Table
<1>4. CASE ety.type = "ADD_NODE"
  <2>1. u = raft_add_node(t, id, next)
    BY <1>4 DEF raft_offer_log
  <2> QED
    BY <1>1, <2>1, AddFields
<1>5. CASE ety.type = "DEMOTE_NODE" /\ id \in t.nodes
  <2>1. u = [t EXCEPT !.voting = t.voting \ {id}]
    BY <1>5 DEF raft_offer_log, raft_node_set_voting, Table
  <2> QED
    BY <1>1, <1>5, <2>1 DEF FlagsOfNodes, Table
<1>6. CASE ety.type = "REMOVE_NODE" /\ id \in t.nodes
  <2>1. u = [t EXCEPT !.inactive = t.inactive \cup {id}]
    BY <1>6 DEF raft_offer_log, raft_node_set_active, Table
  <2> QED
    BY <1>1, <1>6, <2>1 DEF FlagsOfNodes, Table
<1>7. CASE /\ ~ (ety.type = "ADD_NONVOTING_NODE" /\ id \in t.nodes /\ id # Self)
           /\ ~ (ety.type = "ADD_NONVOTING_NODE" /\ id \notin t.nodes)
           /\ ety.type # "ADD_NODE"
           /\ ~ (ety.type = "DEMOTE_NODE" /\ id \in t.nodes)
           /\ ~ (ety.type = "REMOVE_NODE" /\ id \in t.nodes)
  <2>1. u = t
    BY <1>7 DEF raft_offer_log
  <2> QED
    BY <1>7, <2>1
<1> QED
  BY <1>2, <1>3, <1>4, <1>5, <1>6, <1>7

LEMMA PopTyped ==
    ASSUME NEW t \in Table, FlagsOfNodes(t), NEW ety \in Entry, ~ pop_fails(t, ety),
           NEW u, u = raft_pop_log(t, ety)
    PROVE  u \in Table /\ FlagsOfNodes(u)
<1> DEFINE id == ety.id
<1>1. /\ id \in Id /\ ety.type \in ChangeType \cup {"NORMAL"}
      /\ ety.type # "NORMAL" => id \in t.nodes
  BY EntryKinds DEF pop_fails
<1>2. CASE ety.type = "DEMOTE_NODE"
  <2>1. u = [t EXCEPT !.voting = t.voting \cup {id}]
    BY <1>2 DEF raft_pop_log, raft_node_set_voting, Table
  <2> QED
    BY <1>1, <1>2, <2>1 DEF FlagsOfNodes, Table
<1>3. CASE ety.type = "REMOVE_NODE"
  <2>1. u = [t EXCEPT !.inactive = t.inactive \ {id}]
    BY <1>3 DEF raft_pop_log, raft_node_set_active, Table
  <2> QED
    BY <1>1, <2>1 DEF FlagsOfNodes, Table
<1>4. CASE ety.type = "ADD_NONVOTING_NODE"
  <2>1. u = raft_remove_node(t, id)
    BY <1>4 DEF raft_pop_log
  <2> QED
    BY <2>1, RemoveTyped
<1>5. CASE ety.type = "ADD_NODE"
  <2>1. u = [t EXCEPT !.voting = t.voting \ {id}]
    BY <1>5 DEF raft_pop_log, raft_node_set_voting, Table
  <2> QED
    BY <1>1, <2>1 DEF FlagsOfNodes, Table
<1>6. CASE ety.type = "NORMAL"
  <2>1. u = t
    BY <1>6 DEF raft_pop_log
  <2> QED
    BY <2>1
<1> QED
  BY <1>1, <1>2, <1>3, <1>4, <1>5, <1>6 DEF ChangeType

LEMMA ApplyTyped ==
    ASSUME NEW t \in Table, FlagsOfNodes(t), NEW ety \in Entry, ~ apply_fails(t, ety),
           NEW u, u = apply_change(t, ety)
    PROVE  u \in Table /\ FlagsOfNodes(u)
<1> DEFINE id == ety.id
<1>1. id \in Id /\ ety.type \in ChangeType \cup {"NORMAL"}
  BY EntryKinds
<1>2. CASE ety.type = "ADD_NODE"
  <2>1. /\ u.nodes = t.nodes /\ u.voting = t.voting /\ u.inactive = t.inactive
        /\ u.sufficient = t.sufficient \cup {id}
        /\ u.voting_committed = t.voting_committed \cup {id}
        /\ u.addition_committed = t.addition_committed \cup {id}
        /\ u.first = t.first /\ u \in Table
    BY <1>1, <1>2 DEF apply_change, raft_node_set_addition_committed,
          raft_node_set_voting_committed, raft_node_set_has_sufficient_logs, Table
  <2> QED
    BY <1>2, <2>1 DEF apply_fails, FlagsOfNodes
<1>3. CASE ety.type = "ADD_NONVOTING_NODE"
  <2>1. u = [t EXCEPT !.addition_committed = t.addition_committed \cup {id}]
    BY <1>3 DEF apply_change, raft_node_set_addition_committed, Table
  <2> QED
    BY <1>1, <1>3, <2>1 DEF apply_fails, FlagsOfNodes, Table
<1>4. CASE ety.type = "DEMOTE_NODE"
  <2>1. u = [t EXCEPT !.voting_committed = t.voting_committed \ {id}]
    BY <1>4 DEF apply_change, raft_node_set_voting_committed, Table
  <2> QED
    BY <2>1 DEF FlagsOfNodes, Table
<1>5. CASE ety.type = "REMOVE_NODE"
  <2>1. u = raft_remove_node(t, id)
    BY <1>5 DEF apply_change
  <2> QED
    BY <2>1, RemoveTyped
<1>6. CASE ety.type = "NORMAL"
  <2>1. u = t
    BY <1>6 DEF apply_change
  <2> QED
    BY <2>1
<1> QED
  BY <1>1, <1>2, <1>3, <1>4, <1>5, <1>6 DEF ChangeType

LEMMA RangesHold ==
    ASSUME TypeInv
    PROVE  /\ log \in Seq(Entry) /\ Len(log) \in Nat /\ Len(log) \in 0 .. Len(log)
           /\ commit_idx \in 0 .. Len(log) /\ last_applied_idx \in 0 .. commit_idx
           /\ last_applied_idx \in 0 .. Len(log) /\ last_applied_idx <= commit_idx
           /\ table \in Table /\ FlagsOfNodes(table) /\ state \in {"leader", "follower"}
           /\ voting_cfg_change_log_idx \in -1 .. Len(log)
<1>1. /\ log \in Seq(Entry) /\ commit_idx \in 0 .. Len(log) /\ last_applied_idx \in 0 .. commit_idx
      /\ table \in Table /\ FlagsOfNodes(table) /\ state \in {"leader", "follower"}
      /\ voting_cfg_change_log_idx \in -1 .. Len(log)
  BY DEF TypeInv, Ranges
<1>2. Len(log) \in Nat
  BY <1>1
<1>3. /\ Len(log) \in 0 .. Len(log)
      /\ last_applied_idx \in 0 .. Len(log) /\ last_applied_idx <= commit_idx
  BY <1>1, <1>2
<1> QED
  BY <1>1, <1>2, <1>3

\* What an entry marks is in the table once the entry has been offered.
LEMMA AppendTyped ==
    ASSUME TypeInv, running = "yes", NEW ety \in Entry, NEW marked,
           marked = {} \/ (ety.type = "ADD_NODE" /\ marked = {ety.id}),
           append_to_log(ety, marked),
           state' \in {"leader", "follower"}, last_applied_idx' = last_applied_idx,
           commit_idx' \in {commit_idx, Len(log) + 1},
           voting_cfg_change_log_idx' \in {voting_cfg_change_log_idx, Len(log), Len(log) + 1}
    PROVE  TypeInv'
<1>1. /\ log \in Seq(Entry) /\ Len(log) \in Nat
      /\ commit_idx \in 0 .. Len(log) /\ last_applied_idx \in 0 .. commit_idx
      /\ table \in Table /\ FlagsOfNodes(table)
      /\ voting_cfg_change_log_idx \in -1 .. Len(log)
  BY RangesHold
<1>2. log' \in Seq(Entry) /\ Len(log') = Len(log) + 1
  BY <1>1 DEF append_to_log
<1>3. /\ commit_idx' \in 0 .. Len(log') /\ last_applied_idx' \in 0 .. commit_idx'
      /\ voting_cfg_change_log_idx' \in -1 .. Len(log')
  BY <1>1, <1>2
<1>4. CASE offer_fails(table, ety)
  <2>1. running' = "crashed" /\ table' = table
    BY <1>4 DEF append_to_log
  <2> QED
    BY <1>1, <1>2, <1>3, <2>1 DEF TypeInv, Ranges, FlagsOfNodes
<1>5. CASE ~ offer_fails(table, ety)
  <2>1. PICK next \in may_be_first(table) :
           table' = raft_node_set_has_sufficient_logs(raft_offer_log(table, ety, next), marked)
    BY <1>5 DEF append_to_log
  <2>2. running' = "yes" /\ next \in table.nodes
    BY <1>5 DEF append_to_log, may_be_first
  <2>3. PICK u : u = raft_offer_log(table, ety, next)
    OBVIOUS
  <2>4. /\ u \in Table /\ FlagsOfNodes(u) /\ marked \subseteq u.nodes
    BY <1>1, <2>2, <2>3, OfferTyped
  <2>5. table' = [u EXCEPT !.sufficient = u.sufficient \cup marked]
    BY <2>1, <2>3, <2>4 DEF raft_node_set_has_sufficient_logs, Table
  <2>6. table' \in Table /\ FlagsOfNodes(table')
    BY <2>4, <2>5 DEF FlagsOfNodes, Table
  <2> QED
    BY <1>2, <1>3, <2>2, <2>6 DEF TypeInv, Ranges, FlagsOfNodes
<1> QED
  BY <1>4, <1>5

\* What raft_recv_entry and raft_append_entry have in common.
LEMMA RecvEntryIs ==
    ASSUME TypeInv, NEW ety, NEW marked, raft_recv_entry(ety, marked)
    PROVE  /\ running = "yes" /\ append_to_log(ety, marked)
           /\ voting_cfg_change_log_idx' \in {voting_cfg_change_log_idx, Len(log), Len(log) + 1}
           /\ commit_idx' \in {commit_idx, Len(log) + 1}
           /\ state' \in {"leader", "follower"} /\ last_applied_idx' = last_applied_idx
BY DEF raft_recv_entry, current_idx, TypeInv, Ranges

LEMMA AppendEntryIs ==
    ASSUME TypeInv, NEW ety, raft_append_entry(ety)
    PROVE  /\ running = "yes" /\ append_to_log(ety, {}) /\ may_follow(ety)
           /\ voting_cfg_change_log_idx' \in {voting_cfg_change_log_idx, Len(log), Len(log) + 1}
           /\ commit_idx' \in {commit_idx, Len(log) + 1}
           /\ state' \in {"leader", "follower"} /\ last_applied_idx' = last_applied_idx
BY DEF raft_append_entry, current_idx, TypeInv, Ranges

\* The log after a deletion.
LEMMA DeletedLog ==
    ASSUME log \in Seq(Entry), NEW idx \in 1 .. Len(log),
           log' = SubSeq(log, 1, idx - 1) \o SubSeq(log, idx + 1, Len(log))
    PROVE  /\ log' \in Seq(Entry) /\ Len(log') = Len(log) - 1
           /\ \A k \in 1 .. idx - 1 : log'[k] = log[k]
<1> DEFINE p == SubSeq(log, 1, idx - 1)
           q == SubSeq(log, idx + 1, Len(log))
<1>1. p \in Seq(Entry) /\ Len(p) = idx - 1 /\ \A k \in 1 .. idx - 1 : p[k] = log[k]
  OBVIOUS
<1>2. q \in Seq(Entry) /\ Len(q) = Len(log) - idx
  OBVIOUS
<1>3. log' = p \o q /\ Len(log) \in Nat /\ idx \in Nat
  OBVIOUS
<1> HIDE DEF p, q
<1>4. /\ p \o q \in Seq(Entry) /\ Len(p \o q) = Len(p) + Len(q)
      /\ \A k \in 1 .. Len(p) : (p \o q)[k] = p[k]
  BY <1>1, <1>2, SMTT(30)
<1>5. Len(p) + Len(q) = Len(log) - 1
  BY <1>1, <1>2, <1>3
<1> QED
  BY <1>1, <1>3, <1>4, <1>5, Zenon

LEMMA DeleteTyped ==
    ASSUME TypeInv, NEW idx \in Nat, 1 <= idx, raft_delete_entry_from_idx(idx)
    PROVE  TypeInv'
<1>1. /\ log \in Seq(Entry) /\ Len(log) \in Nat
      /\ commit_idx \in 0 .. Len(log) /\ last_applied_idx \in 0 .. commit_idx
      /\ table \in Table /\ FlagsOfNodes(table) /\ state \in {"leader", "follower"}
      /\ voting_cfg_change_log_idx \in -1 .. Len(log)
  BY RangesHold
<1>2. /\ commit_idx < idx /\ idx <= Len(log)
      /\ voting_cfg_change_log_idx' =
            IF idx <= voting_cfg_change_log_idx THEN -1 ELSE voting_cfg_change_log_idx
      /\ state' = state /\ commit_idx' = commit_idx /\ last_applied_idx' = last_applied_idx
  BY DEF raft_delete_entry_from_idx, mark_after_delete, current_idx
<1>3. idx \in 1 .. Len(log) /\ log[idx] \in Entry
  BY <1>1, <1>2
<1>4. log' \in Seq(Entry) /\ Len(log') = Len(log) - 1
  <2>1. log' = SubSeq(log, 1, idx - 1) \o SubSeq(log, idx + 1, Len(log))
    BY DEF raft_delete_entry_from_idx, current_idx
  <2> QED
    BY <1>1, <1>3, <2>1, DeletedLog
<1>5. /\ commit_idx' \in 0 .. Len(log') /\ last_applied_idx' \in 0 .. commit_idx'
      /\ voting_cfg_change_log_idx' \in -1 .. Len(log') /\ state' \in {"leader", "follower"}
  <2>1. /\ commit_idx' \in 0 .. Len(log') /\ last_applied_idx' \in 0 .. commit_idx'
        /\ state' \in {"leader", "follower"}
    BY <1>1, <1>2, <1>4
  <2>2. voting_cfg_change_log_idx' \in -1 .. Len(log')
    BY <1>1, <1>2, <1>3, <1>4
  <2> QED
    BY <2>1, <2>2
<1>6. /\ table' \in Table /\ FlagsOfNodes(table')
      /\ running' \in {"yes", "crashed", "shut down", "torn"}
  <2>1. CASE pop_fails(table, log[idx])
    <3>1. running' = "crashed" /\ table' = table
      BY <2>1 DEF raft_delete_entry_from_idx
    <3> QED
      BY <1>1, <3>1
  <2>2. CASE ~ pop_fails(table, log[idx])
    <3>1. running' \in {"yes", "torn"} /\ table' = raft_pop_log(table, log[idx])
      BY <2>2 DEF raft_delete_entry_from_idx
    <3>2. table' \in Table /\ FlagsOfNodes(table')
      BY <1>1, <1>3, <2>2, <3>1, PopTyped
    <3> QED
      BY <3>1, <3>2
  <2> QED
    BY <2>1, <2>2
<1> QED
  BY <1>4, <1>5, <1>6 DEF TypeInv, Ranges, FlagsOfNodes

LEMMA ApplyTypedStep ==
    ASSUME TypeInv, running = "yes", last_applied_idx < commit_idx, raft_apply_entry,
           state' \in {"leader", "follower"}, UNCHANGED <<log, commit_idx>>
    PROVE  TypeInv'
<1>1. /\ log \in Seq(Entry) /\ Len(log) \in Nat
      /\ commit_idx \in 0 .. Len(log) /\ last_applied_idx \in 0 .. commit_idx
      /\ table \in Table /\ FlagsOfNodes(table)
      /\ voting_cfg_change_log_idx \in -1 .. Len(log)
  BY RangesHold
<1> DEFINE idx == last_applied_idx + 1
<1>2. /\ last_applied_idx' = idx /\ idx \in 0 .. commit_idx /\ log[idx] \in Entry
  <2>1. idx \in 0 .. commit_idx /\ idx \in 1 .. Len(log)
    BY <1>1
  <2>2. log[idx] \in Entry
    BY <1>1, <2>1
  <2>3. last_applied_idx' = idx
    BY DEF raft_apply_entry
  <2> QED
    BY <2>1, <2>2, <2>3
<1>3. CASE log[idx] = Change("REMOVE_NODE", Self)
  <2>1. running' = "shut down" /\ UNCHANGED <<voting_cfg_change_log_idx, table>>
    BY <1>3 DEF raft_apply_entry
  <2> QED
    BY <1>1, <1>2, <2>1 DEF TypeInv, Ranges, FlagsOfNodes
<1>4. CASE log[idx] # Change("REMOVE_NODE", Self)
  <2>1. voting_cfg_change_log_idx' \in -1 .. Len(log)
    BY <1>1, <1>4 DEF raft_apply_entry
  <2>2. CASE apply_fails(table, log[idx])
    <3>1. running' = "crashed" /\ table' = table
      BY <1>4, <2>2 DEF raft_apply_entry
    <3> QED
      BY <1>1, <1>2, <2>1, <3>1 DEF TypeInv, Ranges, FlagsOfNodes
  <2>3. CASE ~ apply_fails(table, log[idx])
    <3>1. running' = "yes" /\ table' = apply_change(table, log[idx])
      BY <1>4, <2>3 DEF raft_apply_entry
    <3>2. table' \in Table /\ FlagsOfNodes(table')
      BY <1>1, <1>2, <2>3, <3>1, ApplyTyped
    <3> QED
      BY <1>1, <1>2, <2>1, <3>1, <3>2 DEF TypeInv, Ranges, FlagsOfNodes
  <2> QED
    BY <2>2, <2>3
<1> QED
  BY <1>3, <1>4

\* Steps that leave log and table alone, and the index that has been applied.
LEMMA OthersTyped ==
    ASSUME TypeInv, state' \in {"leader", "follower"}, commit_idx' \in commit_idx .. Len(log),
           UNCHANGED <<log, last_applied_idx, voting_cfg_change_log_idx, table, running>>
    PROVE  TypeInv'
<1>1. /\ log \in Seq(Entry) /\ Len(log) \in Nat
      /\ commit_idx \in 0 .. Len(log) /\ last_applied_idx \in 0 .. commit_idx
  BY RangesHold
<1>2. commit_idx' \in 0 .. Len(log) /\ last_applied_idx' \in 0 .. commit_idx'
  BY <1>1
<1> QED
  BY <1>2 DEF TypeInv, Ranges, FlagsOfNodes

\* Which steps these are.
LEMMA OtherSteps ==
    ASSUME TypeInv,
           \/ \E idx \in 1 .. MaxEntries : raft_set_commit_idx(idx)
           \/ raft_periodic /\ ~ (last_applied_idx < commit_idx)
           \/ raft_become_leader \/ raft_become_follower
           \/ UNCHANGED vars
    PROVE  /\ state' \in {"leader", "follower"} /\ commit_idx' \in commit_idx .. Len(log)
           /\ UNCHANGED <<log, last_applied_idx, voting_cfg_change_log_idx, table, running>>
<1>1. commit_idx \in 0 .. Len(log) /\ Len(log) \in Nat /\ state \in {"leader", "follower"}
  BY RangesHold
<1>2. commit_idx \in commit_idx .. Len(log)
  BY <1>1
<1>3. ASSUME NEW idx \in 1 .. MaxEntries, raft_set_commit_idx(idx)
      PROVE  /\ state' = state /\ commit_idx' \in commit_idx .. Len(log)
             /\ UNCHANGED <<log, last_applied_idx, voting_cfg_change_log_idx, table, running>>
  BY <1>1, <1>3 DEF raft_set_commit_idx, current_idx
<1>4. CASE raft_periodic /\ ~ (last_applied_idx < commit_idx)
  BY <1>1, <1>2, <1>4 DEF raft_periodic
<1>5. CASE raft_become_leader \/ raft_become_follower
  BY <1>2, <1>5 DEF raft_become_leader, raft_become_follower
<1>6. CASE UNCHANGED vars
  BY <1>1, <1>2, <1>6 DEF vars
<1> QED
  BY <1>1, <1>3, <1>4, <1>5, <1>6

LEMMA TypeInit == Init => TypeInv
<1> SUFFICES ASSUME Init PROVE TypeInv
  OBVIOUS
<1>1. /\ state = "follower" /\ log = <<>> /\ commit_idx = 0 /\ last_applied_idx = 0
      /\ voting_cfg_change_log_idx = -1 /\ running = "yes" /\ Len(log) = 0
      /\ table = [nodes |-> Initial, voting |-> Initial, inactive |-> {}, sufficient |-> {},
                  voting_committed |-> {}, addition_committed |-> {},
                  first |-> First, freed |-> FALSE]
  BY DEF Init, table_of
<1>2. Ranges
  BY <1>1 DEF Ranges, Table, Id
<1>3. FlagsOfNodes(table)
  BY <1>1 DEF FlagsOfNodes
<1> QED
  BY <1>2, <1>3 DEF TypeInv

LEMMA TypeNext == TypeInv /\ [Next]_vars => TypeInv'
<1> SUFFICES ASSUME TypeInv, [Next]_vars PROVE TypeInv'
  OBVIOUS
<1>1. ASSUME NEW ety \in Entry, propose(ety) PROVE TypeInv'
  <2>1. raft_recv_entry(ety, {})
    BY <1>1 DEF propose
  <2> QED
    BY <2>1, RecvEntryIs, AppendTyped
<1>2. ASSUME NEW ety \in Entry, raft_append_entry(ety) PROVE TypeInv'
  BY <1>2, AppendEntryIs, AppendTyped
<1>3. ASSUME NEW id \in Id, node_has_sufficient_logs(id) PROVE TypeInv'
  <2>1. PICK ety \in Entry : ety = Change("ADD_NODE", id)
    BY DEF Change, Entry
  <2>2. raft_recv_entry(ety, {id}) /\ ety.type = "ADD_NODE" /\ ety.id = id
    BY <1>3, <2>1 DEF node_has_sufficient_logs, Change
  <2> QED
    BY <2>2, RecvEntryIs, AppendTyped
<1>4. ASSUME NEW idx \in 1 .. MaxEntries, raft_delete_entry_from_idx(idx) PROVE TypeInv'
  BY <1>4, DeleteTyped
<1>5. CASE raft_periodic /\ last_applied_idx < commit_idx
  BY <1>5, ApplyTypedStep DEF raft_periodic, TypeInv, Ranges
<1>6. CASE \/ \E idx \in 1 .. MaxEntries : raft_set_commit_idx(idx)
           \/ raft_periodic /\ ~ (last_applied_idx < commit_idx)
           \/ raft_become_leader \/ raft_become_follower
           \/ UNCHANGED vars
  BY <1>6, OtherSteps, OthersTyped
<1> QED
  BY <1>1, <1>2, <1>3, <1>4, <1>5, <1>6 DEF Next

-----------------------------------------------------------------------------
(* The table is the one read off the log, whatever is done to both. *)

LEMMA WithIs ==
    ASSUME NEW c \in [ChangeType -> SUBSET Id], NEW ety \in Entry
    PROVE  /\ With(c, ety) \in [ChangeType -> SUBSET Id]
           /\ \A type \in ChangeType :
                 With(c, ety)[type] = IF ety.type = type THEN c[type] \cup {ety.id} ELSE c[type]
BY EntryKinds DEF With

\* No entry in order is about the freed node: its removal has been told already.
LEMMA NotLeft ==
    ASSUME NEW ety \in Entry, ety.type # "NORMAL", NEW t, NEW b, NEW c, NEW d, Within(d, c),
           InOrder(ety, c), Read(t, b, d)
    PROVE  ety.id \notin Left(t)
<1>1. ety.type \in ChangeType
  BY EntryKinds
<1>2. d["REMOVE_NODE"] \subseteq c["REMOVE_NODE"]
  BY DEF Within, ChangeType
<1>3. ety.id \notin c["REMOVE_NODE"]
  BY <1>1 DEF InOrder, ChangeType
<1> QED
  BY <1>2, <1>3 DEF Read

\* A node that the order lets be changed is in the table, and votes or not as the
\* asserts of raft_offer_log want it.
LEMMA OfferRead ==
    ASSUME NEW t \in Table, FlagsOfNodes(t), NEW ety \in Entry, NEW next \in t.nodes \cap Initial,
           NEW c \in [ChangeType -> SUBSET Id], NEW d \in [ChangeType -> SUBSET Id],
           Within(d, c), Ordered(c), InOrder(ety, c), Read(t, c, d),
           NEW u, u = raft_offer_log(t, ety, next)
    PROVE  /\ ~ offer_fails(t, ety)
           /\ Read(u, With(c, ety), d)
<1> DEFINE id == ety.id
           e == With(c, ety)
<1>1. id \in Id /\ ety.type \in ChangeType \cup {"NORMAL"}
  BY EntryKinds
<1>2. \A type \in ChangeType :
         /\ e[type] = IF ety.type = type THEN c[type] \cup {id} ELSE c[type]
         /\ d[type] \subseteq c[type] /\ c[type] \subseteq Id /\ d[type] \subseteq Id
  <2>1. \A type \in ChangeType :
           e[type] = IF ety.type = type THEN c[type] \cup {id} ELSE c[type]
    BY WithIs
  <2> HIDE DEF e
  <2> QED
    BY <2>1 DEF Within
<1>3. ety.type # "NORMAL" => id \notin Left(t)
  BY NotLeft
<1> HIDE DEF e
<1>4. CASE ety.type = "NORMAL"
  <2>1. u = t
    BY <1>4 DEF raft_offer_log
  <2>2. \A type \in ChangeType : e[type] = c[type]
    BY <1>2, <1>4 DEF ChangeType
  <2> QED
    BY <1>4, <2>1, <2>2 DEF offer_fails, Read, ChangeType, e
<1>5. CASE ety.type = "ADD_NONVOTING_NODE"
  <2>1. id \notin t.nodes \ Left(t) /\ id \in Joining
    BY <1>2, <1>5 DEF Read, InOrder, ChangeType
  <2>2. id \notin t.nodes
    BY <1>3, <1>5, <2>1
  <2> DEFINE v == raft_add_node(t, id, next)
  <2>3. next \in t.nodes
    OBVIOUS
  <2>4. PICK s \in Table :
           /\ s = slot_for(t, next)
           /\ v \in Table
           /\ v.nodes = s.nodes \cup {id} /\ v.voting = s.voting \cup {id}
           /\ v.inactive = s.inactive /\ v.voting_committed = s.voting_committed
           /\ v.addition_committed = s.addition_committed
           /\ v.first = s.first /\ v.freed = s.freed
    BY <1>1, <2>2, <2>3, AddFields
  <2>5. u = raft_node_set_voting(v, id, FALSE)
    BY <1>5, <2>2 DEF raft_offer_log, raft_add_non_voting_node
  <2> HIDE DEF v
  <2>6. /\ u.nodes = v.nodes /\ u.voting = v.voting \ {id} /\ u.inactive = v.inactive
        /\ u.voting_committed = v.voting_committed
        /\ u.addition_committed = v.addition_committed
        /\ u.first = v.first /\ u.freed = v.freed
    BY <2>4, <2>5 DEF raft_node_set_voting, Table
  <2>7. /\ s.nodes \ Left(s) = t.nodes \ Left(t) /\ s.voting \ Left(s) = t.voting \ Left(t)
        /\ s.inactive \ Left(s) = t.inactive \ Left(t)
        /\ s.voting_committed \ Left(s) = t.voting_committed \ Left(t)
        /\ s.addition_committed \ Left(s) = t.addition_committed \ Left(t)
        /\ Left(s) \subseteq Left(t) /\ Left(s) \subseteq s.inactive /\ s.first \in Initial
    <3>1. CASE t.freed /\ next # t.first
      BY <2>3, <2>4, <3>1, SlotFields DEF Left
    <3>2. CASE ~ (t.freed /\ next # t.first)
      BY <2>3, <2>4, <3>2, SlotFields DEF Read
    <3> QED
      BY <3>1, <3>2
  <2>8. Left(u) = Left(s)
    BY <2>4, <2>6 DEF Left
  <2>9. /\ id \notin Left(s) /\ id \notin s.voting \ Left(s)
    BY <1>3, <1>5, <2>2, <2>7 DEF FlagsOfNodes
  <2>10. /\ u.nodes \ Left(u) = (t.nodes \ Left(t)) \cup {id}
         /\ u.voting \ Left(u) = t.voting \ Left(t)
         /\ u.inactive \ Left(u) = t.inactive \ Left(t)
         /\ u.voting_committed \ Left(u) = t.voting_committed \ Left(t)
         /\ u.addition_committed \ Left(u) = t.addition_committed \ Left(t)
         /\ Left(u) \subseteq Left(t) /\ Left(u) \subseteq u.inactive /\ u.first \in Initial
    BY <2>4, <2>6, <2>7, <2>8, <2>9
  <2>11. Read(u, e, d)
    BY <1>2, <1>5, <2>10 DEF Read, InOrder, ChangeType, Ordered
  <2> QED
    BY <1>5, <2>11 DEF offer_fails, e
<1>6. CASE ety.type = "ADD_NODE"
  <2>1. id \in t.nodes /\ id \notin t.voting
    BY <1>2, <1>3, <1>6 DEF Read, InOrder, ChangeType, Ordered
  <2>2. /\ u.nodes = t.nodes /\ u.voting = t.voting \cup {id} /\ u.inactive = t.inactive
        /\ u.voting_committed = t.voting_committed
        /\ u.addition_committed = t.addition_committed
        /\ u.first = t.first /\ u.freed = t.freed
    <3>1. u = raft_add_node(t, id, next)
      BY <1>6 DEF raft_offer_log
    <3>2. u = [t EXCEPT !.nodes = @ \cup {id}, !.voting = @ \cup {id}]
      BY <2>1, <3>1 DEF raft_add_node
    <3>3. t.nodes \cup {id} = t.nodes
      BY <2>1
    <3> QED
      BY <1>1, <3>2, <3>3 DEF Table
  <2>3. Left(u) = Left(t)
    BY <2>2 DEF Left
  <2>4. Read(u, e, d)
    BY <1>2, <1>3, <1>6, <2>1, <2>2, <2>3 DEF Read, InOrder, ChangeType
  <2> QED
    BY <1>6, <2>1, <2>4 DEF offer_fails, e
<1>7. CASE ety.type = "DEMOTE_NODE"
  <2>1. id \in t.nodes /\ id \in t.voting
    BY <1>2, <1>3, <1>7 DEF Read, InOrder, ChangeType, Ordered
  <2>2. /\ u.nodes = t.nodes /\ u.voting = t.voting \ {id} /\ u.inactive = t.inactive
        /\ u.voting_committed = t.voting_committed
        /\ u.addition_committed = t.addition_committed
        /\ u.first = t.first /\ u.freed = t.freed
    BY <1>1, <1>7, <2>1 DEF raft_offer_log, raft_node_set_voting, Table
  <2>3. Left(u) = Left(t)
    BY <2>2 DEF Left
  <2>4. Read(u, e, d)
    BY <1>2, <1>3, <1>7, <2>1, <2>2, <2>3 DEF Read, InOrder, ChangeType
  <2> QED
    BY <1>7, <2>1, <2>4 DEF offer_fails, e
<1>8. CASE ety.type = "REMOVE_NODE"
  <2>1. id \in t.nodes
    BY <1>2, <1>3, <1>8 DEF Read, InOrder, ChangeType, Ordered
  <2>2. /\ u.nodes = t.nodes /\ u.voting = t.voting /\ u.inactive = t.inactive \cup {id}
        /\ u.voting_committed = t.voting_committed
        /\ u.addition_committed = t.addition_committed
        /\ u.first = t.first /\ u.freed = t.freed
    BY <1>1, <1>8, <2>1 DEF raft_offer_log, raft_node_set_active, Table
  <2>3. Left(u) = Left(t)
    BY <2>2 DEF Left
  <2>4. Read(u, e, d)
    BY <1>2, <1>3, <1>8, <2>1, <2>2, <2>3 DEF Read, InOrder, ChangeType
  <2> QED
    BY <1>8, <2>1, <2>4 DEF offer_fails, e
<1> QED
  BY <1>1, <1>4, <1>5, <1>6, <1>7, <1>8 DEF ChangeType

\* The last entry, with everything before it in order and nothing of it applied,
\* leaves no trace when it is taken back.
LEMMA PopRead ==
    ASSUME NEW t \in Table, FlagsOfNodes(t), NEW ety \in Entry,
           NEW c \in [ChangeType -> SUBSET Id], NEW d \in [ChangeType -> SUBSET Id],
           Within(d, c), Ordered(c), InOrder(ety, c), Read(t, With(c, ety), d),
           NEW u, u = raft_pop_log(t, ety)
    PROVE  ~ pop_fails(t, ety) /\ Read(u, c, d)
<1> DEFINE id == ety.id
           e == With(c, ety)
<1>1. /\ id \in Id /\ ety.type \in ChangeType \cup {"NORMAL"}
      /\ ety = Normal <=> ety.type = "NORMAL"
  BY EntryKinds
<1>2. \A type \in ChangeType :
         /\ e[type] = IF ety.type = type THEN c[type] \cup {id} ELSE c[type]
         /\ d[type] \subseteq c[type] /\ c[type] \subseteq Id /\ d[type] \subseteq Id
  <2>1. \A type \in ChangeType :
           e[type] = IF ety.type = type THEN c[type] \cup {id} ELSE c[type]
    BY WithIs
  <2> HIDE DEF e
  <2> QED
    BY <2>1 DEF Within
<1>3. Read(t, e, d) /\ (ety.type # "NORMAL" => id \notin Left(t))
  BY NotLeft
<1> HIDE DEF e
<1>4. CASE ety.type = "NORMAL"
  <2>1. u = t
    BY <1>4 DEF raft_pop_log
  <2>2. \A type \in ChangeType : e[type] = c[type]
    BY <1>2, <1>4 DEF ChangeType
  <2> QED
    BY <1>1, <1>3, <1>4, <2>1, <2>2 DEF pop_fails, Read, ChangeType
<1>5. CASE ety.type = "ADD_NONVOTING_NODE"
  <2>1. /\ id \in t.nodes /\ id # Self /\ id # t.first /\ id \notin t.voting
        /\ id \notin t.inactive /\ id \notin t.voting_committed
        /\ id \notin t.addition_committed
    BY <1>2, <1>3, <1>5 DEF Read, InOrder, ChangeType, Ordered
  <2>2. /\ u.nodes = t.nodes \ {id} /\ u.voting = t.voting /\ u.inactive = t.inactive
        /\ u.voting_committed = t.voting_committed
        /\ u.addition_committed = t.addition_committed
        /\ u.first = t.first /\ u.freed = t.freed
    <3>1. u = unlink(t, id)
      BY <1>5, <2>1 DEF raft_pop_log, raft_remove_node
    <3>2. /\ u.nodes = t.nodes \ {id} /\ u.voting = t.voting \ {id}
          /\ u.inactive = t.inactive \ {id}
          /\ u.voting_committed = t.voting_committed \ {id}
          /\ u.addition_committed = t.addition_committed \ {id}
          /\ u.first = t.first /\ u.freed = t.freed
      BY <3>1, UnlinkFields
    <3>3. \A X : id \notin X => X \ {id} = X
      OBVIOUS
    <3> QED
      BY <2>1, <3>2, <3>3, Zenon
  <2>3. Left(u) = Left(t)
    BY <2>2 DEF Left
  <2>4. Read(u, c, d)
    BY <1>2, <1>3, <1>5, <2>1, <2>2, <2>3 DEF Read, InOrder, ChangeType, Ordered
  <2> QED
    BY <1>5, <2>1, <2>4 DEF pop_fails
<1>6. CASE ety.type = "ADD_NODE"
  <2>1. id \in t.nodes /\ id \in t.voting
    BY <1>2, <1>3, <1>6 DEF Read, InOrder, ChangeType, Ordered
  <2>2. /\ u.nodes = t.nodes /\ u.voting = t.voting \ {id} /\ u.inactive = t.inactive
        /\ u.voting_committed = t.voting_committed
        /\ u.addition_committed = t.addition_committed
        /\ u.first = t.first /\ u.freed = t.freed
    BY <1>1, <1>6 DEF raft_pop_log, raft_node_set_voting, Table
  <2>3. Left(u) = Left(t)
    BY <2>2 DEF Left
  <2>4. Read(u, c, d)
    BY <1>2, <1>3, <1>6, <2>1, <2>2, <2>3 DEF Read, InOrder, ChangeType, Ordered
  <2> QED
    BY <1>6, <2>1, <2>4 DEF pop_fails
<1>7. CASE ety.type = "DEMOTE_NODE"
  <2>1. id \in t.nodes /\ id \notin t.voting
    BY <1>2, <1>3, <1>7 DEF Read, InOrder, ChangeType, Ordered
  <2>2. /\ u.nodes = t.nodes /\ u.voting = t.voting \cup {id} /\ u.inactive = t.inactive
        /\ u.voting_committed = t.voting_committed
        /\ u.addition_committed = t.addition_committed
        /\ u.first = t.first /\ u.freed = t.freed
    <3>1. u = [t EXCEPT !.voting = t.voting \cup {id}]
      BY <1>7 DEF raft_pop_log, raft_node_set_voting, Table
    <3> QED
      BY <1>1, <3>1 DEF Table
  <2>3. Left(u) = Left(t)
    BY <2>2 DEF Left
  <2>4. Read(u, c, d)
    BY <1>2, <1>3, <1>7, <2>1, <2>2, <2>3 DEF Read, InOrder, ChangeType, Ordered
  <2> QED
    BY <1>7, <2>1, <2>4 DEF pop_fails
<1>8. CASE ety.type = "REMOVE_NODE"
  <2>1. id \in t.nodes
    BY <1>2, <1>3, <1>8 DEF Read, InOrder, ChangeType, Ordered
  <2>2. /\ u.nodes = t.nodes /\ u.voting = t.voting /\ u.inactive = t.inactive \ {id}
        /\ u.voting_committed = t.voting_committed
        /\ u.addition_committed = t.addition_committed
        /\ u.first = t.first /\ u.freed = t.freed
    BY <1>1, <1>8 DEF raft_pop_log, raft_node_set_active, Table
  <2>3. Left(u) = Left(t)
    BY <2>2 DEF Left
  <2>4. Read(u, c, d)
    BY <1>2, <1>3, <1>8, <2>1, <2>2, <2>3 DEF Read, InOrder, ChangeType, Ordered
  <2> QED
    BY <1>8, <2>1, <2>4 DEF pop_fails
<1> QED
  BY <1>1, <1>4, <1>5, <1>6, <1>7, <1>8 DEF ChangeType

\* The entry to be applied is in order after the applied ones, and part of the log.
LEMMA ApplyRead ==
    ASSUME NEW t \in Table, FlagsOfNodes(t), NEW ety \in Entry, ety # Change("REMOVE_NODE", Self),
           NEW c \in [ChangeType -> SUBSET Id], NEW d \in [ChangeType -> SUBSET Id],
           Within(With(d, ety), c), Ordered(c), Ordered(d), InOrder(ety, d), Read(t, c, d),
           NEW u, u = apply_change(t, ety)
    PROVE  ~ apply_fails(t, ety) /\ Read(u, c, With(d, ety))
<1> DEFINE id == ety.id
           e == With(d, ety)
<1>1. id \in Id /\ ety.type \in ChangeType \cup {"NORMAL"}
  BY EntryKinds
<1>2. \A type \in ChangeType :
         /\ e[type] = IF ety.type = type THEN d[type] \cup {id} ELSE d[type]
         /\ e[type] \subseteq c[type] /\ c[type] \subseteq Id /\ d[type] \subseteq Id
  <2>1. \A type \in ChangeType :
           e[type] = IF ety.type = type THEN d[type] \cup {id} ELSE d[type]
    BY WithIs
  <2>2. Within(e, c)
    OBVIOUS
  <2> HIDE DEF e
  <2> QED
    BY <2>1, <2>2 DEF Within
<1>3. ety.type # "NORMAL" => id \notin Left(t)
  <2>1. Within(d, d)
    BY DEF Within
  <2> QED
    BY <2>1, NotLeft
<1> HIDE DEF e
<1>4. CASE ety.type = "NORMAL"
  <2>1. u = t
    BY <1>4 DEF apply_change
  <2>2. \A type \in ChangeType : e[type] = d[type]
    BY <1>2, <1>4 DEF ChangeType
  <2> QED
    BY <1>4, <2>1, <2>2 DEF apply_fails, Read, ChangeType, e
<1>5. CASE ety.type = "ADD_NONVOTING_NODE"
  <2>1. id \in t.nodes
    BY <1>2, <1>5 DEF Read, InOrder, ChangeType, Ordered
  <2>2. /\ u.nodes = t.nodes /\ u.voting = t.voting /\ u.inactive = t.inactive
        /\ u.voting_committed = t.voting_committed
        /\ u.addition_committed = t.addition_committed \cup {id}
        /\ u.first = t.first /\ u.freed = t.freed
    BY <1>1, <1>5 DEF apply_change, raft_node_set_addition_committed, Table
  <2>3. Left(u) = Left(t)
    BY <2>2 DEF Left
  <2>4. Read(u, c, e)
    BY <1>2, <1>3, <1>5, <2>1, <2>2, <2>3 DEF Read, InOrder, ChangeType, Ordered
  <2> QED
    BY <1>5, <2>1, <2>4 DEF apply_fails, e
<1>6. CASE ety.type = "ADD_NODE"
  <2>1. id \in t.nodes
    BY <1>2, <1>6 DEF Read, InOrder, ChangeType, Ordered
  <2>2. /\ u.nodes = t.nodes /\ u.voting = t.voting /\ u.inactive = t.inactive
        /\ u.voting_committed = t.voting_committed \cup {id}
        /\ u.addition_committed = t.addition_committed \cup {id}
        /\ u.first = t.first /\ u.freed = t.freed
    BY <1>1, <1>6 DEF apply_change, raft_node_set_addition_committed,
          raft_node_set_voting_committed, raft_node_set_has_sufficient_logs, Table
  <2>3. Left(u) = Left(t)
    BY <2>2 DEF Left
  <2>4. Read(u, c, e)
    BY <1>2, <1>3, <1>6, <2>1, <2>2, <2>3 DEF Read, InOrder, ChangeType, Ordered
  <2> QED
    BY <1>6, <2>1, <2>4 DEF apply_fails, e
<1>7. CASE ety.type = "DEMOTE_NODE"
  <2>1. /\ u.nodes = t.nodes /\ u.voting = t.voting /\ u.inactive = t.inactive
        /\ u.voting_committed = t.voting_committed \ {id}
        /\ u.addition_committed = t.addition_committed
        /\ u.first = t.first /\ u.freed = t.freed
    BY <1>1, <1>7 DEF apply_change, raft_node_set_voting_committed, Table
  <2>2. Left(u) = Left(t)
    BY <2>1 DEF Left
  <2>3. Read(u, c, e)
    BY <1>2, <1>3, <1>7, <2>1, <2>2 DEF Read, InOrder, ChangeType, Ordered
  <2> QED
    BY <1>7, <2>3 DEF apply_fails, e
<1>8. CASE ety.type = "REMOVE_NODE"
  <2>1. id # Self
    BY <1>8 DEF Entry, Change, Normal
  <2>2. u = raft_remove_node(t, id)
    BY <1>8 DEF apply_change
  <2>3. ASSUME id = t.first PROVE Read(u, c, e)
    <3>1. /\ u.nodes = t.nodes /\ u.voting = t.voting /\ u.inactive = t.inactive
          /\ u.voting_committed = t.voting_committed
          /\ u.addition_committed = t.addition_committed
          /\ u.first = t.first /\ u.freed = TRUE
      BY <2>2, <2>3 DEF raft_remove_node, Table
    <3>2. Left(t) = {} /\ Left(u) = {id}
      BY <1>3, <1>8, <2>3, <3>1 DEF Left
    <3> QED
      BY <1>2, <1>8, <2>1, <3>1, <3>2 DEF Read, InOrder, ChangeType, Ordered
  <2>4. ASSUME id # t.first PROVE Read(u, c, e)
    <3>1. u = unlink(t, id)
      BY <2>2, <2>4 DEF raft_remove_node
    <3>2. /\ u.nodes = t.nodes \ {id} /\ u.voting = t.voting \ {id}
          /\ u.inactive = t.inactive \ {id}
          /\ u.voting_committed = t.voting_committed \ {id}
          /\ u.addition_committed = t.addition_committed \ {id}
          /\ u.first = t.first /\ u.freed = t.freed
      BY <3>1, UnlinkFields
    <3>3. Left(u) = Left(t)
      BY <3>2 DEF Left
    <3> QED
      BY <1>2, <1>3, <1>8, <2>1, <3>2, <3>3 DEF Read, InOrder, ChangeType, Ordered
  <2>5. Read(u, c, e)
    BY <2>3, <2>4
  <2> QED
    BY <1>8, <2>5 DEF apply_fails, e
<1> QED
  BY <1>1, <1>4, <1>5, <1>6, <1>7, <1>8 DEF ChangeType

-----------------------------------------------------------------------------
(* As long as the server is followed, its table can be read off the log. *)

LEMMA ReadInit == Init => ReadInv
<1> SUFFICES ASSUME Init PROVE ReadInv
  OBVIOUS
<1>1. /\ last_applied_idx = 0 /\ Len(log) = 0
      /\ table = [nodes |-> Initial, voting |-> Initial, inactive |-> {}, sufficient |-> {},
                  voting_committed |-> {}, addition_committed |-> {},
                  first |-> First, freed |-> FALSE]
  BY DEF Init, table_of
<1>2. OrderKept
  BY <1>1 DEF OrderKept
<1>3. \A type \in ChangeType : Told(0)[type] = {}
  BY ToldNothing
<1>4. Left(table) = {}
  BY <1>1 DEF Left
<1>5. Read(table, Told(0), Told(0))
  BY <1>1, <1>3, <1>4 DEF Read, ChangeType
<1> QED
  BY <1>1, <1>2, <1>5 DEF ReadInv, TableRead

\* What the invariant says of what the log tells.
LEMMA ToldInv ==
    ASSUME TypeInv, OrderKept
    PROVE  /\ Told(Len(log)) \in [ChangeType -> SUBSET Id] /\ Ordered(Told(Len(log)))
           /\ Told(last_applied_idx) \in [ChangeType -> SUBSET Id]
           /\ Ordered(Told(last_applied_idx))
           /\ Within(Told(last_applied_idx), Told(Len(log)))
<1>1. /\ log \in Seq(Entry) /\ Len(log) \in Nat /\ Len(log) \in 0 .. Len(log)
      /\ last_applied_idx \in 0 .. Len(log)
  BY RangesHold
<1>2. last_applied_idx <= Len(log) /\ last_applied_idx \in Nat
  BY <1>1
<1> QED
  BY <1>1, <1>2, ToldTyped, LogOrdered, ToldGrows

\* The application keeps to the order.
LEMMA FollowsInOrder ==
    ASSUME TypeInv, OrderKept, ~ PromotesLeaving, NEW ety \in Entry, may_follow(ety)
    PROVE  InOrder(ety, Told(Len(log)))
<1> DEFINE c == Told(Len(log))
           id == ety.id
<1>1. log \in Seq(Entry) /\ Ordered(c)
  BY ToldInv, RangesHold
<1>2. /\ last_change(id) \in ChangeType \cup {"NONE"}
      /\ last_change(id) = "NONE" => \A type \in ChangeType : id \notin c[type]
      /\ last_change(id) = "ADD_NONVOTING_NODE" =>
            /\ id \in c["ADD_NONVOTING_NODE"] /\ id \notin c["ADD_NODE"]
            /\ id \notin c["DEMOTE_NODE"] /\ id \notin c["REMOVE_NODE"]
      /\ last_change(id) = "ADD_NODE" =>
            /\ id \in c["ADD_NODE"]
            /\ id \notin c["DEMOTE_NODE"] /\ id \notin c["REMOVE_NODE"]
      /\ last_change(id) = "DEMOTE_NODE" =>
            id \in c["DEMOTE_NODE"] /\ id \notin c["REMOVE_NODE"]
  BY <1>1, LastChange
<1>3. ety.type \in ChangeType \cup {"NORMAL"}
  BY EntryKinds
<1> HIDE DEF c
<1>4. CASE ety.type = "NORMAL"
  BY <1>4 DEF InOrder
<1>5. CASE ety.type = "ADD_NONVOTING_NODE"
  BY <1>2, <1>5 DEF InOrder, may_follow, c
<1>6. CASE ety.type = "ADD_NODE"
  <2>1. last_change(id) = "ADD_NONVOTING_NODE"
    BY <1>6 DEF may_follow, may_promote
  <2> QED
    BY <1>2, <1>6, <2>1 DEF InOrder, c
<1>7. CASE ety.type = "DEMOTE_NODE"
  BY <1>2, <1>7 DEF InOrder, may_follow, member, ChangeType, c
<1>8. CASE ety.type = "REMOVE_NODE"
  BY <1>1, <1>2, <1>8 DEF InOrder, may_follow, member, ChangeType, Ordered, c
<1> QED
  BY <1>3, <1>4, <1>5, <1>6, <1>7, <1>8 DEF ChangeType

LEMMA ToldAppend ==
    ASSUME log \in Seq(Entry), NEW ety \in Entry, log' = Append(log, ety)
    PROVE  /\ Told(Len(log))' = With(Told(Len(log)), ety)
           /\ \A n \in 0 .. Len(log) : Told(n)' = Told(n)
           /\ \A k \in 1 .. Len(log) : log'[k] = log[k]
           /\ log'[Len(log) + 1] = ety /\ Len(log') = Len(log) + 1
<1>1. /\ \A k \in 1 .. Len(log) : log'[k] = log[k]
      /\ log'[Len(log) + 1] = ety /\ Len(log') = Len(log) + 1
      /\ Len(log) \in Nat
  OBVIOUS
<1>2. \A n \in 0 .. Len(log) : Told(n)' = Told(n)
  BY <1>1, ToldSame
<1>3. ASSUME NEW type \in ChangeType
      PROVE  changes(type, 1, Len(log))' =
                changes(type, 1, Len(log)) \cup (IF ety.type = type THEN {ety.id} ELSE {})
  <2>1. 1 .. Len(log') = (1 .. Len(log)) \cup {Len(log) + 1}
    BY <1>1
  <2> QED
    BY <1>1, <2>1 DEF changes
<1>4. Told(Len(log))' = With(Told(Len(log)), ety)
  BY <1>3 DEF Told, With
<1> QED
  BY <1>1, <1>2, <1>4

LEMMA AppendKeeps ==
    ASSUME TypeInv, ReadInv, running = "yes", NEW ety \in Entry, InOrder(ety, Told(Len(log))),
           NEW marked, append_to_log(ety, marked), last_applied_idx' = last_applied_idx
    PROVE  running' = "yes" /\ ReadInv'
<1> DEFINE c == Told(Len(log))
           d == Told(last_applied_idx)
<1>1. /\ log \in Seq(Entry) /\ Len(log) \in Nat /\ last_applied_idx \in 0 .. Len(log)
      /\ table \in Table /\ FlagsOfNodes(table) /\ Read(table, c, d) /\ OrderKept
  BY RangesHold DEF ReadInv, TableRead
<1>2. log' = Append(log, ety)
  BY DEF append_to_log
<1>3. /\ Told(Len(log))' = With(c, ety)
      /\ \A n \in 0 .. Len(log) : Told(n)' = Told(n)
      /\ \A k \in 1 .. Len(log) : log'[k] = log[k]
      /\ log'[Len(log) + 1] = ety /\ Len(log') = Len(log) + 1
  BY <1>1, <1>2, ToldAppend
<1>4. ASSUME NEW next \in may_be_first(table), NEW u, u = raft_offer_log(table, ety, next)
      PROVE  /\ ~ offer_fails(table, ety) /\ Read(u, With(c, ety), d)
             /\ u \in Table
  <2>1. next \in table.nodes \cap Initial /\ next \in table.nodes
    BY DEF may_be_first
  <2> HIDE DEF c, d
  <2>2. /\ c \in [ChangeType -> SUBSET Id] /\ Ordered(c)
        /\ d \in [ChangeType -> SUBSET Id] /\ Within(d, c)
    BY <1>1, ToldInv DEF c, d
  <2>3. InOrder(ety, c)
    BY DEF c
  <2>4. ~ offer_fails(table, ety) /\ Read(u, With(c, ety), d)
    BY <1>1, <1>4, <2>1, <2>2, <2>3, OfferRead
  <2>5. u \in Table
    BY <1>1, <1>4, <2>1, OfferTyped
  <2> QED
    BY <2>4, <2>5
<1>5. ~ offer_fails(table, ety)
  <2>1. Self \in table.nodes
    BY <1>1 DEF Read
  <2>2. table.first \in table.nodes \cap Initial
    BY <1>1 DEF FlagsOfNodes, Read
  <2>3. may_be_first(table) # {}
    <3>1. CASE table.freed
      <4>1. table.first # Self
        BY <1>1, <3>1 DEF Read, Left
      <4> QED
        BY <2>1, <2>2, <4>1 DEF may_be_first
    <3>2. CASE ~ table.freed
      BY <2>2, <3>2 DEF may_be_first
    <3> QED
      BY <3>1, <3>2
  <2> QED
    BY <1>4, <2>3
<1>6. PICK next \in may_be_first(table) :
         table' = raft_node_set_has_sufficient_logs(raft_offer_log(table, ety, next), marked)
  BY <1>5 DEF append_to_log
<1>7. running' = "yes"
  BY <1>5 DEF append_to_log
<1>8. PICK u : u = raft_offer_log(table, ety, next)
  OBVIOUS
<1>9. Read(u, With(c, ety), d) /\ u \in Table
  BY <1>4, <1>8
<1>10. /\ table'.nodes = u.nodes /\ table'.voting = u.voting
       /\ table'.inactive = u.inactive /\ table'.voting_committed = u.voting_committed
       /\ table'.addition_committed = u.addition_committed
       /\ table'.first = u.first /\ table'.freed = u.freed
  <2>1. table' = [u EXCEPT !.sufficient = u.sufficient \cup marked]
    BY <1>6, <1>8, <1>9 DEF raft_node_set_has_sufficient_logs, Table
  <2> QED
    BY <1>9, <2>1 DEF Table
<1>11. OrderKept'
  <2>1. ASSUME NEW k \in 1 .. Len(log')
        PROVE  InOrder(log'[k], Told(k - 1)')
    <3>1. k - 1 \in 0 .. Len(log) /\ Told(k - 1)' = Told(k - 1)
      BY <1>1, <1>3
    <3>2. CASE k \in 1 .. Len(log)
      BY <1>1, <1>3, <3>1, <3>2 DEF OrderKept
    <3>3. CASE k = Len(log) + 1
      <4>1. k - 1 = Len(log)
        BY <1>1, <3>3
      <4> QED
        BY <1>3, <3>1, <3>3, <4>1
    <3> QED
      BY <1>1, <1>3, <3>2, <3>3
  <2> QED
    BY <2>1 DEF OrderKept, InOrder
<1>12. TableRead'
  <2>1. Told(last_applied_idx)' = d
    <3>1. PICK a \in 0 .. Len(log) : a = last_applied_idx
      BY <1>1
    <3>2. Told(a)' = Told(a)
      BY <1>3
    <3> QED
      BY <3>1, <3>2 DEF Told, changes
  <2>2. Read(table', With(c, ety), d)
    <3> HIDE DEF c, d
    <3>1. Left(table') = Left(u)
      BY <1>10 DEF Left
    <3> QED
      BY <1>9, <1>10, <3>1 DEF Read
  <2> HIDE DEF c, d
  <2>3. Read(table', Told(Len(log))', Told(last_applied_idx)')
    BY <1>3, <2>1, <2>2
  <2> QED
    BY <2>3 DEF TableRead, Read, Left
<1> QED
  BY <1>7, <1>11, <1>12 DEF ReadInv

\* The last entry is deleted.
LEMMA DeleteKeeps ==
    ASSUME TypeInv, ReadInv, NEW idx \in Nat, 1 <= idx, idx = Len(log),
           raft_delete_entry_from_idx(idx)
    PROVE  running' = "yes" /\ ReadInv'
<1>1. /\ log \in Seq(Entry) /\ Len(log) \in Nat
      /\ commit_idx \in 0 .. Len(log) /\ last_applied_idx \in 0 .. commit_idx
      /\ table \in Table /\ FlagsOfNodes(table) /\ OrderKept /\ commit_idx < idx
  BY RangesHold DEF raft_delete_entry_from_idx, ReadInv
<1>2. PICK N \in Nat : idx = N + 1
  <2>1. idx - 1 \in Nat /\ idx = (idx - 1) + 1
    OBVIOUS
  <2> QED
    BY <2>1
<1>3. PICK a \in 0 .. N : a = last_applied_idx
  BY <1>1, <1>2
<1> DEFINE ety == log[N + 1]
           c == Told(N)
           d == Told(a)
<1>4. Len(log') = N /\ \A k \in 1 .. N : log'[k] = log[k]
  <2>1. log' = SubSeq(log, 1, idx - 1) \o SubSeq(log, idx + 1, Len(log))
    BY DEF raft_delete_entry_from_idx, current_idx
  <2>2. idx \in 1 .. Len(log) /\ idx - 1 = N /\ Len(log) - 1 = N
    BY <1>1, <1>2
  <2> QED
    BY <1>1, <2>1, <2>2, DeletedLog
<1>5. \A n \in 0 .. N : Told(n)' = Told(n)
  BY <1>4, ToldSame
<1>6. /\ ety \in Entry /\ N + 1 \in 1 .. Len(log) /\ N \in 0 .. Len(log) /\ a \in 0 .. Len(log)
  <2>1. N + 1 \in 1 .. Len(log) /\ N \in 0 .. Len(log) /\ a \in 0 .. Len(log)
    BY <1>2
  <2> QED
    BY <1>1, <2>1
<1>7. InOrder(ety, c)
  <2>1. (N + 1) - 1 = N
    OBVIOUS
  <2> QED
    BY <1>1, <1>6, <2>1 DEF OrderKept
<1>8. /\ c \in [ChangeType -> SUBSET Id] /\ d \in [ChangeType -> SUBSET Id]
      /\ Ordered(c) /\ Within(d, c)
  <2>1. a \in Nat /\ a <= N
    OBVIOUS
  <2> QED
    BY <1>1, <1>6, <2>1, ToldTyped, LogOrdered, ToldGrows
<1>9. Read(table, With(c, ety), d)
  <2>1. Told(Len(log)) = With(c, ety) /\ Told(last_applied_idx) = d
    BY <1>2, <1>3, ToldNext
  <2> QED
    BY <2>1 DEF ReadInv, TableRead
<1>10. PICK u : u = raft_pop_log(table, ety)
  OBVIOUS
<1>11. ~ pop_fails(table, ety) /\ Read(u, c, d)
  <2> HIDE DEF c, d, ety
  <2> QED
    BY <1>1, <1>6, <1>7, <1>8, <1>9, <1>10, PopRead
<1>12. running' = "yes" /\ table' = u /\ last_applied_idx' = a
  BY <1>2, <1>3, <1>10, <1>11 DEF raft_delete_entry_from_idx, current_idx
<1>13. OrderKept'
  <2>1. ASSUME NEW k \in 1 .. Len(log')
        PROVE  InOrder(log'[k], Told(k - 1)')
    <3>1. k - 1 \in 0 .. N /\ k \in 1 .. N /\ k \in 1 .. Len(log)
      BY <1>2, <1>4
    <3> QED
      BY <1>1, <1>4, <1>5, <3>1 DEF OrderKept
  <2> QED
    BY <2>1 DEF OrderKept, InOrder
<1>14. TableRead'
  <2>1. Told(last_applied_idx)' = d
    <3>1. Told(a)' = Told(a)
      BY <1>5
    <3> QED
      BY <1>12, <3>1 DEF Told, changes
  <2>2. Told(Len(log))' = c
    <3>1. Told(N)' = Told(N)
      BY <1>5
    <3> QED
      BY <1>4, <3>1 DEF Told, changes
  <2>3. Read(table', Told(Len(log))', Told(last_applied_idx)')
    BY <1>11, <1>12, <2>1, <2>2
  <2> QED
    BY <2>3 DEF TableRead, Read, Left
<1> QED
  BY <1>12, <1>13, <1>14 DEF ReadInv

LEMMA OrderStays ==
    ASSUME OrderKept, log' = log
    PROVE  OrderKept'
<1>1. ASSUME NEW k \in 1 .. Len(log')
      PROVE  InOrder(log'[k], Told(k - 1)')
  <2>1. Told(k - 1)' = Told(k - 1)
    BY DEF Told, changes
  <2> QED
    BY <2>1 DEF OrderKept
<1> QED
  BY <1>1 DEF OrderKept, InOrder

LEMMA OthersKeep ==
    ASSUME ReadInv, UNCHANGED <<log, last_applied_idx, table>>
    PROVE  ReadInv'
<1>1. OrderKept'
  BY OrderStays DEF ReadInv
<1>2. Told(Len(log))' = Told(Len(log)) /\ Told(last_applied_idx)' = Told(last_applied_idx)
  BY DEF Told, changes
<1>3. Read(table', Told(Len(log))', Told(last_applied_idx)')
  BY <1>2 DEF ReadInv, TableRead
<1> QED
  BY <1>1, <1>3 DEF ReadInv, TableRead, Read, Left

LEMMA ApplyKeeps ==
    ASSUME TypeInv, ReadInv, running = "yes", last_applied_idx < commit_idx, raft_apply_entry,
           log' = log
    PROVE  running' # "crashed" /\ (running' = "yes" => ReadInv')
<1>1. /\ log \in Seq(Entry) /\ Len(log) \in Nat /\ commit_idx \in 0 .. Len(log)
      /\ table \in Table /\ FlagsOfNodes(table) /\ OrderKept
  BY RangesHold DEF ReadInv
<1>2. PICK a \in 0 .. Len(log) : a = last_applied_idx
  BY RangesHold
<1>3. /\ a \in Nat /\ a + 1 \in Nat /\ a + 1 \in 1 .. Len(log)
      /\ a + 1 \in 0 .. Len(log) /\ a + 1 <= Len(log)
  BY <1>1, <1>2
<1> DEFINE ety == log[a + 1]
           c == Told(Len(log))
           d == Told(a)
<1>4. ety \in Entry /\ last_applied_idx' = a + 1
  <2>1. ety \in Entry
    BY <1>1, <1>3
  <2>2. last_applied_idx' = last_applied_idx + 1
    BY DEF raft_apply_entry
  <2> QED
    BY <1>2, <2>1, <2>2
<1>5. CASE ety = Change("REMOVE_NODE", Self)
  BY <1>2, <1>5 DEF raft_apply_entry
<1>6. CASE ety # Change("REMOVE_NODE", Self)
  <2>1. PICK u : u = apply_change(table, ety)
    OBVIOUS
  <2>2. InOrder(ety, d)
    <3>1. (a + 1) - 1 = a
      BY <1>3
    <3> QED
      BY <1>1, <1>3, <3>1 DEF OrderKept
  <2>3. /\ c \in [ChangeType -> SUBSET Id] /\ d \in [ChangeType -> SUBSET Id]
        /\ Ordered(c) /\ Ordered(d)
    BY <1>1, <1>2, ToldInv
  <2>4. Told(a + 1) = With(d, ety)
    BY <1>3, ToldNext
  <2>5. Within(With(d, ety), c)
    <3>1. Within(Told(a + 1), c)
      BY <1>1, <1>3, ToldGrows
    <3> QED
      BY <2>4, <3>1
  <2>6. Read(table, c, d)
    BY <1>2 DEF ReadInv, TableRead
  <2>7. ~ apply_fails(table, ety) /\ Read(u, c, With(d, ety))
    <3> HIDE DEF c, d, ety
    <3> QED
      BY <1>1, <1>4, <1>6, <2>1, <2>2, <2>3, <2>5, <2>6, ApplyRead
  <2>8. table' = u /\ running' = "yes"
    BY <1>2, <1>6, <2>1, <2>7 DEF raft_apply_entry
  <2>9. TableRead'
    <3>1. Told(last_applied_idx)' = With(d, ety)
      <4>1. Told(a + 1)' = Told(a + 1)
        BY <1>3, ToldSame
      <4> HIDE DEF d, ety
      <4> QED
        BY <1>4, <2>4, <4>1 DEF Told, changes
    <3>2. Told(Len(log))' = c
      BY DEF Told, changes
    <3>3. Read(table', Told(Len(log))', Told(last_applied_idx)')
      BY <2>7, <2>8, <3>1, <3>2
    <3> QED
      BY <3>3 DEF TableRead, Read, Left
  <2> QED
    BY <1>1, <2>8, <2>9, OrderStays DEF ReadInv
<1> QED
  BY <1>5, <1>6

\* The invariant in every step, and the only step that may fail an assert.
LEMMA ReadNext ==
    ASSUME ~ PromotesLeaving, TypeInv, running = "yes" => ReadInv, Next
    PROVE  /\ running' = "yes" => ReadInv'
           /\ running' = "crashed" =>
                 \E idx \in 1 .. Len(log) - 1 : raft_delete_entry_from_idx(idx)
<1>1. ASSUME NEW ety \in Entry, NEW marked, raft_recv_entry(ety, marked),
             running = "yes" => InOrder(ety, Told(Len(log)))
      PROVE  running' = "yes" /\ ReadInv'
  BY <1>1, RecvEntryIs, AppendKeeps
<1>2. ASSUME NEW ety \in Entry, propose(ety) PROVE running' = "yes" /\ ReadInv'
  <2>1. may_follow(ety) /\ raft_recv_entry(ety, {})
    BY <1>2 DEF propose
  <2> QED
    BY <1>1, <2>1, FollowsInOrder DEF ReadInv
<1>3. ASSUME NEW ety \in Entry, raft_append_entry(ety) PROVE running' = "yes" /\ ReadInv'
  BY <1>3, AppendEntryIs, FollowsInOrder, AppendKeeps DEF ReadInv
<1>4. ASSUME NEW id \in Id, node_has_sufficient_logs(id) PROVE running' = "yes" /\ ReadInv'
  <2>1. PICK ety \in Entry : ety = Change("ADD_NODE", id)
    BY DEF Change, Entry
  <2>2. raft_recv_entry(ety, {id}) /\ may_follow(ety)
    BY <1>4, <2>1 DEF node_has_sufficient_logs, may_follow, Change
  <2> QED
    BY <1>1, <2>2, FollowsInOrder DEF ReadInv
<1>5. ASSUME NEW idx \in 1 .. MaxEntries, raft_delete_entry_from_idx(idx)
      PROVE  \/ running' = "yes" /\ ReadInv'
             \/ running' # "yes" /\ idx \in 1 .. Len(log) - 1
  <2>1. running = "yes" /\ idx <= Len(log) /\ Len(log) \in Nat
    BY <1>5, RangesHold DEF raft_delete_entry_from_idx, current_idx
  <2>2. CASE idx = Len(log)
    BY <1>5, <2>1, <2>2, DeleteKeeps
  <2>3. CASE idx # Len(log)
    <3>1. running' # "yes"
      BY <1>5, <2>3 DEF raft_delete_entry_from_idx, current_idx
    <3>2. idx \in 1 .. Len(log) - 1
      BY <2>1, <2>3
    <3> QED
      BY <3>1, <3>2
  <2> QED
    BY <2>2, <2>3
<1>6. CASE raft_periodic /\ last_applied_idx < commit_idx
  BY <1>6, ApplyKeeps DEF raft_periodic
<1>7. CASE \/ \E idx \in 1 .. MaxEntries : raft_set_commit_idx(idx)
           \/ raft_periodic /\ ~ (last_applied_idx < commit_idx)
           \/ raft_become_leader \/ raft_become_follower
  <2>1. running = "yes"
    BY <1>7 DEF raft_set_commit_idx, raft_periodic, raft_become_leader, raft_become_follower
  <2>2. UNCHANGED <<log, last_applied_idx, table, running>>
    BY <1>7, OtherSteps
  <2> QED
    BY <2>1, <2>2, OthersKeep
<1> QED
  BY <1>2, <1>3, <1>4, <1>5, <1>6, <1>7 DEF Next

LEMMA MembersNext ==
    ASSUME ~ PromotesLeaving
    PROVE  MembersInv /\ [Next]_vars => MembersInv'
<1> SUFFICES ASSUME MembersInv, [Next]_vars PROVE MembersInv'
  OBVIOUS
<1>1. TypeInv'
  BY TypeNext DEF MembersInv
<1>2. CASE Next
  BY <1>1, <1>2, ReadNext DEF MembersInv
<1>3. CASE UNCHANGED vars
  <2>1. UNCHANGED <<log, last_applied_idx, table, running>>
    BY <1>3 DEF vars
  <2> QED
    BY <1>1, <2>1, OthersKeep DEF MembersInv
<1> QED
  BY <1>2, <1>3

LEMMA MembersAlways ==
    ASSUME ~ PromotesLeaving
    PROVE  Spec => []MembersInv
<1>1. Init => MembersInv
  BY TypeInit, ReadInit DEF MembersInv
<1>2. MembersInv /\ [Next]_vars => MembersInv'
  BY MembersNext
<1> QED
  BY <1>1, <1>2, PTL DEF Spec

-----------------------------------------------------------------------------
(* What follows from it. *)

LEMMA InvTypeOK == TypeInv => TypeOK
<1> SUFFICES ASSUME TypeInv PROVE TypeOK
  OBVIOUS
<1>1. Ranges /\ FlagsOfNodes(table)
  BY DEF TypeInv
<1>2. table \in Table
  BY <1>1 DEF Ranges
<1>3. \A f \in Sets : table[f] \subseteq table.nodes
  BY <1>1 DEF FlagsOfNodes, Sets
<1>4. table.nodes \subseteq Id /\ table.freed \in BOOLEAN
  BY <1>2 DEF Table
<1> QED
  BY <1>1, <1>3, <1>4 DEF Ranges, TypeOK, FlagsOfNodes, current_idx

LEMMA InvTableIsLog == MembersInv => TableIsLog
<1> SUFFICES ASSUME MembersInv, running = "yes"
             PROVE  /\ \A f \in DOMAIN replayed(current_idx) :
                          table[f] \ leftover = replayed(current_idx)[f]
                    /\ leftover \subseteq table.inactive
  BY DEF TableIsLog
<1> DEFINE N == Len(log)
           a == last_applied_idx
           gone == changes("REMOVE_NODE", 1, a) \ {Self}
           nodes == (Initial \cup changes("ADD_NONVOTING_NODE", 1, N)) \ gone
           voting == {id \in nodes : votes(id, N)}
           inactive == changes("REMOVE_NODE", 1, N) \ gone
           voting_committed == {id \in nodes : latest(id, a) = "ADD_NODE"}
           addition_committed ==
              (changes("ADD_NODE", 1, a) \cup changes("ADD_NONVOTING_NODE", 1, a)) \ gone
<1>1. replayed(current_idx) =
         [nodes |-> nodes, voting |-> voting, inactive |-> inactive,
          voting_committed |-> voting_committed,
          addition_committed |-> addition_committed]
  BY DEF replayed, current_idx
<1>2. log \in Seq(Entry) /\ OrderKept /\ N \in 0 .. Len(log) /\ a \in 0 .. Len(log)
  BY RangesHold DEF MembersInv, ReadInv
<1>3. Read(table, Told(N), Told(a)) /\ leftover = Left(table)
  BY DEF MembersInv, ReadInv, TableRead, leftover, Left
<1>4. \A type \in ChangeType : /\ Told(N)[type] = changes(type, 1, N)
                               /\ Told(a)[type] = changes(type, 1, a)
  BY DEF Told
<1>5. /\ table.nodes \ leftover = nodes /\ table.inactive \ leftover = inactive
      /\ table.addition_committed \ leftover = addition_committed
      /\ leftover \subseteq table.inactive
  BY <1>3, <1>4 DEF Read, ChangeType
<1>6. /\ table.voting \ leftover =
            (nodes \cap (Initial \cup Told(N)["ADD_NODE"])) \ Told(N)["DEMOTE_NODE"]
      /\ table.voting_committed \ leftover =
            (nodes \cap Told(a)["ADD_NODE"]) \ Told(a)["DEMOTE_NODE"]
  BY <1>3, <1>4 DEF Read, ChangeType
<1>7. table.voting \ leftover = voting
  <2>1. ASSUME NEW id
        PROVE  /\ latest(id, N) = "ADD_NODE" <=>
                    id \in Told(N)["ADD_NODE"] /\ id \notin Told(N)["DEMOTE_NODE"]
               /\ latest(id, N) = "NONE" <=>
                    id \notin Told(N)["ADD_NODE"] /\ id \notin Told(N)["DEMOTE_NODE"]
    BY <1>2, LatestIs
  <2> HIDE DEF nodes
  <2> QED
    BY <1>6, <2>1 DEF votes
<1>8. table.voting_committed \ leftover = voting_committed
  <2>1. ASSUME NEW id
        PROVE  latest(id, a) = "ADD_NODE" <=>
                    id \in Told(a)["ADD_NODE"] /\ id \notin Told(a)["DEMOTE_NODE"]
    BY <1>2, LatestIs
  <2> HIDE DEF nodes
  <2> QED
    BY <1>6, <2>1
<1> HIDE DEF nodes, voting, inactive, voting_committed, addition_committed
<1> QED
  BY <1>1, <1>5, <1>7, <1>8

\* The ranges of roles, indices, log and table hold in every state, whatever the
\* application proposes and wherever entries are deleted, and only nodes of the
\* table have flags (raft_node.c keeps the flags in the node).
THEOREM MembersTyped == Spec => []TypeOK
<1>1. Spec => []TypeInv
  BY TypeInit, TypeNext, PTL DEF Spec
<1> QED
  BY <1>1, InvTypeOK, PTL

\* If the application promotes no node that it is taking out: whatever entries are
\* appended, taken back from the end and applied, in whatever roles, the table of
\* nodes is what the log and its applied part say (raft_offer_log, raft_pop_log,
\* the end of raft_apply_entry), but for a first node that has been removed, which
\* stays in it, inactive (raft_remove_node).
THEOREM TableFollowsLog ==
    ASSUME ~ PromotesLeaving
    PROVE  Spec => []TableIsLog
<1>1. Spec => []MembersInv
  BY MembersAlways
<1> QED
  BY <1>1, InvTableIsLog, PTL

\* If the application promotes no node that it is taking out, only the deletion of
\* an entry that others follow can fail an assert of raft_offer_log, raft_pop_log
\* and raft_apply_entry, or meet a node that is not in the table.  (With
\* PromotesLeaving this does not hold.)
THEOREM ServerKeepsRunning ==
    ASSUME ~ PromotesLeaving
    PROVE  Spec => ServerRuns
<1>1. Spec => []MembersInv
  BY MembersAlways
<1> DEFINE Inner == running' = "crashed" =>
                       \E idx \in 1 .. current_idx - 1 : raft_delete_entry_from_idx(idx)
<1>2. MembersInv /\ [Next]_vars => [Inner]_vars
  BY ReadNext DEF MembersInv, current_idx
<1>3. Spec => [][Inner]_vars
  <2> HIDE DEF Inner
  <2> QED
    BY <1>1, <1>2, PTL DEF Spec
<1> QED
  BY <1>3 DEF ServerRuns

=============================================================================
