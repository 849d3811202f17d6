--------------------------- MODULE RaftMembership ---------------------------
(***************************************************************************)
(* Configuration entries on one server of the library: what appending,     *)
(* deleting and applying them does to its table of nodes, whatever role    *)
(* the server has meanwhile.  The application of src/app/main.c proposes   *)
(* none; the entries modelled are those that src/README.rst and raft.h     *)
(* tell an application to propose, by this server when it leads and by     *)
(* another leader when it follows.  There is one action per operation of   *)
(* the library that touches the configuration; a packet handler is a       *)
(* sequence of them.  Peers may acknowledge anything.                      *)
(*                                                                         *)
(* A server is followed until it stops, or until an entry is deleted that  *)
(* is not the last: log_delete leaves the entries behind it in the list,   *)
(* and what becomes of such a log RaftBacklog tells.                       *)
(***************************************************************************)
EXTENDS Integers, Sequences, FiniteSets

CONSTANTS
    Self,               \* this server; never re-added
    Initial,            \* the voting nodes at the start
    First,              \* the one of them that was added first
    Joining,            \* ids of nodes that may join, never used before
    PromotesLeaving,    \* whether the application promotes every node that the
                        \* callback names, as README.rst says, or none that it
                        \* is taking out of the cluster
    MaxEntries          \* bound: length of the log

ASSUME MembersAssumption ==
    /\ Self \in Initial /\ First \in Initial /\ Initial \cap Joining = {}
    /\ PromotesLeaving \in BOOLEAN
    /\ MaxEntries \in Nat

Id == Initial \cup Joining

Change(type, id) == [type |-> type, id |-> id]
Normal == Change("NORMAL", Self)
Entry == {Normal} \cup
         [type : {"ADD_NONVOTING_NODE", "ADD_NODE", "DEMOTE_NODE", "REMOVE_NODE"}, id : Id]

VARIABLES
    state,                      \* leader or not
    log,
    commit_idx,
    last_applied_idx,
    voting_cfg_change_log_idx,
    table,                      \* the list of nodes, and for each flag who has it
    running                     \* "yes", or why the server is not followed further:
                                \* "crashed" (a failed assert or a NULL read),
                                \* "shut down" or "torn" (see above)

vars == <<state, log, commit_idx, last_applied_idx, voting_cfg_change_log_idx,
          table, running>>

\* A table with the nodes N, all of them voting.  first is the head of the list,
\* freed whether it has been given back to the pool although it is linked.
table_of(N) == [nodes |-> N, voting |-> N, inactive |-> {}, sufficient |-> {},
                voting_committed |-> {}, addition_committed |-> {},
                first |-> First, freed |-> FALSE]

Sets == {"nodes", "voting", "inactive", "sufficient", "voting_committed",
         "addition_committed"}

Init ==
    /\ state = "follower"
    /\ log = <<>> /\ commit_idx = 0 /\ last_applied_idx = 0
    /\ voting_cfg_change_log_idx = -1
    /\ table = table_of(Initial)
    /\ running = "yes"

-----------------------------------------------------------------------------
(* The table of nodes *)

voting_nodes(t) == t.voting \ t.inactive

slip_raft_node_set_voting(t, id, is) ==     \* a vote is never taken away
    [t EXCEPT !.voting = @ \cup {id}]

raft_node_set_voting(t, id, is) ==
    [t EXCEPT !.voting = IF is THEN @ \cup {id} ELSE @ \ {id}]

raft_node_set_active(t, id, is) ==
    [t EXCEPT !.inactive = IF is THEN @ \ {id} ELSE @ \cup {id}]

raft_node_set_has_sufficient_logs(t, ids) == [t EXCEPT !.sufficient = @ \cup ids]

raft_node_set_addition_committed(t, id) == [t EXCEPT !.addition_committed = @ \cup {id}]

raft_node_set_voting_committed(t, id, is) ==
    [t EXCEPT !.voting_committed = IF is THEN @ \cup {id} ELSE @ \ {id}]

\* The node leaves the list, and its flags with it.
unlink(t, id) == [f \in DOMAIN t |-> IF f \in Sets THEN t[f] \ {id} ELSE t[f]]

\* list_remove is given the first node for the list and looks behind it: the first
\* node is freed, but it stays linked and keeps its flags.
raft_remove_node(t, id) ==
    IF id = t.first THEN [t EXCEPT !.freed = TRUE] ELSE unlink(t, id)

\* A freed first node gives its place in the pool to a new one, which list_add puts
\* at the end: next, the node behind it, is first then.
slot_for(t, next) ==
    IF t.freed /\ next # t.first
    THEN [unlink(t, t.first) EXCEPT !.first = next, !.freed = FALSE]
    ELSE t

raft_add_node(t, id, next) ==
    LET s == IF id \in t.nodes THEN t ELSE slot_for(t, next)
    IN  [s EXCEPT !.nodes = @ \cup {id}, !.voting = @ \cup {id}]

raft_add_non_voting_node(t, id, next) ==
    raft_node_set_voting(raft_add_node(t, id, next), id, FALSE)

\* An assert fails, or a node is NULL, in raft_offer_log.
offer_fails(t, ety) ==
    \/ ety.type = "ADD_NODE" /\ ety.id \in t.nodes /\ ety.id \in t.voting
    \/ ety.type = "DEMOTE_NODE" /\ ety.id \in t.nodes /\ ety.id \notin t.voting

raft_offer_log(t, ety, next) ==
    LET id == ety.id IN
    CASE ety.type = "ADD_NONVOTING_NODE" /\ id \in t.nodes /\ id # Self ->
            raft_node_set_active(t, id, TRUE)
      [] ety.type = "ADD_NONVOTING_NODE" /\ id \notin t.nodes ->
            raft_add_non_voting_node(t, id, next)
      [] ety.type = "ADD_NODE" -> raft_add_node(t, id, next)
      [] ety.type = "DEMOTE_NODE" /\ id \in t.nodes -> raft_node_set_voting(t, id, FALSE)
      [] ety.type = "REMOVE_NODE" /\ id \in t.nodes -> raft_node_set_active(t, id, FALSE)
      [] OTHER -> t

\* The same for raft_pop_log.
pop_fails(t, ety) ==
    /\ ety # Normal
    /\ \/ ety.id \notin t.nodes
       \/ ety.type = "DEMOTE_NODE" /\ ety.id \in t.voting
       \/ ety.type = "ADD_NODE" /\ ety.id \notin t.voting
       \/ ety.type = "ADD_NONVOTING_NODE" /\ ety.id = Self

slip_raft_pop_log(t, ety) ==            \* a removal taken back leaves the node inactive
    LET id == ety.id IN
    CASE ety.type = "DEMOTE_NODE" -> raft_node_set_voting(t, id, TRUE)
      [] ety.type = "ADD_NONVOTING_NODE" -> raft_remove_node(t, id)
      [] ety.type = "ADD_NODE" -> raft_node_set_voting(t, id, FALSE)
      [] OTHER -> t

raft_pop_log(t, ety) ==
    LET id == ety.id IN
    CASE ety.type = "DEMOTE_NODE" -> raft_node_set_voting(t, id, TRUE)
      [] ety.type = "REMOVE_NODE" -> raft_node_set_active(t, id, TRUE)
      [] ety.type = "ADD_NONVOTING_NODE" -> raft_remove_node(t, id)
      [] ety.type = "ADD_NODE" -> raft_node_set_voting(t, id, FALSE)
      [] OTHER -> t

\* The end of raft_apply_entry.
apply_fails(t, ety) ==
    ety.type \in {"ADD_NODE", "ADD_NONVOTING_NODE"} /\ ety.id \notin t.nodes

apply_change(t, ety) ==
    LET id == ety.id IN
    CASE ety.type = "ADD_NODE" ->
            raft_node_set_has_sufficient_logs(
                raft_node_set_voting_committed(
                    raft_node_set_addition_committed(t, id), id, TRUE), {id})
      [] ety.type = "ADD_NONVOTING_NODE" -> raft_node_set_addition_committed(t, id)
      [] ety.type = "DEMOTE_NODE" -> raft_node_set_voting_committed(t, id, FALSE)
      [] ety.type = "REMOVE_NODE" -> raft_remove_node(t, id)
      [] OTHER -> t

-----------------------------------------------------------------------------
(* What an application proposes *)

raft_entry_is_voting_cfg_change(ety) == ety.type \in {"ADD_NODE", "DEMOTE_NODE"}

\* The last entry about id among the first n entries, or 0.
about(id, n) ==
    LET S == {k \in 1 .. n : log[k] # Normal /\ log[k].id = id} IN
    IF S = {} THEN 0 ELSE CHOOSE k \in S : \A j \in S : j <= k

last_change(id) ==
    IF about(id, Len(log)) = 0 THEN "NONE" ELSE log[about(id, Len(log))].type

member(id) == last_change(id) # "REMOVE_NODE" /\ (id \in Initial \/ last_change(id) # "NONE")

\* The application is taking id out of the cluster.
leaving(id) == last_change(id) \in {"DEMOTE_NODE", "REMOVE_NODE"}

\* The last voting change of id among the first n entries.
latest(id, n) ==
    LET S == {k \in 1 .. n : raft_entry_is_voting_cfg_change(log[k]) /\ log[k].id = id}
    IN  IF S = {} THEN "NONE" ELSE log[CHOOSE k \in S : \A j \in S : j <= k].type

votes(id, n) == latest(id, n) = "ADD_NODE" \/ (id \in Initial /\ latest(id, n) = "NONE")

\* The callback names nodes without a vote.
may_promote(id) ==
    /\ ~ votes(id, Len(log))
    /\ \/ last_change(id) = "ADD_NONVOTING_NODE"
       \/ PromotesLeaving /\ leaving(id)

\* A node joins as a non-voting one and is promoted once it has caught up.  It is
\* removed after it has been demoted (raft.h), or at once (README.rst).
may_follow(ety) ==
    CASE ety.type = "NORMAL" -> TRUE
      [] ety.type = "ADD_NONVOTING_NODE" -> ety.id \in Joining /\ last_change(ety.id) = "NONE"
      [] ety.type = "ADD_NODE" -> may_promote(ety.id)
      [] ety.type = "DEMOTE_NODE" -> member(ety.id) /\ last_change(ety.id) \in {"NONE", "ADD_NODE"}
      [] ety.type = "REMOVE_NODE" -> member(ety.id)

-----------------------------------------------------------------------------
(* The server *)

current_idx == Len(log)

raft_voting_change_is_in_progress == voting_cfg_change_log_idx # -1

\* Who is first after a new node has got a place: an initial node, for new ones are
\* put behind these.  A freed one stays there if another place is found before its
\* own, which is not so of First, the lowest.  (The order of the rest is left open.)
may_be_first(t) == {id \in t.nodes \cap Initial : t.freed => id # First}

\* log_append_entry with raft_offer_log.
append_to_log(ety, marked) ==
    /\ current_idx < MaxEntries
    /\ log' = Append(log, ety)
    /\ IF offer_fails(table, ety)
       THEN running' = "crashed" /\ UNCHANGED table
       ELSE /\ \E next \in may_be_first(table) :
                  table' = raft_node_set_has_sufficient_logs(
                              raft_offer_log(table, ety, next), marked)
            /\ UNCHANGED running

change_refused(ety) ==
    raft_entry_is_voting_cfg_change(ety) /\ raft_voting_change_is_in_progress

\* marked are the nodes whose catching up the entry answers.
raft_recv_entry(ety, marked) ==
    /\ running = "yes" /\ state = "leader"
    /\ ~ change_refused(ety)
    /\ append_to_log(ety, marked)
    /\ voting_cfg_change_log_idx' =
          IF raft_entry_is_voting_cfg_change(ety) THEN current_idx + 1
          ELSE voting_cfg_change_log_idx
    /\ commit_idx' = IF Cardinality(voting_nodes(table')) = 1 THEN current_idx + 1
                     ELSE commit_idx
    /\ UNCHANGED <<state, last_applied_idx>>

\* A proposal of the application itself.
propose(ety) ==
    /\ may_follow(ety) /\ ety.type # "ADD_NODE"
    /\ raft_recv_entry(ety, {})

\* An acknowledgement of node id shows that it has all entries but one at most.
has_caught_up(id) ==
    /\ id \in table.nodes \ table.voting
    /\ ~ raft_voting_change_is_in_progress
    /\ id \notin table.voting_committed /\ id \notin table.sufficient

\* The application answers the callback with a promotion.
node_has_sufficient_logs(id) ==
    /\ id # Self /\ has_caught_up(id)
    /\ may_promote(id)
    /\ raft_recv_entry(Change("ADD_NODE", id), {id})

\* An entry of another leader.  raft_append_entry notes the index before it.
raft_append_entry(ety) ==
    /\ running = "yes" /\ state # "leader"
    /\ may_follow(ety)
    /\ append_to_log(ety, {})
    /\ voting_cfg_change_log_idx' =
          IF raft_entry_is_voting_cfg_change(ety) THEN current_idx
          ELSE voting_cfg_change_log_idx
    /\ UNCHANGED <<state, commit_idx, last_applied_idx>>

slip_mark_after_delete(idx) == voting_cfg_change_log_idx    \* a change that is gone

mark_after_delete(idx) ==
    IF idx <= voting_cfg_change_log_idx THEN -1 ELSE voting_cfg_change_log_idx

\* Another leader has another entry there.  Only that one goes: the entries behind
\* it, and what they did to the table, stay.
raft_delete_entry_from_idx(idx) ==
    LET ety == log[idx] IN
    /\ running = "yes" /\ state # "leader"
    /\ commit_idx < idx /\ idx <= current_idx
    /\ voting_cfg_change_log_idx' = mark_after_delete(idx)
    /\ log' = SubSeq(log, 1, idx - 1) \o SubSeq(log, idx + 1, current_idx)
    /\ IF pop_fails(table, ety)
       THEN running' = "crashed" /\ UNCHANGED table
       ELSE /\ running' = IF idx = current_idx THEN "yes" ELSE "torn"
            /\ table' = raft_pop_log(table, ety)
    /\ UNCHANGED <<state, commit_idx, last_applied_idx>>

\* Acknowledgements, or another leader's word.
raft_set_commit_idx(idx) ==
    /\ running = "yes"
    /\ commit_idx < idx /\ idx <= current_idx
    /\ commit_idx' = idx
    /\ UNCHANGED <<state, log, last_applied_idx, voting_cfg_change_log_idx, table, running>>

\* The application shuts a removed server down from applylog.
raft_apply_entry ==
    LET idx == last_applied_idx + 1
        ety == log[idx]
    IN
    /\ last_applied_idx' = idx
    /\ IF ety = Change("REMOVE_NODE", Self)
       THEN running' = "shut down" /\ UNCHANGED <<voting_cfg_change_log_idx, table>>
       ELSE /\ voting_cfg_change_log_idx' =
                  IF idx = voting_cfg_change_log_idx THEN -1 ELSE voting_cfg_change_log_idx
            /\ IF apply_fails(table, ety)
               THEN running' = "crashed" /\ UNCHANGED table
               ELSE table' = apply_change(table, ety) /\ UNCHANGED running

\* A server with a vote leads when one active node votes.  (It does not ask
\* whether that node is itself: a server being removed is not active.)
is_sole_voter == Cardinality(voting_nodes(table)) = 1 /\ Self \in table.voting

raft_periodic ==
    /\ running = "yes"
    /\ state' = IF is_sole_voter THEN "leader" ELSE state
    /\ IF last_applied_idx < commit_idx
       THEN raft_apply_entry
       ELSE UNCHANGED <<last_applied_idx, voting_cfg_change_log_idx, table, running>>
    /\ UNCHANGED <<log, commit_idx>>

\* An election that this server wins; only a voting node starts one.
raft_become_leader ==
    /\ running = "yes" /\ state # "leader"
    /\ Self \in table.voting /\ Cardinality(voting_nodes(table)) > 1
    /\ state' = "leader"
    /\ UNCHANGED <<log, commit_idx, last_applied_idx, voting_cfg_change_log_idx, table, running>>

\* A newer term.
raft_become_follower ==
    /\ running = "yes" /\ state = "leader"
    /\ state' = "follower"
    /\ UNCHANGED <<log, commit_idx, last_applied_idx, voting_cfg_change_log_idx, table, running>>

Next ==
    \/ \E ety \in Entry : propose(ety) \/ raft_append_entry(ety)
    \/ \E id \in Id : node_has_sufficient_logs(id)
    \/ \E idx \in 1 .. MaxEntries : raft_delete_entry_from_idx(idx)
    \/ \E idx \in 1 .. MaxEntries : raft_set_commit_idx(idx)
    \/ raft_periodic
    \/ raft_become_leader
    \/ raft_become_follower

Spec == Init /\ [][Next]_vars

-----------------------------------------------------------------------------
(* Properties *)

\* Roles, indices, log and table keep their ranges; only nodes of the table have
\* flags.
TypeOK ==
    /\ state \in {"leader", "follower"}
    /\ log \in Seq(Entry)
    /\ commit_idx \in 0 .. current_idx /\ last_applied_idx \in 0 .. commit_idx
    /\ voting_cfg_change_log_idx \in -1 .. current_idx
    /\ \A f \in Sets : table[f] \subseteq table.nodes
    /\ table.nodes \subseteq Id /\ table.first \in table.nodes /\ table.freed \in BOOLEAN
    /\ running \in {"yes", "crashed", "shut down", "torn"}

\* What the log, and the part of it that has been applied, say of the nodes.
changes(type, from, to) == {log[k].id : k \in {j \in from .. to : log[j].type = type}}

\* The table that the first n entries amount to.
replayed(n) ==
    LET applied == last_applied_idx
        gone    == changes("REMOVE_NODE", 1, applied) \ {Self}
        nodes   == (Initial \cup changes("ADD_NONVOTING_NODE", 1, n)) \ gone
    IN
    [nodes    |-> nodes,
     voting   |-> {id \in nodes : votes(id, n)},
     inactive |-> changes("REMOVE_NODE", 1, n) \ gone,
     voting_committed |-> {id \in nodes : latest(id, applied) = "ADD_NODE"},
     addition_committed |->
        (changes("ADD_NODE", 1, applied) \cup changes("ADD_NONVOTING_NODE", 1, applied)) \ gone]

\* The first node of the list, once it has been removed.
leftover == IF table.freed THEN {table.first} ELSE {}

\* After any sequence of entries appended, taken back from the end and applied, in
\* whatever roles, the table of nodes is what the log says: who votes and who
\* counts is not left over from an entry that is gone (raft_offer_log,
\* raft_pop_log, raft_apply_entry).  The one node that raft_remove_node fails to
\* unlink is inactive: it is listed but does not count.
TableIsLog ==
    running = "yes" =>
        /\ \A f \in DOMAIN replayed(current_idx) :
              table[f] \ leftover = replayed(current_idx)[f]
        /\ leftover \subseteq table.inactive

\* No entry fails an assert or meets a node that is not in the table when it is
\* appended, taken back or applied, if the application keeps to the documented
\* order and does not promote a node that it is taking out.  (A deletion in the
\* middle of the log may fail one: see DeletesAllFollowing.)
ServerRuns ==
    [][running' = "crashed" =>
          \E idx \in 1 .. current_idx - 1 : raft_delete_entry_from_idx(idx)]_vars

-----------------------------------------------------------------------------
(* Statements of the source that do not hold of it.  With PromotesLeaving one of *)
(* them is ServerRuns: "Once node_has_sufficient_logs callback fires, append a   *)
(* configuration finalization log entry" (README.rst).                           *)

\* "NULL == raft_get_node(r, 1)" after raft_remove_node (test_server.c): a node
\* whose removal has been applied is not in the table.
RemovedIsGone ==
    running = "yes" =>
        \A k \in 1 .. last_applied_idx :
            log[k].type = "REMOVE_NODE" /\ log[k].id # Self => log[k].id \notin table.nodes

\* "delete the existing entry and all that follow it" (raft_recv_appendentries):
\* the table is then what the entries before it say.
DeletesAllFollowing ==
    [][\A idx \in 1 .. MaxEntries :
          raft_delete_entry_from_idx(idx) =>
              \A f \in DOMAIN replayed(idx - 1) : table'[f] \ leftover' = replayed(idx - 1)[f]]_vars

\* "Only one voting cfg change at a time" (raft_recv_entry): a leader adds no
\* voting change while its log has one that is not applied.
OneVotingChange ==
    [][state = "leader" /\ current_idx < current_idx'
          /\ raft_entry_is_voting_cfg_change(log'[current_idx'])
       => \A k \in last_applied_idx + 1 .. current_idx :
             ~ raft_entry_is_voting_cfg_change(log[k])]_vars

\* "Only one voting node means it's safe for us to become the leader"
\* (raft_periodic): a server that leads without an election is that one node.
SafeToLead ==
    [][state # "leader" /\ state' = "leader" /\ Cardinality(voting_nodes(table)) = 1
       => voting_nodes(table) = {Self}]_vars

=============================================================================
