# Verification of raft-contiki

TLA+ models of the Raft library in `src/src` as the Contiki application
`src/app/main.c` runs it, checked with TLC and proved with TLAPS.

## The system

raft-contiki is a port of willemt/raft to Contiki motes. One process image per
mote holds one Raft server, one log and one application.

| part | state | operations | hard behaviour | what makes it correct |
|---|---|---|---|---|
| Raft server (`raft_server.c`, `raft_server_properties.c`) | `current_term`, `voted_for`, `state`, `current_leader`, `commit_idx`, `last_applied_idx`, timers | `raft_periodic`, the four packet handlers, `raft_recv_entry`, membership and snapshot entry points | any packet at any time; changes of term in every handler; stale answers | one leader per term, committed entries stay and are on a majority, the asserts hold |
| Peer table (`raft_node.c`) | per peer `next_idx`, `match_idx`, flags | setters and getters | late answers move the indices about | `match_idx` is what the peer stores, `match_idx < next_idx`, `next_idx >= 1` |
| Log (`raft_log.c`) | a list of at most `MAX_ENTRIES` entries, `count`, `base` | append, lookup, entries from an index, delete | a full pool drops its oldest entry; deletion asks a callback | lookups by index find the entry of that index; logs match |
| Application (`main.c`, `proto.h`) | the staging buffer, node id | `recv`, one handler per packet type, the callbacks, the client and periodic processes | packets are built and parsed by hand; asserts on results; nothing is persisted | a packet is understood as it was meant; handlers survive what the network does |
| Timers (`raft_server.c`, `main.c`) | `timeout_elapsed`, `election_timeout_rand` | counting in `raft_periodic`, resets in the handlers | periods are shifted against each other, heartbeats are lost or late | a live leader is not challenged, nothing is overdue |
| Membership changes (`raft_server.c`, `raft_node.c`) | the flags of a node, `voting_cfg_change_log_idx` | `raft_offer_log`, `raft_pop_log`, the end of `raft_apply_entry`, the promotion callback | entries taken back after others were applied; changes of role in between | the table is what the log says, the asserts hold |
| Contiki (external) | netflood, `list`, `memb`, `random`, timers | | loss, delay, repetition, reordering | |

The parts call one another directly: a packet or a timer starts a handler of
the application, which calls the server, which changes the log and the peer
table and calls back to send packets. Contiki processes are cooperative and no
handler yields, so a handler is atomic; all concurrency is between motes.
Packets are flooded by `netflood` with a receiver id in front.

The hazards, each at its line and with the properties that watch it, are listed
in `PROJECT.json`.

## Plan

Done, in this order:

1. **RaftCluster**: the handlers of all nodes and the air between them, with the
   static membership `main_process` builds.
2. **RaftReboot**: loss of power.
3. **AgreedLog**, **RaftAgreement**: what the cluster promises to its state
   machines, and that it implements it.
4. **RaftLog**, **BoundedLog**, **RaftBacklog**: `raft_log.c` with its pool, the
   log in bounded memory it implements, and the log in use: entries committed, applied and packed
   into packets while older ones are dropped.
5. **RaftTimer**: the timeouts of `main.c` and who resets them.
6. **RaftMembership**: configuration entries, for the library.

7. Proofs of every invariant and action property that a run checks, and of both
   refinements.

Left:

* replication with reboots (a rebooted follower under the same leader);
* membership changes composed with elections.

## Modules

**RaftCluster** has one variable per field of the server, each a function of
the node, and `msgs`, the packets ever sent. An action is one handler run:

| code | action |
|---|---|
| `raft_periodic` | `raft_periodic(n)`: one of sole leader, heartbeat, election, nothing; then one entry applied |
| `__handle_msg_requestvote`, `raft_recv_requestvote` | `raft_recv_requestvote(n, m)` |
| `raft_recv_requestvote_response` | the same name; `step_down` or `count_vote` (with `raft_become_leader`) |
| `__handle_msg_appendentries`, `raft_recv_appendentries` | the same name; one disjunct per way through the handler |
| `raft_recv_appendentries_response` | the same name; `step_down`, `append_failed` or `append_succeeded` |
| `__handle_msg_client`, `raft_recv_entry` | `handle_msg_client(n, m)` |
| `client_new_message` | `client_new_message(n, data)` |

Where a handler changes nothing and sends nothing (a packet for a node in the
wrong role, an answer of an old term, a proposal while no leader is known) there
is no action: it would be a stuttering step.

*The air.* `msgs` only grows, and a packet may be received whenever and as often
as one likes. Loss is a packet never received. The receive callback drops packets
for other nodes, hence `m.dst = n`.

*Batches.* `__raft_send_appendentries` zeroes the list pointer of each entry it
copies. The receiver walks the copies by list pointer, so it sees the first entry
and then NULL. The cases of `raft_recv_appendentries` follow from that:
`append_first` stores one entry, `batch_cut_short` leaves at the NULL,
`null_entry` is the comparison loop reading `NULL->term`.

*NULL reads.* The constant `NullRead` says what such a read can do: `"trap"`
stops the node (native, cooja); `"word"` goes on with a word from low memory
(sky, the default target, has no memory protection; those addresses hold the
interrupt flags). Under `"word"` the word is taken to differ from the small terms
of the model: an entry behind `commit_idx` counts as conflicting, and its deletion
fails. At a committed entry the loop goes on, and since `list_item_next(NULL)` is
NULL there is nothing to append after it: the handler leaves (raft_server.c:490)
and answers with the index it has reached. When that is not the last index of the
packet (three nodes, two terms, three entries) is covered by the proofs, not by a
run.

*Failed asserts.* `__raft_logentry_pop` returns -1, so every deletion fails, with
-1, and `assert(e == 0)` in the handler fails. `failed_assert` either stops the
node (it joins `down`) or, as Contiki's own assert does in a build that only
prints, goes on and answers. A node in `down` takes no further step.

*Left out.* `first_idx` of an answer and the ids of entries, which nothing reads
back; timers (a timeout may pass at any call, see RaftTimer); configuration
entries (see RaftMembership), flags that never change in the application, and
snapshots, whose log side is commented out
(`snapshot_in_progress` stays 0). A client that does not know a leader compares
an `unsigned short` with -1: it returns on sky and floods a packet for node 65535
on native, which nobody takes; the model does nothing in both.

*Bounds.* `MaxTerm` stops candidates from entering further terms, `MaxEntries`
leaders from appending (in the code a full log evicts its oldest entry, see
RaftBacklog). With at most three entries a batch always fits into one packet.

**RaftReboot** adds `reboot(n)`: everything `raft_new` and `raft_add_node` set,
nothing kept, packets on the air unaffected.

**AgreedLog** is the abstract specification: one sequence of chosen entries that
grows at its end, and for each node a prefix of it that grows. **RaftAgreement**
maps the cluster to it: a node knows its log up to `commit_idx`, and what the
best informed node knows is chosen. `Agreement` is the abstract specification as
a property of the cluster.

**RaftLog** holds the functions of `raft_log.c` as operators on a log: the list
of entries, each with its index, and `count`. `make_room` drops the head of the
list when the pool is used up. `base` is 0 for good.

**BoundedLog** is a log in bounded memory, as the callers of raft_log.c need it
(`raft_log.h` does not speak of bounded memory): entries are found by index and
never change, and the newest `Kept` are kept. **RaftBacklog** is a leader that
uses RaftLog:

| code | action |
|---|---|
| `raft_recv_entry`, `raft_append_entry` | `raft_append_entry` |
| `raft_recv_appendentries_response`, commit step | `update_commit_idx(point)`, any index of the log; the term of an entry that was dropped is read through NULL |
| `raft_apply_entry` | the same name; no step when the entry is not found |
| `raft_send_appendentries`, `__raft_send_appendentries` | `raft_send_appendentries(next)`, for a peer of any `next_idx` |
| `raft_delete_entry_from_idx` | the same name, only in `DeletingSpec`, for an application whose `log_pop` works |
| `__handle_msg_client`, the id it draws | `append_with_id(id)`, only in `RandomIdSpec` |

When `log_get_from_idx` or the commit step reads through NULL, the node is `derailed` and takes no
further step. The packet is the list of entries copied, the number announced and
the length in bytes; `copied` is how often the loop of `__raft_send_appendentries`
copies, and the length includes the header `send_data` puts in front.

**RaftTimer** extends RaftCluster. Every action of RaftCluster that can happen in
it is conjoined with what the same handler does to `timeout_elapsed` and
`election_timeout_rand`, and `raft_periodic` takes a timeout exactly when it is
due. All motes have the same period, and each has one period per round, in any
order: `ticked` are those that had it. So periods are shifted against each other,
but clocks do not drift apart. `unheard` counts the heartbeats a node has missed
since it heard one, and no timer fires while there are more than `MaxUnheard`:
those that are lost, and one that may still be under way. `netflood_open` is given
a queue time of 2 s (main.c:645), so a heartbeat is heard before the next one is
sent, 8 s later, or never; it need not be heard before the next period.
Heartbeats of a term the node has left behind are not counted: a deposed leader
may go on sending them. Proposals are left out: they touch no timer.

**RaftMembership** is one server of the library and its table of nodes: the
nodes, and for each flag the set of nodes that have it. An action is an operation
of the library: an entry appended by this server as leader (`propose`,
`node_has_sufficient_logs` with the promotion the application answers it by) or
for another leader (`raft_append_entry`), an entry deleted
(`raft_delete_entry_from_idx`), an index committed, a period with
an entry applied, a change of role. Peers may acknowledge anything at any time.

*Deletion.* The handler deletes at any index behind `commit_idx`. `log_delete`
takes out one entry. When that is the last one, the server goes on; when others
follow it, their effects on the table stay, their indices no longer fit, and
`running` becomes `"torn"`, if no assert fails. Such a server is not followed
further: what it is like then, the configurations `delete` and `following` show.

*The first node of the list.* `raft_remove_node` gives `list_remove` the first
node instead of the list (raft_server.c:979). A node behind the first is unlinked;
the first one is freed but stays linked, with its flags (`freed`), until the pool
gives its memory to a new node. Then the new node is put at the end, and another
is first. `First` is the node that was added first and has the lowest place in the
pool, which the pool gives out first. Which node comes after it is left open
(`may_be_first`).

*Proposals.* The application of `src/app` proposes no configuration entry, so what
may be proposed is taken from README.rst and raft.h and marked external in the
map: a node joins with a fresh id as a non-voting node, is promoted when the
callback `node_has_sufficient_logs` names it, is demoted and then removed (raft.h)
or removed at once (README.rst). The callback also names nodes that are on their
way out. `PromotesLeaving` says whether the application promotes these, as
README.rst:419 would have it (run `promoted`: the server crashes), or leaves them
alone. Next and match indices are those of RaftCluster and left out here.

**MC_RaftCluster** cuts the behaviours down for TLC. `Cut` names links that lose
everything, `Campaign` the nodes that may be candidates, `Forwarding` whether
proposals travel as packets (else only a leader's own client proposes). Each step
of `MCNext` is a step of `Next`, so what a run finds is a behaviour of the
cluster; what it does not explore is said below.

## Runs

Passing:

| run | instance | checks |
|---|---|---|
| `split` | 3 nodes, n1 and n2 do not hear each other, 2 terms, 2 entries | ElectionSafety, LeaderCompleteness, CommittedOnMajority, LeaderKnown, Agreement |
| `handover` | 3 nodes, leaders of terms 1 and 4 with different first entries at the start, 2 entries | LogMatching, MatchIsReplicated, LibraryAsserts |
| `replication` | 2 nodes, 1 term, 3 entries, proposals at either node | TypeOK, LeaderCommits, AppliedEventually, CommitStable |
| `log` | a pool of 5, 7 entries, packets of 128 bytes | TypeOK, AppliedInOrder, PoolSuffices, PacketSound, NewestKept, AppliedOrLost |
| `timer` | 2 nodes, 2 terms, periods of 4 s, timeouts of 8 s and of 50 or 70 s, 4 heartbeats in a row not heard | Punctual, LeaderKept |
| `membership` | a server, another node, which is first in the list, one that may join, 5 entries; leaving nodes are not promoted | TypeOK, TableIsLog, ServerRuns |

*RaftCluster.* Two terms and three nodes are what a change of leader with
overlapping majorities needs; two entries make batches, three make batches that
overlap the log by two. Full meshes of three nodes with two terms and two entries
exceed what TLC can do in minutes, hence the cut links: `split` keeps the two
rivals apart, the usual way to a lost entry, and lets a deposed leader hear of
its successor late, from the third node. An entry of an earlier term that is
counted and then replaced takes three terms: that hazard (raft_server.c:356) is
covered by the theorems LeadersComplete and CommitsStored, not by a run. No run has three candidates in one term;
ElectionSafety is proved for that. `handover` has no cut, but starts in the
middle, in a state the cluster reaches: n1 won term 1 with the vote of n3 and
appended an entry; n2 won term 2 with the vote of n3 and appended another; n3 was
a candidate of term 3, which deposed n2 but gave n3 no majority, its log being
empty; n2 won term 4 with the vote of n3 and now offers n1 what follows its own
first entry. A cluster of one leads without votes (`become_sole_leader`); no run
has one, the proofs do.

*RaftBacklog.* The pool has 5 places instead of 50 and the entries are those of
a 64-bit build (32 bytes, 3 to a packet), so that both limits are passed: 7
entries overflow the pool by two, and a backlog of 4 or 5 overflows the packet.
In a 32-bit build 4 entries fit, on sky (12 bytes) 9.

*RaftTimer.* The values are those of main.c in seconds. A random part of 0 is the
shortest timeout, the one that decides about LeaderKept; 20 lets one of two
candidates be earlier. Four unheard heartbeats in a row are the most that main.c
tolerates: with `MaxUnheard = 5` TLC finds a follower that challenges its leader.
Both properties see a timer that is not reset when it should be. A timer that is
reset when it should not be, and an election that is put off by it, they do not
see.

*RaftMembership.* Two nodes make both the sole voter and the majority of two; one
joining node goes through all of its life (joined, promoted, demoted, removed:
four entries) with one entry to spare. The first node of the list being another
one than the server, its removal is the one `raft_remove_node` fails to do, and
the joining node may take over its memory.

Symmetry is used in `split` (n1 and n2, whose roles are the same; its properties
are invariants and a refinement without liveness) and in `reboot`. The view
`NoApplyView` drops packets nobody can receive and `last_applied_idx`, which
guards nothing else and which no property of those runs reads.

Deadlock is checked in all runs of the cluster: the periodic process of a running
node always has a step, and no run stops all nodes. It is not checked in the
runs of RaftBacklog (a derailed leader stops, and so does one that has appended
`MaxAppends` entries and applied them) and in the runs of RaftMembership (a
removed server shuts down, one that crashed or is torn is not followed further).

Fairness. `AppliedEventually` needs only that the periodic timer of a running
node fires again (weak fairness of `raft_periodic`): the process sets its timer
in an endless loop. `LeaderCommits` is about a network that lets packets through:
weak fairness of the heartbeat, of receiving some AppendEntries packet and of
receiving some answer. The library repeats packets for ever, so this is the usual
assumption on a link that is not cut. Its conclusion allows for a leader that is
deposed and for a node that has stopped.

`AppliedOrLost` needs the periodic timer alone: weak fairness of
`raft_apply_entry` in RaftBacklog.

Violated, each a statement of the repository that the code does not keep
(`PROJECT.json`, findings, with the lines):

| run | statement | what TLC shows |
|---|---|---|
| `duplicate` | the library copes with duplicates (README.rst:13) | a repeated packet of two stored entries reads through NULL |
| `conflict` | `assert(e == 0)` (main.c:188) | fails at the first conflicting entry |
| `reboot` | votes are flushed to disk (raft.h:283) | two leaders in one term |
| `announced` | `n_entries` is the "number of entries within this message" (raft.h:171) | a backlog of four is announced, three entries are in the packet |
| `firstnode` | a node is not found after `raft_remove_node` (test_server.c:192) | the first node of the list is |
| `promoted` | "Once node_has_sufficient_logs callback fires, append a configuration finalization log entry" (README.rst:419) | the callback fires for a node being removed, and applying its promotion after its removal reads through NULL |

Further statements of the source do not hold of it either. They have a
configuration each and are not listed as runs: the first four are about comments
and about operations the application does not use, the others about the
membership changes of the library.

| configuration | statement | what TLC shows |
|---|---|---|
| `delete` | `log_delete` deletes "all logs from this log onwards" (raft_log.h:28) | it deletes one, the rest stays beyond the last index |
| `youngest` | a full list removes its youngest entry (raft_log.c:132) | it removes the oldest, which is what its callers need (NewestKept) |
| `count` | `log_count` is the "number of entries held within log" (raft_log.h:24) | after an entry was dropped it is larger |
| `ids` | an entry with an id already there is not added (raft_log.h:18) | it is added |
| `onechange` | "only one voting cfg change at a time" (raft_server.c:696) | a follower notes a change one index early, forgets it early, and as leader adds a second |
| `removed` | one voting node means it is safe to become the leader (raft_server.c:230) | the follower of two that is to be removed makes itself leader, the one voting node being the other |
| `following` | an existing entry is deleted "and all that follow it" (raft_server.c:461) | the table keeps what the following entries did to it |

## Proofs

Every theorem is about all values of the constants that the named ASSUMEs of the
modules allow: any finite non-empty `Node`, any `Value`, any bounds, any pool.
Three theorems or groups of theorems have a hypothesis of their own, given below.

| module | theorem | states |
|---|---|---|
| RaftCluster_proofs | TypeCorrect | `Spec => []TypeOK` |
| RaftElection_proofs | ElectionSafe | `Spec => []ElectionSafety` |
| RaftIndex_proofs | CommitsStay, LeadersKnown | `Spec => CommitStable`, `Spec => []LeaderKnown` |
| RaftSafety_proofs | LogsAgree, MatchesReplicated, LeadersComplete, CommitsStored, AssertsHold | LogMatching, MatchIsReplicated, LeaderCompleteness, CommittedOnMajority, LibraryAsserts |
| RaftAgreement_proofs | ImplementsAgreedLog | `Spec => Agreement` |
| RaftTimer_proofs | TimedImplements, NoneOverdue | `TimedSpec => Spec`, `TimedSpec => []Punctual` |
| | LeadersKept | `TimedSpec => LeaderKept`, under `HeartbeatsFit` |
| RaftBacklog_proofs | BacklogTyped, AppliesInOrder, PoolIsEnough | TypeOK, AppliedInOrder, PoolSuffices |
| | PacketsSound | `Spec => []PacketSound`, under `HeaderHasRoom` |
| | KeepsNewest | `Spec => NewestKept` |
| RaftMembership_proofs | MembersTyped | `Spec => []TypeOK` |
| | TableFollowsLog, ServerKeepsRunning | TableIsLog, ServerRuns, under `~ PromotesLeaving` |

The theorems about the cluster are about `Spec`: a cluster without reboots. With
reboots ElectionSafety fails (run `reboot`). Each inductive invariant was first
checked with TLC, on the instance of a run or a somewhat larger one.

**Types.** TypeOK of RaftCluster is inductive; there is one lemma per handler and,
for `raft_recv_appendentries`, per way through it.

**Elections.** ElectionSafety is not inductive: nothing in it says why there is
one leader. The invariant `ElectionInv` follows the votes. `Voted(v, t, c)` reads
a vote off the air: a granted answer, or the candidate's own request. Then

* `VotesRemembered`: a vote is of an earlier term of the voter, or is its `voted_for`;
* `VotesUnique`: a node has voted for at most one candidate per term;
* `CandidateCounts`: the flags a candidate counts are votes of its present term;
* `LeadersBacked`: a leader, and the sender of any AppendEntries packet, has the
  votes of a majority in that term.

`VoteStep(n)` is all that a handler of `n` may do to terms, votes and roles; one
lemma (`VoteStepInv`) shows that such a step keeps the invariant, and one lemma
per handler that it is such a step. Two majorities meet in a voter
(`FS_MajoritiesIntersect`), which voted once. A cluster of one leads without votes
and is a case of its own.

**Indices.** `IndexInv` bounds commit indices and what packets say by the length
of logs, which only grow; `LeaderInv` says that whom a node names has led its
term.

**Logs and commits.** `ClusterInv` adds `SafeInv` to these:

* `LogTerms`: the terms in a log do not decrease and are not beyond its node's term;
* `EntryOrigin`: an entry of term t agrees, with all before it, with the log of
  the leader of t;
* `PacketsTrue`: AppendEntries packets carry a part of their sender's log, and an
  acknowledgement is of a prefix the two share;
* `VotesInformed`: the log a candidate told of in its request is not behind any
  entry that its voter had acknowledged to a leader of an earlier term;
* `PeersTrue`: a non-zero `match_idx` is backed by an acknowledgement in the present term;
* `CommitTrue`: what a node knows committed is a prefix of something chosen.

An entry is *chosen* when a leader has appended it in its own term and a majority
has acknowledged it. Acknowledgements and votes stay on the air and logs only
grow, so what is chosen stays so. `LeaderHasChosen` is the heart: a leader of a
later term has the vote of a node that acknowledged the entry; take the least such
term without it, and the last entry of the candidate's log, not being behind the
voter's, comes from the same leader or from one in between, and they have it. LeaderCompleteness, CommittedOnMajority and the
comparability of committed prefixes, on which Agreement rests, follow.

All of this holds under both kinds of `NullRead`: the loop that reads through NULL
compares entries and appends none.

**Timers.** Each timed handler is a handler of RaftCluster, so the theorems about
`Spec` hold with timers. For Punctual, `InTime` says that a timer is below the
limit of its node's present role. For LeaderKept, `Drift` relates a follower's
timer to that of the leader it follows: what has elapsed at the follower is at
most the heartbeats it has not heard, each an interval long, plus what has elapsed
at the leader, plus a period, and a period more or less when only one of the two
has had its turn in this round. `HeartbeatsFit` asks that `MaxUnheard + 1` intervals and a period are
shorter than the election timeout; the lemma `SourceTimeouts` shows it of the
values of main.c (5 * 8 + 4 < 50) with four heartbeats not heard.

**The log and its pool.** `BacklogInv` says what the list is after any number of
appends: consecutive entries, the last of them with index `count`, as many as were
appended or as the pool holds. The lookups of raft_log.c, which compute a position
from an index, then find the entry of that index or none. `HeaderHasRoom` asks
that what `__raft_send_appendentries` leaves free is enough for the header
`send_data` adds, of which it knows nothing; the lemma `SourceSizes` shows it of
the structures in builds for 64, 32 and 16 bits.

**Membership.** `TypeInv` (the ranges, and that only nodes of the list have flags) is
inductive by itself, whatever the application promotes. `ReadInv` reads the table
off the log, as long as the server is followed. `Told(n)` is what the
first n entries say of whom; `Read(t, c, d)` is the table of a log that tells c and
whose applied part tells d, with `Left(t)`, the first node if it has been freed,
as the one exception: it is inactive. The flags of a node do not remember the
entries behind
them, so taking an entry back restores the table only because of `OrderKept`: in
the log every node joins, is promoted, demoted and removed at most once each, in
that order. That is what the documented order of proposals leaves in the log, the
promotions among them, as long as no leaving node is promoted
(`FollowsInOrder`); with `PromotesLeaving` it is not so, and neither is
ServerRuns (run `promoted`). `OfferRead`, `PopRead` and `ApplyRead` are the three
operations on the table. ServerRuns excepts deletions of an entry that others
follow, which may fail an assert.

Only model-checked: the liveness properties AppliedEventually, LeaderCommits and
AppliedOrLost, which are out of the prover's reach (fairness and ENABLED). What
the runs that expect a violation show is a counterexample and needs no proof.

## Not modelled

* Snapshots: the bodies are commented out in this port and return 0; the
  application never begins one.
* `log_poll`, `log_load_from_snapshot` (commented out), `log_clear`, `log_empty`,
  `log_peektail`, `log_free`, `raft_clear`, `raft_free`, `raft_apply_all`,
  `raft_msg_entry_response_committed`: not called by the application or by what
  it calls.
* The receiver's copy of a batch into its own buffer: the model of the receiver
  takes the entries as sent. (The copy takes as many as were announced, see
  `announced`; in RaftCluster all that is announced is sent.)
* A server whose log has lost an entry from its middle (`"torn"`), and the order of
  the nodes behind the first of the list.
* Configuration entries in a cluster: RaftMembership is one server, with peers
  that may do anything.
* A peer list at its limit MAX_NODES, and clients that want to know whether their
  proposal was stored once.

## Running

    tlc -workers 2 -config split.cfg MC_RaftCluster
    tlc -workers 2 -config reboot.cfg RaftReboot
    tlc -workers 2 -config log.cfg RaftBacklog
    tlc -workers 2 -config timer.cfg RaftTimer
    tlc -workers 2 -config membership.cfg RaftMembership
    tlapm RaftCluster_proofs.tla
    tlapm RaftElection_proofs.tla
    tlapm RaftIndex_proofs.tla
    tlapm RaftSafety_proofs.tla
    tlapm RaftAgreement_proofs.tla
    tlapm RaftTimer_proofs.tla
    tlapm RaftBacklog_proofs.tla
    tlapm RaftMembership_proofs.tla
