----------------------------- MODULE RaftBacklog -----------------------------
(***************************************************************************)
(* A leader's log that grows while entries wait to be committed, applied   *)
(* and sent: the bounded pool of raft_log.c meets raft_apply_entry and     *)
(* raft_send_appendentries, and the packet __raft_send_appendentries       *)
(* builds of it.  Peers may be any number of entries behind.               *)
(***************************************************************************)
EXTENDS RaftLog, FiniteSets

CONSTANTS
    PACKETBUF_SIZE,     \* bytes of the staging buffer and of a packet
    HEADER_SIZE,        \* bytes send_data puts in front
    META_SIZE,          \* sizeof(msg_appendentries_t) without the pointer
    ENTRY_SIZE,         \* sizeof(raft_entry_t)
    MaxAppends          \* bound: entries ever appended

ASSUME SizeAssumption ==
    /\ PACKETBUF_SIZE \in Nat /\ HEADER_SIZE \in Nat /\ META_SIZE \in Nat
    /\ ENTRY_SIZE \in Nat \ {0} /\ MaxAppends \in Nat

VARIABLES
    log,
    appended,           \* how many entries were appended; the data of the last one
    commit_idx,
    last_applied_idx,
    applied,            \* what applylog was handed
    packet,             \* the last AppendEntries packet, or NoPacket
    derailed            \* the node has read through NULL: what follows is undefined

vars == <<log, appended, commit_idx, last_applied_idx, applied, packet, derailed>>

NoPacket == [prev_log_idx |-> 0, prev_found |-> TRUE, n_entries |-> 0,
             entries |-> <<>>, len |-> 0]

Init ==
    /\ log = empty_log /\ appended = 0
    /\ commit_idx = 0 /\ last_applied_idx = 0 /\ applied = <<>>
    /\ packet = NoPacket
    /\ derailed = FALSE

\* raft_recv_entry: the log part of a proposal.
raft_append_entry ==
    /\ ~ derailed /\ appended < MaxAppends
    /\ appended' = appended + 1
    /\ log' = log_append_entry(log, appended')
    /\ UNCHANGED <<commit_idx, last_applied_idx, applied, packet, derailed>>

\* raft_recv_appendentries_response, "Update commit idx": a peer, and with it a
\* majority, has acknowledged point, of the leader's own term.  The term is read
\* through NULL when the entry has been dropped from the list.
update_commit_idx(point) ==
    /\ ~ derailed
    /\ commit_idx < point /\ point <= log_get_current_idx(log)
    /\ IF log_get_at_idx(log, point) = None
       THEN derailed' = TRUE /\ UNCHANGED commit_idx
       ELSE commit_idx' = point /\ UNCHANGED derailed
    /\ UNCHANGED <<log, appended, last_applied_idx, applied, packet>>

slip_raft_apply_entry ==                    \* the last committed entry waits
    LET ety == log_get_at_idx(log, last_applied_idx + 1) IN
    /\ ~ derailed
    /\ last_applied_idx + 1 < commit_idx
    /\ ety # None
    /\ last_applied_idx' = last_applied_idx + 1
    /\ applied' = Append(applied, ety.data)
    /\ UNCHANGED <<log, appended, commit_idx, packet, derailed>>

\* An entry that is not found is tried again at every call, in vain.
raft_apply_entry ==
    LET ety == log_get_at_idx(log, last_applied_idx + 1) IN
    /\ ~ derailed
    /\ last_applied_idx # commit_idx
    /\ ety # None
    /\ last_applied_idx' = last_applied_idx + 1
    /\ applied' = Append(applied, ety.data)
    /\ UNCHANGED <<log, appended, commit_idx, packet, derailed>>

-----------------------------------------------------------------------------
(* AppendEntries packets *)

first_offset == 1 + META_SIZE

slip_another_fits(k) ==         \* the place for the next entry not counted in
    first_offset + k * ENTRY_SIZE < PACKETBUF_SIZE

\* After k entries the loop goes on.
another_fits(k) == first_offset + k * ENTRY_SIZE + ENTRY_SIZE < PACKETBUF_SIZE

\* How many of n entries are copied: at least one, and as many as the loop
\* copies before it finds no place for the next.
copied(n) ==
    Cardinality({k \in 1 .. n : \A j \in 1 .. k - 1 : another_fits(j)})

\* The packet for a peer whose next entry is next.
appendentries_packet(next) ==
    LET n    == n_from_idx(log, next)
        from == place_of(log, next)
        sent == SubSeq(log.entries, from, from + copied(n) - 1)
    IN
    [prev_log_idx |-> next - 1,
     prev_found   |-> next = 1 \/ log_get_at_idx(log, next - 1) # None,
     n_entries    |-> n,
     entries      |-> sent,
     len          |-> first_offset + Len(sent) * ENTRY_SIZE + HEADER_SIZE]

\* log_get_from_idx reads through NULL when next has been dropped from the list.
raft_send_appendentries(next) ==
    /\ ~ derailed
    /\ next \in 1 .. log_get_current_idx(log) + 1
    /\ IF from_idx_is_null(log, next)
       THEN derailed' = TRUE /\ UNCHANGED packet
       ELSE packet' = appendentries_packet(next) /\ UNCHANGED derailed
    /\ UNCHANGED <<log, appended, commit_idx, last_applied_idx, applied>>

-----------------------------------------------------------------------------
Next ==
    \/ raft_append_entry
    \/ \E point \in 1 .. MaxAppends : update_commit_idx(point)
    \/ raft_apply_entry
    \/ \E next \in 1 .. MaxAppends + 1 : raft_send_appendentries(next)

Spec == Init /\ [][Next]_vars

\* raft_periodic runs for ever and applies an entry at every call.
FairSpec == Spec /\ WF_vars(raft_apply_entry)

\* Deleting, for an application whose log_pop callback returns 0.
raft_delete_entry_from_idx(idx) ==
    /\ ~ derailed
    /\ commit_idx < idx /\ idx <= log_get_current_idx(log)
    /\ log' = log_delete(log, idx)
    /\ UNCHANGED <<appended, commit_idx, last_applied_idx, applied, packet, derailed>>

DeletingSpec ==
    Init /\ [][Next \/ \E idx \in 1 .. MaxAppends : raft_delete_entry_from_idx(idx)]_vars

\* Appending an entry whose id the application has drawn at random
\* (__handle_msg_client); ids take the place of data.
append_with_id(id) ==
    /\ ~ derailed /\ appended < MaxAppends
    /\ appended' = appended + 1
    /\ log' = log_append_entry(log, id)
    /\ UNCHANGED <<commit_idx, last_applied_idx, applied, packet, derailed>>

RandomIdSpec == Init /\ [][\E id \in 0 .. MaxAppends : append_with_id(id)]_vars

-----------------------------------------------------------------------------
(* Properties *)

Entry == [idx : 1 .. MaxAppends, data : 1 .. MaxAppends]

\* The list never outgrows the pool, and every field keeps its range.
TypeOK ==
    /\ log \in [entries : Seq(Entry), count : 0 .. MaxAppends]
    /\ Len(log.entries) <= MAX_ENTRIES
    /\ appended \in 0 .. MaxAppends
    /\ commit_idx \in 0 .. log.count /\ last_applied_idx \in 0 .. commit_idx
    /\ packet \in [prev_log_idx : 0 .. MaxAppends, prev_found : BOOLEAN,
                   n_entries : 0 .. MAX_ENTRIES, entries : Seq(Entry), len : Nat]
    /\ derailed \in BOOLEAN

Bounded == INSTANCE BoundedLog WITH
    Data <- 1 .. MaxAppends,
    Kept <- MAX_ENTRIES,
    last <- log_get_current_idx(log),
    at   <- [i \in {j \in 1 .. log.count : log_get_at_idx(log, j) # None}
                |-> log_get_at_idx(log, i).data]

\* The list with its pool implements a log in bounded memory: lookups find the
\* entry of that index or none, appending changes no other entry, and what is
\* dropped to make room is older than the newest MAX_ENTRIES (log_append_entry,
\* log_get_at_idx).
NewestKept == Bounded!BoundedSpec

\* applylog gets the entries in the order in which they were appended, each
\* once, although the list they are looked up in loses its oldest entries.
AppliedInOrder == applied = [i \in 1 .. last_applied_idx |-> i]

\* As long as the pool holds all entries that were ever appended, no lookup fails:
\* neither sending nor counting acknowledgements reads through NULL, and the
\* previous entry, whose term the peer compares, is there.
PoolSuffices == appended <= MAX_ENTRIES => ~ derailed /\ packet.prev_found

\* A packet holds the entries that follow prev_log_idx, in order; it fits into
\* the buffer in which send_data shifts it by its header; a peer that lacks
\* entries gets at least one, and all of them if all fit.  (When they do not,
\* the packet announces more than it holds: see AnnouncesWhatItHolds.)
PacketSound ==
    /\ \A k \in DOMAIN packet.entries : packet.entries[k].idx = packet.prev_log_idx + k
    /\ packet.n_entries > 0 => packet.entries # <<>>
    /\ packet.len <= PACKETBUF_SIZE
    /\ first_offset + packet.n_entries * ENTRY_SIZE < PACKETBUF_SIZE
         => Len(packet.entries) = packet.n_entries

\* Whatever is committed is applied in the end, unless it, or an entry before
\* it, was dropped from the pool unapplied.
AppliedOrLost ==
    \A i \in 1 .. MaxAppends :
        i <= commit_idx
            ~> \/ i <= last_applied_idx \/ derailed
               \/ log_get_at_idx(log, last_applied_idx + 1) = None

-----------------------------------------------------------------------------
(* Statements of the source that do not hold of it. *)

\* log_delete deletes all entries from an index onwards (raft_log.h): nothing is
\* left behind the last index.
NothingBeyond == \A k \in DOMAIN log.entries : log.entries[k].idx <= log.count

\* n_entries is the "number of entries within this message" (raft.h): the receiver
\* copies that many out of it.
AnnouncesWhatItHolds == Len(packet.entries) = packet.n_entries

\* "remove the youngest one to make space" (log_append_entry): a full list keeps
\* its older entries.
YoungestMakesSpace ==
    [][Len(log.entries) = MAX_ENTRIES /\ appended < appended'
       => \A k \in 1 .. MAX_ENTRIES - 1 : log'.entries[k] = log.entries[k]]_vars

\* log_count returns the "number of entries held within log" (raft_log.h).
CountIsHeld == log.count = Len(log.entries)

\* "Don't add entry if we've already added this entry (based off ID)" (raft_log.h),
\* of a log whose data are ids.
IdsDistinct ==
    \A j, k \in DOMAIN log.entries : log.entries[j].data = log.entries[k].data => j = k

=============================================================================
