------------------------------- MODULE RaftLog -------------------------------
(***************************************************************************)
(* src/src/raft_log.c: a log is a list of entries that carry their index,  *)
(* allocated from a pool of MAX_ENTRIES, and count, the number of entries  *)
(* it is taken to hold.  base is 0 for good: what moves it (log_poll,      *)
(* log_load_from_snapshot) is commented out.                               *)
(***************************************************************************)
EXTENDS Integers, Sequences

CONSTANT MAX_ENTRIES

ASSUME PoolAssumption == MAX_ENTRIES \in Nat \ {0}

None == [idx |-> 0, data |-> 0]             \* a NULL entry

empty_log == [entries |-> <<>>, count |-> 0]

log_get_current_idx(lg) == lg.count

\* The place in the list of the first entry of index idx, or 0.
place_of(lg, idx) ==
    LET matches == {k \in DOMAIN lg.entries : lg.entries[k].idx = idx} IN
    IF matches = {} THEN 0 ELSE CHOOSE k \in matches : \A j \in matches : k <= j

slip_log_get_at_idx(lg, idx) ==             \* the list taken for an array
    IF idx \in DOMAIN lg.entries THEN lg.entries[idx] ELSE None

log_get_at_idx(lg, idx) ==
    IF idx \in 1 .. lg.count /\ place_of(lg, idx) # 0
    THEN lg.entries[place_of(lg, idx)]
    ELSE None

slip_make_room(entries) ==                  \* the youngest entry is dropped
    IF Len(entries) = MAX_ENTRIES THEN SubSeq(entries, 1, MAX_ENTRIES - 1) ELSE entries

slip_late_room(entries) ==                  \* the pool taken for one larger
    IF Len(entries) > MAX_ENTRIES THEN Tail(entries) ELSE entries

slip_early_room(entries) ==                 \* one place of the pool is not used
    IF Len(entries) = MAX_ENTRIES - 1 THEN Tail(entries) ELSE entries

\* list_pop takes the head of the list, the oldest entry.
make_room(entries) ==
    IF Len(entries) = MAX_ENTRIES THEN Tail(entries) ELSE entries

log_append_entry(lg, data) ==
    LET idx == log_get_current_idx(lg) + 1 IN
    [entries |-> Append(make_room(lg.entries), [idx |-> idx, data |-> data]),
     count   |-> idx]

\* log_get_from_idx tells how many entries there are from idx on, and points to
\* the first of them.  It reads the first and the last entry of the list without
\* asking whether they are there.
from_idx_is_null(lg, idx) == idx <= lg.count /\ place_of(lg, idx) = 0

n_from_idx(lg, idx) ==
    IF lg.count < idx THEN 0 ELSE lg.entries[Len(lg.entries)].idx - idx + 1

\* The callback log_pop agrees.  The entry of that index goes; those after it
\* stay, with their indices.
log_delete(lg, idx) ==
    LET k == place_of(lg, idx) IN
    IF k = 0 THEN lg
    ELSE [entries |-> SubSeq(lg.entries, 1, k - 1) \o SubSeq(lg.entries, k + 1, Len(lg.entries)),
          count   |-> lg.count - 1]

=============================================================================
