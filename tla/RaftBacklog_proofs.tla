-------------------------- MODULE RaftBacklog_proofs --------------------------
(***************************************************************************)
(* Proofs about RaftBacklog.  In the list with its pool the entries are    *)
(* consecutive and the last one has the index count; as many are there as  *)
(* were appended, or as the pool holds.  What the lookups of raft_log.c    *)
(* return follows from that, and from the lookups what is applied and sent.*)
(***************************************************************************)
EXTENDS RaftBacklog, TLAPS, SequenceTheorems, FiniteSetTheorems

-----------------------------------------------------------------------------
(* The log *)

Ety(i) == [idx |-> i, data |-> i]           \* the i-th entry ever appended

\* How many entries the list has lost.
dropped == log.count - Len(log.entries)

WellKept ==
    /\ log \in [entries : Seq(Entry), count : 0 .. MaxAppends]
    /\ appended = log.count
    /\ Len(log.entries) <= MAX_ENTRIES /\ Len(log.entries) <= log.count
    /\ Len(log.entries) = log.count \/ Len(log.entries) = MAX_ENTRIES
    /\ \A k \in DOMAIN log.entries : log.entries[k] = Ety(dropped + k)

Indices == /\ commit_idx \in 0 .. log.count
           /\ last_applied_idx \in 0 .. commit_idx

-----------------------------------------------------------------------------
(* What the lookups find *)

LEMMA KeptTypes ==
    ASSUME WellKept
    PROVE  /\ log.entries \in Seq(Entry) /\ log.count \in Nat /\ log.count <= MaxAppends
           /\ Len(log.entries) \in Nat /\ DOMAIN log.entries = 1 .. Len(log.entries)
           /\ dropped \in Nat /\ dropped + Len(log.entries) = log.count
  BY SizeAssumption DEF WellKept, dropped

\* The list has the entries that were not dropped, each at its place.
LEMMA PlaceOf ==
    ASSUME WellKept, NEW i \in Nat
    PROVE  place_of(log, i) = IF dropped < i /\ i <= log.count THEN i - dropped ELSE 0
<1> DEFINE matches == {k \in DOMAIN log.entries : log.entries[k].idx = i}
<1>1. matches = {k \in DOMAIN log.entries : dropped + k = i}
  BY DEF WellKept, Ety
<1>2. CASE dropped < i /\ i <= log.count
  <2>1. matches = {i - dropped}
    BY <1>1, <1>2, KeptTypes
  <2>2. (CHOOSE k \in matches : \A j \in matches : k <= j) = i - dropped
    <3> HIDE DEF matches
    <3>1. i - dropped \in Int
      BY KeptTypes
    <3> QED
      BY <2>1, <3>1
  <2> QED
    BY <1>2, <2>1, <2>2 DEF place_of
<1>3. CASE ~ (dropped < i /\ i <= log.count)
  <2>1. matches = {}
    BY <1>1, <1>3, KeptTypes
  <2> QED
    BY <1>3, <2>1 DEF place_of
<1> QED
  BY <1>2, <1>3

LEMMA EntryAt ==
    ASSUME WellKept, NEW i \in Nat
    PROVE  log_get_at_idx(log, i) = IF dropped < i /\ i <= log.count THEN Ety(i) ELSE None
<1>1. CASE dropped < i /\ i <= log.count
  <2>1. i - dropped \in DOMAIN log.entries /\ i - dropped # 0 /\ i \in 1 .. log.count
    BY <1>1, KeptTypes
  <2>2. log.entries[i - dropped] = Ety(i)
    <3>1. log.entries[i - dropped] = Ety(dropped + (i - dropped))
      BY <2>1 DEF WellKept
    <3> QED
      BY <3>1, KeptTypes
  <2> QED
    BY <1>1, <2>1, <2>2, PlaceOf DEF log_get_at_idx
<1>2. CASE ~ (dropped < i /\ i <= log.count)
  BY <1>2, PlaceOf DEF log_get_at_idx
<1> QED
  BY <1>1, <1>2

\* None is no entry.
LEMMA NotNone == \A i \in Nat \ {0} : Ety(i) # None
  BY DEF Ety, None

LEMMA Found ==
    ASSUME WellKept, NEW i \in Nat
    PROVE  log_get_at_idx(log, i) # None <=> dropped < i /\ i <= log.count
  BY EntryAt, NotNone, KeptTypes

\* As long as no more were appended than the pool holds, nothing was dropped.
LEMMA NothingDropped == WellKept /\ appended <= MAX_ENTRIES => dropped = 0
  BY PoolAssumption, KeptTypes DEF WellKept

-----------------------------------------------------------------------------
(* Appending *)

LEMMA KeptAppend ==
    ASSUME WellKept, raft_append_entry
    PROVE  WellKept' /\ log.count' = log.count + 1 /\ dropped <= dropped'
           /\ (dropped' = dropped \/ dropped' = log.count' - MAX_ENTRIES)
<1> DEFINE c == log.count
           e == log.entries
           r == make_room(e)
           x == [idx |-> c + 1, data |-> appended']
<1>1. /\ c \in Nat /\ appended = c /\ c < MaxAppends /\ appended' = c + 1
      /\ MaxAppends \in Nat /\ MAX_ENTRIES \in Nat \ {0}
      /\ log' = [entries |-> Append(r, x), count |-> c + 1]
  BY SizeAssumption, PoolAssumption, KeptTypes
     DEF WellKept, raft_append_entry, log_append_entry, log_get_current_idx
<1>0. /\ e \in Seq(Entry) /\ Len(e) \in Nat /\ DOMAIN e = 1 .. Len(e)
      /\ dropped = c - Len(e) /\ Len(e) <= c
      /\ Len(e) <= MAX_ENTRIES /\ (Len(e) = c \/ Len(e) = MAX_ENTRIES)
      /\ \A k \in DOMAIN e : e[k] = Ety(dropped + k)
  BY KeptTypes DEF WellKept, dropped
<1>2. x = Ety(c + 1) /\ x \in Entry
  BY <1>1 DEF Ety, Entry
<1>3. /\ r \in Seq(Entry) /\ Len(r) \in Nat
      /\ Len(r) = IF Len(e) = MAX_ENTRIES THEN Len(e) - 1 ELSE Len(e)
      /\ \A k \in 1 .. Len(r) : r[k] = Ety(c - Len(r) + k)
  <2>1. CASE Len(e) = MAX_ENTRIES
    <3>1. e \in Seq(Entry) /\ e # <<>>
      BY <1>1, <2>1, KeptTypes
    <3>2. /\ r = Tail(e) /\ Tail(e) \in Seq(Entry) /\ Len(Tail(e)) = Len(e) - 1
          /\ \A k \in 1 .. Len(Tail(e)) : Tail(e)[k] = e[k + 1]
      BY <2>1, <3>1, HeadTailProperties DEF make_room
    <3>3. ASSUME NEW k \in 1 .. Len(r) PROVE r[k] = Ety(c - Len(r) + k)
      <4>1. k + 1 \in DOMAIN e /\ dropped + (k + 1) = c - Len(r) + k
        <5>1. Len(r) = Len(e) - 1 /\ k \in 1 .. Len(e) - 1
          BY <3>2, <3>3
        <5> DEFINE le == Len(e)
        <5>2. le \in Nat /\ dropped = c - le /\ DOMAIN e = 1 .. le
          BY <1>0
        <5>3. Len(r) = le - 1 /\ k \in 1 .. le - 1
          BY <5>1
        <5> HIDE DEF c, e, r, le
        <5> QED
          BY <1>1, <5>2, <5>3
      <4> QED
        BY <1>0, <3>2, <3>3, <4>1
    <3>4. Len(r) = Len(e) - 1 /\ Len(r) \in Nat
      BY <1>0, <1>1, <2>1, <3>2
    <3> QED
      BY <2>1, <3>2, <3>3, <3>4
  <2>2. CASE Len(e) # MAX_ENTRIES
    BY <2>2, KeptTypes DEF make_room, WellKept, dropped
  <2> QED
    BY <2>1, <2>2
<1> HIDE DEF r, x
<1>4. /\ Append(r, x) \in Seq(Entry) /\ Len(Append(r, x)) = Len(r) + 1
      /\ \A k \in 1 .. Len(r) : Append(r, x)[k] = r[k]
      /\ Append(r, x)[Len(r) + 1] = x
  BY <1>2, <1>3, AppendProperties
<1> DEFINE f == Append(r, x)
<1> HIDE DEF f
<1>5. /\ log'.entries = f /\ log'.count = c + 1 /\ f \in Seq(Entry)
      /\ Len(f) = Len(r) + 1 /\ DOMAIN f = 1 .. Len(r) + 1
      /\ log' \in [entries : Seq(Entry), count : 0 .. MaxAppends]
  BY <1>1, <1>3, <1>4 DEF f
<1>6. /\ Len(f) <= MAX_ENTRIES /\ Len(f) <= c + 1
      /\ (Len(f) = c + 1 \/ Len(f) = MAX_ENTRIES)
  BY <1>1, <1>3, <1>5, KeptTypes DEF WellKept
<1>7. ASSUME NEW k \in DOMAIN f PROVE f[k] = Ety(c + 1 - Len(f) + k)
  <2>1. CASE k = Len(r) + 1
    <3>1. c + 1 - Len(f) + k = c + 1
      BY <1>1, <1>3, <1>5, <2>1
    <3> QED
      BY <1>2, <1>4, <2>1, <3>1 DEF f
  <2>2. CASE k # Len(r) + 1
    <3>1. k \in 1 .. Len(r) /\ c + 1 - Len(f) + k = c - Len(r) + k
      BY <1>1, <1>3, <1>5, <1>7, <2>2
    <3> QED
      BY <1>3, <1>4, <3>1 DEF f
  <2> QED
    BY <2>1, <2>2
<1>8. WellKept'
  BY <1>1, <1>5, <1>6, <1>7, SMTT(30) DEF WellKept, dropped
<1>9. dropped' = c + 1 - Len(f)
  <2>1. dropped' = (c + 1) - Len(f) /\ Len(f) \in Nat
    BY <1>3, <1>5 DEF dropped
  <2> HIDE DEF c
  <2> QED
    BY <1>1, <2>1
<1>10. dropped <= dropped' /\ (dropped' = dropped \/ dropped' = c + 1 - MAX_ENTRIES)
  <2>1. Len(f) = Len(r) + 1 /\ Len(f) \in Nat
    BY <1>3, <1>5
  <2> DEFINE lr == Len(r)
             le == Len(e)
  <2>2. /\ lr \in Nat /\ le \in Nat /\ lr = IF le = MAX_ENTRIES THEN le - 1 ELSE le
        /\ dropped' = c + 1 - (lr + 1) /\ dropped = c - le /\ le <= c
    BY <1>0, <1>3, <1>9, <2>1
  <2> HIDE DEF c, lr, le
  <2>3. dropped' = c - lr /\ lr <= le /\ (lr = le \/ lr + 1 = MAX_ENTRIES)
    BY <1>1, <2>2
  <2> QED
    BY <1>1, <2>2, <2>3
<1>11. c + 1 - MAX_ENTRIES = log'.count - MAX_ENTRIES
  BY <1>1, <1>5
<1> QED
  BY <1>5, <1>8, <1>10, <1>11

-----------------------------------------------------------------------------
(* How many entries a packet takes *)

LEMMA Sizes ==
    /\ first_offset \in Nat /\ ENTRY_SIZE \in Nat /\ PACKETBUF_SIZE \in Nat
    /\ HEADER_SIZE \in Nat
  BY SizeAssumption DEF first_offset

\* The loop stops for good: a place that is reached is reached over all before it.
LEMMA CopiedBounds ==
    ASSUME NEW n \in Nat
    PROVE  /\ copied(n) \in 0 .. n
           /\ n > 0 => copied(n) > 0
           /\ copied(n) > 1 => another_fits(copied(n) - 1)
           /\ (\A j \in 1 .. n - 1 : another_fits(j)) => copied(n) = n
<1> DEFINE S == {k \in 1 .. n : \A j \in 1 .. k - 1 : another_fits(j)}
           m == Cardinality(S)
<1>1. IsFiniteSet(1 .. n) /\ Cardinality(1 .. n) = n
  BY FS_Interval
<1>2. IsFiniteSet(S) /\ m \in Nat /\ m <= n
  BY <1>1, FS_Subset, FS_CardinalityType
<1>3. n > 0 => m > 0
  <2>1. n > 0 => 1 \in S
    OBVIOUS
  <2> HIDE DEF S
  <2> QED
    BY <1>2, <2>1, FS_EmptySet
<1>4. m > 0 => m \in S
  <2> SUFFICES ASSUME m > 0, m \notin S PROVE FALSE
    OBVIOUS
  <2> HIDE DEF m
  <2>1. PICK j \in 1 .. m - 1 : ~ another_fits(j)
    BY <1>2
  <2>2. S \subseteq 1 .. m - 1
    <3> SUFFICES ASSUME NEW k \in S PROVE k \in 1 .. m - 1
      OBVIOUS
    <3>1. k \in 1 .. n /\ (j \in 1 .. k - 1 => another_fits(j))
      OBVIOUS
    <3> QED
      BY <1>2, <2>1, <3>1
  <2>3. IsFiniteSet(1 .. m - 1) /\ Cardinality(1 .. m - 1) = m - 1
    BY <1>2, FS_Interval
  <2>4. Cardinality(S) <= m - 1
    <3> HIDE DEF S
    <3> QED
      BY <2>2, <2>3, FS_Subset
  <2> QED
    BY <1>2, <2>4 DEF m
<1>5. (\A j \in 1 .. n - 1 : another_fits(j)) => S = 1 .. n
  OBVIOUS
<1>6. copied(n) = m
  BY DEF copied
<1>7. m > 1 => another_fits(m - 1)
  <2> SUFFICES ASSUME m > 1 PROVE another_fits(m - 1)
    OBVIOUS
  <2> HIDE DEF m
  <2>1. m \in S /\ m - 1 \in 1 .. m - 1
    BY <1>2, <1>4
  <2> QED
    BY <2>1
<1> HIDE DEF S
<1> QED
  BY <1>1, <1>2, <1>3, <1>5, <1>6, <1>7

LEMMA AllFit ==
    ASSUME NEW n \in Nat, first_offset + n * ENTRY_SIZE < PACKETBUF_SIZE
    PROVE  copied(n) = n
<1>1. ASSUME NEW j \in 1 .. n - 1 PROVE another_fits(j)
  <2>1. n * ENTRY_SIZE = j * ENTRY_SIZE + ENTRY_SIZE + (n - j - 1) * ENTRY_SIZE
    BY Sizes
  <2>2. (n - j - 1) * ENTRY_SIZE \in Nat /\ j * ENTRY_SIZE \in Nat
    BY Sizes
  <2> QED
    BY <2>1, <2>2, Sizes DEF another_fits
<1> QED
  BY <1>1, CopiedBounds

\* What __raft_send_appendentries leaves free is enough for the header that
\* send_data adds, of which it knows nothing.
HeaderHasRoom ==
    /\ first_offset + ENTRY_SIZE + HEADER_SIZE <= PACKETBUF_SIZE
    /\ \A m \in Nat : first_offset + m * ENTRY_SIZE < PACKETBUF_SIZE
                        => first_offset + m * ENTRY_SIZE + HEADER_SIZE <= PACKETBUF_SIZE

\* It is, with the sizes of the structures in a build for 64 bits, 32 bits or the
\* 16 bits of a sky mote.
LEMMA SourceSizes ==
    ASSUME PACKETBUF_SIZE = 128, HEADER_SIZE = 4,
           \/ META_SIZE = 24 /\ ENTRY_SIZE = 32
           \/ META_SIZE = 20 /\ ENTRY_SIZE = 24
           \/ META_SIZE = 10 /\ ENTRY_SIZE = 12
    PROVE  HeaderHasRoom
<1>1. CASE META_SIZE = 24 /\ ENTRY_SIZE = 32
  BY <1>1 DEF HeaderHasRoom, first_offset
<1>2. CASE META_SIZE = 20 /\ ENTRY_SIZE = 24
  BY <1>2 DEF HeaderHasRoom, first_offset
<1>3. CASE META_SIZE = 10 /\ ENTRY_SIZE = 12
  BY <1>3 DEF HeaderHasRoom, first_offset
<1> QED
  BY <1>1, <1>2, <1>3

LEMMA PacketFits ==
    ASSUME HeaderHasRoom, NEW n \in Nat
    PROVE  first_offset + copied(n) * ENTRY_SIZE + HEADER_SIZE <= PACKETBUF_SIZE
<1> DEFINE m == copied(n)
<1>1. m \in Nat
  BY CopiedBounds
<1>2. CASE m = 0
  <2>1. m * ENTRY_SIZE = 0
    BY <1>2, Sizes
  <2> QED
    BY <2>1, Sizes DEF HeaderHasRoom
<1>3. CASE m = 1
  <2>1. m * ENTRY_SIZE = ENTRY_SIZE
    BY <1>3, Sizes
  <2> QED
    BY <2>1, Sizes DEF HeaderHasRoom
<1>4. CASE m > 1
  <2>1. first_offset + (m - 1) * ENTRY_SIZE + ENTRY_SIZE < PACKETBUF_SIZE
    BY <1>4, CopiedBounds DEF another_fits
  <2>2. (m - 1) * ENTRY_SIZE + ENTRY_SIZE = m * ENTRY_SIZE /\ (m - 1) * ENTRY_SIZE \in Int
    <3> HIDE DEF m
    <3> QED
      BY <1>1, Sizes
  <2>3. first_offset + m * ENTRY_SIZE < PACKETBUF_SIZE
    <3> HIDE DEF m
    <3> QED
      BY <2>1, <2>2, Sizes
  <2> QED
    BY <1>1, <2>3 DEF HeaderHasRoom
<1> QED
  BY <1>1, <1>2, <1>3, <1>4

-----------------------------------------------------------------------------
(* The packet *)

\* What appendentries_packet holds for a peer whose next entry is in the list, or
\* is still to come.
LEMMA PacketMade ==
    ASSUME WellKept, NEW next \in 1 .. log.count + 1, ~ from_idx_is_null(log, next),
           NEW pk, pk = appendentries_packet(next)
    PROVE  /\ pk \in [prev_log_idx : 0 .. MaxAppends, prev_found : BOOLEAN,
                      n_entries : 0 .. MAX_ENTRIES, entries : Seq(Entry), len : Nat]
           /\ pk.prev_found <=> next = 1 \/ dropped < next - 1
           /\ \A k \in DOMAIN pk.entries : pk.entries[k].idx = pk.prev_log_idx + k
           /\ Len(pk.entries) = copied(pk.n_entries)
           /\ pk.len = first_offset + copied(pk.n_entries) * ENTRY_SIZE + HEADER_SIZE
<1> DEFINE n    == n_from_idx(log, next)
           from == place_of(log, next)
           to   == from + copied(n) - 1
           sent == SubSeq(log.entries, from, to)
<1>1. /\ next \in Nat \ {0} /\ log.count \in Nat /\ dropped \in Nat
      /\ Len(log.entries) \in Nat /\ dropped + Len(log.entries) = log.count
      /\ next <= log.count + 1 /\ log.count <= MaxAppends
      /\ MaxAppends \in Nat /\ MAX_ENTRIES \in Nat /\ Len(log.entries) <= MAX_ENTRIES
  BY KeptTypes, SizeAssumption, PoolAssumption DEF WellKept
<1>2. /\ from \in Nat /\ n \in Nat /\ n <= Len(log.entries)
      /\ n > 0 => from = next - dropped /\ from > 0 /\ from + n - 1 = Len(log.entries)
      /\ n = 0 => from = 0
  <2>1. CASE next = log.count + 1
    <3>1. n = 0 /\ from = 0
      BY <1>1, <2>1, PlaceOf DEF n_from_idx
    <3> QED
      BY <1>1, <3>1
  <2>2. CASE next <= log.count
    <3>1. dropped < next /\ from = next - dropped
      BY <1>1, <2>2, PlaceOf DEF from_idx_is_null
    <3>2. Len(log.entries) \in DOMAIN log.entries
      BY <1>1, <2>2, <3>1, KeptTypes
    <3>3. log.entries[Len(log.entries)].idx = log.count
      <4>1. log.entries[Len(log.entries)] = Ety(dropped + Len(log.entries))
        BY <3>2 DEF WellKept
      <4> QED
        BY <1>1, <4>1 DEF Ety
    <3>4. n = log.count - next + 1
      BY <1>1, <2>2, <3>3 DEF n_from_idx
    <3> DEFINE le == Len(log.entries)
               c  == log.count
    <3>5. /\ le \in Nat /\ c \in Nat /\ dropped \in Nat /\ next \in Nat
          /\ dropped + le = c /\ dropped < next /\ next <= c
          /\ from = next - dropped /\ n = c - next + 1
      BY <1>1, <2>2, <3>1, <3>4
    <3> HIDE DEF le, c, n, from
    <3>6. from \in Nat /\ n \in Nat /\ n > 0 /\ n <= le /\ from > 0 /\ from + n - 1 = le
      BY <3>5
    <3> QED
      BY <3>5, <3>6 DEF le
  <2> QED
    BY <1>1, <2>1, <2>2
<1>3. copied(n) \in Nat /\ copied(n) <= n /\ (n > 0 => copied(n) > 0)
  BY <1>2, CopiedBounds
<1>4. pk = [prev_log_idx |-> next - 1,
            prev_found   |-> next = 1 \/ log_get_at_idx(log, next - 1) # None,
            n_entries    |-> n,
            entries      |-> sent,
            len          |-> first_offset + Len(sent) * ENTRY_SIZE + HEADER_SIZE]
  BY DEF appendentries_packet
<1>5. /\ sent \in Seq(Entry) /\ Len(sent) = copied(n)
      /\ \A k \in 1 .. copied(n) : sent[k].idx = next - 1 + k
  <2>1. CASE n = 0
    <3>1. to < from /\ to \in Int /\ from \in Int /\ copied(n) = 0
      BY <1>2, <1>3, <2>1
    <3>2. sent = <<>>
      BY <3>1, SubSeqEmpty
    <3> QED
      BY <3>1, <3>2
  <2>2. CASE n > 0
    <3>1. from \in Int /\ to \in Int /\ from <= to /\ to - from + 1 = copied(n)
      BY <1>2, <1>3, <2>2
    <3>2. \A i \in from .. to : i \in DOMAIN log.entries
      <4> SUFFICES ASSUME NEW i \in from .. to PROVE i \in 1 .. Len(log.entries)
        BY KeptTypes
      <4>1. to <= Len(log.entries) /\ from >= 1
        BY <1>1, <1>2, <1>3, <2>2
      <4> HIDE DEF from, to
      <4> QED
        BY <1>1, <3>1, <4>1
    <3>3. \A i \in from .. to : log.entries[i] \in Entry
      BY <3>2, KeptTypes
    <3>4. /\ sent \in Seq(Entry) /\ Len(sent) = copied(n)
          /\ \A k \in 1 .. to - from + 1 : sent[k] = log.entries[from + k - 1]
      <4> HIDE DEF from, to
      <4> QED
        BY <3>1, <3>3, SubSeqProperties
    <3>5. ASSUME NEW k \in 1 .. copied(n) PROVE sent[k].idx = next - 1 + k
      <4>1. sent[k] = log.entries[from + k - 1]
        BY <3>1, <3>4, <3>5
      <4>2. from + k - 1 \in from .. to /\ dropped + (from + k - 1) = next - 1 + k
        BY <1>1, <1>2, <1>3, <2>2, <3>5
      <4>3. log.entries[from + k - 1] = Ety(next - 1 + k)
        BY <3>2, <4>2 DEF WellKept
      <4> HIDE DEF sent
      <4> QED
        BY <4>1, <4>3 DEF Ety
    <3> QED
      BY <3>4, <3>5
  <2> QED
    BY <1>2, <2>1, <2>2
<1> HIDE DEF n, from, to, sent
<1>6. copied(n) * ENTRY_SIZE \in Nat
  BY <1>3, Sizes
<1>7. pk \in [prev_log_idx : 0 .. MaxAppends, prev_found : BOOLEAN,
              n_entries : 0 .. MAX_ENTRIES, entries : Seq(Entry), len : Nat]
  <2>1. next - 1 \in 0 .. MaxAppends /\ n \in 0 .. MAX_ENTRIES
    BY <1>1, <1>2
  <2>2. first_offset + Len(sent) * ENTRY_SIZE + HEADER_SIZE \in Nat
    BY <1>5, <1>6, Sizes
  <2> QED
    BY <1>4, <1>5, <2>1, <2>2
<1>8. pk.prev_found <=> next = 1 \/ dropped < next - 1
  <2>1. next - 1 \in Nat /\ next - 1 <= log.count
    BY <1>1
  <2>2. log_get_at_idx(log, next - 1) # None <=> dropped < next - 1
    BY <2>1, Found
  <2>3. pk.prev_found = (next = 1 \/ log_get_at_idx(log, next - 1) # None)
    BY <1>4
  <2> QED
    BY <2>2, <2>3
<1>9. \A k \in DOMAIN pk.entries : pk.entries[k].idx = pk.prev_log_idx + k
  BY <1>4, <1>5
<1> QED
  BY <1>4, <1>5, <1>7, <1>8, <1>9

-----------------------------------------------------------------------------
(* The inductive invariant *)

BacklogInv == WellKept /\ TypeOK

LEMMA BacklogInit == Init => BacklogInv /\ AppliedInOrder /\ PoolSuffices
<1> SUFFICES ASSUME Init PROVE BacklogInv /\ AppliedInOrder /\ PoolSuffices
  OBVIOUS
<1>1. /\ log = [entries |-> <<>>, count |-> 0] /\ appended = 0 /\ Len(<<>>) = 0
      /\ <<>> \in Seq(Entry) /\ DOMAIN <<>> = {}
      /\ MaxAppends \in Nat /\ MAX_ENTRIES \in Nat
  BY SizeAssumption, PoolAssumption DEF Init, empty_log
<1>2. WellKept
  BY <1>1 DEF WellKept
<1>3. TypeOK
  <2>1. NoPacket \in [prev_log_idx : 0 .. MaxAppends, prev_found : BOOLEAN,
                      n_entries : 0 .. MAX_ENTRIES, entries : Seq(Entry), len : Nat]
    BY <1>1 DEF NoPacket
  <2>2. log.count = 0 /\ log.entries = <<>> /\ 0 \in 0 .. 0 /\ 0 \in 0 .. MaxAppends
    BY <1>1
  <2>3. log \in [entries : Seq(Entry), count : 0 .. MaxAppends]
    BY <1>1, <2>2
  <2>4. commit_idx \in 0 .. log.count /\ last_applied_idx \in 0 .. commit_idx
    BY <2>2 DEF Init
  <2>5. packet = NoPacket /\ derailed \in BOOLEAN /\ appended \in 0 .. MaxAppends
    BY <2>2 DEF Init
  <2>6. Len(log.entries) <= MAX_ENTRIES
    BY <1>1, <2>2
  <2> QED
    BY <2>1, <2>3, <2>4, <2>5, <2>6 DEF TypeOK
<1>4. AppliedInOrder
  BY DEF AppliedInOrder, Init
<1>5. PoolSuffices
  BY DEF PoolSuffices, Init, NoPacket
<1> QED
  BY <1>2, <1>3, <1>4, <1>5 DEF BacklogInv

LEMMA KeptUnchanged ==
    ASSUME WellKept, UNCHANGED <<log, appended>>
    PROVE  WellKept' /\ dropped' = dropped
  BY DEF WellKept, dropped

LEMMA BacklogStep == BacklogInv /\ [Next]_vars => BacklogInv'
<1> SUFFICES ASSUME BacklogInv, [Next]_vars PROVE BacklogInv'
  OBVIOUS
<1> USE DEF BacklogInv
<1>1. CASE raft_append_entry
  <2>1. WellKept' /\ log'.count = log.count + 1
    BY <1>1, KeptAppend
  <2>2. /\ log' \in [entries : Seq(Entry), count : 0 .. MaxAppends]
        /\ Len(log'.entries) <= MAX_ENTRIES /\ appended' \in 0 .. MaxAppends
    BY <2>1 DEF WellKept
  <2>3. commit_idx' \in 0 .. log'.count /\ last_applied_idx' \in 0 .. commit_idx'
    BY <1>1, <2>1, KeptTypes DEF raft_append_entry, TypeOK
  <2>4. packet' = packet /\ derailed' = derailed
    BY <1>1 DEF raft_append_entry
  <2> QED
    BY <2>1, <2>2, <2>3, <2>4 DEF TypeOK
<1>2. ASSUME NEW point \in 1 .. MaxAppends, update_commit_idx(point) PROVE BacklogInv'
  <2>1. WellKept'
    BY <1>2, KeptUnchanged DEF update_commit_idx
  <2>2. /\ commit_idx' \in 0 .. log'.count /\ last_applied_idx' \in 0 .. commit_idx'
        /\ derailed' \in BOOLEAN
    <3>1. /\ log' = log /\ last_applied_idx' = last_applied_idx
          /\ point \in Nat /\ commit_idx < point /\ point <= log.count
          /\ log.count \in Nat /\ commit_idx \in 0 .. log.count
          /\ last_applied_idx \in 0 .. commit_idx
      BY <1>2, KeptTypes, SizeAssumption DEF update_commit_idx, TypeOK, log_get_current_idx
    <3>2. /\ commit_idx' = commit_idx \/ commit_idx' = point
          /\ derailed' \in BOOLEAN
      BY <1>2 DEF update_commit_idx, TypeOK
    <3> QED
      BY <3>1, <3>2
  <2> QED
    BY <1>2, <2>1, <2>2 DEF update_commit_idx, TypeOK
<1>3. CASE raft_apply_entry
  <2>1. WellKept'
    BY <1>3, KeptUnchanged DEF raft_apply_entry
  <2>2. commit_idx' \in 0 .. log'.count /\ last_applied_idx' \in 0 .. commit_idx'
    BY <1>3, KeptTypes DEF raft_apply_entry, TypeOK
  <2> QED
    BY <1>3, <2>1, <2>2 DEF raft_apply_entry, TypeOK
<1>4. ASSUME NEW next \in 1 .. MaxAppends + 1, raft_send_appendentries(next)
      PROVE  BacklogInv'
  <2>1. WellKept'
    BY <1>4, KeptUnchanged DEF raft_send_appendentries
  <2>2. packet' \in [prev_log_idx : 0 .. MaxAppends, prev_found : BOOLEAN,
                     n_entries : 0 .. MAX_ENTRIES, entries : Seq(Entry), len : Nat]
    BY <1>4, PacketMade DEF raft_send_appendentries, log_get_current_idx, TypeOK
  <2>3. derailed' \in BOOLEAN
    BY <1>4 DEF raft_send_appendentries, TypeOK
  <2> QED
    BY <1>4, <2>1, <2>2, <2>3 DEF raft_send_appendentries, TypeOK
<1>5. CASE UNCHANGED vars
  BY <1>5, KeptUnchanged DEF vars, TypeOK
<1> QED
  BY <1>1, <1>2, <1>3, <1>4, <1>5 DEF Next

LEMMA BacklogAlways == Spec => []BacklogInv
  BY BacklogInit, BacklogStep, PTL DEF Spec

-----------------------------------------------------------------------------
(* The theorems *)

\* The list never outgrows its pool, count and indices keep their ranges and
\* last_applied_idx <= commit_idx <= count, for any pool and any number of
\* entries (log_append_entry, raft_apply_entry, raft_recv_appendentries_response).
THEOREM BacklogTyped == Spec => []TypeOK
  BY BacklogAlways, PTL DEF BacklogInv

LEMMA AppliedStep == BacklogInv /\ AppliedInOrder /\ [Next]_vars => AppliedInOrder'
<1> SUFFICES ASSUME BacklogInv, AppliedInOrder, [Next]_vars PROVE AppliedInOrder'
  OBVIOUS
<1>1. CASE raft_apply_entry
  <2> DEFINE i == last_applied_idx + 1
  <2>1. last_applied_idx \in Nat /\ i \in Nat
    BY KeptTypes DEF BacklogInv, TypeOK
  <2>2. log_get_at_idx(log, i).data = i
    <3>1. log_get_at_idx(log, i) # None
      BY <1>1 DEF raft_apply_entry
    <3>2. log_get_at_idx(log, i) = Ety(i)
      BY <2>1, <3>1, EntryAt DEF BacklogInv
    <3> QED
      BY <3>2 DEF Ety
  <2>3. applied' = Append(applied, i) /\ last_applied_idx' = i
    BY <1>1, <2>2 DEF raft_apply_entry
  <2>4. Append([k \in 1 .. last_applied_idx |-> k], i) = [k \in 1 .. i |-> k]
    BY <2>1
  <2> QED
    BY <2>3, <2>4 DEF AppliedInOrder
<1>2. CASE UNCHANGED <<last_applied_idx, applied>>
  BY <1>2 DEF AppliedInOrder
<1> QED
  BY <1>1, <1>2 DEF Next, vars, raft_append_entry, update_commit_idx,
     raft_send_appendentries

\* raft_apply_entry hands applylog every entry once and in the order in which they
\* were appended, whatever the pool has dropped meanwhile: the entry it looks up
\* is the one that was appended with that index, or none.
THEOREM AppliesInOrder == Spec => []AppliedInOrder
  BY BacklogInit, BacklogAlways, AppliedStep, PTL DEF Spec

LEMMA PoolStep == BacklogInv /\ PoolSuffices /\ [Next]_vars => PoolSuffices'
<1> SUFFICES ASSUME BacklogInv, PoolSuffices, [Next]_vars, appended' <= MAX_ENTRIES
             PROVE  ~ derailed' /\ packet'.prev_found
  BY DEF PoolSuffices
<1>1. appended \in Nat /\ MAX_ENTRIES \in Nat
  BY KeptTypes, PoolAssumption DEF BacklogInv, WellKept
<1>2. CASE raft_append_entry
  BY <1>1, <1>2 DEF raft_append_entry, PoolSuffices
<1>3. ASSUME NEW next \in 1 .. MaxAppends + 1, raft_send_appendentries(next)
      PROVE  ~ derailed' /\ packet'.prev_found
  <2>1. /\ dropped = 0 /\ next \in 1 .. log.count + 1 /\ log.count \in Nat
        /\ ~ derailed
    BY <1>3, NothingDropped, KeptTypes
       DEF BacklogInv, raft_send_appendentries, log_get_current_idx
  <2>2. ~ from_idx_is_null(log, next)
    <3>1. next \in Nat /\ 0 < next
      BY <2>1
    <3>2. next <= log.count => place_of(log, next) = next - 0
      BY <2>1, <3>1, PlaceOf DEF BacklogInv
    <3> QED
      BY <3>1, <3>2 DEF from_idx_is_null
  <2>3. packet' = appendentries_packet(next) /\ ~ derailed'
    BY <1>3, <2>1, <2>2 DEF raft_send_appendentries
  <2>4. packet'.prev_found <=> next = 1 \/ dropped < next - 1
    BY <2>1, <2>2, <2>3, PacketMade DEF BacklogInv
  <2> QED
    BY <2>1, <2>3, <2>4
<1>4. ASSUME NEW point \in 1 .. MaxAppends, update_commit_idx(point)
      PROVE  ~ derailed' /\ packet'.prev_found
  <2>1. /\ appended' = appended /\ packet' = packet /\ ~ derailed
        /\ point \in Nat /\ 0 < point /\ point <= log.count
    BY <1>4, SizeAssumption DEF update_commit_idx, log_get_current_idx
  <2>2. dropped = 0 /\ packet.prev_found
    BY <2>1, NothingDropped DEF BacklogInv, PoolSuffices
  <2>3. log_get_at_idx(log, point) # None
    BY <2>1, <2>2, Found DEF BacklogInv
  <2> QED
    BY <1>4, <2>1, <2>2, <2>3 DEF update_commit_idx
<1>5. CASE UNCHANGED <<appended, packet, derailed>>
  BY <1>5 DEF PoolSuffices
<1> QED
  BY <1>2, <1>3, <1>4, <1>5 DEF Next, vars, raft_apply_entry

\* As long as the pool has had room for every entry, no acknowledgement and no
\* next_idx that a peer can have makes the leader read through NULL, and
\* raft_send_appendentries finds the previous entry.
THEOREM PoolIsEnough == Spec => []PoolSuffices
  BY BacklogInit, BacklogAlways, PoolStep, PTL DEF Spec

LEMMA SoundInit == ASSUME Init PROVE PacketSound
<1>1. packet = NoPacket /\ NoPacket.entries = <<>> /\ NoPacket.n_entries = 0
      /\ NoPacket.len = 0 /\ DOMAIN <<>> = {} /\ Len(<<>>) = 0
  BY DEF Init, NoPacket
<1> QED
  BY <1>1, Sizes DEF PacketSound

LEMMA SoundStep ==
    ASSUME HeaderHasRoom
    PROVE  BacklogInv /\ PacketSound /\ [Next]_vars => PacketSound'
<1> SUFFICES ASSUME BacklogInv, PacketSound, [Next]_vars PROVE PacketSound'
  OBVIOUS
<1>1. ASSUME NEW next \in 1 .. MaxAppends + 1, raft_send_appendentries(next),
             ~ from_idx_is_null(log, next)
      PROVE  PacketSound'
  <2> DEFINE n == packet'.n_entries
  <2>1. packet' = appendentries_packet(next) /\ next \in 1 .. log.count + 1
    BY <1>1 DEF raft_send_appendentries, log_get_current_idx
  <2>2. /\ packet'.entries \in Seq(Entry) /\ n \in Nat
        /\ \A k \in DOMAIN packet'.entries :
              packet'.entries[k].idx = packet'.prev_log_idx + k
        /\ Len(packet'.entries) = copied(n)
        /\ packet'.len = first_offset + copied(n) * ENTRY_SIZE + HEADER_SIZE
    BY <1>1, <2>1, PacketMade, PoolAssumption DEF BacklogInv
  <2>3. n > 0 => packet'.entries # <<>>
    BY <2>2, CopiedBounds
  <2>4. packet'.len <= PACKETBUF_SIZE
    BY <2>2, PacketFits
  <2>5. first_offset + n * ENTRY_SIZE < PACKETBUF_SIZE => Len(packet'.entries) = n
    BY <2>2, AllFit
  <2> QED
    BY <2>2, <2>3, <2>4, <2>5 DEF PacketSound, first_offset
<1>2. CASE UNCHANGED packet
  BY <1>2 DEF PacketSound, first_offset
<1> QED
  BY <1>1, <1>2 DEF Next, vars, raft_append_entry, update_commit_idx,
     raft_apply_entry, raft_send_appendentries

\* A packet of __raft_send_appendentries holds the entries behind prev_log_idx, in
\* order, at least one if the peer lacks any and all of them if they fit, and
\* never overflows the staging buffer, for every size of entries, metadata and
\* buffer that leaves room for the header of send_data (HeaderHasRoom; by
\* SourceSizes the structures do, on all three kinds of target).
THEOREM PacketsSound == ASSUME HeaderHasRoom PROVE Spec => []PacketSound
<1>1. Init => PacketSound
  BY SoundInit
<1>2. BacklogInv /\ PacketSound /\ [Next]_vars => PacketSound'
  BY SoundStep
<1> QED
  BY <1>1, <1>2, BacklogAlways, PTL DEF Spec

-----------------------------------------------------------------------------
(* The bounded log *)

\* The entries that can be found, as the refinement mapping has them.
entries_found == {j \in 1 .. log.count : log_get_at_idx(log, j) # None}
data_found    == [i \in entries_found |-> log_get_at_idx(log, i).data]

LEMMA DataFound == WellKept => data_found = [i \in dropped + 1 .. log.count |-> i]
<1> SUFFICES ASSUME WellKept PROVE data_found = [i \in dropped + 1 .. log.count |-> i]
  OBVIOUS
<1>1. entries_found = dropped + 1 .. log.count
  BY Found, KeptTypes DEF entries_found
<1>2. ASSUME NEW i \in entries_found PROVE log_get_at_idx(log, i).data = i
  <2>1. i \in Nat /\ dropped < i /\ i <= log.count
    BY <1>1, <1>2, KeptTypes
  <2> QED
    BY <2>1, EntryAt DEF Ety
<1> QED
  BY <1>1, <1>2 DEF data_found

LEMMA DataFoundNext ==
    ASSUME WellKept'
    PROVE  data_found' = [i \in dropped' + 1 .. log'.count |-> i]
<1>1. (data_found = [i \in dropped + 1 .. log.count |-> i])'
  BY DataFound, PTL
<1> QED
  BY <1>1

LEMMA BoundedLogInit == Init => Bounded!BoundedInit
<1> SUFFICES ASSUME Init PROVE Bounded!BoundedInit
  OBVIOUS
<1>1. log.count = 0
  BY DEF Init, empty_log
<1>2. {j \in 1 .. log.count : log_get_at_idx(log, j) # None} = {}
  BY <1>1
<1> QED
  BY <1>1, <1>2 DEF Bounded!BoundedInit, log_get_current_idx

LEMMA BoundedLogStep == BacklogInv /\ [Next]_vars => [Bounded!BoundedAppend]_Bounded!boundedVars
<1> SUFFICES ASSUME BacklogInv, [Next]_vars
             PROVE  [Bounded!BoundedAppend]_Bounded!boundedVars
  OBVIOUS
<1>1. CASE raft_append_entry
  <2> DEFINE c == log.count
  <2>1. /\ WellKept /\ WellKept' /\ log'.count = c + 1 /\ dropped <= dropped'
        /\ (dropped' = dropped \/ dropped' = log'.count - MAX_ENTRIES)
    BY <1>1, KeptAppend DEF BacklogInv
  <2>2. data_found = [i \in dropped + 1 .. c |-> i]
    BY <2>1, DataFound
  <2>3. data_found' = [i \in dropped' + 1 .. c + 1 |-> i]
    BY <2>1, DataFoundNext
  <2>4. /\ c \in Nat /\ dropped \in Nat /\ dropped <= c /\ dropped' \in Nat
        /\ dropped' <= c /\ MAX_ENTRIES \in Nat \ {0} /\ MaxAppends \in Nat
        /\ c < MaxAppends
    BY <1>1, <2>1, KeptTypes, PoolAssumption, SizeAssumption
       DEF raft_append_entry, WellKept
  <2>5. /\ c + 1 \in DOMAIN data_found' /\ data_found'[c + 1] \in 1 .. MaxAppends
    BY <2>3, <2>4
  <2>6. DOMAIN data_found' \subseteq DOMAIN data_found \cup {c + 1}
    BY <2>1, <2>2, <2>3, <2>4, SMTT(30)
  <2>7. ASSUME NEW i \in DOMAIN data_found, c + 1 < i + MAX_ENTRIES
        PROVE  i \in DOMAIN data_found'
    <3>1. i \in Nat /\ dropped < i /\ i <= c
      BY <2>2, <2>4
    <3>2. dropped' < i
      BY <2>1, <2>4, <2>7, <3>1
    <3> QED
      BY <2>3, <2>4, <3>1, <3>2
  <2>8. ASSUME NEW i \in DOMAIN data_found' \ {c + 1} PROVE data_found'[i] = data_found[i]
    <3>1. i \in DOMAIN data_found /\ data_found'[i] = i
      BY <2>3, <2>6
    <3> QED
      BY <2>2, <3>1
  <2>9. Bounded!BoundedAppend
    BY <2>1, <2>5, <2>6, <2>7, <2>8
       DEF Bounded!BoundedAppend, Bounded!found, data_found, entries_found,
           log_get_current_idx, c
  <2> QED
    BY <2>9
<1>2. CASE UNCHANGED log
  BY <1>2 DEF Bounded!boundedVars, log_get_current_idx, log_get_at_idx, place_of
<1> QED
  BY <1>1, <1>2 DEF Next, vars, update_commit_idx, raft_apply_entry,
     raft_send_appendentries

\* The list of raft_log.c with its pool implements a log in bounded memory, for
\* every pool: an entry once appended is found unchanged under its index until
\* MAX_ENTRIES newer ones have been appended.
THEOREM KeepsNewest == Spec => NewestKept
  BY BoundedLogInit, BoundedLogStep, BacklogAlways, PTL DEF Spec, NewestKept, Bounded!BoundedSpec

=============================================================================
