CONSTANTS
  MAX_ENTRIES = 5
  PACKETBUF_SIZE = 128
  HEADER_SIZE = 4
  META_SIZE = 24
  ENTRY_SIZE = 32
  MaxAppends = 7
SPECIFICATION FairSpec
CHECK_DEADLOCK FALSE
INVARIANTS TypeOK AppliedInOrder PoolSuffices PacketSound
PROPERTIES NewestKept AppliedOrLost
