------------------------------- MODULE Layout -------------------------------
(***************************************************************************)
(* The on-disk layout of a format-3 volume and the arithmetic the engine   *)
(* shares: geometry, record and snapshot blocks, checkpoint descriptors,   *)
(* open options and log-space reservations.                                *)
(*                                                                         *)
(* Data abstraction.  A 4 KiB payload is a member of Values.  A checksum   *)
(* is injective: it is the tuple of the values it covers.  The volume id   *)
(* is fixed, and a payload is never mistaken for metadata (magic, volume   *)
(* id and checksum tell them apart in the code).                           *)
(***************************************************************************)
EXTENDS Naturals, FiniteSets

CONSTANTS
  VolumeBlocks,    \* logical blocks of the volume
  EntriesPerPage,  \* mapping entries per page (336 in the code)
  MaxPayload,      \* MAXIMUM_PAYLOAD_BLOCKS (338 in the code)
  BackingBlocks,   \* blocks of the backing file
  LogStart,        \* first block of the log: 2 + 2 * index_blocks
  Batch,           \* CHECKPOINT_BATCH_BLOCKS (32 in the code)
  Values,          \* payloads
  Zero,            \* the all-zero payload
  Corrupt          \* what a read reports for a payload checksum mismatch

ASSUME GeometryAssumption ==
  /\ VolumeBlocks \in Nat \ {0}
  /\ EntriesPerPage \in Nat \ {0}
  /\ MaxPayload \in Nat \ {0}
  /\ BackingBlocks \in Nat
  /\ LogStart \in Nat /\ LogStart >= 4
  /\ BackingBlocks >= LogStart + 3
  /\ Batch \in Nat \ {0}

ASSUME ValuesAssumption == Zero \in Values /\ Corrupt \notin Values

-----------------------------------------------------------------------------
(* Geometry *)

\* The number of blocks, records or pages needed for n items, k to each.
CeilDiv(n, k) == (n + k - 1) \div k

Lbas == 0 .. VolumeBlocks - 1
PageOf(l) == l \div EntriesPerPage
PageCount == CeilDiv(VolumeBlocks, EntriesPerPage)
Pages == 0 .. PageCount - 1
PagesOf(S) == {PageOf(l) : l \in S}
Addr == LogStart .. BackingBlocks - 1

\* MAXIMUM_RECORD_BLOCKS: the payloads of a full record and its footer.
MaxRecord == MaxPayload + 1

Smaller(a, b) == IF a < b THEN a ELSE b

\* S holds the n smallest elements of T (all of T when it has fewer).
Lowest(S, n, T) ==
  /\ S \subseteq T
  /\ Cardinality(S) = Smaller(n, Cardinality(T))
  /\ \A x \in S, y \in T \ S : x < y

\* The place of x in the ascending order of S, from zero.
Rank(x, S) == Cardinality({y \in S : y < x})

-----------------------------------------------------------------------------
(* Mapping entries and blocks *)

\* payload_checksum covers the logical and the physical address and the bytes.
Checksum(l, phys, v) == <<l, phys, v>>

Unmapped == [phys |-> 0, sum |-> <<>>]
Entry == [phys : Nat, sum : {<<>>} \cup (Lbas \X Nat \X Values)]
Entries == [Lbas -> Entry]
NoEntries == [l \in Lbas |-> Unmapped]

\* Mutation of PageSlice: the last entry of a short last page is left out.
ShortSlice(p, ents) ==
  [l \in Lbas |-> IF PageOf(l) = p /\ l # VolumeBlocks - 1 THEN ents[l] ELSE Unmapped]

\* The entries of one mapping page.
PageSlice(p, ents) == [l \in Lbas |-> IF PageOf(l) = p THEN ents[l] ELSE Unmapped]

Blank == [kind |-> "blank"]
Payload(v) == [kind |-> "payload", val |-> v]
Footer(lsn, prev, bound, ents) ==
  [kind |-> "data", lsn |-> lsn, prev |-> prev, bound |-> bound, ents |-> ents]
Snapshot(lsn, prev, page, ents) ==
  [kind |-> "page", lsn |-> lsn, prev |-> prev, bound |-> prev + 1,
   page |-> page, ents |-> ents]
\* A mapping-page block whose framing checksum does not match.
TornPage == [kind |-> "torn"]

PayloadBlock == [kind : {"payload"}, val : Values]
FooterBlock == [kind : {"data"}, lsn : Nat, prev : Nat, bound : Nat, ents : Entries]
PageBlock == [kind : {"page"}, lsn : Nat, prev : Nat, bound : Nat,
              page : Nat, ents : Entries]
Block == {Blank, TornPage} \cup PayloadBlock \cup FooterBlock \cup PageBlock

Position == [lsn : Nat, bound : Nat]
At(lsn, bound) == [lsn |-> lsn, bound |-> bound]

-----------------------------------------------------------------------------
(* Checkpoint descriptors and index bodies *)

Slot == {"green", "blue"}

\* Mutation of Other: a publication overwrites the slot of the active root.
SameSlot(s) == s

\* CheckpointSlot::other.
Other(s) == IF s = "green" THEN "blue" ELSE "green"

Index == [Pages -> Nat]
EmptyIndex == [p \in Pages |-> 0]
TornBody == <<>>

NoDescriptor == [kind |-> "none"]
Descriptor == [kind : {"root"}, gen : Nat, lsn : Nat, bound : Nat, sum : Index]
Checkpoint == [slot : Slot, gen : Nat, lsn : Nat, bound : Nat, index : Index]

DescriptorOf(c) ==
  [kind |-> "root", gen |-> c.gen, lsn |-> c.lsn, bound |-> c.bound, sum |-> c.index]

FormatRoot == [slot |-> "green", gen |-> 0, lsn |-> 0, bound |-> LogStart - 1,
               index |-> EmptyIndex]

\* MappingPageRecord::decode against the pointer that names the block.
DecodesAsPage(block, page, pointer, maxLsn) ==
  /\ block.kind = "page"
  /\ block.page = page
  /\ block.bound = pointer
  /\ block.lsn <= maxLsn
  /\ \A l \in Lbas :
       \/ block.ents[l] = Unmapped
       \/ PageOf(l) = page /\ block.ents[l].phys \in LogStart .. block.bound - 1

\* CheckpointDescriptor::validate.
ValidDescriptor(d) ==
  /\ d.kind = "root"
  /\ d.bound \in LogStart - 1 .. BackingBlocks - 1
  /\ d.lsn = 0 <=> d.bound = LogStart - 1
  /\ d.gen = 0 => d.lsn = 0
  /\ d.lsn <= d.bound - (LogStart - 1)

-----------------------------------------------------------------------------
(* Open options and reservations *)

\* cap: mapping-cache slots.  buf: write-buffer blocks asked for.  after:
\* checkpoint_after_bytes in blocks.
Options == [cap : Nat \ {0}, buf : Nat \ {0}, after : Nat]

\* clamp_write_buffer_blocks: at most a quarter of the log.
BufferBlocks(o) ==
  LET quarter == (BackingBlocks - LogStart) \div 4
      limit == IF quarter = 0 THEN 1 ELSE quarter
  IN Smaller(o.buf, limit)

\* Blocks of the data records that n payloads need.
RecordBlocks(n) == n + CeilDiv(n, MaxPayload)

\* VolumeOpenOptions::validate and validate_buffer_mapping_capacity.
ValidOptions(o) ==
  /\ o.after >= MaxRecord
  /\ o.cap >= Smaller(BufferBlocks(o), PageCount)
  /\ RecordBlocks(Smaller(BufferBlocks(o), VolumeBlocks)) <= o.after

\* Reservation::for_counts: payloads and footers, one old snapshot for each
\* dirty page and one new snapshot for each buffered page.
Reservation(payloads, pages, dirtyPages) == RecordBlocks(payloads) + dirtyPages + pages

\* ensure_space.
EnsureSpace(bound, required) ==
  /\ bound < BackingBlocks
  /\ required <= BackingBlocks - (bound + 1)
=============================================================================
