---------------------------- MODULE VolumeProofs ----------------------------
(***************************************************************************)
(* Machine-checked proofs about Volume, for every geometry, every set of   *)
(* options and any number of faults, power losses included: calls, space   *)
(* and the append-only log first, then the mapping cache, whose clean      *)
(* pages equal their snapshots, and the exact count of live blocks.        *)
(***************************************************************************)
EXTENDS VolumeInvariants, FiniteSetTheorems, TLAPS

-----------------------------------------------------------------------------
(* Arithmetic *)

\* Quotients by a positive number: the facts the provers need about \div.
LEMMA DivFacts ==
  ASSUME NEW n \in Nat, NEW k \in Nat \ {0}
  PROVE  /\ n \div k \in Nat
         /\ k * (n \div k) <= n
         /\ n < k * (n \div k) + k
  OBVIOUS

\* One more group of k items is one more in the quotient.
LEMMA DivStep ==
  ASSUME NEW n \in Nat, NEW k \in Nat \ {0}
  PROVE  (n + k) \div k = n \div k + 1
  OBVIOUS

\* Fewer than k items make no full group.
LEMMA DivSmall ==
  ASSUME NEW k \in Nat \ {0}, NEW n \in 0 .. k - 1
  PROVE  n \div k = 0
  OBVIOUS

\* The last logical block lies on the last page (Geometry::new).
LEMMA PagesOfLbas ==
  ASSUME NEW l \in Lbas
  PROVE  PageOf(l) \in Pages
  BY DivFacts, GeometryAssumption DEF Lbas, PageOf, Pages, PageCount, CeilDiv

LEMMA PageCountType == PageCount \in Nat \ {0}
  BY DivFacts, GeometryAssumption DEF PageCount, CeilDiv

\* No payloads need no blocks (div_ceil).
LEMMA NoRecordBlocks == RecordBlocks(0) = 0
  BY DivSmall, GeometryAssumption DEF RecordBlocks, CeilDiv

LEMMA RecordBlocksType ==
  ASSUME NEW n \in Nat
  PROVE  RecordBlocks(n) \in Nat /\ RecordBlocks(n) >= n
  BY DivFacts, GeometryAssumption DEF RecordBlocks, CeilDiv

\* Writing the next record of a release takes exactly its own blocks, payloads
\* and footer, from the reservation (release_records, for_counts).
LEMMA RecordBlocksStep ==
  ASSUME NEW n \in Nat \ {0}
  PROVE  LET k == Smaller(MaxPayload, n)
         IN k \in Nat \ {0} /\ k <= n /\ RecordBlocks(n) = k + 1 + RecordBlocks(n - k)
<1> DEFINE m == MaxPayload
<1>0. m \in Nat \ {0}
  BY GeometryAssumption
<1>1. (n + m - 1) \div m = (n - 1) \div m + 1
  <2>1. n - 1 \in Nat /\ (n - 1) + m = n + m - 1
    BY <1>0
  <2>2. ((n - 1) + m) \div m = (n - 1) \div m + 1
    BY <1>0, <2>1, DivStep
  <2> QED
    BY <2>1, <2>2
<1>2. CASE n <= m
  <2>1. Smaller(m, n) = n
    BY <1>0, <1>2 DEF Smaller
  <2>2. (n + m - 1) \div m = (n - 1) \div m + 1
    BY <1>0, <1>1
  <2>3. (n - 1) \div m = 0
    BY <1>0, <1>2, DivSmall
  <2> QED
    BY <1>0, <2>1, <2>2, <2>3, NoRecordBlocks DEF RecordBlocks, CeilDiv
<1>3. CASE n > m
  <2>1. Smaller(m, n) = m
    BY <1>0, <1>3 DEF Smaller
  <2>2. (n + m - 1) \div m = (n - 1) \div m + 1
    BY <1>0, <1>1
  <2>3. (n - m) + m - 1 = n - 1
    BY <1>0
  <2>4. (n - 1) \div m \in Nat
    BY <1>0, DivFacts
  <2> QED
    BY <1>0, <1>3, <2>1, <2>2, <2>3, <2>4 DEF RecordBlocks, CeilDiv
<1> QED
  BY <1>0, <1>2, <1>3

\* A clamped write buffer has at least one block (clamp_write_buffer_blocks).
LEMMA BufferBlocksType ==
  ASSUME NEW o \in Options
  PROVE  BufferBlocks(o) \in Nat \ {0}
<1> DEFINE quarter == (BackingBlocks - LogStart) \div 4
<1>1. quarter \in Nat
  BY GeometryAssumption, DivFacts, BackingBlocks - LogStart \in Nat, 4 \in Nat \ {0}
<1> HIDE DEF quarter
<1>2. BufferBlocks(o) = Smaller(o.buf, IF quarter = 0 THEN 1 ELSE quarter)
  BY DEF BufferBlocks, quarter
<1> QED
  BY <1>1, <1>2 DEF Options, Smaller

-----------------------------------------------------------------------------
(* Finite sets of logical blocks and of pages *)

LEMMA LbasFinite ==
  ASSUME NEW S \in SUBSET Lbas
  PROVE  IsFiniteSet(S) /\ Cardinality(S) \in Nat
<1>1. 0 \in Int /\ VolumeBlocks - 1 \in Int
  BY GeometryAssumption
<1>2. IsFiniteSet(Lbas)
  BY <1>1, FS_Interval DEF Lbas
<1> QED
  BY <1>2, FS_Subset, FS_CardinalityType

\* A set of pages is finite and no larger than the volume's page count.
LEMMA PagesFinite ==
  ASSUME NEW S \in SUBSET Pages
  PROVE  IsFiniteSet(S) /\ Cardinality(S) \in Nat /\ Cardinality(S) <= PageCount
<1>1. IsFiniteSet(Pages) /\ Cardinality(Pages) = PageCount
  BY PageCountType, FS_Interval DEF Pages
<1> QED
  BY <1>1, FS_Subset, FS_CardinalityType

\* The pages of a set of logical blocks are no more than the blocks.
LEMMA PagesOfType ==
  ASSUME NEW S \in SUBSET Lbas
  PROVE  /\ PagesOf(S) \in SUBSET Pages
         /\ Cardinality(PagesOf(S)) <= Cardinality(S)
<1>1. PagesOf(S) \in SUBSET Pages
  BY PagesOfLbas DEF PagesOf
<1> DEFINE f == [l \in S |-> PageOf(l)]
<1>2. f \in Surjection(S, PagesOf(S))
  BY DEF Surjection, PagesOf
<1>3. IsFiniteSet(S)
  BY LbasFinite
<1> QED
  BY <1>1, <1>2, <1>3, FS_Surjection

\* Removing a subset subtracts its size.
LEMMA CardinalityMinus ==
  ASSUME NEW T, IsFiniteSet(T), NEW S \in SUBSET T
  PROVE  /\ IsFiniteSet(S) /\ IsFiniteSet(T \ S)
         /\ Cardinality(S) \in Nat /\ Cardinality(T \ S) \in Nat
         /\ Cardinality(T \ S) = Cardinality(T) - Cardinality(S)
         /\ Cardinality(S) <= Cardinality(T)
<1>1. IsFiniteSet(S) /\ IsFiniteSet(T \ S) /\ Cardinality(S) <= Cardinality(T)
  BY FS_Subset
<1>2. /\ Cardinality(T) \in Nat /\ Cardinality(S) \in Nat
      /\ Cardinality(T \ S) \in Nat
  BY <1>1, FS_CardinalityType
<1>3. T = S \cup (T \ S) /\ S \cap (T \ S) = {}
  OBVIOUS
<1>4. Cardinality(S \cap (T \ S)) = 0
  BY <1>3, FS_EmptySet
<1>5. Cardinality(S \cup (T \ S)) = Cardinality(S) + Cardinality(T \ S)
                                    - Cardinality(S \cap (T \ S))
  BY <1>1, FS_Union
<1>6. Cardinality(T) = Cardinality(S) + Cardinality(T \ S)
  BY <1>2, <1>3, <1>4, <1>5
<1> QED
  BY <1>1, <1>2, <1>6

\* A union is no larger than its parts together, and no smaller than each.
LEMMA CardinalityUnion ==
  ASSUME NEW S, NEW T, IsFiniteSet(S), IsFiniteSet(T)
  PROVE  /\ IsFiniteSet(S \cup T)
         /\ Cardinality(S \cup T) \in Nat
         /\ Cardinality(S \cup T) <= Cardinality(S) + Cardinality(T)
         /\ Cardinality(S \cup T) = Cardinality(S \ T) + Cardinality(T)
<1>1. IsFiniteSet(S \ T) /\ IsFiniteSet(S \cup T)
  BY FS_Subset, FS_Union
<1>2. (S \ T) \cup T = S \cup T /\ (S \ T) \cap T = {}
  OBVIOUS
<1>3. Cardinality((S \ T) \cap T) = 0
  BY <1>2, FS_EmptySet
<1>4. Cardinality(S \cup T) = Cardinality(S \ T) + Cardinality(T)
                              - Cardinality((S \ T) \cap T)
  BY <1>1, <1>2, FS_Union
<1>5. Cardinality(S \ T) <= Cardinality(S)
  BY FS_Subset
<1>6. /\ Cardinality(S \cup T) \in Nat /\ Cardinality(S \ T) \in Nat
      /\ Cardinality(T) \in Nat /\ Cardinality(S) \in Nat
  BY <1>1, FS_CardinalityType
<1> QED
  BY <1>1, <1>3, <1>4, <1>5, <1>6

\* What the next group taken from T, at most n at a time, leaves.
LEMMA LowestFacts ==
  ASSUME NEW T, IsFiniteSet(T), NEW n \in Nat \ {0}, NEW S, Lowest(S, n, T)
  PROVE  /\ S \in SUBSET T /\ IsFiniteSet(S)
         /\ Cardinality(S) \in Nat
         /\ Cardinality(S) = Smaller(n, Cardinality(T))
         /\ Cardinality(S) <= n
         /\ Cardinality(T \ S) = Cardinality(T) - Cardinality(S)
<1>1. S \in SUBSET T /\ Cardinality(S) = Smaller(n, Cardinality(T))
  BY DEF Lowest
<1>2. Cardinality(T) \in Nat
  BY FS_CardinalityType
<1> QED
  BY <1>1, <1>2, CardinalityMinus DEF Smaller

\* Ranks in a finite set of numbers count from zero.
LEMMA RankFacts ==
  ASSUME NEW S \in SUBSET Nat, IsFiniteSet(S), NEW x \in S
  PROVE  Rank(x, S) \in Nat /\ Rank(x, S) < Cardinality(S)
<1> DEFINE below == {y \in S : y < x}
<1>1. below \in SUBSET (S \ {x})
  OBVIOUS
<1>2. IsFiniteSet(S \ {x}) /\ Cardinality(S \ {x}) = Cardinality(S) - 1
  BY FS_RemoveElement
<1>3. Cardinality(below) <= Cardinality(S \ {x}) /\ IsFiniteSet(below)
  BY <1>1, <1>2, FS_Subset
<1>4. Cardinality(below) \in Nat /\ Cardinality(S) \in Nat
  BY <1>3, FS_CardinalityType
<1> QED
  BY <1>2, <1>3, <1>4 DEF Rank

LEMMA LbaRank ==
  ASSUME NEW S \in SUBSET Lbas, NEW l \in S
  PROVE  Rank(l, S) \in Nat /\ Rank(l, S) < Cardinality(S)
<1>1. S \in SUBSET Nat
  BY GeometryAssumption DEF Lbas
<1> QED
  BY <1>1, LbasFinite, RankFacts

LEMMA PageRank ==
  ASSUME NEW S \in SUBSET Pages, NEW p \in S
  PROVE  p \in Nat /\ Rank(p, S) \in Nat /\ Rank(p, S) < Cardinality(S)
<1>1. S \in SUBSET Nat
  BY PageCountType DEF Pages
<1> QED
  BY <1>1, PagesFinite, RankFacts

\* Ranks follow the order of the set, so different members have different ranks.
LEMMA RankOrder ==
  ASSUME NEW S \in SUBSET Nat, IsFiniteSet(S), NEW x \in S, NEW y \in S, x < y
  PROVE  Rank(x, S) < Rank(y, S)
<1> DEFINE lower == {w \in S : w < x}
           upper == {w \in S : w < y}
<1>0. x \in Nat /\ y \in Nat /\ \A w \in S : w \in Nat
  OBVIOUS
<1>1. lower \in SUBSET (upper \ {x}) /\ x \in upper /\ upper \in SUBSET S
  <2>1. \A w \in S : w < x => w < y /\ w # x
    BY <1>0
  <2> QED
    BY <2>1
<1>2. IsFiniteSet(upper) /\ Cardinality(upper) \in Nat
  BY <1>1, FS_Subset, FS_CardinalityType
<1>3. /\ IsFiniteSet(upper \ {x})
      /\ Cardinality(upper \ {x}) = Cardinality(upper) - 1
  BY <1>1, <1>2, FS_RemoveElement
<1>4. Cardinality(lower) <= Cardinality(upper \ {x}) /\ IsFiniteSet(lower)
  BY <1>1, <1>3, FS_Subset
<1>5. Cardinality(lower) \in Nat
  BY <1>4, FS_CardinalityType
<1> QED
  BY <1>2, <1>3, <1>4, <1>5 DEF Rank

LEMMA RankInjective ==
  ASSUME NEW S \in SUBSET Nat, IsFiniteSet(S), NEW x \in S, NEW y \in S,
         Rank(x, S) = Rank(y, S)
  PROVE  x = y
<1>1. x \in Nat /\ y \in Nat /\ Rank(x, S) \in Nat /\ Rank(y, S) \in Nat
  BY RankFacts
<1>2. ~(x < y) /\ ~(y < x)
  BY <1>1, RankOrder
<1> QED
  BY <1>1, <1>2

\* Every place below the cardinality is taken: the members of S, in order, fill a
\* run of blocks without a gap.
LEMMA RankOnto ==
  ASSUME NEW S \in SUBSET Nat, IsFiniteSet(S), NEW i \in Nat, i < Cardinality(S)
  PROVE  \E x \in S : Rank(x, S) = i
<1> DEFINE n == Cardinality(S)
           f == [x \in S |-> Rank(x, S)]
<1>1. n \in Nat
  BY FS_CardinalityType
<1>2. IsFiniteSet(0 .. n - 1) /\ Cardinality(0 .. n - 1) = n
  <2>1. 0 \in Int /\ n - 1 \in Int /\ 0 > n - 1 <=> n = 0
    BY <1>1
  <2>2. n - 1 - 0 + 1 = n
    BY <1>1
  <2> HIDE DEF n
  <2> QED
    BY <1>1, <2>1, <2>2, FS_Interval
<1>3. f \in [S -> 0 .. n - 1]
  BY <1>1, RankFacts
<1>a. \A x, y \in S : f[x] = f[y] => x = y
  BY RankInjective
<1> HIDE DEF f
<1>4. f \in Injection(S, 0 .. n - 1)
  BY <1>3, <1>a DEF Injection, IsInjective
<1>5. f \in Surjection(S, 0 .. n - 1)
  BY <1>2, <1>4, FS_Injection
<1>6. i \in 0 .. n - 1
  BY <1>1
<1>7. \E x \in S : f[x] = i
  BY <1>5, <1>6 DEF Surjection
<1> QED
  BY <1>7 DEF f

-----------------------------------------------------------------------------
(* The types of what the engine reads and writes *)

\* A data record or a mapping page carries mapping entries (decode).
LEMMA BlockEntries ==
  ASSUME NEW b \in Block, b.kind \in {"data", "page"}
  PROVE  b.ents \in Entries
  BY DEF Block, Blank, TornPage, PayloadBlock, FooterBlock, PageBlock

LEMMA UnmappedType == Unmapped \in Entry /\ NoEntries \in Entries
  BY DEF Unmapped, Entry, NoEntries, Entries

LEMMA PageSliceType ==
  ASSUME NEW p, NEW ents \in Entries
  PROVE  PageSlice(p, ents) \in Entries
  BY UnmappedType DEF PageSlice, Entries

\* A lookup through the cache or the active checkpoint yields an entry.
LEMMA MappedEntryType ==
  ASSUME TypeOK, PointersValid(ckpt), NEW l \in Lbas
  PROVE  MappedEntry(l) \in Entry
<1>1. PageOf(l) \in Pages
  BY PagesOfLbas
<1>2. ckpt.index[PageOf(l)] # 0 => log[ckpt.index[PageOf(l)]] \in Block
  BY <1>1 DEF TypeOK, DiskTypeOK, PointersValid
<1>3. ckpt.index[PageOf(l)] # 0 => log[ckpt.index[PageOf(l)]].ents \in Entries
  BY <1>1, <1>2, BlockEntries DEF PointersValid
<1>4. SnapshotEntry(l) \in Entry
  BY <1>3, UnmappedType DEF SnapshotEntry, Entries
<1>5. cached[l] \in Entry
  BY DEF TypeOK, HandleTypeOK, Entries
<1> QED
  BY <1>4, <1>5 DEF MappedEntry

\* Snapshots written by append_batch are blocks of the log.
LEMMA WithSnapshotsType ==
  ASSUME TypeOK, NEW S \in SUBSET Pages, NEW count
  PROVE  WithSnapshots(S, count) \in [Addr -> Block]
<1> SUFFICES ASSUME NEW a \in Addr
             PROVE  WithSnapshots(S, count)[a] \in Block
  BY DEF WithSnapshots
<1>1. CASE \E p \in S : Rank(p, S) < count /\ a = cand.bound + 1 + Rank(p, S)
  <2> DEFINE q == CHOOSE q \in S : a = cand.bound + 1 + Rank(q, S)
  <2>1. q \in S /\ a = cand.bound + 1 + Rank(q, S)
    BY <1>1
  <2>2. q \in Nat /\ Rank(q, S) \in Nat
    BY <2>1, PageRank
  <2> HIDE DEF q
  <2>3. cand.lsn + (a - cand.bound) \in Nat /\ a - 1 \in Nat
    BY <2>1, <2>2 DEF TypeOK, HandleTypeOK, Checkpoint
  <2>4. PageSlice(q, cached) \in Entries
    BY PageSliceType DEF TypeOK, HandleTypeOK
  <2> USE DEF q
  <2>5. WithSnapshots(S, count)[a]
          = Snapshot(cand.lsn + (a - cand.bound), a - 1, q, PageSlice(q, cached))
    BY <1>1 DEF WithSnapshots
  <2> QED
    BY <2>2, <2>3, <2>4, <2>5 DEF Snapshot, Block, PageBlock
<1>2. CASE ~\E p \in S : Rank(p, S) < count /\ a = cand.bound + 1 + Rank(p, S)
  BY <1>2 DEF WithSnapshots, TypeOK, DiskTypeOK
<1> QED
  BY <1>1, <1>2

\* A batch leaves every block up to the candidate's boundary alone.
LEMMA WithSnapshotsBelow ==
  ASSUME TypeOK, NEW S \in SUBSET Pages, NEW count, NEW a \in Addr, a <= cand.bound
  PROVE  WithSnapshots(S, count)[a] = log[a]
<1>1. \A p \in S : Rank(p, S) \in Nat
  BY PageRank
<1> QED
  BY <1>1 DEF WithSnapshots, Addr, TypeOK, HandleTypeOK, Checkpoint

\* Each page of a batch has its snapshot in the block its rank names.
LEMMA WithSnapshotsAt ==
  ASSUME TypeOK, NEW S \in SUBSET Pages, NEW p \in S,
         cand.bound + 1 + Rank(p, S) \in Addr
  PROVE  WithSnapshots(S, Cardinality(S))[cand.bound + 1 + Rank(p, S)].kind = "page"
<1>1. Rank(p, S) < Cardinality(S)
  BY PageRank
<1> QED
  BY <1>1 DEF WithSnapshots, Snapshot

LEMMA WithPayloadsType ==
  ASSUME TypeOK, NEW rec \in SUBSET Lbas, NEW count
  PROVE  WithPayloads(rec, count) \in [Addr -> Block]
<1> SUFFICES ASSUME NEW a \in Addr
             PROVE  WithPayloads(rec, count)[a] \in Block
  BY DEF WithPayloads
<1>1. CASE \E l \in rec : Rank(l, rec) < count /\ a = tail.bound + 1 + Rank(l, rec)
  <2> DEFINE k == CHOOSE l \in rec : a = tail.bound + 1 + Rank(l, rec)
  <2>1. k \in Lbas
    BY <1>1
  <2>2. WithPayloads(rec, count)[a] = Payload(buffer[k])
    BY <1>1 DEF WithPayloads
  <2>3. buffer[k] \in Values
    BY <2>1 DEF TypeOK, HandleTypeOK, Image
  <2> QED
    BY <2>2, <2>3 DEF Payload, Block, PayloadBlock
<1>2. CASE ~\E l \in rec : Rank(l, rec) < count /\ a = tail.bound + 1 + Rank(l, rec)
  BY <1>2 DEF WithPayloads, TypeOK, DiskTypeOK
<1> QED
  BY <1>1, <1>2

LEMMA WithPayloadsBelow ==
  ASSUME TypeOK, NEW rec \in SUBSET Lbas, NEW count, NEW a \in Addr, a <= tail.bound
  PROVE  WithPayloads(rec, count)[a] = log[a]
<1>1. \A l \in rec : Rank(l, rec) \in Nat
  BY LbaRank
<1> QED
  BY <1>1 DEF WithPayloads, Addr, TypeOK, HandleTypeOK, Position

\* The entries of a record are typed.
LEMMA RecordEntryType ==
  ASSUME TypeOK, NEW rec \in SUBSET Lbas, NEW l \in rec, NEW first \in Nat
  PROVE  RecordEntry(l, rec, first) \in Entry
<1>1. Rank(l, rec) \in Nat
  BY LbaRank
<1>2. buffer[l] \in Values
  BY DEF TypeOK, HandleTypeOK, Image
<1>3. first + Rank(l, rec) \in Nat
  BY <1>1
<1> QED
  BY <1>2, <1>3 DEF RecordEntry, Checksum, Entry

LEMMA WithRecordType ==
  ASSUME TypeOK, NEW rec \in SUBSET Lbas
  PROVE  WithRecord(rec) \in [Addr -> Block]
<1> DEFINE bound == tail.bound + Cardinality(rec) + 1
<1>1. tail.bound + 1 \in Nat /\ tail.lsn + 1 \in Nat /\ bound \in Nat /\ tail.bound \in Nat
  BY LbasFinite DEF TypeOK, HandleTypeOK, Position
<1>2. RecordEntries(rec, tail.bound + 1) \in Entries
  BY <1>1, RecordEntryType, UnmappedType DEF RecordEntries, Entries
<1>3. Footer(tail.lsn + 1, tail.bound, bound, RecordEntries(rec, tail.bound + 1)) \in Block
  BY <1>1, <1>2 DEF Footer, Block, FooterBlock
<1>4. WithPayloads(rec, Cardinality(rec)) \in [Addr -> Block]
  BY WithPayloadsType
<1> QED
  BY <1>3, <1>4 DEF WithRecord

LEMMA WithRecordBelow ==
  ASSUME TypeOK, NEW rec \in SUBSET Lbas, NEW a \in Addr, a <= tail.bound
  PROVE  WithRecord(rec)[a] = log[a]
<1>1. a # tail.bound + Cardinality(rec) + 1
  BY LbasFinite, GeometryAssumption DEF Addr, TypeOK, HandleTypeOK, Position
<1> QED
  BY <1>1, WithPayloadsBelow DEF WithRecord

-----------------------------------------------------------------------------
(* Each step keeps the inductive invariant *)

\* A process without an open volume satisfies the invariant whatever the log
\* holds: Forget resets all that the invariant speaks of.
LEMMA ForgetStep ==
  ASSUME Forget, DiskTypeOK', pc' \in {"down", "failed"},
         lastOpen' \in {"none", "invalid", "options", "nospace"}, faults' \in Nat
  PROVE  Inductive'
<1>1. /\ NoOptions \in Options /\ FormatRoot \in Checkpoint /\ OriginTail \in Position
      /\ NoEntries \in Entries /\ ZeroImage \in Image /\ NoPage \in Pages \cup {NoPage}
      /\ NoWant \in [page : Pages, seq : BOOLEAN]
  BY GeometryAssumption, ValuesAssumption, UnmappedType, PageCountType
  DEF NoOptions, Options, FormatRoot, Checkpoint, EmptyIndex, Index, Slot, OriginTail,
      At, Position, ZeroImage, Image, NoWant, Pages
<1>2. HandleTypeOK'
  BY <1>1 DEF Forget, HandleTypeOK, Idle
<1>3. ControlInv'
  BY DEF Forget, ControlInv, InUse, Opening, Recovering, Publishing
<1>4. SnapshotsInPlace' /\ ReservedSpace' /\ AssertionsHold'
  BY DEF SnapshotsInPlace, ReservedSpace, AssertionsHold, InUse, Publishing
<1>5. ReservedSlots'
  BY FS_EmptySet, PagesOf({}) = {} DEF Forget, ReservedSlots, PagesOf
<1> QED
  BY <1>2, <1>3, <1>4, <1>5 DEF Inductive, TypeOK

\* A freshly formatted volume.
LEMMA InitStep ==
  ASSUME Init
  PROVE  Inductive
<1>1. /\ NoOptions \in Options /\ FormatRoot \in Checkpoint /\ OriginTail \in Position
      /\ NoEntries \in Entries /\ ZeroImage \in Image /\ NoPage \in Pages \cup {NoPage}
      /\ NoWant \in [page : Pages, seq : BOOLEAN]
  BY GeometryAssumption, ValuesAssumption, UnmappedType, PageCountType
  DEF NoOptions, Options, FormatRoot, Checkpoint, EmptyIndex, Index, Slot, OriginTail,
      At, Position, ZeroImage, Image, NoWant, Pages
<1>2. HandleTypeOK
  BY <1>1 DEF Init, HandleTypeOK, Idle
<1>3. DescriptorOf(FormatRoot) \in Descriptor /\ EmptyIndex \in Index
  BY GeometryAssumption DEF DescriptorOf, FormatRoot, Descriptor, EmptyIndex, Index
<1>4. DiskTypeOK
  BY <1>3 DEF Init, DiskTypeOK, Block
<1>5. ControlInv
  BY DEF Init, ControlInv, InUse, Opening, Recovering, Publishing
<1>6. SnapshotsInPlace /\ ReservedSpace /\ AssertionsHold
  BY DEF Init, SnapshotsInPlace, ReservedSpace, AssertionsHold, InUse, Publishing
<1>7. ReservedSlots
  BY FS_EmptySet, PagesOf({}) = {} DEF Init, ReservedSlots, PagesOf
<1> QED
  BY <1>2, <1>4, <1>5, <1>6, <1>7 DEF Inductive, TypeOK, Init

\* The fsync of an open file keeps the stable image typed.
LEMMA SyncType ==
  ASSUME DiskTypeOK, Sync
  PROVE  stable' \in [desc : [Slot -> {NoDescriptor} \cup Descriptor],
                      body : [Slot -> {TornBody} \cup Index],
                      log : [Addr -> Block]]
  BY DEF DiskTypeOK, Sync

LEMMA LatchStep ==
  ASSUME Inductive, Latch
  PROVE  Inductive'
<1>1. DiskTypeOK'
  BY DEF Inductive, TypeOK, Latch, DiskTypeOK, disk
<1> QED
  BY <1>1, ForgetStep DEF Inductive, TypeOK, Latch

LEMMA OpenFailsStep ==
  ASSUME Inductive, NEW why \in {"invalid", "options", "nospace"}, OpenFails(why)
  PROVE  Inductive'
<1>1. DiskTypeOK'
  BY DEF Inductive, TypeOK, OpenFails, DiskTypeOK, disk
<1> QED
  BY <1>1, ForgetStep DEF Inductive, TypeOK, OpenFails

LEMMA InterruptedType ==
  ASSUME Inductive, Interrupted, UNCHANGED stable
  PROVE  DiskTypeOK'
<1>0. TypeOK /\ todo \in SUBSET Lbas /\ pend \in SUBSET Pages /\ cand.slot \in Slot
  BY DEF Inductive, TypeOK, HandleTypeOK, Checkpoint
<1>1. CASE UNCHANGED disk
  BY <1>0, <1>1 DEF TypeOK, DiskTypeOK, disk
<1>2. CASE /\ \E rec \in SUBSET todo : \E count \in 1 .. Cardinality(rec) :
                log' = WithPayloads(rec, count)
           /\ UNCHANGED <<desc, body>>
  <2>1. log' \in [Addr -> Block]
    BY <1>0, <1>2, WithPayloadsType
  <2> QED
    BY <1>0, <1>2, <2>1 DEF TypeOK, DiskTypeOK
<1>3. CASE /\ \E S \in SUBSET pend : \E count \in 1 .. Cardinality(S) - 1 :
                log' = WithSnapshots(S, count)
           /\ UNCHANGED <<desc, body>>
  <2>1. log' \in [Addr -> Block]
    BY <1>0, <1>3, WithSnapshotsType
  <2> QED
    BY <1>0, <1>3, <2>1 DEF TypeOK, DiskTypeOK
<1>4. CASE /\ body' = [body EXCEPT ![cand.slot] = TornBody]
           /\ UNCHANGED <<desc, log>>
  BY <1>0, <1>4 DEF TypeOK, DiskTypeOK
<1>5. CASE /\ desc' = [desc EXCEPT ![cand.slot] = NoDescriptor]
           /\ UNCHANGED <<body, log>>
  BY <1>0, <1>5 DEF TypeOK, DiskTypeOK
<1> QED
  BY <1>1, <1>2, <1>3, <1>4, <1>5 DEF Interrupted

LEMMA KillStep ==
  ASSUME Inductive, Kill
  PROVE  Inductive'
<1>1. DiskTypeOK'
  BY InterruptedType DEF Kill
<1> QED
  BY <1>1, ForgetStep DEF Inductive, TypeOK, Kill

LEMMA IoErrorStep ==
  ASSUME Inductive, IoError
  PROVE  Inductive'
<1>1. DiskTypeOK'
  BY InterruptedType DEF IoError
<1> QED
  BY <1>1, ForgetStep DEF Inductive, TypeOK, IoError

LEMMA PowerLossStep ==
  ASSUME Inductive, PowerLoss
  PROVE  Inductive'
<1>0. DiskTypeOK
  BY DEF Inductive, TypeOK
<1>1. log' \in [Addr -> Block]
  BY <1>0 DEF PowerLoss, DiskTypeOK, Block
<1>2. desc' \in [Slot -> {NoDescriptor} \cup Descriptor] /\ body' \in [Slot -> {TornBody} \cup Index]
  BY <1>0 DEF PowerLoss, DiskTypeOK, Leaves, Slot
<1>3. DiskTypeOK'
  BY <1>1, <1>2 DEF PowerLoss, DiskTypeOK
<1> QED
  BY <1>3, ForgetStep DEF Inductive, TypeOK, PowerLoss

LEMMA ClosedStep ==
  ASSUME Inductive, Closed
  PROVE  Inductive'
<1>1. DiskTypeOK'
  BY SyncType DEF Inductive, TypeOK, Closed, DiskTypeOK, disk
<1> QED
  BY <1>1, ForgetStep DEF Inductive, TypeOK, Closed

\* The steps that persist the root write outside the log and leave the handle
\* alone; what the invariant says of a publication holds at each of them.
LEMMA PersistRootStep ==
  ASSUME Inductive, SyncLog \/ WriteBody \/ SyncBody \/ WriteDescriptor
  PROVE  Inductive'
<1> DEFINE same == /\ op' = op /\ opts' = opts /\ tail' = tail /\ live' = live
                   /\ log' = log
                   /\ UNCHANGED <<rootVars, cacheVars, bufVars, readVars, recoveryVars>>
<1>1. same /\ pc \in Publishing /\ pc' \in Publishing
  BY DEF SyncLog, WriteBody, SyncBody, WriteDescriptor, disk, Publishing
<1>2. DiskTypeOK'
  <2>1. cand.slot \in Slot /\ cand.index \in Index /\ DescriptorOf(cand) \in Descriptor
    BY DEF Inductive, TypeOK, HandleTypeOK, Checkpoint, DescriptorOf, Descriptor
  <2> QED
    BY <2>1, SyncType DEF Inductive, TypeOK, DiskTypeOK, SyncLog, WriteBody, SyncBody,
       WriteDescriptor, disk
<1>3. TypeOK'
  BY <1>1, <1>2 DEF Inductive, TypeOK, HandleTypeOK, SyncLog, WriteBody, SyncBody,
     WriteDescriptor, rootVars, cacheVars, bufVars, readVars, recoveryVars
<1>4. ControlInv'
  BY <1>1 DEF Inductive, ControlInv, InUse, Opening, Recovering, Publishing,
     rootVars, cacheVars, bufVars, recoveryVars
<1>5. SnapshotsInPlace'
  BY <1>1 DEF Inductive, SnapshotsInPlace, PointersValid, InUse, Publishing, rootVars
<1>6. ReservedSpace'
  BY <1>1 DEF Inductive, ReservedSpace, Frontier, Owed, InUse, Publishing,
     rootVars, cacheVars, bufVars, recoveryVars
<1>7. ReservedSlots' /\ AssertionsHold'
  BY <1>1 DEF Inductive, ReservedSlots, AssertionsHold, Publishing, cacheVars, bufVars
<1> QED
  BY <1>3, <1>4, <1>5, <1>6, <1>7 DEF Inductive

\* prepare: the candidate starts at the tail, and the dirty pages it will
\* append are the ones the reservation counted.
LEMMA PrepareStep ==
  ASSUME Inductive, Prepare
  PROVE  Inductive'
<1>1. CASE Latch
  BY <1>1, LatchStep
<1>2. CASE ~Latch
  <2> DEFINE same == UNCHANGED <<desc, body, log, stable, op, opts, ckpt, tail, cacheVars,
                                 bufVars, readVars, live, recoveryVars, lastOpen, faults>>
  <2>1. /\ pc = "prepare" /\ pc' = "append" /\ same /\ pend' = dirty
        /\ cand' = Candidate
    BY <1>2 DEF Prepare, disk
  <2>2. op \in {"write", "flush", "close", "closing", "read"}
    BY <2>1 DEF Inductive, ControlInv
  <2>3. cand' \in Checkpoint /\ cand'.bound = tail.bound /\ cand'.index = ckpt.index
    BY <2>1 DEF Inductive, TypeOK, HandleTypeOK, Checkpoint, Position, Slot, Other, Candidate
  <2>4. TypeOK'
    BY <2>1, <2>3 DEF Inductive, TypeOK, DiskTypeOK, HandleTypeOK, Publishing,
       cacheVars, bufVars, readVars, recoveryVars
  <2>5. ControlInv'
    BY <2>1, <2>2 DEF Inductive, ControlInv, InUse, Opening, Recovering, Publishing,
       cacheVars, bufVars, recoveryVars
  <2>6. SnapshotsInPlace'
    <3>1. /\ PointersValid(ckpt) /\ LogStart <= ckpt.bound + 1 /\ ckpt.bound <= tail.bound
          /\ ckpt \in Checkpoint /\ tail.bound \in Nat
      BY <2>1 DEF Inductive, SnapshotsInPlace, InUse, TypeOK, HandleTypeOK, Position
    <3>2. PointersValid(ckpt)' /\ PointersValid(cand)'
      BY <2>1, <2>3, <3>1, GeometryAssumption DEF PointersValid, Checkpoint, Index, Addr
    <3> QED
      BY <2>1, <2>3, <3>1, <3>2 DEF SnapshotsInPlace
  <2>7. ReservedSpace'
    <3>1. Owed = Reservation(Cardinality(buffered), bufPages, Cardinality(dirty))
      BY <2>1 DEF Owed, Publishing
    <3>2. Owed' = Cardinality(dirty) + Reservation(Cardinality(buffered), bufPages, 0)
      BY <2>1, <2>2 DEF Owed, Publishing, bufVars
    <3>3. Cardinality(dirty) \in Nat /\ bufPages \in Nat /\ Cardinality(buffered) \in Nat
      BY PagesFinite, LbasFinite DEF Inductive, TypeOK, HandleTypeOK
    <3>4. Owed' = Owed
      BY <3>1, <3>2, <3>3, RecordBlocksType DEF Reservation
    <3> QED
      BY <2>1, <2>3, <3>4 DEF Inductive, ReservedSpace, Frontier, InUse, Publishing
  <2>8. ReservedSlots' /\ AssertionsHold'
    BY <2>1 DEF Inductive, ReservedSlots, AssertionsHold, bufVars
  <2> QED
    BY <2>4, <2>5, <2>6, <2>7, <2>8 DEF Inductive
<1> QED
  BY <1>1, <1>2

\* append_batch: the batch fits the blocks still owed, its snapshots are where
\* the candidate's index says, and nothing below the candidate changes.
LEMMA AppendBatchStep ==
  ASSUME Inductive, AppendBatch
  PROVE  Inductive'
<1> DEFINE same == UNCHANGED <<desc, body, stable, pc, op, opts, ckpt, tail, cacheVars,
                               bufVars, readVars, live, window, cursor, lastOpen, faults>>
<1> PICK S \in SUBSET pend :
       /\ Lowest(S, Batch, pend)
       /\ log' = WithSnapshots(S, Cardinality(S))
       /\ cand' = Extended(S)
       /\ pend' = pend \ S
       /\ marked' = marked \ S
  BY DEF AppendBatch
<1>1. pc = "append" /\ same /\ TypeOK
  BY DEF AppendBatch, Inductive
<1>2. /\ S \in SUBSET Pages /\ IsFiniteSet(S) /\ IsFiniteSet(pend)
      /\ Cardinality(S) \in Nat /\ Cardinality(pend) \in Nat
      /\ Cardinality(pend \ S) = Cardinality(pend) - Cardinality(S)
      /\ Cardinality(S) <= Cardinality(pend)
  BY <1>1, PagesFinite, CardinalityMinus DEF TypeOK, HandleTypeOK
<1>3. \A p \in S : Rank(p, S) \in Nat /\ Rank(p, S) < Cardinality(S)
  BY <1>2, PageRank
<1>4. cand.bound \in Nat /\ cand.lsn \in Nat /\ cand.index \in Index
  BY <1>1 DEF TypeOK, HandleTypeOK, Checkpoint
<1>5. /\ cand'.bound = cand.bound + Cardinality(S)
      /\ cand'.index = [p \in Pages |-> IF p \in S THEN cand.bound + 1 + Rank(p, S)
                                                   ELSE cand.index[p]]
      /\ cand' \in Checkpoint
  BY <1>1, <1>2, <1>3, <1>4 DEF TypeOK, HandleTypeOK, Checkpoint, Index, Extended
<1>6. TypeOK'
  <2>1. log' \in [Addr -> Block]
    BY <1>1, <1>2, WithSnapshotsType
  <2> QED
    BY <1>1, <1>5, <2>1 DEF TypeOK, DiskTypeOK, HandleTypeOK, cacheVars, bufVars, readVars
<1>7. ControlInv'
  BY <1>1 DEF Inductive, ControlInv, InUse, Opening, Recovering, Publishing,
     cacheVars, bufVars
<1>8. ReservedSpace' /\ cand.bound + Cardinality(S) < BackingBlocks
  <2>1. EnsureSpace(cand.bound, Owed) /\ Frontier' = cand.bound + Cardinality(S)
    BY <1>1, <1>5 DEF Inductive, ReservedSpace, InUse, Frontier, Publishing
  <2>2. CASE op = "recover"
    <3>1. pend \subseteq marked
      BY <1>1, <2>2 DEF Inductive, ControlInv, Publishing
    <3>2. /\ Cardinality(marked \ S) = Cardinality(marked) - Cardinality(S)
          /\ Cardinality(marked) \in Nat /\ Cardinality(S) <= Cardinality(marked)
      BY <1>1, <3>1, PagesFinite, CardinalityMinus DEF TypeOK, HandleTypeOK
    <3>3. Owed = Cardinality(marked) /\ Owed' = Cardinality(marked \ S)
      BY <1>1, <2>2 DEF Owed, Publishing
    <3> QED
      BY <1>1, <1>2, <1>4, <2>1, <3>2, <3>3, GeometryAssumption
      DEF ReservedSpace, EnsureSpace
  <2>3. CASE op # "recover"
    <3> DEFINE rest == Reservation(Cardinality(buffered), bufPages, 0)
    <3>1. rest \in Nat
      BY <1>1, LbasFinite, RecordBlocksType DEF TypeOK, HandleTypeOK, Reservation
    <3>2. Owed = Cardinality(pend) + rest /\ Owed' = Cardinality(pend \ S) + rest
      BY <1>1, <2>3 DEF Owed, Publishing, bufVars
    <3> HIDE DEF rest
    <3> QED
      BY <1>1, <1>2, <1>4, <2>1, <3>1, <3>2, GeometryAssumption
      DEF ReservedSpace, EnsureSpace
  <2> QED
    BY <2>2, <2>3
<1>9. SnapshotsInPlace'
  <2>1. /\ PointersValid(ckpt) /\ ckpt.bound <= tail.bound
        /\ PointersValid(cand) /\ tail.bound <= cand.bound
        /\ ckpt.bound \in Nat /\ tail.bound \in Nat /\ LogStart <= ckpt.bound + 1
        /\ ckpt.index \in Index
    BY <1>1 DEF Inductive, SnapshotsInPlace, InUse, Publishing, TypeOK, HandleTypeOK,
       Checkpoint, Position
  <2>2. \A a \in Addr : a <= cand.bound => log'[a] = log[a]
    BY <1>1, <1>2, WithSnapshotsBelow
  <2>3. PointersValid(ckpt)'
    BY <1>1, <1>4, <2>1, <2>2, GeometryAssumption DEF PointersValid, Addr, Index
  <2>4. PointersValid(cand)'
    <3> SUFFICES ASSUME NEW p \in Pages, cand'.index[p] # 0
                 PROVE  /\ cand'.index[p] \in Addr /\ cand'.index[p] <= cand'.bound
                        /\ log'[cand'.index[p]].kind = "page"
      BY DEF PointersValid
    <3>1. CASE p \in S
      <4>1. cand'.index[p] = cand.bound + 1 + Rank(p, S)
        BY <1>5, <3>1
      <4>2. cand'.index[p] \in Addr /\ cand'.index[p] <= cand'.bound
        <5>1. cand.bound + 1 >= LogStart
          BY <1>4, <2>1, GeometryAssumption
        <5> QED
          BY <1>2, <1>3, <1>4, <1>5, <1>8, <3>1, <4>1, <5>1, GeometryAssumption DEF Addr
      <4> QED
        BY <1>1, <1>2, <3>1, <4>1, <4>2, WithSnapshotsAt
    <3>2. CASE p \notin S
      BY <1>2, <1>4, <1>5, <2>1, <2>2, <3>2, GeometryAssumption
      DEF PointersValid, Addr, Index
    <3> QED
      BY <3>1, <3>2
  <2> QED
    BY <1>1, <1>2, <1>4, <1>5, <2>1, <2>3, <2>4 DEF SnapshotsInPlace
<1>10. ReservedSlots' /\ AssertionsHold'
  BY <1>1 DEF Inductive, ReservedSlots, AssertionsHold, bufVars
<1> QED
  BY <1>6, <1>7, <1>8, <1>9, <1>10 DEF Inductive

\* append_snapshots returns: to the next replay window, or to the root.
LEMMA AppendDoneStep ==
  ASSUME Inductive, AppendDone
  PROVE  Inductive'
<1> DEFINE same == UNCHANGED <<desc, body, log, stable, op, opts, rootVars, tail, bufVars,
                               readVars, live, marked, lastOpen, faults>>
<1>1. pc = "append" /\ same /\ TypeOK
  BY DEF AppendDone, Inductive, disk
<1>2. CASE op = "recover" /\ marked # {}
  <2>1. /\ pc' = "replay" /\ resident' = {} /\ dirty' = {} /\ cached' = NoEntries
        /\ cursor' = PositionOf(ckpt) /\ window' \in SUBSET marked
    BY <1>2 DEF AppendDone, NextWindow, Lowest
  <2>2. PositionOf(ckpt) \in Position
    BY <1>1 DEF TypeOK, HandleTypeOK, Checkpoint, PositionOf, At, Position
  <2>3. TypeOK'
    BY <1>1, <2>1, <2>2, UnmappedType DEF TypeOK, DiskTypeOK, HandleTypeOK, Recovering,
       rootVars, bufVars, readVars
  <2>4. ControlInv'
    BY <1>1, <1>2, <2>1 DEF Inductive, ControlInv, InUse, Opening, Recovering, Publishing,
       rootVars, bufVars
  <2>5. SnapshotsInPlace'
    BY <1>1, <1>2, <2>1 DEF Inductive, SnapshotsInPlace, PointersValid, InUse, Publishing,
       rootVars
  <2>6. ReservedSpace'
    BY <1>1, <1>2, <2>1 DEF Inductive, ReservedSpace, Frontier, Owed, InUse, Publishing,
       rootVars
  <2>7. ReservedSlots' /\ AssertionsHold'
    BY <1>1, <2>1 DEF Inductive, ReservedSlots, AssertionsHold, bufVars
  <2> QED
    BY <2>3, <2>4, <2>5, <2>6, <2>7 DEF Inductive
<1>3. CASE ~(op = "recover" /\ marked # {})
  <2>1. pc' = "sync" /\ UNCHANGED <<cacheVars, window, cursor>>
    BY <1>3 DEF AppendDone
  <2>2. TypeOK'
    BY <1>1, <2>1 DEF TypeOK, DiskTypeOK, HandleTypeOK, Publishing, rootVars, bufVars,
       readVars, cacheVars
  <2>3. ControlInv'
    BY <1>1, <2>1 DEF Inductive, ControlInv, InUse, Opening, Recovering, Publishing,
       rootVars, bufVars, cacheVars
  <2>4. SnapshotsInPlace'
    BY <1>1, <2>1 DEF Inductive, SnapshotsInPlace, PointersValid, InUse, Publishing, rootVars
  <2>5. ReservedSpace'
    BY <1>1, <2>1 DEF Inductive, ReservedSpace, Frontier, Owed, InUse, Publishing,
       rootVars, bufVars, cacheVars
  <2>6. ReservedSlots' /\ AssertionsHold'
    BY <1>1, <2>1 DEF Inductive, ReservedSlots, AssertionsHold, bufVars
  <2> QED
    BY <2>2, <2>3, <2>4, <2>5, <2>6 DEF Inductive
<1> QED
  BY <1>2, <1>3

\* The root is durable.  A release finds its slots in the now clean cache because
\* the options were validated (validate_buffer_mapping_capacity).
LEMMA SyncDescriptorStep ==
  ASSUME Inductive, SyncDescriptor
  PROVE  Inductive'
<1> DEFINE same == UNCHANGED <<desc, body, log, op, opts, pend, resident, cached, bufVars,
                               readVars, live, marked, lastOpen, faults>>
<1>1. /\ pc = "descsync" /\ op # "closing" /\ same /\ TypeOK
      /\ ckpt' = cand /\ cand' = FormatRoot /\ tail' = PositionOf(cand)
      /\ dirty' = {} /\ window' = {}
      /\ cursor' = IF op = "recover" THEN PositionOf(cand) ELSE cursor
  BY DEF SyncDescriptor, Inductive, disk
<1>2. /\ op = "read" => pc' = "fetch"
      /\ op = "recover" => pc' = "clear"
      /\ op \notin {"read", "recover"} => pc' = "release"
  BY DEF SyncDescriptor
<1>3. op \in {"write", "flush", "close", "read", "recover"}
  BY <1>1 DEF Inductive, ControlInv, Publishing
<1>4. PositionOf(cand) \in Position /\ tail'.bound = cand.bound
  BY <1>1 DEF TypeOK, HandleTypeOK, Checkpoint, PositionOf, At, Position
<1>5. TypeOK'
  <2>1. FormatRoot \in Checkpoint
    BY GeometryAssumption DEF FormatRoot, Checkpoint, EmptyIndex, Index, Slot
  <2>2. DiskTypeOK'
    BY <1>1, SyncType DEF SyncDescriptor, TypeOK, DiskTypeOK
  <2> QED
    BY <1>1, <1>2, <1>3, <1>4, <2>1, <2>2 DEF TypeOK, HandleTypeOK, Recovering, bufVars,
       readVars
<1>6. ControlInv'
  BY <1>1, <1>2, <1>3, <1>4 DEF Inductive, ControlInv, InUse, Opening, Recovering,
     Publishing, bufVars, TypeOK, HandleTypeOK, Checkpoint, PositionOf, At
<1>7. SnapshotsInPlace'
  <2>1. /\ PointersValid(cand) /\ LogStart <= cand.bound + 1 /\ cand \in Checkpoint
    BY <1>1, GeometryAssumption DEF Inductive, SnapshotsInPlace, InUse, Publishing, TypeOK,
       HandleTypeOK, Position, Checkpoint
  <2>2. PointersValid(ckpt)'
    BY <1>1, <2>1 DEF PointersValid
  <2> QED
    BY <1>1, <1>2, <1>3, <1>4, <2>1, <2>2 DEF SnapshotsInPlace, Publishing, Checkpoint
<1>8. /\ Cardinality(buffered) \in Nat /\ bufPages = Cardinality(PagesOf(buffered))
      /\ PagesOf(buffered) \in SUBSET Pages
      /\ Cardinality(pend) \in Nat /\ Cardinality(PagesOf(buffered)) \in Nat
      /\ Cardinality(PagesOf(buffered)) <= Cardinality(buffered)
      /\ Cardinality(PagesOf(buffered)) <= PageCount
  BY <1>1, LbasFinite, PagesFinite, PagesOfType DEF TypeOK, HandleTypeOK, Inductive,
     ReservedSlots
<1>9. ReservedSpace'
  <2>1. EnsureSpace(cand.bound, Owed)
    BY <1>1 DEF Inductive, ReservedSpace, InUse, Frontier, Publishing
  <2>2. Frontier' = cand.bound
    BY <1>1, <1>2, <1>3, <1>4 DEF Frontier, Publishing
  <2>3. Owed \in Nat /\ Owed' \in Nat /\ Owed' <= Owed
    <3>1. CASE op = "recover"
      <4>1. buffered = {}
        BY <1>1, <3>1 DEF Inductive, ControlInv, Opening, Publishing
      <4>2. Owed' = Reservation(0, 0, 0)
        BY <1>1, <1>2, <1>8, <3>1, <4>1, FS_EmptySet, PagesOf({}) = {}
        DEF Owed, Publishing, bufVars, PagesOf
      <4>3. Owed = Cardinality(marked)
        BY <1>1, <3>1 DEF Owed, Publishing
      <4> QED
        BY <1>1, <4>2, <4>3, NoRecordBlocks, PagesFinite DEF Reservation, TypeOK, HandleTypeOK
    <3>2. CASE op # "recover"
      <4>1. Owed = Cardinality(pend) + Reservation(Cardinality(buffered), bufPages, 0)
        BY <1>1, <3>2 DEF Owed, Publishing
      <4>2. CASE op = "read"
        <5>1. Owed' = Reservation(Cardinality(buffered), bufPages, 0)
          BY <1>1, <1>2, <4>2, FS_EmptySet DEF Owed, Publishing, bufVars
        <5> QED
          BY <1>8, <4>1, <5>1, RecordBlocksType DEF Reservation
      <4>3. CASE op # "read"
        <5>1. todo = buffered
          BY <1>1, <1>3, <3>2, <4>3 DEF Inductive, ControlInv, Publishing
        <5>2. Owed' = RecordBlocks(Cardinality(buffered)) + Cardinality(PagesOf(buffered))
          BY <1>1, <1>2, <1>3, <3>2, <4>3, <5>1, {} \cup PagesOf(buffered) = PagesOf(buffered)
          DEF Owed, Publishing, bufVars
        <5> QED
          BY <1>8, <4>1, <5>2, RecordBlocksType DEF Reservation
      <4> QED
        BY <4>2, <4>3
    <3> QED
      BY <3>1, <3>2
  <2> QED
    BY <1>1, <1>4, <2>1, <2>2, <2>3, GeometryAssumption DEF ReservedSpace, EnsureSpace, TypeOK, HandleTypeOK,
       Checkpoint
<1>10. ReservedSlots' /\ AssertionsHold'
  <2>1. ValidOptions(opts) /\ Cardinality(buffered) <= BufferBlocks(opts)
    BY <1>1 DEF Inductive, ControlInv, InUse
  <2>2. Cardinality(PagesOf(buffered)) <= opts.cap
    <3>1. opts.cap \in Nat /\ BufferBlocks(opts) \in Nat /\ PageCount \in Nat
      BY <1>1, BufferBlocksType, PageCountType DEF TypeOK, HandleTypeOK, Options
    <3>2. opts.cap >= Smaller(BufferBlocks(opts), PageCount)
      BY <2>1 DEF ValidOptions
    <3> QED
      BY <1>8, <2>1, <3>1, <3>2 DEF Smaller
  <2> QED
    BY <1>1, <1>2, <1>3, <1>8, <2>2, {} \cup PagesOf(buffered) = PagesOf(buffered)
    DEF Inductive, ReservedSlots, AssertionsHold, bufVars
<1> QED
  BY <1>5, <1>6, <1>7, <1>9, <1>10 DEF Inductive

\* What a release's preflight leaves for it: log space, and slots unless it goes
\* to publish a checkpoint first (release_records, prepare_release).
LEMMA ReleaseFacts ==
  ASSUME TypeOK, NEW B \in SUBSET Lbas, NEW pages,
         pages = Cardinality(PagesOf(B))
  PROVE  /\ RecordBlocks(Cardinality(B)) \in Nat /\ pages \in Nat
         /\ Cardinality(dirty) \in Nat
         /\ Cardinality(dirty \cup PagesOf(B)) \in Nat
         /\ RecordBlocks(Cardinality(B)) + Cardinality(dirty \cup PagesOf(B))
              <= Reservation(Cardinality(B), pages, Cardinality(dirty))
         /\ Reservation(Cardinality(B), pages, Cardinality(dirty)) \in Nat
         /\ ~NeedsCheckpoint(B, pages) => Cardinality(dirty \cup PagesOf(B)) <= opts.cap
<1>1. /\ Cardinality(B) \in Nat /\ PagesOf(B) \in SUBSET Pages /\ dirty \in SUBSET Pages
      /\ opts.cap \in Nat
  BY LbasFinite, PagesOfType DEF TypeOK, HandleTypeOK, Options
<1>2. /\ IsFiniteSet(dirty) /\ IsFiniteSet(PagesOf(B)) /\ IsFiniteSet(dirty \ PagesOf(B))
      /\ Cardinality(dirty) \in Nat /\ pages \in Nat
      /\ Cardinality(dirty \ PagesOf(B)) \in Nat
  BY <1>1, PagesFinite
<1>3. /\ Cardinality(dirty \cup PagesOf(B)) <= Cardinality(dirty) + Cardinality(PagesOf(B))
      /\ Cardinality(dirty \cup PagesOf(B))
           = Cardinality(dirty \ PagesOf(B)) + Cardinality(PagesOf(B))
      /\ Cardinality(dirty \cup PagesOf(B)) \in Nat
  BY <1>2, CardinalityUnion
<1>4. RecordBlocks(Cardinality(B)) \in Nat
  BY <1>1, RecordBlocksType
<1>5. ~NeedsCheckpoint(B, pages) => ~(Cardinality(dirty \ PagesOf(B)) + pages > opts.cap)
  BY DEF NeedsCheckpoint
<1> QED
  BY <1>1, <1>2, <1>3, <1>4, <1>5 DEF Reservation

\* A call that begins to release the non-empty buffer B it leaves behind keeps the
\* invariant, given log space for the records of B and all its pages.
LEMMA ReleaseStep ==
  ASSUME Inductive, pc = "up",
         NEW call \in {"write", "flush", "close"},
         buffered' \in SUBSET Lbas, buffered' # {}, buffer' \in Image,
         Cardinality(buffered') <= BufferBlocks(opts),
         bufPages' = Cardinality(PagesOf(buffered')),
         EnsureSpace(tail.bound,
                     Reservation(Cardinality(buffered'), bufPages', Cardinality(dirty))),
         Release(call, buffered', bufPages'),
         UNCHANGED <<desc, body, log, stable, opts, rootVars, tail, cacheVars, readVars,
                     live, recoveryVars, lastOpen, faults>>
  PROVE  Inductive'
<1>1. /\ pc' \in {"prepare", "release"} /\ op' = call /\ todo' = buffered'
      /\ pc' = "release" => ~NeedsCheckpoint(buffered', bufPages')
  BY DEF Release
<1>2. TypeOK
  BY DEF Inductive
<1> DEFINE B == buffered'
<1>3. /\ RecordBlocks(Cardinality(B)) \in Nat /\ bufPages' \in Nat
      /\ Cardinality(dirty) \in Nat
      /\ Cardinality(dirty \cup PagesOf(B)) \in Nat
      /\ RecordBlocks(Cardinality(B)) + Cardinality(dirty \cup PagesOf(B))
           <= Reservation(Cardinality(B), bufPages', Cardinality(dirty))
      /\ Reservation(Cardinality(B), bufPages', Cardinality(dirty)) \in Nat
      /\ ~NeedsCheckpoint(B, bufPages') => Cardinality(dirty \cup PagesOf(B)) <= opts.cap
  BY <1>2, ReleaseFacts
<1>4. TypeOK'
  BY <1>1, <1>2, <1>3 DEF TypeOK, DiskTypeOK, HandleTypeOK, rootVars, cacheVars, readVars,
     recoveryVars
<1>5. ControlInv'
  BY <1>1 DEF Inductive, ControlInv, InUse, Opening, Recovering, Publishing, cacheVars,
     recoveryVars
<1>6. SnapshotsInPlace'
  BY <1>1 DEF Inductive, SnapshotsInPlace, PointersValid, InUse, Publishing, rootVars
<1>7. ReservedSpace'
  <2>1. /\ Frontier' = tail.bound /\ dirty' = dirty
        /\ pc' = "prepare" => Owed' = Reservation(Cardinality(B), bufPages', Cardinality(dirty))
        /\ pc' = "release" => Owed' = RecordBlocks(Cardinality(B))
                                        + Cardinality(dirty \cup PagesOf(B))
    BY <1>1 DEF Frontier, Owed, Publishing, cacheVars
  <2> QED
    BY <1>1, <1>2, <1>3, <2>1, GeometryAssumption DEF ReservedSpace, EnsureSpace, TypeOK,
       HandleTypeOK, Position
<1>8. ReservedSlots' /\ AssertionsHold'
  BY <1>1, <1>3 DEF ReservedSlots, AssertionsHold, cacheVars
<1> QED
  BY <1>4, <1>5, <1>6, <1>7, <1>8 DEF Inductive

\* The reservation of an idle handle.
LEMMA UpSpace ==
  ASSUME Inductive, pc = "up"
  PROVE  EnsureSpace(tail.bound,
                     Reservation(Cardinality(buffered), bufPages, Cardinality(dirty)))
  BY DEF Inductive, ReservedSpace, InUse, Frontier, Owed, Publishing

\* The page count that admission keeps is the number of pages of the buffer.
LEMMA AdmitPagesExact ==
  ASSUME Inductive, NEW l \in Lbas
  PROVE  AdmitPages(l) = Cardinality(PagesOf(buffered \cup {l}))
<1>1. PagesOf(buffered \cup {l}) = PagesOf(buffered) \cup {PageOf(l)}
  BY DEF PagesOf
<1>2. IsFiniteSet(PagesOf(buffered)) /\ Cardinality(PagesOf(buffered)) \in Nat
  BY PagesOfType, PagesFinite DEF Inductive, TypeOK, HandleTypeOK
<1>3. bufPages = Cardinality(PagesOf(buffered))
  BY DEF Inductive, ReservedSlots
<1>4. Cardinality(PagesOf(buffered) \cup {PageOf(l)})
        = IF PageOf(l) \in PagesOf(buffered) THEN Cardinality(PagesOf(buffered))
                                             ELSE Cardinality(PagesOf(buffered)) + 1
  BY <1>2, FS_AddElement
<1>5. CASE PageOf(l) \in PagesOf(buffered)
  BY <1>1, <1>2, <1>3, <1>4, <1>5, bufPages + 0 = bufPages DEF AdmitPages
<1>6. CASE PageOf(l) \notin PagesOf(buffered)
  BY <1>1, <1>2, <1>3, <1>4, <1>6 DEF AdmitPages
<1> QED
  BY <1>5, <1>6

\* write_block of a new logical block.
LEMMA WriteStep ==
  ASSUME Inductive, NEW l \in Lbas, NEW v \in Values, Write(l, v)
  PROVE  Inductive'
<1> DEFINE same == UNCHANGED <<desc, body, log, stable, opts, rootVars, tail, cacheVars,
                               readVars, live, recoveryVars, lastOpen, faults>>
<1>1. /\ pc = "up" /\ same /\ TypeOK /\ l \notin buffered
      /\ buffered' = buffered \cup {l} /\ buffer' = [buffer EXCEPT ![l] = v]
      /\ bufPages' = AdmitPages(l) /\ Admitted(l)
  BY DEF Write, Inductive, disk
<1>2. bufPages' = Cardinality(PagesOf(buffered'))
  BY <1>1, AdmitPagesExact
<1>3. buffered' \in SUBSET Lbas /\ buffer' \in Image /\ buffered' # {}
  BY <1>1 DEF TypeOK, HandleTypeOK, Image
<1>4. Cardinality(buffered') = Cardinality(buffered) + 1 /\ Cardinality(buffered) \in Nat
  BY <1>1, LbasFinite, FS_AddElement DEF TypeOK, HandleTypeOK
<1>5. /\ Cardinality(buffered) < BufferBlocks(opts) /\ BufferBlocks(opts) \in Nat
      /\ Cardinality(buffered') <= BufferBlocks(opts)
  BY <1>1, <1>4, BufferBlocksType DEF Inductive, ControlInv, TypeOK, HandleTypeOK
<1>6. EnsureSpace(tail.bound,
                  Reservation(Cardinality(buffered'), bufPages', Cardinality(dirty)))
  BY <1>1, <1>4 DEF Admitted
<1>7. CASE Cardinality(buffered') = BufferBlocks(opts)
  <2>1. Release("write", buffered', bufPages')
    BY <1>7 DEF Write
  <2> QED
    BY <1>1, <1>2, <1>3, <1>5, <1>6, <2>1, ReleaseStep
<1>8. CASE Cardinality(buffered') # BufferBlocks(opts)
  <2>1. UNCHANGED <<pc, op, todo>>
    BY <1>8 DEF Write
  <2>2. bufPages' \in Nat
    BY <1>2, <1>3, PagesOfType, PagesFinite
  <2>3. TypeOK'
    BY <1>1, <1>3, <2>1, <2>2 DEF TypeOK, DiskTypeOK, HandleTypeOK, rootVars, cacheVars,
       readVars, recoveryVars
  <2>4. ControlInv'
    BY <1>1, <1>4, <1>5, <1>8, <2>1 DEF Inductive, ControlInv, InUse, Opening, Recovering,
       Publishing, cacheVars, recoveryVars
  <2>5. SnapshotsInPlace'
    BY <1>1, <2>1 DEF Inductive, SnapshotsInPlace, PointersValid, InUse, Publishing, rootVars
  <2>6. ReservedSpace'
    BY <1>1, <1>6, <2>1 DEF ReservedSpace, Frontier, Owed, Publishing, cacheVars
  <2>7. ReservedSlots' /\ AssertionsHold'
    BY <1>1, <1>2, <2>1 DEF ReservedSlots, AssertionsHold
  <2> QED
    BY <2>3, <2>4, <2>5, <2>6, <2>7 DEF Inductive
<1> QED
  BY <1>7, <1>8

\* write_block of a buffered logical block changes its payload only.
LEMMA OverwriteStep ==
  ASSUME Inductive, NEW l \in Lbas, NEW v \in Values, Overwrite(l, v)
  PROVE  Inductive'
<1> DEFINE same == UNCHANGED <<desc, body, log, stable, pc, op, opts, rootVars, tail,
                               cacheVars, buffered, bufPages, todo, readVars, live,
                               recoveryVars, lastOpen, faults>>
<1>1. same /\ buffer' = [buffer EXCEPT ![l] = v]
  BY DEF Overwrite, disk
<1>2. TypeOK'
  BY <1>1 DEF Inductive, TypeOK, DiskTypeOK, HandleTypeOK, Image, rootVars, cacheVars,
     readVars, recoveryVars
<1>3. ControlInv' /\ SnapshotsInPlace'
  BY <1>1 DEF Inductive, ControlInv, SnapshotsInPlace, PointersValid, InUse, Opening,
     rootVars, cacheVars, recoveryVars
<1>4. ReservedSpace' /\ ReservedSlots' /\ AssertionsHold'
  BY <1>1 DEF Inductive, ReservedSpace, Frontier, Owed, InUse, ReservedSlots,
     AssertionsHold, rootVars, cacheVars, recoveryVars
<1> QED
  BY <1>2, <1>3, <1>4 DEF Inductive

\* flush and close begin: with an empty buffer they go on at once, otherwise they
\* release it.
LEMMA FlushCloseStep ==
  ASSUME Inductive, Flush \/ Close
  PROVE  Inductive'
<1> DEFINE same == UNCHANGED <<desc, body, log, stable, opts, rootVars, tail, cacheVars,
                               buffered, buffer, bufPages, readVars, live, recoveryVars,
                               lastOpen, faults>>
<1>1. pc = "up" /\ same /\ TypeOK
  BY DEF Flush, Close, Inductive, disk
<1>2. CASE buffered # {}
  <2>1. PICK call \in {"write", "flush", "close"} : Release(call, buffered', bufPages')
    BY <1>1, <1>2 DEF Flush, Close
  <2>2. /\ buffered' \in SUBSET Lbas /\ buffered' # {} /\ buffer' \in Image
        /\ Cardinality(buffered') <= BufferBlocks(opts)
        /\ bufPages' = Cardinality(PagesOf(buffered'))
    BY <1>1, <1>2 DEF TypeOK, HandleTypeOK, Inductive, ControlInv, ReservedSlots, InUse
  <2>3. EnsureSpace(tail.bound,
                    Reservation(Cardinality(buffered'), bufPages', Cardinality(dirty)))
    BY <1>1, UpSpace
  <2> QED
    BY <1>1, <2>1, <2>2, <2>3, ReleaseStep
<1>3. CASE buffered = {}
  <2>1. pc' \in {"flushsync", "closing"} /\ op' \in {"flush", "close"} /\ todo' = todo
    BY <1>3 DEF Flush, Close
  <2>2. TypeOK'
    BY <1>1, <2>1 DEF TypeOK, DiskTypeOK, HandleTypeOK, rootVars, cacheVars, readVars,
       recoveryVars
  <2>3. ControlInv'
    BY <1>1, <1>3, <2>1 DEF Inductive, ControlInv, InUse, Opening, Recovering, Publishing,
       cacheVars, recoveryVars
  <2>4. SnapshotsInPlace'
    BY <1>1, <2>1 DEF Inductive, SnapshotsInPlace, PointersValid, InUse, Publishing, rootVars
  <2>5. ReservedSpace'
    BY <1>1, <2>1, UpSpace DEF ReservedSpace, Frontier, Owed, Publishing, cacheVars
  <2>6. ReservedSlots' /\ AssertionsHold'
    BY <1>1, <2>1 DEF Inductive, ReservedSlots, AssertionsHold
  <2> QED
    BY <2>2, <2>3, <2>4, <2>5, <2>6 DEF Inductive
<1> QED
  BY <1>2, <1>3

\* The reservation pays for the next record of a release, so the assertions of
\* write_record hold, and the rest of the buffer stays paid for.
LEMMA RecordFacts ==
  ASSUME Inductive, pc = "release", NEW rec \in SUBSET todo,
         Lowest(rec, MaxPayload, todo)
  PROVE  /\ RecordFits(rec)
         /\ Cardinality(rec) \in Nat
         /\ RecordBlocks(Cardinality(todo))
              = Cardinality(rec) + 1 + RecordBlocks(Cardinality(todo \ rec))
         /\ RecordBlocks(Cardinality(todo \ rec)) \in Nat
         /\ PagesOf(rec) \in SUBSET PagesOf(buffered)
         /\ PagesOf(buffered) \in SUBSET Pages
         /\ Cardinality(dirty \cup PagesOf(buffered)) \in Nat
         /\ Cardinality(dirty \cup PagesOf(buffered)) <= opts.cap
         /\ Cardinality(dirty \cup PagesOf(rec)) \in Nat
         /\ Cardinality(dirty \cup PagesOf(rec)) <= Cardinality(dirty \cup PagesOf(buffered))
         /\ tail.bound \in Nat /\ tail.lsn \in Nat /\ tail.bound < BackingBlocks
         /\ RecordBlocks(Cardinality(todo)) + Cardinality(dirty \cup PagesOf(buffered))
              <= BackingBlocks - (tail.bound + 1)
<1> DEFINE all == dirty \cup PagesOf(buffered)
<1>1. /\ TypeOK /\ todo \in SUBSET Lbas /\ rec \in SUBSET Lbas
      /\ todo \subseteq buffered /\ buffered \in SUBSET Lbas /\ todo # {}
  BY DEF Inductive, TypeOK, HandleTypeOK, ControlInv
<1>2. /\ Cardinality(rec) \in Nat /\ Cardinality(todo) \in Nat \ {0}
      /\ Cardinality(rec) = Smaller(MaxPayload, Cardinality(todo))
      /\ Cardinality(todo \ rec) = Cardinality(todo) - Cardinality(rec)
      /\ Cardinality(todo \ rec) \in Nat
  <2>1. IsFiniteSet(todo) /\ Cardinality(todo) \in Nat
    BY <1>1, LbasFinite
  <2>2. Cardinality(todo) # 0
    BY <1>1, <2>1, FS_EmptySet
  <2> QED
    BY <1>1, <2>1, <2>2, LowestFacts, CardinalityMinus, GeometryAssumption
<1>3. /\ RecordBlocks(Cardinality(todo))
           = Cardinality(rec) + 1 + RecordBlocks(Cardinality(todo \ rec))
      /\ RecordBlocks(Cardinality(todo \ rec)) \in Nat
  BY <1>2, RecordBlocksStep, RecordBlocksType
<1>4. /\ PagesOf(rec) \in SUBSET PagesOf(buffered) /\ PagesOf(buffered) \in SUBSET Pages
      /\ dirty \in SUBSET Pages /\ all \in SUBSET Pages
  BY <1>1, PagesOfType DEF PagesOf, TypeOK, HandleTypeOK
<1>5. /\ Cardinality(all) \in Nat /\ IsFiniteSet(all) /\ Cardinality(all) <= opts.cap
      /\ opts.cap \in Nat
      /\ Cardinality(dirty \cup PagesOf(rec)) \in Nat
      /\ Cardinality(dirty \cup PagesOf(rec)) <= Cardinality(all)
  <2>1. dirty \cup PagesOf(rec) \in SUBSET all
    BY <1>4
  <2>2. Cardinality(all) \in Nat /\ IsFiniteSet(all)
    BY <1>4, PagesFinite
  <2>3. Cardinality(all) <= opts.cap /\ opts.cap \in Nat
    BY <1>1 DEF Inductive, ReservedSlots, TypeOK, HandleTypeOK, Options
  <2> QED
    BY <2>1, <2>2, <2>3, FS_Subset, FS_CardinalityType
<1>6. /\ tail.bound \in Nat /\ tail.lsn \in Nat
      /\ tail.bound < BackingBlocks
      /\ RecordBlocks(Cardinality(todo)) + Cardinality(all) <= BackingBlocks - (tail.bound + 1)
  BY <1>1 DEF Inductive, ReservedSpace, EnsureSpace, InUse, Frontier, Owed, Publishing,
     TypeOK, HandleTypeOK, Position
<1>7. RecordFits(rec)
  BY <1>2, <1>3, <1>5, <1>6, GeometryAssumption DEF RecordFits
<1> QED
  BY <1>2, <1>3, <1>4, <1>5, <1>6, <1>7

\* One record of a release: the pages of the whole buffer still fit the cache after
\* it, and what is left of the reservation covers the records that are left.
LEMMA AppendRecordStep ==
  ASSUME Inductive, pc = "release", NEW rec \in SUBSET todo,
         Lowest(rec, MaxPayload, todo), AppendRecord(rec)
  PROVE  Inductive'
<1> DEFINE same == UNCHANGED <<desc, body, stable, opts, rootVars, want, recoveryVars,
                               lastOpen, faults>>
<1> DEFINE all == dirty \cup PagesOf(buffered)
<1>1. /\ TypeOK /\ same /\ todo \in SUBSET Lbas /\ rec \in SUBSET Lbas
      /\ todo \subseteq buffered /\ buffered \in SUBSET Lbas /\ todo # {}
      /\ log' = WithRecord(rec) /\ dirty' = dirty \cup PagesOf(rec)
      /\ todo' = todo \ rec /\ lastRead' = NoPage
      /\ tail' = At(tail.lsn + 1, tail.bound + Cardinality(rec) + 1)
      /\ live' = live + Cardinality({l \in rec : MappedEntry(l).phys = 0})
      /\ op \in {"write", "flush", "close"}
  BY DEF Inductive, TypeOK, HandleTypeOK, ControlInv, AppendRecord
<1>2. /\ todo' # {} => UNCHANGED <<pc, op, buffered, buffer, bufPages>>
      /\ todo' = {} => /\ pc' \in {"flushsync", "closing", "up"}
                       /\ op' \in {"none", "flush", "close"}
                       /\ pc' = "up" => op' = "none"
                       /\ pc' = "flushsync" => op' = "flush"
                       /\ pc' = "closing" => op' = "close"
                       /\ buffered' = {} /\ buffer' = ZeroImage /\ bufPages' = 0
  BY <1>1 DEF AppendRecord, AfterRelease
<1>3. /\ RecordFits(rec) /\ Cardinality(rec) \in Nat
      /\ RecordBlocks(Cardinality(todo))
           = Cardinality(rec) + 1 + RecordBlocks(Cardinality(todo \ rec))
      /\ RecordBlocks(Cardinality(todo \ rec)) \in Nat
      /\ PagesOf(rec) \in SUBSET PagesOf(buffered) /\ PagesOf(buffered) \in SUBSET Pages
      /\ Cardinality(all) \in Nat /\ Cardinality(all) <= opts.cap
      /\ Cardinality(dirty \cup PagesOf(rec)) \in Nat
      /\ Cardinality(dirty \cup PagesOf(rec)) <= Cardinality(all)
      /\ tail.bound \in Nat /\ tail.lsn \in Nat /\ tail.bound < BackingBlocks
      /\ RecordBlocks(Cardinality(todo)) + Cardinality(all)
           <= BackingBlocks - (tail.bound + 1)
  BY RecordFacts
<1>4. dirty \in SUBSET Pages
  BY <1>1 DEF TypeOK, HandleTypeOK
<1>5. tail' \in Position /\ tail'.bound = tail.bound + Cardinality(rec) + 1
  BY <1>1, <1>3 DEF At, Position
<1>6. PointersValid(ckpt) /\ LogStart <= ckpt.bound + 1 /\ ckpt.bound <= tail.bound
  BY DEF Inductive, SnapshotsInPlace, InUse
<1>7. TypeOK'
  <2>1. DiskTypeOK'
    BY <1>1, WithRecordType DEF TypeOK, DiskTypeOK
  <2>2. resident' \in SUBSET Pages /\ cached' \in Entries
    <3>1. \A l \in Lbas : MappedEntry(l) \in Entry
      BY <1>1, <1>6, MappedEntryType
    <3>2. \A l \in rec : RecordEntry(l, rec, tail.bound + 1) \in Entry
      BY <1>1, <1>3, RecordEntryType
    <3> QED
      BY <3>1, <3>2, UnmappedType DEF AppendRecord, Entries
  <2>3. live' \in Nat
    <3>1. {l \in rec : MappedEntry(l).phys = 0} \in SUBSET Lbas
      BY <1>1
    <3>2. Cardinality({l \in rec : MappedEntry(l).phys = 0}) \in Nat
      BY <3>1, LbasFinite
    <3> QED
      BY <1>1, <3>2 DEF TypeOK, HandleTypeOK
  <2>4. /\ buffered' \in SUBSET Lbas /\ buffer' \in Image /\ bufPages' \in Nat
        /\ pc' \in Idle \cup {"release", "flushsync", "closing"}
        /\ op' \in {"none", "write", "flush", "close"}
    BY <1>1, <1>2, ValuesAssumption DEF TypeOK, HandleTypeOK, ZeroImage, Image, Idle
  <2>5. dirty' \in SUBSET Pages /\ todo' \in SUBSET Lbas /\ lastRead' \in Pages \cup {NoPage}
    BY <1>1, <1>3, <1>4
  <2> QED
    BY <1>1, <1>5, <2>1, <2>2, <2>3, <2>4, <2>5 DEF TypeOK, HandleTypeOK, rootVars,
       recoveryVars
<1>8. ControlInv'
  <2>1. CASE todo' # {}
    BY <1>1, <1>2, <2>1 DEF Inductive, ControlInv, InUse, Opening, Recovering, Publishing,
       recoveryVars
  <2>2. CASE todo' = {}
    <3>1. ValidOptions(opts)' /\ Cardinality(buffered') = 0 /\ BufferBlocks(opts') \in Nat \ {0}
      BY <1>1, <1>2, <2>2, FS_EmptySet, BufferBlocksType DEF Inductive, ControlInv, InUse,
         TypeOK, HandleTypeOK
    <3> QED
      BY <1>1, <1>2, <2>2, <3>1 DEF ControlInv, InUse, Opening, Recovering, Publishing
  <2> QED
    BY <2>1, <2>2
<1>9. SnapshotsInPlace'
  <2>1. \A a \in Addr : a <= tail.bound => log'[a] = log[a]
    BY <1>1, WithRecordBelow
  <2>2. ckpt.index \in Index /\ ckpt.bound \in Nat
    BY <1>1 DEF TypeOK, HandleTypeOK, Checkpoint
  <2>3. PointersValid(ckpt)'
    BY <1>1, <1>3, <1>6, <2>1, <2>2, GeometryAssumption DEF PointersValid, Addr, Index, rootVars
  <2>4. pc' \notin Publishing /\ pc' # "replay"
    BY <1>2 DEF Publishing
  <2> QED
    BY <1>1, <1>3, <1>5, <1>6, <2>2, <2>3, <2>4 DEF SnapshotsInPlace, rootVars
<1>10. ReservedSlots' /\ ReservedSpace'
  <2>1. Frontier' = tail.bound + Cardinality(rec) + 1
    BY <1>2, <1>5 DEF Frontier, Publishing
  <2>2. CASE todo' # {}
    <3>1. dirty' \cup PagesOf(buffered') = all
      BY <1>1, <1>2, <1>3, <1>4, <2>2
    <3>2. Owed' = RecordBlocks(Cardinality(todo \ rec)) + Cardinality(all)
      BY <1>1, <1>2, <2>2, <3>1 DEF Owed, Publishing
    <3>3. ReservedSlots'
      BY <1>1, <1>2, <1>3, <2>2, <3>1 DEF Inductive, ReservedSlots
    <3> HIDE DEF all
    <3> QED
      BY <1>3, <2>1, <3>2, <3>3, GeometryAssumption
      DEF ReservedSpace, EnsureSpace
  <2>3. CASE todo' = {}
    <3>1. PagesOf(buffered') = {} /\ Cardinality(buffered') = 0 /\ Cardinality({}) = 0
      BY <1>2, <2>3, FS_EmptySet DEF PagesOf
    <3>2. Owed' = Reservation(0, 0, Cardinality(dirty'))
      BY <1>2, <2>3, <3>1 DEF Owed, Publishing
    <3>3. Owed' = Cardinality(dirty \cup PagesOf(rec))
      BY <1>1, <1>3, <3>2, NoRecordBlocks DEF Reservation
    <3>4. ReservedSlots'
      BY <1>2, <2>3, <3>1 DEF ReservedSlots
    <3> HIDE DEF all
    <3> QED
      BY <1>3, <2>1, <3>3, <3>4, GeometryAssumption
      DEF ReservedSpace, EnsureSpace
  <2> QED
    BY <2>2, <2>3
<1>11. AssertionsHold'
  BY <1>2 DEF AssertionsHold
<1> QED
  BY <1>7, <1>8, <1>9, <1>10, <1>11 DEF Inductive

LEMMA WriteRecordStep ==
  ASSUME Inductive, WriteRecord
  PROVE  Inductive'
<1> PICK rec \in SUBSET todo : /\ Lowest(rec, MaxPayload, todo)
                               /\ IF RecordFits(rec) THEN AppendRecord(rec) ELSE Panic
  BY DEF WriteRecord
<1> QED
  BY RecordFacts, AppendRecordStep DEF WriteRecord

\* A step between two phases in which nothing is being appended, that keeps the
\* tail, the root, the dirty pages and the buffer, keeps the reservations.
LEMMA QuietStep ==
  ASSUME Inductive, TypeOK', ControlInv', PointersValid(ckpt)',
         pc \in {"up", "prepare", "fetch", "flushsync", "closing", "closesync",
                 "clear", "clearsync"},
         pc' \in {"up", "prepare", "fetch", "flushsync", "closing", "closesync",
                  "clear", "clearsync"},
         UNCHANGED <<tail, ckpt, dirty, buffered, bufPages>>
  PROVE  Inductive'
<1>1. SnapshotsInPlace'
  BY DEF Inductive, SnapshotsInPlace, InUse, Publishing
<1>2. ReservedSpace'
  BY DEF Inductive, ReservedSpace, Frontier, Owed, InUse, Publishing
<1>3. ReservedSlots' /\ AssertionsHold'
  BY DEF Inductive, ReservedSlots, AssertionsHold
<1> QED
  BY <1>1, <1>2, <1>3 DEF Inductive

\* Installing a page and those read ahead keeps the cache typed.
LEMMA InstallType ==
  ASSUME Inductive, InUse, NEW p \in Pages, NEW sequential, Install(p, sequential)
  PROVE  resident' \in SUBSET Pages /\ cached' \in Entries /\ dirty' = dirty
<1>1. \A l \in Lbas : MappedEntry(l) \in Entry
  BY MappedEntryType DEF Inductive, SnapshotsInPlace
<1> QED
  BY <1>1, UnmappedType DEF Install, Entries

LEMMA ReadStep ==
  ASSUME Inductive, NEW p \in Pages, Read(p)
  PROVE  Inductive'
<1> DEFINE same == UNCHANGED <<desc, body, log, stable, opts, rootVars, tail, bufVars, live,
                               recoveryVars, lastOpen, faults>>
<1>1. pc = "up" /\ same /\ lastRead' = p
  BY DEF Read, disk
<1>2. resident' \in SUBSET Pages /\ cached' \in Entries /\ dirty' = dirty
  BY InstallType DEF Read, InUse, cacheVars, Inductive, TypeOK, HandleTypeOK
<1>3. \/ pc' = "up" /\ op' = op /\ want' = want
      \/ pc' = "prepare" /\ op' = "read" /\ want' \in [page : Pages, seq : BOOLEAN]
  <2>1. [page |-> p, seq |-> lastRead + 1 = p] \in [page : Pages, seq : BOOLEAN]
    BY Zenon
  <2> QED
    BY <1>1, <2>1 DEF Read
<1>4. TypeOK'
  BY <1>1, <1>2, <1>3 DEF Inductive, TypeOK, DiskTypeOK, HandleTypeOK, rootVars, bufVars,
     recoveryVars
<1>5. ControlInv'
  BY <1>1, <1>2, <1>3 DEF Inductive, ControlInv, InUse, Opening, Recovering, Publishing,
     bufVars, recoveryVars
<1>6. PointersValid(ckpt)'
  BY <1>1 DEF Inductive, SnapshotsInPlace, InUse, PointersValid, rootVars
<1> QED
  BY <1>1, <1>2, <1>3, <1>4, <1>5, <1>6, QuietStep DEF rootVars, bufVars

LEMMA FetchStep ==
  ASSUME Inductive, Fetch
  PROVE  Inductive'
<1> DEFINE same == UNCHANGED <<desc, body, log, stable, opts, rootVars, tail, bufVars,
                               lastRead, live, recoveryVars, lastOpen, faults>>
<1>1. pc = "fetch" /\ pc' = "up" /\ op' = "none" /\ same /\ want' = NoWant
  BY DEF Fetch, disk
<1>2. want.page \in Pages /\ NoWant \in [page : Pages, seq : BOOLEAN]
  BY PageCountType DEF Inductive, TypeOK, HandleTypeOK, NoWant, Pages
<1>3. resident' \in SUBSET Pages /\ cached' \in Entries /\ dirty' = dirty
  BY <1>1, <1>2, InstallType DEF Fetch, InUse
<1>4. TypeOK'
  BY <1>1, <1>2, <1>3 DEF Inductive, TypeOK, DiskTypeOK, HandleTypeOK, Idle, rootVars, bufVars,
     recoveryVars
<1>5. ControlInv'
  BY <1>1, <1>3 DEF Inductive, ControlInv, InUse, Opening, Recovering, Publishing,
     bufVars, recoveryVars
<1>6. PointersValid(ckpt)'
  BY <1>1 DEF Inductive, SnapshotsInPlace, InUse, PointersValid, rootVars
<1> QED
  BY <1>1, <1>3, <1>4, <1>5, <1>6, QuietStep DEF rootVars, bufVars

\* The fsync of a flush, the choice that close makes after its release, and the
\* end of an open.
LEMMA SettleStep ==
  ASSUME Inductive, FlushSync \/ ClosePublish \/ ClearEnds \/ ClearSync
  PROVE  Inductive'
<1> DEFINE same == UNCHANGED <<desc, body, log, opts, rootVars, tail, cacheVars, bufVars,
                               readVars, live, marked, window, lastOpen, faults>>
<1>1. /\ same
      /\ \/ pc = "flushsync" /\ pc' = "up" /\ op' = "none"
         \/ pc = "closing" /\ pc' \in {"closesync", "prepare"} /\ op' = "closing"
         \/ pc = "clear" /\ pc' = "clearsync" /\ op' = op
         \/ pc = "clearsync" /\ pc' = "up" /\ op' = "none"
      /\ cursor' \in {cursor, OriginTail}
      /\ pc' # "clear"
  BY DEF FlushSync, ClosePublish, ClearEnds, ClearSync, disk, recoveryVars
<1>2. DiskTypeOK'
  BY <1>1, SyncType DEF Inductive, TypeOK, DiskTypeOK, FlushSync, ClosePublish, ClearEnds,
     ClearSync
<1>3. OriginTail \in Position
  BY GeometryAssumption DEF OriginTail, At, Position
<1>4. TypeOK'
  BY <1>1, <1>2, <1>3 DEF Inductive, TypeOK, HandleTypeOK, Idle, Recovering, rootVars,
     cacheVars, bufVars, readVars
<1>5. ControlInv'
  <2>1. buffered = {} /\ Cardinality(buffered) = 0
    BY <1>1, FS_EmptySet DEF Inductive, ControlInv, Opening, Recovering
  <2>2. BufferBlocks(opts) \in Nat \ {0}
    BY BufferBlocksType DEF Inductive, TypeOK, HandleTypeOK
  <2> QED
    BY <1>1, <2>1, <2>2 DEF Inductive, ControlInv, InUse, Opening, Recovering, Publishing,
       bufVars, cacheVars
<1>6. PointersValid(ckpt)'
  BY <1>1 DEF Inductive, SnapshotsInPlace, InUse, PointersValid, rootVars
<1> QED
  BY <1>1, <1>4, <1>5, <1>6, QuietStep DEF rootVars, bufVars, cacheVars

\* clear_stale_tail zeroes blocks after the tail only.
LEMMA ClearBlockStep ==
  ASSUME Inductive, ClearBlock
  PROVE  Inductive'
<1> DEFINE same == UNCHANGED <<desc, body, stable, pc, op, opts, rootVars, tail, cacheVars,
                               bufVars, readVars, live, marked, window, lastOpen, faults>>
<1>1. /\ pc = "clear" /\ same /\ TypeOK
      /\ log' = [log EXCEPT ![cursor.bound + 1] = Blank]
      /\ cursor' = At(cursor.lsn, cursor.bound + 1)
  BY DEF ClearBlock, Inductive
<1>2. /\ cursor.bound \in Nat /\ cursor.lsn \in Nat /\ tail.bound \in Nat
      /\ ckpt.bound \in Nat /\ ckpt.index \in Index
      /\ cursor.bound >= tail.bound
  BY <1>1 DEF TypeOK, HandleTypeOK, Position, Checkpoint, Inductive, ControlInv
<1>3. PointersValid(ckpt) /\ ckpt.bound <= tail.bound
  BY <1>1 DEF Inductive, SnapshotsInPlace, InUse
<1>4. TypeOK'
  <2>1. log' \in [Addr -> Block]
    BY <1>1 DEF TypeOK, DiskTypeOK, Block
  <2>2. cursor' \in Position
    BY <1>1, <1>2 DEF At, Position
  <2> QED
    BY <1>1, <2>1, <2>2 DEF TypeOK, DiskTypeOK, HandleTypeOK, rootVars, cacheVars, bufVars,
       readVars
<1>5. ControlInv'
  BY <1>1, <1>2 DEF Inductive, ControlInv, InUse, Opening, Recovering, Publishing, At,
     bufVars, cacheVars, rootVars
<1>6. PointersValid(ckpt)'
  <2>1. \A a \in Addr : a <= tail.bound => log'[a] = log[a]
    BY <1>1, <1>2, GeometryAssumption DEF TypeOK, DiskTypeOK, Addr
  <2> QED
    BY <1>1, <1>2, <1>3, <2>1, GeometryAssumption DEF PointersValid, Addr, Index, rootVars
<1> QED
  BY <1>1, <1>4, <1>5, <1>6, QuietStep DEF rootVars, bufVars, cacheVars

\* Dropping a latched handle.
LEMMA DropStep ==
  ASSUME Inductive, Drop
  PROVE  Inductive'
<1> DEFINE same == UNCHANGED <<desc, body, log, stable, op, opts, rootVars, tail, cacheVars,
                               bufVars, readVars, live, recoveryVars, lastOpen, faults>>
<1>1. pc = "failed" /\ pc' = "down" /\ same
  BY DEF Drop, disk
<1>2. TypeOK'
  BY <1>1 DEF Inductive, TypeOK, DiskTypeOK, HandleTypeOK, Idle, rootVars, cacheVars,
     bufVars, readVars, recoveryVars
<1>3. ControlInv'
  BY <1>1 DEF Inductive, ControlInv, InUse, Opening, Recovering, Publishing, cacheVars,
     bufVars, recoveryVars
<1>4. SnapshotsInPlace' /\ ReservedSpace' /\ ReservedSlots' /\ AssertionsHold'
  BY <1>1 DEF Inductive, SnapshotsInPlace, ReservedSpace, ReservedSlots, AssertionsHold,
     InUse, Publishing, bufVars
<1> QED
  BY <1>2, <1>3, <1>4 DEF Inductive

\* open selects a root that load_candidate accepts, so its pointers are valid and
\* its boundary lies in the log.
LEMMA OpenStep ==
  ASSUME Inductive, NEW o \in OpenOptions, Open(o)
  PROVE  Inductive'
<1>1. CASE \E why \in {"invalid", "options", "nospace"} : OpenFails(why)
  BY <1>1, OpenFailsStep
<1>2. CASE ~\E why \in {"invalid", "options", "nospace"} : OpenFails(why)
  <2> DEFINE same == UNCHANGED <<desc, body, log, stable, op, cand, pend, cacheVars, bufVars,
                                 readVars, recoveryVars, faults>>
  <2>1. /\ pc = "down" /\ pc' = "scan" /\ opts' = o /\ lastOpen' = "none" /\ same
        /\ ValidOptions(o) /\ tail' = PositionOf(ckpt') /\ live' = LiveIn(ckpt'.index)
        /\ \E s \in Slot : Selected(s) /\ ckpt' = RootIn(s)
    BY <1>2 DEF Open, disk
  <2>2. PICK s \in Slot : Loadable(s) /\ ckpt' = RootIn(s)
    BY <2>1 DEF Selected
  <2>3. TypeOK /\ buffered = {} /\ todo = {} /\ dirty = {} /\ resident = {}
    BY <2>1 DEF Inductive, ControlInv
  <2>4. desc[s] \in Descriptor /\ ValidDescriptor(desc[s])
    BY <2>2, <2>3 DEF Loadable, ValidDescriptor, TypeOK, DiskTypeOK, NoDescriptor
  <2>5. /\ ckpt' \in Checkpoint /\ ckpt'.bound = desc[s].bound /\ ckpt'.index = desc[s].sum
        /\ ckpt'.bound \in Nat /\ ckpt'.index \in Index
        /\ LogStart <= ckpt'.bound + 1 /\ ckpt'.bound < BackingBlocks
    BY <2>2, <2>4, GeometryAssumption DEF RootIn, Checkpoint, Descriptor, ValidDescriptor
  <2>6. tail' \in Position /\ tail'.bound = ckpt'.bound
    BY <2>1, <2>5 DEF PositionOf, At, Position, Checkpoint
  <2>7. TypeOK'
    <3>1. live' \in Nat
      <4>1. {l \in Lbas : /\ ckpt'.index[PageOf(l)] # 0
                          /\ log[ckpt'.index[PageOf(l)]].ents[l].phys # 0} \in SUBSET Lbas
        OBVIOUS
      <4> QED
        BY <2>1, <4>1, LbasFinite DEF LiveIn
    <3> QED
      BY <2>1, <2>3, <2>5, <2>6, <3>1, EnvironmentAssumption DEF TypeOK, DiskTypeOK,
         HandleTypeOK, Recovering, cacheVars, bufVars, readVars, recoveryVars
  <2>8. ControlInv'
    <3>1. BufferBlocks(opts') \in Nat \ {0} /\ Cardinality({}) = 0
      BY <2>1, BufferBlocksType, EnvironmentAssumption, FS_EmptySet
    <3> QED
      BY <2>1, <2>3, <3>1 DEF ControlInv, InUse, Opening, Recovering, Publishing, cacheVars,
         bufVars
  <2>9. SnapshotsInPlace'
    <3>1. PointersValid(ckpt)'
      BY <2>1, <2>2, <2>5, GeometryAssumption DEF PointersValid, Loadable, DecodesAsPage,
         Addr, Index
    <3> QED
      BY <2>1, <2>5, <2>6, <3>1 DEF SnapshotsInPlace, Publishing
  <2>10. ReservedSpace'
    <3>1. Frontier' = ckpt'.bound /\ Owed' = 0
      BY <2>1, <2>6 DEF Frontier, Owed, Publishing
    <3> QED
      BY <2>5, <3>1, GeometryAssumption DEF ReservedSpace, EnsureSpace
  <2>11. ReservedSlots' /\ AssertionsHold'
    BY <2>1, <2>3 DEF Inductive, ReservedSlots, AssertionsHold, bufVars
  <2> QED
    BY <2>7, <2>8, <2>9, <2>10, <2>11 DEF Inductive
<1> QED
  BY <1>1, <1>2

\* The pages of a data record are pages of the volume.
LEMMA RecordPages ==
  ASSUME NEW ents
  PROVE  /\ MappedLbas(ents) \in SUBSET Lbas
         /\ PagesOf(MappedLbas(ents)) \in SUBSET Pages
  BY PagesOfType DEF MappedLbas

LEMMA ScanRecordStep ==
  ASSUME Inductive, NEW b \in Addr, ScanRecord(b)
  PROVE  Inductive'
<1> DEFINE same == UNCHANGED <<desc, body, log, stable, pc, op, opts, rootVars, cacheVars,
                               bufVars, readVars, live, window, cursor, lastOpen, faults>>
<1>1. /\ pc = "scan" /\ same /\ TypeOK /\ IsNext(tail, b)
      /\ tail' = At(tail.lsn + 1, b) /\ marked' \in SUBSET Pages
  BY RecordPages DEF ScanRecord, Inductive, disk, TypeOK, HandleTypeOK
<1>2. /\ b \in Nat /\ b < BackingBlocks /\ b >= tail.bound + 1 /\ tail.bound \in Nat
      /\ tail.lsn \in Nat
  BY <1>1, GeometryAssumption DEF IsNext, Addr, TypeOK, HandleTypeOK, Position
<1>3. tail' \in Position /\ tail'.bound = b
  BY <1>1, <1>2 DEF At, Position
<1>4. TypeOK'
  BY <1>1, <1>3 DEF TypeOK, DiskTypeOK, HandleTypeOK, rootVars, cacheVars, bufVars, readVars
<1>5. ControlInv'
  BY <1>1 DEF Inductive, ControlInv, InUse, Opening, Recovering, Publishing, cacheVars, bufVars
<1>6. SnapshotsInPlace'
  <2>1. PointersValid(ckpt) /\ LogStart <= ckpt.bound + 1 /\ ckpt.bound <= tail.bound
    BY <1>1 DEF Inductive, SnapshotsInPlace, InUse
  <2>2. ckpt.bound \in Nat
    BY <1>1 DEF TypeOK, HandleTypeOK, Checkpoint
  <2>3. PointersValid(ckpt)' /\ ckpt' = ckpt
    BY <1>1, <2>1 DEF PointersValid, rootVars
  <2> QED
    BY <1>1, <1>2, <1>3, <2>1, <2>2, <2>3 DEF SnapshotsInPlace, Publishing
<1>7. ReservedSpace'
  <2>1. Frontier' = b /\ Owed' = 0
    BY <1>1, <1>3 DEF Frontier, Owed, Publishing
  <2> QED
    BY <1>2, <2>1, GeometryAssumption DEF ReservedSpace, EnsureSpace
<1>8. ReservedSlots' /\ AssertionsHold'
  BY <1>1 DEF Inductive, ReservedSlots, AssertionsHold, bufVars
<1> QED
  BY <1>4, <1>5, <1>6, <1>7, <1>8 DEF Inductive

\* recover asks for a snapshot block for every touched page before it replays.
LEMMA ScanEndStep ==
  ASSUME Inductive, ScanEnd
  PROVE  Inductive'
<1>1. CASE \E why \in {"invalid", "options", "nospace"} : OpenFails(why)
  BY <1>1, OpenFailsStep
<1>2. CASE ~\E why \in {"invalid", "options", "nospace"} : OpenFails(why)
  <2> DEFINE same == UNCHANGED <<desc, body, log, stable, opts, ckpt, pend, tail, cacheVars,
                                 bufVars, readVars, live, marked, lastOpen, faults>>
  <2>1. /\ pc = "scan" /\ same /\ EnsureSpace(tail.bound, Cardinality(marked))
        /\ pc' = IF marked = {} THEN "clear" ELSE "replay"
        /\ cursor' = IF marked = {} THEN tail ELSE PositionOf(ckpt)
        /\ \/ /\ op' = "fast" /\ window' = marked /\ cand' = cand
              /\ Cardinality(marked) <= opts.cap
           \/ /\ op' = "recover" /\ window' \in SUBSET marked /\ cand' = Candidate
              /\ ~(Cardinality(marked) <= opts.cap)
    BY <1>2 DEF ScanEnd, disk
  <2>2. /\ TypeOK /\ buffered = {} /\ dirty = {} /\ todo = {} /\ Cardinality({}) = 0
        /\ bufPages = 0
    BY <2>1, FS_EmptySet, PagesOf({}) = {} DEF Inductive, ControlInv, ReservedSlots, Opening,
       Recovering, PagesOf
  <2>3. Cardinality(marked) \in Nat /\ opts.cap \in Nat
    BY <2>2, PagesFinite DEF TypeOK, HandleTypeOK, Options
  <2>4. marked = {} => op' = "fast"
    BY <2>1, <2>2, <2>3
  <2>5. /\ Candidate \in Checkpoint /\ Candidate.bound = tail.bound
        /\ Candidate.index = ckpt.index
    BY <2>2 DEF Candidate, TypeOK, HandleTypeOK, Checkpoint, Position, Slot, Other
  <2>6. TypeOK'
    <3>1. PositionOf(ckpt) \in Position
      BY <2>2 DEF TypeOK, HandleTypeOK, Checkpoint, PositionOf, At, Position
    <3> QED
      BY <2>1, <2>2, <2>5, <3>1 DEF TypeOK, DiskTypeOK, HandleTypeOK, Recovering, cacheVars,
         bufVars, readVars
  <2>7. ControlInv'
    <3>1. BufferBlocks(opts) \in Nat \ {0} /\ tail.bound \in Nat
      BY <2>2, BufferBlocksType DEF TypeOK, HandleTypeOK, Position
    <3> QED
      BY <2>1, <2>2, <2>4, <3>1 DEF Inductive, ControlInv, InUse, Opening, Recovering,
         Publishing, cacheVars, bufVars
  <2>8. SnapshotsInPlace'
    <3>1. /\ PointersValid(ckpt) /\ LogStart <= ckpt.bound + 1 /\ ckpt.bound <= tail.bound
          /\ ckpt \in Checkpoint /\ tail.bound \in Nat
      BY <2>1, <2>2 DEF Inductive, SnapshotsInPlace, InUse, TypeOK, HandleTypeOK, Position
    <3>2. PointersValid(ckpt)'
      BY <2>1, <3>1 DEF PointersValid
    <3>3. op' = "recover" => PointersValid(cand)' /\ cand'.bound = tail.bound
      BY <2>1, <2>5, <3>1, GeometryAssumption DEF PointersValid, Checkpoint, Index, Addr
    <3> QED
      BY <2>1, <3>1, <3>2, <3>3 DEF SnapshotsInPlace, Publishing
  <2>9. ReservedSpace'
    <3>1. CASE marked = {}
      <4>1. Owed' = Reservation(0, 0, 0) /\ Frontier' = tail.bound
        BY <2>1, <2>2, <3>1 DEF Owed, Frontier, Publishing, cacheVars, bufVars
      <4>2. Owed' = Cardinality(marked)
        BY <2>2, <3>1, <4>1, NoRecordBlocks DEF Reservation
      <4> QED
        BY <2>1, <4>1, <4>2 DEF ReservedSpace
    <3>2. CASE marked # {}
      <4>1. Owed' = Cardinality(marked)
        BY <2>1, <3>2 DEF Owed, Publishing
      <4>2. Frontier' = tail.bound
        BY <2>1, <2>5, <3>2 DEF Frontier, Publishing
      <4> QED
        BY <2>1, <4>1, <4>2 DEF ReservedSpace
    <3> QED
      BY <3>1, <3>2
  <2>10. ReservedSlots' /\ AssertionsHold'
    BY <2>1 DEF Inductive, ReservedSlots, AssertionsHold, bufVars
  <2> QED
    BY <2>6, <2>7, <2>8, <2>9, <2>10 DEF Inductive
<1> QED
  BY <1>1, <1>2

\* Replay maps payloads in the window only, so its dirty pages are touched pages.
LEMMA ReplayRecordStep ==
  ASSUME Inductive, NEW b \in Addr, ReplayRecord(b)
  PROVE  Inductive'
<1> DEFINE ents == log[b].ents
           rec == IF log[b].kind = "data"
                    THEN {l \in MappedLbas(ents) : PageOf(l) \in window} ELSE {}
           pages == resident \cup PagesOf(rec)
<1>1. CASE \E why \in {"invalid", "options", "nospace"} : OpenFails(why)
  BY <1>1, OpenFailsStep
<1>2. CASE ~\E why \in {"invalid", "options", "nospace"} : OpenFails(why)
  <2> DEFINE same == UNCHANGED <<desc, body, log, stable, pc, op, opts, rootVars, tail,
                                 bufVars, readVars, marked, window, lastOpen, faults>>
  <2>1. /\ pc = "replay" /\ same /\ TypeOK
        /\ resident' = pages /\ dirty' = dirty \cup PagesOf(rec)
        /\ cached' = [l \in Lbas |-> IF PageOf(l) \notin pages THEN Unmapped
                                     ELSE IF l \in rec THEN ents[l]
                                     ELSE MappedEntry(l)]
        /\ live' = live + Cardinality({l \in rec : MappedEntry(l).phys = 0})
        /\ cursor' = At(cursor.lsn + 1, b)
    BY <1>2 DEF ReplayRecord, disk, Inductive
  <2>2. /\ rec \in SUBSET Lbas /\ PagesOf(rec) \in SUBSET Pages
        /\ PagesOf(rec) \in SUBSET window
    BY PagesOfType DEF MappedLbas, PagesOf
  <2>3. TypeOK'
    <3>1. \A l \in rec : ents[l] \in Entry
      <4>1. log[b] \in Block
        BY <2>1 DEF TypeOK, DiskTypeOK
      <4> QED
        BY <2>2, <4>1, BlockEntries DEF Entries
    <3>2. \A l \in Lbas : MappedEntry(l) \in Entry
      BY <2>1, MappedEntryType DEF Inductive, SnapshotsInPlace, InUse
    <3> HIDE DEF rec
    <3>3. cached' \in Entries
      BY <2>1, <3>1, <3>2, UnmappedType DEF Entries
    <3>4. {l \in rec : MappedEntry(l).phys = 0} \in SUBSET Lbas
      BY <2>2
    <3>5. live' \in Nat
      BY <2>1, <3>4, LbasFinite DEF TypeOK, HandleTypeOK
    <3>6. cursor' \in Position
      BY <2>1, GeometryAssumption DEF At, Position, Addr, TypeOK, HandleTypeOK
    <3>7. resident' \in SUBSET Pages /\ dirty' \in SUBSET Pages
      BY <2>1, <2>2 DEF TypeOK, HandleTypeOK
    <3> QED
      BY <2>1, <3>3, <3>5, <3>6, <3>7 DEF TypeOK, DiskTypeOK, HandleTypeOK, rootVars,
         bufVars, readVars
  <2> HIDE DEF rec
  <2>4. ControlInv'
    BY <2>1, <2>2 DEF Inductive, ControlInv, InUse, Opening, Recovering, Publishing, bufVars
  <2>5. SnapshotsInPlace'
    BY <2>1 DEF Inductive, SnapshotsInPlace, PointersValid, InUse, Publishing, rootVars
  <2>6. ReservedSpace'
    BY <2>1 DEF Inductive, ReservedSpace, Frontier, Owed, InUse, Publishing, rootVars
  <2>7. ReservedSlots' /\ AssertionsHold'
    BY <2>1 DEF Inductive, ReservedSlots, AssertionsHold, bufVars
  <2> QED
    BY <2>3, <2>4, <2>5, <2>6, <2>7 DEF Inductive
<1> QED
  BY <1>1, <1>2

\* The window is replayed; the pages it dirtied were reserved as touched pages.
LEMMA ReplayEndStep ==
  ASSUME Inductive, ReplayEnd
  PROVE  Inductive'
<1> DEFINE same == UNCHANGED <<desc, body, log, stable, op, opts, ckpt, cand, tail, cacheVars,
                               bufVars, readVars, live, cursor, lastOpen, faults>>
<1>1. /\ pc = "replay" /\ cursor = tail /\ same /\ TypeOK /\ window' = {}
      /\ pc' = IF op = "fast" THEN "clear" ELSE "append"
      /\ pend' = IF op = "fast" THEN {} ELSE dirty
      /\ marked' = IF op = "fast" THEN {} ELSE marked
  BY DEF ReplayEnd, Inductive, disk
<1>2. /\ op \in {"fast", "recover"} /\ dirty \subseteq window /\ window \subseteq marked
      /\ buffered = {} /\ bufPages = 0 /\ Cardinality({}) = 0
  BY <1>1, FS_EmptySet, PagesOf({}) = {} DEF Inductive, ControlInv, ReservedSlots, Opening,
     Recovering, PagesOf
<1>3. /\ Cardinality(dirty) \in Nat /\ Cardinality(marked) \in Nat
      /\ Cardinality(dirty) <= Cardinality(marked)
  BY <1>1, <1>2, PagesFinite, FS_Subset DEF TypeOK, HandleTypeOK
<1>4. TypeOK'
  BY <1>1 DEF TypeOK, DiskTypeOK, HandleTypeOK, Recovering, Publishing, cacheVars, bufVars,
     readVars
<1>5. ControlInv'
  BY <1>1, <1>2 DEF Inductive, ControlInv, InUse, Opening, Recovering, Publishing, cacheVars,
     bufVars, TypeOK, HandleTypeOK, Position
<1>6. SnapshotsInPlace'
  BY <1>1, <1>2 DEF Inductive, SnapshotsInPlace, PointersValid, InUse, Publishing
<1>7. ReservedSpace'
  <2>1. CASE op = "fast"
    <3>1. EnsureSpace(tail.bound, Cardinality(marked))
      BY <1>1, <2>1 DEF Inductive, ReservedSpace, InUse, Frontier, Owed, Publishing
    <3>2. Frontier' = tail.bound /\ Owed' = Reservation(0, 0, Cardinality(dirty))
      BY <1>1, <1>2, <2>1 DEF Frontier, Owed, Publishing, cacheVars, bufVars
    <3>3. Owed' = Cardinality(dirty)
      BY <1>3, <3>2, NoRecordBlocks DEF Reservation
    <3> QED
      BY <1>1, <1>3, <3>1, <3>2, <3>3, GeometryAssumption DEF ReservedSpace, EnsureSpace,
         TypeOK, HandleTypeOK, Position
  <2>2. CASE op = "recover"
    BY <1>1, <2>2 DEF Inductive, ReservedSpace, Frontier, Owed, InUse, Publishing
  <2> QED
    BY <1>2, <2>1, <2>2
<1>8. ReservedSlots' /\ AssertionsHold'
  BY <1>1 DEF Inductive, ReservedSlots, AssertionsHold, bufVars
<1> QED
  BY <1>4, <1>5, <1>6, <1>7, <1>8 DEF Inductive

-----------------------------------------------------------------------------
(* Theorems *)

\* Every step of the engine, of its clients and of its environment keeps the
\* inductive invariant.
LEMMA NextStep ==
  ASSUME Inductive, [Next]_vars
  PROVE  Inductive'
<1>1. CASE UNCHANGED vars
  <2>1. TypeOK' /\ ControlInv' /\ SnapshotsInPlace'
    BY <1>1 DEF vars, Inductive, TypeOK, DiskTypeOK, HandleTypeOK, ControlInv,
       SnapshotsInPlace, PointersValid, InUse, Opening
  <2>2. ReservedSpace' /\ ReservedSlots' /\ AssertionsHold'
    BY <1>1 DEF vars, Inductive, ReservedSpace, ReservedSlots, AssertionsHold, InUse,
       Frontier, Owed
  <2> QED
    BY <2>1, <2>2 DEF Inductive
<1>2. CASE \E o \in OpenOptions : Open(o)
  BY <1>2, OpenStep
<1>3. CASE Client
  BY <1>3, OverwriteStep, WriteStep, ReadStep, FlushCloseStep DEF Client
<1>4. CASE Engine
  BY <1>4, PrepareStep, AppendBatchStep, AppendDoneStep, PersistRootStep,
     SyncDescriptorStep, WriteRecordStep, FetchStep, SettleStep, ClosedStep,
     ScanRecordStep, ReplayRecordStep, ScanEndStep, ReplayEndStep, ClearBlockStep
  DEF Engine
<1>5. CASE Kill \/ IoError \/ Drop \/ PowerLoss
  BY <1>5, KillStep, IoErrorStep, DropStep, PowerLossStep
<1> QED
  BY <1>1, <1>2, <1>3, <1>4, <1>5 DEF Next

\* The inductive invariant holds throughout.
THEOREM InductiveHolds == Spec => []Inductive
<1>1. Init => Inductive
  BY InitStep
<1>2. Inductive /\ [Next]_vars => Inductive'
  BY NextStep
<1> QED
  BY <1>1, <1>2, PTL DEF Spec

\* Type correctness of the engine and of its backing file, for every geometry,
\* every set of options and any number of kills, I/O errors and power losses.
THEOREM TypeCorrect == Spec => []TypeOK
<1>1. Inductive => TypeOK
  BY DEF Inductive
<1> QED
  BY <1>1, InductiveHolds, PTL

\* Admission reserves enough log space (Reservation::admit): no release and no
\* publication of work already accepted can meet ENOSPC.
THEOREM SpaceReserved == Spec => []ReservedSpace
<1>1. Inductive => ReservedSpace
  BY DEF Inductive
<1> QED
  BY <1>1, InductiveHolds, PTL

\* The preflight of a release leaves a mapping slot for every page of the buffer
\* (prepare_release, validate_buffer_mapping_capacity).
THEOREM SlotsReserved == Spec => []ReservedSlots
<1>1. Inductive => ReservedSlots
  BY DEF Inductive
<1> QED
  BY <1>1, InductiveHolds, PTL

\* The assertions of RecordWriter::append and with_page never fail.
THEOREM NoPanic == Spec => []AssertionsHold
<1>1. Inductive => AssertionsHold
  BY DEF Inductive
<1> QED
  BY <1>1, InductiveHolds, PTL

\* No step of a volume in use changes a block up to the tail: records, snapshots,
\* cleared blocks and what an interrupted write leaves all lie beyond it.
LEMMA BelowTailKept ==
  ASSUME PowerLossOn = FALSE, Inductive, Next, InUse, NEW a \in Addr, a <= tail.bound
  PROVE  log'[a] = log[a]
<1>1. /\ TypeOK /\ todo \in SUBSET Lbas /\ pend \in SUBSET Pages
      /\ a \in Nat /\ tail.bound \in Nat /\ cand.bound \in Nat /\ cursor.bound \in Nat
  BY GeometryAssumption DEF Inductive, TypeOK, HandleTypeOK, Position, Checkpoint, Addr
<1>2. pc \in Publishing => a <= cand.bound
  BY <1>1 DEF Inductive, SnapshotsInPlace
<1>3. CASE log' = log
  BY <1>3
<1>4. CASE \E S \in SUBSET pend : \E count :
          pc = "append" /\ log' = WithSnapshots(S, count)
  BY <1>1, <1>2, <1>4, WithSnapshotsBelow DEF Publishing
<1>5. CASE \E rec \in SUBSET todo : \E count : log' = WithPayloads(rec, count)
  BY <1>1, <1>5, WithPayloadsBelow
<1>6. CASE WriteRecord
  <2>1. PICK rec \in SUBSET todo : \/ log' = WithRecord(rec)
                                   \/ log' = log
    BY <1>6 DEF WriteRecord, AppendRecord, Panic, disk
  <2> QED
    BY <1>1, <2>1, WithRecordBelow
<1>7. CASE ClearBlock
  BY <1>1, <1>7 DEF ClearBlock, Inductive, ControlInv, TypeOK, DiskTypeOK
<1>8. CASE AppendBatch
  BY <1>4, <1>8 DEF AppendBatch
<1>9. CASE Interrupted
  BY <1>3, <1>4, <1>5, <1>9 DEF Interrupted, disk
<1>10. CASE \E o \in OpenOptions : Open(o)
  BY <1>10 DEF Open, InUse
<1>11. CASE Client
  <2>1. disk' = disk
    BY <1>11 DEF Client, Overwrite, Write, Read, Flush, Close
  <2> QED
    BY <1>3, <2>1 DEF disk
<1>12. CASE Prepare \/ AppendDone \/ SyncLog \/ WriteBody \/ SyncBody \/ WriteDescriptor
            \/ SyncDescriptor \/ Fetch \/ FlushSync \/ ClosePublish \/ Closed
            \/ ReplayEnd \/ ClearEnds \/ ClearSync
  BY <1>3, <1>12 DEF Prepare, AppendDone, SyncLog, WriteBody, SyncBody, WriteDescriptor,
     SyncDescriptor, Fetch, FlushSync, ClosePublish, Closed, ReplayEnd, ClearEnds,
     ClearSync, Latch, disk
<1>13. CASE ScanEnd \/ \E b \in Addr : ScanRecord(b) \/ ReplayRecord(b)
  BY <1>3, <1>13 DEF ScanEnd, ScanRecord, ReplayRecord, OpenFails, disk
<1>14. CASE Kill \/ IoError \/ Drop \/ PowerLoss
  BY <1>3, <1>9, <1>14 DEF Kill, IoError, Drop, PowerLoss, disk
<1> QED
  BY <1>6, <1>7, <1>8, <1>10, <1>11, <1>12, <1>13, <1>14 DEF Next, Engine

\* The log is append-only while no power is lost: a killed or failing engine never
\* overwrites a block that the next recovery reads (append_batch, write_record,
\* clear_stale_tail).
THEOREM LogAppendOnly ==
  ASSUME PowerLossOn = FALSE
  PROVE  Spec => AppendOnly
<1>1. Inductive /\ [Next]_vars
        => [InUse => \A a \in Addr : a <= tail.bound => log'[a] = log[a]]_vars
  BY BelowTailKept
<1> QED
  BY <1>1, InductiveHolds, PTL DEF Spec, AppendOnly

-----------------------------------------------------------------------------
(* Lookups *)

\* Snapshots keep their entries while the log keeps the blocks that hold them.
LEMMA EntryKept ==
  ASSUME NEW old, NEW new, NEW index, NEW bound, NEW l \in Lbas,
         \A p \in Pages : index[p] = 0 \/ (index[p] \in Addr /\ index[p] <= bound),
         \A a \in Addr : a <= bound => new[a] = old[a]
  PROVE  EntryAt(new, index, l) = EntryAt(old, index, l)
  BY PagesOfLbas DEF EntryAt

LEMMA SnapshotEntryIs ==
  ASSUME NEW l
  PROVE  SnapshotEntry(l) = EntryAt(log, ckpt.index, l)
  BY DEF SnapshotEntry, EntryAt

\* Without windowed recovery the lookup is the one through the active root.
LEMMA CurrentIsMapped ==
  ASSUME ~Windowed, NEW l \in Lbas
  PROVE  CurrentEntry(l) = MappedEntry(l)
  BY SnapshotEntryIs DEF CurrentEntry, MappedEntry, EntryIn

-----------------------------------------------------------------------------
(* Each step keeps the invariant *)

CacheParts == CacheCoherent /\ CandCoherent /\ PendInv /\ LiveInv

\* What the invariant says of the active root while a volume is in use.
LEMMA ActiveRoot ==
  ASSUME Inductive, InUse
  PROVE  /\ TypeOK
         /\ \A p \in Pages : \/ ckpt.index[p] = 0
                             \/ ckpt.index[p] \in Addr /\ ckpt.index[p] <= ckpt.bound
         /\ ckpt.bound \in Nat /\ tail.bound \in Nat /\ ckpt.bound <= tail.bound
  BY DEF Inductive, SnapshotsInPlace, PointersValid, TypeOK, HandleTypeOK, Checkpoint, Position

\* A process without an open volume keeps nothing in its cache.
LEMMA CacheDown ==
  ASSUME ~InUse'
  PROVE  CacheParts'
  BY DEF CacheParts, CacheCoherent, CandCoherent, PendInv, LiveInv, InUse, Windowed, Building,
     Publishing

\* Outside publication and replay, a step that keeps the cache, the active root
\* and the log it covers keeps the invariant.
LEMMA CacheQuiet ==
  ASSUME CacheInductive, InUse,
         pc \notin Publishing \cup {"replay"}, pc' \notin Publishing \cup {"replay"},
         UNCHANGED <<ckpt, resident, dirty, cached, live>>,
         \A a \in Addr : a <= ckpt.bound => log'[a] = log[a]
  PROVE  CacheParts'
<1>1. \A l \in Lbas : EntryAt(log', ckpt.index, l) = EntryAt(log, ckpt.index, l)
  BY ActiveRoot, EntryKept DEF CacheInductive
<1>2. ~Windowed /\ ~Windowed' /\ ~Building /\ ~Building'
  BY DEF Windowed, Building
<1>3. CacheCoherent'
  <2>1. \A l \in Lbas : PageOf(l) \in resident \ dirty => cached[l] = EntryAt(log, ckpt.index, l)
    BY SnapshotEntryIs DEF CacheInductive, CacheCoherent, Inductive, ControlInv
  <2>2. \A l \in Lbas : SnapshotEntry(l)' = EntryAt(log', ckpt.index, l)
    BY DEF SnapshotEntry, EntryAt
  <2> QED
    BY <1>1, <2>1, <2>2 DEF CacheCoherent
<1>4. CandCoherent'
  BY DEF CandCoherent
<1>5. PendInv'
  BY <1>2 DEF CacheInductive, PendInv
<1>6. LiveInv'
  <2>1. \A l \in Lbas : CurrentEntry(l)' = CurrentEntry(l)
    BY <1>1, <1>2 DEF CurrentEntry, EntryIn
  <2>2. {l \in Lbas : CurrentEntry(l).phys # 0}' = {l \in Lbas : CurrentEntry(l).phys # 0}
    BY <2>1
  <2> QED
    BY <2>2 DEF CacheInductive, LiveInv
<1> QED
  BY <1>3, <1>4, <1>5, <1>6 DEF CacheParts

\* The calls that touch the buffer only, the fsyncs and the scan.
LEMMA CacheCalls ==
  ASSUME CacheInductive,
         \/ \E l \in Lbas, v \in Values : Overwrite(l, v) \/ Write(l, v)
         \/ Flush \/ Close \/ FlushSync \/ ClosePublish \/ ClearEnds \/ ClearSync
         \/ \E b \in Addr : ScanRecord(b)
  PROVE  CacheParts'
<1>1. /\ pc \in {"up", "flushsync", "closing", "clear", "clearsync", "scan"}
      /\ UNCHANGED <<log, ckpt, resident, dirty, cached, live>>
  BY DEF Overwrite, Write, Flush, Close, FlushSync, ClosePublish, ClearEnds, ClearSync,
     ScanRecord, disk, rootVars, cacheVars
<1>2. pc' \notin Publishing \cup {"replay"}
  BY DEF Overwrite, Write, Flush, Close, FlushSync, ClosePublish, ClearEnds, ClearSync,
     ScanRecord, Release, Publishing
<1> QED
  BY <1>1, <1>2, CacheQuiet DEF InUse, Publishing

\* clear_stale_tail writes beyond the tail.
LEMMA CacheClearBlock ==
  ASSUME CacheInductive, ClearBlock
  PROVE  CacheParts'
<1>1. /\ pc = "clear" /\ pc' = "clear" /\ UNCHANGED <<ckpt, resident, dirty, cached, live>>
      /\ log' = [log EXCEPT ![cursor.bound + 1] = Blank]
  BY DEF ClearBlock, rootVars, cacheVars
<1>2. cursor.bound >= tail.bound /\ cursor.bound \in Nat /\ log \in [Addr -> Block]
  BY <1>1 DEF CacheInductive, Inductive, ControlInv, TypeOK, HandleTypeOK, DiskTypeOK, Position
<1>3. ckpt.bound \in Nat /\ tail.bound \in Nat /\ ckpt.bound <= tail.bound
  BY <1>1, ActiveRoot DEF CacheInductive, InUse
<1>4. \A a \in Addr : a <= ckpt.bound => log'[a] = log[a]
  BY <1>1, <1>2, <1>3, GeometryAssumption DEF Addr
<1> QED
  BY <1>1, <1>4, CacheQuiet DEF InUse, Publishing

\* The steps that persist the root.
LEMMA CachePersist ==
  ASSUME CacheInductive, SyncLog \/ WriteBody \/ SyncBody \/ WriteDescriptor
  PROVE  CacheParts'
<1>1. /\ UNCHANGED <<log, op, ckpt, cand, pend, resident, dirty, cached, live, marked>>
      /\ pc \in Publishing \ {"append"} /\ pc' \in Publishing \ {"append"}
  BY DEF SyncLog, WriteBody, SyncBody, WriteDescriptor, disk, rootVars, cacheVars,
     recoveryVars, Publishing
<1>2. InUse /\ InUse' /\ Building /\ Building' /\ (Windowed <=> Windowed')
      /\ pc # "replay" /\ pc' # "replay" /\ pc # "scan" /\ pc' # "scan"
  BY <1>1 DEF InUse, Building, Windowed, Publishing
<1>3. CacheCoherent' /\ CandCoherent'
  BY <1>1, <1>2 DEF CacheInductive, CacheCoherent, CandCoherent, SnapshotEntry, EntryIn
<1>4. PendInv'
  BY <1>1, <1>2 DEF CacheInductive, PendInv
<1>5. LiveInv'
  <2>1. \A l \in Lbas : CurrentEntry(l)' = CurrentEntry(l)
    BY <1>1, <1>2 DEF CurrentEntry, EntryIn
  <2>2. {l \in Lbas : CurrentEntry(l).phys # 0}' = {l \in Lbas : CurrentEntry(l).phys # 0}
    BY <2>1
  <2> QED
    BY <1>1, <1>2, <2>2 DEF CacheInductive, LiveInv
<1> QED
  BY <1>3, <1>4, <1>5 DEF CacheParts

\* prepare: the candidate starts from the active index, with all dirty pages to append.
LEMMA CachePrepare ==
  ASSUME CacheInductive, Prepare
  PROVE  CacheParts'
<1>1. CASE Latch
  BY <1>1, CacheDown DEF Latch, InUse
<1>2. CASE ~Latch
  <2>1. /\ UNCHANGED <<log, op, ckpt, resident, dirty, cached, live, marked>>
        /\ pc = "prepare" /\ pc' = "append" /\ cand' = Candidate /\ pend' = dirty
    BY <1>2 DEF Prepare, disk, cacheVars, recoveryVars
  <2>2. cand'.index = ckpt.index /\ op # "recover"
    BY <2>1 DEF Candidate, CacheInductive, Inductive, ControlInv
  <2>3. ~Windowed /\ ~Windowed' /\ Building' /\ InUse /\ InUse'
    BY <2>1, <2>2 DEF Windowed, Building, InUse, Publishing
  <2>4. \A l \in Lbas : PageOf(l) \in resident \ dirty => cached[l] = EntryAt(log, ckpt.index, l)
    BY <2>1, <2>3, SnapshotEntryIs DEF CacheInductive, CacheCoherent
  <2>5. CacheCoherent'
    BY <2>1, <2>4 DEF CacheCoherent, SnapshotEntry, EntryAt
  <2>6. CandCoherent'
    BY <2>1, <2>2, <2>4 DEF CandCoherent, EntryIn
  <2>7. PendInv'
    BY <2>1, <2>2, <2>3 DEF CacheInductive, PendInv
  <2>8. LiveInv'
    <3>1. \A l \in Lbas : CurrentEntry(l)' = CurrentEntry(l)
      BY <2>1, <2>3 DEF CurrentEntry, EntryIn
    <3>2. {l \in Lbas : CurrentEntry(l).phys # 0}' = {l \in Lbas : CurrentEntry(l).phys # 0}
      BY <3>1
    <3> QED
      BY <2>1, <2>3, <3>2 DEF CacheInductive, LiveInv
  <2> QED
    BY <2>5, <2>6, <2>7, <2>8 DEF CacheParts
<1> QED
  BY <1>1, <1>2

\* The block after the candidate that page p's rank names holds p's snapshot.
LEMMA SnapshotOf ==
  ASSUME TypeOK, NEW S \in SUBSET Pages, NEW count \in Nat, NEW p \in S, Rank(p, S) < count,
         NEW a \in Addr, a = cand.bound + 1 + Rank(p, S)
  PROVE  WithSnapshots(S, count)[a]
           = Snapshot(cand.lsn + (a - cand.bound), a - 1, p, PageSlice(p, cached))
<1> DEFINE q == CHOOSE q \in S : a = cand.bound + 1 + Rank(q, S)
<1>1. q \in S /\ a = cand.bound + 1 + Rank(q, S)
  OBVIOUS
<1>2. cand.bound \in Nat /\ Rank(q, S) \in Nat /\ Rank(p, S) \in Nat
  BY <1>1, PageRank DEF TypeOK, HandleTypeOK, Checkpoint
<1> HIDE DEF q
<1>3. Rank(q, S) = Rank(p, S)
  BY <1>1, <1>2
<1>4. S \in SUBSET Nat /\ IsFiniteSet(S)
  BY PagesFinite, PageCountType DEF Pages
<1>5. q = p
  BY <1>1, <1>3, <1>4, RankInjective
<1> QED
  BY <1>5 DEF WithSnapshots, q

LEMMA SliceEntry ==
  ASSUME NEW l \in Lbas
  PROVE  PageSlice(PageOf(l), cached)[l] = cached[l]
  BY DEF PageSlice

\* What one batch makes of the candidate: the entries of its pages are those of
\* the cache, all others stay.
LEMMA BatchEntries ==
  ASSUME Inductive, pc = "append", NEW S \in SUBSET pend, Lowest(S, Batch, pend),
         log' = WithSnapshots(S, Cardinality(S)), cand' = Extended(S), NEW l \in Lbas,
         cand.bound + Cardinality(S) < BackingBlocks
  PROVE  /\ PageOf(l) \in S => EntryAt(log', cand'.index, l) = cached[l]
         /\ PageOf(l) \notin S => EntryAt(log', cand'.index, l) = EntryAt(log, cand.index, l)
<1>1. /\ TypeOK /\ S \in SUBSET Pages /\ Cardinality(S) \in Nat /\ PageOf(l) \in Pages
      /\ cand.bound \in Nat /\ cand.lsn \in Nat /\ LogStart <= cand.bound + 1
  BY PagesFinite, PagesOfLbas, GeometryAssumption DEF Inductive, TypeOK, HandleTypeOK, Checkpoint,
     Position, SnapshotsInPlace, InUse, Publishing
<1>2. cand'.index = [p \in Pages |-> IF p \in S THEN cand.bound + 1 + Rank(p, S)
                                                ELSE cand.index[p]]
  BY DEF Extended
<1>3. CASE PageOf(l) \in S
  <2> DEFINE p == PageOf(l)
             a == cand.bound + 1 + Rank(p, S)
  <2>1. Rank(p, S) \in Nat /\ Rank(p, S) < Cardinality(S)
    BY <1>1, <1>3, PageRank
  <2>2. a \in Addr /\ cand'.index[p] = a /\ a # 0
    BY <1>1, <1>2, <1>3, <2>1, GeometryAssumption DEF Addr
  <2>3. log'[a] = Snapshot(cand.lsn + (a - cand.bound), a - 1, p, PageSlice(p, cached))
    BY <1>1, <1>3, <2>1, <2>2, SnapshotOf
  <2>4. log'[a].ents[l] = cached[l]
    BY <2>3, SliceEntry DEF Snapshot
  <2> QED
    BY <1>3, <2>2, <2>4 DEF EntryAt
<1>4. CASE PageOf(l) \notin S
  <2>1. \A a \in Addr : a <= cand.bound => log'[a] = log[a]
    BY <1>1, WithSnapshotsBelow
  <2>2. \/ cand.index[PageOf(l)] = 0
        \/ cand.index[PageOf(l)] \in Addr /\ cand.index[PageOf(l)] <= cand.bound
    BY <1>1 DEF Inductive, SnapshotsInPlace, PointersValid, Publishing
  <2>3. cand'.index[PageOf(l)] = cand.index[PageOf(l)]
    BY <1>1, <1>2, <1>4
  <2> QED
    BY <1>4, <2>1, <2>2, <2>3 DEF EntryAt
<1> QED
  BY <1>3, <1>4

\* append_batch: the cache is not touched, the pages appended are now in the
\* candidate, and the active root's snapshots lie below.
LEMMA CacheAppendBatch ==
  ASSUME CacheInductive, AppendBatch, Inductive'
  PROVE  CacheParts'
<1> PICK S \in SUBSET pend :
       /\ Lowest(S, Batch, pend)
       /\ log' = WithSnapshots(S, Cardinality(S))
       /\ cand' = Extended(S)
       /\ pend' = pend \ S
       /\ marked' = marked \ S
  BY DEF AppendBatch
<1>1. /\ UNCHANGED <<op, ckpt, resident, dirty, cached, live>>
      /\ pc = "append" /\ pc' = "append"
  BY DEF AppendBatch, cacheVars
<1>2. /\ InUse /\ InUse' /\ Building /\ Building' /\ (Windowed <=> Windowed')
      /\ Inductive /\ pc \in Publishing
  BY <1>1 DEF InUse, Building, Windowed, Publishing, CacheInductive
<1>3. /\ S \in SUBSET Pages /\ Cardinality(S) \in Nat /\ cand.bound \in Nat
      /\ cand'.bound = cand.bound + Cardinality(S)
      /\ tail.bound <= cand.bound
  BY <1>2, PagesFinite DEF Inductive, TypeOK, HandleTypeOK, Checkpoint, Extended, SnapshotsInPlace
<1>4. cand.bound + Cardinality(S) < BackingBlocks
  BY <1>1, <1>2, <1>3 DEF Inductive, ReservedSpace, EnsureSpace, Frontier, Publishing
<1>5. \A l \in Lbas :
        /\ PageOf(l) \in S => EntryAt(log', cand'.index, l) = cached[l]
        /\ PageOf(l) \notin S => EntryAt(log', cand'.index, l) = EntryAt(log, cand.index, l)
  BY <1>1, <1>2, <1>4, BatchEntries
<1>6. \A l \in Lbas : EntryAt(log', ckpt.index, l) = EntryAt(log, ckpt.index, l)
  <2>1. \A a \in Addr : a <= cand.bound => log'[a] = log[a]
    BY <1>2, <1>3, WithSnapshotsBelow DEF Inductive
  <2>2. \A a \in Addr : a <= ckpt.bound => log'[a] = log[a]
    BY <1>2, <1>3, <2>1, ActiveRoot, GeometryAssumption DEF Addr
  <2> QED
    BY <1>2, <2>2, ActiveRoot, EntryKept
<1>7. CacheCoherent'
  <2>1. \A l \in Lbas : PageOf(l) \in resident \ dirty => cached[l] = EntryAt(log, ckpt.index, l)
    BY <1>1, <1>2, SnapshotEntryIs DEF CacheInductive, CacheCoherent
  <2> QED
    BY <1>1, <1>6, <2>1 DEF CacheCoherent, SnapshotEntry, EntryAt
<1>8. CandCoherent'
  BY <1>1, <1>2, <1>5 DEF CacheInductive, CandCoherent, EntryIn
<1>9. PendInv'
  <2>1. \A p \in Pages \ S : cand'.index[p] = cand.index[p]
    BY DEF Extended
  <2>2. S \subseteq dirty /\ marked' \subseteq Pages
    BY <1>2 DEF CacheInductive, PendInv, Inductive, TypeOK, HandleTypeOK
  <2>3. \A p \in marked' : cand'.index[p] = cand.index[p] /\ p \in marked
    BY <2>1, <2>2
  <2> QED
    BY <1>1, <1>2, <2>1, <2>2, <2>3 DEF CacheInductive, PendInv
<1>10. LiveInv'
  <2>1. \A l \in Lbas : CurrentEntry(l)' = CurrentEntry(l)
    <3>1. Windowed => S \subseteq resident
      BY <1>2 DEF CacheInductive, PendInv
    <3> QED
      BY <1>1, <1>2, <1>5, <1>6, <3>1 DEF CurrentEntry, EntryIn
  <2>2. {l \in Lbas : CurrentEntry(l).phys # 0}' = {l \in Lbas : CurrentEntry(l).phys # 0}
    BY <2>1
  <2> QED
    BY <1>1, <1>2, <2>2 DEF CacheInductive, LiveInv
<1> QED
  BY <1>7, <1>8, <1>9, <1>10 DEF CacheParts

\* append_snapshots returns.  A window is dropped from the cache only once all its
\* dirty pages are in the candidate.
LEMMA CacheAppendDone ==
  ASSUME CacheInductive, AppendDone
  PROVE  CacheParts'
<1>1. /\ UNCHANGED <<log, op, ckpt, cand, pend, live, marked>>
      /\ pc = "append" /\ pend = {}
  BY DEF AppendDone, disk, rootVars
<1>2. InUse /\ Building /\ Inductive /\ pc \in Publishing
  BY <1>1 DEF InUse, Building, Publishing, CacheInductive
<1>3. CASE op = "recover" /\ marked # {}
  <2>1. pc' = "replay" /\ resident' = {} /\ dirty' = {} /\ cached' = NoEntries
    BY <1>3 DEF AppendDone
  <2>2. InUse' /\ Building' /\ Windowed /\ Windowed'
    BY <1>1, <1>2, <1>3, <2>1 DEF InUse, Building, Windowed
  <2>3. CacheCoherent' /\ CandCoherent'
    BY <2>1 DEF CacheCoherent, CandCoherent, Publishing
  <2>4. PendInv'
    BY <1>1, <1>3, <2>1, <2>2 DEF CacheInductive, PendInv, Publishing
  <2>5. LiveInv'
    <3>1. \A l \in Lbas : PageOf(l) \in resident => cached[l] = EntryAt(log, cand.index, l)
      BY <1>1, <1>2 DEF CacheInductive, CandCoherent, EntryIn
    <3>2. \A l \in Lbas : CurrentEntry(l)' = CurrentEntry(l)
      BY <1>1, <2>1, <2>2, <3>1 DEF CurrentEntry, EntryIn
    <3>3. {l \in Lbas : CurrentEntry(l).phys # 0}' = {l \in Lbas : CurrentEntry(l).phys # 0}
      BY <3>2
    <3> QED
      BY <1>1, <1>2, <2>2, <3>3 DEF CacheInductive, LiveInv
  <2> QED
    BY <2>3, <2>4, <2>5 DEF CacheParts
<1>4. CASE ~(op = "recover" /\ marked # {})
  <2>1. pc' = "sync" /\ UNCHANGED <<resident, dirty, cached>>
    BY <1>4 DEF AppendDone, cacheVars
  <2>2. InUse' /\ Building' /\ (Windowed <=> Windowed')
    BY <1>1, <1>2, <2>1 DEF InUse, Building, Windowed, Publishing
  <2>3. CacheCoherent' /\ CandCoherent'
    BY <1>1, <1>2, <2>1 DEF CacheInductive, CacheCoherent, CandCoherent, SnapshotEntry, EntryIn,
       Publishing
  <2>4. PendInv'
    BY <1>1, <1>2, <1>4, <2>1, <2>2 DEF CacheInductive, PendInv, Publishing
  <2>5. LiveInv'
    <3>1. \A l \in Lbas : CurrentEntry(l)' = CurrentEntry(l)
      BY <1>1, <2>1, <2>2 DEF CurrentEntry, EntryIn
    <3>2. {l \in Lbas : CurrentEntry(l).phys # 0}' = {l \in Lbas : CurrentEntry(l).phys # 0}
      BY <3>1
    <3> QED
      BY <1>1, <1>2, <2>2, <3>2 DEF CacheInductive, LiveInv
  <2> QED
    BY <2>3, <2>4, <2>5 DEF CacheParts
<1> QED
  BY <1>3, <1>4

\* checkpoint_published: every resident page equals its snapshot in the new root,
\* and a page that is not resident is the same in both roots.
LEMMA CacheSyncDescriptor ==
  ASSUME CacheInductive, SyncDescriptor
  PROVE  CacheParts'
<1>1. /\ UNCHANGED <<log, op, pend, resident, cached, live, marked>>
      /\ pc = "descsync" /\ ckpt' = cand /\ dirty' = {} /\ Inductive
      /\ pc' \in {"fetch", "clear", "release"}
  BY DEF SyncDescriptor, disk, CacheInductive
<1>2. /\ InUse /\ Building /\ InUse' /\ ~Building' /\ ~Windowed' /\ pc \in Publishing
      /\ pc' # "replay" /\ pc' \notin Publishing
  BY <1>1 DEF InUse, Building, Windowed, Publishing
<1>3. pend = {} /\ dirty \subseteq resident
  BY <1>1, <1>2 DEF CacheInductive, PendInv
<1>4. \A l \in Lbas : PageOf(l) \in resident => cached[l] = EntryAt(log, cand.index, l)
  BY <1>2, <1>3 DEF CacheInductive, CandCoherent, EntryIn
<1>5. CacheCoherent'
  BY <1>1, <1>4 DEF CacheCoherent, SnapshotEntry, EntryAt
<1>6. CandCoherent' /\ PendInv'
  BY <1>1, <1>2 DEF CandCoherent, PendInv
<1>7. LiveInv'
  <2>1. \A l \in Lbas : PageOf(l) \notin resident /\ ~Windowed =>
          EntryAt(log, cand.index, l) = EntryAt(log, ckpt.index, l)
    BY <1>1, <1>2, <1>3, PagesOfLbas DEF CacheInductive, PendInv, EntryAt, Windowed
  <2>2. \A l \in Lbas : CurrentEntry(l)' = CurrentEntry(l)
    BY <1>1, <1>2, <2>1 DEF CurrentEntry, EntryIn
  <2>3. {l \in Lbas : CurrentEntry(l).phys # 0}' = {l \in Lbas : CurrentEntry(l).phys # 0}
    BY <2>2
  <2> QED
    BY <1>1, <1>2, <2>3 DEF CacheInductive, LiveInv
<1> QED
  BY <1>5, <1>6, <1>7 DEF CacheParts

\* Mapping the blocks of rec adds those that had no entry to the live ones.
LEMMA LiveGrows ==
  ASSUME NEW old \in SUBSET Lbas, NEW new \in SUBSET Lbas, NEW rec \in SUBSET Lbas,
         \A l \in Lbas : l \in new <=> (l \in old \/ l \in rec)
  PROVE  Cardinality(new) = Cardinality(old) + Cardinality(rec \ old)
<1>1. new = old \cup (rec \ old) /\ old \cap (rec \ old) = {} /\ rec \ old \in SUBSET Lbas
  OBVIOUS
<1>2. /\ IsFiniteSet(old) /\ IsFiniteSet(rec \ old)
      /\ Cardinality(old) \in Nat /\ Cardinality(rec \ old) \in Nat
  BY <1>1, LbasFinite
<1>3. Cardinality(new) = Cardinality(old) + Cardinality(rec \ old) - Cardinality({})
  BY <1>1, <1>2, FS_Union
<1> QED
  BY <1>2, <1>3, FS_EmptySet

\* The clean pages and the pages out of the cache have their snapshots' entries.
LEMMA MappedClean ==
  ASSUME CacheInductive, InUse, NEW l \in Lbas, PageOf(l) \notin dirty
  PROVE  MappedEntry(l) = EntryAt(log, ckpt.index, l)
<1>1. pc = "scan" => resident = {}
  BY DEF CacheInductive, Inductive, ControlInv
<1> QED
  BY <1>1, SnapshotEntryIs DEF CacheInductive, CacheCoherent, MappedEntry

\* write_record: pages of the record become dirty, and a clean page that stays or
\* comes in has its snapshot's entries.
LEMMA CacheAppendRecord ==
  ASSUME CacheInductive, Inductive', pc = "release", NEW rec \in SUBSET todo,
         Lowest(rec, MaxPayload, todo), AppendRecord(rec)
  PROVE  CacheParts'
<1>1. /\ log' = WithRecord(rec) /\ dirty' = dirty \cup PagesOf(rec) /\ UNCHANGED ckpt
      /\ live' = live + Cardinality({l \in rec : MappedEntry(l).phys = 0})
      /\ dirty' \subseteq resident'
      /\ cached' = [l \in Lbas |-> IF PageOf(l) \notin resident' THEN Unmapped
                                   ELSE IF l \in rec THEN RecordEntry(l, rec, tail.bound + 1)
                                   ELSE MappedEntry(l)]
  BY DEF AppendRecord, Keeps, rootVars
<1>2. pc' \in {"release", "flushsync", "closing", "up"} /\ InUse /\ InUse'
  BY DEF AppendRecord, AfterRelease, InUse
<1>3. ~Windowed /\ ~Windowed' /\ ~Building /\ ~Building' /\ Inductive
  BY <1>2 DEF Windowed, Building, Publishing, CacheInductive
<1>4. /\ TypeOK /\ rec \in SUBSET Lbas /\ tail.bound \in Nat /\ ckpt.bound \in Nat
      /\ ckpt.bound <= tail.bound
  BY <1>2, <1>3, ActiveRoot DEF Inductive, TypeOK, HandleTypeOK
<1>5. \A l \in Lbas : EntryAt(log', ckpt.index, l) = EntryAt(log, ckpt.index, l)
  <2>1. \A a \in Addr : a <= ckpt.bound => log'[a] = log[a]
    BY <1>1, <1>4, WithRecordBelow, GeometryAssumption DEF Addr
  <2>2. \A p \in Pages : \/ ckpt.index[p] = 0
                         \/ ckpt.index[p] \in Addr /\ ckpt.index[p] <= ckpt.bound
    BY <1>2, <1>3, ActiveRoot
  <2> QED
    BY <2>1, <2>2, EntryKept
<1>6. \A l \in Lbas : PageOf(l) \notin dirty' => l \notin rec /\ PageOf(l) \notin dirty
  BY <1>1 DEF PagesOf
<1>7. CacheCoherent'
  <2>1. \A l \in Lbas : PageOf(l) \in resident' \ dirty' =>
          cached'[l] = EntryAt(log', ckpt.index, l)
    BY <1>1, <1>2, <1>5, <1>6, MappedClean
  <2> QED
    BY <1>1, <2>1 DEF CacheCoherent, SnapshotEntry, EntryAt
<1>8. CandCoherent' /\ PendInv'
  BY <1>1, <1>2, <1>3 DEF CandCoherent, PendInv, Publishing
<1>9. LiveInv'
  <2> DEFINE old == {l \in Lbas : CurrentEntry(l).phys # 0}
             new == {l \in Lbas : CurrentEntry(l)'.phys # 0}
  <2>1. \A l \in Lbas : CurrentEntry(l) = MappedEntry(l)
    BY <1>3, CurrentIsMapped
  <2>2. \A l \in rec : PageOf(l) \in resident'
    BY <1>1 DEF PagesOf
  <2>3. \A l \in Lbas : CurrentEntry(l)' = IF l \in rec THEN RecordEntry(l, rec, tail.bound + 1)
                                                       ELSE CurrentEntry(l)
    <3> SUFFICES ASSUME NEW l \in Lbas
                 PROVE  CurrentEntry(l)' = IF l \in rec THEN RecordEntry(l, rec, tail.bound + 1)
                                                        ELSE CurrentEntry(l)
      OBVIOUS
    <3>1. CASE PageOf(l) \in resident'
      BY <1>1, <2>1, <3>1 DEF CurrentEntry
    <3>2. CASE PageOf(l) \notin resident'
      <4>1. CurrentEntry(l)' = EntryAt(log', ckpt.index, l)
        BY <1>1, <1>3, <3>2 DEF CurrentEntry, EntryIn
      <4>2. l \notin rec /\ PageOf(l) \notin dirty
        BY <1>1, <2>2, <3>2
      <4> QED
        BY <1>2, <1>5, <2>1, <4>1, <4>2, MappedClean
    <3> QED
      BY <3>1, <3>2
  <2>4. \A l \in rec : RecordEntry(l, rec, tail.bound + 1).phys # 0
    <3>1. \A l \in rec : Rank(l, rec) \in Nat
      BY <1>4, LbaRank
    <3>2. \A l \in rec : RecordEntry(l, rec, tail.bound + 1).phys = tail.bound + 1 + Rank(l, rec)
      BY DEF RecordEntry
    <3> QED
      BY <1>4, <3>1, <3>2
  <2>5. \A l \in Lbas : l \in new <=> (l \in old \/ l \in rec)
    BY <2>3, <2>4
  <2>6. rec \ old = {l \in rec : MappedEntry(l).phys = 0}
    BY <1>4, <2>1
  <2>7. Cardinality(new) = Cardinality(old) + Cardinality(rec \ old)
    <3>1. old \in SUBSET Lbas /\ new \in SUBSET Lbas
      OBVIOUS
    <3> HIDE DEF old, new
    <3> QED
      BY <1>4, <2>5, <3>1, LiveGrows
  <2>8. live = Cardinality(old)
    BY <1>2 DEF CacheInductive, LiveInv
  <2>9. live' = Cardinality(new)
    BY <1>1, <2>6, <2>7, <2>8
  <2> QED
    BY <2>9 DEF LiveInv
<1> QED
  BY <1>7, <1>8, <1>9 DEF CacheParts

\* Installing pages: a page read comes from its snapshot, and the pages that leave
\* are clean (with_page, prefetch).
LEMMA CacheInstall ==
  ASSUME CacheInductive, InUse, pc \notin Publishing \cup {"replay"},
         pc' \notin Publishing \cup {"replay"}, InUse',
         UNCHANGED <<log, ckpt, live>>, NEW p, NEW sequential, Install(p, sequential)
  PROVE  CacheParts'
<1>1. /\ dirty' = dirty /\ dirty \subseteq resident'
      /\ cached' = [l \in Lbas |-> IF PageOf(l) \in resident' THEN MappedEntry(l) ELSE Unmapped]
  BY DEF Install, Keeps
<1>2. ~Windowed /\ ~Windowed' /\ ~Building /\ ~Building'
  BY DEF Windowed, Building
<1>3. CacheCoherent'
  <2>1. \A l \in Lbas : PageOf(l) \in resident' \ dirty' => cached'[l] = EntryAt(log, ckpt.index, l)
    BY <1>1, MappedClean
  <2> QED
    BY <2>1 DEF CacheCoherent, SnapshotEntry, EntryAt
<1>4. CandCoherent' /\ PendInv'
  BY <1>1, <1>2 DEF CandCoherent, PendInv
<1>5. LiveInv'
  <2>1. \A l \in Lbas : CurrentEntry(l)' = MappedEntry(l)
    <3> SUFFICES ASSUME NEW l \in Lbas
                 PROVE  CurrentEntry(l)' = MappedEntry(l)
      OBVIOUS
    <3>1. CASE PageOf(l) \in resident'
      BY <1>1, <3>1 DEF CurrentEntry
    <3>2. CASE PageOf(l) \notin resident'
      <4>1. CurrentEntry(l)' = EntryAt(log, ckpt.index, l)
        BY <1>2, <3>2 DEF CurrentEntry, EntryIn
      <4> QED
        BY <1>1, <3>2, <4>1, MappedClean
    <3> QED
      BY <3>1, <3>2
  <2>2. \A l \in Lbas : CurrentEntry(l)' = CurrentEntry(l)
    BY <1>2, <2>1, CurrentIsMapped
  <2>3. {l \in Lbas : CurrentEntry(l).phys # 0}' = {l \in Lbas : CurrentEntry(l).phys # 0}
    BY <2>2
  <2> QED
    BY <2>3 DEF CacheInductive, LiveInv
<1> QED
  BY <1>3, <1>4, <1>5 DEF CacheParts

LEMMA CacheReads ==
  ASSUME CacheInductive, Fetch \/ \E p \in Pages : Read(p)
  PROVE  CacheParts'
<1>1. /\ pc \in {"up", "fetch"} /\ pc' \in {"up", "prepare"}
      /\ UNCHANGED <<log, ckpt, live>>
  BY DEF Fetch, Read, disk, rootVars
<1>2. \/ UNCHANGED <<resident, dirty, cached>>
      \/ \E p, sequential : Install(p, sequential)
  BY DEF Fetch, Read, cacheVars
<1>3. InUse /\ InUse' /\ pc \notin Publishing \cup {"replay"} /\ pc' \notin Publishing \cup {"replay"}
  BY <1>1 DEF InUse, Publishing
<1> QED
  BY <1>1, <1>2, <1>3, CacheInstall, CacheQuiet

\* open starts with an empty cache and counts the live blocks of the root.
LEMMA CacheOpen ==
  ASSUME CacheInductive, NEW o \in OpenOptions, Open(o)
  PROVE  CacheParts'
<1>1. CASE \E why : OpenFails(why)
  BY <1>1, CacheDown DEF OpenFails, InUse
<1>2. CASE ~\E why : OpenFails(why)
  <2>1. /\ pc = "down" /\ pc' = "scan" /\ UNCHANGED <<log, resident, dirty, cached>>
        /\ live' = LiveIn(ckpt'.index)
    BY <1>2 DEF Open, disk, cacheVars
  <2>2. resident = {} /\ dirty = {}
    BY <2>1 DEF CacheInductive, Inductive, ControlInv
  <2>3. ~Windowed' /\ ~Building'
    BY <2>1 DEF Windowed, Building, Publishing
  <2>4. CacheCoherent' /\ CandCoherent' /\ PendInv'
    BY <2>1, <2>2, <2>3 DEF CacheCoherent, CandCoherent, PendInv, Publishing
  <2>5. LiveInv'
    <3>1. \A l \in Lbas : CurrentEntry(l)' = EntryAt(log, ckpt'.index, l)
      BY <2>1, <2>2, <2>3 DEF CurrentEntry, EntryIn
    <3>2. \A l \in Lbas : CurrentEntry(l)'.phys # 0 <=>
            /\ ckpt'.index[PageOf(l)] # 0
            /\ log[ckpt'.index[PageOf(l)]].ents[l].phys # 0
      BY <3>1 DEF EntryAt, Unmapped
    <3>3. {l \in Lbas : CurrentEntry(l).phys # 0}'
            = {l \in Lbas : /\ ckpt'.index[PageOf(l)] # 0
                            /\ log[ckpt'.index[PageOf(l)]].ents[l].phys # 0}
      BY <3>2
    <3> QED
      BY <2>1, <3>3 DEF LiveInv, LiveIn
  <2> QED
    BY <2>4, <2>5 DEF CacheParts
<1> QED
  BY <1>1, <1>2

\* recover: the cache is empty, and the candidate starts from the active index.
LEMMA CacheScanEnd ==
  ASSUME CacheInductive, ScanEnd
  PROVE  CacheParts'
<1>1. CASE \E why : OpenFails(why)
  BY <1>1, CacheDown DEF OpenFails, InUse
<1>2. CASE ~\E why : OpenFails(why)
  <2>1. /\ pc = "scan" /\ UNCHANGED <<log, ckpt, resident, dirty, cached, live, marked>>
        /\ pc' \in {"clear", "replay"}
        /\ op' = "fast" \/ (op' = "recover" /\ cand' = Candidate)
    BY <1>2 DEF ScanEnd, disk, cacheVars
  <2>2. resident = {} /\ dirty = {} /\ InUse /\ InUse' /\ ~Windowed
    BY <2>1 DEF CacheInductive, Inductive, ControlInv, InUse, Windowed, Building, Publishing
  <2>3. Windowed' => op' = "recover" /\ cand'.index = ckpt.index
    BY <2>1 DEF Windowed, Candidate
  <2>4. CacheCoherent' /\ CandCoherent'
    BY <2>1, <2>2 DEF CacheCoherent, CandCoherent, Publishing
  <2>5. PendInv'
    BY <2>1, <2>2, <2>3 DEF PendInv, Publishing
  <2>6. LiveInv'
    <3>1. \A l \in Lbas : CurrentEntry(l)' = CurrentEntry(l)
      BY <2>1, <2>2, <2>3 DEF CurrentEntry, EntryIn
    <3>2. {l \in Lbas : CurrentEntry(l).phys # 0}' = {l \in Lbas : CurrentEntry(l).phys # 0}
      BY <3>1
    <3> QED
      BY <2>1, <2>2, <3>2 DEF CacheInductive, LiveInv
  <2> QED
    BY <2>4, <2>5, <2>6 DEF CacheParts
<1> QED
  BY <1>1, <1>2

\* The window is replayed: its pages are the dirty ones, all still to append.
LEMMA CacheReplayEnd ==
  ASSUME CacheInductive, ReplayEnd
  PROVE  CacheParts'
<1>1. /\ UNCHANGED <<log, op, ckpt, cand, resident, dirty, cached, live>>
      /\ pc = "replay"
      /\ pc' = IF op = "fast" THEN "clear" ELSE "append"
      /\ pend' = IF op = "fast" THEN {} ELSE dirty
      /\ marked' = IF op = "fast" THEN {} ELSE marked
  BY DEF ReplayEnd, disk, cacheVars
<1>2. op \in {"fast", "recover"} /\ resident = dirty /\ InUse /\ InUse'
  BY <1>1 DEF CacheInductive, Inductive, ControlInv, PendInv, InUse
<1>3. Windowed <=> Windowed'
  BY <1>1, <1>2 DEF Windowed, Building, Publishing
<1>4. CacheCoherent' /\ CandCoherent'
  BY <1>1, <1>2 DEF CacheCoherent, CandCoherent, Publishing
<1>5. PendInv'
  BY <1>1, <1>2, <1>3 DEF CacheInductive, PendInv, Publishing
<1>6. LiveInv'
  <2>1. \A l \in Lbas : CurrentEntry(l)' = CurrentEntry(l)
    BY <1>1, <1>3 DEF CurrentEntry, EntryIn
  <2>2. {l \in Lbas : CurrentEntry(l).phys # 0}' = {l \in Lbas : CurrentEntry(l).phys # 0}
    BY <2>1
  <2> QED
    BY <1>1, <1>2, <2>2 DEF CacheInductive, LiveInv
<1> QED
  BY <1>4, <1>5, <1>6 DEF CacheParts

\* apply: pages of the window are found through the active root, which agrees with
\* the candidate on every page that no window has appended.
LEMMA CacheReplayRecord ==
  ASSUME CacheInductive, NEW b \in Addr, ReplayRecord(b)
  PROVE  CacheParts'
<1> DEFINE ents == log[b].ents
           rec == IF log[b].kind = "data"
                    THEN {l \in MappedLbas(ents) : PageOf(l) \in window} ELSE {}
           pages == resident \cup PagesOf(rec)
<1>1. CASE \E why : OpenFails(why)
  BY <1>1, CacheDown DEF OpenFails, InUse
<1>2. CASE ~\E why : OpenFails(why)
  <2>1. /\ pc = "replay" /\ pc' = "replay" /\ UNCHANGED <<log, op, ckpt, cand, pend, marked, window>>
        /\ resident' = pages /\ dirty' = dirty \cup PagesOf(rec)
        /\ cached' = [l \in Lbas |-> IF PageOf(l) \notin pages THEN Unmapped
                                     ELSE IF l \in rec THEN ents[l]
                                     ELSE MappedEntry(l)]
        /\ live' = live + Cardinality({l \in rec : MappedEntry(l).phys = 0})
    BY <1>2 DEF ReplayRecord, disk, rootVars
  <2>2. /\ rec \in SUBSET Lbas /\ \A l \in rec : ents[l].phys # 0
        /\ PagesOf(rec) \subseteq window
    BY DEF MappedLbas, PagesOf
  <2> HIDE DEF rec, ents
  <2>3. /\ resident = dirty /\ window \subseteq marked /\ InUse /\ InUse' /\ (Windowed <=> Windowed')
        /\ op \in {"fast", "recover"}
    BY <2>1 DEF CacheInductive, Inductive, ControlInv, PendInv, InUse, Windowed, Building
  <2>4. CacheCoherent' /\ CandCoherent'
    BY <2>1, <2>3 DEF CacheCoherent, CandCoherent, Publishing
  <2>5. PendInv'
    BY <2>1, <2>3 DEF CacheInductive, PendInv, Publishing
  <2>6. LiveInv'
    <3> DEFINE old == {l \in Lbas : CurrentEntry(l).phys # 0}
               new == {l \in Lbas : CurrentEntry(l)'.phys # 0}
    <3>1. \A l \in Lbas : PageOf(l) \in pages => MappedEntry(l) = CurrentEntry(l)
      <4>1. \A p \in window : Windowed => cand.index[p] = ckpt.index[p]
        BY <2>3 DEF CacheInductive, PendInv
      <4>2. \A l \in Lbas : PageOf(l) \in window /\ Windowed =>
              EntryAt(log, cand.index, l) = EntryAt(log, ckpt.index, l)
        BY <4>1 DEF EntryAt
      <4> QED
        BY <2>2, <4>2, SnapshotEntryIs DEF CurrentEntry, MappedEntry, EntryIn
    <3>2. \A l \in rec : PageOf(l) \in pages
      BY DEF PagesOf
    <3>3. \A l \in Lbas : CurrentEntry(l)' = IF l \in rec THEN ents[l] ELSE CurrentEntry(l)
      <4> SUFFICES ASSUME NEW l \in Lbas
                   PROVE  CurrentEntry(l)' = IF l \in rec THEN ents[l] ELSE CurrentEntry(l)
        OBVIOUS
      <4>1. CASE PageOf(l) \in pages
        BY <2>1, <3>1, <4>1 DEF CurrentEntry
      <4>2. CASE PageOf(l) \notin pages
        BY <2>1, <2>3, <3>2, <4>2 DEF CurrentEntry, EntryIn
      <4> QED
        BY <4>1, <4>2
    <3>4. \A l \in Lbas : l \in new <=> (l \in old \/ l \in rec)
      BY <2>2, <3>3
    <3>5. rec \ old = {l \in rec : MappedEntry(l).phys = 0}
      BY <2>2, <3>1, <3>2
    <3>6. old \in SUBSET Lbas /\ new \in SUBSET Lbas
      OBVIOUS
    <3>7. live = Cardinality(old)
      BY <2>3 DEF CacheInductive, LiveInv
    <3>8. Cardinality(new) = Cardinality(old) + Cardinality(rec \ old)
      <4> HIDE DEF old, new
      <4> QED
        BY <2>2, <3>4, <3>6, LiveGrows
    <3>9. live' = Cardinality(new)
      BY <2>1, <3>5, <3>7, <3>8
    <3> QED
      BY <3>9 DEF LiveInv
  <2> QED
    BY <2>4, <2>5, <2>6 DEF CacheParts
<1> QED
  BY <1>1, <1>2

LEMMA CacheWriteRecord ==
  ASSUME CacheInductive, Inductive', WriteRecord
  PROVE  CacheParts'
<1> PICK rec \in SUBSET todo : /\ Lowest(rec, MaxPayload, todo)
                               /\ IF RecordFits(rec) THEN AppendRecord(rec) ELSE Panic
  BY DEF WriteRecord
<1>1. pc = "release" /\ Inductive
  BY DEF WriteRecord, CacheInductive
<1> QED
  BY <1>1, RecordFacts, CacheAppendRecord

-----------------------------------------------------------------------------
(* Theorems *)

\* Every step keeps the invariant.
LEMMA CacheNext ==
  ASSUME CacheInductive, [Next]_vars
  PROVE  CacheInductive'
<1>1. Inductive'
  BY NextStep DEF CacheInductive
<1> SUFFICES CacheParts'
  BY <1>1 DEF CacheParts, CacheInductive
<1>2. CASE UNCHANGED vars
  <2>1. \A l : CurrentEntry(l)' = CurrentEntry(l) /\ SnapshotEntry(l)' = SnapshotEntry(l)
    BY <1>2 DEF vars, CurrentEntry, SnapshotEntry, EntryIn, Windowed, Building
  <2>2. {l \in Lbas : CurrentEntry(l).phys # 0}' = {l \in Lbas : CurrentEntry(l).phys # 0}
    BY <2>1
  <2>3. CacheCoherent' /\ LiveInv'
    BY <1>2, <2>1, <2>2 DEF vars, CacheInductive, CacheCoherent, LiveInv, InUse
  <2>4. CandCoherent' /\ PendInv'
    BY <1>2 DEF vars, CacheInductive, CandCoherent, PendInv, EntryIn, InUse, Windowed, Building
  <2> QED
    BY <2>3, <2>4 DEF CacheParts
<1>3. CASE \E o \in OpenOptions : Open(o)
  BY <1>3, CacheOpen
<1>4. CASE Client
  BY <1>4, CacheCalls, CacheReads DEF Client
<1>5. CASE Closed \/ Kill \/ IoError \/ Drop \/ PowerLoss
  BY <1>5, CacheDown DEF Closed, Kill, IoError, Drop, PowerLoss, InUse
<1>6. CASE Engine
  BY <1>1, <1>5, <1>6, CachePrepare, CacheAppendBatch, CacheAppendDone, CachePersist,
     CacheSyncDescriptor, CacheWriteRecord, CacheReads, CacheCalls, CacheReplayRecord,
     CacheScanEnd, CacheReplayEnd, CacheClearBlock
  DEF Engine
<1> QED
  BY <1>2, <1>3, <1>4, <1>5, <1>6 DEF Next

LEMMA CacheInit ==
  ASSUME Init
  PROVE  CacheInductive
<1>1. pc = "down"
  BY DEF Init
<1> QED
  BY <1>1, InitStep DEF CacheInductive, CacheCoherent, CandCoherent, PendInv, LiveInv, InUse,
     Windowed, Building, Publishing

\* The invariant of the cache holds throughout.
THEOREM CacheInductiveHolds == Spec => []CacheInductive
<1>1. Init => CacheInductive
  BY CacheInit
<1>2. CacheInductive /\ [Next]_vars => CacheInductive'
  BY CacheNext
<1> QED
  BY <1>1, <1>2, PTL DEF Spec

\* Evicting a clean page loses nothing: it equals the snapshot that the active
\* index names (mapping cache, checkpoint_published, prefetch).
THEOREM CacheIsCoherent == Spec => []CacheCoherent
<1>1. CacheInductive => CacheCoherent
  BY DEF CacheInductive
<1> QED
  BY <1>1, CacheInductiveHolds, PTL

\* live_blocks, counted up record by record and window by window, is the number of
\* mapped logical blocks (write_record, apply, load).
THEOREM LiveBlocksExact == Spec => []LiveExact
<1>1. CacheInductive => LiveExact
  <2> SUFFICES ASSUME CacheInductive,
                      pc \in {"up", "release", "fetch", "flushsync", "closing", "clear",
                              "clearsync"}
               PROVE  live = Cardinality({l \in Lbas : MappedEntry(l).phys # 0})
    BY DEF LiveExact
  <2>1. ~Windowed /\ InUse
    BY DEF Windowed, Building, Publishing, InUse
  <2>2. \A l \in Lbas : CurrentEntry(l) = MappedEntry(l)
    BY <2>1, CurrentIsMapped
  <2>3. {l \in Lbas : CurrentEntry(l).phys # 0} = {l \in Lbas : MappedEntry(l).phys # 0}
    BY <2>2
  <2> QED
    BY <2>1, <2>3 DEF CacheInductive, LiveInv
<1> QED
  BY <1>1, CacheInductiveHolds, PTL
=============================================================================
