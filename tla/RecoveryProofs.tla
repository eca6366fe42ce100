--------------------------- MODULE RecoveryProofs ---------------------------
(***************************************************************************)
(* Machine-checked proofs about roots and recovery while no power is lost: *)
(* the disk always holds a root to open, and what recovery rebuilds from   *)
(* it is what the appended records make up, for every geometry, every set  *)
(* of options, and any number of kills and I/O errors.                     *)
(***************************************************************************)
EXTENDS VolumeProofs

-----------------------------------------------------------------------------
(* Blocks and entries *)

LEMMA OtherSlot ==
  ASSUME NEW s \in Slot
  PROVE  Other(s) \in Slot /\ Other(s) # s /\ Other(Other(s)) = s
         /\ \A t \in Slot : t = s \/ t = Other(s)
  BY DEF Slot, Other

LEMMA EntryUpToMono ==
  ASSUME NEW e, NEW a \in Int, NEW b \in Int, a <= b, EntryUpTo(e, a)
  PROVE  EntryUpTo(e, b)
  BY GeometryAssumption DEF EntryUpTo

LEMMA NothingMapped ==
  ASSUME NEW a
  PROVE  EntryUpTo(Unmapped, a)
  BY DEF EntryUpTo

\* A snapshot that append_batch writes at block a, from a cache whose entries lead
\* to blocks before it.
LEMMA SnapshotValid ==
  ASSUME NEW ents, NEW lsn, NEW p, NEW a \in Nat \ {0},
         \A l \in Lbas : EntryUpTo(ents[l], a - 1)
  PROVE  BlockValid(Snapshot(lsn, a - 1, p, PageSlice(p, ents)), a)
<1> DEFINE block == Snapshot(lsn, a - 1, p, PageSlice(p, ents))
<1>1. /\ block.kind = "page" /\ block.bound = a /\ block.page = p
      /\ block.ents = PageSlice(p, ents)
  BY DEF Snapshot
<1>2. \A l \in Lbas : block.ents[l] = IF PageOf(l) = p THEN ents[l] ELSE Unmapped
  BY <1>1 DEF PageSlice
<1>3. \A l \in Lbas : EntryUpTo(block.ents[l], a - 1)
  BY <1>2, NothingMapped
<1> HIDE DEF block
<1>4. BlockValid(block, a)
  BY <1>1, <1>2, <1>3 DEF BlockValid
<1> QED
  BY <1>4 DEF block

LEMMA FooterValid ==
  ASSUME NEW ents, NEW lsn, NEW prev, NEW a, \A l \in Lbas : EntryUpTo(ents[l], a - 1)
  PROVE  BlockValid(Footer(lsn, prev, a, ents), a)
  BY DEF BlockValid, Footer

LEMMA PlainValid ==
  ASSUME NEW a
  PROVE  BlockValid(Blank, a) /\ \A v : BlockValid(Payload(v), a)
  BY DEF BlockValid, Blank, Payload

-----------------------------------------------------------------------------
(* Chains of records *)

LEMMA IsNextIs ==
  ASSUME NEW pos \in Position, NEW b
  PROVE  IsNext(pos, b) <=> NextIn(log, pos, b)
<1>1. \A c : Follows(pos, c) <=> FollowsIn(log, pos, c)
  BY DEF Follows, FollowsIn
<1>2. pos.bound \in Nat /\ MaxRecord \in Nat /\ \A a \in Addr : a \in Nat
  BY GeometryAssumption DEF Position, MaxRecord, Addr
<1> QED
  BY <1>1, <1>2 DEF IsNext, NextIn

LEMMA PayloadOfIs ==
  ASSUME NEW l, NEW e
  PROVE  PayloadOf(l, e) = PayloadIn(log, l, e)
  BY DEF PayloadOf, PayloadIn

\* read_next finds at most one record.
LEMMA NextUnique ==
  ASSUME NEW blocks, NEW pos \in Position, NEW a, NEW b,
         NextIn(blocks, pos, a), NextIn(blocks, pos, b)
  PROVE  a = b
<1>1. pos.bound \in Nat /\ MaxRecord \in Nat /\ a \in Nat /\ b \in Nat
  BY GeometryAssumption DEF Position, MaxRecord, Addr, NextIn
<1>2. ~(a < b) /\ ~(b < a)
  BY <1>1 DEF NextIn
<1> QED
  BY <1>1, <1>2

\* Blocks after a record do not change what read_next finds.
LEMMA NextKept ==
  ASSUME NEW old, NEW new, NEW pos \in Position, NEW b, NextIn(old, pos, b),
         \A a \in Addr : a <= b => new[a] = old[a]
  PROVE  NextIn(new, pos, b)
<1>1. pos.bound \in Nat /\ MaxRecord \in Nat /\ b \in Nat /\ \A a \in Addr : a \in Nat
  BY GeometryAssumption DEF Position, MaxRecord, Addr, NextIn
<1>2. \A a \in Addr : a <= b => (FollowsIn(new, pos, a) <=> FollowsIn(old, pos, a))
  BY DEF FollowsIn
<1> QED
  BY <1>1, <1>2 DEF NextIn

\* The positions of a chain.
LEMMA ChainPosition ==
  ASSUME NEW blocks, NEW f, NEW g, NEW c \in Checkpoint, NEW end \in Position,
         Chain(blocks, f, g, c, end), NEW n \in c.lsn .. end.lsn
  PROVE  /\ n \in Nat /\ f[n] \in Nat /\ c.bound <= f[n] /\ f[n] <= end.bound
         /\ At(n, f[n]) \in Position /\ end.bound \in Nat /\ c.bound \in Nat
         /\ c.lsn \in Nat /\ end.lsn \in Nat
  BY DEF Chain, Checkpoint, Position, At

\* Blocks after the end of a chain do not matter to it.
LEMMA ChainKept ==
  ASSUME NEW old, NEW new, NEW f, NEW g, NEW c \in Checkpoint, NEW end \in Position,
         Chain(old, f, g, c, end),
         \A p \in Pages : c.index[p] = 0 \/ (c.index[p] \in Addr /\ c.index[p] <= c.bound),
         \A a \in Addr : a <= end.bound => new[a] = old[a]
  PROVE  Chain(new, f, g, c, end)
<1>1. \A n \in c.lsn .. end.lsn :
         /\ n \in Nat /\ f[n] \in Nat /\ c.bound <= f[n] /\ f[n] <= end.bound
         /\ At(n, f[n]) \in Position /\ end.bound \in Nat /\ c.bound \in Nat
         /\ c.lsn \in Nat /\ end.lsn \in Nat
  BY ChainPosition
<1>2. c.lsn \in Nat /\ end.lsn \in Nat /\ c.bound \in Nat /\ end.bound \in Nat /\ c.bound <= end.bound
  BY <1>1 DEF Chain, Checkpoint, Position
<1>3. \A l \in Lbas : EntryAt(new, c.index, l) = EntryAt(old, c.index, l)
  <2>1. \A a \in Addr : a <= c.bound => new[a] = old[a]
    BY <1>2, GeometryAssumption DEF Addr
  <2> QED
    BY <2>1, EntryKept
<1>4. ASSUME NEW n \in c.lsn + 1 .. end.lsn
      PROVE  /\ NextIn(new, At(n - 1, f[n - 1]), f[n])
             /\ new[f[n]] = old[f[n]]
  <2>1. n - 1 \in c.lsn .. end.lsn /\ n \in c.lsn .. end.lsn
    BY <1>2
  <2>2. NextIn(old, At(n - 1, f[n - 1]), f[n])
    BY DEF Chain
  <2>3. f[n] \in Addr /\ \A a \in Addr : a <= f[n] => new[a] = old[a]
    BY <1>1, <1>2, <2>1, <2>2, GeometryAssumption DEF Addr, NextIn
  <2> QED
    BY <1>1, <2>1, <2>2, <2>3, NextKept
<1> QED
  BY <1>3, <1>4 DEF Chain

\* A chain to end goes on to stop, where the mapping is ents.
GoesOn(blocks, f, g, c, end, stop, ents) ==
  \E f2, g2 : /\ Chain(blocks, f2, g2, c, stop)
              /\ \A n \in c.lsn .. end.lsn : f2[n] = f[n] /\ g2[n] = g[n]
              /\ g2[stop.lsn] = ents

\* One more record.
LEMMA ChainRecord ==
  ASSUME NEW blocks, NEW f, NEW g, NEW c \in Checkpoint, NEW end \in Position,
         Chain(blocks, f, g, c, end), NEW b, NextIn(blocks, end, b), NEW ents,
         \A l \in Lbas : ents[l] = Applied(blocks[b], g[end.lsn], l)
  PROVE  GoesOn(blocks, f, g, c, end, At(end.lsn + 1, b), ents)
<1> DEFINE last == end.lsn + 1
           f2 == [n \in c.lsn .. last |-> IF n = last THEN b ELSE f[n]]
           g2 == [n \in c.lsn .. last |-> IF n = last THEN ents ELSE g[n]]
           stop == At(last, b)
<1>1. /\ c.lsn \in Nat /\ end.lsn \in Nat /\ c.bound \in Nat /\ end.bound \in Nat
      /\ c.lsn <= end.lsn /\ MaxRecord \in Nat /\ f[end.lsn] = end.bound
      /\ b \in Nat /\ b > end.bound /\ stop.lsn = last /\ stop.bound = b
  BY GeometryAssumption DEF Chain, Checkpoint, Position, MaxRecord, NextIn, Addr, At
<1>2. /\ \A n \in c.lsn .. end.lsn : f2[n] = f[n] /\ g2[n] = g[n]
      /\ f2[last] = b /\ g2[last] = ents /\ end = At(end.lsn, end.bound)
  BY <1>1 DEF Position, At
<1>3. \A n \in c.lsn .. last : n \in c.lsn .. end.lsn \/ n = last
  BY <1>1
<1> HIDE DEF f2, g2, stop
<1>4. \A n \in c.lsn .. last : f2[n] \in c.bound .. b
  <2>1. \A n \in c.lsn .. end.lsn : f[n] \in c.bound .. end.bound
    BY DEF Chain
  <2> QED
    BY <1>1, <1>2, <1>3, <2>1
<1>5. ASSUME NEW n \in c.lsn + 1 .. last
      PROVE  /\ NextIn(blocks, At(n - 1, f2[n - 1]), f2[n])
             /\ \A l \in Lbas : g2[n][l] = Applied(blocks[f2[n]], g2[n - 1], l)
  <2>1. CASE n = last
    <3>1. n - 1 = end.lsn /\ end.lsn \in c.lsn .. end.lsn
      BY <1>1, <2>1
    <3> QED
      BY <1>1, <1>2, <2>1, <3>1
  <2>2. CASE n # last
    <3>1. n \in c.lsn + 1 .. end.lsn /\ n \in c.lsn .. end.lsn /\ n - 1 \in c.lsn .. end.lsn
      BY <1>1, <2>2
    <3> QED
      BY <1>2, <3>1 DEF Chain
  <2> QED
    BY <2>1, <2>2
<1>6. \A l \in Lbas : g2[c.lsn][l] = EntryAt(blocks, c.index, l) /\ f2[c.lsn] = c.bound
  <2>1. c.lsn \in c.lsn .. end.lsn
    BY <1>1
  <2> QED
    BY <1>2, <2>1 DEF Chain
<1>7. f2[c.lsn] = c.bound
  BY <1>1, <1>2, c.lsn \in c.lsn .. end.lsn DEF Chain
<1>8. Chain(blocks, f2, g2, c, stop)
  BY <1>1, <1>2, <1>4, <1>5, <1>6, <1>7 DEF Chain
<1>9. GoesOn(blocks, f, g, c, end, stop, ents)
  BY <1>1, <1>2, <1>8 DEF GoesOn
<1> QED
  BY <1>9 DEF stop

\* A mapping page with LSN and boundary one past pos.
PageAfter(blocks, pos) ==
  /\ pos.bound + 1 \in Addr
  /\ blocks[pos.bound + 1].kind = "page"
  /\ blocks[pos.bound + 1].lsn = pos.lsn + 1
  /\ blocks[pos.bound + 1].prev = pos.bound
  /\ blocks[pos.bound + 1].bound = pos.bound + 1

PagesAfter(blocks, pos, k) ==
  \A i \in 0 .. k - 1 : PageAfter(blocks, At(pos.lsn + i, pos.bound + i))

LEMMA PageNext ==
  ASSUME NEW blocks, NEW pos \in Position, PageAfter(blocks, pos)
  PROVE  NextIn(blocks, pos, pos.bound + 1)
<1>1. pos.bound \in Nat /\ MaxRecord \in Nat /\ MaxRecord >= 1
  BY GeometryAssumption DEF Position, MaxRecord
<1> QED
  BY <1>1 DEF NextIn, FollowsIn, PageAfter, Addr

\* k more snapshots, one block each, which replay ignores.
LEMMA ChainPages ==
  ASSUME NEW blocks, NEW f, NEW g, NEW c \in Checkpoint, NEW end \in Position,
         Chain(blocks, f, g, c, end), NEW k \in Nat, PagesAfter(blocks, end, k)
  PROVE  GoesOn(blocks, f, g, c, end, At(end.lsn + k, end.bound + k), g[end.lsn])
<1> DEFINE last == end.lsn + k
           f2 == [n \in c.lsn .. last |-> IF n <= end.lsn THEN f[n] ELSE end.bound + (n - end.lsn)]
           g2 == [n \in c.lsn .. last |-> IF n <= end.lsn THEN g[n] ELSE g[end.lsn]]
           stop == At(last, end.bound + k)
<1>1. /\ c.lsn \in Nat /\ end.lsn \in Nat /\ c.bound \in Nat /\ end.bound \in Nat
      /\ c.lsn <= end.lsn /\ f[end.lsn] = end.bound
      /\ stop.lsn = last /\ stop.bound = end.bound + k
  BY GeometryAssumption DEF Chain, Checkpoint, Position, At
<1>2. /\ \A n \in c.lsn .. end.lsn : f2[n] = f[n] /\ g2[n] = g[n]
      /\ \A n \in end.lsn .. last : f2[n] = end.bound + (n - end.lsn) /\ g2[n] = g[end.lsn]
  BY <1>1
<1>3. \A n \in c.lsn .. last : n \in c.lsn .. end.lsn \/ n \in end.lsn .. last
  BY <1>1
<1> HIDE DEF f2, g2, stop
<1>4. \A n \in c.lsn .. last : f2[n] \in c.bound .. stop.bound
  <2>1. \A n \in c.lsn .. end.lsn : f[n] \in c.bound .. end.bound
    BY DEF Chain
  <2>2. end.bound \in c.bound .. end.bound
    BY <1>1, <2>1
  <2> QED
    BY <1>1, <1>2, <1>3, <2>1, <2>2
<1>5. ASSUME NEW n \in c.lsn + 1 .. last
      PROVE  /\ NextIn(blocks, At(n - 1, f2[n - 1]), f2[n])
             /\ \A l \in Lbas : g2[n][l] = Applied(blocks[f2[n]], g2[n - 1], l)
  <2>1. CASE n > end.lsn
    <3> DEFINE i == (n - 1) - end.lsn
               pos == At(end.lsn + i, end.bound + i)
    <3>1. /\ n \in end.lsn .. last /\ n - 1 \in end.lsn .. last /\ i \in 0 .. k - 1
          /\ end.lsn + i = n - 1 /\ end.bound + i + 1 = end.bound + (n - end.lsn)
      BY <1>1, <2>1
    <3>2. f2[n - 1] = end.bound + i /\ f2[n] = end.bound + i + 1
      BY <1>1, <1>2, <3>1
    <3>3. PageAfter(blocks, pos) /\ pos \in Position /\ pos.bound = end.bound + i
      BY <1>1, <3>1 DEF At, Position, PagesAfter
    <3>4. pos = At(n - 1, f2[n - 1])
      BY <3>1, <3>2
    <3>5. NextIn(blocks, pos, f2[n]) /\ blocks[f2[n]].kind = "page"
      BY <3>2, <3>3, PageNext DEF PageAfter
    <3> HIDE DEF pos
    <3>6. \A l \in Lbas : g2[n][l] = Applied(blocks[f2[n]], g2[n - 1], l)
      BY <1>2, <3>1, <3>5 DEF Applied
    <3> QED
      BY <3>4, <3>5, <3>6
  <2>2. CASE n <= end.lsn
    <3>1. n \in c.lsn + 1 .. end.lsn /\ n \in c.lsn .. end.lsn /\ n - 1 \in c.lsn .. end.lsn
      BY <1>1, <2>2
    <3> QED
      BY <1>2, <3>1 DEF Chain
  <2> QED
    BY <1>1, <2>1, <2>2
<1>6. f2[c.lsn] = c.bound /\ \A l \in Lbas : g2[c.lsn][l] = EntryAt(blocks, c.index, l)
  <2>1. c.lsn \in c.lsn .. end.lsn
    BY <1>1
  <2> QED
    BY <1>2, <2>1 DEF Chain
<1>7. f2[last] = stop.bound /\ g2[last] = g[end.lsn]
  BY <1>1, <1>2, last \in end.lsn .. last, last - end.lsn = k
<1>8. Chain(blocks, f2, g2, c, stop)
  BY <1>1, <1>4, <1>5, <1>6, <1>7 DEF Chain
<1>9. GoesOn(blocks, f, g, c, end, stop, g[end.lsn])
  BY <1>1, <1>2, <1>7, <1>8 DEF GoesOn
<1> QED
  BY <1>9 DEF stop

\* A root that covers the whole log has an empty chain.
LEMMA ChainEmpty ==
  ASSUME NEW blocks, NEW c \in Checkpoint
  PROVE  \E f, g : /\ Chain(blocks, f, g, c, PositionOf(c)) /\ f[c.lsn] = c.bound
                   /\ \A l \in Lbas : g[c.lsn][l] = EntryAt(blocks, c.index, l)
<1> DEFINE f == [n \in {c.lsn} |-> c.bound]
           g == [n \in {c.lsn} |-> [l \in Lbas |-> EntryAt(blocks, c.index, l)]]
           stop == PositionOf(c)
<1>1. stop.lsn = c.lsn /\ stop.bound = c.bound /\ c.lsn \in Nat /\ c.bound \in Nat
  BY DEF PositionOf, At, Checkpoint
<1>2. f[c.lsn] = c.bound /\ \A l \in Lbas : g[c.lsn][l] = EntryAt(blocks, c.index, l)
  OBVIOUS
<1>3. (\A n \in c.lsn .. c.lsn : n = c.lsn) /\ c.lsn + 1 .. c.lsn = {}
  BY <1>1
<1> HIDE DEF f, g, stop
<1>4. Chain(blocks, f, g, c, stop)
  BY <1>1, <1>2, <1>3 DEF Chain
<1> QED
  BY <1>2, <1>4 DEF stop

\* Blocks after the end do not change what a mapping leads to.
LEMMA LeadsKept ==
  ASSUME NEW old, NEW new, NEW image, NEW ents, NEW end \in Position,
         Leads(old, image, ents, end), end.bound < BackingBlocks,
         \A a \in Addr : a <= end.bound => new[a] = old[a]
  PROVE  Leads(new, image, ents, end)
<1> SUFFICES ASSUME NEW l \in Lbas
             PROVE  PayloadIn(new, l, ents[l]) = PayloadIn(old, l, ents[l])
  BY DEF Leads
<1>1. EntryUpTo(ents[l], end.bound) /\ end.bound \in Nat
  BY DEF Leads, Position
<1>2. CASE ents[l] = Unmapped
  BY <1>2 DEF PayloadIn, Unmapped
<1>3. CASE ents[l].phys \in LogStart .. end.bound
  BY <1>1, <1>3, GeometryAssumption DEF PayloadIn, Addr
<1> QED
  BY <1>1, <1>2, <1>3 DEF EntryUpTo

LEMMA LeadsFurther ==
  ASSUME NEW blocks, NEW image, NEW ents, NEW end \in Position, NEW stop \in Position,
         Leads(blocks, image, ents, end), end.bound <= stop.bound
  PROVE  Leads(blocks, image, ents, stop)
  BY EntryUpToMono DEF Leads, Position

-----------------------------------------------------------------------------
(* What a write puts in the log *)

\* The first count blocks after the candidate are snapshots of its pages, and
\* no other block changes.
LEMMA SnapshotBlocks ==
  ASSUME TypeOK, LogStart <= cand.bound + 1, NEW S \in SUBSET Pages, NEW count \in Nat,
         count <= Cardinality(S), NEW a \in Addr
  PROVE  /\ a <= cand.bound \/ a > cand.bound + count => WithSnapshots(S, count)[a] = log[a]
         /\ a \in cand.bound + 1 .. cand.bound + count =>
              \E p \in S : WithSnapshots(S, count)[a]
                = Snapshot(cand.lsn + (a - cand.bound), a - 1, p, PageSlice(p, cached))
<1>1. cand.bound \in Nat /\ a \in Nat /\ \A p \in S : Rank(p, S) \in Nat
  BY PageRank, GeometryAssumption DEF TypeOK, HandleTypeOK, Checkpoint, Addr
<1>2. a <= cand.bound \/ a > cand.bound + count => WithSnapshots(S, count)[a] = log[a]
  BY <1>1 DEF WithSnapshots
<1>3. ASSUME a \in cand.bound + 1 .. cand.bound + count
      PROVE  \E p \in S : WithSnapshots(S, count)[a]
                = Snapshot(cand.lsn + (a - cand.bound), a - 1, p, PageSlice(p, cached))
  <2> DEFINE i == a - (cand.bound + 1)
  <2>1. S \in SUBSET Nat /\ IsFiniteSet(S) /\ Cardinality(S) \in Nat
    BY PagesFinite, PageCountType DEF Pages
  <2>2. i \in Nat /\ i < count /\ i < Cardinality(S) /\ a = cand.bound + 1 + i
    BY <1>1, <1>3, <2>1
  <2> HIDE DEF i
  <2>3. PICK p \in S : Rank(p, S) = i
    BY <2>1, <2>2, RankOnto
  <2> QED
    BY <2>2, <2>3, SnapshotOf
<1> QED
  BY <1>2, <1>3

LEMMA SnapshotsFollow ==
  ASSUME TypeOK, LogStart <= cand.bound + 1, NEW S \in SUBSET Pages, NEW count \in Nat,
         count <= Cardinality(S), cand.bound + count < BackingBlocks, NEW i \in 0 .. count - 1
  PROVE  PageAfter(WithSnapshots(S, count), At(cand.lsn + i, cand.bound + i))
<1> DEFINE a == cand.bound + i + 1
           pos == At(cand.lsn + i, cand.bound + i)
<1>1. cand.bound \in Nat /\ cand.lsn \in Nat
  BY DEF TypeOK, HandleTypeOK, Checkpoint
<1>2. /\ a \in Addr /\ a \in cand.bound + 1 .. cand.bound + count
      /\ a - cand.bound = i + 1 /\ a - 1 = cand.bound + i
  BY <1>1, GeometryAssumption DEF Addr
<1>3. PICK p \in S : WithSnapshots(S, count)[a]
                       = Snapshot(cand.lsn + (a - cand.bound), a - 1, p, PageSlice(p, cached))
  BY <1>2, SnapshotBlocks
<1>4. pos.lsn = cand.lsn + i /\ pos.bound = cand.bound + i
  BY DEF At
<1> QED
  BY <1>1, <1>2, <1>3, <1>4 DEF PageAfter, Snapshot

LEMMA SnapshotsValid ==
  ASSUME TypeOK, LogStart <= cand.bound + 1, NEW S \in SUBSET Pages, NEW count \in Nat,
         count <= Cardinality(S), LogValid, tail.bound <= cand.bound,
         \A l \in Lbas : EntryUpTo(cached[l], tail.bound), NEW a \in Addr
  PROVE  BlockValid(WithSnapshots(S, count)[a], a)
<1>1. cand.bound \in Nat /\ tail.bound \in Nat /\ a \in Nat \ {0}
  BY GeometryAssumption DEF TypeOK, HandleTypeOK, Checkpoint, Position, Addr
<1>2. CASE a \in cand.bound + 1 .. cand.bound + count
  <2>1. \A l \in Lbas : EntryUpTo(cached[l], a - 1)
    BY <1>1, <1>2, EntryUpToMono
  <2> QED
    BY <1>1, <1>2, <2>1, SnapshotBlocks, SnapshotValid
<1>3. CASE ~(a \in cand.bound + 1 .. cand.bound + count)
  BY <1>1, <1>3, SnapshotBlocks DEF LogValid
<1> QED
  BY <1>2, <1>3

\* The first count blocks after the tail are payloads, and no other block changes.
LEMMA PayloadBlocks ==
  ASSUME TypeOK, NEW rec \in SUBSET Lbas, NEW count \in Nat,
         count <= Cardinality(rec), NEW a \in Addr
  PROVE  /\ a <= tail.bound \/ a > tail.bound + count => WithPayloads(rec, count)[a] = log[a]
         /\ a \in tail.bound + 1 .. tail.bound + count =>
              \E v : WithPayloads(rec, count)[a] = Payload(v)
<1>1. tail.bound \in Nat /\ a \in Nat /\ \A l \in rec : Rank(l, rec) \in Nat
  BY LbaRank, GeometryAssumption DEF TypeOK, HandleTypeOK, Position, Addr
<1>2. a <= tail.bound \/ a > tail.bound + count => WithPayloads(rec, count)[a] = log[a]
  BY <1>1 DEF WithPayloads
<1>3. ASSUME a \in tail.bound + 1 .. tail.bound + count
      PROVE  \E v : WithPayloads(rec, count)[a] = Payload(v)
  <2> DEFINE i == a - (tail.bound + 1)
  <2>1. rec \in SUBSET Nat /\ IsFiniteSet(rec) /\ Cardinality(rec) \in Nat
    BY LbasFinite, GeometryAssumption DEF Lbas
  <2>2. i \in Nat /\ i < count /\ i < Cardinality(rec) /\ a = tail.bound + 1 + i
    BY <1>1, <1>3, <2>1
  <2> HIDE DEF i
  <2>3. PICK l \in rec : Rank(l, rec) = i
    BY <2>1, <2>2, RankOnto
  <2> QED
    BY <2>2, <2>3 DEF WithPayloads
<1> QED
  BY <1>2, <1>3

\* The payload of l is in the block that its entry names.
LEMMA PayloadPlace ==
  ASSUME TypeOK, NEW rec \in SUBSET Lbas, NEW l \in rec,
         NEW a \in Addr, a = tail.bound + 1 + Rank(l, rec)
  PROVE  WithPayloads(rec, Cardinality(rec))[a] = Payload(buffer[l])
<1> DEFINE k == CHOOSE k \in rec : a = tail.bound + 1 + Rank(k, rec)
<1>1. k \in rec /\ a = tail.bound + 1 + Rank(k, rec)
  OBVIOUS
<1>2. /\ tail.bound \in Nat /\ Rank(k, rec) \in Nat /\ Rank(l, rec) \in Nat
      /\ Rank(l, rec) < Cardinality(rec)
  BY <1>1, LbaRank DEF TypeOK, HandleTypeOK, Position
<1> HIDE DEF k
<1>3. Rank(k, rec) = Rank(l, rec)
  BY <1>1, <1>2
<1>4. rec \in SUBSET Nat /\ IsFiniteSet(rec)
  BY LbasFinite, GeometryAssumption DEF Lbas
<1>5. k = l
  BY <1>1, <1>3, <1>4, RankInjective
<1> QED
  BY <1>2, <1>5 DEF WithPayloads, k

LEMMA PayloadsValid ==
  ASSUME TypeOK, NEW rec \in SUBSET Lbas, NEW count \in Nat,
         count <= Cardinality(rec), LogValid, NEW a \in Addr
  PROVE  BlockValid(WithPayloads(rec, count)[a], a)
<1>1. tail.bound \in Nat /\ a \in Nat
  BY GeometryAssumption DEF TypeOK, HandleTypeOK, Position, Addr
<1> QED
  BY <1>1, PayloadBlocks, PlainValid DEF LogValid

\* The boundary of the record that write_record appends for rec.
RecordEnd(rec) == tail.bound + Cardinality(rec) + 1

\* A whole record: payloads, then the footer, and no other block changes.
LEMMA RecordPlaced ==
  ASSUME TypeOK, NEW rec \in SUBSET Lbas, NEW a \in Addr
  PROVE  /\ a <= tail.bound \/ a > RecordEnd(rec) => WithRecord(rec)[a] = log[a]
         /\ a \in tail.bound + 1 .. RecordEnd(rec) - 1 => \E v : WithRecord(rec)[a] = Payload(v)
         /\ a = RecordEnd(rec) =>
              WithRecord(rec)[a] = Footer(tail.lsn + 1, tail.bound, a,
                                          RecordEntries(rec, tail.bound + 1))
<1> DEFINE k == Cardinality(rec)
<1>1. tail.bound \in Nat /\ a \in Nat /\ k \in Nat
  BY LbasFinite, GeometryAssumption DEF TypeOK, HandleTypeOK, Position, Addr
<1>2. a # RecordEnd(rec) => WithRecord(rec)[a] = WithPayloads(rec, k)[a]
  BY DEF WithRecord, RecordEnd
<1>3. a = RecordEnd(rec) =>
        WithRecord(rec)[a] = Footer(tail.lsn + 1, tail.bound, a, RecordEntries(rec, tail.bound + 1))
  BY DEF WithRecord, RecordEnd
<1>4. /\ a <= tail.bound \/ a > tail.bound + k => WithPayloads(rec, k)[a] = log[a]
      /\ a \in tail.bound + 1 .. tail.bound + k => \E v : WithPayloads(rec, k)[a] = Payload(v)
  BY <1>1, PayloadBlocks
<1>5. RecordEnd(rec) = tail.bound + k + 1
  BY DEF RecordEnd
<1> QED
  BY <1>1, <1>2, <1>3, <1>4, <1>5

\* What the entries of a record lead to once it is in the log.
LEMMA RecordLeads ==
  ASSUME TypeOK, LogStart <= tail.bound + 1, NEW rec \in SUBSET Lbas, NEW l \in rec,
         RecordEnd(rec) < BackingBlocks
  PROVE  LET e == RecordEntry(l, rec, tail.bound + 1)
         IN /\ e.phys \in LogStart .. RecordEnd(rec) - 1 /\ e.phys # 0
            /\ PayloadIn(WithRecord(rec), l, e) = buffer[l]
<1> DEFINE e == RecordEntry(l, rec, tail.bound + 1)
           a == tail.bound + 1 + Rank(l, rec)
           block == WithRecord(rec)[a]
<1>1. /\ tail.bound \in Nat /\ Cardinality(rec) \in Nat /\ Rank(l, rec) \in Nat
      /\ Rank(l, rec) < Cardinality(rec)
  BY LbasFinite, LbaRank DEF TypeOK, HandleTypeOK, Position
<1>2. e.phys = a /\ e.sum = Checksum(l, a, buffer[l])
  BY DEF RecordEntry
<1>3. a \in Addr /\ a # RecordEnd(rec) /\ a \in LogStart .. RecordEnd(rec) - 1 /\ a # 0
  BY <1>1, GeometryAssumption DEF Addr, RecordEnd
<1>4. block = Payload(buffer[l])
  BY <1>1, <1>3, PayloadPlace DEF WithRecord, RecordEnd
<1>5. block.kind = "payload" /\ block.val = buffer[l]
  BY <1>4 DEF Payload
<1> HIDE DEF e, a
<1>6. PayloadIn(WithRecord(rec), l, e) = buffer[l]
  BY <1>2, <1>3, <1>5 DEF PayloadIn
<1> QED
  BY <1>2, <1>3, <1>6 DEF e

LEMMA RecordMaps ==
  ASSUME TypeOK, LogStart <= tail.bound + 1, NEW rec \in SUBSET Lbas, NEW l \in Lbas,
         RecordEnd(rec) < BackingBlocks
  PROVE  LET e == RecordEntries(rec, tail.bound + 1)[l]
         IN /\ e.phys # 0 <=> l \in rec
            /\ l \in rec => e = RecordEntry(l, rec, tail.bound + 1)
            /\ EntryUpTo(e, RecordEnd(rec) - 1)
  BY RecordLeads DEF RecordEntries, EntryUpTo, Unmapped

\* read_next finds the record: nothing before its footer looks like a record.
LEMMA RecordFollows ==
  ASSUME TypeOK, LogStart <= tail.bound + 1, NEW rec \in SUBSET Lbas,
         Cardinality(rec) \in 1 .. MaxPayload, RecordEnd(rec) < BackingBlocks
  PROVE  NextIn(WithRecord(rec), tail, RecordEnd(rec))
<1> DEFINE b == RecordEnd(rec)
           new == WithRecord(rec)
<1>1. tail.bound \in Nat /\ tail.lsn \in Nat /\ Cardinality(rec) \in Nat /\ MaxRecord = MaxPayload + 1
  BY LbasFinite DEF TypeOK, HandleTypeOK, Position, MaxRecord
<1>2. b \in Addr /\ b \in tail.bound + 1 .. tail.bound + MaxRecord /\ b # tail.bound + 1
  BY <1>1, GeometryAssumption DEF RecordEnd, Addr
<1>3. FollowsIn(new, tail, b)
  <2>1. new[b] = Footer(tail.lsn + 1, tail.bound, b, RecordEntries(rec, tail.bound + 1))
    BY <1>2, RecordPlaced
  <2> QED
    BY <1>2, <2>1 DEF FollowsIn, Footer
<1>4. \A a \in Addr : a \in tail.bound + 1 .. b - 1 => new[a].kind = "payload"
  <2>1. \A v : Payload(v).kind = "payload"
    BY DEF Payload
  <2>2. \A a \in Addr : a \in tail.bound + 1 .. b - 1 => \E v : new[a] = Payload(v)
    BY RecordPlaced
  <2> QED
    BY <2>1, <2>2
<1>5. \A a \in Addr : a \in tail.bound + 1 .. b - 1 => ~FollowsIn(new, tail, a)
  <2> HIDE DEF b, new
  <2> QED
    BY <1>4 DEF FollowsIn
<1> QED
  BY <1>2, <1>3, <1>5 DEF NextIn

LEMMA RecordValid ==
  ASSUME TypeOK, LogStart <= tail.bound + 1, NEW rec \in SUBSET Lbas,
         RecordEnd(rec) < BackingBlocks, LogValid, NEW a \in Addr
  PROVE  BlockValid(WithRecord(rec)[a], a)
<1> DEFINE ents == RecordEntries(rec, tail.bound + 1)
<1>1. tail.bound \in Nat /\ a \in Nat /\ RecordEnd(rec) \in Nat
  BY LbasFinite, GeometryAssumption DEF TypeOK, HandleTypeOK, Position, Addr, RecordEnd
<1>2. CASE a = RecordEnd(rec)
  <2>1. \A l \in Lbas : EntryUpTo(ents[l], a - 1)
    BY <1>2, RecordMaps
  <2>2. WithRecord(rec)[a] = Footer(tail.lsn + 1, tail.bound, a, ents)
    BY <1>2, RecordPlaced
  <2> HIDE DEF ents
  <2> QED
    BY <2>1, <2>2, FooterValid
<1>3. CASE a # RecordEnd(rec)
  BY <1>1, <1>3, RecordPlaced, PlainValid DEF LogValid
<1> QED
  BY <1>2, <1>3

-----------------------------------------------------------------------------
(* Roots *)

LEMMA LoadableIs ==
  ASSUME NEW s
  PROVE  Loadable(s) <=> /\ ValidDescriptor(desc[s]) /\ body[s] = desc[s].sum
                         /\ Decodes(log, RootIn(s))
  BY DEF Loadable, Decodes, RootIn

LEMMA DecodesKept ==
  ASSUME NEW old, NEW new, NEW c, c.bound \in Nat, c.bound < BackingBlocks, Decodes(old, c),
         \A a \in Addr : a <= c.bound => new[a] = old[a]
  PROVE  Decodes(new, c)
<1>1. \A p \in Pages : c.index[p] # 0 => new[c.index[p]] = old[c.index[p]]
  BY GeometryAssumption DEF Decodes, Addr
<1> QED
  BY <1>1 DEF Decodes

\* A root stays loadable while its descriptor, its body and its log do not change.
LEMMA LoadableKept ==
  ASSUME NEW s \in Slot, Loadable(s), desc[s] \in Descriptor,
         desc'[s] = desc[s], body'[s] = body[s],
         \A a \in Addr : a <= desc[s].bound => log'[a] = log[a]
  PROVE  Loadable(s)' /\ RootIn(s)' = RootIn(s)
<1> DEFINE c == RootIn(s)
<1>1. c' = c
  BY DEF RootIn
<1>2. c.bound = desc[s].bound /\ c.bound \in Nat /\ c.bound < BackingBlocks
  BY GeometryAssumption DEF RootIn, Descriptor, Loadable, ValidDescriptor
<1>3. Decodes(log, c)
  BY LoadableIs
<1>4. PICK root : root = c
  OBVIOUS
<1>5. Decodes(log', root)
  BY <1>2, <1>3, <1>4, DecodesKept
<1>6. ValidDescriptor(desc'[s]) /\ body'[s] = desc'[s].sum
  BY LoadableIs
<1> QED
  BY <1>1, <1>4, <1>5, <1>6 DEF Loadable, Decodes, RootIn

LEMMA ActiveFacts ==
  ASSUME Inductive, RootInv, InUse
  PROVE  /\ TypeOK /\ ActiveInv /\ ckpt \in Checkpoint /\ ckpt.slot \in Slot
         /\ desc[ckpt.slot] \in Descriptor /\ desc[ckpt.slot] = DescriptorOf(ckpt)
         /\ ckpt.bound \in Nat /\ tail.bound \in Nat /\ ckpt.bound <= tail.bound
         /\ tail.lsn \in Nat /\ ckpt.lsn \in Nat /\ ckpt.lsn <= tail.lsn
         /\ LogStart <= ckpt.bound + 1 /\ tail.bound < BackingBlocks
         /\ tail \in Position
<1>1. /\ TypeOK /\ ActiveInv /\ ckpt \in Checkpoint /\ ckpt.slot \in Slot
      /\ desc[ckpt.slot] \in Descriptor /\ tail \in Position
  BY DEF Inductive, RootInv, TypeOK, HandleTypeOK, Checkpoint, ActiveInv, Loadable,
     ValidDescriptor, NoDescriptor
<1>2. desc[ckpt.slot] = DescriptorOf(ckpt)
  BY <1>1 DEF ActiveInv, RootIn, DescriptorOf, Descriptor
<1> QED
  BY <1>1, <1>2, GeometryAssumption DEF ActiveInv, Inductive, SnapshotsInPlace, Checkpoint, Position,
     PositionValid

\* Lookups lead to blocks up to the tail.
LEMMA MappedUpTo ==
  ASSUME Inductive, RootInv, InUse, NEW l \in Lbas
  PROVE  EntryUpTo(MappedEntry(l), tail.bound)
<1>1. CASE PageOf(l) \in resident
  BY <1>1, ActiveFacts DEF MappedEntry, ActiveInv
<1>2. CASE PageOf(l) \notin resident
  <2> DEFINE a == ckpt.index[PageOf(l)]
  <2>1. a = 0 \/ (a \in Addr /\ a <= ckpt.bound /\ log[a].kind = "page")
    BY PagesOfLbas DEF Inductive, SnapshotsInPlace, PointersValid
  <2>2. CASE a = 0
    BY <1>2, <2>2, NothingMapped DEF MappedEntry, SnapshotEntry
  <2>3. CASE a # 0
    <3>1. EntryUpTo(log[a].ents[l], a - 1)
      BY <2>1, <2>3 DEF RootInv, LogValid, BlockValid
    <3>2. a - 1 \in Int /\ tail.bound \in Int /\ a - 1 <= tail.bound
      BY <2>1, <2>3, ActiveFacts, GeometryAssumption DEF Addr
    <3>3. MappedEntry(l) = log[a].ents[l]
      BY <1>2, <2>3 DEF MappedEntry, SnapshotEntry
    <3> QED
      BY <3>1, <3>2, <3>3, EntryUpToMono
  <2> QED
    BY <2>2, <2>3
<1> QED
  BY <1>1, <1>2

\* A step that keeps the active root and the log it covers, and writes no descriptor.
LEMMA RootStep ==
  ASSUME Inductive, RootInv, InUse, InUse', UNCHANGED <<desc, ckpt>>,
         body'[ckpt.slot] = body[ckpt.slot],
         \A a \in Addr : a <= ckpt.bound => log'[a] = log[a],
         pc # "descsync", pc' # "descsync",
         LogValid', PositionValid(tail'), ckpt.lsn <= tail'.lsn,
         \A l \in Lbas : EntryUpTo(cached'[l], tail'.bound),
         Building' => CandInv'
  PROVE  RootInv'
<1>1. /\ ckpt.slot \in Slot /\ desc[ckpt.slot] \in Descriptor
      /\ desc[ckpt.slot] = DescriptorOf(ckpt) /\ ActiveInv
  BY ActiveFacts
<1>2. desc[ckpt.slot].bound = ckpt.bound
  BY <1>1 DEF DescriptorOf
<1>3. PICK s \in Slot : s = ckpt.slot
  BY <1>1
<1>4. Loadable(s) /\ RootIn(s) = ckpt /\ DiskRoot(s)
  BY <1>1, <1>3 DEF ActiveInv, NewestSlot
<1>5. Loadable(s)' /\ RootIn(s)' = RootIn(s)
  BY <1>1, <1>2, <1>3, <1>4, LoadableKept
<1>6. DiskRoot(s)'
  BY <1>4, <1>5 DEF DiskRoot
<1>7. ckpt'.slot = s /\ NewestSlot' = s
  BY <1>3 DEF NewestSlot
<1>8. ActiveInv'
  <2>1. Loadable(ckpt.slot)' /\ RootIn(ckpt.slot)' = ckpt' /\ DiskRoot(NewestSlot)'
    BY <1>4, <1>5, <1>6, <1>7 DEF Loadable, RootIn, DiskRoot
  <2> QED
    BY <2>1 DEF ActiveInv
<1> QED
  BY <1>8 DEF RootInv

\* The candidate is not touched, nor is the log it covers.
LEMMA CandKept ==
  ASSUME CandInv, UNCHANGED <<cand, ckpt>>, cand.bound \in Nat,
         \A a \in Addr : a <= cand.bound => log'[a] = log[a],
         pc' \in {"bodysync", "desc", "descsync"} => body'[cand.slot] = cand.index,
         pc' = "descsync" => desc'[cand.slot] = DescriptorOf(cand)
  PROVE  CandInv'
<1>1. PICK c : c = cand
  OBVIOUS
<1>2. c.bound \in Nat /\ c.bound < BackingBlocks /\ Decodes(log, c)
  BY <1>1, GeometryAssumption DEF CandInv, PositionValid, PositionOf, At
<1>3. Decodes(log', c)
  BY <1>1, <1>2, DecodesKept
<1>4. Decodes(log, cand)'
  BY <1>1, <1>3
<1> QED
  BY <1>4 DEF CandInv

\* A step that writes nothing and keeps the root and the tail.
LEMMA RootSame ==
  ASSUME Inductive, RootInv, InUse, InUse', UNCHANGED <<desc, body, log, ckpt, tail>>,
         pc # "descsync", pc' # "descsync",
         \A l \in Lbas : EntryUpTo(cached'[l], tail.bound),
         \/ ~Building'
         \/ Building /\ cand' = cand /\ pc' \notin {"bodysync", "desc"}
         \/ CandInv'
  PROVE  RootInv'
<1>1. LogValid' /\ PositionValid(tail') /\ ckpt.lsn <= tail'.lsn
  BY ActiveFacts DEF RootInv, LogValid, ActiveInv
<1>2. Building' => CandInv'
  <2> SUFFICES ASSUME Building, cand' = cand, pc' \notin {"bodysync", "desc"}
               PROVE  CandInv'
    OBVIOUS
  <2>1. CandInv /\ cand.bound \in Nat
    BY DEF RootInv, Inductive, TypeOK, HandleTypeOK, Checkpoint
  <2> QED
    BY <2>1, CandKept
<1> QED
  BY <1>1, <1>2, RootStep

\* The calls that touch the buffer only, the fsyncs, and the ends of a phase.
LEMMA RootCalls ==
  ASSUME Inductive, RootInv,
         \/ \E l \in Lbas, v \in Values : Overwrite(l, v) \/ Write(l, v)
         \/ Flush \/ Close \/ FlushSync \/ ClosePublish \/ ClearEnds \/ ClearSync
         \/ ReplayEnd \/ SyncLog
  PROVE  RootInv'
<1>1. /\ UNCHANGED <<desc, body, log, ckpt, cand, tail, cached>>
      /\ InUse /\ InUse' /\ pc # "descsync" /\ pc' # "descsync"
      /\ pc' \notin {"bodysync", "desc"}
  BY DEF Overwrite, Write, Flush, Close, FlushSync, ClosePublish, ClearEnds, ClearSync,
     ReplayEnd, SyncLog, Release, disk, rootVars, cacheVars, InUse
<1>2. Building' => Building
  BY DEF Overwrite, Write, Flush, Close, FlushSync, ClosePublish, ClearEnds, ClearSync,
     ReplayEnd, SyncLog, Release, Building, Publishing, Inductive, ControlInv
<1>3. \A l \in Lbas : EntryUpTo(cached'[l], tail.bound)
  BY <1>1, ActiveFacts DEF ActiveInv
<1> QED
  BY <1>1, <1>2, <1>3, RootSame

LEMMA RootReads ==
  ASSUME Inductive, RootInv, Fetch \/ \E p \in Pages : Read(p)
  PROVE  RootInv'
<1>1. /\ UNCHANGED <<desc, body, log, ckpt, tail>>
      /\ InUse /\ pc # "descsync" /\ pc' \in {"up", "prepare"}
  BY DEF Fetch, Read, disk, rootVars, InUse
<1>2. \A l \in Lbas : cached'[l] \in {cached[l], MappedEntry(l), Unmapped}
  BY DEF Fetch, Read, cacheVars, Install
<1>3. \A l \in Lbas : EntryUpTo(cached'[l], tail.bound)
  BY <1>1, <1>2, ActiveFacts, MappedUpTo, NothingMapped DEF ActiveInv
<1>4. ~Building' /\ pc' # "descsync" /\ InUse'
  BY <1>1 DEF Building, Publishing, InUse
<1> QED
  BY <1>1, <1>3, <1>4, RootSame

\* A candidate that starts from the active root.
LEMMA CandStart ==
  ASSUME Inductive, RootInv, InUse, UNCHANGED <<log, ckpt>>, cand' = Candidate,
         pc' \notin {"bodysync", "desc", "descsync"}
  PROVE  CandInv'
<1>1. /\ ActiveInv /\ ckpt.bound \in Nat /\ tail.bound \in Nat /\ ckpt.bound <= tail.bound
      /\ ckpt.lsn \in Nat /\ tail.lsn \in Nat /\ ckpt.lsn <= tail.lsn /\ TypeOK
  BY ActiveFacts
<1>2. /\ cand'.slot = Other(ckpt.slot) /\ cand'.gen = ckpt.gen + 1 /\ cand'.index = ckpt.index
      /\ cand'.lsn = tail.lsn /\ cand'.bound = tail.bound
  BY DEF Candidate
<1>3. PositionValid(PositionOf(cand'))
  BY <1>1, <1>2 DEF ActiveInv, PositionValid, PositionOf, At
<1>4. Decodes(log, ckpt)
  BY <1>1, LoadableIs DEF ActiveInv
<1>5. \A p \in Pages : ckpt.index[p] # 0 => log[ckpt.index[p]].lsn \in Nat
  <2>1. \A b \in Block : b.kind = "page" => b.lsn \in Nat
    BY DEF Block, Blank, TornPage, PayloadBlock, FooterBlock, PageBlock
  <2>2. log \in [Addr -> Block]
    BY <1>1 DEF TypeOK, DiskTypeOK
  <2> QED
    BY <2>1, <2>2 DEF Inductive, SnapshotsInPlace, PointersValid
<1>6. \A p \in Pages : cand'.index[p] # 0 =>
        /\ cand'.index[p] \in LogStart .. cand'.bound
        /\ DecodesAsPage(log[cand'.index[p]], p, cand'.index[p], cand'.lsn)
  BY <1>1, <1>2, <1>4, <1>5, GeometryAssumption DEF Decodes, DecodesAsPage
<1> QED
  BY <1>1, <1>2, <1>3, <1>6 DEF CandInv, Decodes

LEMMA RootDown ==
  ASSUME RootInv, desc' \in [Slot -> {NoDescriptor} \cup Descriptor], LogValid', ~InUse',
         cached' = NoEntries
  PROVE  RootInv'
<1>1. ~Building'
  BY DEF InUse, Building, Publishing
<1> QED
  BY <1>1 DEF RootInv

LEMMA RootPrepare ==
  ASSUME Inductive, RootInv, Prepare
  PROVE  RootInv'
<1>1. CASE Latch
  <2>1. UNCHANGED <<desc, log>> /\ ~InUse' /\ cached' = NoEntries
    BY <1>1 DEF Latch, Forget, disk, InUse
  <2> QED
    BY <2>1, RootDown DEF RootInv, LogValid
<1>2. CASE ~Latch
  <2>1. /\ UNCHANGED <<desc, body, log, ckpt, tail, cached>> /\ pc = "prepare" /\ pc' = "append"
        /\ cand' = Candidate
    BY <1>2 DEF Prepare, disk, cacheVars
  <2>2. InUse /\ InUse' /\ ActiveInv
    BY <2>1, ActiveFacts DEF InUse
  <2>3. CandInv'
    BY <2>1, <2>2, CandStart
  <2> QED
    BY <2>1, <2>2, <2>3, RootSame DEF ActiveInv
<1> QED
  BY <1>1, <1>2

LEMMA RootScanEnd ==
  ASSUME Inductive, RootInv, ScanEnd
  PROVE  RootInv'
<1>1. CASE \E why : OpenFails(why)
  <2>1. UNCHANGED <<desc, log>> /\ ~InUse' /\ cached' = NoEntries
    BY <1>1 DEF OpenFails, Forget, disk, InUse
  <2> QED
    BY <2>1, RootDown DEF RootInv, LogValid
<1>2. CASE ~\E why : OpenFails(why)
  <2>1. /\ UNCHANGED <<desc, body, log, ckpt, tail, cached>> /\ pc = "scan"
        /\ pc' \in {"clear", "replay"}
        /\ op' = "fast" \/ (op' = "recover" /\ cand' = Candidate)
    BY <1>2 DEF ScanEnd, disk, cacheVars
  <2>2. InUse /\ InUse' /\ ActiveInv
    BY <2>1, ActiveFacts DEF InUse
  <2>3. Building' => cand' = Candidate
    BY <2>1 DEF Building, Publishing
  <2>4. Building' => CandInv'
    BY <2>1, <2>2, <2>3, CandStart
  <2> QED
    BY <2>1, <2>2, <2>4, RootSame DEF ActiveInv
<1> QED
  BY <1>1, <1>2

LEMMA RootAppendDone ==
  ASSUME Inductive, RootInv, AppendDone
  PROVE  RootInv'
<1>1. /\ UNCHANGED <<desc, body, log, ckpt, cand, tail>> /\ pc = "append" /\ pc' \in {"replay", "sync"}
      /\ cached' \in {cached, NoEntries}
  BY DEF AppendDone, disk, rootVars, cacheVars
<1>2. InUse /\ InUse' /\ Building /\ ActiveInv
  BY <1>1, ActiveFacts DEF InUse, Building, Publishing
<1>3. \A l \in Lbas : EntryUpTo(cached'[l], tail.bound)
  BY <1>1, <1>2, NothingMapped DEF ActiveInv, NoEntries
<1> QED
  BY <1>1, <1>2, <1>3, RootSame

LEMMA BuildingFacts ==
  ASSUME Inductive, RootInv, Building
  PROVE  /\ InUse /\ CandInv /\ cand \in Checkpoint /\ cand.slot \in Slot
         /\ cand.bound \in Nat /\ cand.lsn \in Nat /\ cand.bound < BackingBlocks
         /\ tail.bound <= cand.bound /\ LogStart <= cand.bound + 1
         /\ cand.slot # ckpt.slot /\ ckpt.slot = Other(cand.slot)
<1>1. InUse
  BY DEF Building, InUse, Publishing
<1>2. CandInv /\ cand \in Checkpoint /\ tail.bound <= cand.bound
  BY DEF RootInv, Inductive, TypeOK, HandleTypeOK, SnapshotsInPlace, Building
<1>3. ckpt.slot \in Slot /\ ckpt.bound \in Nat /\ tail.bound \in Nat /\ LogStart <= ckpt.bound + 1
      /\ ckpt.bound <= tail.bound
  BY <1>1, ActiveFacts
<1>4. cand.slot \in Slot /\ cand.slot # ckpt.slot /\ ckpt.slot = Other(cand.slot)
  BY <1>2, <1>3, OtherSlot DEF CandInv
<1>5. cand.bound < BackingBlocks
  BY <1>2, GeometryAssumption DEF CandInv, PositionValid, PositionOf, At
<1> QED
  BY <1>1, <1>2, <1>3, <1>4, <1>5, GeometryAssumption DEF Checkpoint

LEMMA BatchDecodes ==
  ASSUME Inductive, RootInv, pc = "append", NEW S \in SUBSET pend,
         cand.bound + Cardinality(S) < BackingBlocks
  PROVE  Decodes(WithSnapshots(S, Cardinality(S)), Extended(S))
<1> DEFINE k == Cardinality(S)
           new == WithSnapshots(S, k)
           c == Extended(S)
<1>1. /\ TypeOK /\ S \in SUBSET Pages /\ k \in Nat /\ Building
      /\ log \in [Addr -> Block]
  BY PagesFinite DEF Inductive, TypeOK, HandleTypeOK, DiskTypeOK, Building, Publishing
<1>2. /\ CandInv /\ cand.bound \in Nat /\ cand.lsn \in Nat /\ InUse
      /\ LogStart <= cand.bound + 1 /\ tail.bound <= cand.bound
  BY <1>1, BuildingFacts
<1>3. /\ c.lsn = cand.lsn + k /\ c.bound = cand.bound + k
      /\ \A p \in Pages : c.index[p] = IF p \in S THEN cand.bound + 1 + Rank(p, S) ELSE cand.index[p]
  BY DEF Extended
<1> HIDE DEF c
<1>4. ASSUME NEW p \in S
      PROVE  /\ c.index[p] \in LogStart .. c.bound
             /\ DecodesAsPage(new[c.index[p]], p, c.index[p], c.lsn)
  <2> DEFINE a == cand.bound + 1 + Rank(p, S)
             block == Snapshot(cand.lsn + (a - cand.bound), a - 1, p, PageSlice(p, cached))
  <2>1. Rank(p, S) \in Nat /\ Rank(p, S) < k
    BY <1>1, PageRank
  <2>2. a \in Addr /\ a \in LogStart .. c.bound /\ c.index[p] = a
    BY <1>1, <1>2, <1>3, <2>1, GeometryAssumption DEF Addr
  <2>3. new[a] = block
    BY <1>1, <2>1, <2>2, SnapshotOf
  <2>4. /\ block.kind = "page" /\ block.page = p /\ block.bound = a
        /\ block.lsn = cand.lsn + (a - cand.bound) /\ block.ents = PageSlice(p, cached)
    BY <1>2, <2>1 DEF Snapshot
  <2>5. block.lsn <= c.lsn
    BY <1>1, <1>2, <1>3, <2>1, <2>4
  <2>6. tail.bound \in Nat /\ tail.bound <= a - 1 /\ a - 1 \in Int
        /\ \A l \in Lbas : EntryUpTo(cached[l], tail.bound)
    BY <1>2, <2>1, ActiveFacts DEF ActiveInv
  <2>7. \A l \in Lbas : EntryUpTo(cached[l], a - 1)
    BY <2>6, EntryUpToMono
  <2>8. \A l \in Lbas : \/ block.ents[l] = Unmapped
                        \/ PageOf(l) = p /\ block.ents[l].phys \in LogStart .. a - 1
    BY <2>4, <2>7 DEF PageSlice, EntryUpTo
  <2> HIDE DEF block, a
  <2> QED
    BY <2>2, <2>3, <2>4, <2>5, <2>8 DEF DecodesAsPage
<1>5. ASSUME NEW p \in Pages, p \notin S, c.index[p] # 0
      PROVE  /\ c.index[p] \in LogStart .. c.bound
             /\ DecodesAsPage(new[c.index[p]], p, c.index[p], c.lsn)
  <2>1. /\ c.index[p] = cand.index[p] /\ cand.index[p] \in Addr /\ cand.index[p] <= cand.bound
        /\ log[cand.index[p]].kind = "page"
    BY <1>1, <1>3, <1>5 DEF Inductive, SnapshotsInPlace, PointersValid, Building
  <2>2. new[c.index[p]] = log[c.index[p]]
    BY <1>1, <2>1, WithSnapshotsBelow
  <2>3. DecodesAsPage(log[c.index[p]], p, c.index[p], cand.lsn)
    BY <1>2, <1>5, <2>1 DEF CandInv, Decodes
  <2>4. log[c.index[p]].lsn \in Nat
    <3>1. \A b \in Block : b.kind = "page" => b.lsn \in Nat
      BY DEF Block, Blank, TornPage, PayloadBlock, FooterBlock, PageBlock
    <3> QED
      BY <1>1, <2>1, <3>1
  <2> QED
    BY <1>1, <1>2, <1>3, <2>1, <2>2, <2>3, <2>4, GeometryAssumption DEF DecodesAsPage, Addr
<1>6. \A p \in Pages : c.index[p] # 0 =>
        /\ c.index[p] \in LogStart .. c.bound
        /\ DecodesAsPage(new[c.index[p]], p, c.index[p], c.lsn)
  BY <1>4, <1>5
<1>7. Decodes(new, c)
  BY <1>6 DEF Decodes
<1> QED
  BY <1>7 DEF c

\* A batch fits the log (ReservedSpace after the step).
LEMMA BatchFits ==
  ASSUME Inductive, Inductive', pc = "append", pc' = "append", NEW S \in SUBSET pend,
         cand' = Extended(S)
  PROVE  cand.bound + Cardinality(S) < BackingBlocks
<1>1. cand'.bound = cand.bound + Cardinality(S)
  BY DEF Extended
<1> QED
  BY <1>1 DEF Inductive, ReservedSpace, EnsureSpace, Frontier, Publishing, InUse

LEMMA RootAppendBatch ==
  ASSUME Inductive, Inductive', RootInv, AppendBatch
  PROVE  RootInv'
<1> PICK S \in SUBSET pend :
       /\ log' = WithSnapshots(S, Cardinality(S))
       /\ cand' = Extended(S)
  BY DEF AppendBatch
<1> DEFINE k == Cardinality(S)
<1>1. /\ UNCHANGED <<desc, body, ckpt, tail, cached>> /\ pc = "append" /\ pc' = "append"
  BY DEF AppendBatch, cacheVars
<1>2. Building /\ InUse /\ InUse' /\ S \in SUBSET Pages /\ k \in Nat /\ TypeOK
  BY <1>1, PagesFinite DEF Building, Publishing, InUse, Inductive, TypeOK, HandleTypeOK
<1>3. /\ CandInv /\ cand.bound \in Nat /\ cand.lsn \in Nat
      /\ LogStart <= cand.bound + 1 /\ tail.bound <= cand.bound
  BY <1>2, BuildingFacts
<1>4. ActiveInv /\ ckpt.bound \in Nat /\ tail.bound \in Nat /\ ckpt.bound <= tail.bound
      /\ ckpt.lsn \in Nat
  BY <1>2, ActiveFacts
<1>5. cand.bound + k < BackingBlocks
  BY <1>1, BatchFits
<1>6. LogValid'
  BY <1>2, <1>3, <1>4, SnapshotsValid DEF LogValid, RootInv, ActiveInv
<1>7. \A a \in Addr : a <= ckpt.bound => log'[a] = log[a]
  BY <1>2, <1>3, <1>4, WithSnapshotsBelow, GeometryAssumption DEF Addr
<1>8. CandInv'
  <2>1. Decodes(log', cand')
    BY <1>1, <1>5, BatchDecodes
  <2>2. cand'.slot = cand.slot /\ cand'.gen = cand.gen /\ cand'.lsn = cand.lsn + k
        /\ cand'.bound = cand.bound + k
    BY DEF Extended
  <2>3. PositionValid(PositionOf(cand'))
    BY <1>2, <1>3, <1>5, <2>2, GeometryAssumption DEF CandInv, PositionValid, PositionOf, At
  <2>4. ckpt.lsn <= cand'.lsn
    BY <1>2, <1>3, <1>4, <2>2 DEF CandInv
  <2> QED
    BY <1>1, <1>3, <2>1, <2>2, <2>3, <2>4 DEF CandInv
<1> QED
  BY <1>1, <1>2, <1>4, <1>6, <1>7, <1>8, RootStep DEF ActiveInv

LEMMA RootWriteBody ==
  ASSUME Inductive, RootInv, WriteBody \/ SyncBody
  PROVE  RootInv'
<1>1. /\ UNCHANGED <<desc, log, ckpt, cand, tail, cached>> /\ pc \in {"body", "bodysync"}
      /\ pc' \in {"bodysync", "desc"}
      /\ \/ pc = "body" /\ body' = [body EXCEPT ![cand.slot] = cand.index]
         \/ pc = "bodysync" /\ body' = body
  BY DEF WriteBody, SyncBody, disk, rootVars, cacheVars
<1>2. Building /\ InUse /\ InUse' /\ ActiveInv
  BY <1>1, ActiveFacts DEF Building, Publishing, InUse
<1>3. CandInv /\ cand.slot # ckpt.slot /\ cand.slot \in Slot /\ cand.bound \in Nat
  BY <1>2, BuildingFacts
<1>4. body \in [Slot -> {TornBody} \cup Index]
  BY DEF Inductive, TypeOK, DiskTypeOK
<1>5. body'[ckpt.slot] = body[ckpt.slot] /\ body'[cand.slot] = cand.index
  BY <1>1, <1>2, <1>3, <1>4, ActiveFacts DEF CandInv
<1>6. CandInv'
  BY <1>1, <1>3, <1>5, CandKept
<1>7. LogValid'
  BY <1>1 DEF RootInv, LogValid
<1> QED
  BY <1>1, <1>2, <1>5, <1>6, <1>7, RootStep DEF ActiveInv

LEMMA WrittenRoot ==
  ASSUME Inductive, RootInv, Building, desc[cand.slot] = DescriptorOf(cand),
         body[cand.slot] = cand.index
  PROVE  RootIn(cand.slot) = cand /\ DiskRoot(cand.slot)
<1>1. /\ CandInv /\ cand \in Checkpoint /\ cand.slot \in Slot /\ ckpt.slot = Other(cand.slot)
      /\ InUse
  BY BuildingFacts
<1>2. desc[ckpt.slot] = DescriptorOf(ckpt) /\ ckpt \in Checkpoint
  BY <1>1, ActiveFacts
<1>3. RootIn(cand.slot) = cand
  BY <1>1 DEF RootIn, DescriptorOf, Checkpoint
<1>4. ValidDescriptor(desc[cand.slot]) /\ body[cand.slot] = desc[cand.slot].sum
  BY <1>1, <1>2 DEF DescriptorOf, ValidDescriptor, CandInv, PositionValid, PositionOf, At, Checkpoint
<1>5. Loadable(cand.slot)
  BY <1>1, <1>3, <1>4, LoadableIs DEF CandInv
<1>6. desc[Other(cand.slot)].gen < desc[cand.slot].gen
  BY <1>1, <1>2 DEF DescriptorOf, CandInv, Checkpoint
<1> QED
  BY <1>3, <1>5, <1>6 DEF DiskRoot

LEMMA RootWriteDescriptor ==
  ASSUME Inductive, RootInv, WriteDescriptor
  PROVE  RootInv'
<1>1. /\ UNCHANGED <<body, log, ckpt, cand, tail, cached>> /\ pc = "desc" /\ pc' = "descsync"
      /\ desc' = [desc EXCEPT ![cand.slot] = DescriptorOf(cand)]
  BY DEF WriteDescriptor, rootVars, cacheVars
<1>2. Building /\ InUse /\ InUse' /\ Building' /\ TypeOK
  BY <1>1 DEF Building, Publishing, InUse, Inductive
<1>3. /\ CandInv /\ cand \in Checkpoint /\ cand.slot \in Slot /\ ckpt.slot = Other(cand.slot)
      /\ cand.slot # ckpt.slot /\ cand.bound \in Nat
  BY <1>2, BuildingFacts
<1>4. /\ desc[ckpt.slot] = DescriptorOf(ckpt) /\ ckpt \in Checkpoint /\ ckpt.slot \in Slot
      /\ ActiveInv /\ desc[ckpt.slot] \in Descriptor
  BY <1>2, ActiveFacts
<1>5. desc \in [Slot -> {NoDescriptor} \cup Descriptor] /\ DescriptorOf(cand) \in Descriptor
  BY <1>3 DEF RootInv, DescriptorOf, Descriptor, Checkpoint
<1>6. /\ desc' \in [Slot -> {NoDescriptor} \cup Descriptor]
      /\ desc'[cand.slot] = DescriptorOf(cand)
      /\ desc'[ckpt.slot] = desc[ckpt.slot]
  BY <1>1, <1>3, <1>4, <1>5
<1>7. PICK s \in Slot : s = ckpt.slot
  BY <1>4
<1>8. Loadable(s)' /\ RootIn(s)' = RootIn(s)
  BY <1>1, <1>4, <1>6, <1>7, LoadableKept DEF ActiveInv
<1>9. body[cand.slot] = cand.index
  BY <1>1, <1>3 DEF CandInv
<1>10. PICK t \in Slot : t = cand.slot
  BY <1>3
<1>11. DiskRoot(t)'
  <2>0. /\ desc'[t] = DescriptorOf(cand) /\ desc'[Other(t)] = DescriptorOf(ckpt)
        /\ body'[t] = cand.index /\ cand.gen = ckpt.gen + 1 /\ ckpt.gen \in Nat
    BY <1>1, <1>3, <1>4, <1>6, <1>9, <1>10 DEF CandInv, Checkpoint
  <2>1. ValidDescriptor(desc'[t]) /\ body'[t] = desc'[t].sum
    <3>1. ValidDescriptor(DescriptorOf(cand)) /\ DescriptorOf(cand).sum = cand.index
      BY <1>3, <2>0 DEF DescriptorOf, ValidDescriptor, CandInv, PositionValid, PositionOf, At
    <3> QED
      BY <2>0, <3>1
  <2>2. Decodes(log', RootIn(t)')
    BY <1>1, <1>3, <1>6, <1>10 DEF CandInv, RootIn, DescriptorOf, Decodes
  <2>3. Loadable(t)'
    BY <2>1, <2>2 DEF Loadable, Decodes, RootIn
  <2>4. desc'[Other(t)].gen < desc'[t].gen
    BY <2>0 DEF DescriptorOf
  <2> QED
    BY <2>3, <2>4 DEF DiskRoot
<1>12. ActiveInv'
  <2>1. Loadable(ckpt.slot)' /\ RootIn(ckpt.slot)' = ckpt'
    BY <1>1, <1>4, <1>7, <1>8 DEF ActiveInv, Loadable, RootIn
  <2>2. DiskRoot(NewestSlot)'
    BY <1>1, <1>10, <1>11 DEF NewestSlot, DiskRoot, Loadable
  <2> QED
    BY <1>1, <1>4, <2>1, <2>2 DEF ActiveInv
<1>13. CandInv'
  BY <1>1, <1>3, <1>6, <1>9, CandKept
<1> QED
  BY <1>1, <1>2, <1>6, <1>12, <1>13 DEF RootInv, LogValid

LEMMA RootSyncDescriptor ==
  ASSUME CacheInductive, RootInv, SyncDescriptor
  PROVE  RootInv'
<1>1. /\ UNCHANGED <<desc, body, log, cached>> /\ pc = "descsync" /\ ckpt' = cand
      /\ tail' = PositionOf(cand) /\ pc' \in {"fetch", "clear", "release"}
  BY DEF SyncDescriptor, disk
<1>2. Building /\ InUse /\ InUse' /\ ~Building' /\ Inductive
  BY <1>1 DEF Building, Publishing, InUse, CacheInductive
<1>3. /\ CandInv /\ cand \in Checkpoint /\ cand.slot \in Slot /\ tail.bound <= cand.bound
      /\ cand.bound \in Nat
  BY <1>2, BuildingFacts
<1>4. RootIn(cand.slot) = cand /\ DiskRoot(cand.slot)
  BY <1>1, <1>2, <1>3, WrittenRoot DEF CandInv
<1>5. PICK s \in Slot : s = cand.slot
  BY <1>3
<1>6. DiskRoot(s)' /\ RootIn(s)' = RootIn(s)
  BY <1>1, <1>4, <1>5 DEF DiskRoot, Loadable, RootIn
<1>7. ActiveInv /\ tail.bound \in Nat
  BY <1>2, ActiveFacts
<1>8. \A l \in Lbas : EntryUpTo(cached'[l], tail'.bound)
  BY <1>1, <1>3, <1>7, EntryUpToMono DEF ActiveInv, PositionOf, At
<1>9. ActiveInv'
  <2>1. NewestSlot' = s /\ ckpt'.slot = s
    BY <1>1, <1>5 DEF NewestSlot
  <2>2. Loadable(ckpt.slot)' /\ RootIn(ckpt.slot)' = ckpt' /\ DiskRoot(NewestSlot)'
    BY <1>1, <1>4, <1>5, <1>6, <2>1 DEF Loadable, RootIn, DiskRoot
  <2>3. PositionValid(tail') /\ ckpt'.lsn <= tail'.lsn
    BY <1>1, <1>3 DEF CandInv, PositionOf, At, Checkpoint
  <2> QED
    BY <1>8, <2>2, <2>3 DEF ActiveInv
<1> QED
  BY <1>1, <1>2, <1>9 DEF RootInv, LogValid

\* A record of the release: it has payloads, and at most MaxPayload of them.
LEMMA ReleaseRecord ==
  ASSUME Inductive, pc = "release", NEW rec \in SUBSET todo, Lowest(rec, MaxPayload, todo)
  PROVE  /\ RecordFits(rec) /\ rec \in SUBSET Lbas /\ Cardinality(rec) \in 1 .. MaxPayload
         /\ RecordEnd(rec) < BackingBlocks /\ RecordEnd(rec) \in Nat
<1>1. RecordFits(rec)
  BY RecordFacts
<1>2. todo \in SUBSET Lbas /\ todo # {} /\ tail.bound \in Nat
  BY DEF Inductive, TypeOK, HandleTypeOK, ControlInv, Position
<1>3. IsFiniteSet(todo) /\ Cardinality(todo) \in Nat /\ rec \in SUBSET Lbas
  BY <1>2, LbasFinite
<1>4. Cardinality(todo) # 0
  BY <1>2, <1>3, FS_EmptySet
<1>5. Cardinality(rec) = Smaller(MaxPayload, Cardinality(todo)) /\ Cardinality(rec) \in Nat
  BY <1>3, LbasFinite DEF Lowest
<1>6. Cardinality(rec) \in 1 .. MaxPayload
  BY <1>3, <1>4, <1>5, GeometryAssumption DEF Smaller
<1> QED
  BY <1>1, <1>2, <1>3, <1>6 DEF RecordFits, RecordEnd

LEMMA RootAppendRecord ==
  ASSUME Inductive, RootInv, pc = "release", NEW rec \in SUBSET todo,
         Lowest(rec, MaxPayload, todo), AppendRecord(rec)
  PROVE  RootInv'
<1>1. /\ UNCHANGED <<desc, body, ckpt>> /\ log' = WithRecord(rec)
      /\ tail' = At(tail.lsn + 1, RecordEnd(rec))
      /\ pc' \in {"release", "flushsync", "closing", "up"}
  BY DEF AppendRecord, rootVars, AfterRelease, RecordEnd
<1>2. /\ RecordFits(rec) /\ rec \in SUBSET Lbas /\ Cardinality(rec) \in 1 .. MaxPayload
      /\ RecordEnd(rec) < BackingBlocks /\ RecordEnd(rec) \in Nat
  BY ReleaseRecord
<1>3. InUse /\ InUse' /\ ~Building'
  BY <1>1 DEF InUse, Building, Publishing
<1>4. /\ ActiveInv /\ TypeOK /\ ckpt.bound \in Nat /\ tail.bound \in Nat /\ ckpt.bound <= tail.bound
      /\ tail.lsn \in Nat /\ ckpt.lsn \in Nat /\ ckpt.lsn <= tail.lsn
      /\ LogStart <= tail.bound + 1
  BY <1>3, ActiveFacts, GeometryAssumption
<1>5. LogValid'
  BY <1>1, <1>2, <1>4, RecordValid DEF LogValid, RootInv
<1>6. \A a \in Addr : a <= ckpt.bound => log'[a] = log[a]
  BY <1>1, <1>2, <1>4, WithRecordBelow, GeometryAssumption DEF Addr
<1>7. RecordEnd(rec) > tail.bound /\ RecordEnd(rec) - tail.bound >= 1
  BY <1>2, <1>4, GeometryAssumption DEF RecordEnd
<1>8. PositionValid(tail') /\ ckpt.lsn <= tail'.lsn
  BY <1>1, <1>2, <1>4, <1>7, GeometryAssumption DEF ActiveInv, PositionValid, At
<1>9. \A l \in Lbas : EntryUpTo(cached'[l], tail'.bound)
  <2>1. \A l \in Lbas : \/ cached'[l] = Unmapped \/ cached'[l] = MappedEntry(l)
                        \/ l \in rec /\ cached'[l] = RecordEntry(l, rec, tail.bound + 1)
    BY DEF AppendRecord
  <2>2. tail'.bound = RecordEnd(rec)
    BY <1>1 DEF At
  <2>3. \A l \in Lbas : EntryUpTo(MappedEntry(l), tail'.bound)
    BY <1>2, <1>3, <1>4, <1>7, <2>2, MappedUpTo, EntryUpToMono
  <2>4. \A l \in rec : EntryUpTo(RecordEntry(l, rec, tail.bound + 1), tail'.bound)
    BY <1>2, <1>4, <2>2, RecordLeads, GeometryAssumption DEF EntryUpTo
  <2> QED
    BY <2>1, <2>3, <2>4, NothingMapped
<1> QED
  BY <1>1, <1>3, <1>5, <1>6, <1>8, <1>9, RootStep

LEMMA RootClearBlock ==
  ASSUME Inductive, RootInv, ClearBlock
  PROVE  RootInv'
<1>1. /\ UNCHANGED <<desc, body, ckpt, tail, cached>> /\ pc = "clear" /\ pc' = "clear"
      /\ log' = [log EXCEPT ![cursor.bound + 1] = Blank]
  BY DEF ClearBlock, rootVars, cacheVars
<1>2. InUse /\ InUse' /\ ~Building'
  BY <1>1 DEF InUse, Building, Publishing
<1>3. /\ ActiveInv /\ ckpt.bound \in Nat /\ tail.bound \in Nat /\ ckpt.bound <= tail.bound
      /\ cursor.bound >= tail.bound /\ cursor.bound \in Nat /\ log \in [Addr -> Block]
  BY <1>1, <1>2, ActiveFacts DEF Inductive, ControlInv, TypeOK, HandleTypeOK, DiskTypeOK, Position
<1>4. \A a \in Addr : a <= ckpt.bound => log'[a] = log[a]
  BY <1>1, <1>3, GeometryAssumption DEF Addr
<1>5. \A a \in Addr : log'[a] \in {log[a], Blank}
  BY <1>1, <1>3
<1>6. LogValid'
  BY <1>5, PlainValid DEF LogValid, RootInv
<1> QED
  BY <1>1, <1>2, <1>3, <1>4, <1>6, RootStep DEF ActiveInv

\* The root that load selects is the newest root of the disk.
LEMMA ChosenRoot ==
  ASSUME desc \in [Slot -> {NoDescriptor} \cup Descriptor], NEW s \in Slot, DiskRoot(s),
         NEW t \in Slot, Selected(t)
  PROVE  DiskRoot(t) /\ desc[t] = desc[s] /\ desc[s] \in Descriptor
<1>1. desc[s] \in Descriptor /\ desc[t] \in Descriptor
  BY DEF DiskRoot, Selected, Loadable, ValidDescriptor, NoDescriptor
<1>2. CASE t = s
  BY <1>2, <1>1
<1>3. CASE t # s
  <2>1. t = Other(s) /\ Other(t) = s
    BY <1>3, OtherSlot
  <2>2. Loadable(t) /\ Loadable(s) /\ desc[t].gen >= desc[s].gen
    BY <1>1, <2>1 DEF Selected, DiskRoot, Descriptor
  <2>3. desc[t] = desc[s]
    BY <1>1, <2>1, <2>2 DEF DiskRoot, Descriptor, NoDescriptor
  <2> QED
    BY <1>1, <2>1, <2>2, <2>3 DEF DiskRoot
<1> QED
  BY <1>2, <1>3

\* A disk with a newest root can be opened.
LEMMA Openable ==
  ASSUME desc \in [Slot -> {NoDescriptor} \cup Descriptor], NEW s \in Slot, DiskRoot(s)
  PROVE  ~PairDisagrees /\ \E t \in Slot : Selected(t)
<1>1. /\ Other(s) \in Slot /\ Other(Other(s)) = s
      /\ (s = "green" /\ Other(s) = "blue") \/ (s = "blue" /\ Other(s) = "green")
  BY OtherSlot DEF Other, Slot
<1>2. CASE desc[Other(s)] = NoDescriptor
  <2>1. ~ValidDescriptor(desc[Other(s)])
    BY <1>2 DEF ValidDescriptor, NoDescriptor
  <2>2. ~PairDisagrees
    BY <1>1, <2>1 DEF PairDisagrees
  <2>3. Selected(s)
    BY <2>1 DEF Selected, DiskRoot, Loadable
  <2> QED
    BY <2>2, <2>3
<1>3. CASE desc[Other(s)] # NoDescriptor
  <2>1. desc[s] \in Descriptor /\ desc[Other(s)] \in Descriptor
    BY <1>1, <1>3 DEF DiskRoot, Loadable, ValidDescriptor, NoDescriptor
  <2>2. ~PairDisagrees
    <3>1. desc[Other(s)].gen # desc[s].gen \/ desc[Other(s)] = desc[s]
      BY <1>1, <1>3, <2>1 DEF DiskRoot, Descriptor
    <3> QED
      BY <1>1, <3>1 DEF PairDisagrees
  <2>3. CASE desc[Other(s)].gen < desc[s].gen
    BY <1>1, <2>1, <2>2, <2>3 DEF Selected, DiskRoot, Descriptor
  <2>4. CASE desc[Other(s)] = desc[s]
    <3>1. s = "green" => Selected(s)
      BY <2>4 DEF Selected, DiskRoot
    <3>2. Other(s) = "green" /\ Loadable(Other(s)) => Selected(Other(s))
      BY <1>1, <2>4 DEF Selected
    <3>3. ~Loadable(Other(s)) => Selected(s)
      BY DEF Selected, DiskRoot
    <3> QED
      BY <1>1, <2>2, <3>1, <3>2, <3>3
  <2> QED
    BY <1>3, <2>3, <2>4 DEF DiskRoot
<1> QED
  BY <1>2, <1>3

LEMMA RootOpen ==
  ASSUME Inductive, RootInv, ChainInv, NEW o \in OpenOptions, Open(o)
  PROVE  RootInv'
<1>1. CASE \E why : OpenFails(why)
  <2>1. UNCHANGED <<desc, log>> /\ ~InUse' /\ cached' = NoEntries
    BY <1>1 DEF OpenFails, Forget, disk, InUse
  <2> QED
    BY <2>1, RootDown DEF RootInv, LogValid
<1>2. CASE ~\E why : OpenFails(why)
  <2>1. /\ UNCHANGED <<desc, body, log, cached>> /\ pc = "down" /\ pc' = "scan"
        /\ tail' = PositionOf(ckpt')
        /\ \E t \in Slot : Selected(t) /\ ckpt' = RootIn(t)
    BY <1>2 DEF Open, disk, cacheVars
  <2>2. ~InUse /\ InUse' /\ ~Building'
    BY <2>1 DEF InUse, Building, Publishing
  <2>3. PICK t \in Slot : Selected(t) /\ ckpt' = RootIn(t)
    BY <2>1
  <2>4. PICK s \in Slot : DiskRoot(s)
    BY <2>2 DEF ChainInv
  <2>5. DiskRoot(t) /\ desc[t] \in Descriptor
    BY <2>3, <2>4, ChosenRoot DEF RootInv
  <2>6. DiskRoot(t)' /\ RootIn(t)' = RootIn(t)
    BY <2>1, <2>5 DEF DiskRoot, Loadable, RootIn
  <2>7. ckpt'.slot = t /\ NewestSlot' = t /\ ckpt'.lsn = desc[t].lsn /\ ckpt'.bound = desc[t].bound
    BY <2>1, <2>3 DEF RootIn, NewestSlot
  <2>8. PositionValid(tail') /\ ckpt'.lsn <= tail'.lsn
    BY <2>1, <2>5, <2>7 DEF DiskRoot, Loadable, ValidDescriptor, PositionValid, PositionOf, At, Descriptor
  <2>9. \A l \in Lbas : EntryUpTo(cached'[l], tail'.bound)
    BY <2>1, <2>2, NothingMapped DEF RootInv, NoEntries
  <2>10. Loadable(ckpt.slot)' /\ RootIn(ckpt.slot)' = ckpt' /\ DiskRoot(NewestSlot)'
    BY <2>3, <2>6, <2>7 DEF DiskRoot, Loadable, RootIn
  <2>11. ActiveInv'
    BY <2>8, <2>9, <2>10 DEF ActiveInv
  <2> QED
    BY <2>1, <2>2, <2>11 DEF RootInv, LogValid
<1> QED
  BY <1>1, <1>2

\* scan: a record lies after the tail and within the log.
LEMMA RootScanRecord ==
  ASSUME Inductive, RootInv, NEW b \in Addr, ScanRecord(b)
  PROVE  RootInv'
<1>1. /\ UNCHANGED <<desc, body, log, ckpt, cached>> /\ pc = "scan" /\ pc' = "scan"
      /\ IsNext(tail, b) /\ tail' = At(tail.lsn + 1, b)
  BY DEF ScanRecord, disk, rootVars, cacheVars
<1>2. InUse /\ InUse' /\ ~Building'
  BY <1>1 DEF InUse, Building, Publishing
<1>3. /\ ActiveInv /\ tail \in Position /\ tail.bound \in Nat /\ tail.lsn \in Nat
      /\ ckpt.lsn \in Nat /\ ckpt.lsn <= tail.lsn
  BY <1>2, ActiveFacts
<1>4. b \in Nat /\ b > tail.bound /\ b < BackingBlocks
  BY <1>1, <1>3, IsNextIs, GeometryAssumption DEF NextIn, Addr, MaxRecord
<1>5. PositionValid(tail') /\ ckpt.lsn <= tail'.lsn
  BY <1>1, <1>3, <1>4, GeometryAssumption DEF ActiveInv, PositionValid, At
<1>6. \A l \in Lbas : EntryUpTo(cached'[l], tail'.bound)
  BY <1>1, <1>3, <1>4, EntryUpToMono DEF ActiveInv, At
<1>7. LogValid'
  BY <1>1 DEF RootInv, LogValid
<1> QED
  BY <1>1, <1>2, <1>5, <1>6, <1>7, RootStep

-----------------------------------------------------------------------------
(* Each step keeps the chain *)

LEMMA StoryKept ==
  ASSUME NEW old, NEW new, NEW image, NEW f, NEW g, NEW c \in Checkpoint, NEW end \in Position,
         Story(old, image, f, g, c, end),
         \A p \in Pages : c.index[p] = 0 \/ (c.index[p] \in Addr /\ c.index[p] <= c.bound),
         \A a \in Addr : a <= end.bound => new[a] = old[a],
         Residue(new, end)
  PROVE  Story(new, image, f, g, c, end)
  BY ChainKept, LeadsKept DEF Story

LEMMA CleanResidue ==
  ASSUME NEW blocks, NEW end, Clean(blocks, end)
  PROVE  Residue(blocks, end)
  BY DEF Clean, Residue

\* Where the chain ends while a volume is in use.
LEMMA EndFacts ==
  ASSUME Inductive, RootInv, InUse
  PROVE  /\ End \in Position /\ End.bound \in Nat /\ End.lsn \in Nat /\ End.bound < BackingBlocks
         /\ tail.bound <= End.bound /\ ckpt.bound <= End.bound /\ LogStart <= End.bound + 1
         /\ \A p \in Pages : \/ ckpt.index[p] = 0
                             \/ ckpt.index[p] \in Addr /\ ckpt.index[p] <= ckpt.bound
<1>1. /\ tail \in Position /\ tail.bound \in Nat /\ tail.bound < BackingBlocks
      /\ tail.lsn \in Nat /\ ckpt.bound \in Nat /\ ckpt.bound <= tail.bound
      /\ LogStart <= ckpt.bound + 1
  BY ActiveFacts
<1>2. \A p \in Pages : \/ ckpt.index[p] = 0
                       \/ ckpt.index[p] \in Addr /\ ckpt.index[p] <= ckpt.bound
  BY ActiveRoot
<1>3. CASE Building
  BY <1>1, <1>2, <1>3, BuildingFacts, GeometryAssumption DEF End, PositionOf, At, Position
<1>4. CASE ~Building
  BY <1>1, <1>2, <1>4, GeometryAssumption DEF End
<1> QED
  BY <1>3, <1>4

\* Lookups lead to the contents that the appended records make up.
LEMMA MappedNewest ==
  ASSUME RecoveryInductive, InUse, pc \notin {"scan", "replay"}, ~Windowed, NEW l \in Lbas
  PROVE  PayloadOf(l, MappedEntry(l)) = newest[l]
<1>1. PICK f, g : Story(log, newest, f, g, ckpt, End) /\ Mapping(f, g)
  BY DEF RecoveryInductive, ChainInv
<1>2. MappedEntry(l) = g[End.lsn][l]
  BY <1>1 DEF Mapping
<1>3. PayloadIn(log, l, g[End.lsn][l]) = newest[l]
  BY <1>1 DEF Story, Leads
<1> QED
  BY <1>2, <1>3, PayloadOfIs

LEMMA MappedImageNewest ==
  ASSUME RecoveryInductive, InUse, pc \notin {"scan", "replay"}, ~Windowed
  PROVE  MappedImage = newest
<1>1. newest \in [Lbas -> Values]
  BY DEF RecoveryInductive, ChainInv, Image
<1>2. \A l \in Lbas : MappedImage[l] = newest[l]
  BY MappedNewest DEF MappedImage
<1> QED
  BY <1>1, <1>2 DEF MappedImage

\* A step outside publication and recovery that writes nothing.
LEMMA ChainQuiet ==
  ASSUME RecoveryInductive, InUse, InUse',
         pc \notin {"scan", "replay"} \cup Publishing, pc' \notin {"scan", "replay", "clear"} \cup Publishing,
         UNCHANGED <<log, ckpt, tail, newest>>, newest \in media',
         \A l \in Lbas : MappedEntry(l)' = MappedEntry(l),
         Settled' => Clean(log, tail)
  PROVE  ChainInv'
<1>1. ~Building /\ ~Building' /\ ~Windowed /\ ~Windowed' /\ End = tail /\ End' = tail
  BY DEF Building, Windowed, End
<1>2. PICK f, g : Story(log, newest, f, g, ckpt, End) /\ Mapping(f, g)
  BY DEF RecoveryInductive, ChainInv
<1>3. Story(log', newest', f, g, ckpt', End')
  BY <1>1, <1>2
<1>4. Mapping(f, g)'
  BY <1>1, <1>2 DEF Mapping
<1>5. newest' \in Image /\ newest' \in media'
  BY DEF RecoveryInductive, ChainInv
<1> QED
  BY <1>1, <1>3, <1>4, <1>5 DEF ChainInv, Scanning

LEMMA ChainCalls ==
  ASSUME RecoveryInductive,
         \/ \E l \in Lbas, v \in Values : Overwrite(l, v) \/ Write(l, v)
         \/ Flush \/ Close \/ FlushSync \/ ClosePublish
  PROVE  ChainInv'
<1>1. /\ UNCHANGED <<log, ckpt, tail, resident, cached, newest>>
      /\ pc \in {"up", "flushsync", "closing"}
      /\ pc' \in {"up", "flushsync", "closing", "closesync", "prepare", "release"}
      /\ media' = media \/ media' = {newest}
  BY DEF Overwrite, Write, Flush, Close, FlushSync, ClosePublish, Release, disk, rootVars, cacheVars,
     ghosts
<1>2. /\ InUse /\ InUse' /\ pc \notin {"scan", "replay"} \cup Publishing
      /\ pc' \notin {"scan", "replay", "clear"} \cup Publishing /\ Settled /\ End = tail
  BY <1>1 DEF InUse, Publishing, Settled, End, Building
<1>3. \A l \in Lbas : MappedEntry(l)' = MappedEntry(l)
  BY <1>1 DEF MappedEntry, SnapshotEntry
<1>4. Clean(log, tail) /\ newest \in media
  BY <1>2 DEF RecoveryInductive, ChainInv
<1> QED
  BY <1>1, <1>2, <1>3, <1>4, ChainQuiet

\* Installing a page keeps every lookup.
LEMMA MappedInstall ==
  ASSUME CacheInductive, InUse, UNCHANGED <<log, ckpt>>, NEW p, NEW sequential,
         Install(p, sequential), NEW l \in Lbas
  PROVE  MappedEntry(l)' = MappedEntry(l)
<1>1. /\ dirty \subseteq resident'
      /\ cached' = [k \in Lbas |-> IF PageOf(k) \in resident' THEN MappedEntry(k) ELSE Unmapped]
  BY DEF Install, Keeps
<1>2. CASE PageOf(l) \in resident'
  BY <1>1, <1>2 DEF MappedEntry
<1>3. CASE PageOf(l) \notin resident'
  <2>1. MappedEntry(l) = EntryAt(log, ckpt.index, l)
    BY <1>1, <1>3, MappedClean
  <2> QED
    BY <1>3, <2>1 DEF MappedEntry, SnapshotEntry, EntryAt
<1> QED
  BY <1>2, <1>3

LEMMA ChainReads ==
  ASSUME RecoveryInductive, Fetch \/ \E p \in Pages : Read(p)
  PROVE  ChainInv'
<1>1. /\ UNCHANGED <<log, ckpt, tail, newest, media>>
      /\ pc \in {"up", "fetch"} /\ pc' \in {"up", "prepare"}
  BY DEF Fetch, Read, disk, rootVars, ghosts
<1>2. /\ InUse /\ InUse' /\ pc \notin {"scan", "replay"} \cup Publishing
      /\ pc' \notin {"scan", "replay", "clear"} \cup Publishing /\ Settled /\ End = tail
  BY <1>1 DEF InUse, Publishing, Settled, End, Building
<1>3. \/ UNCHANGED <<resident, cached>>
      \/ \E p, sequential : Install(p, sequential)
  BY DEF Fetch, Read, cacheVars
<1>4. \A l \in Lbas : MappedEntry(l)' = MappedEntry(l)
  <2>1. CASE UNCHANGED <<resident, cached>>
    BY <1>1, <2>1 DEF MappedEntry, SnapshotEntry
  <2>2. CASE \E p, sequential : Install(p, sequential)
    BY <1>1, <1>2, <2>2, MappedInstall DEF RecoveryInductive
  <2> QED
    BY <1>3, <2>1, <2>2
<1>5. Clean(log, tail) /\ newest \in media
  BY <1>2 DEF RecoveryInductive, ChainInv
<1> QED
  BY <1>1, <1>2, <1>4, <1>5, ChainQuiet

\* clear_stale_tail is done: what an interrupted record left lies in the blocks
\* that were cleared.
LEMMA ChainClearEnds ==
  ASSUME RecoveryInductive, ClearEnds
  PROVE  ChainInv'
<1>1. /\ UNCHANGED <<log, ckpt, tail, resident, cached, newest, media>>
      /\ pc = "clear" /\ cursor.bound = ClearEnd /\ pc' = "clearsync"
  BY DEF ClearEnds, disk, rootVars, cacheVars, ghosts
<1>2. /\ InUse /\ InUse' /\ pc \notin {"scan", "replay"} \cup Publishing
      /\ pc' \notin {"scan", "replay", "clear"} \cup Publishing /\ End = tail
  BY <1>1 DEF InUse, Publishing, End, Building
<1>3. \A l \in Lbas : MappedEntry(l)' = MappedEntry(l)
  BY <1>1 DEF MappedEntry, SnapshotEntry
<1>4. newest \in media /\ Residue(log, tail)
      /\ \A a \in Addr : a \in tail.bound + 1 .. cursor.bound => log[a] = Blank
  BY <1>1, <1>2 DEF RecoveryInductive, ChainInv, Story
<1>5. tail.bound \in Nat /\ MaxRecord = MaxPayload + 1
  BY <1>2, ActiveFacts DEF RecoveryInductive, CacheInductive, MaxRecord
<1>6. \A a \in Addr : a > tail.bound => a \in tail.bound + 1 .. cursor.bound \/ a > tail.bound + MaxPayload
  BY <1>1, <1>5, GeometryAssumption DEF ClearEnd, Smaller, Addr
<1>7. Clean(log, tail)
  BY <1>4, <1>5, <1>6, GeometryAssumption DEF Clean, Residue, Addr
<1> QED
  BY <1>1, <1>2, <1>3, <1>4, <1>7, ChainQuiet

LEMMA ChainClearSync ==
  ASSUME RecoveryInductive, ClearSync
  PROVE  ChainInv'
<1>1. /\ UNCHANGED <<log, ckpt, tail, resident, cached>>
      /\ pc = "clearsync" /\ pc' = "up" /\ newest' = MappedImage /\ media' = {newest'}
  BY DEF ClearSync, disk, rootVars, cacheVars
<1>2. /\ InUse /\ InUse' /\ pc \notin {"scan", "replay"} \cup Publishing /\ ~Windowed
      /\ pc' \notin {"scan", "replay", "clear"} \cup Publishing /\ Settled /\ End = tail
  BY <1>1 DEF InUse, Publishing, Settled, End, Building, Windowed
<1>3. \A l \in Lbas : MappedEntry(l)' = MappedEntry(l)
  BY <1>1 DEF MappedEntry, SnapshotEntry
<1>4. Clean(log, tail) /\ newest' = newest
  BY <1>1, <1>2, MappedImageNewest DEF RecoveryInductive, ChainInv
<1> QED
  BY <1>1, <1>2, <1>3, <1>4, ChainQuiet

LEMMA ChainClearBlock ==
  ASSUME RecoveryInductive, ClearBlock
  PROVE  ChainInv'
<1>1. /\ UNCHANGED <<ckpt, tail, resident, cached, newest, media>> /\ pc = "clear" /\ pc' = "clear"
      /\ log' = [log EXCEPT ![cursor.bound + 1] = Blank]
      /\ cursor' = At(cursor.lsn, cursor.bound + 1)
  BY DEF ClearBlock, rootVars, cacheVars, ghosts
<1>2. /\ InUse /\ InUse' /\ ~Building /\ ~Building' /\ ~Windowed /\ ~Windowed' /\ ~Settled'
      /\ End = tail /\ End' = tail /\ Inductive /\ RootInv
  BY <1>1 DEF InUse, Building, Windowed, Settled, Publishing, End, RecoveryInductive, CacheInductive
<1>3. /\ tail \in Position /\ tail.bound \in Nat /\ cursor.bound \in Nat /\ cursor.bound >= tail.bound
      /\ log \in [Addr -> Block] /\ ckpt \in Checkpoint /\ ckpt.bound <= tail.bound /\ ckpt.bound \in Nat
  BY <1>1, <1>2, ActiveFacts DEF Inductive, ControlInv, TypeOK, HandleTypeOK, DiskTypeOK, Position
<1>4. /\ \A a \in Addr : a <= tail.bound => log'[a] = log[a]
      /\ \A a \in Addr : log'[a] \in {log[a], Blank}
      /\ \A a \in Addr : a = cursor.bound + 1 => log'[a] = Blank
  BY <1>1, <1>3, GeometryAssumption DEF Addr
<1>5. PICK f, g : Story(log, newest, f, g, ckpt, End) /\ Mapping(f, g)
  BY <1>1, <1>2 DEF RecoveryInductive, ChainInv
<1>6. PICK c \in Checkpoint : c = ckpt
  BY <1>3
<1>7. Story(log', newest, f, g, c, tail)
  <2>1. Residue(log', tail)
    BY <1>2, <1>4, <1>5 DEF Story, Residue
  <2> QED
    BY <1>2, <1>3, <1>4, <1>5, <1>6, <2>1, EndFacts, StoryKept
<1>8. \A l \in Lbas : MappedEntry(l)' = MappedEntry(l)
  <2>1. \A l \in Lbas : EntryAt(log', ckpt.index, l) = EntryAt(log, ckpt.index, l)
    <3>1. \A a \in Addr : a <= ckpt.bound => log'[a] = log[a]
      BY <1>3, <1>4, GeometryAssumption DEF Addr
    <3> QED
      BY <1>2, <3>1, EndFacts, EntryKept
  <2> QED
    BY <1>1, <2>1 DEF MappedEntry, SnapshotEntry, EntryAt
<1>9. Mapping(f, g)'
  BY <1>1, <1>2, <1>5, <1>8 DEF Mapping, Publishing
<1>10. \A a \in Addr : a \in tail.bound + 1 .. cursor.bound + 1 => log'[a] = Blank
  <2>1. \A a \in Addr : a \in tail.bound + 1 .. cursor.bound => log[a] = Blank
    BY <1>1 DEF RecoveryInductive, ChainInv
  <2> QED
    BY <1>3, <1>4, <2>1
<1>11. newest' \in Image /\ newest' \in media'
  BY <1>1 DEF RecoveryInductive, ChainInv
<1>12. cursor'.bound = cursor.bound + 1
  BY <1>1 DEF At
<1>13. Story(log', newest', f, g, ckpt', End')
  BY <1>1, <1>2, <1>6, <1>7
<1> QED
  BY <1>1, <1>2, <1>9, <1>10, <1>11, <1>12, <1>13 DEF ChainInv

\* The steps of a publication that leave the log, the cache and the candidate alone.
LEMMA ChainPersist ==
  ASSUME RecoveryInductive, SyncLog \/ WriteBody \/ SyncBody \/ WriteDescriptor
  PROVE  ChainInv'
<1>1. /\ UNCHANGED <<log, op, ckpt, cand, pend, tail, resident, cached, marked, newest, media>>
      /\ pc \in Publishing /\ pc' \in Publishing
  BY DEF SyncLog, WriteBody, SyncBody, WriteDescriptor, disk, rootVars, cacheVars,
     recoveryVars, ghosts, Publishing
<1>2. /\ InUse /\ InUse' /\ Building /\ Building' /\ (Windowed <=> Windowed') /\ (Settled <=> Settled')
      /\ End' = End /\ pc \notin {"scan", "replay", "clear"} /\ pc' \notin {"scan", "replay", "clear"}
  BY <1>1 DEF InUse, Building, Windowed, Settled, Publishing, End
<1>3. PICK f, g : Story(log, newest, f, g, ckpt, End) /\ Mapping(f, g)
  BY <1>2 DEF RecoveryInductive, ChainInv
<1>4. \A l \in Lbas : MappedEntry(l)' = MappedEntry(l)
  BY <1>1 DEF MappedEntry, SnapshotEntry
<1>5. Mapping(f, g)'
  BY <1>1, <1>2, <1>3, <1>4 DEF Mapping, WindowInv, EntryIn
<1> QED
  BY <1>1, <1>2, <1>3, <1>5 DEF RecoveryInductive, ChainInv

\* A story goes on over the first count snapshots of a batch.
Continues(blocks, f, g, c, end, stop) ==
  \E f2, g2 : /\ Story(blocks, newest, f2, g2, c, stop)
              /\ \A n \in c.lsn .. end.lsn : f2[n] = f[n] /\ g2[n] = g[n]
              /\ g2[stop.lsn] = g[end.lsn]

LEMMA SnapshotStory ==
  ASSUME Inductive, RootInv, pc = "append", NEW S \in SUBSET Pages, NEW k \in Nat, k <= Cardinality(S),
         cand.bound + k < BackingBlocks, NEW f, NEW g, NEW c \in Checkpoint, c = ckpt,
         Story(log, newest, f, g, c, End)
  PROVE  Continues(WithSnapshots(S, k), f, g, c, End, At(End.lsn + k, End.bound + k))
<1> DEFINE new == WithSnapshots(S, k)
           stop == At(End.lsn + k, End.bound + k)
<1>1. InUse /\ Building /\ TypeOK
  BY DEF InUse, Building, Publishing, Inductive
<1>2. /\ cand.bound \in Nat /\ cand.lsn \in Nat /\ cand \in Checkpoint
      /\ LogStart <= cand.bound + 1
  BY <1>1, BuildingFacts
<1>3. /\ End.lsn = cand.lsn /\ End.bound = cand.bound /\ stop \in Position
      /\ stop.bound = End.bound + k /\ stop.lsn = End.lsn + k /\ End \in Position
  BY <1>1, <1>2 DEF End, PositionOf, At, Position
<1> HIDE DEF stop
<1>4. /\ \A a \in Addr : a <= End.bound => new[a] = log[a]
      /\ \A a \in Addr : a > stop.bound => new[a] = log[a]
  BY <1>1, <1>2, <1>3, SnapshotBlocks
<1>5. Chain(new, f, g, c, End)
  BY <1>1, <1>3, <1>4, EndFacts, ChainKept DEF Story
<1>6. GoesOn(new, f, g, c, End, stop, g[End.lsn])
  <2>1. \A i \in 0 .. k - 1 : PageAfter(new, At(End.lsn + i, End.bound + i))
    BY <1>1, <1>2, <1>3, SnapshotsFollow
  <2>2. PagesAfter(new, End, k)
    BY <2>1 DEF PagesAfter
  <2> QED
    BY <1>3, <1>5, <2>2, ChainPages DEF stop
<1>7. PICK f2, g2 : /\ Chain(new, f2, g2, c, stop)
                    /\ \A n \in c.lsn .. End.lsn : f2[n] = f[n] /\ g2[n] = g[n]
                    /\ g2[stop.lsn] = g[End.lsn]
  BY <1>6 DEF GoesOn
<1>8. Leads(new, newest, g2[stop.lsn], stop)
  <2>1. Leads(new, newest, g[End.lsn], End)
    BY <1>1, <1>3, <1>4, EndFacts, LeadsKept DEF Story
  <2> QED
    BY <1>2, <1>3, <1>7, <2>1, LeadsFurther
<1>9. Residue(new, stop)
  <2>1. Residue(log, End)
    BY DEF Story
  <2>2. \A a \in Addr : a > stop.bound => a > End.bound
    BY <1>2, <1>3, GeometryAssumption DEF Addr
  <2>3. \A a \in Addr : a <= End.bound + MaxPayload => a <= stop.bound + MaxPayload
    BY <1>2, <1>3, GeometryAssumption DEF Addr
  <2> QED
    BY <1>4, <2>1, <2>2, <2>3 DEF Residue
<1>10. Story(new, newest, f2, g2, c, stop)
  BY <1>2, <1>3, <1>7, <1>8, <1>9 DEF Story
<1> QED
  BY <1>7, <1>10 DEF Continues, stop

LEMMA ChainAppendBatch ==
  ASSUME RecoveryInductive, Inductive', AppendBatch
  PROVE  ChainInv'
<1> PICK S \in SUBSET pend :
       /\ Lowest(S, Batch, pend)
       /\ log' = WithSnapshots(S, Cardinality(S))
       /\ cand' = Extended(S)
       /\ pend' = pend \ S
       /\ marked' = marked \ S
  BY DEF AppendBatch
<1> DEFINE k == Cardinality(S)
           stop == At(End.lsn + k, End.bound + k)
<1>1. /\ UNCHANGED <<op, ckpt, tail, resident, cached, newest, media>>
      /\ pc = "append" /\ pc' = "append"
  BY DEF AppendBatch, cacheVars, ghosts
<1>2. /\ InUse /\ InUse' /\ Building /\ Building' /\ (Windowed <=> Windowed') /\ (Settled <=> Settled')
      /\ pc \in Publishing /\ Inductive /\ RootInv /\ TypeOK
      /\ S \in SUBSET Pages /\ k \in Nat
  BY <1>1, PagesFinite DEF InUse, Building, Windowed, Settled, Publishing, RecoveryInductive, CacheInductive,
     Inductive, TypeOK, HandleTypeOK
<1>3. /\ cand.bound \in Nat /\ cand.lsn \in Nat /\ cand \in Checkpoint
      /\ LogStart <= cand.bound + 1 /\ tail.bound <= cand.bound
      /\ cand.bound + k < BackingBlocks
  BY <1>1, <1>2, BuildingFacts, BatchFits
<1>4. End.lsn = cand.lsn /\ End.bound = cand.bound /\ End' = stop /\ stop \in Position
      /\ stop.bound = End.bound + k /\ stop.lsn = End.lsn + k /\ End \in Position
  BY <1>2, <1>3 DEF End, PositionOf, At, Position, Extended
<1> HIDE DEF stop
<1>5. PICK f, g : Story(log, newest, f, g, ckpt, End) /\ Mapping(f, g)
  BY <1>1, <1>2 DEF RecoveryInductive, ChainInv
<1>6. PICK c \in Checkpoint : c = ckpt
  BY <1>2, ActiveFacts
<1>7. /\ \A a \in Addr : a <= End.bound => log'[a] = log[a]
      /\ \A a \in Addr : a > stop.bound => log'[a] = log[a]
  BY <1>2, <1>3, <1>4, SnapshotBlocks
<1>8. Continues(log', f, g, c, End, stop)
  <2>1. k <= Cardinality(S)
    BY <1>2
  <2> QED
    BY <1>1, <1>2, <1>3, <1>5, <1>6, <2>1, SnapshotStory DEF stop
<1>9. PICK f2, g2 : /\ Story(log', newest, f2, g2, c, stop)
                    /\ \A n \in c.lsn .. End.lsn : f2[n] = f[n] /\ g2[n] = g[n]
                    /\ g2[stop.lsn] = g[End.lsn]
  BY <1>8 DEF Continues
<1>11. Settled => Clean(log', stop)
  <2>1. Settled => Clean(log, End)
    BY DEF RecoveryInductive, ChainInv
  <2>2. \A a \in Addr : a > stop.bound => a > End.bound
    BY <1>2, <1>3, <1>4, GeometryAssumption DEF Addr
  <2> QED
    BY <1>7, <2>1, <2>2 DEF Clean
<1>13. \A l \in Lbas : EntryAt(log', ckpt.index, l) = EntryAt(log, ckpt.index, l)
  <2>1. \A a \in Addr : a <= ckpt.bound => log'[a] = log[a]
    BY <1>2, <1>7, EndFacts, ActiveFacts, GeometryAssumption DEF Addr
  <2> QED
    BY <1>2, <2>1, EndFacts, EntryKept
<1>14. \A l \in Lbas : MappedEntry(l)' = MappedEntry(l)
  BY <1>1, <1>13 DEF MappedEntry, SnapshotEntry, EntryAt
<1>15. tail.lsn \in ckpt.lsn .. stop.lsn /\ f2[tail.lsn] = tail.bound
       /\ \A n \in ckpt.lsn .. tail.lsn : f2[n] <= tail.bound
       /\ \A l \in Lbas : g2[stop.lsn][l] = g2[tail.lsn][l] /\ g2[tail.lsn][l] = g[tail.lsn][l]
  <2>1. tail.lsn \in ckpt.lsn .. End.lsn /\ f[tail.lsn] = tail.bound
        /\ \A l \in Lbas : g[End.lsn][l] = g[tail.lsn][l]
    BY <1>5 DEF Mapping
  <2>2. End.lsn <= stop.lsn /\ ckpt.lsn \in Nat /\ End.lsn \in Nat /\ stop.lsn \in Nat
    BY <1>2, <1>3, <1>4, ActiveFacts
  <2>3. tail.lsn \in ckpt.lsn .. stop.lsn
    BY <2>1, <2>2
  <2>4. f2[tail.lsn] = f[tail.lsn] /\ g2[tail.lsn] = g[tail.lsn]
    BY <1>6, <1>9, <2>1
  <2>5. \A n \in ckpt.lsn .. tail.lsn : f2[n] = f[n] /\ f[n] <= tail.bound
    BY <1>5, <1>6, <1>9, <2>1, <2>2 DEF Mapping
  <2> QED
    BY <1>9, <2>1, <2>3, <2>4, <2>5
<1>16. op = "recover" =>
         /\ \A l \in Lbas : PageOf(l) \in pend' => cached'[l] = g2[tail.lsn][l]
         /\ \A l \in Lbas : PageOf(l) \notin marked' => EntryAt(log', cand'.index, l) = g2[tail.lsn][l]
  <2> SUFFICES ASSUME op = "recover"
               PROVE  /\ \A l \in Lbas : PageOf(l) \in pend' => cached'[l] = g2[tail.lsn][l]
                      /\ \A l \in Lbas : PageOf(l) \notin marked' =>
                           EntryAt(log', cand'.index, l) = g2[tail.lsn][l]
    OBVIOUS
  <2>1. /\ \A l \in Lbas : PageOf(l) \in pend => cached[l] = g[tail.lsn][l]
        /\ \A l \in Lbas : PageOf(l) \notin marked => EntryAt(log, cand.index, l) = g[tail.lsn][l]
    BY <1>2, <1>5 DEF Mapping, WindowInv, EntryIn
  <2>2. \A l \in Lbas :
          /\ PageOf(l) \in S => EntryAt(log', cand'.index, l) = cached[l]
          /\ PageOf(l) \notin S => EntryAt(log', cand'.index, l) = EntryAt(log, cand.index, l)
    BY <1>1, <1>2, <1>3, BatchEntries
  <2> QED
    BY <1>1, <1>15, <2>1, <2>2
<1>17. Mapping(f2, g2)'
  BY <1>1, <1>2, <1>4, <1>5, <1>14, <1>15, <1>16 DEF Mapping, WindowInv, EntryIn, Publishing
<1>18. Story(log', newest', f2, g2, ckpt', End')
  BY <1>1, <1>4, <1>6, <1>9
<1>19. newest' \in Image /\ newest' \in media'
  BY <1>1 DEF RecoveryInductive, ChainInv
<1> QED
  BY <1>1, <1>2, <1>4, <1>11, <1>17, <1>18, <1>19 DEF ChainInv

\* Once every snapshot is appended, the candidate has the mapping of the whole log.
LEMMA CandComplete ==
  ASSUME RecoveryInductive, pc \in Publishing \ {"append"}, NEW f, NEW g, Mapping(f, g), NEW l \in Lbas
  PROVE  EntryAt(log, cand.index, l) = g[End.lsn][l]
<1>1. /\ g[End.lsn][l] = g[tail.lsn][l] /\ pc # "replay" /\ pc \in Publishing
      /\ PageOf(l) \in Pages
  BY PagesOfLbas DEF Mapping, Publishing
<1>2. CASE op = "recover"
  <2>1. marked = {}
    BY <1>2 DEF RecoveryInductive, CacheInductive, PendInv
  <2> QED
    BY <1>1, <1>2, <2>1 DEF Mapping, WindowInv, EntryIn
<1>3. CASE op # "recover"
  <2>1. MappedEntry(l) = g[tail.lsn][l] /\ pend = {}
    BY <1>1, <1>3 DEF Mapping, Windowed, RecoveryInductive, CacheInductive, PendInv
  <2>2. CASE PageOf(l) \in resident
    BY <1>1, <2>1, <2>2 DEF RecoveryInductive, CacheInductive, CandCoherent, EntryIn, MappedEntry
  <2>3. CASE PageOf(l) \notin resident
    <3>1. PageOf(l) \notin dirty /\ cand.index[PageOf(l)] = ckpt.index[PageOf(l)]
      BY <1>1, <1>3, <2>3 DEF RecoveryInductive, CacheInductive, PendInv, InUse, Publishing
    <3> QED
      BY <1>1, <2>1, <2>3, <3>1 DEF MappedEntry, SnapshotEntry, EntryAt
  <2> QED
    BY <2>2, <2>3
<1> QED
  BY <1>2, <1>3

\* A candidate that has the mapping of the whole log needs no replay.
LEMMA CandStory ==
  ASSUME RecoveryInductive, pc \in Publishing \ {"append"}
  PROVE  \E f, g : /\ Story(log, newest, f, g, cand, PositionOf(cand)) /\ f[cand.lsn] = cand.bound
                   /\ \A l \in Lbas : g[cand.lsn][l] = EntryAt(log, cand.index, l)
<1>1. /\ InUse /\ Building /\ pc # "scan" /\ Inductive /\ RootInv /\ End = PositionOf(cand)
  BY DEF InUse, Building, Publishing, End, RecoveryInductive, CacheInductive
<1>2. cand \in Checkpoint /\ End.lsn = cand.lsn
  BY <1>1, BuildingFacts DEF PositionOf, At
<1>3. PICK f, g : Story(log, newest, f, g, ckpt, End) /\ Mapping(f, g)
  BY <1>1 DEF RecoveryInductive, ChainInv
<1>4. PICK f2, g2 : /\ Chain(log, f2, g2, cand, PositionOf(cand)) /\ f2[cand.lsn] = cand.bound
                    /\ \A l \in Lbas : g2[cand.lsn][l] = EntryAt(log, cand.index, l)
  BY <1>2, ChainEmpty
<1>5. \A l \in Lbas : g2[cand.lsn][l] = g[End.lsn][l]
  BY <1>3, <1>4, CandComplete
<1>6. Leads(log, newest, g2[cand.lsn], End)
  BY <1>3, <1>5 DEF Story, Leads
<1>7. Story(log, newest, f2, g2, cand, PositionOf(cand))
  BY <1>1, <1>2, <1>3, <1>4, <1>6 DEF Story
<1> QED
  BY <1>4, <1>7

\* A kill between two steps leaves a disk that recovers to the newest contents.
LEMMA DiskRecoverable ==
  ASSUME RecoveryInductive, InUse
  PROVE  /\ NewestSlot \in Slot /\ DiskRoot(NewestSlot)
         /\ Recoverable(log, newest, RootIn(NewestSlot))
<1>1. ActiveInv /\ ckpt.slot \in Slot /\ Inductive /\ RootInv
  BY ActiveFacts DEF RecoveryInductive, CacheInductive
<1>2. CASE pc = "descsync"
  <2>1. Building /\ pc \in Publishing \ {"append"}
    BY <1>2 DEF Building, Publishing
  <2>2. CandInv /\ cand.slot \in Slot /\ cand \in Checkpoint
    BY <1>1, <2>1, BuildingFacts
  <2>3. RootIn(cand.slot) = cand /\ DiskRoot(cand.slot)
    BY <1>1, <1>2, <2>1, <2>2, WrittenRoot DEF CandInv
  <2>4. PositionOf(cand) \in Position
    BY <2>2 DEF PositionOf, At, Position, Checkpoint
  <2>5. Recoverable(log, newest, cand)
    BY <2>1, <2>4, CandStory DEF Recoverable
  <2> QED
    BY <1>2, <2>2, <2>3, <2>5 DEF NewestSlot
<1>3. CASE pc # "descsync"
  <2>1. NewestSlot = ckpt.slot /\ RootIn(ckpt.slot) = ckpt /\ DiskRoot(NewestSlot)
    BY <1>1, <1>3 DEF NewestSlot, ActiveInv
  <2>2. Recoverable(log, newest, ckpt)
    BY <1>1, EndFacts DEF RecoveryInductive, ChainInv, Recoverable
  <2> QED
    BY <1>1, <2>1, <2>2
<1> QED
  BY <1>2, <1>3

\* A volume that is not in use and whose disk does not change.
LEMMA ChainDown ==
  ASSUME RecoveryInductive, UNCHANGED <<desc, body, log, newest>>, ~InUse', newest \in media'
  PROVE  ChainInv'
<1>1. PICK s \in Slot : DiskRoot(s) /\ Recoverable(log, newest, RootIn(s))
  BY DiskRecoverable DEF RecoveryInductive, ChainInv
<1>2. DiskRoot(s)' /\ RootIn(s)' = RootIn(s)
  BY <1>1 DEF DiskRoot, Loadable, RootIn
<1>3. PICK c : c = RootIn(s)
  OBVIOUS
<1>4. Recoverable(log', newest', c)
  BY <1>1, <1>3
<1>5. pc' \notin {"scan", "clear"} /\ ~Settled'
  BY DEF InUse, Settled, Publishing
<1>6. newest' \in Image /\ newest' \in media'
  BY DEF RecoveryInductive, ChainInv
<1>7. \E t \in Slot : DiskRoot(t)' /\ Recoverable(log', newest', RootIn(t)')
  BY <1>2, <1>3, <1>4
<1> QED
  BY <1>5, <1>6, <1>7 DEF ChainInv

\* A write is interrupted: the active root is what a crash leaves.
LEMMA ChainCrash ==
  ASSUME RecoveryInductive, InUse, pc # "descsync", ~InUse', UNCHANGED newest,
         desc'[ckpt.slot] = desc[ckpt.slot],
         desc'[Other(ckpt.slot)] \in {NoDescriptor, desc[Other(ckpt.slot)]},
         newest \in media', body'[ckpt.slot] = body[ckpt.slot],
         \A a \in Addr : a <= ckpt.bound => log'[a] = log[a],
         Recoverable(log', newest, ckpt)
  PROVE  ChainInv'
<1>1. /\ ActiveInv /\ ckpt.slot \in Slot /\ desc[ckpt.slot] = DescriptorOf(ckpt)
      /\ desc[ckpt.slot] \in Descriptor
  BY ActiveFacts DEF RecoveryInductive, CacheInductive
<1>2. PICK s \in Slot : s = ckpt.slot
  BY <1>1
<1>3. Loadable(s) /\ RootIn(s) = ckpt /\ DiskRoot(s) /\ desc[s].bound = ckpt.bound
  BY <1>1, <1>2 DEF ActiveInv, NewestSlot, DescriptorOf
<1>4. Loadable(s)' /\ RootIn(s)' = RootIn(s)
  BY <1>1, <1>2, <1>3, LoadableKept
<1>5. DiskRoot(s)'
  BY <1>2, <1>3, <1>4 DEF DiskRoot
<1>6. Recoverable(log', newest', RootIn(s)')
  BY <1>3, <1>4
<1>7. pc' \notin {"scan", "clear"} /\ ~Settled'
  BY DEF InUse, Settled, Publishing
<1>8. newest' \in Image /\ newest' \in media'
  BY DEF RecoveryInductive, ChainInv
<1> QED
  BY <1>5, <1>6, <1>7, <1>8 DEF ChainInv

\* A release is interrupted: payloads without a footer follow the tail.
LEMMA PartialRecord ==
  ASSUME RecoveryInductive, pc = "release", NEW rec \in SUBSET todo, Lowest(rec, MaxPayload, todo),
         NEW count \in 1 .. Cardinality(rec), log' = WithPayloads(rec, count)
  PROVE  /\ Recoverable(log', newest, ckpt) /\ LogValid'
         /\ \A a \in Addr : a <= ckpt.bound => log'[a] = log[a]
<1>1. /\ InUse /\ ~Building /\ Settled /\ End = tail /\ Inductive /\ RootInv
  BY DEF InUse, Building, Publishing, Settled, End, RecoveryInductive, CacheInductive
<1>2. /\ TypeOK /\ tail \in Position /\ tail.bound \in Nat /\ ckpt \in Checkpoint
      /\ ckpt.bound \in Nat /\ ckpt.bound <= tail.bound
  BY <1>1, ActiveFacts
<1>3. rec \in SUBSET Lbas /\ count \in Nat /\ count <= Cardinality(rec) /\ count <= MaxPayload
  BY <1>1, ReleaseRecord, GeometryAssumption
<1>4. \A a \in Addr :
        /\ a <= tail.bound \/ a > tail.bound + count => log'[a] = log[a]
        /\ a \in tail.bound + 1 .. tail.bound + count => \E v : log'[a] = Payload(v)
  BY <1>2, <1>3, PayloadBlocks
<1>5. Residue(log', tail)
  <2>1. \A a \in Addr : a > tail.bound => log[a] = Blank
    BY <1>1 DEF RecoveryInductive, ChainInv, Clean
  <2>2. \A v : Payload(v).kind = "payload"
    BY DEF Payload
  <2>3. ASSUME NEW a \in Addr, a > tail.bound
        PROVE  log'[a] = Blank \/ (log'[a].kind = "payload" /\ a <= tail.bound + MaxPayload)
    <3>1. a \in Nat /\ MaxPayload \in Nat
      BY GeometryAssumption DEF Addr
    <3>2. CASE a <= tail.bound + count
      BY <1>2, <1>3, <1>4, <2>2, <2>3, <3>1, <3>2
    <3>3. CASE a > tail.bound + count
      BY <1>4, <2>1, <2>3, <3>3
    <3> QED
      BY <1>2, <1>3, <3>1, <3>2, <3>3
  <2> QED
    BY <2>3 DEF Residue
<1>6. PICK f, g : Story(log, newest, f, g, ckpt, tail)
  BY <1>1 DEF RecoveryInductive, ChainInv
<1>7. Story(log', newest, f, g, ckpt, tail)
  <2>1. \A p \in Pages : ckpt.index[p] = 0 \/ (ckpt.index[p] \in Addr /\ ckpt.index[p] <= ckpt.bound)
    BY <1>1, EndFacts
  <2>2. PICK c \in Checkpoint : c = ckpt
    BY <1>2
  <2>3. Story(log', newest, f, g, c, tail)
    BY <1>2, <1>4, <1>5, <1>6, <2>1, <2>2, StoryKept
  <2> QED
    BY <2>2, <2>3
<1>8. Recoverable(log', newest, ckpt)
  BY <1>2, <1>7 DEF Recoverable
<1>9. LogValid'
  BY <1>1, <1>2, <1>3, PayloadsValid DEF RootInv, LogValid
<1>10. \A a \in Addr : a <= ckpt.bound => log'[a] = log[a]
  BY <1>2, <1>4, GeometryAssumption DEF Addr
<1> QED
  BY <1>8, <1>9, <1>10

\* The log has room for the snapshots that a publication still has to append.
LEMMA PendFits ==
  ASSUME Inductive, pc = "append", NEW S \in SUBSET pend
  PROVE  cand.bound + Cardinality(S) < BackingBlocks
<1>1. /\ pend \in SUBSET Pages /\ marked \in SUBSET Pages /\ dirty \in SUBSET Pages
      /\ buffered \in SUBSET Lbas /\ bufPages \in Nat /\ cand.bound \in Nat
  BY DEF Inductive, TypeOK, HandleTypeOK, Checkpoint
<1>2. IsFiniteSet(pend) /\ IsFiniteSet(marked) /\ IsFiniteSet(buffered)
  BY <1>1, PagesFinite, LbasFinite
<1>3. Cardinality(S) \in Nat /\ Cardinality(pend) \in Nat /\ Cardinality(S) <= Cardinality(pend)
      /\ Cardinality(buffered) \in Nat /\ Cardinality(marked) \in Nat
  BY <1>2, FS_Subset, FS_CardinalityType
<1>4. InUse /\ Frontier = cand.bound /\ EnsureSpace(cand.bound, Owed)
  BY DEF Inductive, ReservedSpace, InUse, Frontier, Publishing
<1>5. CASE op = "recover"
  <2>1. Owed = Cardinality(marked)
    BY <1>5 DEF Owed, Publishing
  <2>2. Cardinality(pend) <= Cardinality(marked)
    BY <1>2, <1>5, FS_Subset DEF Inductive, ControlInv, Publishing
  <2> QED
    BY <1>1, <1>3, <1>4, <2>1, <2>2, GeometryAssumption DEF EnsureSpace
<1>6. CASE op # "recover"
  <2>1. Owed = Cardinality(pend) + Reservation(Cardinality(buffered), bufPages, 0)
    BY <1>6 DEF Owed, Publishing
  <2>2. Reservation(Cardinality(buffered), bufPages, 0) \in Nat
    BY <1>1, <1>3, RecordBlocksType DEF Reservation
  <2> QED
    BY <1>1, <1>3, <1>4, <2>1, <2>2, GeometryAssumption DEF EnsureSpace
<1> QED
  BY <1>5, <1>6

\* A batch is interrupted: the snapshots it has written are records like any other.
LEMMA PartialBatch ==
  ASSUME RecoveryInductive, pc = "append", NEW S \in SUBSET pend, NEW count \in 1 .. Cardinality(S) - 1,
         log' = WithSnapshots(S, count)
  PROVE  /\ Recoverable(log', newest, ckpt) /\ LogValid'
         /\ \A a \in Addr : a <= ckpt.bound => log'[a] = log[a]
<1>1. /\ InUse /\ Building /\ Inductive /\ RootInv /\ TypeOK /\ S \in SUBSET Pages
  BY DEF InUse, Building, Publishing, RecoveryInductive, CacheInductive, Inductive, TypeOK, HandleTypeOK
<1>2. Cardinality(S) \in Nat /\ count \in Nat /\ count <= Cardinality(S)
  BY <1>1, PagesFinite
<1>3. /\ tail.bound \in Nat /\ ckpt \in Checkpoint /\ ckpt.bound \in Nat /\ ckpt.bound <= tail.bound
      /\ ActiveInv
  BY <1>1, ActiveFacts
<1>4. /\ cand.bound \in Nat /\ cand.lsn \in Nat /\ LogStart <= cand.bound + 1 /\ tail.bound <= cand.bound
  BY <1>1, BuildingFacts
<1>5. cand.bound + count < BackingBlocks
  BY <1>1, <1>2, <1>4, PendFits, GeometryAssumption
<1>6. PICK f, g : Story(log, newest, f, g, ckpt, End)
  BY <1>1 DEF RecoveryInductive, ChainInv
<1>7. Continues(log', f, g, ckpt, End, At(End.lsn + count, End.bound + count))
  <2>1. PICK c \in Checkpoint : c = ckpt
    BY <1>3
  <2>2. Continues(WithSnapshots(S, count), f, g, c, End, At(End.lsn + count, End.bound + count))
    BY <1>1, <1>2, <1>5, <1>6, <2>1, SnapshotStory
  <2> QED
    BY <2>1, <2>2
<1>8. At(End.lsn + count, End.bound + count) \in Position
  BY <1>1, <1>2, EndFacts DEF At, Position
<1>9. Recoverable(log', newest, ckpt)
  BY <1>7, <1>8 DEF Continues, Recoverable
<1>10. LogValid'
  BY <1>1, <1>2, <1>3, <1>4, SnapshotsValid DEF RootInv, LogValid, ActiveInv
<1>11. \A a \in Addr : a <= ckpt.bound => log'[a] = log[a]
  BY <1>1, <1>2, <1>3, <1>4, SnapshotBlocks, GeometryAssumption DEF Addr
<1> QED
  BY <1>9, <1>10, <1>11

\* A process that ends in the middle of a write leaves a disk to recover from.
LEMMA ChainInterrupted ==
  ASSUME RecoveryInductive, Interrupted, ~InUse', UNCHANGED newest, newest \in media', cached' = NoEntries,
         InUse \/ UNCHANGED disk
  PROVE  RootInv' /\ ChainInv'
<1>1. RootInv
  BY DEF RecoveryInductive
<1>2. CASE UNCHANGED disk
  <2>1. UNCHANGED <<desc, body, log>>
    BY <1>2 DEF disk
  <2> QED
    BY <1>1, <2>1, ChainDown, RootDown DEF RootInv, LogValid
<1>3. CASE InUse /\ ~UNCHANGED disk
  <2>1. InUse
    BY <1>3
  <2>2. CASE pc = "release"
    <3>1. UNCHANGED <<desc, body>>
      BY <1>3, <2>2 DEF Interrupted
    <3>2. PICK rec \in SUBSET todo : /\ Lowest(rec, MaxPayload, todo)
                                     /\ \E count \in 1 .. Cardinality(rec) : log' = WithPayloads(rec, count)
      BY <1>3, <2>2 DEF Interrupted
    <3>3. /\ Recoverable(log', newest, ckpt) /\ LogValid'
          /\ \A a \in Addr : a <= ckpt.bound => log'[a] = log[a]
      BY <2>2, <3>2, PartialRecord
    <3>4. /\ desc' \in [Slot -> {NoDescriptor} \cup Descriptor] /\ desc'[ckpt.slot] = desc[ckpt.slot]
          /\ desc'[Other(ckpt.slot)] \in {NoDescriptor, desc[Other(ckpt.slot)]}
      BY <1>1, <3>1 DEF RootInv
    <3> QED
      BY <1>1, <2>1, <2>2, <3>1, <3>3, <3>4, ChainCrash, RootDown
  <2>3. CASE pc = "append"
    <3>1. UNCHANGED <<desc, body>>
      BY <1>3, <2>3 DEF Interrupted
    <3>2. PICK S \in SUBSET pend : \E count \in 1 .. Cardinality(S) - 1 : log' = WithSnapshots(S, count)
      BY <1>3, <2>3 DEF Interrupted
    <3>3. /\ Recoverable(log', newest, ckpt) /\ LogValid'
          /\ \A a \in Addr : a <= ckpt.bound => log'[a] = log[a]
      BY <2>3, <3>2, PartialBatch
    <3>4. /\ desc' \in [Slot -> {NoDescriptor} \cup Descriptor] /\ desc'[ckpt.slot] = desc[ckpt.slot]
          /\ desc'[Other(ckpt.slot)] \in {NoDescriptor, desc[Other(ckpt.slot)]}
      BY <1>1, <3>1 DEF RootInv
    <3> QED
      BY <1>1, <2>1, <2>3, <3>1, <3>3, <3>4, ChainCrash, RootDown
  <2>4. CASE pc \in {"body", "desc"}
    <3>1. /\ UNCHANGED log
          /\ \/ UNCHANGED desc /\ body' = [body EXCEPT ![cand.slot] = TornBody]
             \/ UNCHANGED body /\ desc' = [desc EXCEPT ![cand.slot] = NoDescriptor]
      BY <1>3, <2>4 DEF Interrupted
    <3>2. Building /\ Inductive /\ pc # "scan"
      BY <2>4 DEF Building, Publishing, RecoveryInductive, CacheInductive
    <3>3. /\ cand.slot # ckpt.slot /\ ckpt.slot \in Slot /\ ckpt \in Checkpoint
          /\ cand.slot = Other(ckpt.slot) /\ cand.slot \in Slot
          /\ body \in [Slot -> {TornBody} \cup Index]
          /\ desc \in [Slot -> {NoDescriptor} \cup Descriptor]
      BY <1>1, <2>1, <3>2, BuildingFacts, ActiveFacts, OtherSlot
      DEF Inductive, TypeOK, DiskTypeOK, CandInv
    <3>4. /\ body'[ckpt.slot] = body[ckpt.slot] /\ desc'[ckpt.slot] = desc[ckpt.slot]
          /\ desc'[Other(ckpt.slot)] \in {NoDescriptor, desc[Other(ckpt.slot)]}
          /\ desc' \in [Slot -> {NoDescriptor} \cup Descriptor]
      BY <3>1, <3>3
    <3>5. Recoverable(log, newest, ckpt) /\ LogValid'
      BY <1>1, <2>1, <3>1, <3>2, EndFacts DEF RecoveryInductive, ChainInv, Recoverable, RootInv, LogValid
    <3>6. Recoverable(log', newest, ckpt)
      <4>1. PICK c : c = ckpt
        OBVIOUS
      <4> QED
        BY <3>1, <3>5
    <3> QED
      BY <1>1, <2>1, <2>4, <3>1, <3>4, <3>5, <3>6, ChainCrash, RootDown
  <2> QED
    BY <1>3, <2>2, <2>3, <2>4 DEF Interrupted
<1> QED
  BY <1>2, <1>3

\* Every step that ends the use of a volume: faults, errors and the end of a close.
LEMMA RecoveryDown ==
  ASSUME RecoveryInductive,
         Kill \/ IoError \/ Drop \/ Closed \/ Latch \/ \E why : OpenFails(why)
  PROVE  RootInv' /\ ChainInv'
<1>1. newest \in media
  BY DEF RecoveryInductive, ChainInv
<1>2. CASE Kill \/ IoError
  <2>1. /\ Interrupted /\ ~InUse' /\ UNCHANGED <<newest, media>> /\ cached' = NoEntries
        /\ pc \notin {"down", "panic"}
    BY <1>2 DEF Kill, IoError, InUse, Forget, ghosts, Idle
  <2>2. InUse \/ UNCHANGED disk
    BY <2>1 DEF InUse, Interrupted
  <2> QED
    BY <1>1, <2>1, <2>2, ChainInterrupted
<1>3. CASE Closed \/ Latch \/ \E why : OpenFails(why)
  <2>1. UNCHANGED disk /\ ~InUse' /\ UNCHANGED newest /\ cached' = NoEntries /\ newest \in media'
    BY <1>1, <1>3 DEF Closed, Latch, OpenFails, InUse, Forget, ghosts
  <2>2. Interrupted
    BY <2>1 DEF Interrupted
  <2> QED
    BY <2>1, <2>2, ChainInterrupted
<1>4. CASE Drop
  <2>1. UNCHANGED disk /\ ~InUse' /\ UNCHANGED <<newest, media, cached>> /\ ~InUse
    BY <1>4 DEF Drop, InUse, ghosts, cacheVars
  <2>2. Interrupted /\ cached' = NoEntries
    BY <2>1 DEF Interrupted, RecoveryInductive, RootInv
  <2> QED
    BY <1>1, <2>1, <2>2, ChainInterrupted
<1> QED
  BY <1>2, <1>3, <1>4

LEMMA ChainPrepare ==
  ASSUME RecoveryInductive, Prepare, ~Latch
  PROVE  ChainInv'
<1>1. /\ UNCHANGED <<log, op, ckpt, tail, resident, cached, newest, media>>
      /\ pc = "prepare" /\ pc' = "append" /\ cand' = Candidate
  BY DEF Prepare, disk, cacheVars, ghosts
<1>2. /\ InUse /\ InUse' /\ ~Building /\ Building' /\ ~Windowed /\ Settled /\ Settled' /\ ~Windowed'
      /\ End = tail /\ op # "recover" /\ tail \in Position
  BY <1>1 DEF InUse, Building, Windowed, Settled, Publishing, End, RecoveryInductive, CacheInductive,
     Inductive, ControlInv, TypeOK, HandleTypeOK
<1>3. End' = tail
  BY <1>1, <1>2 DEF End, PositionOf, At, Candidate, Position
<1>4. PICK f, g : Story(log, newest, f, g, ckpt, End) /\ Mapping(f, g)
  BY <1>1, <1>2 DEF RecoveryInductive, ChainInv
<1>5. \A l \in Lbas : MappedEntry(l)' = MappedEntry(l)
  BY <1>1 DEF MappedEntry, SnapshotEntry
<1>6. Mapping(f, g)'
  BY <1>1, <1>2, <1>3, <1>4, <1>5 DEF Mapping
<1>7. Story(log', newest', f, g, ckpt', End')
  BY <1>1, <1>2, <1>3, <1>4
<1>8. newest' \in Image /\ newest' \in media' /\ Clean(log', End')
  BY <1>1, <1>2, <1>3 DEF RecoveryInductive, ChainInv
<1> QED
  BY <1>1, <1>2, <1>6, <1>7, <1>8 DEF ChainInv

LEMMA ChainAppendDone ==
  ASSUME RecoveryInductive, AppendDone
  PROVE  ChainInv'
<1>1. /\ UNCHANGED <<log, op, ckpt, cand, pend, tail, marked, newest, media>>
      /\ pc = "append" /\ pend = {} /\ pc' \in {"replay", "sync"}
  BY DEF AppendDone, disk, rootVars, ghosts
<1>2. /\ InUse /\ InUse' /\ Building /\ End = PositionOf(cand) /\ Inductive /\ RootInv /\ pc \in Publishing
      /\ pc # "replay" /\ pc' # "scan" /\ pc' # "clear"
  BY <1>1 DEF InUse, Building, Publishing, End, RecoveryInductive, CacheInductive
<1>3. PICK f, g : Story(log, newest, f, g, ckpt, End) /\ Mapping(f, g)
  BY <1>1, <1>2 DEF RecoveryInductive, ChainInv
<1>4. newest' \in Image /\ newest' \in media'
  BY <1>1 DEF RecoveryInductive, ChainInv
<1>5. CASE pc' = "sync"
  <2>1. UNCHANGED <<resident, cached>>
    BY <1>5 DEF AppendDone, cacheVars
  <2>2. /\ Building' /\ (Windowed' <=> Windowed) /\ End' = End /\ (Settled' <=> Settled)
    BY <1>1, <1>2, <1>5 DEF Building, Windowed, End, Publishing, Settled
  <2>3. \A l \in Lbas : MappedEntry(l)' = MappedEntry(l)
    BY <1>1, <2>1 DEF MappedEntry, SnapshotEntry
  <2>4. Mapping(f, g)'
    BY <1>1, <1>2, <1>3, <1>5, <2>1, <2>2, <2>3 DEF Mapping, WindowInv, EntryIn
  <2>5. Story(log', newest', f, g, ckpt', End')
    BY <1>1, <1>3, <2>2
  <2>6. Settled' => Clean(log', End')
    BY <1>1, <2>2 DEF RecoveryInductive, ChainInv
  <2> QED
    BY <1>2, <1>4, <1>5, <2>4, <2>5, <2>6 DEF ChainInv
<1>6. CASE pc' = "replay"
  <2>1. /\ op = "recover" /\ window' \subseteq marked
        /\ resident' = {} /\ cursor' = PositionOf(ckpt)
    BY <1>6 DEF AppendDone, NextWindow
  <2>2. /\ Building' /\ Windowed /\ Windowed' /\ End' = End /\ ~Settled'
    BY <1>1, <1>2, <1>6, <2>1 DEF Building, Windowed, End, Publishing, Settled
  <2>3. ckpt.lsn \in Nat /\ tail.lsn \in Nat /\ ckpt.lsn <= tail.lsn
    BY <1>2, ActiveFacts
  <2>4. cursor'.lsn = ckpt.lsn /\ cursor'.bound = ckpt.bound
    BY <2>1 DEF PositionOf, At
  <2>5. f[ckpt.lsn] = ckpt.bound /\ \A l \in Lbas : g[ckpt.lsn][l] = EntryAt(log, ckpt.index, l)
    BY <1>3 DEF Story, Chain
  <2>6. \A l \in Lbas : MappedEntry(l)' = EntryAt(log, ckpt.index, l)
    BY <1>1, <2>1 DEF MappedEntry, SnapshotEntry, EntryAt
  <2>7. \A l \in Lbas : PageOf(l) \notin marked => EntryIn(cand, l) = g[tail.lsn][l]
    BY <1>2, <1>3, <2>1 DEF Mapping, WindowInv
  <2>8. ReplayInv(f, g)'
    BY <1>1, <2>1, <2>2, <2>3, <2>4, <2>5, <2>6, <2>7 DEF ReplayInv, EntryIn
  <2>9. Mapping(f, g)'
    BY <1>1, <1>3, <1>6, <2>2, <2>8 DEF Mapping, Publishing
  <2>10. Story(log', newest', f, g, ckpt', End')
    BY <1>1, <1>3, <2>2
  <2> QED
    BY <1>2, <1>4, <1>6, <2>2, <2>9, <2>10 DEF ChainInv
<1> QED
  BY <1>1, <1>5, <1>6

LEMMA ChainSyncDescriptor ==
  ASSUME RecoveryInductive, SyncDescriptor
  PROVE  ChainInv'
<1>1. /\ UNCHANGED <<log, op, resident, cached, marked, newest, media>> /\ pc = "descsync" /\ ckpt' = cand
      /\ tail' = PositionOf(cand) /\ pc' \in {"fetch", "clear", "release"}
      /\ pc' = "clear" <=> op = "recover"
      /\ pc' = "clear" => cursor' = PositionOf(cand)
  BY DEF SyncDescriptor, disk, ghosts
<1>2. /\ InUse /\ InUse' /\ Building /\ ~Building' /\ ~Windowed' /\ Inductive /\ RootInv /\ pc \in Publishing \ {"append"}
      /\ End = PositionOf(cand) /\ End' = PositionOf(cand) /\ (Settled' => Settled)
  BY <1>1 DEF Building, Publishing, InUse, Windowed, End, Settled, RecoveryInductive, CacheInductive
<1>3. cand \in Checkpoint
  BY <1>2, BuildingFacts
<1>4. PICK f, g : /\ Story(log, newest, f, g, cand, PositionOf(cand)) /\ f[cand.lsn] = cand.bound
                  /\ \A l \in Lbas : g[cand.lsn][l] = EntryAt(log, cand.index, l)
  BY <1>2, CandStory
<1>5. \A l \in Lbas : MappedEntry(l)' = EntryAt(log, cand.index, l)
  <2>1. pend = {} /\ pc \in Publishing
    BY <1>2 DEF RecoveryInductive, CacheInductive, PendInv
  <2>2. \A l \in Lbas : PageOf(l) \in resident => cached[l] = EntryAt(log, cand.index, l)
    BY <2>1 DEF RecoveryInductive, CacheInductive, CandCoherent, EntryIn
  <2> QED
    BY <1>1, <2>2 DEF MappedEntry, SnapshotEntry, EntryAt
<1>6. tail'.lsn = cand.lsn /\ tail'.bound = cand.bound /\ cand.lsn \in Nat
  BY <1>1, <1>3 DEF PositionOf, At, Checkpoint
<1>7. Mapping(f, g)'
  <2>1. \A n \in cand.lsn .. cand.lsn : f[n] <= cand.bound
    BY <1>3, <1>4, <1>6 DEF Checkpoint
  <2> QED
    BY <1>1, <1>2, <1>4, <1>5, <1>6, <2>1 DEF Mapping, Publishing
<1>8. Story(log', newest', f, g, ckpt', End')
  BY <1>1, <1>2, <1>4
<1>9. newest' \in Image /\ newest' \in media' /\ (Settled' => Clean(log', End'))
  BY <1>1, <1>2 DEF RecoveryInductive, ChainInv
<1>10. pc' = "clear" => \A a \in Addr : a \in tail'.bound + 1 .. cursor'.bound => log'[a] = Blank
  BY <1>1, <1>3, <1>6, GeometryAssumption DEF Addr, Checkpoint
<1> QED
  BY <1>1, <1>2, <1>7, <1>8, <1>9, <1>10 DEF ChainInv

\* The mapping once the record for rec is applied to it.
LEMMA RecordApplied ==
  ASSUME TypeOK, LogStart <= tail.bound + 1, NEW rec \in SUBSET Lbas, RecordEnd(rec) < BackingBlocks,
         NEW ents, NEW l \in Lbas
  PROVE  /\ l \in rec => Applied(WithRecord(rec)[RecordEnd(rec)], ents, l) = RecordEntry(l, rec, tail.bound + 1)
         /\ l \notin rec => Applied(WithRecord(rec)[RecordEnd(rec)], ents, l) = ents[l]
<1> DEFINE b == RecordEnd(rec)
           made == RecordEntries(rec, tail.bound + 1)
<1>1. b \in Addr
  BY LbasFinite, GeometryAssumption DEF TypeOK, HandleTypeOK, Position, Addr, RecordEnd
<1>2. WithRecord(rec)[b] = Footer(tail.lsn + 1, tail.bound, b, made)
  BY <1>1, RecordPlaced
<1>3. WithRecord(rec)[b].kind = "data" /\ WithRecord(rec)[b].ents = made
  BY <1>2 DEF Footer
<1>4. /\ made[l].phys # 0 <=> l \in rec
      /\ l \in rec => made[l] = RecordEntry(l, rec, tail.bound + 1)
  BY RecordMaps
<1> HIDE DEF made, b
<1>5. /\ l \in rec => Applied(WithRecord(rec)[b], ents, l) = RecordEntry(l, rec, tail.bound + 1)
      /\ l \notin rec => Applied(WithRecord(rec)[b], ents, l) = ents[l]
  BY <1>3, <1>4 DEF Applied
<1> QED
  BY <1>5 DEF b

\* write_record: the record extends the chain, and lookups change as it says.
LEMMA ChainAppendRecord ==
  ASSUME RecoveryInductive, pc = "release", NEW rec \in SUBSET todo,
         Lowest(rec, MaxPayload, todo), AppendRecord(rec)
  PROVE  ChainInv'
<1> DEFINE b == RecordEnd(rec)
           stop == At(tail.lsn + 1, b)
<1>1. /\ UNCHANGED ckpt /\ log' = WithRecord(rec) /\ tail' = stop
      /\ pc' \in {"release", "flushsync", "closing", "up"}
      /\ newest' = [l \in Lbas |-> IF l \in rec THEN buffer[l] ELSE newest[l]]
      /\ media' = media \cup {newest'}
  BY DEF AppendRecord, rootVars, AfterRelease, RecordEnd
<1>2. /\ InUse /\ InUse' /\ ~Building /\ ~Building' /\ ~Windowed /\ ~Windowed' /\ Settled
      /\ pc' \notin {"scan", "replay", "clear"} \cup Publishing
      /\ End = tail /\ End' = stop /\ CacheInductive /\ Inductive /\ RootInv
  BY <1>1 DEF InUse, Building, Windowed, Settled, Publishing, End, RecoveryInductive, CacheInductive
<1>3. /\ rec \in SUBSET Lbas /\ Cardinality(rec) \in 1 .. MaxPayload
      /\ b < BackingBlocks /\ b \in Nat
  BY <1>2, ReleaseRecord
<1>4. /\ TypeOK /\ ckpt \in Checkpoint /\ tail \in Position /\ tail.bound \in Nat /\ tail.lsn \in Nat
      /\ LogStart <= tail.bound + 1 /\ tail.bound < BackingBlocks /\ ckpt.lsn \in Nat /\ ckpt.lsn <= tail.lsn
      /\ ckpt.bound \in Nat /\ ckpt.bound <= tail.bound
  BY <1>2, ActiveFacts, GeometryAssumption
<1>5. stop \in Position /\ stop.lsn = tail.lsn + 1 /\ stop.bound = b /\ b > tail.bound
  BY <1>3, <1>4, GeometryAssumption DEF At, Position, RecordEnd
<1> HIDE DEF stop
<1>6. PICK f, g : Story(log, newest, f, g, ckpt, tail) /\ Mapping(f, g)
  BY <1>2 DEF RecoveryInductive, ChainInv
<1>7. PICK c \in Checkpoint : c = ckpt
  BY <1>4
<1>8. /\ \A a \in Addr : a <= tail.bound => log'[a] = log[a]
      /\ \A a \in Addr : a > b => log'[a] = log[a]
  BY <1>1, <1>3, <1>4, RecordPlaced
<1>9. Chain(log', f, g, c, tail)
  BY <1>2, <1>4, <1>6, <1>7, <1>8, EndFacts, ChainKept DEF Story
<1> DEFINE ents == [l \in Lbas |-> Applied(log'[b], g[tail.lsn], l)]
<1>10. \A l \in Lbas : ents[l] = IF l \in rec THEN RecordEntry(l, rec, tail.bound + 1) ELSE g[tail.lsn][l]
  BY <1>1, <1>3, <1>4, RecordApplied
<1>11. GoesOn(log', f, g, c, tail, stop, ents)
  <2>1. NextIn(log', tail, b)
    BY <1>1, <1>3, <1>4, RecordFollows
  <2>2. \A l \in Lbas : ents[l] = Applied(log'[b], g[tail.lsn], l)
    OBVIOUS
  <2> HIDE DEF ents, b
  <2> QED
    BY <1>4, <1>9, <2>1, <2>2, ChainRecord DEF stop
<1> HIDE DEF ents
<1>12. PICK f2, g2 : /\ Chain(log', f2, g2, c, stop)
                     /\ \A n \in c.lsn .. tail.lsn : f2[n] = f[n] /\ g2[n] = g[n]
                     /\ g2[stop.lsn] = ents
  BY <1>11 DEF GoesOn
<1>13. Leads(log', newest', ents, stop)
  <2>1. Leads(log', newest, g[tail.lsn], tail)
    BY <1>4, <1>6, <1>8, LeadsKept DEF Story
  <2>2. Leads(log', newest, g[tail.lsn], stop)
    <3>1. tail.bound <= stop.bound
      BY <1>3, <1>4, <1>5
    <3> QED
      BY <1>4, <1>5, <2>1, <3>1, LeadsFurther
  <2>3. ASSUME NEW l \in Lbas
        PROVE  EntryUpTo(ents[l], stop.bound) /\ PayloadIn(log', l, ents[l]) = newest'[l]
    <3>1. CASE l \in rec
      <4>1. ents[l] = RecordEntry(l, rec, tail.bound + 1) /\ newest'[l] = buffer[l]
        BY <1>1, <1>10, <3>1
      <4>2. /\ ents[l].phys \in LogStart .. b - 1
            /\ PayloadIn(log', l, ents[l]) = buffer[l]
        BY <1>1, <1>3, <1>4, <3>1, <4>1, RecordLeads
      <4> QED
        BY <1>3, <1>5, <4>1, <4>2, GeometryAssumption DEF EntryUpTo
    <3>2. CASE l \notin rec
      BY <1>1, <1>10, <2>2, <3>2 DEF Leads
    <3> QED
      BY <3>1, <3>2
  <2> QED
    BY <2>3 DEF Leads
<1>14. Clean(log', stop)
  <2>1. Clean(log, tail)
    BY <1>2 DEF RecoveryInductive, ChainInv
  <2>2. \A a \in Addr : a > b => a > tail.bound
    BY <1>3, <1>4, <1>5, GeometryAssumption DEF Addr
  <2> QED
    BY <1>5, <1>8, <2>1, <2>2 DEF Clean
<1>15. Story(log', newest', f2, g2, c, stop)
  BY <1>3, <1>5, <1>12, <1>13, <1>14, CleanResidue DEF Story
<1>16. \A l \in Lbas : MappedEntry(l)' = ents[l]
  <2> SUFFICES ASSUME NEW l \in Lbas
               PROVE  MappedEntry(l)' = ents[l]
    OBVIOUS
  <2>1. MappedEntry(l) = g[tail.lsn][l]
    BY <1>2, <1>6 DEF Mapping
  <2>2. /\ dirty' \subseteq resident' /\ dirty' = dirty \cup PagesOf(rec)
        /\ cached'[l] = IF PageOf(l) \notin resident' THEN Unmapped
                        ELSE IF l \in rec THEN RecordEntry(l, rec, tail.bound + 1)
                        ELSE MappedEntry(l)
    BY DEF AppendRecord, Keeps
  <2>3. CASE PageOf(l) \in resident'
    BY <1>10, <2>1, <2>2, <2>3 DEF MappedEntry
  <2>4. CASE PageOf(l) \notin resident'
    <3>1. l \notin rec /\ PageOf(l) \notin dirty
      BY <2>2, <2>4 DEF PagesOf
    <3>2. MappedEntry(l) = EntryAt(log, ckpt.index, l)
      BY <1>2, <3>1, MappedClean
    <3>3. EntryAt(log', ckpt.index, l) = EntryAt(log, ckpt.index, l)
      <4>1. \A a \in Addr : a <= ckpt.bound => log'[a] = log[a]
        BY <1>4, <1>8, GeometryAssumption DEF Addr
      <4>2. \A p \in Pages : ckpt.index[p] = 0 \/ (ckpt.index[p] \in Addr /\ ckpt.index[p] <= ckpt.bound)
        BY <1>2, EndFacts
      <4> QED
        BY <4>1, <4>2, EntryKept
    <3>4. MappedEntry(l)' = EntryAt(log', ckpt'.index, l)
      BY <2>4 DEF MappedEntry, SnapshotEntry, EntryAt
    <3> QED
      BY <1>1, <1>10, <2>1, <3>1, <3>2, <3>3, <3>4
  <2> QED
    BY <2>3, <2>4
<1>17. stop.lsn \in ckpt.lsn .. stop.lsn /\ f2[stop.lsn] = stop.bound
       /\ \A n \in ckpt.lsn .. stop.lsn : f2[n] <= stop.bound
  BY <1>3, <1>4, <1>5, <1>7, <1>12 DEF Chain
<1>18. Mapping(f2, g2)'
  BY <1>1, <1>2, <1>12, <1>16, <1>17 DEF Mapping
<1>19. newest' \in Image /\ newest' \in media'
  BY <1>1, <1>3, <1>4 DEF RecoveryInductive, ChainInv, Image, TypeOK, HandleTypeOK
<1>20. Story(log', newest', f2, g2, ckpt', End')
  BY <1>1, <1>2, <1>7, <1>15
<1> QED
  BY <1>1, <1>2, <1>14, <1>18, <1>19, <1>20 DEF ChainInv

\* No record follows the end of a chain.
LEMMA NoNextAfter ==
  ASSUME NEW blocks, NEW end \in Position, Residue(blocks, end), NEW b
  PROVE  ~NextIn(blocks, end, b)
<1> SUFFICES ASSUME NextIn(blocks, end, b)
             PROVE  FALSE
  OBVIOUS
<1>1. b \in Addr /\ b > end.bound /\ blocks[b].kind \in {"page", "data"}
  BY GeometryAssumption DEF NextIn, FollowsIn, Position, MaxRecord, Addr
<1>2. blocks[b] = Blank \/ blocks[b].kind = "payload"
  BY <1>1 DEF Residue
<1> QED
  BY <1>1, <1>2 DEF Blank

\* The record that read_next finds at a position of the chain is the chain's next.
Advances(blocks, f, g, c, end, pos, b) ==
  /\ pos.lsn + 1 \in c.lsn .. end.lsn /\ f[pos.lsn + 1] = b
  /\ \A l \in Lbas : g[pos.lsn + 1][l] = Applied(blocks[b], g[pos.lsn], l)

LEMMA ChainNext ==
  ASSUME NEW blocks, NEW f, NEW g, NEW c \in Checkpoint, NEW end \in Position,
         Chain(blocks, f, g, c, end), Residue(blocks, end), NEW pos \in Position,
         pos.lsn \in c.lsn .. end.lsn, f[pos.lsn] = pos.bound, NEW b, NextIn(blocks, pos, b)
  PROVE  Advances(blocks, f, g, c, end, pos, b)
<1> DEFINE n == pos.lsn + 1
<1>1. c.lsn \in Nat /\ end.lsn \in Nat /\ pos.lsn \in Nat /\ pos = At(pos.lsn, pos.bound)
      /\ end = At(end.lsn, end.bound)
  BY DEF Checkpoint, Position, At
<1>2. pos.lsn # end.lsn
  <2> SUFFICES ASSUME pos.lsn = end.lsn
               PROVE  FALSE
    OBVIOUS
  <2>1. pos = end
    BY <1>1 DEF Chain
  <2> QED
    BY <2>1, NoNextAfter
<1>3. n \in c.lsn + 1 .. end.lsn /\ n - 1 = pos.lsn /\ n \in c.lsn .. end.lsn
  BY <1>1, <1>2
<1>4. NextIn(blocks, pos, f[n]) /\ \A l \in Lbas : g[n][l] = Applied(blocks[f[n]], g[pos.lsn], l)
  BY <1>1, <1>3 DEF Chain
<1>5. f[n] = b
  BY <1>4, NextUnique
<1> QED
  BY <1>3, <1>4, <1>5 DEF Advances

\* A position of the chain after which read_next finds nothing is its end.
LEMMA ChainStops ==
  ASSUME NEW blocks, NEW f, NEW g, NEW c \in Checkpoint, NEW end \in Position,
         Chain(blocks, f, g, c, end), NEW pos \in Position,
         pos.lsn \in c.lsn .. end.lsn, f[pos.lsn] = pos.bound, \A b \in Addr : ~NextIn(blocks, pos, b)
  PROVE  pos = end
<1> DEFINE n == pos.lsn + 1
<1>1. c.lsn \in Nat /\ end.lsn \in Nat /\ pos.lsn \in Nat /\ pos = At(pos.lsn, pos.bound)
      /\ end = At(end.lsn, end.bound)
  BY DEF Checkpoint, Position, At
<1>2. pos.lsn = end.lsn
  <2> SUFFICES ASSUME pos.lsn # end.lsn
               PROVE  FALSE
    OBVIOUS
  <2>1. n \in c.lsn + 1 .. end.lsn /\ n - 1 = pos.lsn
    BY <1>1
  <2>2. NextIn(blocks, pos, f[n])
    BY <1>1, <2>1 DEF Chain
  <2> QED
    BY <2>2 DEF NextIn
<1> QED
  BY <1>1, <1>2 DEF Chain

LEMMA ChainOpen ==
  ASSUME RecoveryInductive, NEW o \in OpenOptions, Open(o), ~\E why : OpenFails(why)
  PROVE  ChainInv'
<1>1. /\ UNCHANGED <<desc, body, log, newest, media>> /\ pc = "down" /\ pc' = "scan"
      /\ tail' = PositionOf(ckpt')
      /\ \E t \in Slot : Selected(t) /\ ckpt' = RootIn(t)
  BY DEF Open, disk, ghosts
<1>2. ~InUse /\ InUse' /\ ~Settled'
  BY <1>1 DEF InUse, Settled, Publishing
<1>3. PICK t \in Slot : Selected(t) /\ ckpt' = RootIn(t)
  BY <1>1
<1>4. PICK s \in Slot : DiskRoot(s) /\ Recoverable(log, newest, RootIn(s))
  BY <1>2 DEF RecoveryInductive, ChainInv
<1>5. desc[t] = desc[s] /\ desc[s] \in Descriptor
  BY <1>3, <1>4, ChosenRoot DEF RecoveryInductive, RootInv
<1>6. PICK end \in Position : \E f, g : Story(log, newest, f, g, RootIn(s), end)
  BY <1>4 DEF Recoverable
<1>7. PICK f, g : Story(log, newest, f, g, RootIn(s), end)
  BY <1>6
<1>8. /\ RootIn(t).lsn = RootIn(s).lsn /\ RootIn(t).bound = RootIn(s).bound
      /\ RootIn(t).index = RootIn(s).index /\ RootIn(t).lsn \in Nat
  BY <1>5 DEF RootIn, Descriptor
<1>9. Story(log', newest', f, g, ckpt', end)
  BY <1>1, <1>3, <1>7, <1>8 DEF Story, Chain
<1>10. Scanning(f, g, end)'
  <2>1. tail'.lsn = ckpt'.lsn /\ tail'.bound = ckpt'.bound /\ ckpt'.lsn \in Nat
    BY <1>1, <1>3, <1>8 DEF PositionOf, At
  <2>2. ckpt'.lsn <= end.lsn /\ f[ckpt'.lsn] = ckpt'.bound
        /\ \A l \in Lbas : g[ckpt'.lsn][l] = EntryAt(log', ckpt'.index, l)
    BY <1>9 DEF Story, Chain
  <2>3. end.lsn \in Nat
    BY DEF Position
  <2> QED
    BY <2>1, <2>2, <2>3 DEF Scanning, EntryIn
<1>11. newest' \in Image /\ newest' \in media'
  BY <1>1 DEF RecoveryInductive, ChainInv
<1> QED
  BY <1>1, <1>2, <1>9, <1>10, <1>11 DEF ChainInv

LEMMA ChainScanRecord ==
  ASSUME RecoveryInductive, NEW b \in Addr, ScanRecord(b)
  PROVE  ChainInv'
<1>1. /\ UNCHANGED <<log, ckpt, newest, media>> /\ pc = "scan" /\ pc' = "scan"
      /\ IsNext(tail, b) /\ tail' = At(tail.lsn + 1, b)
      /\ marked' = IF log[b].kind = "data"
                     THEN marked \cup PagesOf(MappedLbas(log[b].ents)) ELSE marked
  BY DEF ScanRecord, disk, rootVars, ghosts
<1>2. InUse /\ InUse' /\ ~Settled' /\ Inductive /\ RootInv
  BY <1>1 DEF InUse, Settled, Publishing, RecoveryInductive, CacheInductive
<1>3. tail \in Position /\ ckpt \in Checkpoint
  BY <1>2, ActiveFacts
<1>4. PICK end \in Position : \E f, g : Story(log, newest, f, g, ckpt, end) /\ Scanning(f, g, end)
  BY <1>1 DEF RecoveryInductive, ChainInv
<1>5. PICK f, g : Story(log, newest, f, g, ckpt, end) /\ Scanning(f, g, end)
  BY <1>4
<1>6. NextIn(log, tail, b)
  BY <1>1, <1>3, IsNextIs
<1>7. /\ tail.lsn + 1 \in ckpt.lsn .. end.lsn /\ f[tail.lsn + 1] = b
      /\ \A l \in Lbas : g[tail.lsn + 1][l] = Applied(log[b], g[tail.lsn], l)
  <2>1. /\ Chain(log, f, g, ckpt, end) /\ Residue(log, end)
        /\ tail.lsn \in ckpt.lsn .. end.lsn /\ f[tail.lsn] = tail.bound
    BY <1>5 DEF Story, Scanning
  <2>2. Advances(log, f, g, ckpt, end, tail, b)
    BY <1>3, <1>6, <2>1, ChainNext
  <2> QED
    BY <2>2 DEF Advances
<1>8. tail'.lsn = tail.lsn + 1 /\ tail'.bound = b
  BY <1>1 DEF At
<1>9. \A l \in Lbas : PageOf(l) \notin marked' => g[tail.lsn + 1][l] = EntryIn(ckpt, l)
  <2> SUFFICES ASSUME NEW l \in Lbas, PageOf(l) \notin marked'
               PROVE  g[tail.lsn + 1][l] = EntryIn(ckpt, l)
    OBVIOUS
  <2>1. PageOf(l) \notin marked /\ (log[b].kind = "data" => log[b].ents[l].phys = 0)
    BY <1>1 DEF PagesOf, MappedLbas
  <2> QED
    BY <1>5, <1>7, <2>1 DEF Applied, Scanning
<1>10. Scanning(f, g, end)'
  BY <1>1, <1>7, <1>8, <1>9 DEF Scanning, EntryIn
<1>11. newest' \in Image /\ newest' \in media'
  BY <1>1 DEF RecoveryInductive, ChainInv
<1>12. Story(log', newest', f, g, ckpt', end)
  BY <1>1, <1>5
<1> QED
  BY <1>1, <1>2, <1>10, <1>11, <1>12 DEF ChainInv

LEMMA ChainScanEnd ==
  ASSUME RecoveryInductive, ScanEnd, ~\E why : OpenFails(why)
  PROVE  ChainInv'
<1>1. /\ UNCHANGED <<log, ckpt, tail, resident, cached, marked, newest, media>> /\ pc = "scan"
      /\ \A b \in Addr : ~IsNext(tail, b)
      /\ \/ op' = "fast" /\ window' = marked
         \/ op' = "recover" /\ window' \subseteq marked /\ cand' = Candidate /\ ~(Cardinality(marked) <= opts.cap)
      /\ pc' = IF marked = {} THEN "clear" ELSE "replay"
      /\ cursor' = IF marked = {} THEN tail ELSE PositionOf(ckpt)
  BY DEF ScanEnd, disk, cacheVars, ghosts, NextWindow
<1>2. /\ InUse /\ InUse' /\ ~Settled' /\ Inductive /\ RootInv /\ resident = {}
      /\ pc' \in {"clear", "replay"} /\ opts.cap \in Nat
  BY <1>1 DEF InUse, Settled, Publishing, RecoveryInductive, CacheInductive, Inductive, ControlInv,
     TypeOK, HandleTypeOK, Options
<1>3. /\ tail \in Position /\ ckpt \in Checkpoint /\ ckpt.lsn \in Nat /\ tail.lsn \in Nat
      /\ ckpt.lsn <= tail.lsn /\ tail.bound \in Nat /\ ckpt.bound \in Nat
  BY <1>2, ActiveFacts
<1>4. PICK end \in Position : \E f, g : Story(log, newest, f, g, ckpt, end) /\ Scanning(f, g, end)
  BY <1>1 DEF RecoveryInductive, ChainInv
<1>5. PICK f, g : Story(log, newest, f, g, ckpt, end) /\ Scanning(f, g, end)
  BY <1>4
<1>6. tail = end
  <2>1. \A b \in Addr : ~NextIn(log, tail, b)
    BY <1>1, <1>3, IsNextIs
  <2>2. /\ Chain(log, f, g, ckpt, end)
        /\ tail.lsn \in ckpt.lsn .. end.lsn /\ f[tail.lsn] = tail.bound
    BY <1>5 DEF Story, Scanning
  <2> QED
    BY <1>3, <2>1, <2>2, ChainStops
<1>7. End' = tail
  BY <1>1, <1>2, <1>3 DEF End, Building, Publishing, PositionOf, At, Candidate, Position
<1>8. /\ f[tail.lsn] = tail.bound /\ f[ckpt.lsn] = ckpt.bound
      /\ \A n \in ckpt.lsn .. tail.lsn : f[n] <= tail.bound
      /\ \A l \in Lbas : g[ckpt.lsn][l] = EntryAt(log, ckpt.index, l)
      /\ \A l \in Lbas : PageOf(l) \notin marked => g[tail.lsn][l] = EntryAt(log, ckpt.index, l)
  BY <1>3, <1>5, <1>6 DEF Story, Chain, Scanning, EntryIn
<1>9. \A l \in Lbas : MappedEntry(l)' = EntryAt(log, ckpt.index, l)
  BY <1>1, <1>2 DEF MappedEntry, SnapshotEntry, EntryAt
<1>10. newest' \in Image /\ newest' \in media' /\ Story(log', newest', f, g, ckpt', End')
  BY <1>1, <1>5, <1>6, <1>7 DEF RecoveryInductive, ChainInv
<1>11. CASE marked = {}
  <2>1. Cardinality(marked) <= opts.cap
    BY <1>2, <1>11, FS_EmptySet
  <2>2. op' = "fast" /\ pc' = "clear" /\ cursor' = tail /\ ~Windowed'
    BY <1>1, <1>11, <2>1 DEF Windowed
  <2>3. \A l \in Lbas : MappedEntry(l)' = g[tail.lsn][l]
    BY <1>8, <1>9, <1>11
  <2>4. Mapping(f, g)'
    BY <1>1, <1>3, <1>7, <1>8, <2>2, <2>3 DEF Mapping, Publishing
  <2>5. \A a \in Addr : a \in tail'.bound + 1 .. cursor'.bound => log'[a] = Blank
    BY <1>1, <1>3, <2>2
  <2> QED
    BY <1>2, <1>10, <2>2, <2>4, <2>5 DEF ChainInv
<1>12. CASE marked # {}
  <2>1. pc' = "replay" /\ cursor'.lsn = ckpt.lsn /\ cursor'.bound = ckpt.bound /\ window' \subseteq marked
        /\ (op' = "fast" => window' = marked) /\ (Windowed' => op' = "recover")
    BY <1>1, <1>12 DEF PositionOf, At, Windowed
  <2>2. \A l \in Lbas : EntryIn(IF Windowed THEN cand ELSE ckpt, l)' = EntryAt(log, ckpt.index, l)
    <3>1. Windowed' => cand'.index = ckpt.index
      BY <1>1, <2>1 DEF Candidate
    <3> QED
      BY <1>1, <3>1 DEF EntryIn, EntryAt
  <2>3. ReplayInv(f, g)'
    BY <1>1, <1>3, <1>8, <1>9, <2>1, <2>2 DEF ReplayInv
  <2>4. Mapping(f, g)'
    BY <1>1, <1>3, <1>7, <1>8, <2>1, <2>3 DEF Mapping, Publishing
  <2> QED
    BY <1>2, <1>10, <2>1, <2>4 DEF ChainInv
<1> QED
  BY <1>11, <1>12

\* What the replay reads next is the next record of the chain, and lies below the tail.
LEMMA ReplayNext ==
  ASSUME RecoveryInductive, pc = "replay", cursor # tail, NEW b, IsNext(cursor, b), NEW f, NEW g,
         Story(log, newest, f, g, ckpt, End), Mapping(f, g)
  PROVE  /\ cursor.lsn + 1 \in ckpt.lsn .. tail.lsn /\ f[cursor.lsn + 1] = b /\ b <= tail.bound
         /\ \A l \in Lbas : g[cursor.lsn + 1][l] = Applied(log[b], g[cursor.lsn], l)
<1>1. InUse /\ Inductive /\ RootInv /\ cursor \in Position
  BY DEF InUse, RecoveryInductive, CacheInductive, Inductive, TypeOK, HandleTypeOK
<1>2. /\ tail \in Position /\ ckpt \in Checkpoint /\ ckpt.lsn \in Nat /\ tail.lsn \in Nat
  BY <1>1, ActiveFacts
<1>3. End \in Position /\ End.lsn \in Nat
  BY <1>1, EndFacts
<1>4. /\ Chain(log, f, g, ckpt, End) /\ Residue(log, End)
      /\ cursor.lsn \in ckpt.lsn .. tail.lsn /\ f[cursor.lsn] = cursor.bound
      /\ tail.lsn \in ckpt.lsn .. End.lsn /\ f[tail.lsn] = tail.bound
      /\ \A n \in ckpt.lsn .. tail.lsn : f[n] <= tail.bound
  BY DEF Story, Mapping, ReplayInv
<1>5. cursor.lsn # tail.lsn /\ cursor.lsn \in ckpt.lsn .. End.lsn
  BY <1>1, <1>2, <1>3, <1>4 DEF Position
<1>6. NextIn(log, cursor, b)
  BY <1>1, IsNextIs
<1>7. /\ f[cursor.lsn + 1] = b
      /\ \A l \in Lbas : g[cursor.lsn + 1][l] = Applied(log[b], g[cursor.lsn], l)
  <2>1. Advances(log, f, g, ckpt, End, cursor, b)
    BY <1>1, <1>2, <1>3, <1>4, <1>5, <1>6, ChainNext
  <2> QED
    BY <2>1 DEF Advances
<1>8. cursor.lsn + 1 \in ckpt.lsn .. tail.lsn
  BY <1>2, <1>4, <1>5
<1> QED
  BY <1>4, <1>7, <1>8

LEMMA ChainReplayRecord ==
  ASSUME RecoveryInductive, NEW b \in Addr, ReplayRecord(b), ~\E why : OpenFails(why)
  PROVE  RootInv' /\ ChainInv'
<1> DEFINE ents == log[b].ents
           rec == IF log[b].kind = "data"
                    THEN {l \in MappedLbas(ents) : PageOf(l) \in window} ELSE {}
           pages == resident \cup PagesOf(rec)
<1>1. /\ UNCHANGED <<desc, body, log, op, ckpt, cand, pend, tail, marked, window, newest, media>>
      /\ pc = "replay" /\ pc' = "replay" /\ cursor # tail /\ IsNext(cursor, b)
      /\ resident' = pages
      /\ cached' = [l \in Lbas |-> IF PageOf(l) \notin pages THEN Unmapped
                                   ELSE IF l \in rec THEN ents[l]
                                   ELSE MappedEntry(l)]
      /\ cursor' = At(cursor.lsn + 1, b)
  BY DEF ReplayRecord, disk, rootVars, ghosts
<1>2. /\ rec \in SUBSET Lbas /\ \A l \in rec : PageOf(l) \in pages
      /\ rec # {} => log[b].kind = "data"
      /\ \A l \in Lbas : PageOf(l) \in window =>
           (l \in rec <=> log[b].kind = "data" /\ ents[l].phys # 0)
  BY DEF MappedLbas, PagesOf
<1> HIDE DEF rec, pages
<1>3. /\ InUse /\ InUse' /\ ~Settled' /\ Inductive /\ RootInv /\ (Building <=> Building')
      /\ (Windowed <=> Windowed') /\ End' = End
  BY <1>1 DEF InUse, Settled, Publishing, RecoveryInductive, CacheInductive, Building, Windowed, End
<1>4. PICK f, g : Story(log, newest, f, g, ckpt, End) /\ Mapping(f, g)
  BY <1>1, <1>3 DEF RecoveryInductive, ChainInv
<1>5. /\ cursor.lsn + 1 \in ckpt.lsn .. tail.lsn /\ f[cursor.lsn + 1] = b /\ b <= tail.bound
      /\ \A l \in Lbas : g[cursor.lsn + 1][l] = Applied(log[b], g[cursor.lsn], l)
  BY <1>1, <1>4, ReplayNext
<1>6. tail.bound \in Nat /\ b \in Nat \ {0} /\ ActiveInv
  BY <1>3, ActiveFacts, GeometryAssumption DEF Addr
<1>7. RootInv'
  <2>1. \A l \in rec : EntryUpTo(ents[l], tail.bound)
    <3>1. \A l \in rec : EntryUpTo(ents[l], b - 1)
      BY <1>2, <1>3 DEF RootInv, LogValid, BlockValid
    <3> QED
      BY <1>5, <1>6, <3>1, EntryUpToMono
  <2>2. \A l \in Lbas : EntryUpTo(cached'[l], tail.bound)
    BY <1>1, <1>3, <2>1, MappedUpTo, NothingMapped
  <2> QED
    BY <1>1, <1>3, <2>2, RootSame
<1>8. \A l \in Lbas : PageOf(l) \in window => MappedEntry(l)' = g[cursor.lsn + 1][l]
  <2> SUFFICES ASSUME NEW l \in Lbas, PageOf(l) \in window
               PROVE  MappedEntry(l)' = g[cursor.lsn + 1][l]
    OBVIOUS
  <2>1. MappedEntry(l) = g[cursor.lsn][l]
    BY <1>1, <1>4 DEF Mapping, ReplayInv
  <2>2. g[cursor.lsn + 1][l] = IF l \in rec THEN ents[l] ELSE MappedEntry(l)
    BY <1>2, <1>5, <2>1 DEF Applied
  <2>3. MappedEntry(l)' = IF l \in rec THEN ents[l] ELSE MappedEntry(l)
    <3>1. CASE PageOf(l) \in pages
      BY <1>1, <3>1 DEF MappedEntry
    <3>2. CASE PageOf(l) \notin pages
      BY <1>1, <1>2, <3>2 DEF MappedEntry, SnapshotEntry, pages
    <3> QED
      BY <3>1, <3>2
  <2> QED
    BY <2>2, <2>3
<1>9. cursor'.lsn = cursor.lsn + 1 /\ cursor'.bound = b
  BY <1>1 DEF At
<1>10. ReplayInv(f, g)'
  BY <1>1, <1>3, <1>4, <1>5, <1>8, <1>9 DEF Mapping, ReplayInv, EntryIn
<1>11. Mapping(f, g)'
  BY <1>1, <1>3, <1>4, <1>10 DEF Mapping, Publishing
<1>12. newest' \in Image /\ newest' \in media' /\ Story(log', newest', f, g, ckpt', End')
  BY <1>1, <1>3, <1>4 DEF RecoveryInductive, ChainInv
<1>13. ChainInv'
  BY <1>1, <1>3, <1>11, <1>12 DEF ChainInv
<1> QED
  BY <1>7, <1>13

LEMMA ChainReplayEnd ==
  ASSUME RecoveryInductive, ReplayEnd
  PROVE  ChainInv'
<1>1. /\ UNCHANGED <<log, op, ckpt, cand, tail, resident, cached, cursor, newest, media>>
      /\ pc = "replay" /\ cursor = tail
      /\ pc' = IF op = "fast" THEN "clear" ELSE "append"
      /\ pend' = IF op = "fast" THEN {} ELSE dirty
      /\ op # "fast" => marked' = marked
  BY DEF ReplayEnd, disk, cacheVars, ghosts
<1>2. /\ InUse /\ InUse' /\ ~Settled' /\ Inductive /\ RootInv /\ (Building <=> Building')
      /\ (Windowed <=> Windowed') /\ End' = End /\ op \in {"fast", "recover"} /\ (Windowed <=> op = "recover")
      /\ resident = dirty /\ dirty \subseteq window /\ window \subseteq marked
  BY <1>1 DEF InUse, Settled, Publishing, RecoveryInductive, CacheInductive, Building, Windowed, End,
     Inductive, ControlInv, PendInv
<1>3. PICK f, g : Story(log, newest, f, g, ckpt, End) /\ Mapping(f, g)
  BY <1>1, <1>2 DEF RecoveryInductive, ChainInv
<1>4. /\ op = "fast" => window = marked
      /\ \A l \in Lbas : PageOf(l) \in window => MappedEntry(l) = g[tail.lsn][l]
      /\ \A l \in Lbas : PageOf(l) \notin marked =>
           EntryIn(IF Windowed THEN cand ELSE ckpt, l) = g[tail.lsn][l]
  BY <1>1, <1>3 DEF Mapping, ReplayInv
<1>5. \A l \in Lbas : MappedEntry(l)' = MappedEntry(l)
  BY <1>1 DEF MappedEntry, SnapshotEntry
<1>6. newest' \in Image /\ newest' \in media' /\ Story(log', newest', f, g, ckpt', End')
  BY <1>1, <1>2, <1>3 DEF RecoveryInductive, ChainInv
<1>7. CASE op = "fast"
  <2>1. \A l \in Lbas : MappedEntry(l) = g[tail.lsn][l]
    <3>1. \A l \in Lbas : PageOf(l) \notin marked => MappedEntry(l) = EntryIn(ckpt, l)
      BY <1>2, SnapshotEntryIs DEF MappedEntry, EntryIn
    <3> QED
      BY <1>2, <1>4, <1>7, <3>1
  <2>2. Mapping(f, g)'
    BY <1>1, <1>2, <1>3, <1>5, <1>7, <2>1 DEF Mapping, Publishing
  <2>3. \A a \in Addr : a \in tail'.bound + 1 .. cursor'.bound => log'[a] = Blank
    BY <1>1, <1>2, ActiveFacts
  <2> QED
    BY <1>1, <1>2, <1>6, <1>7, <2>2, <2>3 DEF ChainInv
<1>8. CASE op = "recover"
  <2>1. \A l \in Lbas : PageOf(l) \in dirty => cached[l] = g[tail.lsn][l]
    BY <1>2, <1>4 DEF MappedEntry
  <2>2. WindowInv(g)'
    BY <1>1, <1>2, <1>4, <1>8, <2>1 DEF WindowInv, EntryIn
  <2>3. Mapping(f, g)'
    BY <1>1, <1>2, <1>3, <1>8, <2>2 DEF Mapping
  <2> QED
    BY <1>1, <1>2, <1>6, <1>8, <2>3 DEF ChainInv
<1> QED
  BY <1>2, <1>7, <1>8

-----------------------------------------------------------------------------
(* Theorems *)

\* Every step keeps the invariant.
LEMMA RecoveryNext ==
  ASSUME PowerLossOn = FALSE, RecoveryInductive, [Next]_vars
  PROVE  RecoveryInductive'
<1>1. CacheInductive' /\ Inductive' /\ CacheInductive /\ Inductive /\ RootInv /\ ChainInv
  BY CacheNext DEF RecoveryInductive, CacheInductive
<1> SUFFICES RootInv' /\ ChainInv'
  BY <1>1 DEF RecoveryInductive
<1>2. CASE UNCHANGED vars
  <2>1. \A l : MappedEntry(l)' = MappedEntry(l)
    BY <1>2 DEF vars, MappedEntry, SnapshotEntry
  <2>2. /\ (InUse' <=> InUse) /\ (Building' <=> Building) /\ (Windowed' <=> Windowed)
        /\ (Settled' <=> Settled) /\ End' = End /\ NewestSlot' = NewestSlot
    BY <1>2 DEF vars, InUse, Building, Windowed, Settled, End, NewestSlot
  <2>3. \A s : (DiskRoot(s)' <=> DiskRoot(s)) /\ RootIn(s)' = RootIn(s) /\ (Loadable(s)' <=> Loadable(s))
    BY <1>2 DEF vars, DiskRoot, Loadable, RootIn
  <2>4. RootInv'
    BY <1>1, <1>2, <2>2, <2>3 DEF vars, RootInv, LogValid, ActiveInv, CandInv
  <2>5. \A f, g : Mapping(f, g) => Mapping(f, g)'
    BY <1>2, <2>1, <2>2 DEF vars, Mapping, ReplayInv, WindowInv, EntryIn
  <2>6. \A f, g, end : Scanning(f, g, end) => Scanning(f, g, end)'
    BY <1>2 DEF vars, Scanning, EntryIn
  <2>7. ~InUse' => \E s \in Slot : DiskRoot(s)' /\ Recoverable(log', newest', RootIn(s)')
    BY <1>1, <1>2, <2>2, <2>3 DEF vars, ChainInv
  <2>8. pc' = "scan" => \E end \in Position : \E f, g :
                          Story(log', newest', f, g, ckpt', end) /\ Scanning(f, g, end)'
    BY <1>1, <1>2, <2>6 DEF vars, ChainInv
  <2>9. InUse' /\ pc' # "scan" => \E f, g : Story(log', newest', f, g, ckpt', End') /\ Mapping(f, g)'
    BY <1>1, <1>2, <2>2, <2>5 DEF vars, ChainInv
  <2>10. ChainInv'
    BY <1>1, <1>2, <2>2, <2>7, <2>8, <2>9 DEF vars, ChainInv
  <2> QED
    BY <2>4, <2>10
<1>3. CASE Kill \/ IoError \/ Drop \/ Closed \/ Latch \/ \E why : OpenFails(why)
  BY <1>3, RecoveryDown
<1>4. CASE /\ \E o \in OpenOptions : Open(o)
           /\ ~\E why : OpenFails(why)
  BY <1>1, <1>4, RootOpen, ChainOpen
<1>5. CASE Client
  BY <1>1, <1>5, RootCalls, RootReads, ChainCalls, ChainReads DEF Client
<1>6. CASE Prepare /\ ~Latch
  BY <1>1, <1>6, RootPrepare, ChainPrepare
<1>7. CASE AppendBatch \/ AppendDone \/ SyncLog
  BY <1>1, <1>7, RootAppendBatch, ChainAppendBatch, RootAppendDone, ChainAppendDone, RootCalls,
     ChainPersist
<1>8. CASE WriteBody \/ SyncBody \/ WriteDescriptor \/ SyncDescriptor
  BY <1>1, <1>8, RootWriteBody, RootWriteDescriptor, RootSyncDescriptor, ChainPersist,
     ChainSyncDescriptor
<1>9. CASE WriteRecord
  <2> PICK rec \in SUBSET todo : /\ Lowest(rec, MaxPayload, todo)
                                 /\ IF RecordFits(rec) THEN AppendRecord(rec) ELSE Panic
    BY <1>9 DEF WriteRecord
  <2>1. pc = "release"
    BY <1>9 DEF WriteRecord
  <2>2. AppendRecord(rec)
    BY <1>1, <2>1, RecordFacts
  <2> QED
    BY <1>1, <2>1, <2>2, RootAppendRecord, ChainAppendRecord
<1>10. CASE Fetch \/ FlushSync \/ ClosePublish
  BY <1>1, <1>10, RootReads, ChainReads, RootCalls, ChainCalls
<1>11. CASE \E b \in Addr : ScanRecord(b)
  BY <1>1, <1>11, RootScanRecord, ChainScanRecord
<1>12. CASE (\E b \in Addr : ReplayRecord(b)) /\ ~\E why : OpenFails(why)
  BY <1>12, ChainReplayRecord
<1>13. CASE ScanEnd /\ ~\E why : OpenFails(why)
  BY <1>1, <1>13, RootScanEnd, ChainScanEnd
<1>14. CASE ReplayEnd \/ ClearBlock \/ ClearEnds \/ ClearSync
  BY <1>1, <1>14, RootCalls, RootClearBlock, ChainReplayEnd, ChainClearBlock, ChainClearEnds,
     ChainClearSync
<1>15. CASE Engine
  BY <1>3, <1>6, <1>7, <1>8, <1>9, <1>10, <1>11, <1>12, <1>13, <1>14, <1>15 DEF Engine
<1>16. ~PowerLoss
  BY DEF PowerLoss
<1> QED
  BY <1>2, <1>3, <1>4, <1>5, <1>15, <1>16 DEF Next

\* format leaves two equal roots and an empty log.
LEMMA RecoveryInit ==
  ASSUME Init
  PROVE  RecoveryInductive
<1>1. CacheInductive
  BY CacheInit
<1>2. /\ desc = [s \in Slot |-> DescriptorOf(FormatRoot)] /\ body = [s \in Slot |-> EmptyIndex]
      /\ log = [a \in Addr |-> Blank] /\ pc = "down" /\ newest = ZeroImage /\ media = {ZeroImage}
      /\ cached = NoEntries
  BY DEF Init
<1>3. ~InUse /\ ~Building /\ ~Settled
  BY <1>2 DEF InUse, Building, Settled, Publishing
<1>4. FormatRoot \in Checkpoint /\ DescriptorOf(FormatRoot) \in Descriptor
      /\ FormatRoot.index = EmptyIndex /\ FormatRoot.lsn = 0 /\ FormatRoot.bound = LogStart - 1
      /\ FormatRoot.gen = 0
  BY GeometryAssumption DEF FormatRoot, Checkpoint, DescriptorOf, Descriptor, Index, EmptyIndex, Slot
<1>5. RootInv
  <2>1. LogValid
    BY <1>2, PlainValid DEF LogValid
  <2> QED
    BY <1>2, <1>3, <1>4, <2>1 DEF RootInv
<1>6. \A p \in Pages : EmptyIndex[p] = 0
  BY DEF EmptyIndex
<1>7. "green" \in Slot /\ Other("green") \in Slot /\ desc["green"] = desc[Other("green")]
  BY <1>2 DEF Slot, Other
<1>8. RootIn("green") = FormatRoot
  BY <1>2, <1>7 DEF RootIn, FormatRoot, DescriptorOf
<1>9. DiskRoot("green")
  <2>1. Decodes(log, FormatRoot)
    BY <1>4, <1>6 DEF Decodes
  <2>2. ValidDescriptor(DescriptorOf(FormatRoot))
    BY <1>4, GeometryAssumption DEF ValidDescriptor, DescriptorOf
  <2>3. body["green"] = desc["green"].sum /\ ValidDescriptor(desc["green"])
    BY <1>2, <1>4, <1>7, <2>2 DEF DescriptorOf
  <2> QED
    BY <1>7, <1>8, <2>1, <2>3, LoadableIs DEF DiskRoot
<1>10. Recoverable(log, newest, FormatRoot)
  <2> DEFINE end == PositionOf(FormatRoot)
  <2>1. PICK f, g : /\ Chain(log, f, g, FormatRoot, end) /\ f[FormatRoot.lsn] = FormatRoot.bound
                    /\ \A l \in Lbas : g[FormatRoot.lsn][l] = EntryAt(log, FormatRoot.index, l)
    BY <1>4, ChainEmpty
  <2>2. end \in Position /\ end.lsn = FormatRoot.lsn /\ end.bound < BackingBlocks
    BY <1>4, GeometryAssumption DEF PositionOf, At, Position
  <2>3. \A l \in Lbas : g[end.lsn][l] = Unmapped
    BY <1>4, <1>6, <2>1, <2>2, PagesOfLbas DEF EntryAt
  <2> HIDE DEF end
  <2>4. Leads(log, newest, g[end.lsn], end)
    BY <1>2, <2>3, NothingMapped DEF Leads, PayloadIn, Unmapped, ZeroImage
  <2>5. Residue(log, end)
    BY <1>2 DEF Residue
  <2>6. Story(log, newest, f, g, FormatRoot, end)
    BY <2>1, <2>2, <2>4, <2>5 DEF Story
  <2> QED
    BY <2>2, <2>6 DEF Recoverable
<1>11. newest \in Image /\ newest \in media
  BY <1>2, ValuesAssumption DEF Image, ZeroImage
<1>12. ChainInv
  BY <1>2, <1>3, <1>7, <1>8, <1>9, <1>10, <1>11 DEF ChainInv, InUse
<1> QED
  BY <1>1, <1>5, <1>12 DEF RecoveryInductive

\* The invariant of recovery: at every step, the newest root on the disk and the
\* records after it lead to the contents that the appended records make up
\* (append_batch, persist_root, write_record, scan, replay_window, clear_stale_tail).
THEOREM RecoveryInductiveHolds ==
  ASSUME PowerLossOn = FALSE
  PROVE  Spec => []RecoveryInductive
<1>1. Init => RecoveryInductive
  BY RecoveryInit
<1>2. RecoveryInductive /\ [Next]_vars => RecoveryInductive'
  BY RecoveryNext
<1> QED
  BY <1>1, <1>2, PTL DEF Spec

\* Publication never harms the root it replaces, and a closed or crashed volume
\* always has a root that load selects (slot.other, persist_root, load).
THEOREM RootsIntact ==
  ASSUME PowerLossOn = FALSE
  PROVE  Spec => []RootIntact
<1>1. RecoveryInductive => RootIntact
  <2> SUFFICES ASSUME RecoveryInductive
               PROVE  RootIntact
    OBVIOUS
  <2>1. InUse => Loadable(ckpt.slot) /\ RootIn(ckpt.slot) = ckpt
    BY DEF RecoveryInductive, RootInv, ActiveInv
  <2>2. PICK s \in Slot : DiskRoot(s)
    BY DiskRecoverable DEF RecoveryInductive, ChainInv
  <2>3. ~PairDisagrees /\ \E t \in Slot : Selected(t)
    BY <2>2, Openable DEF RecoveryInductive, RootInv
  <2> QED
    BY <2>1, <2>3 DEF RootIntact
<1> QED
  BY <1>1, RecoveryInductiveHolds, PTL

\* After an open, and after every call on the handle, the log beyond the tail is
\* blank: nothing there can be taken for a record (clear_stale_tail).
THEOREM TailIsClean ==
  ASSUME PowerLossOn = FALSE
  PROVE  Spec => []CleanTail
<1>1. RecoveryInductive => CleanTail
  BY DEF RecoveryInductive, ChainInv, Settled, Clean, CleanTail, End, Building, Publishing
<1> QED
  BY <1>1, RecoveryInductiveHolds, PTL

\* What recovery rebuilds is one of the contents a crash may leave: everything
\* flushed and a prefix of the records after it (recover, read_next).
THEOREM PrefixRecovered ==
  ASSUME PowerLossOn = FALSE
  PROVE  Spec => []RecoveredPrefix
<1>1. RecoveryInductive => RecoveredPrefix
  <2> SUFFICES ASSUME RecoveryInductive, pc \in {"clear", "clearsync"}
               PROVE  MappedImage \in media
    BY DEF RecoveredPrefix
  <2>1. InUse /\ pc \notin {"scan", "replay"} /\ ~Windowed
    BY DEF InUse, Windowed, Building, Publishing
  <2> QED
    BY <2>1, MappedImageNewest DEF RecoveryInductive, ChainInv
<1> QED
  BY <1>1, RecoveryInductiveHolds, PTL

\* Without power loss recovery loses nothing that was appended.
RecoveredNewest == pc \in {"clear", "clearsync"} => MappedImage = newest

\* A kill or an I/O error at any point loses no appended record: what recovery
\* rebuilds is exactly the newest contents (recover, replay_window).
THEOREM NewestRecovered ==
  ASSUME PowerLossOn = FALSE
  PROVE  Spec => []RecoveredNewest
<1>1. RecoveryInductive => RecoveredNewest
  <2> SUFFICES ASSUME RecoveryInductive, pc \in {"clear", "clearsync"}
               PROVE  MappedImage = newest
    BY DEF RecoveredNewest
  <2>1. InUse /\ pc \notin {"scan", "replay"} /\ ~Windowed
    BY DEF InUse, Windowed, Building, Publishing
  <2> QED
    BY <2>1, MappedImageNewest
<1> QED
  BY <1>1, RecoveryInductiveHolds, PTL

-----------------------------------------------------------------------------
(* The engine implements the device *)

\* A released block that stays in the buffer is on disk already, and a closing
\* volume has an empty buffer.
BufferInv ==
  /\ pc = "release" => \A l \in buffered \ todo : newest[l] = buffer[l]
  /\ op = "closing" => buffered = {} /\ pc \in {"prepare", "closesync"} \cup Publishing

DeviceInductive == RecoveryInductive /\ BufferInv

LEMMA BufferNext ==
  ASSUME PowerLossOn = FALSE, DeviceInductive, [Next]_vars
  PROVE  BufferInv'
<1>1. ControlInv /\ BufferInv /\ Inductive
  BY DEF DeviceInductive, RecoveryInductive, CacheInductive, Inductive
<1>2. CASE UNCHANGED vars
  BY <1>1, <1>2 DEF vars, BufferInv
<1>3. CASE op' = "none" /\ pc' # "release"
  BY <1>3 DEF BufferInv
<1>4. CASE Kill \/ IoError \/ Closed \/ Latch \/ \E why : OpenFails(why)
  BY <1>3, <1>4 DEF Kill, IoError, Closed, Latch, OpenFails, Forget
<1>5. CASE Drop
  BY <1>1, <1>5 DEF Drop, BufferInv, Publishing
<1>6. CASE (\E o \in OpenOptions : Open(o)) /\ ~\E why : OpenFails(why)
  BY <1>1, <1>6 DEF Open, BufferInv, Publishing
<1>7. CASE \E l \in Lbas, v \in Values : Overwrite(l, v) \/ Write(l, v)
  BY <1>1, <1>7 DEF Overwrite, Write, Release, BufferInv, Publishing
<1>8. CASE Flush \/ Close \/ \E p \in Pages : Read(p)
  BY <1>1, <1>8 DEF Flush, Close, Read, Release, BufferInv, Publishing
<1>9. CASE (Prepare /\ ~Latch) \/ AppendBatch \/ AppendDone \/ SyncLog \/ WriteBody \/ SyncBody
           \/ WriteDescriptor
  <2>1. /\ UNCHANGED <<op, buffered>> /\ pc' # "release"
        /\ pc' \in Publishing \/ (pc' = "replay" /\ op = "recover")
    BY <1>9 DEF Prepare, AppendBatch, AppendDone, SyncLog, WriteBody, SyncBody, WriteDescriptor,
       bufVars, Publishing
  <2> QED
    BY <1>1, <2>1 DEF BufferInv
<1>10. CASE SyncDescriptor
  <2>1. /\ UNCHANGED <<op, buffered, buffer, todo>> /\ op # "closing" /\ pc = "descsync"
        /\ pc' = "release" => op \notin {"read", "recover"}
    BY <1>10 DEF SyncDescriptor, bufVars
  <2>2. pc' = "release" => todo = buffered
    BY <1>1, <2>1 DEF ControlInv, Publishing
  <2> QED
    BY <2>1, <2>2 DEF BufferInv
<1>11. CASE WriteRecord
  <2> PICK rec \in SUBSET todo : /\ Lowest(rec, MaxPayload, todo)
                                 /\ IF RecordFits(rec) THEN AppendRecord(rec) ELSE Panic
    BY <1>11 DEF WriteRecord
  <2>1. pc = "release" /\ op \in {"write", "flush", "close"} /\ todo \in SUBSET Lbas
    BY <1>1, <1>11 DEF WriteRecord, ControlInv, Inductive, TypeOK, HandleTypeOK
  <2>2. AppendRecord(rec)
    BY <1>1, <2>1, RecordFacts
  <2>3. /\ op' \in {op, "none"} /\ todo' = todo \ rec
        /\ newest' = [l \in Lbas |-> IF l \in rec THEN buffer[l] ELSE newest[l]]
        /\ pc' = "release" => UNCHANGED <<buffered, buffer>>
    BY <2>2 DEF AppendRecord, AfterRelease
  <2>4. buffered \in SUBSET Lbas
    BY <1>1 DEF Inductive, TypeOK, HandleTypeOK
  <2> QED
    BY <1>1, <2>1, <2>3, <2>4 DEF BufferInv
<1>12. CASE Fetch \/ FlushSync \/ ClearSync
  BY <1>3, <1>12 DEF Fetch, FlushSync, ClearSync
<1>13. CASE ClosePublish
  BY <1>1, <1>13 DEF ClosePublish, bufVars, BufferInv, ControlInv
<1>14. CASE \E b \in Addr : ScanRecord(b)
  BY <1>1, <1>14 DEF ScanRecord, bufVars, BufferInv, Publishing
<1>15. CASE (\E b \in Addr : ReplayRecord(b)) /\ ~\E why : OpenFails(why)
  BY <1>1, <1>15 DEF ReplayRecord, bufVars, BufferInv, Publishing
<1>16. CASE ScanEnd /\ ~\E why : OpenFails(why)
  BY <1>1, <1>16 DEF ScanEnd, BufferInv
<1>17. CASE ReplayEnd \/ ClearBlock \/ ClearEnds
  BY <1>1, <1>17 DEF ReplayEnd, ClearBlock, ClearEnds, bufVars, BufferInv, ControlInv, Publishing
<1>18. CASE Engine
  BY <1>4, <1>9, <1>10, <1>11, <1>12, <1>13, <1>14, <1>15, <1>16, <1>17, <1>18 DEF Engine
<1>19. ~PowerLoss
  BY DEF PowerLoss
<1> QED
  BY <1>2, <1>4, <1>5, <1>6, <1>7, <1>8, <1>18, <1>19 DEF Next, Client

\* A client may call the handle.
Serving == InUse /\ ~Opening

\* The contents a client sees: the buffer over the newest contents.
Seen == [l \in Lbas |-> IF l \in buffered THEN buffer[l] ELSE newest[l]]

\* The refinement mapping of Device, named.
StatusBar == IF pc \in {"down", "panic"} \/ Opening THEN "down"
             ELSE IF pc = "failed" THEN "failed" ELSE "up"
CurBar == IF InUse /\ ~Opening THEN [l \in Lbas |-> View(l)] ELSE <<>>

LEMMA ViewIsSeen == RecoveryInductive /\ Serving => CurBar = Seen /\ StatusBar = "up"
<1> SUFFICES ASSUME RecoveryInductive, Serving
             PROVE  CurBar = Seen /\ StatusBar = "up"
  OBVIOUS
<1>1. pc \notin {"scan", "replay"} /\ ~Windowed /\ InUse
  BY DEF Serving, Opening, Recovering, Windowed, Building
<1>2. \A l \in Lbas : View(l) = IF l \in buffered THEN buffer[l] ELSE newest[l]
  BY <1>1, MappedNewest DEF View
<1> QED
  BY <1>2 DEF CurBar, Seen, StatusBar, Serving, InUse

LEMMA ViewIsSeenNext == (RecoveryInductive /\ Serving => CurBar = Seen /\ StatusBar = "up")'
  BY ViewIsSeen, PTL

LEMMA NotServing ==
  ~Serving => CurBar = <<>> /\ StatusBar = IF pc = "failed" THEN "failed" ELSE "down"
  BY DEF Serving, CurBar, StatusBar, InUse, Opening, Recovering, Publishing

LEMMA NotServingNext ==
  (~Serving => CurBar = <<>> /\ StatusBar = IF pc = "failed" THEN "failed" ELSE "down")'
  BY NotServing, PTL

\* A step that the client does not see.
LEMMA DeviceStutter ==
  ASSUME UNCHANGED <<newest, media>>, StatusBar' = StatusBar, CurBar' = CurBar
  PROVE  UNCHANGED Device!vars
  BY DEF Device!vars, StatusBar, CurBar

\* The calls and the steps of a publication on an open handle.
LEMMA DeviceQuiet ==
  ASSUME RecoveryInductive, RecoveryInductive', Serving, Serving',
         UNCHANGED <<buffered, buffer, newest, media>>
  PROVE  UNCHANGED Device!vars
<1>1. CurBar = Seen /\ StatusBar = "up"
  BY ViewIsSeen
<1>2. CurBar' = Seen' /\ StatusBar' = "up"
  BY ViewIsSeenNext
<1>3. Seen' = Seen
  BY DEF Seen
<1> QED
  BY <1>1, <1>2, <1>3, DeviceStutter

\* Steps of a device that serves nobody, before and after.
LEMMA DeviceClosed ==
  ASSUME ~Serving, ~Serving', pc # "failed", pc' # "failed", UNCHANGED <<newest, media>>
  PROVE  UNCHANGED Device!vars
<1>1. CurBar' = CurBar /\ StatusBar' = StatusBar
  BY NotServing, NotServingNext
<1> QED
  BY <1>1, DeviceStutter

\* write_block: the client sees its write at once.
LEMMA DeviceWrite ==
  ASSUME RecoveryInductive, RecoveryInductive', NEW l \in Lbas, NEW v \in Values,
         Overwrite(l, v) \/ Write(l, v)
  PROVE  Device!Write
<1>1. /\ pc = "up" /\ UNCHANGED <<newest, media>> /\ buffered' = buffered \cup {l}
      /\ buffer' = [buffer EXCEPT ![l] = v]
      /\ pc' \in {"up", "prepare", "release"}
  BY DEF Overwrite, Write, Release, ghosts
<1>2. Serving /\ Serving'
  BY <1>1 DEF Serving, InUse, Opening, Recovering, Publishing
<1>3. CurBar = Seen /\ StatusBar = "up" /\ CurBar' = Seen' /\ StatusBar' = "up"
  BY <1>2, ViewIsSeen, ViewIsSeenNext
<1>4. buffer \in [Lbas -> Values]
  BY DEF RecoveryInductive, CacheInductive, Inductive, TypeOK, HandleTypeOK, Image
<1>5. Seen' = [Seen EXCEPT ![l] = v]
  BY <1>1, <1>4 DEF Seen
<1> QED
  BY <1>1, <1>3, <1>5 DEF Device!Write, StatusBar, CurBar

\* write_record: the payloads of the record become part of the newest contents.
LEMMA DeviceHarden ==
  ASSUME DeviceInductive, RecoveryInductive', pc = "release", NEW rec \in SUBSET todo, AppendRecord(rec)
  PROVE  Device!Harden
<1>1. /\ newest' = [l \in Lbas |-> IF l \in rec THEN buffer[l] ELSE newest[l]]
      /\ media' = media \cup {newest'} /\ todo' = todo \ rec
      /\ \/ UNCHANGED <<buffered, buffer>> \/ (todo' = {} /\ buffered' = {})
      /\ pc' \in {"release", "up", "flushsync", "closing"}
  BY DEF AppendRecord, AfterRelease
<1>2. Serving /\ Serving'
  BY <1>1 DEF Serving, InUse, Opening, Recovering, Publishing
<1>3. CurBar = Seen /\ StatusBar = "up" /\ CurBar' = Seen' /\ StatusBar' = "up"
  BY <1>2, ViewIsSeen, ViewIsSeenNext DEF DeviceInductive
<1>4. /\ todo \subseteq buffered /\ buffered \in SUBSET Lbas /\ rec \in SUBSET Lbas
      /\ \A l \in buffered \ todo : newest[l] = buffer[l]
  BY DEF DeviceInductive, BufferInv, RecoveryInductive, CacheInductive, Inductive, ControlInv, TypeOK,
     HandleTypeOK
<1>5. newest' = [l \in Lbas |-> IF l \in rec THEN Seen[l] ELSE newest[l]]
  BY <1>1, <1>4 DEF Seen
<1>6. Seen' = Seen
  <2>1. \A l \in Lbas : Seen'[l] = Seen[l]
    BY <1>1, <1>4 DEF Seen
  <2> QED
    BY <2>1 DEF Seen
<1> QED
  BY <1>1, <1>3, <1>4, <1>5, <1>6 DEF Device!Harden, StatusBar, CurBar

\* flush returns once everything the client has written is durable.
LEMMA DeviceFlush ==
  ASSUME RecoveryInductive, RecoveryInductive', FlushSync
  PROVE  Device!Flush
<1>1. /\ pc = "flushsync" /\ pc' = "up" /\ UNCHANGED <<buffered, buffer, newest>> /\ media' = {newest}
  BY DEF FlushSync, bufVars
<1>2. Serving /\ Serving' /\ buffered = {} /\ newest \in [Lbas -> Values]
  BY <1>1 DEF Serving, InUse, Opening, Recovering, Publishing, RecoveryInductive, CacheInductive,
     Inductive, ControlInv, ChainInv, Image
<1>3. CurBar = Seen /\ StatusBar = "up" /\ CurBar' = Seen' /\ StatusBar' = "up"
  BY <1>2, ViewIsSeen, ViewIsSeenNext
<1>4. Seen = newest /\ Seen' = newest
  BY <1>1, <1>2 DEF Seen
<1> QED
  BY <1>1, <1>3, <1>4 DEF Device!Flush, StatusBar, CurBar

\* close returns once everything the client has written is durable.
LEMMA DeviceClose ==
  ASSUME DeviceInductive, Closed
  PROVE  Device!Close
<1>1. /\ pc = "closesync" \/ (pc = "descsync" /\ op = "closing")
      /\ pc' = "down" /\ UNCHANGED newest /\ media' = {newest}
  BY DEF Closed
<1>2. Serving /\ buffered = {} /\ newest \in [Lbas -> Values]
  BY <1>1 DEF Serving, InUse, Opening, Recovering, Publishing, RecoveryInductive, CacheInductive,
     Inductive, ControlInv, ChainInv, Image, DeviceInductive, BufferInv
<1>3. CurBar = Seen /\ StatusBar = "up"
  BY <1>2, ViewIsSeen DEF DeviceInductive
<1>4. CurBar' = <<>> /\ StatusBar' = "down"
  BY <1>1, NotServingNext DEF Serving, InUse
<1>5. Seen = newest
  BY <1>2 DEF Seen
<1> QED
  BY <1>1, <1>3, <1>4, <1>5 DEF Device!Close, Device!Hidden, StatusBar, CurBar

\* An open returns with one of the contents a crash may have left, made durable.
LEMMA DeviceOpen ==
  ASSUME RecoveryInductive, RecoveryInductive', ClearSync
  PROVE  Device!Open
<1>1. /\ pc = "clearsync" /\ pc' = "up" /\ UNCHANGED <<buffered, buffer>>
      /\ newest' = MappedImage /\ media' = {newest'}
  BY DEF ClearSync, bufVars
<1>2. /\ ~Serving /\ Serving' /\ buffered = {} /\ InUse /\ ~Windowed
      /\ newest \in media /\ newest \in [Lbas -> Values]
  BY <1>1 DEF Serving, InUse, Opening, Recovering, Publishing, Windowed, Building, RecoveryInductive,
     CacheInductive, Inductive, ControlInv, ChainInv, Image
<1>3. StatusBar = "down" /\ CurBar' = Seen' /\ StatusBar' = "up"
  BY <1>1, <1>2, NotServing, ViewIsSeenNext
<1>4. newest' = newest
  BY <1>1, <1>2, MappedImageNewest
<1>5. Seen' = newest
  BY <1>1, <1>2, <1>4 DEF Seen
<1>6. \E image \in media : CurBar' = image /\ newest' = image /\ media' = {image}
  BY <1>1, <1>2, <1>3, <1>4, <1>5
<1> QED
  BY <1>3, <1>6 DEF Device!Open, StatusBar, CurBar

\* An error latches the handle, or fails the open; a kill ends the process.
LEMMA DeviceFaults ==
  ASSUME RecoveryInductive, Kill \/ IoError \/ Drop \/ (Prepare /\ Latch)
  PROVE  Device!Fail \/ Device!Crash \/ UNCHANGED Device!vars
<1>1. /\ UNCHANGED <<newest, media>> /\ pc' \in {"down", "failed"} /\ pc # "down" /\ pc # "panic"
      /\ pc' = "failed" => Serving
  BY DEF Kill, IoError, Drop, Prepare, Latch, ghosts, Serving, InUse, Opening, Recovering, Publishing,
     Idle
<1>2. ~Serving'
  BY <1>1 DEF Serving, InUse
<1>3. CurBar' = <<>> /\ StatusBar' = pc'
  BY <1>1, <1>2, NotServingNext
<1>4. CASE Serving
  <2>1. StatusBar = "up"
    BY <1>4, ViewIsSeen
  <2>2. CASE pc' = "failed"
    BY <1>1, <1>3, <2>1, <2>2 DEF Device!Fail, Device!Hidden, StatusBar, CurBar
  <2>3. CASE pc' = "down"
    BY <1>1, <1>3, <2>1, <2>3 DEF Device!Crash, Device!Hidden, StatusBar, CurBar
  <2> QED
    BY <1>1, <2>2, <2>3
<1>5. CASE ~Serving
  <2>1. CurBar = <<>> /\ pc' = "down" /\ StatusBar = IF pc = "failed" THEN "failed" ELSE "down"
    BY <1>1, <1>5, NotServing
  <2>2. CASE pc = "failed"
    BY <1>1, <1>3, <2>1, <2>2 DEF Device!Crash, Device!Hidden, StatusBar, CurBar
  <2>3. CASE pc # "failed"
    BY <1>1, <1>3, <2>1, <2>3, DeviceStutter
  <2> QED
    BY <2>2, <2>3
<1> QED
  BY <1>4, <1>5

\* Every step of the engine is a step of the device, or one that the client does
\* not see.
LEMMA DeviceNext ==
  ASSUME PowerLossOn = FALSE, DeviceInductive, DeviceInductive', [Next]_vars
  PROVE  [Device!Next]_(Device!vars)
<1>1. RecoveryInductive /\ RecoveryInductive' /\ Inductive /\ ControlInv
  BY DEF DeviceInductive, RecoveryInductive, CacheInductive, Inductive
<1>2. CASE UNCHANGED vars
  <2>1. UNCHANGED <<newest, media, pc, op, buffered, buffer>>
    BY <1>2 DEF vars
  <2>2. Serving' = Serving
    BY <2>1 DEF Serving, InUse, Opening
  <2>3. CASE Serving
    BY <1>1, <2>1, <2>2, <2>3, DeviceQuiet
  <2>4. CASE ~Serving
    <3>1. CurBar' = CurBar /\ StatusBar' = StatusBar
      BY <2>1, <2>2, <2>4, NotServing, NotServingNext
    <3> QED
      BY <2>1, <3>1, DeviceStutter
  <2> QED
    BY <2>3, <2>4
<1>3. CASE \E o \in OpenOptions : Open(o)
  <2>1. /\ pc = "down" /\ pc' \in {"down", "scan"} /\ UNCHANGED <<newest, media>>
    BY <1>3 DEF Open, OpenFails, ghosts
  <2>2. ~Serving /\ ~Serving'
    BY <2>1 DEF Serving, InUse, Opening, Recovering
  <2> QED
    BY <2>1, <2>2, DeviceClosed
<1>4. CASE \E l \in Lbas, v \in Values : Overwrite(l, v) \/ Write(l, v)
  BY <1>1, <1>4, DeviceWrite DEF Device!Next
<1>5. CASE (\E p \in Pages : Read(p)) \/ Flush \/ Close \/ Fetch \/ ClosePublish
  <2>1. /\ pc \in {"up", "fetch", "closing"}
        /\ pc' \in {"up", "prepare", "release", "flushsync", "closing", "closesync"}
        /\ UNCHANGED <<buffered, buffer, newest, media>>
    BY <1>5 DEF Read, Flush, Close, Fetch, ClosePublish, Release, bufVars, ghosts
  <2>2. Serving /\ Serving'
    BY <2>1 DEF Serving, InUse, Opening, Recovering, Publishing
  <2> QED
    BY <1>1, <2>1, <2>2, DeviceQuiet
<1>6. CASE (Prepare /\ ~Latch) \/ AppendBatch \/ AppendDone \/ SyncLog \/ WriteBody \/ SyncBody
           \/ WriteDescriptor \/ SyncDescriptor
  <2>1. UNCHANGED <<op, buffered, buffer, newest, media>>
    BY <1>6 DEF Prepare, AppendBatch, AppendDone, SyncLog, WriteBody, SyncBody, WriteDescriptor,
       SyncDescriptor, bufVars, ghosts
  <2>2. pc = "prepare" \/ pc \in Publishing
    BY <1>6 DEF Prepare, AppendBatch, AppendDone, SyncLog, WriteBody, SyncBody, WriteDescriptor,
       SyncDescriptor, Publishing
  <2>3. /\ pc = "prepare" => pc' \in Publishing
        /\ op = "recover" => pc' \in Publishing \cup {"replay", "clear"}
        /\ op # "recover" => pc' \in Publishing \cup {"fetch", "release"}
    BY <1>6 DEF Prepare, AppendBatch, AppendDone, SyncLog, WriteBody, SyncBody, WriteDescriptor,
       SyncDescriptor, Publishing
  <2>4. CASE op = "recover"
    <3>1. pc \in Publishing
      BY <1>1, <2>2, <2>4 DEF ControlInv
    <3>2. ~Serving /\ ~Serving' /\ pc # "failed" /\ pc' # "failed"
      BY <2>1, <2>3, <2>4, <3>1 DEF Serving, Opening, Publishing, Recovering
    <3> QED
      BY <2>1, <3>2, DeviceClosed
  <2>5. CASE op # "recover"
    <3>1. Serving /\ Serving'
      BY <2>1, <2>2, <2>3, <2>5 DEF Serving, InUse, Opening, Publishing, Recovering
    <3> QED
      BY <1>1, <2>1, <3>1, DeviceQuiet
  <2> QED
    BY <2>4, <2>5
<1>7. CASE WriteRecord
  <2> PICK rec \in SUBSET todo : /\ Lowest(rec, MaxPayload, todo)
                                 /\ IF RecordFits(rec) THEN AppendRecord(rec) ELSE Panic
    BY <1>7 DEF WriteRecord
  <2>1. pc = "release"
    BY <1>7 DEF WriteRecord
  <2>2. AppendRecord(rec)
    BY <1>1, <2>1, RecordFacts
  <2> QED
    BY <1>1, <2>1, <2>2, DeviceHarden DEF Device!Next
<1>8. CASE FlushSync \/ Closed \/ ClearSync
  BY <1>1, <1>8, DeviceFlush, DeviceClose, DeviceOpen DEF Device!Next
<1>9. CASE (\E b \in Addr : ScanRecord(b) \/ ReplayRecord(b)) \/ ScanEnd \/ ReplayEnd \/ ClearBlock
           \/ ClearEnds
  <2>1. /\ UNCHANGED <<newest, media>> /\ pc \in {"scan", "replay", "clear"}
        /\ pc' \in Recovering \cup {"down", "append"}
    BY <1>9 DEF ScanRecord, ReplayRecord, ScanEnd, ReplayEnd, ClearBlock, ClearEnds, OpenFails, ghosts,
       Recovering
  <2>2. pc' = "append" => op' = "recover"
    BY <1>1, <1>9, <2>1 DEF ScanRecord, ReplayRecord, ScanEnd, ReplayEnd, ClearBlock, ClearEnds,
       OpenFails, ControlInv
  <2>3. ~Serving /\ ~Serving' /\ pc # "failed" /\ pc' # "failed"
    BY <2>1, <2>2 DEF Serving, InUse, Opening, Recovering, Publishing
  <2> QED
    BY <2>1, <2>3, DeviceClosed
<1>10. CASE Kill \/ IoError \/ Drop \/ (Prepare /\ Latch)
  BY <1>1, <1>10, DeviceFaults DEF Device!Next
<1>11. CASE Engine
  BY <1>5, <1>6, <1>7, <1>8, <1>9, <1>10, <1>11 DEF Engine
<1>12. ~PowerLoss
  BY DEF PowerLoss
<1> QED
  BY <1>2, <1>3, <1>4, <1>5, <1>10, <1>11, <1>12 DEF Next, Client

LEMMA DeviceInit ==
  ASSUME Init
  PROVE  BufferInv /\ Device!Init
<1>1. pc = "down" /\ op = "none" /\ newest = ZeroImage /\ media = {ZeroImage}
  BY DEF Init
<1>2. BufferInv
  BY <1>1 DEF BufferInv
<1>3. CurBar = <<>> /\ StatusBar = "down"
  BY <1>1 DEF CurBar, StatusBar, InUse
<1> QED
  BY <1>1, <1>2, <1>3 DEF Device!Init, Device!Hidden, CurBar, StatusBar, ZeroImage

\* The engine keeps the device contract while no power is lost: the calls, the
\* steps of publication, release and recovery, I/O errors and kills at any point
\* are steps of a device that shows a write at once, loses nothing that a flush
\* has covered, and after a crash leaves a prefix of the groups it hardened
\* (write_block, flush, close, open).
THEOREM EngineRefinesDevice ==
  ASSUME PowerLossOn = FALSE
  PROVE  Spec => RefinesDevice
<1>1. Init => DeviceInductive /\ Device!Init
  BY RecoveryInit, DeviceInit DEF DeviceInductive
<1>2. DeviceInductive /\ [Next]_vars => DeviceInductive'
  <2>1. ASSUME DeviceInductive, [Next]_vars
        PROVE  RecoveryInductive'
    BY <2>1, RecoveryNext DEF DeviceInductive
  <2> QED
    BY <2>1, BufferNext DEF DeviceInductive
<1>3. DeviceInductive /\ DeviceInductive' /\ [Next]_vars => [Device!Next]_(Device!vars)
  BY DeviceNext
<1> QED
  BY <1>1, <1>2, <1>3, PTL DEF Spec, RefinesDevice, Device!Spec
=============================================================================
