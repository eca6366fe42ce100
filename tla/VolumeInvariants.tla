------------------------- MODULE VolumeInvariants ---------------------------
(***************************************************************************)
(* The invariants that explain why the engine is correct: what the mapping *)
(* cache, the candidate root, the two roots on disk and the chain of       *)
(* records in the log have to do with each other at each step.  The        *)
(* properties of Volume follow from them; none of them is inductive alone. *)
(***************************************************************************)
EXTENDS Volume

-----------------------------------------------------------------------------
(* The cache and the candidate *)

\* The mapping entry of l in the snapshots that an index names in a log.
EntryAt(blocks, index, l) ==
  IF index[PageOf(l)] = 0 THEN Unmapped ELSE blocks[index[PageOf(l)]].ents[l]

\* The mapping entry of l in checkpoint c.
EntryIn(c, l) == EntryAt(log, c.index, l)

\* A candidate root is under construction.
Building == pc \in Publishing \/ (pc = "replay" /\ op = "recover")

\* Windowed recovery is under way: pages of earlier windows are in the candidate only.
Windowed == Building /\ op = "recover"

\* A page that the publication has appended, or found clean, is in the candidate
\* as it is in the cache (append_batch).
CandCoherent ==
  pc \in Publishing =>
    \A l \in Lbas : PageOf(l) \in resident \ pend => cached[l] = EntryIn(cand, l)

\* Which pages the cache, the candidate and the sets of recovery agree on.
PendInv ==
  /\ InUse => dirty \subseteq resident
  /\ pc \in Publishing => pend \subseteq dirty
  /\ pc \in Publishing \ {"append"} => pend = {}
  /\ pc \in Publishing \ {"append"} /\ op = "recover" => marked = {}
  /\ pc = "replay" \/ Windowed => resident = dirty
  /\ pc \in Publishing /\ op # "recover" =>
       \A p \in Pages \ dirty : cand.index[p] = ckpt.index[p]
  /\ Windowed => \A p \in marked : cand.index[p] = ckpt.index[p]

\* The mapping that live_blocks counts: windowed recovery finds the pages of
\* earlier windows through the candidate.
CurrentEntry(l) ==
  IF PageOf(l) \in resident THEN cached[l]
  ELSE EntryIn(IF Windowed THEN cand ELSE ckpt, l)

LiveInv == InUse => live = Cardinality({l \in Lbas : CurrentEntry(l).phys # 0})

\* The inductive invariant behind CacheCoherent and LiveExact.
CacheInductive ==
  /\ Inductive
  /\ CacheCoherent
  /\ CandCoherent
  /\ PendInv
  /\ LiveInv

-----------------------------------------------------------------------------
(* The roots on disk, while no power is lost *)

\* What validate asks of a descriptor's position, and encode of a record's.
PositionValid(p) ==
  /\ p.bound \in LogStart - 1 .. BackingBlocks - 1
  /\ p.lsn = 0 <=> p.bound = LogStart - 1
  /\ p.lsn <= p.bound - (LogStart - 1)

\* An entry leads nowhere, or to a log block up to a.
EntryUpTo(e, a) == e = Unmapped \/ e.phys \in LogStart .. a

\* A record or snapshot names its own place, and its entries lead to blocks
\* before it; a snapshot has the entries of one page; no block is torn.
BlockValid(block, a) ==
  /\ block.kind # "torn"
  /\ block.kind \in {"data", "page"} =>
       block.bound = a /\ \A l \in Lbas : EntryUpTo(block.ents[l], a - 1)
  /\ block.kind = "page" =>
       \A l \in Lbas : block.ents[l] = Unmapped \/ PageOf(l) = block.page

LogValid == \A a \in Addr : BlockValid(log[a], a)

\* Every snapshot that checkpoint c names decodes from the blocks of a log.
Decodes(blocks, c) ==
  \A p \in Pages :
    c.index[p] # 0 => /\ c.index[p] \in LogStart .. c.bound
                      /\ DecodesAsPage(blocks[c.index[p]], p, c.index[p], c.lsn)

\* Slot s holds the newest root of the disk; the other may hold an older one, the
\* same one after format, or a torn descriptor, and need not be loadable.
DiskRoot(s) ==
  /\ Loadable(s)
  /\ \/ desc[Other(s)] = NoDescriptor
     \/ desc[Other(s)].gen < desc[s].gen
     \/ desc[Other(s)] = desc[s]

\* The slot of the newest root: a candidate's once its descriptor is written.
NewestSlot == IF pc = "descsync" THEN cand.slot ELSE ckpt.slot

ActiveInv ==
  /\ Loadable(ckpt.slot) /\ RootIn(ckpt.slot) = ckpt
  /\ DiskRoot(NewestSlot)
  /\ PositionValid(tail) /\ ckpt.lsn <= tail.lsn
  /\ \A l \in Lbas : EntryUpTo(cached[l], tail.bound)

CandInv ==
  /\ cand.slot = Other(ckpt.slot) /\ cand.gen = ckpt.gen + 1
  /\ PositionValid(PositionOf(cand)) /\ ckpt.lsn <= cand.lsn /\ Decodes(log, cand)
  /\ pc \in {"bodysync", "desc", "descsync"} => body[cand.slot] = cand.index
  /\ pc = "descsync" => desc[cand.slot] = DescriptorOf(cand)

RootInv ==
  /\ desc \in [Slot -> {NoDescriptor} \cup Descriptor]
  /\ LogValid
  /\ ~InUse => cached = NoEntries
  /\ InUse => ActiveInv
  /\ Building => CandInv

-----------------------------------------------------------------------------
(* The chain of records, while no power is lost *)

\* Follows, IsNext and PayloadOf in the blocks of a log.
FollowsIn(blocks, pos, b) ==
  /\ blocks[b].kind = IF b = pos.bound + 1 THEN "page" ELSE "data"
  /\ blocks[b].lsn = pos.lsn + 1
  /\ blocks[b].prev = pos.bound
  /\ blocks[b].bound = b

NextIn(blocks, pos, b) ==
  /\ b \in Addr /\ b \in pos.bound + 1 .. pos.bound + MaxRecord
  /\ FollowsIn(blocks, pos, b)
  /\ \A a \in Addr : a \in pos.bound + 1 .. b - 1 => ~FollowsIn(blocks, pos, a)

PayloadIn(blocks, l, e) ==
  IF e.phys = 0 THEN Zero
  ELSE IF blocks[e.phys].kind = "payload" /\ Checksum(l, e.phys, blocks[e.phys].val) = e.sum
    THEN blocks[e.phys].val ELSE Corrupt

\* The entry of l after one record: a data record overrides the entries it maps,
\* a mapping page none (apply).
Applied(block, ents, l) ==
  IF block.kind = "data" /\ block.ents[l].phys # 0 THEN block.ents[l] ELSE ents[l]

\* Records lead from checkpoint c to position end: f[n] is the boundary of the
\* record with LSN n, and g[n] the mapping once that record is replayed.
Chain(blocks, f, g, c, end) ==
  /\ c.lsn <= end.lsn /\ f[c.lsn] = c.bound /\ f[end.lsn] = end.bound
  /\ \A n \in c.lsn .. end.lsn : f[n] \in c.bound .. end.bound
  /\ \A l \in Lbas : g[c.lsn][l] = EntryAt(blocks, c.index, l)
  /\ \A n \in c.lsn + 1 .. end.lsn :
       /\ NextIn(blocks, At(n - 1, f[n - 1]), f[n])
       /\ \A l \in Lbas : g[n][l] = Applied(blocks[f[n]], g[n - 1], l)

\* The mapping ents leads to the contents of an image.
Leads(blocks, image, ents, end) ==
  \A l \in Lbas : EntryUpTo(ents[l], end.bound) /\ PayloadIn(blocks, l, ents[l]) = image[l]

\* After end there are at most the payloads of a record that has no footer.
Residue(blocks, end) ==
  \A a \in Addr : a > end.bound =>
    blocks[a] = Blank \/ (blocks[a].kind = "payload" /\ a <= end.bound + MaxPayload)

Clean(blocks, end) == \A a \in Addr : a > end.bound => blocks[a] = Blank

\* Replaying the records after checkpoint c yields an image, and then the log ends.
Story(blocks, image, f, g, c, end) ==
  /\ Chain(blocks, f, g, c, end) /\ Leads(blocks, image, g[end.lsn], end)
  /\ Residue(blocks, end) /\ end.bound < BackingBlocks

Recoverable(blocks, image, c) ==
  \E end \in Position : \E f, g : Story(blocks, image, f, g, c, end)

\* Where the chain of records ends while a volume is in use.
End == IF Building THEN PositionOf(cand) ELSE tail

\* The log after the end holds nothing, once clear_stale_tail is done.
Settled == pc \in {"up", "prepare", "release", "fetch", "flushsync", "closing",
                   "closesync", "clearsync"} \/ (pc \in Publishing /\ op # "recover")

\* The scan has followed the chain up to the tail.
Scanning(f, g, end) ==
  /\ tail.lsn \in ckpt.lsn .. end.lsn /\ f[tail.lsn] = tail.bound
  /\ \A l \in Lbas : PageOf(l) \notin marked => g[tail.lsn][l] = EntryIn(ckpt, l)

\* The replay has followed the chain up to the cursor, for the pages of the window;
\* no record maps a block of a page that is not marked.
ReplayInv(f, g) ==
  /\ cursor.lsn \in ckpt.lsn .. tail.lsn /\ f[cursor.lsn] = cursor.bound
  /\ op = "fast" => window = marked
  /\ \A l \in Lbas : PageOf(l) \in window => MappedEntry(l) = g[cursor.lsn][l]
  /\ \A l \in Lbas : PageOf(l) \notin marked =>
       EntryIn(IF Windowed THEN cand ELSE ckpt, l) = g[tail.lsn][l]

\* The windows so far are in the candidate, the current one in the cache.
WindowInv(g) ==
  /\ \A l \in Lbas : PageOf(l) \in pend => cached[l] = g[tail.lsn][l]
  /\ \A l \in Lbas : PageOf(l) \notin marked => EntryIn(cand, l) = g[tail.lsn][l]

\* What the cache and the candidate know of the mapping after the scan: the records
\* after the tail are snapshots, which change nothing.
Mapping(f, g) ==
  /\ tail.lsn \in ckpt.lsn .. End.lsn /\ f[tail.lsn] = tail.bound
  /\ \A n \in ckpt.lsn .. tail.lsn : f[n] <= tail.bound
  /\ \A l \in Lbas : g[End.lsn][l] = g[tail.lsn][l]
  /\ pc # "replay" /\ ~Windowed => \A l \in Lbas : MappedEntry(l) = g[tail.lsn][l]
  /\ pc = "replay" => ReplayInv(f, g)
  /\ pc \in Publishing /\ op = "recover" => WindowInv(g)

ChainInv ==
  /\ newest \in Image /\ newest \in media
  /\ ~InUse => \E s \in Slot : DiskRoot(s) /\ Recoverable(log, newest, RootIn(s))
  /\ pc = "scan" => \E end \in Position : \E f, g :
                      Story(log, newest, f, g, ckpt, end) /\ Scanning(f, g, end)
  /\ InUse /\ pc # "scan" => \E f, g : Story(log, newest, f, g, ckpt, End) /\ Mapping(f, g)
  /\ Settled => Clean(log, End)
  /\ pc = "clear" => \A a \in Addr : a \in tail.bound + 1 .. cursor.bound => log[a] = Blank

\* The inductive invariant behind the properties of recovery.
RecoveryInductive == CacheInductive /\ RootInv /\ ChainInv
=============================================================================
