------------------------------- MODULE Volume -------------------------------
(***************************************************************************)
(* The block-storage engine: one Volume handle, its write-back buffer, the *)
(* mapping-page cache, checkpoint publication, recovery at open, and the   *)
(* backing file they share.  The engine is one sequential thread; what     *)
(* interleaves with its steps is the client's choice of calls, backing I/O *)
(* errors, SIGKILL at any point, and (when PowerLossOn) loss of blocks     *)
(* that no fsync has covered.                                              *)
(*                                                                         *)
(* An action is one public call up to its first backing write or fsync, or *)
(* one such write or fsync with the in-memory work that follows it.        *)
(***************************************************************************)
EXTENDS Layout

CONSTANTS
  OpenOptions,   \* the options an open may be given
  MaxFaults,     \* bound: kills, I/O errors and power losses in a behaviour
  PowerLossOn    \* whether unsynced blocks can be lost

ASSUME EnvironmentAssumption ==
  /\ OpenOptions \subseteq Options
  /\ MaxFaults \in Nat
  /\ PowerLossOn \in BOOLEAN

VARIABLES
  \* The backing file.
  desc,      \* the two descriptor blocks
  body,      \* the two index bodies
  log,       \* the log blocks
  stable,    \* the backing file as of the last fsync (kept if PowerLossOn)
  \* Control: where the running call is, and which call it is.
  pc, op,
  \* The Volume handle.
  opts,      \* options of this open
  ckpt,      \* the active checkpoint: descriptor and in-memory index
  cand,      \* the candidate checkpoint of a running publication
  pend,      \* dirty pages the publication has not appended yet
  tail,      \* end of the log: LSN and boundary
  resident,  \* pages in the mapping cache
  dirty,     \* resident pages changed since the active checkpoint
  cached,    \* entries of the resident pages
  buffered,  \* LBAs in the write buffer
  buffer,    \* their payloads
  bufPages,  \* buffered_pages: the count kept beside the buffer
  todo,      \* buffered LBAs the running release has not appended
  lastRead,  \* last_read_page
  want,      \* the page a read waits for while it publishes
  live,      \* live_blocks
  \* Recovery.
  marked,    \* touched pages whose snapshot is not appended yet
  window,    \* pages of the current replay window
  cursor,    \* replay position; then the last block cleared
  lastOpen,  \* why the last open failed
  \* History variables, for the properties.
  faults,    \* faults so far
  newest,    \* the logical contents that the appended records make up
  media,     \* the logical contents a crash may leave
  unsettled, \* LBAs of the records appended since contents were last durable
  stranded   \* LBAs of the records that the last open left beyond the blocks it cleared

disk == <<desc, body, log>>
cacheVars == <<resident, dirty, cached>>
bufVars == <<buffered, buffer, bufPages, todo>>
rootVars == <<ckpt, cand, pend>>
readVars == <<lastRead, want>>
recoveryVars == <<marked, window, cursor>>
ghosts == <<newest, media, unsettled, stranded>>
vars == <<desc, body, log, stable, pc, op, opts, ckpt, cand, pend, tail, resident,
          dirty, cached, buffered, buffer, bufPages, todo, lastRead, want, live,
          marked, window, cursor, lastOpen, faults, newest, media, unsettled,
          stranded>>

NoPage == PageCount
NoOptions == [cap |-> 1, buf |-> 1, after |-> 0]
NoWant == [page |-> 0, seq |-> FALSE]
Image == [Lbas -> Values]
ZeroImage == [l \in Lbas |-> Zero]
PositionOf(c) == At(c.lsn, c.bound)
OriginTail == At(0, LogStart - 1)

\* The steps of an open, of a publication and of a release.
Recovering == {"scan", "replay", "clear", "clearsync"}
Publishing == {"append", "sync", "body", "bodysync", "desc", "descsync"}
Opening == pc \in Recovering \/ (pc \in Publishing /\ op = "recover")
Idle == {"down", "up", "failed", "panic"}

DiskTypeOK ==
  /\ desc \in [Slot -> {NoDescriptor} \cup Descriptor]
  /\ body \in [Slot -> {TornBody} \cup Index]
  /\ log \in [Addr -> Block]
  /\ stable \in [desc : [Slot -> {NoDescriptor} \cup Descriptor],
                 body : [Slot -> {TornBody} \cup Index],
                 log : [Addr -> Block]]

HandleTypeOK ==
  /\ pc \in Idle \cup Recovering \cup Publishing
             \cup {"prepare", "release", "flushsync", "closing", "closesync", "fetch"}
  /\ op \in {"none", "write", "flush", "close", "closing", "read", "fast", "recover"}
  /\ opts \in Options
  /\ ckpt \in Checkpoint /\ cand \in Checkpoint
  /\ pend \in SUBSET Pages
  /\ tail \in Position /\ cursor \in Position
  /\ resident \in SUBSET Pages /\ dirty \in SUBSET Pages
  /\ cached \in Entries
  /\ buffered \in SUBSET Lbas /\ todo \in SUBSET Lbas
  /\ buffer \in Image
  /\ bufPages \in Nat
  /\ lastRead \in Pages \cup {NoPage}
  /\ want \in [page : Pages, seq : BOOLEAN]
  /\ live \in Nat
  /\ marked \in SUBSET Pages /\ window \in SUBSET Pages

\* The type invariant: the backing file, the handle and the bookkeeping.
TypeOK ==
  /\ DiskTypeOK
  /\ HandleTypeOK
  /\ lastOpen \in {"none", "invalid", "options", "nospace"}
  /\ faults \in Nat

-----------------------------------------------------------------------------
(* The backing file *)

\* Mutation of Sync: the fsync is not issued.
NoSync == UNCHANGED stable

\* storage::sync and the fsyncs of clear_stale_tail.  A killed process loses no
\* write it completed, so without power loss the stable image is not tracked.
Sync == stable' = IF PowerLossOn THEN [desc |-> desc, body |-> body, log |-> log]
                                 ELSE stable

\* MappingEntries of a page from the snapshot that the active index names.
SnapshotEntry(l) ==
  LET pointer == ckpt.index[PageOf(l)]
  IN IF pointer = 0 THEN Unmapped ELSE log[pointer].ents[l]

\* The mapping entry of l, through the cache.
MappedEntry(l) == IF PageOf(l) \in resident THEN cached[l] ELSE SnapshotEntry(l)

\* The payload an entry leads to, or Corrupt on a checksum mismatch.
PayloadOf(l, e) ==
  IF e.phys = 0 THEN Zero
  ELSE LET block == log[e.phys]
       IN IF block.kind = "payload" /\ Checksum(l, e.phys, block.val) = e.sum
            THEN block.val ELSE Corrupt

\* What read_block returns for l: the buffer first, then the mapping.
View(l) == IF l \in buffered THEN buffer[l] ELSE PayloadOf(l, MappedEntry(l))

\* The contents without the write buffer.
MappedImage == [l \in Lbas |-> PayloadOf(l, MappedEntry(l))]

MappedLbas(ents) == {l \in Lbas : ents[l].phys # 0}

\* The state of a process that has no volume open.  A latched handle is
\* forgotten too: check_operational keeps every later call from reading it.
Forget ==
  /\ op' = "none" /\ opts' = NoOptions
  /\ ckpt' = FormatRoot /\ cand' = FormatRoot /\ pend' = {}
  /\ tail' = OriginTail /\ cursor' = OriginTail
  /\ resident' = {} /\ dirty' = {} /\ cached' = NoEntries
  /\ buffered' = {} /\ buffer' = ZeroImage /\ bufPages' = 0 /\ todo' = {}
  /\ lastRead' = NoPage /\ want' = NoWant
  /\ live' = 0
  /\ marked' = {} /\ window' = {}

\* volume::latch: the call returns its error and the handle is unusable.
Latch ==
  /\ pc' = "failed"
  /\ Forget
  /\ UNCHANGED <<disk, stable, lastOpen, faults, ghosts>>

\* An open that returns an error.
OpenFails(why) ==
  /\ pc' = "down"
  /\ lastOpen' = why
  /\ Forget
  /\ UNCHANGED <<disk, stable, faults, ghosts>>

\* format: both slots hold the empty root.
Init ==
  /\ desc = [s \in Slot |-> DescriptorOf(FormatRoot)]
  /\ body = [s \in Slot |-> EmptyIndex]
  /\ log = [a \in Addr |-> Blank]
  /\ stable = [desc |-> desc, body |-> body, log |-> log]
  /\ pc = "down" /\ op = "none" /\ opts = NoOptions
  /\ ckpt = FormatRoot /\ cand = FormatRoot /\ pend = {}
  /\ tail = OriginTail /\ cursor = OriginTail
  /\ resident = {} /\ dirty = {} /\ cached = NoEntries
  /\ buffered = {} /\ buffer = ZeroImage /\ bufPages = 0 /\ todo = {}
  /\ lastRead = NoPage /\ want = NoWant
  /\ live = 0
  /\ marked = {} /\ window = {}
  /\ lastOpen = "none" /\ faults = 0
  /\ newest = ZeroImage /\ media = {ZeroImage} /\ unsettled = {} /\ stranded = {}

-----------------------------------------------------------------------------
(* Checkpoint publication *)

\* Mutation of Candidate: the active index is not carried over.
FreshCandidate ==
  [slot |-> Other(ckpt.slot), gen |-> ckpt.gen + 1,
   lsn |-> tail.lsn, bound |-> tail.bound, index |-> EmptyIndex]

\* The root a publication starts from: the other slot, the next generation, the
\* end of the log and the active index.
Candidate ==
  [slot |-> Other(ckpt.slot), gen |-> ckpt.gen + 1,
   lsn |-> tail.lsn, bound |-> tail.bound, index |-> ckpt.index]

\* checkpoint_publish::prepare: the candidate root, or a latched error when the
\* log cannot hold the snapshots.
Prepare ==
  /\ pc = "prepare"
  /\ IF EnsureSpace(tail.bound, Cardinality(dirty))
       THEN /\ pc' = "append"
            /\ cand' = Candidate
            /\ pend' = dirty
            /\ UNCHANGED <<disk, stable, op, opts, ckpt, tail, cacheVars, bufVars,
                           readVars, live, recoveryVars, lastOpen, faults, ghosts>>
       ELSE Latch

\* The first `count` snapshots of pages S, in page order, after the candidate.
WithSnapshots(S, count) ==
  [a \in Addr |->
    IF \E p \in S : Rank(p, S) < count /\ a = cand.bound + 1 + Rank(p, S)
      THEN LET p == CHOOSE q \in S : a = cand.bound + 1 + Rank(q, S)
           IN Snapshot(cand.lsn + (a - cand.bound), a - 1, p, PageSlice(p, cached))
      ELSE log[a]]

\* The candidate once the snapshots of S, in page order, are in the log.
Extended(S) ==
  [slot |-> cand.slot, gen |-> cand.gen,
   lsn |-> cand.lsn + Cardinality(S), bound |-> cand.bound + Cardinality(S),
   index |-> [p \in Pages |-> IF p \in S THEN cand.bound + 1 + Rank(p, S)
                                         ELSE cand.index[p]]]

\* append_batch: one write of at most Batch snapshots, then the candidate's index.
AppendBatch ==
  /\ pc = "append" /\ pend # {}
  /\ \E S \in SUBSET pend :
       /\ Lowest(S, Batch, pend)
       /\ log' = WithSnapshots(S, Cardinality(S))
       /\ cand' = Extended(S)
       /\ pend' = pend \ S
       /\ marked' = marked \ S
  /\ UNCHANGED <<desc, body, stable, pc, op, opts, ckpt, tail, cacheVars, bufVars,
                 readVars, live, window, cursor, lastOpen, faults, ghosts>>

\* Mutation of NextWindow: no slot is left for the window.
EmptyWindow(w) == w = {}

\* The next replay window: the lowest touched pages that the cache can hold.
NextWindow(w) == Lowest(w, opts.cap, marked)

\* append_snapshots returns; recovery replays the next window with a new cache.
AppendDone ==
  /\ pc = "append" /\ pend = {}
  /\ IF op = "recover" /\ marked # {}
       THEN /\ \E w \in SUBSET marked : NextWindow(w) /\ window' = w
            /\ resident' = {} /\ dirty' = {} /\ cached' = NoEntries
            /\ cursor' = PositionOf(ckpt)
            /\ pc' = "replay"
       ELSE /\ pc' = "sync"
            /\ UNCHANGED <<cacheVars, window, cursor>>
  /\ UNCHANGED <<disk, stable, op, opts, rootVars, tail, bufVars, readVars, live,
                 marked, lastOpen, faults, ghosts>>

SyncLog ==
  /\ pc = "sync" /\ pc' = "body"
  /\ Sync
  /\ UNCHANGED <<disk, op, opts, rootVars, tail, cacheVars, bufVars, readVars, live,
                 recoveryVars, lastOpen, faults, ghosts>>

\* persist_root: index body, fsync, descriptor, fsync.
WriteBody ==
  /\ pc = "body" /\ pc' = "bodysync"
  /\ body' = [body EXCEPT ![cand.slot] = cand.index]
  /\ UNCHANGED <<desc, log, stable, op, opts, rootVars, tail, cacheVars, bufVars,
                 readVars, live, recoveryVars, lastOpen, faults, ghosts>>

SyncBody ==
  /\ pc = "bodysync" /\ pc' = "desc"
  /\ Sync
  /\ UNCHANGED <<disk, op, opts, rootVars, tail, cacheVars, bufVars, readVars, live,
                 recoveryVars, lastOpen, faults, ghosts>>

WriteDescriptor ==
  /\ pc = "desc" /\ pc' = "descsync"
  /\ desc' = [desc EXCEPT ![cand.slot] = DescriptorOf(cand)]
  /\ UNCHANGED <<body, log, stable, op, opts, rootVars, tail, cacheVars, bufVars,
                 readVars, live, recoveryVars, lastOpen, faults, ghosts>>

\* The root is durable: the candidate becomes active, all pages become clean,
\* and the call that published goes on.
SyncDescriptor ==
  /\ pc = "descsync" /\ op # "closing"
  /\ Sync
  /\ ckpt' = cand /\ cand' = FormatRoot
  /\ tail' = PositionOf(cand)
  /\ dirty' = {}
  /\ pc' = CASE op = "read" -> "fetch"
             [] op = "recover" -> "clear"
             [] OTHER -> "release"
  /\ cursor' = IF op = "recover" THEN PositionOf(cand) ELSE cursor
  /\ window' = {}
  /\ UNCHANGED <<disk, op, opts, pend, resident, cached, bufVars, readVars, live,
                 marked, lastOpen, faults, ghosts>>

-----------------------------------------------------------------------------
(* Writes and the release of the buffer *)

\* Mutation of NeedsCheckpoint: the mapping slots are not considered.
NeedsCheckpointForTail(B, pages) ==
  (tail.bound - ckpt.bound) + RecordBlocks(Cardinality(B)) > opts.after

\* prepare_release: publish first when the dirty pages and the buffer's pages
\* would not fit the cache, or the tail would outgrow checkpoint_after_bytes.
NeedsCheckpoint(B, pages) ==
  LET unrelated == dirty \ PagesOf(B)
  IN \/ Cardinality(unrelated) + pages > opts.cap
     \/ (tail.bound - ckpt.bound) + RecordBlocks(Cardinality(B)) > opts.after

\* release_records for a non-empty buffer B, up to its first backing write.
Release(call, B, pages) ==
  /\ pc' = IF NeedsCheckpoint(B, pages) THEN "prepare" ELSE "release"
  /\ op' = call
  /\ todo' = B

\* write_block on a buffered LBA: overwrite in place, no new reservation.
Overwrite(l, v) ==
  /\ pc = "up" /\ l \in buffered
  /\ buffer' = [buffer EXCEPT ![l] = v]
  /\ UNCHANGED <<disk, stable, pc, op, opts, rootVars, tail, cacheVars, buffered,
                 bufPages, todo, readVars, live, recoveryVars, lastOpen, faults, ghosts>>

\* Mutation of AdmitPages: every block counts as a page of its own.
AdmitBlocks(l) == bufPages + 1

\* Reservation::admit: the pages of the buffer once l is in it.
AdmitPages(l) == bufPages + IF PageOf(l) \in PagesOf(buffered) THEN 0 ELSE 1

\* Mutation of Admitted: the snapshots of pages already dirty are not reserved.
AdmittedAlone(l) ==
  EnsureSpace(tail.bound, Reservation(Cardinality(buffered) + 1, AdmitPages(l), 0))

\* Admission of a new buffered LBA; a refused write (ENOSPC) changes nothing.
Admitted(l) ==
  EnsureSpace(tail.bound,
              Reservation(Cardinality(buffered) + 1, AdmitPages(l), Cardinality(dirty)))

\* write_block on a new LBA: admit, store, and release a full buffer.
Write(l, v) ==
  /\ pc = "up" /\ l \notin buffered
  /\ Admitted(l)
  /\ buffered' = buffered \cup {l}
  /\ buffer' = [buffer EXCEPT ![l] = v]
  /\ bufPages' = AdmitPages(l)
  /\ IF Cardinality(buffered') = BufferBlocks(opts)
       THEN Release("write", buffered', bufPages')
       ELSE UNCHANGED <<pc, op, todo>>
  /\ UNCHANGED <<disk, stable, opts, rootVars, tail, cacheVars, readVars, live,
                 recoveryVars, lastOpen, faults, ghosts>>

\* Mutation of RecordEntry: every entry names the first payload.
FirstEntry(l, rec, first) == [phys |-> first, sum |-> Checksum(l, first, buffer[l])]

\* The entry a record gives to l, its payloads starting at block `first`.
RecordEntry(l, rec, first) ==
  LET phys == first + Rank(l, rec)
  IN [phys |-> phys, sum |-> Checksum(l, phys, buffer[l])]

RecordEntries(rec, first) ==
  [l \in Lbas |-> IF l \in rec THEN RecordEntry(l, rec, first) ELSE Unmapped]

\* Mutation of WithPayloads: the record starts on the boundary, not after it.
PayloadsOnBoundary(rec, count) ==
  [a \in Addr |->
    IF \E l \in rec : Rank(l, rec) < count /\ a = tail.bound + Rank(l, rec)
      THEN Payload(buffer[CHOOSE l \in rec : a = tail.bound + Rank(l, rec)])
      ELSE log[a]]

\* The log with the first `count` payloads of the record for rec, in LBA order.
WithPayloads(rec, count) ==
  [a \in Addr |->
    IF \E l \in rec : Rank(l, rec) < count /\ a = tail.bound + 1 + Rank(l, rec)
      THEN Payload(buffer[CHOOSE l \in rec : a = tail.bound + 1 + Rank(l, rec)])
      ELSE log[a]]

\* The log with the whole record: the payloads, then the footer.
WithRecord(rec) ==
  LET bound == tail.bound + Cardinality(rec) + 1
  IN [a \in Addr |->
       IF a = bound
         THEN Footer(tail.lsn + 1, tail.bound, bound, RecordEntries(rec, tail.bound + 1))
         ELSE WithPayloads(rec, Cardinality(rec))[a]]

\* Mutation of Keeps: a dirty page may be evicted.
KeepsAny(keep, must, base, may) ==
  /\ keep \subseteq may
  /\ Cardinality(keep) <= opts.cap
  /\ base \subseteq keep \/ Cardinality(keep) = opts.cap

\* The cache may keep `keep`: it holds `must`, comes from `may`, fits the slots,
\* and drops a page of `base` only when every slot is taken.  Which clean page
\* goes is CLOCK's choice, left open here.
Keeps(keep, must, base, may) ==
  /\ must \subseteq keep /\ keep \subseteq may
  /\ Cardinality(keep) <= opts.cap
  /\ base \subseteq keep \/ Cardinality(keep) = opts.cap

\* write_record's assertions: reserved log space, and a mapping slot for every
\* page without a checkpoint.
RecordFits(rec) ==
  /\ tail.bound + Cardinality(rec) + 1 < BackingBlocks
  /\ Cardinality(dirty \cup PagesOf(rec)) <= opts.cap

\* Where a call goes once the buffer is released.
AfterRelease == CASE op = "flush" -> "flushsync"
                  [] op = "close" -> "closing"
                  [] OTHER -> "up"

\* write_record: append one record, then map its payloads page by page, then
\* advance the tail.  The last record empties the buffer.
AppendRecord(rec) ==
  /\ log' = WithRecord(rec)
  /\ dirty' = dirty \cup PagesOf(rec)
  /\ \E keep \in SUBSET Pages :
       /\ Keeps(keep, dirty', resident \cup PagesOf(rec), resident \cup PagesOf(rec))
       /\ resident' = keep
       /\ cached' = [l \in Lbas |->
            IF PageOf(l) \notin keep THEN Unmapped
            ELSE IF l \in rec THEN RecordEntry(l, rec, tail.bound + 1)
            ELSE MappedEntry(l)]
  /\ live' = live + Cardinality({l \in rec : MappedEntry(l).phys = 0})
  /\ tail' = At(tail.lsn + 1, tail.bound + Cardinality(rec) + 1)
  /\ newest' = [l \in Lbas |-> IF l \in rec THEN buffer[l] ELSE newest[l]]
  /\ media' = media \cup {newest'}
  /\ unsettled' = unsettled \cup rec
  /\ todo' = todo \ rec
  /\ lastRead' = NoPage
  /\ IF todo' = {}
       THEN /\ pc' = AfterRelease
            /\ op' = IF pc' = "up" THEN "none" ELSE op
            /\ buffered' = {} /\ buffer' = ZeroImage /\ bufPages' = 0
       ELSE UNCHANGED <<pc, op, buffered, buffer, bufPages>>
  /\ UNCHANGED <<desc, body, stable, opts, rootVars, want, recoveryVars, lastOpen, faults,
                 stranded>>

\* A failed assertion ends the process.
Panic ==
  /\ pc' = "panic"
  /\ Forget
  /\ UNCHANGED <<disk, stable, lastOpen, faults, ghosts>>

\* One turn of release_records' loop: the next MaxPayload LBAs in order.
WriteRecord ==
  /\ pc = "release"
  /\ \E rec \in SUBSET todo :
       /\ Lowest(rec, MaxPayload, todo)
       /\ IF RecordFits(rec) THEN AppendRecord(rec) ELSE Panic

-----------------------------------------------------------------------------
(* Reads *)

\* PageRead::read: pages after p whose snapshots follow p's in the log, at most
\* READ_AHEAD_PAGES - 1 = 3 of them and none resident.
Ahead(p) ==
  {q \in Pages : /\ q \in p + 1 .. p + 3
                 /\ \A r \in p + 1 .. q :
                      /\ r \notin resident
                      /\ ckpt.index[p] # 0
                      /\ ckpt.index[r] = ckpt.index[p] + (r - p)}

\* Install p and some of the pages read ahead.
Install(p, sequential) ==
  \E keep \in SUBSET Pages :
    /\ Keeps(keep, dirty \cup {p}, resident \cup {p},
             resident \cup {p} \cup (IF sequential THEN Ahead(p) ELSE {}))
    /\ resident' = keep
    /\ cached' = [l \in Lbas |-> IF PageOf(l) \in keep THEN MappedEntry(l) ELSE Unmapped]
    /\ UNCHANGED dirty

\* read_block of an LBA that is not buffered (a buffered one changes no state):
\* a hit, a miss into a free or clean slot, or a miss with every slot dirty,
\* which publishes a checkpoint first.
Read(p) ==
  /\ pc = "up" /\ \E l \in Lbas \ buffered : PageOf(l) = p
  /\ lastRead' = p
  /\ \/ /\ p \in resident
        /\ UNCHANGED <<pc, op, want, cacheVars>>
     \/ /\ p \notin resident /\ Cardinality(dirty) < opts.cap
        /\ Install(p, lastRead + 1 = p)
        /\ UNCHANGED <<pc, op, want>>
     \/ /\ p \notin resident /\ Cardinality(dirty) = opts.cap
        /\ pc' = "prepare" /\ op' = "read"
        /\ want' = [page |-> p, seq |-> lastRead + 1 = p]
        /\ UNCHANGED cacheVars
  /\ UNCHANGED <<disk, stable, opts, rootVars, tail, bufVars, live, recoveryVars,
                 lastOpen, faults, ghosts>>

\* The read goes on after its checkpoint.
Fetch ==
  /\ pc = "fetch" /\ pc' = "up" /\ op' = "none"
  /\ Install(want.page, want.seq)
  /\ want' = NoWant
  /\ UNCHANGED <<disk, stable, opts, rootVars, tail, bufVars, lastRead, live,
                 recoveryVars, lastOpen, faults, ghosts>>

-----------------------------------------------------------------------------
(* Flush and close *)

Flush ==
  /\ pc = "up"
  /\ IF buffered = {} THEN pc' = "flushsync" /\ op' = "flush" /\ UNCHANGED todo
                      ELSE Release("flush", buffered, bufPages)
  /\ UNCHANGED <<disk, stable, opts, rootVars, tail, cacheVars, buffered, buffer,
                 bufPages, readVars, live, recoveryVars, lastOpen, faults, ghosts>>

\* Mutation of FlushSync: the fsync is skipped.
SkipFlushSync ==
  /\ pc = "flushsync" /\ pc' = "up" /\ op' = "none"
  /\ media' = {newest} /\ unsettled' = {}
  /\ UNCHANGED <<disk, stable, opts, rootVars, tail, cacheVars, bufVars, readVars, live,
                 recoveryVars, lastOpen, faults, newest, stranded>>

\* flush's fsync: everything released so far is durable.
FlushSync ==
  /\ pc = "flushsync" /\ pc' = "up" /\ op' = "none"
  /\ Sync
  /\ media' = {newest} /\ unsettled' = {}
  /\ UNCHANGED <<disk, opts, rootVars, tail, cacheVars, bufVars, readVars, live,
                 recoveryVars, lastOpen, faults, newest, stranded>>

Close ==
  /\ pc = "up"
  /\ IF buffered = {} THEN pc' = "closing" /\ op' = "close" /\ UNCHANGED todo
                      ELSE Release("close", buffered, bufPages)
  /\ UNCHANGED <<disk, stable, opts, rootVars, tail, cacheVars, buffered, buffer,
                 bufPages, readVars, live, recoveryVars, lastOpen, faults, ghosts>>

\* close after its release: fsync when the root is current, publish otherwise.
ClosePublish ==
  /\ pc = "closing"
  /\ pc' = IF tail.lsn = ckpt.lsn THEN "closesync" ELSE "prepare"
  /\ op' = "closing"
  /\ UNCHANGED <<disk, stable, opts, rootVars, tail, cacheVars, bufVars, readVars, live,
                 recoveryVars, lastOpen, faults, ghosts>>

\* The last fsync of a close; the handle is consumed.
Closed ==
  /\ pc = "closesync" \/ (pc = "descsync" /\ op = "closing")
  /\ pc' = "down"
  /\ Sync
  /\ media' = {newest} /\ unsettled' = {}
  /\ Forget
  /\ UNCHANGED <<disk, lastOpen, faults, newest, stranded>>

-----------------------------------------------------------------------------
(* Open and recovery *)

\* checkpoint_load::load_candidate: the descriptor and the body agree, every
\* pointer lies in the checkpointed log and every snapshot decodes.
Loadable(s) ==
  /\ ValidDescriptor(desc[s])
  /\ body[s] = desc[s].sum
  /\ \A p \in Pages :
       LET pointer == desc[s].sum[p]
       IN pointer # 0 => /\ pointer \in LogStart .. desc[s].bound
                         /\ DecodesAsPage(log[pointer], p, pointer, desc[s].lsn)

\* validate_pair: two roots of one generation must be the same root.
PairDisagrees ==
  LET g == desc["green"] b == desc["blue"]
  IN /\ ValidDescriptor(g) /\ ValidDescriptor(b)
     /\ g.gen = b.gen /\ g # b

\* load tries the newer descriptor first, and green first on a tie.
Selected(s) ==
  /\ Loadable(s)
  /\ Loadable(Other(s)) => \/ desc[s].gen > desc[Other(s)].gen
                           \/ desc[s].gen = desc[Other(s)].gen /\ s = "green"

RootIn(s) == [slot |-> s, gen |-> desc[s].gen, lsn |-> desc[s].lsn,
              bound |-> desc[s].bound, index |-> desc[s].sum]

\* Mutation of LiveIn: the checkpoint's own blocks are not counted.
LiveFromZero(index) == 0

\* Mapped blocks of a checkpoint, counted while its snapshots are validated.
LiveIn(index) ==
  Cardinality({l \in Lbas : /\ index[PageOf(l)] # 0
                            /\ log[index[PageOf(l)]].ents[l].phys # 0})

\* volume::open up to recovery: select a root and check the options against it.
Open(o) ==
  /\ pc = "down"
  /\ IF PairDisagrees \/ ~\E s \in Slot : Selected(s) THEN OpenFails("invalid")
     ELSE IF ~ValidOptions(o) THEN OpenFails("options")
     ELSE /\ pc' = "scan" /\ opts' = o /\ lastOpen' = "none"
          /\ \E s \in Slot : Selected(s) /\ ckpt' = RootIn(s)
          /\ tail' = PositionOf(ckpt')
          /\ live' = LiveIn(ckpt'.index)
          /\ UNCHANGED <<disk, stable, op, cand, pend, cacheVars, bufVars, readVars,
                         recoveryVars, faults, ghosts>>

\* A record that read_next accepts after pos with its boundary at b: a mapping
\* page in the next block, or a data footer further on.
Follows(pos, b) ==
  LET block == log[b]
  IN /\ block.kind = IF b = pos.bound + 1 THEN "page" ELSE "data"
     /\ block.lsn = pos.lsn + 1
     /\ block.prev = pos.bound
     /\ block.bound = b

\* read_next: the first boundary within MaxRecord blocks that holds a record.
IsNext(pos, b) ==
  LET found == {c \in Addr : c \in pos.bound + 1 .. pos.bound + MaxRecord /\ Follows(pos, c)}
  IN b \in found /\ \A c \in found : b <= c

\* The block after pos looks like a mapping page and no record follows pos.
SuspectMapping(pos) ==
  pos.bound + 1 \in Addr /\ log[pos.bound + 1].kind \in {"page", "torn"}

\* scan: traverse one record; a data record marks the pages it touches.
ScanRecord(b) ==
  /\ pc = "scan"
  /\ IsNext(tail, b)
  /\ tail' = At(tail.lsn + 1, b)
  /\ marked' = IF log[b].kind = "data"
                 THEN marked \cup PagesOf(MappedLbas(log[b].ents)) ELSE marked
  /\ UNCHANGED <<disk, stable, pc, op, opts, rootVars, cacheVars, bufVars, readVars,
                 live, window, cursor, lastOpen, faults, ghosts>>

\* The tail ends.  recover reserves a snapshot for each touched page, then
\* replays into the cache if the touched pages fit it, or window by window.
ScanEnd ==
  /\ pc = "scan"
  /\ \A b \in Addr : ~IsNext(tail, b)
  /\ IF SuspectMapping(tail) THEN OpenFails("invalid")
     ELSE IF ~EnsureSpace(tail.bound, Cardinality(marked)) THEN OpenFails("nospace")
     ELSE /\ IF Cardinality(marked) <= opts.cap
               THEN /\ op' = "fast"
                    /\ window' = marked
                    /\ UNCHANGED cand
               ELSE /\ op' = "recover"
                    /\ \E w \in SUBSET marked : NextWindow(w) /\ window' = w
                    /\ cand' = Candidate
          /\ pc' = IF marked = {} THEN "clear" ELSE "replay"
          /\ cursor' = IF marked = {} THEN tail ELSE PositionOf(ckpt)
          /\ UNCHANGED <<disk, stable, opts, ckpt, pend, tail, cacheVars, bufVars,
                         readVars, live, marked, lastOpen, faults, ghosts>>

\* replay_window and apply: map the payloads of one record that fall in the
\* window, loading each page from the active checkpoint's snapshot.
ReplayRecord(b) ==
  /\ pc = "replay" /\ cursor # tail
  /\ IsNext(cursor, b)
  /\ LET ents == log[b].ents
         rec == IF log[b].kind = "data"
                  THEN {l \in MappedLbas(ents) : PageOf(l) \in window} ELSE {}
         pages == resident \cup PagesOf(rec)
     IN IF Cardinality(pages) > opts.cap THEN OpenFails("invalid")
        ELSE /\ resident' = pages
             /\ dirty' = dirty \cup PagesOf(rec)
             /\ cached' = [l \in Lbas |-> IF PageOf(l) \notin pages THEN Unmapped
                                          ELSE IF l \in rec THEN ents[l]
                                          ELSE MappedEntry(l)]
             /\ live' = live + Cardinality({l \in rec : MappedEntry(l).phys = 0})
             /\ cursor' = At(cursor.lsn + 1, b)
             /\ UNCHANGED <<disk, stable, pc, op, opts, rootVars, tail, bufVars,
                            readVars, marked, window, lastOpen, faults, ghosts>>

\* The window is replayed: the fast path is done, the other appends snapshots.
ReplayEnd ==
  /\ pc = "replay" /\ cursor = tail
  /\ pc' = IF op = "fast" THEN "clear" ELSE "append"
  /\ pend' = IF op = "fast" THEN {} ELSE dirty
  /\ marked' = IF op = "fast" THEN {} ELSE marked
  /\ window' = {}
  /\ UNCHANGED <<disk, stable, op, opts, ckpt, cand, tail, cacheVars, bufVars, readVars,
                 live, cursor, lastOpen, faults, ghosts>>

\* Mutation of ClearEnd: only the block after the tail is cleared.
ClearOne == Smaller(tail.bound + 1, BackingBlocks - 1)

\* The last block clear_stale_tail zeroes.
ClearEnd == Smaller(tail.bound + MaxRecord, BackingBlocks - 1)

ClearBlock ==
  /\ pc = "clear" /\ cursor.bound < ClearEnd
  /\ log' = [log EXCEPT ![cursor.bound + 1] = Blank]
  /\ cursor' = At(cursor.lsn, cursor.bound + 1)
  /\ UNCHANGED <<desc, body, stable, pc, op, opts, rootVars, tail, cacheVars, bufVars,
                 readVars, live, marked, window, lastOpen, faults, ghosts>>

ClearEnds ==
  /\ pc = "clear" /\ cursor.bound = ClearEnd /\ pc' = "clearsync"
  /\ UNCHANGED <<disk, stable, op, opts, rootVars, tail, cacheVars, bufVars, readVars,
                 live, recoveryVars, lastOpen, faults, ghosts>>

\* The blocks that data records beyond block a map: nothing clears those records.
StrandedBeyond(a) ==
  UNION {MappedLbas(log[b].ents) : b \in {c \in Addr : c > a /\ log[c].kind = "data"}}

\* The fsync that ends an open.  Everything recovered is durable from here on.
ClearSync ==
  /\ pc = "clearsync" /\ pc' = "up" /\ op' = "none"
  /\ Sync
  /\ cursor' = OriginTail
  /\ newest' = MappedImage /\ media' = {newest'} /\ unsettled' = {}
  /\ stranded' = StrandedBeyond(ClearEnd)
  /\ UNCHANGED <<disk, opts, rootVars, tail, cacheVars, bufVars, readVars, live,
                 marked, window, lastOpen, faults>>

-----------------------------------------------------------------------------
(* Faults *)

\* What an interrupted backing write may leave: a prefix of the record's
\* blocks without its footer, a prefix of a snapshot batch, a torn index body,
\* a torn descriptor, or the file as it was.
Interrupted ==
  \/ UNCHANGED disk
  \/ /\ pc = "release"
     /\ \E rec \in SUBSET todo :
          /\ Lowest(rec, MaxPayload, todo) /\ RecordFits(rec)
          /\ \E count \in 1 .. Cardinality(rec) : log' = WithPayloads(rec, count)
     /\ UNCHANGED <<desc, body>>
  \/ /\ pc = "append"
     /\ \E S \in SUBSET pend :
          /\ Lowest(S, Batch, pend)
          /\ \E count \in 1 .. Cardinality(S) - 1 : log' = WithSnapshots(S, count)
     /\ UNCHANGED <<desc, body>>
  \/ /\ pc = "body"
     /\ body' = [body EXCEPT ![cand.slot] = TornBody]
     /\ UNCHANGED <<desc, log>>
  \/ /\ pc = "desc"
     /\ desc' = [desc EXCEPT ![cand.slot] = NoDescriptor]
     /\ UNCHANGED <<body, log>>

\* SIGKILL between or during two steps.
Kill ==
  /\ pc \notin {"down", "panic"} /\ faults < MaxFaults
  /\ pc' = "down" /\ faults' = faults + 1
  /\ Interrupted
  /\ Forget
  /\ UNCHANGED <<stable, lastOpen, ghosts>>

\* A backing read, write or fsync fails: an open returns the error, a call on
\* the handle latches it.
IoError ==
  /\ pc \notin Idle \/ pc = "up"
  /\ faults < MaxFaults
  /\ pc' = IF Opening THEN "down" ELSE "failed"
  /\ faults' = faults + 1
  /\ Interrupted
  /\ Forget
  /\ UNCHANGED <<stable, lastOpen, ghosts>>

\* The owner drops a latched handle.
Drop ==
  /\ pc = "failed" /\ pc' = "down"
  /\ UNCHANGED <<disk, stable, op, opts, rootVars, tail, cacheVars, bufVars, readVars,
                 live, recoveryVars, lastOpen, faults, ghosts>>

\* Log blocks that no fsync has covered.
Unsynced == {a \in Addr : log[a] # stable.log[a]}

\* What power loss leaves of a value: the old one, the new one, or `torn` if they differ.
Leaves(new, old, torn) == {new, old} \cup IF new = old THEN {} ELSE {torn}

\* Power fails: of the writes that no fsync has covered, each block, body and descriptor is lost,
\* kept or torn on its own.  A torn block is garbage that matches nothing, like a blank one; a
\* torn mapping page may still look like one.
PowerLoss ==
  /\ PowerLossOn /\ faults < MaxFaults
  /\ pc' = "down" /\ faults' = faults + 1
  /\ \E lost \in SUBSET Unsynced :
       \E garbage \in SUBSET {a \in Unsynced \ lost : stable.log[a] # Blank} :
       \E torn \in SUBSET {a \in Unsynced \ (lost \cup garbage) :
                            "page" \in {log[a].kind, stable.log[a].kind}} :
         log' = [a \in Addr |-> IF a \in lost THEN stable.log[a]
                                ELSE IF a \in garbage THEN Blank
                                ELSE IF a \in torn THEN TornPage
                                ELSE log[a]]
  /\ \E g \in Leaves(body["green"], stable.body["green"], TornBody),
        b \in Leaves(body["blue"], stable.body["blue"], TornBody) :
       body' = [s \in Slot |-> IF s = "green" THEN g ELSE b]
  /\ \E g \in Leaves(desc["green"], stable.desc["green"], NoDescriptor),
        b \in Leaves(desc["blue"], stable.desc["blue"], NoDescriptor) :
       desc' = [s \in Slot |-> IF s = "green" THEN g ELSE b]
  /\ stable' = [desc |-> desc', body |-> body', log |-> log']
  /\ Forget
  /\ UNCHANGED <<lastOpen, ghosts>>

-----------------------------------------------------------------------------

\* Client calls on an idle handle.
Client ==
  \/ \E l \in Lbas, v \in Values : Overwrite(l, v) \/ Write(l, v)
  \/ \E p \in Pages : Read(p)
  \/ Flush
  \/ Close

\* Steps of a running call.
Engine ==
  \/ Prepare \/ AppendBatch \/ AppendDone \/ SyncLog
  \/ WriteBody \/ SyncBody \/ WriteDescriptor \/ SyncDescriptor
  \/ WriteRecord \/ Fetch \/ FlushSync \/ ClosePublish \/ Closed
  \/ \E b \in Addr : ScanRecord(b) \/ ReplayRecord(b)
  \/ ScanEnd \/ ReplayEnd \/ ClearBlock \/ ClearEnds \/ ClearSync

Next ==
  \/ \E o \in OpenOptions : Open(o)
  \/ Client
  \/ Engine
  \/ Kill \/ IoError \/ Drop \/ PowerLoss

Spec == Init /\ [][Next]_vars

\* The engine's thread keeps running a call it has started.
FairSpec == Spec /\ WF_vars(Engine)

-----------------------------------------------------------------------------
(* Properties *)

\* The phases of a volume in use: the handle is open, or a call is running.
InUse == pc \notin {"down", "failed", "panic"}

\* Where the next append goes: the candidate's boundary while a publication or
\* a windowed recovery appends, the tail otherwise.
Frontier ==
  IF pc \in Publishing \/ (pc = "replay" /\ op = "recover")
    THEN cand.bound ELSE tail.bound

\* The blocks that work already admitted may still append there.
Owed ==
  CASE pc \in {"up", "prepare", "fetch", "flushsync", "closing", "closesync",
               "clear", "clearsync"}
         -> Reservation(Cardinality(buffered), bufPages, Cardinality(dirty))
    [] pc = "release" -> RecordBlocks(Cardinality(todo))
                           + Cardinality(dirty \cup PagesOf(buffered))
    [] pc = "replay" \/ (pc \in Publishing /\ op = "recover") -> Cardinality(marked)
    [] pc \in Publishing /\ op # "recover"
         -> Cardinality(pend) + Reservation(Cardinality(buffered), bufPages, 0)
    [] OTHER -> 0

\* Admission reserves enough: at every step of every call, the log still holds
\* the records of the buffer and a snapshot of each page that is or will be
\* dirty, so no publication and no release meets ENOSPC (Reservation::admit,
\* recover's ensure_space).
ReservedSpace == InUse => EnsureSpace(Frontier, Owed)

\* The preflight of a release leaves a mapping slot for every page it updates,
\* and the page count kept beside the buffer is exact (prepare_release).
ReservedSlots ==
  /\ bufPages = Cardinality(PagesOf(buffered))
  /\ pc = "release" => Cardinality(dirty \cup PagesOf(buffered)) <= opts.cap

\* The assertions of RecordWriter::append and with_page hold: an admitted record
\* always finds its log space, and never needs a checkpoint to find its slots.
AssertionsHold == pc # "panic"

\* What the control state says of the buffer, the options and recovery's sets.
ControlInv ==
  /\ todo \subseteq buffered
  /\ InUse => ValidOptions(opts) /\ Cardinality(buffered) <= BufferBlocks(opts)
  /\ pc \in {"down", "failed", "panic", "flushsync", "closing", "closesync"} \/ Opening
       => buffered = {}
  /\ pc = "up" \/ op = "read" => Cardinality(buffered) < BufferBlocks(opts)
  /\ pc = "prepare" => op \in {"write", "flush", "close", "closing", "read"}
  /\ pc \in Publishing => op \in {"write", "flush", "close", "closing", "read", "recover"}
  /\ pc = "release" => todo # {} /\ op \in {"write", "flush", "close"}
  /\ pc \in {"prepare"} \cup Publishing /\ op \in {"write", "flush", "close"}
       => todo = buffered /\ todo # {}
  /\ pc = "fetch" => op = "read"
  /\ pc \in {"down", "failed", "scan"} => dirty = {} /\ resident = {}
  /\ pc \in {"down", "failed"} => marked = {}
  /\ pc = "replay" => op \in {"fast", "recover"} /\ dirty \subseteq window
                      /\ window \subseteq marked
  /\ pc \in Publishing /\ op = "recover" => pend \subseteq marked
  /\ pc = "clear" => cursor.bound >= tail.bound

\* Every pointer of checkpoint c names a snapshot block of the log c covers.
PointersValid(c) ==
  \A p \in Pages : \/ c.index[p] = 0
                   \/ /\ c.index[p] \in Addr /\ c.index[p] <= c.bound
                      /\ log[c.index[p]].kind = "page"

\* The active checkpoint, and a candidate under construction, only name snapshots
\* that are in the log; the log grows past both (append_batch, persist_root).
SnapshotsInPlace ==
  /\ InUse => PointersValid(ckpt) /\ LogStart <= ckpt.bound + 1
              /\ ckpt.bound <= tail.bound
  /\ pc \in Publishing \/ (pc = "replay" /\ op = "recover")
       => PointersValid(cand) /\ tail.bound <= cand.bound

\* The inductive invariant behind the reservation theorems.
Inductive ==
  /\ TypeOK
  /\ ControlInv
  /\ SnapshotsInPlace
  /\ ReservedSpace
  /\ ReservedSlots
  /\ AssertionsHold

\* A clean resident page equals the snapshot that the active index names, so
\* evicting it loses nothing (mapping cache, checkpoint_published, prefetch).
CacheCoherent ==
  InUse /\ pc # "scan" =>
    \A l \in Lbas : PageOf(l) \in resident \ dirty => cached[l] = SnapshotEntry(l)

\* live_blocks, kept by increments across releases and recovery, is the number
\* of mapped logical blocks.
LiveExact ==
  pc \in {"up", "release", "fetch", "flushsync", "closing", "clear", "clearsync"} =>
    live = Cardinality({l \in Lbas : MappedEntry(l).phys # 0})

\* Publication never harms the root it replaces: the active checkpoint can be
\* loaded from its slot at every step, and a closed or crashed volume has a root
\* to open (slot.other, persist_root, load).
RootIntact ==
  /\ InUse => Loadable(ckpt.slot) /\ RootIn(ckpt.slot) = ckpt
  /\ ~PairDisagrees
  /\ \E s \in Slot : Selected(s)

\* What recovery has rebuilt is one of the contents a crash may leave: flushed
\* writes and a prefix of the records after them (recover, read_next).
RecoveredPrefix == pc \in {"clear", "clearsync"} => MappedImage \in media

\* A block whose last write was flushed, and that no record has touched since, is
\* recovered with that value, whatever power loss keeps, loses or tears of what was
\* not synced; unless the open before left a record of that block beyond the part of
\* the log it cleared (flush, clear_stale_tail, persist_root).
RecoveredQuiet ==
  pc \in {"clear", "clearsync"} =>
    \A l \in Lbas \ (unsettled \cup stranded) : MappedImage[l] = newest[l]

\* After an open nothing follows the tail that a later recovery could take for
\* a record (clear_stale_tail).
CleanTail == pc = "up" => \A a \in Addr : a > tail.bound => log[a] = Blank

\* The log is append-only: no step of a volume in use changes a block up to the
\* tail, which recovery may still have to read.
AppendOnly ==
  [][InUse => \A a \in Addr : a <= tail.bound => log'[a] = log[a]]_vars

\* Every call that starts comes to an end: a publication, a release and a
\* recovery with any number of windows terminate.
CallsFinish == pc \notin Idle ~> pc \in Idle

\* A crash never uses up the log space that recovery asks for: an open does not
\* fail with ENOSPC.
RecoveryHasSpace == lastOpen # "nospace"

\* checkpoint_after_bytes bounds the log retained after the active checkpoint.
TailBounded == pc = "up" => tail.bound - ckpt.bound <= opts.after

\* The refinement mapping: the client sees the buffer over the mapping.
Device == INSTANCE BlockDevice WITH
  status <- IF pc \in {"down", "panic"} \/ Opening THEN "down"
            ELSE IF pc = "failed" THEN "failed" ELSE "up",
  cur <- IF InUse /\ ~Opening THEN [l \in Lbas |-> View(l)] ELSE <<>>

\* The engine keeps the device contract.
RefinesDevice == Device!Spec
=============================================================================
