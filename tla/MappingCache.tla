---------------------------- MODULE MappingCache ----------------------------
(***************************************************************************)
(* The mapping-page cache (mapping_cache.rs, clock.rs, sizing.rs) and the  *)
(* code that calls it: MappingState::with_page for reads and for releasing *)
(* the write buffer, the read-ahead of page_read.rs, and recovery's replay *)
(* windows.  Volume abstracts all of this to "some clean pages stay".      *)
(*                                                                         *)
(* What a page's entries say is Volume's subject: here a page is its id.   *)
(* Every failed call latches the volume, so a failure ends the use of the  *)
(* cache.  Counters are left out, except that prefetched pages are         *)
(* accounted for by `outstanding`.                                         *)
(***************************************************************************)
EXTENDS Integers, FiniteSets

CONSTANTS
  PageTotal,      \* mapping pages of the volume (page_count)
  BufferBlocks,   \* capacity of the write buffer
  Budgets,        \* cache budgets in bytes
  DefaultBytes,   \* logical_bytes / 10_000
  SlotBytes,      \* size_of::<Slot>()
  ReadAhead,      \* READ_AHEAD_PAGES
  ColdWindow      \* how many slots cold_candidates looks at (32)

ASSUME CacheAssumption ==
  /\ PageTotal \in Nat \ {0}
  /\ BufferBlocks \in Nat \ {0}
  /\ Budgets \subseteq Nat
  /\ DefaultBytes \in Nat
  /\ SlotBytes \in Nat \ {0}
  /\ ReadAhead \in Nat \ {0}
  /\ ColdWindow \in Nat \ {0}

PageIds == 0 .. PageTotal - 1

None == -1

VARIABLES
  budget,       \* Sizing::requested_bytes
  search,       \* low and high of the search for the capacity
  capacity,     \* Sizing::capacity, 0 before it is known
  slots,        \* the slots: page_id, dirty, prefetched
  resident,     \* how many slots are in use
  lookup,       \* page -> slot, or None
  referenced,   \* Clock::referenced, as the set of slots whose bit is set
  cursor,       \* Clock::cursor
  last,         \* MappingState::last_read_page, or None
  outstanding,  \* prefetched_pages - prefetch_hits - prefetch_unused_evictions
  call          \* the call in progress

clockVars == <<referenced, cursor>>
cacheVars == <<slots, resident, lookup, outstanding>>
sizeVars == <<budget, search, capacity>>
vars == <<sizeVars, cacheVars, clockVars, last, call>>

-----------------------------------------------------------------------------
(* Sizing.                                                                 *)

Least(a, b) == IF a <= b THEN a ELSE b

Greatest(a, b) == IF a <= b THEN b ELSE a

CeilDiv(a, b) == (a + b - 1) \div b

\* hashbrown's table for a reserve of n entries: a power of two of buckets, at most 7/8 full,
\* 8 bytes an entry and one control byte a bucket, and a group of control bytes.
Tables == {2 ^ k : k \in 2 .. 2 * PageTotal + 2}

Holds(buckets) == IF buckets = 4 THEN 3 ELSE 7 * (buckets \div 8)

SmallestTable(buckets, n) ==
  n <= Holds(buckets) /\ \A other \in Tables : other < buckets => n > Holds(other)

\* A reserve for every page of the volume has a table.
ASSUME TableAssumption ==
  /\ Tables \subseteq Nat
  /\ \A n \in 0 .. 2 * PageTotal : \E buckets \in Tables : SmallestTable(buckets, n)

LookupBytes(n) == 9 * (CHOOSE buckets \in Tables : SmallestTable(buckets, n)) + 16

AllocatedBytes(slotCount) ==
  SlotBytes * slotCount + LookupBytes(2 * slotCount) + 8 * CeilDiv(slotCount, 64) + 4 * slotCount

\* The slots a full write buffer may need.
Required == Least(BufferBlocks, PageTotal)

DefaultBudget == Greatest(DefaultBytes, AllocatedBytes(Required))

Upper(bytes) == Least(Greatest(bytes \div SlotBytes, 1), PageTotal)

Call(at, page, slot) ==
  [at |-> at, kind |-> "none", page |-> page, slot |-> slot, sequential |-> FALSE,
   todo |-> {}, rest |-> {}, count |-> 0, offset |-> 0]

Idle == Call("idle", 0, 0)

Latched == Call("latched", 0, 0)

Stuck == Call("stuck", 0, 0)

Fresh(n) ==
  /\ slots' = [s \in 0 .. n - 1 |-> [page |-> 0, dirty |-> FALSE, prefetched |-> FALSE]]
  /\ resident' = 0
  /\ lookup' = [p \in PageIds |-> None]
  /\ outstanding' = 0
  /\ referenced' = {}
  /\ cursor' = 0

\* Pages an open replays in one pass over the tail: the first ones, as many as there are slots.
NextWindow(pages, n) == {p \in pages : Cardinality({q \in pages : q < p}) < n}

\* The search refuses a capacity that fills the budget exactly (mutant of SizeStep).
StrictSizeStep ==
  LET middle == search.low + CeilDiv(search.high - search.low, 2)
  IN  /\ call.at = "sizing"
      /\ search.low < search.high
      /\ search' = IF AllocatedBytes(middle) < budget THEN [search EXCEPT !.low = middle]
                   ELSE [search EXCEPT !.high = middle - 1]
      /\ UNCHANGED <<budget, capacity, cacheVars, clockVars, last, call>>

\* One step of Sizing::new's binary search.
SizeStep ==
  LET middle == search.low + CeilDiv(search.high - search.low, 2)
  IN  /\ call.at = "sizing"
      /\ search.low < search.high
      /\ search' = IF AllocatedBytes(middle) <= budget THEN [search EXCEPT !.low = middle]
                   ELSE [search EXCEPT !.high = middle - 1]
      /\ UNCHANGED <<budget, capacity, cacheVars, clockVars, last, call>>

\* The search ends: open refuses a cache too small for the write buffer, or replays the tail.
Open(touched) ==
  /\ call.at = "sizing"
  /\ search.low = search.high
  /\ capacity' = search.low
  /\ Fresh(search.low)
  /\ call' = IF search.low < Required THEN Call("refused", 0, 0)
             ELSE LET window == NextWindow(touched, search.low)
                  IN  [Call("replay", 0, 0) EXCEPT !.kind = "replay", !.todo = window,
                         !.rest = touched \ window]
  /\ UNCHANGED <<budget, search, last>>

-----------------------------------------------------------------------------
(* CLOCK.                                                                  *)

Slots == 0 .. capacity - 1

Clean(slot) == ~slots[slot].dirty

Hand(step) == (cursor + step) % capacity

\* After the scan's first `step` steps every bit it passed is clear.
ReferencedAt(step) == referenced \ {Hand(k) : k \in 0 .. step - 1}

\* A victim chosen without regard to dirty pages (mutant of Chosen).
ChosenAny(step) == Hand(step) \notin ReferencedAt(step)

Chosen(step) == Hand(step) \notin ReferencedAt(step) /\ Clean(Hand(step))

\* The two rounds of Clock::victim.
Scan == 0 .. 2 * capacity - 1

VictimFound == \E step \in Scan : Chosen(step)

VictimStep == CHOOSE step \in Scan : Chosen(step) /\ \A k \in 0 .. step - 1 : ~Chosen(k)

\* Unreferenced slots within ColdWindow steps of the hand, in the hand's order.
Cold(step) == step \in 0 .. Least(capacity, ColdWindow) - 1 /\ Hand(step) \notin referenced

ColdSteps == {step \in 0 .. Least(capacity, ColdWindow) - 1 : Cold(step) /\ Clean(Hand(step))}

-----------------------------------------------------------------------------
(* Acquiring a page.                                                       *)

\* resolve on a resident page, which the operation then leaves dirty or not.
Touch(page, makesDirty) ==
  LET slot == lookup[page]
  IN  /\ slots' = [slots EXCEPT ![slot].prefetched = FALSE,
                                ![slot].dirty = @ \/ makesDirty]
      /\ outstanding' = IF slots[slot].prefetched THEN outstanding - 1 ELSE outstanding
      /\ referenced' = referenced \cup {slot}
      /\ UNCHANGED <<resident, lookup, cursor>>

\* resolve on a page that is not resident: the next unused slot, a victim, or neither.
Reserve(page, onVacant, onFull) ==
  /\ UNCHANGED cacheVars
  /\ IF resident < capacity
     THEN call' = [onVacant EXCEPT !.slot = resident] /\ UNCHANGED clockVars
     ELSE IF VictimFound
     THEN /\ call' = [onVacant EXCEPT !.slot = Hand(VictimStep)]
          /\ referenced' = ReferencedAt(VictimStep)
          /\ cursor' = Hand(VictimStep + 1)
     ELSE call' = onFull /\ referenced' = {} /\ UNCHANGED cursor

\* The evicted page keeps its entry in the lookup table (mutant of Install).
InstallOver(page, slot, makesDirty, asPrefetch) ==
  LET evicts == slot < resident
      unused == evicts /\ slots[slot].prefetched
  IN  /\ lookup' = [lookup EXCEPT ![page] = slot]
      /\ resident' = IF evicts THEN resident ELSE resident + 1
      /\ slots' = [slots EXCEPT ![slot] =
           [page |-> page, dirty |-> makesDirty, prefetched |-> asPrefetch]]
      /\ outstanding' = outstanding + (IF asPrefetch THEN 1 ELSE 0) - (IF unused THEN 1 ELSE 0)
      /\ referenced' = IF asPrefetch THEN referenced \ {slot} ELSE referenced \cup {slot}

\* VacantPage::install, with the page's dirty and prefetched state afterwards.
Install(page, slot, makesDirty, asPrefetch) ==
  LET evicts == slot < resident
      unused == evicts /\ slots[slot].prefetched
  IN  /\ lookup' = [p \in PageIds |->
           IF p = page THEN slot
           ELSE IF evicts /\ p = slots[slot].page THEN None ELSE lookup[p]]
      /\ resident' = IF evicts THEN resident ELSE resident + 1
      /\ slots' = [slots EXCEPT ![slot] =
           [page |-> page, dirty |-> makesDirty, prefetched |-> asPrefetch]]
      /\ outstanding' = outstanding + (IF asPrefetch THEN 1 ELSE 0) - (IF unused THEN 1 ELSE 0)
      /\ referenced' = IF asPrefetch THEN referenced \ {slot} ELSE referenced \cup {slot}

\* The limit counts the slot the demand page will take as spare (mutant of PrefetchLimit).
PrefetchLimitAll(page, slot) ==
  LET spare == capacity - resident
      cold == {step \in ColdSteps : Hand(step) < resident /\ Hand(step) # slot}
      available == spare + Least(Cardinality(cold), ReadAhead - 1)
      bound == Least(ReadAhead, available + 1)
      absent == {n \in 0 .. bound - 1 :
                   \A k \in 1 .. n : page + k \in PageIds /\ lookup[page + k] = None}
  IN  Cardinality(absent)

\* How many pages a read may fetch into the slot it reserved without losing a requested page.
PrefetchLimit(page, slot) ==
  LET spare == (capacity - resident) - (IF slot = resident THEN 1 ELSE 0)
      cold == {step \in ColdSteps : Hand(step) < resident /\ Hand(step) # slot}
      available == spare + Least(Cardinality(cold), ReadAhead - 1)
      bound == Least(ReadAhead, available + 1)
      absent == {n \in 0 .. bound - 1 :
                   \A k \in 1 .. n : page + k \in PageIds /\ lookup[page + k] = None}
  IN  Cardinality(absent)

-----------------------------------------------------------------------------
(* Reads: with_page under CheckpointPolicy::Allow.                         *)

Vacant(kind, page, sequential) ==
  [Call("vacant", page, 0) EXCEPT !.kind = kind, !.sequential = sequential]

Read(page) ==
  /\ call = Idle
  /\ last' = page
  /\ IF lookup[page] # None
     THEN Touch(page, FALSE) /\ UNCHANGED call
     ELSE Reserve(page, Vacant("read", page, last # None /\ last + 1 = page),
                  [Call("pressure", page, 0) EXCEPT !.sequential = last # None /\ last + 1 = page])
  /\ UNCHANGED sizeVars

\* checkpoint_published
AllClean == slots' = [s \in Slots |-> [slots[s] EXCEPT !.dirty = FALSE]]

\* The pressure checkpoint of a read, and the retry of its page.
PressureCheckpoint ==
  /\ call.at = "pressure"
  /\ AllClean
  /\ call' = [call EXCEPT !.at = "retry"]
  /\ UNCHANGED <<sizeVars, resident, lookup, outstanding, clockVars, last>>

Retry ==
  /\ call.at = "retry"
  /\ Reserve(call.page, Vacant("read", call.page, call.sequential), Stuck)
  /\ UNCHANGED <<sizeVars, last>>

\* The demand page arrives with the adjacent snapshots of one read: count is 0 for a page that
\* was never published, and at most the limit.
Load(count) ==
  /\ call.at = "vacant"
  /\ call.kind = "read"
  /\ count <= IF call.sequential THEN PrefetchLimit(call.page, call.slot) ELSE 1
  /\ Install(call.page, call.slot, FALSE, FALSE)
  /\ call' = IF count <= 1 THEN Idle
             ELSE [Call("prefetch", call.page, 0) EXCEPT !.count = count, !.offset = 1,
                     !.todo = {call.page}]
  /\ UNCHANGED <<sizeVars, cursor, last>>

AfterPrefetch(kept) ==
  IF call.offset + 1 = call.count THEN Idle
  ELSE [call EXCEPT !.offset = @ + 1, !.todo = @ \cup kept]

\* MappingCache::prefetch of the next adjacent page.
Prefetch ==
  LET page == call.page + call.offset
      step == CHOOSE k \in ColdSteps : \A other \in ColdSteps : k <= other
  IN  /\ call.at = "prefetch"
      /\ IF lookup[page] # None \/ (resident = capacity /\ ColdSteps = {})
         THEN /\ call' = AfterPrefetch({})
              /\ UNCHANGED <<cacheVars, clockVars>>
         ELSE /\ call' = AfterPrefetch({page})
              /\ IF resident < capacity
                 THEN Install(page, resident, FALSE, TRUE) /\ UNCHANGED cursor
                 ELSE /\ Install(page, Hand(step), FALSE, TRUE)
                      /\ cursor' = Hand(step + 1)
      /\ UNCHANGED <<sizeVars, last>>

\* An adjacent snapshot does not decode: the demand read succeeds without it.
PrefetchInvalid ==
  /\ call.at = "prefetch"
  /\ call' = AfterPrefetch({})
  /\ UNCHANGED <<sizeVars, cacheVars, clockVars, last>>

-----------------------------------------------------------------------------
(* Releasing the write buffer: prepare_release and with_page under Forbid. *)

Dirty == {slots[s].page : s \in {t \in Slots : t < resident /\ slots[t].dirty}}

Releasing(pages) == [Call("release", 0, 0) EXCEPT !.kind = "release", !.todo = pages]

\* The preflight does not count the buffer's own pages (mutant of Release).
ReleaseUnchecked(pages) ==
  LET pressure == Cardinality(Dirty \ pages) >= capacity
  IN  /\ call = Idle
      /\ pages # {} /\ Cardinality(pages) <= BufferBlocks
      /\ call' = Releasing(pages)
      /\ IF pressure THEN AllClean ELSE UNCHANGED slots
      /\ UNCHANGED <<sizeVars, resident, lookup, outstanding, clockVars, last>>

Release(pages) ==
  LET pressure == Cardinality(Dirty \ pages) + Cardinality(pages) > capacity
  IN  /\ call = Idle
      /\ pages # {} /\ Cardinality(pages) <= BufferBlocks
      /\ call' = Releasing(pages)
      /\ IF pressure THEN AllClean ELSE UNCHANGED slots
      /\ UNCHANGED <<sizeVars, resident, lookup, outstanding, clockVars, last>>

\* The next page of the sorted buffer.
ReleasePage(page) ==
  LET later == call.todo \ {page}
  IN  /\ call.at = "release"
      /\ page \in call.todo /\ \A p \in call.todo : page <= p
      /\ last' = None
      /\ IF lookup[page] # None
         THEN /\ Touch(page, TRUE)
              /\ call' = IF later = {} THEN Idle ELSE Releasing(later)
         ELSE Reserve(page, [Vacant("release", page, FALSE) EXCEPT !.todo = later], Stuck)
      /\ UNCHANGED sizeVars

ReleaseLoad ==
  /\ call.at = "vacant"
  /\ call.kind = "release"
  /\ Install(call.page, call.slot, TRUE, FALSE)
  /\ call' = IF call.todo = {} THEN Idle ELSE Releasing(call.todo)
  /\ UNCHANGED <<sizeVars, cursor, last>>

\* A checkpoint by size or by close.
Checkpoint ==
  /\ call = Idle
  /\ AllClean
  /\ UNCHANGED <<sizeVars, resident, lookup, outstanding, clockVars, last, call>>

-----------------------------------------------------------------------------
(* Recovery: every touched page of the window is acquired and updated.     *)

Replay(page) ==
  /\ call.at = "replay"
  /\ page \in call.todo
  /\ IF lookup[page] # None
     THEN Touch(page, TRUE) /\ UNCHANGED call
     ELSE Reserve(page, [call EXCEPT !.at = "vacant", !.page = page], Stuck)
  /\ UNCHANGED <<sizeVars, last>>

ReplayLoad ==
  /\ call.at = "vacant"
  /\ call.kind = "replay"
  /\ Install(call.page, call.slot, TRUE, FALSE)
  /\ call' = [call EXCEPT !.at = "replay", !.page = 0]
  /\ UNCHANGED <<sizeVars, cursor, last>>

\* The window's pages are all replayed.  One window is kept as it is; several are published one
\* after another, each with a cache of its own, and the last one's pages are clean afterwards.
WindowDone(published) ==
  /\ call.at = "replay"
  /\ \A p \in call.todo : lookup[p] # None
  /\ published = (call.offset = 1 \/ call.rest # {})
  /\ IF call.rest # {}
     THEN LET window == NextWindow(call.rest, capacity)
          IN  /\ Fresh(capacity)
              /\ call' = [call EXCEPT !.todo = window, !.rest = @ \ window, !.offset = 1]
     ELSE /\ call' = Idle
          /\ IF published THEN AllClean ELSE UNCHANGED slots
          /\ UNCHANGED <<resident, lookup, outstanding, clockVars>>
  /\ UNCHANGED <<sizeVars, last>>

-----------------------------------------------------------------------------
(* A failed read, write or checkpoint latches the volume; a new open has a *)
(* new cache.                                                              *)

Fail ==
  /\ call.at \in {"vacant", "pressure", "release", "replay"}
  /\ call' = Latched
  /\ UNCHANGED <<sizeVars, cacheVars, clockVars, last>>

Reopen ==
  /\ call \in {Idle, Latched}
  /\ call' = Call("sizing", 0, 0)
  /\ last' = None
  /\ UNCHANGED <<sizeVars, cacheVars, clockVars>>

Init ==
  /\ budget \in Budgets \cup {DefaultBudget}
  /\ search = [low |-> 1, high |-> Upper(budget)]
  /\ capacity = 0
  /\ slots = [s \in {} |-> s]
  /\ resident = 0
  /\ lookup = [p \in PageIds |-> None]
  /\ referenced = {}
  /\ cursor = 0
  /\ last = None
  /\ outstanding = 0
  /\ call = Call("sizing", 0, 0)

Next ==
  \/ SizeStep
  \/ \E touched \in SUBSET PageIds : Open(touched)
  \/ \E p \in PageIds : Read(p)
  \/ PressureCheckpoint
  \/ Retry
  \/ \E count \in 0 .. ReadAhead : Load(count)
  \/ Prefetch
  \/ PrefetchInvalid
  \/ \E pages \in SUBSET PageIds : Release(pages)
  \/ \E p \in PageIds : ReleasePage(p)
  \/ ReleaseLoad
  \/ Checkpoint
  \/ \E p \in PageIds : Replay(p)
  \/ ReplayLoad
  \/ \E published \in BOOLEAN : WindowDone(published)
  \/ Fail
  \/ Reopen

Spec == Init /\ [][Next]_vars
-----------------------------------------------------------------------------
(* The capacity is the largest that fits the budget, and at least one slot: the binary search of
   Sizing::new agrees with trying every capacity, although slots, lookup table, reference bits and
   sort space grow in steps of their own.  The default budget always holds a full write buffer. *)
SizingExact ==
  call.at # "sizing" =>
    /\ capacity \in 1 .. PageTotal
    /\ capacity > 1 => AllocatedBytes(capacity) <= budget
    /\ \A more \in capacity + 1 .. PageTotal : AllocatedBytes(more) > budget
    /\ budget = DefaultBudget => call.at # "refused"

(* The lookup table and the slots in use describe the same pages: no page is in two slots, none is
   lost or left behind by an eviction (the assertions of VacantPage::install). *)
LookupExact ==
  /\ \A s \in Slots : s < resident => lookup[slots[s].page] = s
  /\ \A p \in PageIds :
       lookup[p] # None => lookup[p] \in 0 .. resident - 1 /\ slots[lookup[p]].page = p
  /\ outstanding = Cardinality({s \in Slots : s < resident /\ slots[s].prefetched})

(* Under pressure the cache always finds a slot where the code asserts it does: the preflight of a
   write-buffer release leaves room for every buffered page, a recovery window fits, and a
   pressure checkpoint frees a slot (with_page, Recovery::apply). *)
NeverStuck == call.at # "stuck"

(* Read-ahead keeps its promise: prefetch_limit admits only pages that will each find a slot, and
   storing one never evicts the demand page or an earlier page of the same batch, whatever part of
   the batch fails to decode. *)
BatchIntact ==
  call.at = "prefetch" =>
    /\ \A p \in call.todo : lookup[p] # None
    /\ call.page + call.offset \in PageIds
    /\ lookup[call.page + call.offset] = None
    /\ resident < capacity \/ ColdSteps # {}

(* A dirty page leaves its slot, or becomes clean, only through a checkpoint or with the whole
   cache: eviction and prefetch replace clean pages only. *)
Checkpointing ==
  \/ call.at \in {"pressure", "sizing"}
  \/ call = Idle
  \/ call.at = "replay" /\ call'.at \in {"replay", "idle"}

DirtyKept ==
  [][ \A s \in Slots :
        slots[s].dirty /\ s < resident /\ ~Checkpointing =>
          slots'[s].dirty /\ slots'[s].page = slots[s].page ]_vars

(* The types of the cache's state. *)
TypeOK ==
  /\ budget \in Nat
  /\ search \in [low: Nat, high: Nat]
  /\ capacity \in Nat
  /\ resident \in 0 .. capacity
  /\ slots \in [Slots -> [page: PageIds, dirty: BOOLEAN, prefetched: BOOLEAN]]
  /\ lookup \in [PageIds -> Slots \cup {None}]
  /\ referenced \subseteq Slots
  /\ cursor \in Nat /\ (capacity > 0 => cursor < capacity)
  /\ last \in PageIds \cup {None}
  /\ outstanding \in Int

(* CacheInv is the type invariant together with LookupExact. *)
CacheInv == TypeOK /\ LookupExact
=============================================================================
