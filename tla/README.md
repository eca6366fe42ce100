# A TLA+ model of the block-storage engine

The repository implements a block device in user space. A Rust library
(`src/rust/src`) keeps a volume of 4 KiB logical blocks in one backing file as
an append-only log with a paged, checkpointed mapping ("format 3"); a daemon
serves such a volume as a ublk device; further binaries and tools mount it,
exercise it, and check it. This directory models the engine, its mapping cache,
the io_uring loop and the ledger that accounts for its I/O, the threads of the
daemon, the laboratory that starts, kills, mounts and restarts it, and the
checker that judges devices. It model-checks small instances with TLC, and
proves with TLAPS, for every size: that the engine implements the contract of
the device and recovers what it should as long as no power is lost, its resource
invariants, the mapping cache, the safety of the ledger and of the ring under it,
the daemon's shutdown protocol, that the laboratory leaves nothing of its own
behind, nothing of others touched and no I/O counted twice, and that the checker's
verdicts are exact.

The code is the reference for every definition. The documents that matter are
`src/ADR-03-GOAL-MINIMUM-CREDIBLE-DEVICE.md` (the contract of the device),
`src/ADR-07-PAGED-MAPPING-AND-CACHE.md` (the format and its recovery), and the
tests of `src/rust`.

## Inventory

| Component | State it keeps | Operations | What makes it correct |
|---|---|---|---|
| Volume engine (`format_v3/volume.rs`, `volume/write.rs`, `lib.rs`) | tail, write-back buffer with a page count, failure latch, `live_blocks`, `last_read_page` | open, `read_block`, `write_block`, `flush`, `close` | a read returns the last write; what a flush covered survives a crash; an admitted write can always be released; an error latches the handle |
| Checkpoint publication and selection (`checkpoint_publish.rs`, `checkpoint_load.rs`, `checkpoint.rs`, `index.rs`) | two descriptor slots, two index bodies, the active root and its index | prepare, append snapshots in batches, persist the root, load with fallback | the active root stays loadable at every step; a publication loses no mapping |
| Recovery (`recovery.rs`, `tail.rs`, `clear_stale_tail`) | scan position, touched pages, replay window | scan, single-pass or windowed replay, publication of windows, clearing of the tail | the result is a prefix of the appended records; it ends; it can itself be killed and repeated |
| Space reservation (`reservation.rs`) | none of its own: computed from buffer, dirty pages and tail | `admit`, `ensure_space` | enough for the records and snapshots that admitted work may need, at every later step |
| Mapping state and cache (`mapping_state.rs`, `page_read.rs`, `mapping_cache.rs`, `clock.rs`, `sizing.rs`) | slots, CLOCK hand, dirty bits | resolve, install, prefetch, mark dirty, publish | a dirty page is never evicted; a clean one equals its snapshot |
| Encodings (`format_v3.rs`, `data_record.rs`, `mapping_page.rs`, `geometry.rs`) | none | encode, decode, validate | a torn or foreign block is never accepted |
| Backing I/O (`storage.rs`, `accounted_io.rs`, io_uring in `lib.rs`) | ring of two entries, counters | exact reads, writes, fsyncs | short or failed operations are errors; the kernel holds no buffer of a call that has returned, unless its wait itself failed |
| Accounting ledger (`io_accounting.rs`) | shared-memory counters under a sequence lock, a write limit | reserve, finish, snapshot | a reader never sees torn counts; the limit is never exceeded |
| ublk daemon (`bin/block-storage-ublk.rs`, `bin/ublk_support`) | drain state, request counters | read, write, flush, FUA, stop | requests keep their order; stop waits for engine work and closes the volume |
| Mount helper (`bin/block-storage-mount.rs`, `fs_support`) | none between calls; the mount table and the work directory | format, mount with rollback, unmount | a failed mount leaves nothing mounted, or says so |
| Laboratory, live suites (`block-storage-lab/ublk_fio`, `ext4`, `process.rs`, `ublk.rs`) | the daemon's process group, the recorded device identity, the temporary directory, a command that was not reaped | format, start, run, mount, stop, kill, remove, clean up after a failure | nothing of its own is left after PASS; nothing of others is touched; the image and the daemon outlive their users |
| Laboratory, SQLite matrix (`ext4/sqlite.rs`, `ext4/sqlite`, `request_evidence.rs`) | samples of device and ledger counters, phases, validations, results, the manifest | the hooks of mount, files, stop and finish; record a result; fail fast | every request and backing operation is in one phase; the final ledger is final; the manifest says what the results say |
| Laboratory, other modes (evidence, subprocess suites) | files | run and report | - |
| blockcheck (`tools/blockcheck`) | a few version numbers per LBA, a dirty list, refused writes; a simulated disk with faults | write, discard, flush, read, crash, recover | accepts what the contract allows and nothing else |

The engine is one sequential thread. The daemon calls it from one queue thread,
and a second thread waits for the stop signal; the ledger is the only state
shared between processes. The laboratory is sequential too, but the daemon, the
mount helper, delete commands, the kernel's devices and other users of ublk move
under it, and any of its steps may fail or time out. The hard behaviours of the engine are therefore not
interleavings of threads but the points at which it can be cut off (a kill
or an I/O error between or inside backing operations), long histories that fill
the log or the cache, and the reopening of one volume with different options.

## Modules

- `Layout` - constants, geometry, block kinds, descriptors, options and the
  reservation arithmetic.
- `Volume` - the engine as a state machine, and its properties.
- `BlockDevice` - the abstract contract: contents the client sees, contents a
  crash may leave.
- `MCVolume` - option sets for TLC. The `.cfg` files fix the sizes.
- `MappingCache` - the mapping cache below `Volume`'s abstraction of it: sizing,
  slots, lookup table, CLOCK, read-ahead.
- `IoLedger` - the accounting ledger: one writer after another, one reader.
- `BackingIo` - `IoLedger` composed with the io_uring loop that each accounted
  operation goes through.
- `Daemon` - the threads of the ublk daemon from start to exit.
- `LabWorld` - what the laboratory runs on: kernel devices, the daemon as a
  process, delete commands, another user of ublk.
- `FioLab`, `FsLab` - the fio suite and the filesystem suites; `MountHelper` - the
  helper as a process of its own; `SqliteLab` - the SQLite matrix, on `FsLab`'s
  steps; `Lab` - their composition over `LabWorld`.
- `BlockCheck` - the device checker and its simulated disk.
- `VolumeInvariants`, `LabInvariants` - the invariants that the proofs about `Volume`
  (cache, roots, record chain) and about `Lab` (what it holds and has measured) rest on.
- `VolumeProofs`, `RecoveryProofs` (the engine),
  `MappingCacheProofs`, `BackingIoProofs` (ledger and ring), `DaemonProofs`,
  `LabHoldingProofs`, `LabProofs`, `BlockCheckProofs` - lemmas and theorems.

The modules meet at calls: the daemon sees the outcomes of the engine's calls
(success, refusal, a latched volume), the engine sees a backing operation as
success or error, and `BackingIo` says when it is which. `Lab` composes five
processes over shared state; its daemon is the process that `Daemon` looks into,
seen from outside. Engine, daemon and ring are not one state machine.

### State of the engine

| Variable | Code |
|---|---|
| `desc`, `body`, `log` | descriptor blocks 0 and 1, the two index bodies, the log blocks of the backing file |
| `stable` | the backing file as of the last fsync; only kept when `PowerLossOn` |
| `pc`, `op` | where the running call is, and which call it is |
| `opts` | `VolumeOpenOptions`: cache slots, buffer blocks, `checkpoint_after_bytes`, all in blocks |
| `ckpt`, `cand`, `pend` | the active `Checkpoint`; the root a publication builds; pages not appended yet |
| `tail` | `LogPosition` of the last record |
| `resident`, `dirty`, `cached` | the mapping cache |
| `buffered`, `buffer`, `bufPages`, `todo` | `WriteBackBuffer`, `buffered_pages`, and the part of a release still to append |
| `lastRead`, `want` | `last_read_page`; the page a read waits for while it publishes |
| `live` | `live_blocks` |
| `marked`, `window`, `cursor` | `Recovery`: touched pages, the replay window, the position |
| `newest`, `media`, `unsettled`, `stranded`, `faults`, `lastOpen` | history variables for the properties and bounds |

### Actions of the engine

An action is a public call up to its first backing write or fsync, or one such
operation with the in-memory work that follows it.

| Actions | Code |
|---|---|
| `Open`, `ScanRecord`, `ScanEnd`, `ReplayRecord`, `ReplayEnd`, `ClearBlock`, `ClearEnds`, `ClearSync` | `volume::open`, `recovery::recover`, `clear_stale_tail` |
| `Overwrite`, `Write`, `WriteRecord` | `write_block`, `release_records`, `write_record` |
| `Read`, `Fetch` | `read_block` with `MappingState::with_page` and `PageRead` |
| `Flush`, `FlushSync`, `Close`, `ClosePublish`, `Closed` | `flush`, `close` |
| `Prepare`, `AppendBatch`, `AppendDone`, `SyncLog`, `WriteBody`, `SyncBody`, `WriteDescriptor`, `SyncDescriptor` | `checkpoint_publish` |
| `Kill`, `IoError`, `Drop`, `PowerLoss` | the environment; `IoError` includes `latch` |

`Interrupted` says what a write that is cut off leaves: a prefix of the payloads
of a record, a prefix of a snapshot batch, a torn index body, a torn descriptor
(which `checkpoint_load` skips as invalid), or nothing. That it is a prefix, for
a kill and for an I/O error, is an assumption about the file system; `PowerLoss`
does not make it.

### The ledger

The epoch is odd while the writer is inside a section of stores; the flags word
is two fields. Each atomic access is a step. All are `SeqCst`, so interleaving
them is exact.

| Actions | Code |
|---|---|
| `OpenWriter`, `CloseWriter`, `Kill` | `Writer::open` with its lease and the test for a clean ledger; the end of the lease |
| `Begin`, then `Enter`, `Store`, `Leave` | `Writer::begin`: the checks, then the section of its stores (`Section` gives the values and their order) |
| `Submit`, `Finish`, `Fail` | `accounted_io::submit_exact`, `PendingOperation::finish`, `record_failure`, `Drop` |
| `StartSnapshot`, `LoadEpoch`, `Load`, `Check` | `stable_snapshot` |

`issued` is a history variable: the bytes of all writes handed to the kernel.
Counters and epoch are numbers up to `MaxU64`, which the code meets with
`checked_add`; a begin that finds no room is refused and changes nothing.

### The ring

`BackingIo` adds to the ledger the ring (`sq`, `inflight`, `cq`), the entries that
closed rings left with the kernel (`lost`), the locals of the call that waits
(`user_data`, `submitted`, `unexpected`) and a history variable: `written`, the bytes of all writes that the kernel completed in full.

| Actions | Code |
|---|---|
| `Push` | `submit_exact_raw`: the entry is queued, or the ring is gone or full |
| `SubmitAndWait`, `WaitFails` | one `submit_and_wait(1)`: it consumes any number of entries, returns early, or fails |
| `Reap`, with `Decide` | the rest of a round of `wait_exact_with`: no completion, somebody else's, or this call's with its result |
| `Complete`, `CompleteLost` | the kernel completes an entry, in full or otherwise; of a closed ring, unseen |
| `OpenIo`, `EndIo` | `BackingIo::new`; its drop, or the death of the process |
| `RejectUnclassified`, `LedgerStep`, `Reading` | `reject_unclassified`; the steps of `IoLedger` that do not touch the ring |

Completion flags are left out (these opcodes have none). Dropping the ring
(`DropRing`) empties its queues but does not wait for the entries the kernel has
consumed: they stay in `lost`, with the buffers they point to, until the kernel is
done with them, and whether they take effect is left open. Their operation counts
as failed and the ledger as incomplete (`LostInv`).

### The mapping cache

A page is its id; `Volume` says what its entries hold. `slots`, `resident`,
`lookup`, `referenced` and `cursor` are the fields of `MappingCache` and `Clock`;
`call` is the caller's progress between `acquire` and `install`.

| Actions | Code |
|---|---|
| `SizeStep`, `Open`, `Reopen` | the binary search of `Sizing::new`, with the real sizes of slots, hash table, bits and sort space; `validate_buffer_mapping_capacity` |
| `Read`, `Load`, `Prefetch`, `PrefetchInvalid`, `PressureCheckpoint`, `Retry` | `MappingState::with_page` for a read, `PageRead` |
| `Release`, `ReleasePage`, `ReleaseLoad` | `prepare_release` and the pages of a release, with checkpoints forbidden |
| `Checkpoint`, `Replay`, `ReplayLoad`, `WindowDone` | `checkpoint_published`; recovery's windows |
| `Fail` | an error at any point latches the volume |

`Touch`, `Reserve`, `Install`, `VictimStep` and `ColdSteps` are `resolve`,
`VacantPage::install`, `Clock::victim` and `cold_candidates`.

### The laboratory

`LabWorld` keeps `devices` (per id: owner, identity, and which of its paths
exist), `daemon`, `reap` (where `ManagedChild::cleanup` is), `deletion` and `stray`
(delete commands running, and those that were given up on and may still run),
`second` (the daemon that the lock proof starts on the same image), and
the files `dir` and `image`. `fio` and `fs` are the suites: their place in the
script and the fields of `Resources` and of `Lab`.

| Actions | Code |
|---|---|
| `DaemonAdds`, `DaemonServes`, `DaemonStops`, `DaemonParks`, `DaemonDies`, `KernelStops`, `OtherAdds`, `OtherDeletes` | daemon, kernel and another user, at any time |
| `SecondRefused`, `SecondAdds`, `SecondServes`, `SecondStops`, `SecondEnds` | the second daemon: refused by the first one's lock, or serving the image once the first is dead |
| `BeginCleanup`, `CleanupKill`, `CleanupReaps`, `CleanupFails` | `ManagedChild::cleanup` |
| `FioSetup` ... `FioClear` | `run_all`: format, start and readiness, fio, the backing-lock proof, stop, kill, handshake, remove, clear |
| `FioError`, `CleanChild` ... `CleanFiles` | an early return, and `cleanup_error_with`, step by step |
| `HelperFormats`, `HelperMounts`, `HelperPrepares`, `HelperChowns`, `HelperRollsBack`, `HelperUnmounts`, `HelperEnds` | the mount helper between its system calls |
| `FsFormat` ... `FsFinish` | the 17 `STEPS` of a filesystem repetition, and `finish` as the last |
| `FsError`, `FsRecover` ... `FsRecoverDevice`, `FsDrop` | `recover_error`, then `Drop for Lab` |
| `Served`, `KernelCounts`, `BackingOperation` | the daemon counts a request and then completes it; it works on the image, also while it shuts down |
| `SqliteNew` ... `SqliteVerified` | a selection: ledger, preflight, `sqlite_mounted`, `sqlite_populate` with the samples around the drain, `sqlite_verify` |
| `SqliteStop`, `SqliteGone`, `SqliteFinish` | `sqlite_stopping`, the daemon's report, `sqlite_finalize_ledger` |
| `SqliteResult`, `SqliteSummary`, `SqliteFailed`, `SqliteTimeout` | results, `SuiteIndex`, `record_failed_case` |

`sql` holds the fields of the SQLite `State`, `io` the counters it samples, `index`
the manifest and the results. An `IoPoint` has nine counters and the model two, one
of the device and one of the ledger; of the phases it keeps the sum, to which the
gap before each validation is added as an observer.

`Script` and `STEPS` are data, as in the code; the scenarios run in any order
rather than in the fixed order of the suite. `Classify` is `still_matches`: any of
its reads may fail, so `Ambiguous` is always among the answers. A `delete` command
acts on an id, whoever owns it by then; that is what the identity checks have to
make safe.

Any command may survive its cleanup. A delete command then runs later (`stray`), a
mount helper may still mount, a format command may still write to the ledger
(`FormatLeft`), and the second daemon of the lock proof may serve the image;
the other commands (mkfs, fsck, the file tools) have no later effect in the model.

Assumed: nobody else deletes the lab's device; another user of ublk is left out of
the SQLite suite (he is there in the filesystem suite, whose steps it takes); the
repeated cleanup of a later `Drop` only repeats signals; a surviving format command
has created the image by the time the suite gives up on it, or never does. Mount ids
are left out: two mounts are told apart by who made them. The identity of a class
directory is its device's owner and one bit: sysfs gives out inode numbers
cyclically, so a number does not come back within a run, and a reused one could not
be told apart by the code either.

### blockcheck

`lbas`, `dirty` and `rejected` are the checker's fields; `durable`, `cached`,
`pending` and `first` are the vectors of `MemoryTarget`, `active` its fault in force.
Two observers keep what the checker does not: `hist`, every request of each LBA
with its result, and `flushed`, how many of them the last flush followed. A block
is an LBA and a version; the pseudo-random choices of `crash` and of the fault plan
are nondeterministic. Flush and read of `MemoryTarget` do not fail.

| Actions | Code |
|---|---|
| `Write`, `Discard`, `DiscardOverflow`, `Flush`, `Read` | the calls of `Checker`, with the target's step and its outcome |
| `Crash`, `Recover`, `VerifyAfterCrash`, `Repair`, `RepairOverflow`, `SkipRepair`, `FinishRecovery` | `MemoryTarget::crash`; `Checker::recover` LBA by LBA, first all verifications and then all repairs; an error ends the run |
| `Arm` | the planned fault is reached |

### The daemon

| Variable | Code |
|---|---|
| `phase`, `failed`, `ready`, `done`, `sigterm` | `DrainState` and `SIGTERM_REQUESTED` |
| `dev` | the kernel's device: added, live, dead |
| `vol`, `unsafe` | the volume as its calls left it; whether an acknowledged write is not durable |
| `qpc`, `req`, `held`, `reply`, `qerr`, `result` | the queue thread: request, `InFlightRequest`, completion, `queue_error`, `QueueState::result` |
| `spc`, `stopErr` | the stop thread and the result of `stop_device` |
| `mpc`, `errors` | the main thread; whether a result that it combines is an error |

| Actions | Code |
|---|---|
| `QueueStart`, `Fetch`, `QueueEnds`, `QueueCloses` | `run_queue`, `close_after_queue` |
| `BeginWork`, `CheckStop`, `Engine`, `Complete`, `DropGuard` | one request: `begin_engine_work` (exchange, then the look at the flags), `handle_queue_request`, `complete_fetched_request`, the guard's drop |
| `StopIfIdle`, `StopReady`, `StopDone`, `StopKill` | `wait_for_stop`, `stop_device` |
| `StartDevice`, `Ready`, `ReadyFailed`, `TargetDone`, `Join`, `Shutdown`, `Exit` | `serve` |
| `Sigterm`, `Delete` | the signal handler; another process deletes the device |

A round of the stop thread's loop that finds nothing to do is a stutter. The
reasons to stop are never withdrawn, so loading them and exchanging the phase is
one step; so is the store of `qerr` and `failed` with the call that caused it.
`Outcomes` lists what a request may come to. An ENOSPC leaves the volume open when
admission refused the write and latched when it came from the ledger's limit or
the file system; the daemon cannot tell them apart.

### What is abstract

- A payload is a member of `Values`. Checksums are injective: `Checksum` is the
  tuple of what it covers (logical address, physical address, bytes). The volume
  id is fixed, and a payload is never mistaken for metadata.
- Sizes are counted in blocks. Field widths are not modelled: the limits of the
  format lie far below them.
- In `Volume` the page that CLOCK evicts is any clean page, and read-ahead
  installs any of the pages it may (`Keeps`). `MappingCache` models what really
  chooses; `DirtyKept` and `BatchIntact` are the two facts `Keeps` relies on.
- A killed process loses no write it completed. Losing unsynced blocks is a
  separate step that one run enables.
- The log only holds what this engine writes, so rejection of foreign records
  is not exercised.
- In the daemon a request is its kind; the kernel and libublk are external: they
  deliver requests to a live device and end the queue's loop with it. Poisoned
  locks and panics are left out, and one rejected kind stands for all requests
  that `decode_request` refuses.

## Runs

| Run | Instance | Checks |
|---|---|---|
| `kill_pages` | 3 LBAs, 2 entries per page, 2 payloads per record, 12 backing blocks, batch 1, one fault; options `SmallAndLarge` | `Inductive` (`ReservedSlots` is part of it), `CacheCoherent`, `CleanTail`, `RefinesDevice` |
| `kill_windows` | 3 LBAs, 1 entry per page, 1 payload per record, 12 backing blocks, batch 2, two faults; options `SmallAndLarge`, under `FairSpec` | `ReservedSpace`, `AssertionsHold`, `LiveExact`, `RootIntact`, `RecoveredPrefix`, `AppendOnly`, `RefinesDevice`, `CallsFinish` |
| `power_loss` | 2 LBAs, 1 entry per page, 1 payload per record, 10 backing blocks, batch 2, two faults; options `MidAndSmall`; power loss on | `RootIntact`, `RecoveredQuiet` |
| `recovery_space` | as `kill_pages` | `RecoveryHasSpace`, violated |
| `tail_bound` | as `kill_pages`, options `ShortTail` | `TailBounded`, violated |
| `ledger` | `BackingIo`: limit 7, lengths 3 and 5, integers up to 8, two attempts, one block number, two ring entries, under `IoFairSpec` | `LedgerInv`, `SnapshotCoherent`, `NeverInvalid`, `BudgetHolds`, `NoOverflow`, `BackingIoInv`, `AccountedExact`, `SnapshotEnds` |
| `ring_dropped` | as `ledger`, without fairness | `BuffersOutliveUse`, violated |
| `mapping_cache` | 5 pages, a buffer of 2 blocks, budgets for 1, 2 and 3 slots and the default one, read-ahead of 4, a cold window of 2 | `CacheInv`, `SizingExact`, `NeverStuck`, `BatchIntact`, `DirtyKept` |
| `lab` | 3 device ids, 2 repetitions of each suite, in a SQLite case 2 requests and 2 backing operations | `LabInv`, `PassIsClean`, `ForeignUntouched`, `MeasuredOnce`, `MountKeepsDaemon` |
| `blockcheck` | 2 LBAs, 3 versions, 1 refused write, requests up to 3 versions, all seven faults | `CheckerInv`, `VerdictExact`, `NoFalseAlarm` |
| `shutdown` | no bound: finitely many states, under `FairSpec` | `DaemonInv`, `StopDrains`, `ExitHonest`, `StopFinal`, `StopEnds` |
| `stop_failure` | as `shutdown` | `TermHonoured`, violated |

Why the bounds are enough for what they are meant to show:

- Three LBAs give two pages with a short last one (`kill_pages`) or three pages
  (`kill_windows`); with a one-slot cache the latter forces a checkpoint on a
  read, on a release, and a recovery of several windows, and with a three-slot
  cache and buffer a release of several records.
- The log of seven or eight blocks fills up, so every comparison of
  `ensure_space` is met at equality, and refused.
- A batch of one splits a publication into several writes, a batch of two makes
  a batch with a torn middle. Read-ahead of adjacent snapshots happens in both.
- `kill_windows` allows two faults, so that the recovery from a crash can crash.
- In `ledger` the lengths fit the limit once but not together, so a write is
  refused; four sections reach the end of the integer range, where both an epoch
  and a total overflow; two attempts let a snapshot fail once and succeed, or
  give up.
- In the ring every call uses the same block number, the case in which a completion
  left behind could be taken for the next call's (the proofs are for any numbers);
  two entries are what the code asks for.
- In `mapping_cache` the capacities reach from one slot to three, below the five
  pages, so that slots fill, the hand goes round, a release is refused space by
  dirty pages, and a batch of read-ahead is longer than what may be evicted. One
  budget fits a capacity exactly, and another is one byte less.
- In `lab` three ids hold the lab's device, one it left behind and somebody
  else's; two repetitions let a device or a directory of the first meet the second
  (the code runs 21 and 3). The device's identity is one bit that flips with
  each device: a record is only ever compared with the device after it. Two
  requests of a SQLite case fall on the same device or on both, before or after any
  sample; one backing operation is the format's, the other comes at any time up to
  the daemon's exit.
- In `blockcheck` two LBAs are enough for a misdirected write to land on the
  other one; three versions hold a flushed request, an acknowledged and an
  uncertain one after it, in any order, and reach the end of the version range.
- Reopening chooses among the options at each open, so a small cache meets a
  tail that a large one left.

`RefinesDevice` is the implementation relation: with `cur` mapped to the
contents a client would read (buffer, then mapping, then payload, `Corrupt` on a
checksum mismatch) every step of the engine is a step of `BlockDevice` or a
stutter. It contains: reads never return anything but the last write; a flush
or close makes the contents the only ones a crash may leave; an open shows one
of the contents a crash may leave; a latched handle shows nothing.

The power-loss run asks less, because ADR-03 (line 55) places power loss out of
scope: publication's fsync order still leaves a loadable root, and blocks that
were flushed and not written since keep their values. Its step takes any number of
unsynced blocks, and each log block, index body and descriptor is kept, lost or torn
on its own. A torn block is garbage; a torn mapping page may still look like one, on
which the scan fails closed. The log has six blocks and a record two, so three
unsynced records, or records and a publication, are there to lose: more than the
window that the next open clears.

`RecoveredQuiet` has one exception, `stranded`: the LBAs of records that the last
open left beyond the blocks it cleared. There the code does bring old contents back.
`clear_stale_tail` (`lib.rs:391`) clears one record's worth of blocks after the
recovered tail, "so stale records cannot reappear" (ADR-01:262). If power loss drops
the first of two unsynced records and keeps the second, the second lies beyond that
window; once a new record ends where the first one ended, the next recovery, after a
mere kill, takes the old second record for its successor, and a block that was
recovered before and not written since shows its contents. TLC finds this trace in the
same instance when the exception is dropped. For killed processes alone the sentence
holds (`CleanTail`, proved); ADR-01:312 and ADR-03:55 leave power loss out of the crash
model, so this is recorded here as a limit and not as a finding.

With no fsync at all both properties of the run fail, and without the fsync of `flush`
or of `clear_stale_tail` flushed data is lost. The fsync after the index body, or the
one after the descriptor, can go without violating either property in this instance,
and without the one after the snapshots no violation showed up in as much of the state
space as was explored: snapshots, body and descriptor are all validated when a root is
selected, and the older root is still whole, so what has to be durable is the previous
root before its other slot is overwritten, and the next fsync sees to that.

`BuffersReturned` (in `BackingIoInv`) speaks of rings still in use: however often a
wait is interrupted or comes back empty, a call returns with nothing of its own in a
queue or with the kernel. A wait that fails drops the ring, and the call returns
although the kernel may have its entry; `BuffersOutliveUse`, without that exception,
is refuted by `ring_dropped` (finding 4). `AccountedExact` holds all the same: no
later call uses a ring, and no writer opens that ledger again.

`VerdictExact` is a reference definition: from the whole history of an LBA it
derives the contents a device may show before and after a crash, and says that
the checker, which has forgotten the history, accepts exactly those. Together
with `NoFalseAlarm` this covers both ways a checker can be wrong: a device is
accused although it is correct, or a wrong content is accepted.

`ForeignUntouched` has an exception: a delete command that the lab gave up on may
run later, when its id belongs to somebody else. The lab reports such a command
and cannot do more. `ImageOutlivesUse` (in `LabInv`) speaks of devices the lab
recorded and of the daemon it holds; a daemon that adds its device and dies before
it is ready leaves one that the lab never learns of, and nothing uses the image then.
The second daemon of the lock proof is not covered: if it survives the cleanup in
`run_command_separate` nobody holds it any more, the suite has failed, and
`cleanup_error_with` removes the image that it may be serving. `PassIsClean` includes
it: a suite that passes has left no second daemon and no device of one.

`MeasuredOnce` is a balance: what the phases say, together with the gaps before the
two validations, is never more than what the daemons did, and in a case that passes
it is all of it. A case that failed because its format command was not reaped is
given a final ledger that this command may still change; no daemon can. The last sample of a device is taken while requests may still
complete; the balance holds because the daemon's own report replaces it. The
manifest says `pass` before the summary is written, so a suite can still fail then;
`PassIsClean` covers both.

**Fairness.** `FairSpec` adds `WF_vars(Engine)`: a call that has begun goes on.
The engine is a plain sequential thread whose waits are for io_uring
completions, and an operation that never completes is the only way it could
stop. Nothing is assumed of clients, faults or reopenings. Deadlock is checked
in these runs; a volume that is down can always be opened (or the open fails). It
is not checked in `mapping_cache`, `lab` and `blockcheck`, which end where the code
does: a refused open, a suite that has passed or failed, a version range used up.
In the ledger and the ring only the reader is fair: the writer may stop or die anywhere, and
`SnapshotEnds` holds because the attempts are bounded. In the daemon each thread
is weakly fair, which is what a scheduler gives, and the calls of the engine
return (`CallsFinish`). `StopIfIdle` is strongly fair: requests keep coming and
one could be in flight each time the stop thread looks, but a thread that looks
every millisecond is not in step with them for ever, and once a reason to stop
is set a request only takes the guard to be rejected. With weak fairness alone
`StopEnds` fails by exactly that starvation.

**Mutations.** For each property a definition next to the original (commented as
its mutation or mutant) is a plausible bug - a dropped guard, an off-by-one, a missing
fsync, an eviction of a dirty page - under which TLC refutes the property.

## Findings

1. `recovery_space`. Admission reserves the snapshots of dirty pages, and a
   publication may use that reservation up. If it is killed after its snapshots
   and before its root, the snapshots are part of the tail, and `recover`
   (`recovery.rs:66`) asks for the space again. On a nearly full log every later
   open then fails with ENOSPC, with any cache size, although every flushed
   write is in the log. ADR-03:36 promises that flushed writes are visible after
   a crash and ADR-07:291 that "A crash before final publication must still
   recover through the original checkpoint and tail". ADR-07 allows an explicit
   failure for lack of space but does not say that a crash can create it.
2. `tail_bound`. `checkpoint_after_bytes` is documented at `lib.rs:229` as
   "Maximum physical log bytes retained after the selected checkpoint."; the same
   orphaned snapshots make the recovered tail longer than that.

3. `stop_failure`. ADR-03:59 requires SIGTERM to end in "stop accepting work,
   drain requests, close the volume and remove the device". `wait_for_stop` tries
   `stop_device` once (`block-storage-ublk.rs:869`). If the control command fails,
   the stop thread is gone, requests are answered ESHUTDOWN for ever, another
   SIGTERM changes nothing, and `serve` stays in `run_target`. `StopEnds` says that
   nothing else prevents the exit.

4. `ring_dropped`. The safety comment at `lib.rs:426` says that "each caller keeps
   operation buffers and the file alive until this waits for the CQE." If
   `submit_and_wait` fails in a round after the one that handed the entry over, with
   anything but EINTR, `wait_exact_with` drops the ring and returns (`lib.rs:466`)
   without the completion. Closing a ring does not wait for it, so the caller may free
   its buffers while the kernel works on them.

## Proofs

`VolumeProofs` begins with the arithmetic of `Layout`: `RecordBlocks` after one
record (`RecordBlocksStep`), ranks within finite sets, sizes of `PagesOf`, the types
of the geometry. It then proves, for every value of the constants that the
assumptions allow:

| Theorem | States |
|---|---|
| `InductiveHolds` | `Spec => []Inductive` |
| `TypeCorrect` | `Spec => []TypeOK` |
| `SpaceReserved` | `Spec => []ReservedSpace`: admitted work never meets ENOSPC |
| `SlotsReserved` | `Spec => []ReservedSlots`: a release finds a slot for each page, `buffered_pages` is exact |
| `NoPanic` | `Spec => []AssertionsHold`: the assertions on record space and mapping slots hold |
| `LogAppendOnly` | without power loss, `Spec => AppendOnly` |

Assumptions: `GeometryAssumption` (positive sizes, a log of at least three
blocks after at least four blocks of metadata), `ValuesAssumption`,
`EnvironmentAssumption`. No bound on faults, log or volume is used.

**The argument.** `ReservedSpace` is not inductive alone. What is owed depends on
where the call is (`Owed`): at rest it is the reservation for buffer and dirty
pages; in a release, the records left plus one snapshot for each page dirty now
or after it; in a publication, the pages left plus the reservation for the
buffer with no dirty page; in recovery, the touched pages. `ControlInv` ties
these together: a release under way still has its whole buffer, the buffer is
within its limit, dirty pages of a replay lie in the window and the window in
the touched pages. `ReservedSlots` is needed because `Owed` counts `bufPages`
while the release counts the pages themselves. `SnapshotsInPlace` keeps pointers
in the log and orders the boundaries of active root, tail and candidate, without
which decoding an entry through the index would not be typed. `AssertionsHold`
follows from the space and slot parts at `WriteRecord`. The invariant
`Inductive` is their conjunction with `TypeOK`; `kill_pages` checks it first.
There is one lemma per action, combined in `NextStep`; the temporal theorems
follow by PTL.

**Cache, recovery and the contract.** Three layers build on `Inductive`; their
invariants are in `VolumeInvariants`.

| Theorem | States |
|---|---|
| `CacheIsCoherent`, `LiveBlocksExact` (`VolumeProofs`) | `Spec => []CacheCoherent`, `Spec => []LiveExact`, power loss included |
| `RootsIntact` (`RecoveryProofs`) | without power loss, `Spec => []RootIntact` |
| `TailIsClean` | without power loss, `Spec => []CleanTail` |
| `PrefixRecovered`, `NewestRecovered` | without power loss, `Spec => []RecoveredPrefix`; and recovery rebuilds the newest contents exactly |
| `EngineRefinesDevice` | without power loss, `Spec => RefinesDevice` |

"Without power loss" is the hypothesis `PowerLossOn = FALSE`, under which kills and
I/O errors still happen at and inside every backing operation, any number of
times. It is the contract's own limit (ADR-03:55), and with power loss these
statements are false.

- `CacheInductive`. A clean page equals its snapshot only if a publication knows
  which pages are still to be appended (`PendInv`, `CandCoherent`), because the
  pages become clean in one step at its end. `LiveInv` counts through the candidate
  while windowed recovery holds earlier windows there and nowhere else.
- `RootInv`. The newest root on the disk (`DiskRoot`) is the active one until the
  candidate's descriptor is written, also if the write of that descriptor was torn
  (`NoDescriptor` in the other slot); the candidate is in the other slot, one
  generation later, and all it names decodes. Every snapshot and record in the log
  names its own place and points backwards (`LogValid`), so an index that decodes
  is typed.
- `ChainInv`. The records after the newest root form a chain to `End`: there are
  functions `f` (the boundary of each LSN) and `g` (the mapping after it) with
  `Chain`, replaying to the newest contents (`Leads`), followed by at most the
  payloads of a record without a footer (`Residue`). The witnesses stand for an
  induction over the log, which the provers cannot do: a release extends them by
  one record, a publication restarts them, a scan and a replay walk along them
  (`Scanning`, `ReplayInv`, `WindowInv`), and an interrupted write leaves them alone.
- The refinement. `DeviceInit` and one lemma per action show that each step is a
  step of `BlockDevice` under the mapping of `RefinesDevice` or a stutter; for the
  buffer `BufferInv` is needed (a release under way appends from a buffer whose
  contents the client already sees).

**The ledger.** `BackingIoProofs` first proves `LedgerInvariant` (`Spec => []LedgerInv`)
and from it `SnapshotsCoherent`, `SnapshotsValid`, `BudgetKept`, `CleanIsExact`
and `CountersFit`, from `LedgerAssumption` alone (a limit within the integer
range, lengths of at least one). The properties speak of quiet states and say
nothing inside a section; the strengthening is `WriterInv`: the values a section
leads to are sound, all fields not still to be stored have them already, and
`Admitted` and `Submitted` relate the counters to `issued` before and after the
submission. `EpochInv` keeps room for the epochs to come. `ReaderInv` says that
what has been loaded is current as long as the epoch has not moved, which holds
because every store happens at an odd epoch that the reader did not start from.

**The ring.** It then proves `IoImplementsLedger` (`IoSpec => Spec`: each
step of ring and ledger is a step of the ledger or a stutter), so all of the
above holds of the composition. `BuffersComeBack` (`IoSpec => []BackingIoInv`) needs
to know more than that the queues of a ring in use are empty between calls: `LostInv`
says that a ledger whose entry was lost with its ring is marked incomplete, so that no
ring is opened over it; `EntryInv` says that
the one entry of a waiting call is in exactly one place (queued, with the kernel,
complete) and that `submitted` tells which; with that no completion can be
somebody else's, and no call returns before its own. `WrittenInv` relates the
totals to `written` at each point of a section; from it and `LedgerInv` follows
`AccountingExact`: an open ledger never overstates what was written, and a clean
one states it exactly. Beyond `LedgerAssumption` the proofs use `RingAssumption`:
block numbers are positive (0 marks that no call waits) and the ring has an entry.

**The daemon.** `DaemonProofs` proves `DaemonInvariant` (`Spec => []DaemonInv`)
and from it `DrainedStop`, `FinalStop` and `HonestExit`. `GuardInv` ties the
guard to the phase, which is what makes the blind store of `InFlightRequest::drop`
right; `OwnerInv` follows the volume from main to the queue and its result back.

**The mapping cache.** `MappingCacheProofs` proves `LookupStaysExact` (`CacheInv`),
`NeverStuckHolds`, `BatchStaysIntact`, `SizingStaysExact` and `DirtyPagesKept` for
every number of pages and slots, budget, read-ahead and cold window, from
`CacheAssumption` and `TableAssumption`. The latter says that hashbrown's tables are
numbers and that a smallest one exists for each reserve; it is a fact about powers of
two that would need an induction, and TLC evaluates it. The invariant is
`CacheInductive` of that module:

- `VacantInv`: between `acquire` and `install` the reserved slot is the next unused
  one or clean, and its page is still absent. `DirtyKept` and the exact lookup table
  follow from it action by action.
- `RoomInv`: in a release or a replay window, the pages that are dirty and those
  still to come fit in the slots together. The preflight establishes it; with it a
  page that is not resident leaves some slot clean, and two rounds of the hand reach
  that slot (`VictimExists`), so nothing gets stuck.
- `BatchInv`: what is left of a batch fits into unused slots and `Takeable` ones
  (cold, in use, not of the batch). Counting is not enough: the first cold slot must
  not be one of the batch. `BatchLast` says that the hand meets no takeable slot
  after a slot of the batch; storing over the first cold slot moves the hand past it
  and renumbers the steps (`HandTurns`), which keeps the order and loses at most one
  takeable slot. Slots left unused are filled with the hand at rest (`CursorInv`).
- `SearchExact`: the search brackets the largest capacity that fits, because every
  part of the allocation grows with the slots (`AllocatedGrows`).

**The checker.** `BlockCheckProofs` proves `DirtyListStaysExact` (`CheckerInv`),
`VerdictsExact` and `CorrectTargetNotAccused` (`NoFalseAlarm`) from
`BlockCheckAssumption`, for every number of blocks, versions, refused writes and
requests and any set of faults. `MaxRequests` bounds the driver and no proof uses it.

- `Tracks` says what one `LbaState` has to do with the history of its LBA: `latest`
  and `durable` are the last acknowledged requests up to now and up to the flush,
  `last_zero` the last acknowledged zero request, the uncertain fields the only
  requests of unknown outcome, and the rejected set holds exactly the payloads that
  were refused or uncertain at a crash. Both verdicts then follow by cases on what
  was found (`LiveExactFor`, `CrashExactFor`), without the disk.
- `DirtyExact`: `latest = durable` is the test for a first acknowledgement after the
  flush (`DirtyIs`), so an LBA is listed once and a flush that skips the LBAs that
  are not listed still tracks.
- `MediumInv` speaks of the disk and holds as long as the fault has not occurred.
  What a read shows is a live content, and what is durable one that a crash may
  leave, except while a recovery runs: verifying an LBA narrows what may be there
  before the repair has rewritten it. `Faithful` and `Current` say which of the two
  holds of which LBA at each point of the recovery.

A run that ends early (`incomplete`) leaves the checker with a state that no longer
tracks, and all of this stops there, as in the code; `NoFalseAlarm` still holds.

**The laboratory.** `LabProofs` proves `LabTypeAndImage` (`LabInv`),
`LabSparesForeignDevices` (`ForeignUntouched`), `LabKeepsDaemonMounted` (the action
property `MountKeepsDaemon`), `LabPassesClean` (`PassIsClean`) and `LabMeasuresOnce`
(`MeasuredOnce`), for any set of device ids, any number of repetitions and any amount
of I/O, from `IdsAssumption` (ids are numbers, and there is one), `FioRoundsAssumption`,
`FsRoundsAssumption` and `MaxIoAssumption`. None of the properties is inductive: each
speaks of what is left at the end, and the steps that could break it rely on what
earlier ones have established. `IInv` (in `LabInvariants`) has six parts, kept by every
step together; `LabHoldingProofs` shows it for the first four, `LabProofs` for the others:

- `Types`, with the facts that a record type cannot say: a daemon that reported ready
  has a device, a recorded device has an id, a suite that is off is untouched.
- `Holding` ties each place of a suite to the world. Between the operations of a
  fio script the suite holds nothing, a running daemon with its device, or a device
  whose daemon is reaped, and the operation at hand says which (`FioPlaced`); that
  each operation leaves what the next one needs is a fact about the scripts
  (`ScriptFollows`: which operation may follow which in `Script`, for every scenario).
  `FsPlaced` does the same with the numbers of the 17 steps and the finish, and says what
  `recover_error` may still find; `HelperPlaced` that a helper runs only where a
  suite waits for it or has given it up, and that the daemon is terminated with
  nothing mounted. What daemon, kernel and other users do meanwhile only lets go of
  things (`Settles`), so the suites' knowledge survives it. `SecondInv` says where the
  second daemon and its device may be: only during the lock proof or after a failed
  one, and no device before it has passed the lock. `ImageOutlivesUse` and
  `MountKeepsDaemon` follow.
- `ForeignInv`: as long as no delete command got away, the recorded device, the one
  being deleted and the one of an unsignalled daemon are the lab's. Identity checks
  make this true; that no id changes hands between a check and its command needs
  `DeletionAlone` (the daemon is gone by then, and nobody else deletes the lab's
  device).
- `PassInv`: the index counts the selections that passed, and nothing is left at the
  result, the summary and the end of the last repetition.
- `SqlInv` follows the samples of a SQLite case. At every step of the lifecycle the
  phases add up to the I/O before a named point (`SqlPoints`): the point before the
  running tool, or the last one taken. Between the two devices they stop at the
  origin of the restart gap, and the first device's count is what the daemon reported
  (`SqlRestart`); at the end the daemon's report replaces the kernel's count, which
  lags behind it (`SqlStops`). `MeasuredOnce` follows, also for a case that fails at
  any point and is given its final phase by `record_failed_case`.

**Only model-checked**: `RecoveredQuiet` and what `power_loss` says of `RootIntact`
(their step chooses which of the unsynced blocks survive; the invariant would have to
describe the log as of the last fsync as well), and the liveness properties
`CallsFinish`, `SnapshotEnds`, `StopEnds`, which are out of the prover's reach.

## Not modelled

- The byte layout of the encodings and their field widths.
- Statistics and logging, which nothing reads back, and the daemon's table of
  operation flags.
- Of the ledger, the creation of its file and the checks of its header, owner and
  mode; of the daemon, its command line, the backing lock and the arithmetic of
  `decode_request`; of the mount helper, its arguments, its lock, and which of its
  ownership checks refused.
- Of the SQLite matrix the database itself, what its tools print, the times and
  the statistics of the summary. The evidence files, the suites that only run one
  subprocess after another, and the benchmarks: they measure and report, over the
  device lifecycle that `Lab` has.
- The older Zig implementation, superseded by format 3.

## Plan

1. `MappingCache` shown to implement the choice that `Keeps` leaves open; the
   daemon's requests composed with `BlockDevice` (multi-block transfers, flush and
   FUA).
2. The invariant of the log as of the last fsync, for the properties of power loss.
