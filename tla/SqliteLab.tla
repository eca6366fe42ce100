------------------------------ MODULE SqliteLab ------------------------------
(***************************************************************************)
(* The SQLite matrix (ext4/sqlite.rs, ext4/sqlite/): every selection is    *)
(* one pass of FsLab's steps with a database as its workload.  The case    *)
(* attributes the I/O of its two daemons to phases: an IoPoint is a sample *)
(* of the device's counters, which start anew with every device, and of    *)
(* the ledger's, which go on, and a phase is what two points differ by.    *)
(*                                                                         *)
(* The counters of a point are abstracted to one of the device and one of  *)
(* the ledger.  The database, the tools and their times are left out.      *)
(***************************************************************************)
EXTENDS FsLab

CONSTANT MaxIo          \* bound on the requests of a case, and on its backing operations

ASSUME MaxIoAssumption == MaxIo \in Nat \ {0}

VARIABLES
  io,           \* the counters of the device and of the ledger
  sql,          \* State of the case
  index         \* SuiteIndex, and the results of the cases

sqliteVars == <<io, sql, index>>

-----------------------------------------------------------------------------
(* Counters.  kernel: /sys/block/.../stat; daemon: RequestCounts of the    *)
(* running daemon; clean: no error, nothing pending, within the budget.    *)
(* past: observer, the requests of earlier devices.                        *)

NoIo ==
  [kernel |-> 0, daemon |-> 0, ledger |-> 0, clean |-> TRUE, past |-> 0]

NoPoint == [block |-> None, ledger |-> None]

Point == [block |-> io.kernel, ledger |-> io.ledger]

\* sqlite_io_point
CanSample == Validated /\ sql.reader

\* io_delta, and the condition that no counter decreased
Delta(before, after) ==
  [block |-> after.block - before.block, ledger |-> after.ledger - before.ledger]

Ordered(before, after) == before.block <= after.block /\ before.ledger <= after.ledger

\* Mutant of RestartDelta: what the earlier phases have of the first device is counted again.
RestartDeltaWhole(origin, end, new) ==
  [block |-> end.block + new.block, ledger |-> new.ledger - origin.ledger]

\* restart_io_delta: the rest of the first device and the start of the second
RestartDelta(origin, end, new) ==
  [block |-> (end.block - origin.block) + new.block,
   ledger |-> new.ledger - origin.ledger]

RestartOrdered(origin, end, new) ==
  origin.block <= end.block /\ origin.ledger <= new.ledger

OnDevice == Alive /\ daemon.id # None /\ devices[daemon.id].owner = "lab"

\* A request is counted, and then completed to the kernel.
Served ==
  /\ OnDevice /\ devices[daemon.id].state = "live"
  /\ io.past + io.daemon < MaxIo
  /\ io' = [io EXCEPT !.daemon = @ + 1]

KernelCounts ==
  /\ OnDevice /\ devices[daemon.id].state = "live"
  /\ io.kernel < io.daemon
  /\ io' = [io EXCEPT !.kernel = @ + 1]

\* The daemon's operations on the backing image, the ones of its shutdown included, and those of a
\* format command that was not reaped.
\* One that fails, exhausts the budget or is still pending when the daemon dies spoils the ledger.
BackingOperation(completed) ==
  /\ Alive \/ FormatLeft
  /\ io.ledger < MaxIo
  /\ io' = [io EXCEPT !.ledger = @ + 1, !.clean = @ /\ completed]

-----------------------------------------------------------------------------
(* State.                                                                  *)

NewCase ==
  [reader |-> TRUE, setup |-> TRUE, outputs |-> FALSE, validations |-> 0, stops |-> 0,
   restarting |-> FALSE, closing |-> FALSE, before |-> NoPoint, drain |-> NoPoint,
   last |-> NoPoint, origin |-> NoPoint, firstEnd |-> NoPoint, preStop |-> NoPoint,
   phases |-> [block |-> 0, ledger |-> 0], final |-> None]

\* phases.insert; only what the phases add up to is kept, together with the gaps between them.
Insert(phases, delta) ==
  [block |-> phases.block + delta.block, ledger |-> phases.ledger + delta.ledger]

\* record_io_phase
RecordPhase(before, after) ==
  [sql EXCEPT !.phases = Insert(@, Delta(before, after)), !.last = after]

NoIndex == [attempted |-> 0, completed |-> 0, failed |-> 0, timedOut |-> FALSE, results |-> <<>>]

\* SuiteIndex::failed, after the result of the case; writing that may fail.
SelectionFailed(status) ==
  [index EXCEPT !.failed = @ + 1, !.results = Append(@, status)]

ManifestStatus ==
  IF index.timedOut THEN "timeout"
  ELSE IF index.failed > 0 THEN "failed"
  ELSE IF index.completed = FsRounds THEN "pass"
  ELSE "running"

-----------------------------------------------------------------------------
(* A selection.                                                            *)

\* The suite's deadline is reached before the next selection.
SqliteTimeout ==
  /\ fs.at = "select"
  /\ index' = [index EXCEPT !.timedOut = TRUE]
  /\ fs' = [fs EXCEPT !.at = "fail"]
  /\ UNCHANGED <<worldVars, helperVars, io, sql>>

\* Lab::new with a new ledger; the temporary directory removes itself when that fails.
SqliteNew ==
  /\ fs.at = "select"
  /\ dir' = TRUE
  /\ io' = NoIo
  /\ sql' = NewCase
  /\ index' = [index EXCEPT !.attempted = @ + 1]
  /\ fs' = [fs EXCEPT !.at = "preflight"]
  /\ UNCHANGED <<kernelVars, processVars, image, helperVars>>

SqliteNewFails(left) ==
  /\ fs.at = "select"
  /\ dir' = left
  /\ index' = [SelectionFailed("failed") EXCEPT !.attempted = @ + 1]
  /\ fs' = [fs EXCEPT !.at = "fail"]
  /\ UNCHANGED <<kernelVars, processVars, image, helperVars, io, sql>>

\* preflight, with the reference database
SqlitePreflight(done, reaped) ==
  /\ fs.at = "preflight"
  /\ done => reaped
  /\ fs' = IF done THEN [fs EXCEPT !.at = "script"] ELSE Fails(AfterCleanup(reaped))
  /\ UNCHANGED <<worldVars, helperVars, sqliteVars>>

SqliteFormat(done, clean) ==
  /\ FsFormat(done)
  /\ done => clean
  /\ io' = [io EXCEPT !.ledger = 1, !.clean = clean]
  /\ UNCHANGED <<sql, index>>

SqliteStart ==
  /\ FsStart
  /\ io' = [io EXCEPT !.past = @ + io.daemon, !.kernel = 0, !.daemon = 0]
  /\ sql' = [sql EXCEPT !.outputs = TRUE]
  /\ UNCHANGED index

-----------------------------------------------------------------------------
(* Mounted.                                                                *)

\* The restart ends when the second device is mounted.
AfterRemount ==
  [sql EXCEPT !.restarting = FALSE, !.origin = NoPoint, !.firstEnd = NoPoint, !.last = Point,
     !.phases = Insert(@, RestartDelta(sql.origin, sql.firstEnd, Point))]

\* sqlite_mounted; the restart's records are taken before the difference, which may fail.
SqliteMounted(verified, taken) ==
  /\ FsMounted(verified)
  /\ taken => sql.restarting /\ RequireMounted /\ CanSample
  /\ IF verified
     THEN /\ taken = sql.restarting
          /\ taken => RestartOrdered(sql.origin, sql.firstEnd, Point)
          /\ sql' = IF taken THEN AfterRemount ELSE sql
     ELSE sql' = IF taken THEN [sql EXCEPT !.restarting = FALSE, !.origin = NoPoint,
                                           !.firstEnd = NoPoint]
                 ELSE sql
  /\ UNCHANGED <<io, index>>

\* sqlite_populate: speedtest1 has no initialization of its own.
SqliteSetup(speedtest) ==
  /\ Step("Populate")
  /\ RequireMounted
  /\ CanSample /\ sql.setup
  /\ sql' = [sql EXCEPT !.setup = FALSE, !.before = Point, !.phases = Insert(@, Point)]
  /\ fs' = [fs EXCEPT !.at = IF speedtest THEN "workload" ELSE "initialize"]
  /\ UNCHANGED <<worldVars, helperVars, io, index>>

SqliteInitialized ==
  /\ fs.at = "initialize"
  /\ CanSample /\ Ordered(sql.before, Point)
  /\ sql' = [RecordPhase(sql.before, Point) EXCEPT !.before = Point]
  /\ fs' = [fs EXCEPT !.at = "workload"]
  /\ UNCHANGED <<worldVars, helperVars, io, index>>

\* The tool samples the counters around the drain; a ledger with errors fails the case.
SqliteDrainStart ==
  /\ fs.at = "workload"
  /\ CanSample /\ io.clean
  /\ sql' = [sql EXCEPT !.drain = Point]
  /\ fs' = [fs EXCEPT !.at = "drain"]
  /\ UNCHANGED <<worldVars, helperVars, io, index>>

SqliteDrainEnd ==
  /\ fs.at = "drain"
  /\ CanSample /\ io.clean
  /\ Ordered(sql.before, sql.drain) /\ Ordered(sql.drain, Point)
  /\ sql' = [sql EXCEPT !.drain = Point]
  /\ fs' = [fs EXCEPT !.at = "drained"]
  /\ UNCHANGED <<worldVars, helperVars, io, index>>

\* record_workload
SqliteWorkload ==
  /\ fs.at = "drained"
  /\ CanSample /\ Ordered(sql.drain, Point)
  /\ sql' = [RecordPhase(sql.before, Point) EXCEPT
               !.before = NoPoint, !.drain = NoPoint]
  /\ fs' = Proceed(fs)
  /\ UNCHANGED <<worldVars, helperVars, io, index>>

\* sqlite_verify takes a point of its own, which leaves a gap to the phase before.
SqliteVerify ==
  /\ Step("Verify")
  /\ RequireMounted
  /\ CanSample
  /\ sql' = [sql EXCEPT !.before = Point,
       !.phases = IF Ordered(sql.last, Point) THEN Insert(@, Delta(sql.last, Point)) ELSE @]
  /\ fs' = [fs EXCEPT !.at = "verify"]
  /\ UNCHANGED <<worldVars, helperVars, io, index>>

SqliteVerified ==
  /\ fs.at = "verify"
  /\ CanSample /\ Ordered(sql.before, Point)
  /\ sql' = [RecordPhase(sql.before, Point) EXCEPT
               !.before = NoPoint, !.validations = @ + 1,
               !.restarting = @ \/ sql.validations = 0,
               !.closing = @ \/ sql.validations = 1]
  /\ fs' = Proceed(fs)
  /\ UNCHANGED <<worldVars, helperVars, io, index>>

\* A tool or what it printed fails, or a point cannot be taken.
SqliteFilesFail(reaped) ==
  /\ fs.at \in {"initialize", "workload", "drain", "drained", "verify"}
  /\ fs' = Fails(AfterCleanup(reaped))
  /\ UNCHANGED <<worldVars, helperVars, sqliteVars>>

-----------------------------------------------------------------------------
(* Stopped.                                                                *)

\* sqlite_stopping
SqliteStop ==
  /\ FsStop
  /\ CanSample
  /\ sql' = IF sql.stops = 0 THEN [sql EXCEPT !.origin = sql.last, !.firstEnd = Point]
            ELSE [sql EXCEPT !.preStop = Point]
  /\ UNCHANGED <<io, index>>

\* The last sample of the device that stopped
Sample == IF sql.stops = 0 THEN sql.firstEnd ELSE sql.preStop

\* sqlite_completed_requests: the daemon's report may not fall behind the sample, and replaces it.
ReportAccepted == Sample # NoPoint /\ Sample.block <= io.daemon

WithReport ==
  IF sql.stops = 0 THEN [sql EXCEPT !.firstEnd.block = io.daemon]
  ELSE [sql EXCEPT !.preStop.block = io.daemon]

\* log_daemon and sqlite_stopped; the log may fail before the report is accepted, or after.
SqliteGone(logged, reported) ==
  /\ FsGone(logged)
  /\ logged => reported
  /\ reported => ReportAccepted
  /\ sql' = IF logged THEN [WithReport EXCEPT !.stops = @ + 1, !.outputs = FALSE]
            ELSE IF reported THEN WithReport ELSE sql
  /\ UNCHANGED <<io, index>>

\* recover_error ends with the log that stop did not finish.
SqliteRecoverDaemon(reported) ==
  /\ FsRecoverDaemon
  /\ reported => ~fs.daemon /\ sql.outputs /\ ReportAccepted
  /\ sql' = IF reported THEN [WithReport EXCEPT !.outputs = FALSE] ELSE sql
  /\ UNCHANGED <<io, index>>

\* sqlite_finalize_ledger: the final phase, unless the case did not get as far
FinalEnd == [block |-> sql.preStop.block, ledger |-> io.ledger]

HasFinalPhase == sql.closing /\ sql.last # NoPoint /\ sql.preStop # NoPoint

FinalPhase ==
  [sql EXCEPT !.closing = FALSE, !.last = NoPoint, !.preStop = NoPoint,
     !.phases = IF HasFinalPhase /\ Ordered(sql.last, FinalEnd)
                THEN Insert(@, Delta(sql.last, FinalEnd)) ELSE @]

\* validate_final_ledger
LedgerValid == io.clean /\ (HasFinalPhase => Ordered(sql.last, FinalEnd))

FinalLedger == [FinalPhase EXCEPT !.reader = FALSE, !.final = io.ledger]

SqliteFinish ==
  /\ RemoveFixture
  /\ sql.reader /\ LedgerValid
  /\ sql' = FinalLedger
  /\ fs' = [fs EXCEPT !.at = "result"]
  /\ UNCHANGED <<io, index>>

\* finish fails before, in or after the ledger's validation; execute_case does not recover then.
SqliteFinishFails(stage, imageLeft) ==
  /\ Step("Finish")
  /\ stage # "before" => FinishAllowed /\ sql.reader /\ LedgerValid = (stage = "after")
  /\ stage # "after" => imageLeft
  /\ image' = (image /\ imageLeft)
  /\ sql' = CASE stage = "before" -> sql
             [] stage = "ledger" -> FinalPhase
             [] stage = "after" -> FinalLedger
  /\ index' = SelectionFailed("failed")
  /\ fs' = [fs EXCEPT !.at = "fail"]
  /\ UNCHANGED <<kernelVars, processVars, dir, helperVars, io>>

\* The result of a case that passed is written, or that fails.
SqliteResult(written) ==
  /\ fs.at = "result"
  /\ index' = IF written THEN [index EXCEPT !.completed = @ + 1, !.results = Append(@, "pass")]
              ELSE SelectionFailed("none")
  /\ fs' = IF ~written THEN [fs EXCEPT !.at = "fail"]
           ELSE IF fs.round = FsRounds THEN [fs EXCEPT !.at = "summary"]
           ELSE [fs EXCEPT !.at = "select", !.step = 1, !.round = @ + 1]
  /\ UNCHANGED <<worldVars, helperVars, io, sql>>

\* summary::write wants the result of every selection.
SqliteSummary(written) ==
  /\ fs.at = "summary"
  /\ written => \A n \in 1..FsRounds : index.results[n] = "pass"
  /\ fs' = [fs EXCEPT !.at = IF written THEN "pass" ELSE "fail"]
  /\ UNCHANGED <<worldVars, helperVars, sqliteVars>>

\* record_failed_case, after recover_error: the ledger is final only when no daemon is left; a format
\* command that was not reaped is not asked for.
SqliteFailed(written) ==
  /\ fs.at = "drop"
  /\ sql' = IF ~sql.reader \/ fs.daemon THEN sql
            ELSE IF LedgerValid THEN FinalLedger
            ELSE [FinalPhase EXCEPT !.reader = FALSE]
  /\ index' = SelectionFailed(IF written THEN "failed" ELSE "none")
  /\ fs' = [fs EXCEPT !.at = "fail"]
  /\ UNCHANGED <<worldVars, helperVars, io>>

-----------------------------------------------------------------------------
SqliteInit ==
  /\ fs = [FsIdle EXCEPT !.at = "select", !.sqlite = TRUE]
  /\ io = NoIo
  /\ sql = NewCase
  /\ index = NoIndex

SqliteIdle == io = NoIo /\ sql = [NewCase EXCEPT !.reader = FALSE] /\ index = NoIndex

CountersNext ==
  /\ Served \/ KernelCounts \/ \E completed \in BOOLEAN : BackingOperation(completed)
  /\ UNCHANGED <<worldVars, helperVars, fs, sql, index>>

SqliteNext ==
  \/ FsCommonNext /\ UNCHANGED sqliteVars
  \/ FsError /\ ~Step("Finish") /\ UNCHANGED sqliteVars
  \/ CountersNext
  \/ SqliteTimeout
  \/ SqliteNew
  \/ \E left \in BOOLEAN : SqliteNewFails(left)
  \/ \E done, reaped \in BOOLEAN : SqlitePreflight(done, reaped)
  \/ \E done, clean \in BOOLEAN : SqliteFormat(done, clean)
  \/ SqliteStart
  \/ \E verified, taken \in BOOLEAN : SqliteMounted(verified, taken)
  \/ \E speedtest \in BOOLEAN : SqliteSetup(speedtest)
  \/ SqliteInitialized
  \/ SqliteDrainStart
  \/ SqliteDrainEnd
  \/ SqliteWorkload
  \/ SqliteVerify
  \/ SqliteVerified
  \/ \E reaped \in BOOLEAN : SqliteFilesFail(reaped)
  \/ SqliteStop
  \/ \E logged, reported \in BOOLEAN : SqliteGone(logged, reported)
  \/ \E reported \in BOOLEAN : SqliteRecoverDaemon(reported)
  \/ SqliteFinish
  \/ \E stage \in {"before", "ledger", "after"}, imageLeft \in BOOLEAN :
       SqliteFinishFails(stage, imageLeft)
  \/ \E written \in BOOLEAN : SqliteResult(written)
  \/ \E written \in BOOLEAN : SqliteSummary(written)
  \/ \E written \in BOOLEAN : SqliteFailed(written)
=============================================================================
