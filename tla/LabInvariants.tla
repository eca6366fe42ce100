--------------------------- MODULE LabInvariants ---------------------------
(***************************************************************************)
(* The inductive invariant of the lab's live suites, in six parts: types,  *)
(* what the lab holds at each place of a run and of its cleanup, where the *)
(* second daemon can be left, whose devices the kernel has, what a passing *)
(* suite leaves behind, and what a SQLite case has measured.  The          *)
(* properties of Lab follow from it.                                       *)
(***************************************************************************)
EXTENDS Lab

-----------------------------------------------------------------------------
(* Types.                                                                  *)

\* Where the fio suite can be.
FioPlaces ==
  {"off", "script", "format", "ready", "locking", "exit", "reap", "gone", "delete", "deleting",
   "failed", "clean_child", "clean_device", "clean_deleting", "clean_gone", "clean_files", "pass", "fail"}

\* Where a filesystem suite can be, with real files or with SQLite.
FsPlaces ==
  {"off", "script", "ready", "formatting", "mounting", "unmounting", "term", "exit", "reap",
   "gone", "failed", "recover", "recover_reap", "recover_mounted", "recover_stop", "drop",
   "fail", "pass", "select", "preflight", "initialize", "workload", "drain", "drained", "verify",
   "result", "summary"}

\* An id, or none.
IdsOrNone == Ids \cup {None}

\* What a suite has recorded of its device.
Records == [id: IdsOrNone, owner: {"none", "lab", "second", "other"}, gen: BOOLEAN]

\* The daemon the lab has spawned.
Daemons ==
  [state: {"none", "starting", "serving", "parked", "exited"}, id: IdsOrNone,
   signal: {"none", "TERM", "KILL"}, status: {"none", "ok", "failed", "killed"},
   ready: BOOLEAN, failpoint: BOOLEAN]

\* The delete command of the fio suite.
Deletions == [id: IdsOrNone, state: {"none", "running", "done", "failed"}]

\* A device has an owner and a state together; only devices of the lab get recorded.
DeviceOK(d) ==
  /\ d \in Device
  /\ d.owner = "none" => d = NoDevice
  /\ d.state = "absent" => d = NoDevice
  /\ d.known => d.owner = "lab"

\* The kernel's devices.
KernelType ==
  /\ devices \in [Ids -> Device]
  /\ \A id \in Ids : DeviceOK(devices[id])
  /\ generation \in BOOLEAN
  /\ foreignLost \in BOOLEAN

\* A daemon that reported ready has a device.
DaemonOK(d) ==
  /\ d \in Daemons
  /\ d.state = "none" => d = NoDaemon
  /\ d.state \in {"serving", "parked"} => d.ready
  /\ d.ready => d.id \in Ids /\ d.state # "starting"

\* A delete command has an id.
DeletionOK(d) ==
  /\ d \in Deletions
  /\ d.state = "none" => d = NoDeletion
  /\ d.state # "none" => d.id \in Ids

\* How far the reaping of the daemon is.
ReapStates == {"idle", "grace", "killed", "ok", "error"}

\* How far the second daemon is.
SecondStates == {"none", "starting", "refused", "adding", "serving", "stopping"}

\* The processes.
ProcessType ==
  /\ DaemonOK(daemon)
  /\ reap \in ReapStates
  /\ DeletionOK(deletion)
  /\ stray \in SUBSET Ids
  /\ strayed \in BOOLEAN
  /\ second \in SecondStates

\* The temporary directory and the image.
FileType == dir \in BOOLEAN /\ image \in BOOLEAN

\* The machine.
WorldType == KernelType /\ ProcessType /\ FileType

\* The mount table and the helper.
HelperType ==
  /\ mount \in BOOLEAN
  /\ foreignMount \in BOOLEAN
  /\ work \in {"none", "root", "caller"}
  /\ helper \in [action: {"none", "format", "mount", "unmount"},
                 stage: {"none", "check", "setup", "chown", "rollback", "ok", "failed"}]

\* The state of the fio suite; the device it recorded has an id.
FioOK(r) ==
  /\ r \in [at: FioPlaces, scenario: DOMAIN Scenarios, step: Nat, round: 1..FioRounds,
            device: Records, child: BOOLEAN, temp: BOOLEAN, backing: BOOLEAN, keep: BOOLEAN,
            proven: BOOLEAN]
  /\ r.device # Unrecorded => r.device.id \in Ids

\* A suite that is off is as it was at the start.
FioType == FioOK(fio) /\ (fio.at = "off" => fio = FioIdle)

\* The state of a filesystem suite; the device it recorded has an id.
FsOK(r) ==
  /\ r \in [at: FsPlaces, step: Nat, round: 1..FsRounds, device: Records, daemon: BOOLEAN,
            command: BOOLEAN, formats: BOOLEAN, attempted: BOOLEAN, recovering: BOOLEAN, sqlite: BOOLEAN]
  /\ r.device # Unrecorded => r.device.id \in Ids

\* A suite that is off is as it was at the start.
FsType == FsOK(fs) /\ (fs.at = "off" => fs = FsIdle)

\* Everything but the SQLite case, which SqlType and IndexType are about.
Types == WorldType /\ HelperType /\ FioType /\ FsType

-----------------------------------------------------------------------------
(* What the lab holds of the world. *)

\* One suite runs.
OneSuite == fio.at = "off" \/ fs.at = "off"

\* A daemon nobody holds is gone.
DaemonHeld == ~fio.child /\ ~fs.daemon => daemon = NoDaemon

\* A device the lab knows is the one a suite has recorded.
KnownRecorded ==
  \A id \in Ids : devices[id].known => id = fio.device.id \/ id = fs.device.id

\* The daemon is reaped where a suite waits for it, and is gone when that ends well.
ReapPlaced ==
  /\ reap # "idle" => fio.at \in {"reap", "clean_child"} \/ fs.at \in {"reap", "recover_reap"}
  /\ reap = "ok" => daemon = NoDaemon

\* The delete command runs where the suite waits for it, and for its own device.
DeletionPlaced ==
  /\ deletion # NoDeletion => fio.at \in {"deleting", "clean_deleting"}
  /\ deletion # NoDeletion => deletion.id = fio.device.id

\* The fio suite holds nothing.
FioBare == ~fio.child /\ fio.device = Unrecorded

\* The fio suite holds a running daemon and its device.
FioRuns == fio.child /\ fio.device # Unrecorded /\ daemon.state # "starting"

\* The daemon is reaped, its device still recorded.
FioLeft == ~fio.child /\ fio.device # Unrecorded

\* The operations of a scenario that need the daemon.
RunOps == {"fio", "lock", "stop", "kill", "terminate", "handshake"}

\* The operation the suite is at.
FioOp == Script(fio.scenario, fio.proven)[fio.step]

\* The suite is inside its script.
FioInScript == fio.step \in 1..Len(Script(fio.scenario, fio.proven))

\* What the fio suite holds at each place of its script and of its cleanup.
FioPlaced ==
  /\ fio.at \in {"script", "format", "ready", "locking", "exit", "reap", "gone", "delete",
                 "deleting"} => FioInScript
  /\ fio.at = "script" =>
       /\ FioOp \in {"setup", "start", "clear"} => FioBare
       /\ FioOp \in RunOps => FioRuns
       /\ FioOp = "remove" => FioLeft
       /\ FioOp # "setup" => image
  /\ fio.at = "format" => FioOp = "setup" /\ FioBare
  /\ fio.at = "ready" =>
       /\ FioOp = "start"
       /\ fio.child /\ fio.device = Unrecorded /\ image /\ daemon.signal = "none"
  /\ fio.at = "locking" => FioOp = "lock" /\ FioRuns /\ image
  /\ fio.at \in {"exit", "reap"} => FioOp \in {"stop", "kill"} /\ FioRuns /\ image
  /\ fio.at = "gone" => FioOp \in {"stop", "remove"} /\ FioLeft /\ image
  /\ fio.at \in {"delete", "deleting"} => FioOp = "remove" /\ FioLeft /\ image
  /\ fio.at = "clean_child" => fio.child
  /\ fio.at \in {"clean_device", "clean_gone", "clean_files"} => ~fio.child
  /\ fio.at \in {"clean_deleting", "clean_gone"} => FioLeft
  /\ fio.at = "clean_files" => \A id \in Ids : ~devices[id].known
  /\ fio.at = "pass" => FioBare

\* Outside a cleanup every device of the lab is the one recorded, or the daemon's new one.
FioOwns ==
  /\ fio.at \in {"script", "format", "locking", "exit", "reap", "gone", "delete", "deleting",
                 "pass"} => OwnDevices \subseteq {fio.device.id}
  /\ fio.at = "ready" => OwnDevices \subseteq {daemon.id}

\* The filesystem suite holds nothing.
FsBare == ~fs.daemon /\ fs.device = Unrecorded

\* The filesystem suite holds a daemon on its device, and the image is there.
FsRuns == fs.daemon /\ fs.device # Unrecorded /\ daemon.state # "starting" /\ image

\* The steps of the lifecycle at which the suite can be at a place.
FsSteps ==
  [script |-> 1..18, ready |-> {2, 11}, formatting |-> {3}, mounting |-> {5, 13},
   unmounting |-> {8, 15}, term |-> {10, 17}, exit |-> {10, 17}, reap |-> {10, 17},
   gone |-> {10, 17}, select |-> {1}, preflight |-> {1}, initialize |-> {6}, workload |-> {6},
   drain |-> {6}, drained |-> {6}, verify |-> {7, 14}, result |-> {18}, summary |-> {18},
   pass |-> {18}]

\* The suite is in its lifecycle and has not failed.
FsWorking == fs.at \in DOMAIN FsSteps /\ ~fs.recovering

\* What a filesystem suite holds at each place of its lifecycle and of recover_error.
FsPlaced ==
  /\ fs.recovering => fs.at \in {"recover", "recover_reap", "recover_mounted", "recover_stop",
                                 "unmounting", "term", "exit", "reap", "gone", "drop", "fail"}
  /\ fs.at \in {"recover", "recover_reap", "recover_mounted", "recover_stop"} => fs.recovering
  /\ FsWorking => fs.step \in FsSteps[fs.at]
  /\ FsWorking /\ fs.at \in {"select", "preflight", "result", "summary", "pass"} => FsBare
  /\ FsWorking /\ fs.at = "script" =>
       /\ fs.step \in {1, 2, 11, 18} => FsBare
       /\ fs.step \in {2, 11} => image
       /\ fs.step \notin {1, 2, 11, 18} => FsRuns
  /\ FsWorking /\ fs.at = "ready" => fs.daemon /\ fs.device = Unrecorded /\ image
  /\ FsWorking /\ fs.at \in {"formatting", "mounting", "unmounting", "term", "exit", "reap", "gone",
                             "initialize", "workload", "drain", "drained", "verify"} => FsRuns
  /\ fs.at \in {"term", "exit", "reap", "gone", "unmounting"} => fs.device # Unrecorded /\ fs.daemon
  /\ fs.at = "recover_reap" => fs.daemon
  /\ fs.at \in {"reap", "recover_reap"} => ~Alive
  /\ fs.at = "gone" => daemon = NoDaemon

\* Before a failure every device of the lab is the one recorded, or the daemon's new one.
FsOwns ==
  /\ FsWorking /\ fs.at # "ready" => OwnDevices \subseteq {fs.device.id}
  /\ FsWorking /\ fs.at = "ready" => OwnDevices \subseteq {daemon.id}

\* The helper runs only where a suite waits for it, or was given up; the daemon is
\* terminated only when nothing is mounted.
HelperPlaced ==
  /\ ~fs.command => helper = NoHelper
  /\ fs.at \notin {"formatting", "mounting", "unmounting", "failed", "drop", "fail"} => ~fs.command
  /\ fs.at = "term" => ~mount
  /\ fio.at # "off" => ~mount

\* What the lab holds of the world, with ImageOutlivesUse.
Holding ==
  /\ OneSuite /\ DaemonHeld /\ KnownRecorded /\ ReapPlaced /\ DeletionPlaced
  /\ FioPlaced /\ FioOwns /\ FsPlaced /\ FsOwns /\ HelperPlaced /\ ImageOutlivesUse

\* Where the second daemon runs, or can have been left.
SecondPlaces ==
  {"locking", "failed", "clean_child", "clean_device", "clean_deleting", "clean_gone",
   "clean_files", "fail"}

\* The second daemon and its device are only left behind by a suite that fails; one that was
\* refused has no device.
SecondInv ==
  /\ second # "none" => fio.at \in SecondPlaces
  /\ fio.at \notin SecondPlaces \/ second \in {"starting", "refused"} =>
       \A id \in Ids : devices[id].owner # "second"

\* Unless a delete command got away, no device of somebody else is lost, the recorded device and
\* the one being deleted are the lab's, and so is the one of a daemon nobody has signalled.
ForeignInv ==
  ~strayed =>
    /\ ~foreignLost
    /\ stray = {}
    /\ fio.device # Unrecorded => fio.device.owner = "lab"
    /\ daemon.id \in Ids /\ daemon.signal = "none" => devices[daemon.id].owner = "lab"
    /\ deletion.state = "running" => devices[deletion.id].owner = "lab"

-----------------------------------------------------------------------------

\* Nothing of the suite is left.
Clean ==
  /\ daemon = NoDaemon
  /\ OwnDevices = {}
  /\ ~dir /\ ~image
  /\ ~mount /\ helper = NoHelper

\* The verdicts in the results of the selections.
Verdicts == {"none", "failed", "pass"}

\* The types of the manifest's index.
IndexOK(i) ==
  i \in [attempted: Nat, completed: Nat, failed: Nat, timedOut: BOOLEAN, results: Seq(Verdicts)]

\* The manifest's index.
IndexType == IndexOK(index)

\* What is left when a suite is done, and that the manifest counts the selections that passed.
PassInv ==
  /\ IndexType
  /\ ~fs.sqlite => index = NoIndex
  /\ fs.sqlite /\ fs.at \notin {"summary", "pass", "fail"} =>
       index.completed = fs.round - 1
  /\ index.failed = 0 => index.results = [n \in 1..index.completed |-> "pass"]
  /\ Passed \/ fs.at \in {"result", "summary"} \/ index.completed = FsRounds => Clean
  /\ index.completed = FsRounds => fs.at \in {"summary", "pass", "fail"}

-----------------------------------------------------------------------------

\* A point of the case's counters.
Points == [block: -1..MaxIo, ledger: -1..MaxIo]

\* The types of the counters.
IoOK(i) ==
  i \in [kernel: 0..MaxIo, daemon: 0..MaxIo, ledger: 0..MaxIo, clean: BOOLEAN, past: 0..MaxIo]

\* The types of the case's records.
SqlOK(s) ==
  s \in [reader: BOOLEAN, setup: BOOLEAN, outputs: BOOLEAN, validations: Nat, stops: Nat,
         restarting: BOOLEAN, closing: BOOLEAN, before: Points, drain: Points, last: Points,
         origin: Points, firstEnd: Points, preStop: Points, phases: [block: Int, ledger: Int],
         final: -1..MaxIo]

\* The counters and the case's records of them.
SqlType == IoOK(io) /\ SqlOK(sql)

\* The phases add up to everything before the point, on this device and on the one before.
Accounted(point) ==
  sql.phases.block = io.past + point.block /\ sql.phases.ledger = point.ledger

\* The point is one the counters have passed, and the phases end there.
Measured(point) ==
  point.block \in 0..io.kernel /\ point.ledger \in 0..io.ledger /\ Accounted(point)

\* Where no case runs.
Ended == {"off", "select", "result", "summary", "pass", "fail"}

\* The kernel's count follows the daemon's; no I/O is attributed twice; a ledger that is final
\* has no daemon left, and at most a format command that was not reaped.
SqlBounds ==
  /\ io.kernel <= io.daemon
  /\ io.past + io.daemon <= MaxIo
  /\ sql.phases.block <= io.past + io.daemon
  /\ sql.phases.ledger <= io.ledger
  /\ sql.preStop.block <= io.daemon
  /\ sql.closing => Accounted(sql.last)
  /\ sql.final # None =>
       (sql.final = io.ledger \/ FormatLeft) /\ daemon = NoDaemon /\ fs.at \in Ended

\* A tool of the case is running, and the point before it is kept.
InFiles == fs.at \in {"initialize", "workload", "drain", "drained", "verify"}

\* The daemon is being stopped.
Stopping == fs.at \in {"term", "exit", "reap", "gone"}

\* A case is running and has not failed.
InCase == FsWorking /\ fs.at \notin {"select", "result", "summary", "pass"}

\* How many stops and validations a case has behind it at a step.
SqlCounts ==
  /\ sql.stops = IF fs.step <= 10 THEN 0 ELSE IF fs.step <= 17 THEN 1 ELSE 2
  /\ sql.validations = IF fs.step <= 7 THEN 0 ELSE IF fs.step <= 14 THEN 1 ELSE 2
  /\ sql.restarting <=> fs.step >= 8 /\ fs.step <= 13
  /\ sql.closing <=> fs.step >= 15

\* Before the first daemon and the first phase.
SqlFirst ==
  /\ fs.step <= 2 /\ fs.at # "ready" => io.daemon = 0 /\ io.kernel = 0
  /\ fs.step <= 10 => io.past = 0
  /\ fs.step <= 6 /\ ~InFiles => sql.phases.block = 0 /\ sql.phases.ledger = 0

\* Where the phases end: at the point before the running tool, or at the last point.
SqlPoints ==
  /\ InFiles => Measured(sql.before)
  /\ fs.step >= 7 /\ fs.step <= 10 /\ ~InFiles => Measured(sql.last)
  /\ fs.step >= 14 /\ fs.step <= 17 /\ ~InFiles => Measured(sql.last)

\* Between the two devices the phases end at the origin of the restart gap, and the first
\* device's requests are those that are past.
SqlRestart ==
  /\ fs.step = 10 /\ Stopping => sql.origin = sql.last
  /\ fs.step >= 11 /\ fs.step <= 13 =>
       /\ sql.phases.block = sql.origin.block
       /\ sql.phases.ledger = sql.origin.ledger
       /\ sql.firstEnd.block = IF fs.step = 11 /\ fs.at = "script" THEN io.daemon ELSE io.past
       /\ fs.step = 11 /\ fs.at = "script" => io.past = 0

\* The requests of the second device are read when its daemon has stopped.
SqlStops ==
  /\ fs.step < 17 => sql.preStop.block = None
  /\ fs.step = 18 =>
       /\ sql.last.block >= 0
       /\ sql.preStop.block = io.daemon

\* What the case has measured at each step of its lifecycle.
SqlPlaced == InCase => SqlCounts /\ SqlFirst /\ SqlPoints /\ SqlRestart /\ SqlStops

\* A case that ended well has measured everything.
SqlDone ==
  fs.at = "result" =>
    /\ sql.phases = [block |-> io.past + io.daemon, ledger |-> io.ledger]
    /\ sql.validations = 2

\* What a SQLite case has measured.
SqlCase == SqlType /\ SqlBounds /\ SqlPlaced /\ SqlDone

\* The other suites have no case.
SqlInv == IF fs.sqlite THEN SqlCase ELSE SqliteIdle /\ fs.at # "result"

\* The inductive invariant.
IInv == Types /\ Holding /\ SecondInv /\ ForeignInv /\ PassInv /\ SqlInv

=============================================================================
