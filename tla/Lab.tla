--------------------------------- MODULE Lab ---------------------------------
(***************************************************************************)
(* The lab runs one of its live suites (execute_mode): the fio suite, or a *)
(* filesystem suite with the mount helper, with real files or with SQLite  *)
(* as its workload.                                                        *)
(***************************************************************************)
EXTENDS FioLab, SqliteLab

vars == <<worldVars, helperVars, fio, fs, sqliteVars>>

\* execute_mode
Init ==
  /\ WorldInit
  /\ HelperInit
  /\ \/ FioInit /\ fs = FsIdle /\ SqliteIdle
     \/ FsInit /\ fio = FioIdle /\ SqliteIdle
     \/ SqliteInit /\ fio = FioIdle

Next ==
  \/ WorldNext /\ UNCHANGED <<helperVars, fio, fs, sqliteVars>>
  \/ SecondNext /\ UNCHANGED <<helperVars, fio, fs, sqliteVars>>
  \/ OtherNext /\ ~fs.sqlite /\ UNCHANGED <<helperVars, fio, fs, sqliteVars>>
  \/ HelperNext /\ fio.at = "off" /\ UNCHANGED <<worldVars, fio, fs, sqliteVars>>
  \/ FioNext /\ UNCHANGED <<helperVars, fs, sqliteVars>>
  \/ FsNext /\ ~fs.sqlite /\ UNCHANGED <<fio, sqliteVars>>
  \/ SqliteNext /\ fs.sqlite /\ UNCHANGED fio

Spec == Init /\ [][Next]_vars

-----------------------------------------------------------------------------
Passed == fio.at = "pass" \/ fs.at = "pass"

OwnDevices == {id \in Ids : devices[id].owner = "lab"}

(* The backing image outlives its users: while the daemon a suite holds runs, or a device the lab
   recorded is still in the kernel, the image is not removed, whichever step of a run, of its
   cleanup or of the device's removal failed (cleanup_error_with, finish, Drop for Lab).  The second
   daemon of prove_backing_lock is not one of those users: nobody holds one that outlived the
   cleanup of run_command_separate, and cleanup_error_with removes the image it may be serving. *)
ImageOutlivesUse ==
  (Alive \/ \E id \in OwnDevices : devices[id].known) => image

(* A suite that reports PASS, in its manifest or by its exit, has left nothing behind: no daemon, not
   even the second one of the lock proof, no device, no mount and no temporary directory; and the
   SQLite manifest only does so when the result of every selection says it too (run_all, finish,
   run_matrix, SuiteIndex::write). *)
PassIsClean ==
  /\ Passed \/ ManifestStatus = "pass" =>
       /\ daemon = NoDaemon /\ second = "none"
       /\ OwnDevices = {} /\ \A id \in Ids : devices[id].owner # "second"
       /\ ~dir /\ ~image
       /\ ~mount /\ helper = NoHelper
  /\ ManifestStatus = "pass" => index.results = [n \in 1..FsRounds |-> "pass"]

(* No I/O of a SQLite case is attributed twice, although its phases span two devices whose counters
   start anew and one ledger that goes on; and when the case ends well, every request the daemons
   completed and every backing operation is in a phase, or in the gap before a validation.  The
   ledger that is reported as final is the last one: no daemon is left to change it, only a format
   command that outlived its cleanup could (sqlite_mounted, sqlite_stopping,
   sqlite_completed_requests, sqlite_finalize_ledger, record_failed_case). *)
MeasuredOnce ==
  /\ sql.phases.block <= io.past + io.daemon
  /\ sql.phases.ledger <= io.ledger
  /\ fs.at = "result" =>
       /\ sql.phases = [block |-> io.past + io.daemon, ledger |-> io.ledger]
       /\ sql.validations = 2
  /\ sql.final # None => (sql.final = io.ledger \/ FormatLeft) /\ ~Alive

(* The fio suite deletes devices by id, but only its own: whoever takes over an id that got free
   keeps his device, unless a delete command of the lab outlived its cleanup and ran later
   (require_deletable_device, cleanup_error_with). *)
ForeignUntouched == foreignLost => strayed

\* The step sends the running daemon a signal.
Signalled == Alive /\ daemon'.signal # daemon.signal

(* The filesystem suites never signal the daemon while their filesystem is mounted, and not while
   a helper that could still mount it is running: a timed-out helper, a failed rollback and a
   failed unmount all leave the daemon alone (recover_error, stop, Drop for Lab). *)
MountKeepsDaemon ==
  [][ fs.at # "off" /\ Signalled => ~mount /\ helper.action # "mount" ]_vars

(* The type invariant of the machine, the helper and the lab's records of them. *)
TypeOK ==
  /\ devices \in [Ids -> Device]
  /\ daemon.state \in {"none", "starting", "serving", "parked", "exited"}
  /\ daemon.id \in Ids \cup {None}
  /\ daemon.signal \in {"none", "TERM", "KILL"}
  /\ daemon.status \in {"none", "ok", "failed", "killed"}
  /\ reap \in {"idle", "grace", "killed", "ok", "error"}
  /\ deletion \in [id: Ids \cup {None}, state: {"none", "running", "done", "failed"}]
  /\ stray \subseteq Ids
  /\ second \in {"none", "starting", "refused", "adding", "serving", "stopping"}
  /\ {generation, strayed, foreignLost, dir, image, mount, foreignMount} \subseteq BOOLEAN
  /\ work \in {"none", "root", "caller"}
  /\ helper \in [action: {"none", "format", "mount", "unmount"},
                 stage: {"none", "check", "setup", "chown", "rollback", "ok", "failed"}]
  /\ io \in [kernel: 0..MaxIo, daemon: 0..MaxIo, ledger: 0..MaxIo, clean: BOOLEAN, past: 0..MaxIo]
  /\ {sql.before, sql.drain, sql.last, sql.origin, sql.firstEnd, sql.preStop}
       \subseteq [block: -1..MaxIo, ledger: -1..MaxIo]
  /\ \A n \in DOMAIN index.results : index.results[n] \in {"none", "failed", "pass"}

(* LabInv is the type invariant together with ImageOutlivesUse. *)
LabInv == TypeOK /\ ImageOutlivesUse
=============================================================================
