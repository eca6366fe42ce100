------------------------------- MODULE FioLab -------------------------------
(***************************************************************************)
(* The fio suite (ublk_fio): scenarios that format a fresh image, start    *)
(* the daemon on it, run fio against the recorded device, stop or kill the *)
(* daemon, restart it, and remove the fixture; and the cleanup after a     *)
(* failure, which decides from the device's identity what may be deleted.  *)
(*                                                                         *)
(* FioError stands for every early return of the run that changes nothing: *)
(* a failed read, write or command, a refused check, an elapsed deadline.  *)
(* What fio and the format command write is left out.                      *)
(***************************************************************************)
EXTENDS LabWorld

CONSTANT FioRounds      \* scenario repetitions of the suite (21)

ASSUME FioRoundsAssumption == FioRounds \in Nat \ {0}

VARIABLE fio            \* the suite: its place, and Resources

\* Each scenario's steps after its image is formatted.  Random and Exhaustion have the shapes of
\* Sequential and GracefulRestart; Overwrite runs more jobs.
Scenarios ==
  [Sequential |-> <<"start", "fio">>,
   Overwrite |-> <<"start", "fio", "fio">>,
   GracefulRestart |-> <<"start", "fio", "stop", "start", "fio">>,
   SigkillRestart |-> <<"start", "fio", "kill", "remove", "start", "fio">>,
   DescriptorCloseFailpoint |->
     <<"start", "fio", "terminate", "handshake", "kill", "remove", "start", "fio">>]

\* run_all's body for one repetition; contention for the backing lock is proved once.
Script(scenario, proven) ==
  <<"setup">> \o Scenarios[scenario] \o (IF proven THEN <<>> ELSE <<"lock">>) \o <<"stop", "clear">>

FioIdle ==
  [at |-> "off", scenario |-> "Sequential", step |-> 1, round |-> 1, device |-> Unrecorded,
   child |-> FALSE, temp |-> FALSE, backing |-> FALSE, keep |-> FALSE, proven |-> FALSE]

Op(op) == fio.at = "script" /\ Script(fio.scenario, fio.proven)[fio.step] = op

Advance(r) == [r EXCEPT !.at = "script", !.step = @ + 1]

Failed(r) == [r EXCEPT !.at = "failed"]

-----------------------------------------------------------------------------
(* The scenario's steps.                                                   *)

\* setup_fresh
FioSetup ==
  /\ Op("setup")
  /\ ~fio.temp /\ ~fio.backing /\ ~fio.child
  /\ dir' = TRUE
  /\ fio' = [fio EXCEPT !.at = "format", !.temp = TRUE]
  /\ UNCHANGED <<kernelVars, processVars, image>>

FioFormat(created, valid) ==
  /\ fio.at = "format"
  /\ valid => created
  /\ image' = created
  /\ fio' = IF valid THEN Advance([fio EXCEPT !.backing = TRUE]) ELSE Failed(fio)
  /\ UNCHANGED <<kernelVars, processVars, dir>>

\* start_daemon: the device is recorded only once it is ready.
FioStart ==
  /\ Op("start")
  /\ ~fio.child /\ fio.device = Unrecorded
  /\ Spawn(fio.scenario = "DescriptorCloseFailpoint" /\ fio.step = 2)
  /\ fio' = [fio EXCEPT !.at = "ready", !.child = TRUE]
  /\ UNCHANGED <<kernelVars, reap, deletion, stray, strayed, second, fileVars>>

FioReady ==
  /\ fio.at = "ready"
  /\ daemon.ready
  /\ devices[daemon.id].state = "live"
  /\ devices' = [devices EXCEPT ![daemon.id].known = @ \/ devices[daemon.id].owner = "lab"]
  /\ fio' = Advance([fio EXCEPT !.device = Record(daemon.id)])
  /\ UNCHANGED <<generation, foreignLost, processVars, fileVars>>

\* require_device_identity
Refuse(identity) ==
  Failed([fio EXCEPT !.keep = @ \/ identity \in {"IdentityChanged", "Ambiguous"}])

\* run_fio
FioRun(identity) ==
  /\ Op("fio")
  /\ identity \in Classify(fio.device)
  /\ fio' = IF identity = "Matching" THEN Advance(fio) ELSE Refuse(identity)
  /\ UNCHANGED worldVars

\* prove_backing_lock: a second daemon is started on the image.
FioLock ==
  /\ Op("lock")
  /\ second' = "starting"
  /\ fio' = [fio EXCEPT !.at = "locking"]
  /\ UNCHANGED <<kernelVars, daemon, reap, deletion, stray, strayed, fileVars>>

\* It failed on the first one's lock.
FioLockProven ==
  /\ fio.at = "locking"
  /\ second = "refused"
  /\ second' = "none"
  /\ fio' = [fio EXCEPT !.at = "script", !.proven = TRUE]
  /\ UNCHANGED <<kernelVars, daemon, reap, deletion, stray, strayed, fileVars>>

\* It ended otherwise, or its time is up: it is killed and reaped, or it survives the cleanup.
FioLockLost(reaped) ==
  /\ fio.at = "locking"
  /\ second' = IF reaped THEN "none" ELSE second
  /\ fio' = Failed(fio)
  /\ UNCHANGED <<kernelVars, daemon, reap, deletion, stray, strayed, fileVars>>

\* stop_graceful and kill_daemon send their signal; terminate does not wait.
FioSignal ==
  /\ \/ Op("stop") /\ Signal("TERM") /\ fio' = [fio EXCEPT !.at = "exit"]
     \/ Op("kill") /\ Signal("KILL") /\ fio' = [fio EXCEPT !.at = "exit"]
     \/ Op("terminate") /\ Signal("TERM") /\ fio' = Advance(fio)
  /\ UNCHANGED <<kernelVars, reap, deletion, stray, strayed, second, fileVars>>

FioKilling == Script(fio.scenario, fio.proven)[fio.step] = "kill"

\* The daemon ended as the step expects; its group is cleaned up.
FioExited ==
  /\ fio.at = "exit"
  /\ daemon.state = "exited"
  /\ daemon.status = IF FioKilling THEN "killed" ELSE "ok"
  /\ BeginCleanup
  /\ fio' = [fio EXCEPT !.at = "reap"]
  /\ UNCHANGED <<kernelVars, deletion, stray, strayed, second, fileVars>>

FioReaped ==
  /\ fio.at = "reap"
  /\ reap \in {"ok", "error"}
  /\ reap' = "idle"
  /\ fio' = IF reap = "error" THEN Failed(fio)
            ELSE IF FioKilling THEN Advance([fio EXCEPT !.child = FALSE])
            ELSE [fio EXCEPT !.at = "gone", !.child = FALSE]
  /\ UNCHANGED <<kernelVars, daemon, deletion, stray, strayed, second, fileVars>>

\* wait_for_disappearance
FioGone ==
  /\ fio.at = "gone"
  /\ devices[fio.device.id] = NoDevice
  /\ fio' = Advance([fio EXCEPT !.device = Unrecorded])
  /\ UNCHANGED worldVars

FioHandshake ==
  /\ Op("handshake")
  /\ daemon.state = "parked"
  /\ fio' = Advance(fio)
  /\ UNCHANGED worldVars

\* A stopped device counts as gone (mutant of FioIdentity).
FioIdentityLax(identity) ==
  /\ Op("remove")
  /\ identity \in Classify(fio.device)
  /\ fio' = CASE identity \in {"Absent", "StoppedMatching"} ->
                   Advance([fio EXCEPT !.device = Unrecorded])
              [] identity = "Matching" -> [fio EXCEPT !.at = "delete"]
              [] OTHER -> Refuse(identity)
  /\ UNCHANGED worldVars

\* wait_for_remove_after_kill_identity; an identity that may still change is decided at the
\* deadline.
FioIdentity(identity) ==
  /\ Op("remove")
  /\ identity \in Classify(fio.device)
  /\ fio' = CASE identity = "Absent" -> Advance([fio EXCEPT !.device = Unrecorded])
              [] identity \in {"Matching", "StoppedMatching"} -> [fio EXCEPT !.at = "delete"]
              [] OTHER -> Refuse(identity)
  /\ UNCHANGED worldVars

StartDelete == deletion' = [id |-> fio.device.id, state |-> "running"]

\* require_deletable_device, then the delete command
FioDelete(identity) ==
  /\ fio.at = "delete"
  /\ identity \in Classify(fio.device)
  /\ IF identity \in {"Matching", "StoppedMatching"}
     THEN StartDelete /\ fio' = [fio EXCEPT !.at = "deleting"]
     ELSE UNCHANGED deletion /\ fio' = Refuse(identity)
  /\ UNCHANGED <<kernelVars, daemon, reap, stray, strayed, second, fileVars>>

FioDeleted ==
  /\ fio.at = "deleting"
  /\ deletion.state = "done"
  /\ deletion' = NoDeletion
  /\ fio' = [fio EXCEPT !.at = "gone"]
  /\ UNCHANGED <<kernelVars, daemon, reap, stray, strayed, second, fileVars>>

FioDeleteFails(reaped) ==
  /\ fio.at = "deleting"
  /\ AbandonDelete(reaped)
  /\ fio' = Failed(fio)
  /\ UNCHANGED <<kernelVars, daemon, reap, second, fileVars>>

\* The fixture of a passed repetition is removed; the last one ends the suite.
FioClear ==
  /\ Op("clear")
  /\ dir' = FALSE
  /\ image' = FALSE
  /\ IF fio.round = FioRounds
     THEN fio' = [fio EXCEPT !.at = "pass", !.backing = FALSE, !.temp = FALSE]
     ELSE \E scenario \in DOMAIN Scenarios :
            fio' = [fio EXCEPT !.at = "script", !.step = 1, !.round = @ + 1, !.backing = FALSE,
                               !.temp = FALSE, !.scenario = scenario]
  /\ UNCHANGED <<kernelVars, processVars>>

\* OwnedTempDir::cleanup stops at the first entry it cannot remove.
FioClearFails(imageLeft) ==
  /\ Op("clear")
  /\ image' = imageLeft
  /\ fio' = Failed([fio EXCEPT !.backing = FALSE])
  /\ UNCHANGED <<kernelVars, processVars, dir>>

FioError ==
  /\ fio.at \in {"script", "ready", "exit", "gone", "delete"}
  /\ fio' = Failed(fio)
  /\ UNCHANGED worldVars

-----------------------------------------------------------------------------
(* cleanup_error_with.                                                     *)

\* preserve_temp: nothing is removed.
Preserve == [fio EXCEPT !.at = "fail", !.temp = FALSE, !.backing = FALSE]

\* The device is looked at while the daemon may still stop it (mutant of CleanChild).
CleanChildLater ==
  /\ fio.at = "failed"
  /\ fio' = [fio EXCEPT !.at = "clean_device"]
  /\ UNCHANGED worldVars

CleanChild ==
  /\ fio.at = "failed"
  /\ IF fio.child
     THEN BeginCleanup /\ fio' = [fio EXCEPT !.at = "clean_child"]
     ELSE UNCHANGED <<daemon, reap>> /\ fio' = [fio EXCEPT !.at = "clean_device"]
  /\ UNCHANGED <<kernelVars, deletion, stray, strayed, second, fileVars>>

\* A daemon that was not reaped is taken for gone (mutant of CleanChildDone).
CleanChildAssumed ==
  /\ fio.at = "clean_child"
  /\ reap \in {"ok", "error"}
  /\ reap' = "idle"
  /\ fio' = [fio EXCEPT !.at = "clean_device", !.child = FALSE]
  /\ UNCHANGED <<kernelVars, daemon, deletion, stray, strayed, second, fileVars>>

CleanChildDone ==
  /\ fio.at = "clean_child"
  /\ reap \in {"ok", "error"}
  /\ reap' = "idle"
  /\ fio' = IF reap = "error" THEN Preserve ELSE [fio EXCEPT !.at = "clean_device", !.child = FALSE]
  /\ UNCHANGED <<kernelVars, daemon, deletion, stray, strayed, second, fileVars>>

\* Nothing was recorded, or the record is in doubt.
CleanUnrecorded ==
  /\ fio.at = "clean_device"
  /\ fio.keep \/ fio.device = Unrecorded
  /\ fio' = IF fio.keep THEN Preserve ELSE [fio EXCEPT !.at = "clean_files"]
  /\ UNCHANGED worldVars

CleanDevice(identity) ==
  /\ fio.at = "clean_device"
  /\ ~fio.keep /\ fio.device # Unrecorded
  /\ identity \in Classify(fio.device)
  /\ IF identity \in {"Matching", "StoppedMatching"}
     THEN StartDelete /\ fio' = [fio EXCEPT !.at = "clean_deleting"]
     ELSE /\ UNCHANGED deletion
          /\ fio' = IF identity = "Absent" THEN [fio EXCEPT !.at = "clean_files"] ELSE Preserve
  /\ UNCHANGED <<kernelVars, daemon, reap, stray, strayed, second, fileVars>>

CleanDeleted ==
  /\ fio.at = "clean_deleting"
  /\ deletion.state = "done"
  /\ deletion' = NoDeletion
  /\ fio' = [fio EXCEPT !.at = "clean_gone"]
  /\ UNCHANGED <<kernelVars, daemon, reap, stray, strayed, second, fileVars>>

CleanDeleteFails(reaped) ==
  /\ fio.at = "clean_deleting"
  /\ AbandonDelete(reaped)
  /\ fio' = Preserve
  /\ UNCHANGED <<kernelVars, daemon, reap, second, fileVars>>

CleanGone(disappeared) ==
  /\ fio.at = "clean_gone"
  /\ disappeared => devices[fio.device.id] = NoDevice
  /\ fio' = IF disappeared THEN [fio EXCEPT !.at = "clean_files"] ELSE Preserve
  /\ UNCHANGED worldVars

\* The files go only if the image is the recorded one, or there is none.
CleanFiles(valid, removed, imageLeft) ==
  /\ fio.at = "clean_files"
  /\ IF fio.temp /\ (IF fio.backing THEN valid ELSE ~image)
     THEN /\ dir' = ~removed
          /\ image' = (image /\ ~removed /\ imageLeft)
     ELSE UNCHANGED fileVars
  /\ fio' = Preserve
  /\ UNCHANGED <<kernelVars, processVars>>

-----------------------------------------------------------------------------
FioInit == \E scenario \in DOMAIN Scenarios :
             fio = [FioIdle EXCEPT !.at = "script", !.scenario = scenario]

Identities == {"Matching", "StoppedMatching", "Absent", "IdentityChanged", "Ambiguous"}

FioNext ==
  \/ FioSetup
  \/ \E created, valid \in BOOLEAN : FioFormat(created, valid)
  \/ FioStart
  \/ FioReady
  \/ \E identity \in Identities : FioRun(identity)
  \/ FioLock
  \/ FioLockProven
  \/ \E reaped \in BOOLEAN : FioLockLost(reaped)
  \/ FioSignal
  \/ FioExited
  \/ FioReaped
  \/ FioGone
  \/ FioHandshake
  \/ \E identity \in Identities : FioIdentity(identity)
  \/ \E identity \in Identities : FioDelete(identity)
  \/ FioDeleted
  \/ \E reaped \in BOOLEAN : FioDeleteFails(reaped)
  \/ FioClear
  \/ \E imageLeft \in BOOLEAN : FioClearFails(imageLeft)
  \/ FioError
  \/ CleanChild
  \/ CleanChildDone
  \/ CleanUnrecorded
  \/ \E identity \in Identities : CleanDevice(identity)
  \/ CleanDeleted
  \/ \E reaped \in BOOLEAN : CleanDeleteFails(reaped)
  \/ \E disappeared \in BOOLEAN : CleanGone(disappeared)
  \/ \E valid, removed, imageLeft \in BOOLEAN : CleanFiles(valid, removed, imageLeft)
=============================================================================
