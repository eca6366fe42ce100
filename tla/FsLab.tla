-------------------------------- MODULE FsLab --------------------------------
(***************************************************************************)
(* The ext4 and XFS suites (ext4/): each repetition runs STEPS on a fresh  *)
(* fixture, then removes it.  After a failure recover_error unmounts and   *)
(* stops what it can still identify, and everything else is preserved:     *)
(* the daemon must not be taken away from under a mounted filesystem.      *)
(*                                                                         *)
(* FsError stands for every early return that changes nothing, the elapsed *)
(* deadlines included.  Evidence and outputs are left out; SqliteLab adds  *)
(* what the SQLite modes do at the same steps.                             *)
(***************************************************************************)
EXTENDS MountHelper

CONSTANT FsRounds       \* REPETITIONS

ASSUME FsRoundsAssumption == FsRounds \in Nat \ {0}

VARIABLE fs             \* the suite: its place, and the fields of Lab

STEPS ==
  <<"Format", "Start", "Mkfs", "Check", "Mount", "Populate", "Verify", "Unmount", "Check", "Stop",
    "Start", "Check", "Mount", "Verify", "Unmount", "Check", "Stop", "Finish">>

FsIdle ==
  [at |-> "off", step |-> 1, round |-> 1, device |-> Unrecorded, daemon |-> FALSE,
   command |-> FALSE, formats |-> FALSE, attempted |-> FALSE, recovering |-> FALSE, sqlite |-> FALSE]

Step(op) == fs.at = "script" /\ STEPS[fs.step] = op

\* The next step; recover_error ends after its stop.
Proceed(r) ==
  IF r.recovering THEN [r EXCEPT !.at = "drop"] ELSE [r EXCEPT !.at = "script", !.step = @ + 1]

\* An error leaves the lifecycle, or recover_error.
Fails(r) == [r EXCEPT !.at = IF r.recovering THEN "drop" ELSE "failed"]

\* validate_device
Validated ==
  /\ fs.daemon /\ Alive
  /\ fs.device # Unrecorded
  /\ devices[fs.device.id].state = "live" /\ Same(fs.device)

RequireUnmounted == Validated /\ TableUnmounted

RequireMounted == Validated /\ TableMounted

-----------------------------------------------------------------------------
(* Commands.  A command that cannot be reaped stays recorded, and while it *)
(* is, no other one starts.                                                *)

\* run_captured_command of a mount helper
RunHelper(action, at) ==
  /\ ~fs.command
  /\ helper' = [action |-> action, stage |-> "check"]
  /\ fs' = [fs EXCEPT !.at = at, !.command = TRUE, !.attempted = @ \/ action = "mount"]

\* Mutant of AfterCleanup: a command that was not reaped is forgotten.
AfterCleanupForgotten(reaped) == [fs EXCEPT !.command = FALSE]

\* What a command leaves in Lab::command when its cleanup succeeds or fails.
AfterCleanup(reaped) == [fs EXCEPT !.command = ~reaped]

\* The helper's exit is seen in time.
HelperSucceeded(at, r) ==
  /\ fs.at = at
  /\ helper.stage = "ok"
  /\ helper' = NoHelper
  /\ fs' = r

\* The helper fails, or its time is up: it is killed wherever it is, or survives the cleanup.
FsHelperFails(reaped) ==
  /\ fs.at \in {"formatting", "mounting", "unmounting"}
  /\ helper' = IF reaped THEN NoHelper ELSE helper
  /\ fs' = Fails(AfterCleanup(reaped))
  /\ UNCHANGED <<worldVars, mountVars>>

\* Any other command of a step fails; it may survive its cleanup too.
FsCommandFails(reaped) ==
  /\ \E op \in {"Mkfs", "Check", "Populate", "Verify"} : Step(op)
  /\ fs' = Fails(AfterCleanup(reaped))
  /\ UNCHANGED <<worldVars, helperVars>>

\* A surviving format command creates the image now or never: nothing looks at it any more.
FsFormatFails(created, reaped) ==
  /\ Step("Format")
  /\ dir' = TRUE
  /\ image' = created
  /\ fs' = [Fails(AfterCleanup(reaped)) EXCEPT !.formats = TRUE]
  /\ UNCHANGED <<kernelVars, processVars, helperVars>>

\* A format command outlived its cleanup.
FormatLeft == fs.command /\ fs.formats

-----------------------------------------------------------------------------
(* The lifecycle.                                                          *)

\* Lab::new and format
FsFormat(done) ==
  /\ Step("Format")
  /\ dir' = TRUE
  /\ image' = TRUE
  /\ fs' = IF done THEN Proceed(fs) ELSE Fails(fs)
  /\ UNCHANGED <<kernelVars, processVars, helperVars>>

FsStart ==
  /\ Step("Start")
  /\ ~fs.daemon /\ fs.device = Unrecorded
  /\ Spawn(FALSE)
  /\ fs' = [fs EXCEPT !.at = "ready", !.daemon = TRUE]
  /\ UNCHANGED <<kernelVars, reap, deletion, stray, strayed, second, fileVars, helperVars>>

\* The device is recorded; what start checks of it afterwards may still fail.
FsReady(accepted) ==
  /\ fs.at = "ready"
  /\ Alive /\ daemon.ready
  /\ devices[daemon.id].state = "live"
  /\ accepted => TableUnmounted
  /\ devices' = [devices EXCEPT ![daemon.id].known = @ \/ devices[daemon.id].owner = "lab"]
  /\ LET recorded == [fs EXCEPT !.device = Record(daemon.id)]
     IN  fs' = IF accepted THEN Proceed(recorded) ELSE Fails(recorded)
  /\ UNCHANGED <<generation, foreignLost, processVars, fileVars, helperVars>>

\* mkfs.ext4 and the filesystem checks of an unmounted device
FsCheck ==
  /\ Step("Mkfs") \/ Step("Check")
  /\ RequireUnmounted
  /\ work' = IF Step("Mkfs") THEN "none" ELSE work
  /\ fs' = Proceed(fs)
  /\ UNCHANGED <<worldVars, mount, foreignMount, helper>>

\* mkfs.xfs, through the helper
FsFormatXfs ==
  /\ Step("Mkfs")
  /\ RequireUnmounted
  /\ RunHelper("format", "formatting")
  /\ UNCHANGED <<worldVars, mountVars>>

FsFormattedXfs ==
  /\ HelperSucceeded("formatting", Proceed(AfterCleanup(TRUE)))
  /\ UNCHANGED <<worldVars, mountVars>>

\* mount: the attempt is recorded before the helper starts.
FsMount ==
  /\ Step("Mount")
  /\ RequireUnmounted
  /\ RunHelper("mount", "mounting")
  /\ UNCHANGED <<worldVars, mountVars>>

FsMounted(verified) ==
  /\ HelperSucceeded("mounting",
       IF verified THEN Proceed(AfterCleanup(TRUE)) ELSE Fails(AfterCleanup(TRUE)))
  /\ verified => RequireMounted
  /\ UNCHANGED <<worldVars, mountVars>>

\* files: the workload of a mounted filesystem
FsFiles ==
  /\ Step("Populate") \/ Step("Verify")
  /\ RequireMounted
  /\ fs' = Proceed(fs)
  /\ UNCHANGED <<worldVars, helperVars>>

FsUnmount ==
  /\ Step("Unmount") \/ fs.at = "recover_mounted"
  /\ RequireMounted
  /\ RunHelper("unmount", "unmounting")
  /\ UNCHANGED <<worldVars, mountVars>>

\* recover_error goes on to stop.
FsUnmounted(verified) ==
  LET done == [AfterCleanup(TRUE) EXCEPT !.attempted = FALSE]
  IN  /\ HelperSucceeded("unmounting",
           IF ~verified THEN Fails(AfterCleanup(TRUE))
           ELSE IF fs.recovering THEN [done EXCEPT !.at = "recover_stop"] ELSE Proceed(done))
      /\ verified => RequireUnmounted
      /\ UNCHANGED <<worldVars, mountVars>>

\* stop: the check, SIGTERM, a successful exit, the group's cleanup, and the device's end
FsStop ==
  /\ Step("Stop") \/ fs.at = "recover_stop"
  /\ RequireUnmounted
  /\ fs' = [fs EXCEPT !.at = "term"]
  /\ UNCHANGED <<worldVars, helperVars>>

FsTerminate ==
  /\ fs.at = "term"
  /\ Signal("TERM")
  /\ fs' = [fs EXCEPT !.at = "exit"]
  /\ UNCHANGED <<kernelVars, reap, deletion, stray, strayed, second, fileVars, helperVars>>

FsExited ==
  /\ fs.at = "exit"
  /\ daemon.state = "exited" /\ daemon.status = "ok"
  /\ BeginCleanup
  /\ fs' = [fs EXCEPT !.at = "reap"]
  /\ UNCHANGED <<kernelVars, deletion, stray, strayed, second, fileVars, helperVars>>

FsReaped ==
  /\ fs.at = "reap"
  /\ reap \in {"ok", "error"}
  /\ reap' = "idle"
  /\ fs' = IF reap = "ok" THEN [fs EXCEPT !.at = "gone"] ELSE Fails(fs)
  /\ UNCHANGED <<kernelVars, daemon, deletion, stray, strayed, second, fileVars, helperVars>>

\* The logs are checked last: by then neither daemon nor device is recorded.
FsGone(logged) ==
  /\ fs.at = "gone"
  /\ devices[fs.device.id] = NoDevice
  /\ LET stopped == [fs EXCEPT !.daemon = FALSE, !.device = Unrecorded]
     IN  fs' = IF logged THEN Proceed(stopped) ELSE Fails(stopped)
  /\ UNCHANGED <<worldVars, helperVars>>

\* finish removes the fixture when nothing of it is in use.
FinishAllowed ==
  /\ ~fs.daemon /\ fs.device = Unrecorded /\ ~fs.command /\ ~fs.attempted
  /\ ~mount

RemoveFixture ==
  /\ Step("Finish")
  /\ FinishAllowed
  /\ dir' = FALSE
  /\ image' = FALSE
  /\ work' = "none"
  /\ UNCHANGED <<kernelVars, processVars, mount, foreignMount, helper>>

FsFinish ==
  /\ RemoveFixture
  /\ fs' = IF fs.round = FsRounds THEN [fs EXCEPT !.at = "pass"]
           ELSE [fs EXCEPT !.step = 1, !.round = @ + 1]

\* OwnedTempDir::cleanup stops half-way: the fixture remains, the image may not.
FsFinishFails(imageLeft) ==
  /\ Step("Finish")
  /\ FinishAllowed
  /\ image' = imageLeft
  /\ fs' = Fails(fs)
  /\ UNCHANGED <<kernelVars, processVars, dir, helperVars>>

FsError ==
  /\ fs.at \in {"script", "ready", "term", "exit", "gone", "recover_mounted", "recover_stop"}
  /\ fs' = Fails(fs)
  /\ UNCHANGED <<worldVars, helperVars>>

-----------------------------------------------------------------------------
(* recover_error, and Drop for Lab.                                        *)

\* A command left over is cleaned up first, wherever it has got to.
FsRecover(reaped) ==
  /\ fs.at = "failed"
  /\ ~fs.command => reaped
  /\ helper' = IF fs.command /\ reaped THEN NoHelper ELSE helper
  /\ fs' = IF reaped THEN [AfterCleanup(TRUE) EXCEPT !.at = "recover", !.recovering = TRUE]
           ELSE [fs EXCEPT !.at = "drop"]
  /\ UNCHANGED <<worldVars, mountVars>>

\* Without a recorded device a living daemon is preserved, and a dead one reaped.
FsRecoverDaemon ==
  /\ fs.at = "recover"
  /\ fs.device = Unrecorded
  /\ IF fs.daemon /\ ~Alive
     THEN BeginCleanup /\ fs' = [fs EXCEPT !.at = "recover_reap"]
     ELSE fs' = [fs EXCEPT !.at = "drop"] /\ UNCHANGED <<daemon, reap>>
  /\ UNCHANGED <<kernelVars, deletion, stray, strayed, second, fileVars, helperVars>>

FsRecoverReaped ==
  /\ fs.at = "recover_reap"
  /\ reap \in {"ok", "error"}
  /\ reap' = "idle"
  /\ fs' = [fs EXCEPT !.at = "drop", !.daemon = reap # "ok"]
  /\ UNCHANGED <<kernelVars, daemon, deletion, stray, strayed, second, fileVars, helperVars>>

\* A recorded device is unmounted if the lab tried to mount it, and stopped.
FsRecoverDevice ==
  /\ fs.at = "recover"
  /\ fs.device # Unrecorded
  /\ fs' = [fs EXCEPT !.at =
       IF ~Validated THEN "drop"
       ELSE IF TableUnmounted THEN "recover_stop"
       ELSE IF fs.attempted THEN "recover_mounted" ELSE "drop"]
  /\ UNCHANGED <<worldVars, helperVars>>

\* The failure cannot even be recorded: run returns without recover_error.
FsUnrecoverable ==
  /\ fs.at = "failed"
  /\ fs' = [fs EXCEPT !.at = "drop"]
  /\ UNCHANGED <<worldVars, helperVars>>

\* Drop preserves the directory and the children, and signals nothing.
FsDrop ==
  /\ fs.at = "drop"
  /\ fs' = [fs EXCEPT !.at = "fail"]
  /\ UNCHANGED <<worldVars, helperVars>>

-----------------------------------------------------------------------------
FsInit == fs = [FsIdle EXCEPT !.at = "script"]

\* The steps that are the same for every workload.
FsCommonNext ==
  \/ \E reaped \in BOOLEAN : FsHelperFails(reaped)
  \/ \E reaped \in BOOLEAN : FsCommandFails(reaped)
  \/ \E created, reaped \in BOOLEAN : FsFormatFails(created, reaped)
  \/ \E accepted \in BOOLEAN : FsReady(accepted)
  \/ FsCheck
  \/ FsFormatXfs
  \/ FsFormattedXfs
  \/ FsMount
  \/ FsUnmount
  \/ \E verified \in BOOLEAN : FsUnmounted(verified)
  \/ FsTerminate
  \/ FsExited
  \/ FsReaped
  \/ \E reaped \in BOOLEAN : FsRecover(reaped)
  \/ FsRecoverReaped
  \/ FsRecoverDevice
  \/ FsUnrecoverable

FsNext ==
  \/ FsCommonNext
  \/ \E done \in BOOLEAN : FsFormat(done)
  \/ FsStart
  \/ \E verified \in BOOLEAN : FsMounted(verified)
  \/ FsFiles
  \/ FsStop
  \/ \E logged \in BOOLEAN : FsGone(logged)
  \/ FsFinish
  \/ \E imageLeft \in BOOLEAN : FsFinishFails(imageLeft)
  \/ FsError
  \/ FsRecoverDaemon
  \/ FsDrop
=============================================================================
