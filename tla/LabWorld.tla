------------------------------ MODULE LabWorld ------------------------------
(***************************************************************************)
(* What the lab's live suites run on (rust/src/bin/block-storage-lab): the *)
(* kernel's table of ublk devices, the daemon in a process group of its    *)
(* own (ManagedChild), the owned temporary directory with the backing      *)
(* image, and another user of ublk who takes device ids as they get free.  *)
(*                                                                         *)
(* The kernel and the daemon are external to the lab: they are modelled as *)
(* the lab sees them, through device paths, exit statuses and stdout.      *)
(* Daemon is the module about the daemon's own threads.                    *)
(***************************************************************************)
EXTENDS Integers, Sequences, FiniteSets

CONSTANT Ids        \* ublk device ids

ASSUME IdsAssumption == Ids \subseteq Nat /\ Ids # {}

VARIABLES
  devices,      \* id -> the kernel's device
  generation,   \* identity given to the lab's next device
  daemon,       \* the daemon's process
  reap,         \* where ManagedChild::cleanup of the daemon is
  deletion,     \* the running `delete` command
  stray,        \* ids of delete commands that could not be reaped
  strayed,      \* observer: some delete command could not be reaped
  second,       \* the second daemon of the lock proof
  foreignLost,  \* observer: a delete command removed somebody else's device
  dir,          \* the owned temporary directory exists
  image         \* backing.img exists in it

kernelVars == <<devices, generation, foreignLost>>
processVars == <<daemon, reap, deletion, stray, strayed, second>>
fileVars == <<dir, image>>
worldVars == <<kernelVars, processVars, fileVars>>

None == -1

-----------------------------------------------------------------------------
(* Kernel devices.  A device is inactive while only its class directory    *)
(* exists, live while node, block and class directories exist, and partial *)
(* in between.  known: the lab recorded it (observer).                     *)

Device ==
  [owner: {"none", "lab", "second", "other"}, gen: BOOLEAN,
   state: {"absent", "inactive", "partial", "live"}, known: BOOLEAN]

NoDevice == [owner |-> "none", gen |-> FALSE, state |-> "absent", known |-> FALSE]

LeastFree(id) ==
  /\ devices[id] = NoDevice
  /\ \A k \in Ids : devices[k] = NoDevice => id <= k

\* ValidatedDevice: the id and the identity of the class directory.
Record(id) == [id |-> id, owner |-> devices[id].owner, gen |-> devices[id].gen]

Unrecorded == [id |-> None, owner |-> "none", gen |-> FALSE]

\* The owner and the generation stand for that identity: sysfs numbers its directories cyclically,
\* so that two devices of one run have different ones.
Same(record) ==
  devices[record.id].owner = record.owner /\ devices[record.id].gen = record.gen

\* still_matches: any read of the paths may fail, and the geometry of somebody else's device
\* may differ.
Classify(record) ==
  {"Ambiguous"} \cup
    CASE devices[record.id].state = "absent" -> {"Absent"}
      [] devices[record.id].state = "partial" -> {}
      [] devices[record.id].state = "inactive" ->
           {IF Same(record) THEN "StoppedMatching" ELSE "IdentityChanged"}
      [] OTHER -> {IF Same(record) THEN "Matching" ELSE "IdentityChanged"}

Fade(state) ==
  CASE state = "live" -> "partial" [] state = "partial" -> "inactive" [] OTHER -> "absent"

-----------------------------------------------------------------------------
(* The daemon's process.                                                   *)

NoDaemon ==
  [state |-> "none", id |-> None, signal |-> "none", status |-> "none", ready |-> FALSE,
   failpoint |-> FALSE]

Alive == daemon.state \in {"starting", "serving", "parked"}

\* ManagedChild::spawn
Spawn(failpoint) ==
  daemon' = [NoDaemon EXCEPT !.state = "starting", !.failpoint = failpoint]

\* signal_group: a group that is gone is no error.
Signal(signal) ==
  daemon' = IF Alive /\ daemon.signal # "KILL" THEN [daemon EXCEPT !.signal = signal] ELSE daemon

DaemonAdds(id) ==
  /\ daemon.state = "starting" /\ daemon.id = None /\ daemon.signal # "KILL"
  /\ LeastFree(id)
  /\ devices' = [devices EXCEPT ![id] =
       [owner |-> "lab", gen |-> generation, state |-> "inactive", known |-> FALSE]]
  /\ generation' = ~generation
  /\ daemon' = [daemon EXCEPT !.id = id]
  /\ UNCHANGED <<foreignLost, reap, deletion, stray, strayed, second, fileVars>>

\* The device is started and its path printed.
DaemonServes ==
  /\ daemon.state = "starting" /\ daemon.id # None /\ daemon.signal # "KILL"
  /\ devices[daemon.id].owner = "lab"
  /\ devices' = [devices EXCEPT ![daemon.id].state = "live"]
  /\ daemon' = [daemon EXCEPT !.state = "serving", !.ready = TRUE]
  /\ UNCHANGED <<generation, foreignLost, reap, deletion, stray, strayed, second, fileVars>>

\* After SIGTERM the daemon stops its device, deletes it and exits.
DaemonStops ==
  /\ daemon.state = "serving" /\ daemon.signal = "TERM"
  /\ IF devices[daemon.id].owner = "lab"
     THEN /\ devices' = IF devices[daemon.id].state = "inactive"
                        THEN [devices EXCEPT ![daemon.id] = NoDevice]
                        ELSE [devices EXCEPT ![daemon.id].state = Fade(@)]
          /\ UNCHANGED daemon
     ELSE daemon' = [daemon EXCEPT !.state = "exited", !.status = "ok"] /\ UNCHANGED devices
  /\ UNCHANGED <<generation, foreignLost, reap, deletion, stray, strayed, second, fileVars>>

\* The failpoint prints its name during the shutdown and waits to be killed.
DaemonParks ==
  /\ daemon.state = "serving" /\ daemon.signal = "TERM" /\ daemon.failpoint
  /\ daemon' = [daemon EXCEPT !.state = "parked"]
  /\ UNCHANGED <<kernelVars, reap, deletion, stray, strayed, second, fileVars>>

\* The daemon dies: killed, or by an error of its own.
DaemonDies ==
  /\ Alive
  /\ daemon.state = "parked" => daemon.signal = "KILL"
  /\ daemon' = [daemon EXCEPT !.state = "exited",
                  !.status = IF daemon.signal = "KILL" THEN "killed" ELSE "failed"]
  /\ UNCHANGED <<kernelVars, reap, deletion, stray, strayed, second, fileVars>>

\* The kernel stops a device that lost its daemon, and keeps it inactive.
KernelStops(id) ==
  /\ devices[id].owner \in {"lab", "second"} /\ devices[id].state \in {"live", "partial"}
  /\ ~(Alive /\ daemon.id = id)
  /\ devices[id].owner = "second" => second = "none"
  /\ devices' = [devices EXCEPT ![id].state = Fade(@)]
  /\ UNCHANGED <<generation, foreignLost, processVars, fileVars>>

-----------------------------------------------------------------------------
(* The second daemon, which the lock proof starts on the same image.  It   *)
(* has to fail on the lock of the first, and serves when that has died.    *)
(* One that survives its cleanup runs on, and nobody has a record of it.   *)

SecondRefused ==
  /\ second = "starting" /\ Alive
  /\ second' = "refused"
  /\ UNCHANGED <<kernelVars, daemon, reap, deletion, stray, strayed, fileVars>>

SecondAdds(id) ==
  /\ second = "starting" /\ ~Alive /\ image
  /\ LeastFree(id)
  /\ devices' = [devices EXCEPT ![id] =
       [owner |-> "second", gen |-> FALSE, state |-> "inactive", known |-> FALSE]]
  /\ second' = "adding"
  /\ UNCHANGED <<generation, foreignLost, daemon, reap, deletion, stray, strayed, fileVars>>

SecondServes(id) ==
  /\ second = "adding"
  /\ devices[id].owner = "second"
  /\ devices' = [devices EXCEPT ![id].state = "live"]
  /\ second' = "serving"
  /\ UNCHANGED <<generation, foreignLost, daemon, reap, deletion, stray, strayed, fileVars>>

SecondStops(id) ==
  /\ second \in {"serving", "stopping"}
  /\ devices[id].owner = "second"
  /\ devices' = IF devices[id].state = "inactive" THEN [devices EXCEPT ![id] = NoDevice]
                ELSE [devices EXCEPT ![id].state = Fade(@)]
  /\ second' = "stopping"
  /\ UNCHANGED <<generation, foreignLost, daemon, reap, deletion, stray, strayed, fileVars>>

\* It exits, by itself or killed.
SecondEnds ==
  /\ second \in {"starting", "adding", "serving", "stopping"}
  /\ second' = "none"
  /\ UNCHANGED <<kernelVars, daemon, reap, deletion, stray, strayed, fileVars>>

-----------------------------------------------------------------------------
(* Another user of ublk.                                                   *)

OtherAdds(id) ==
  /\ \A k \in Ids : devices[k].owner # "other"
  /\ LeastFree(id)
  /\ devices' = [devices EXCEPT ![id] =
       [owner |-> "other", gen |-> FALSE, state |-> "live", known |-> FALSE]]
  /\ UNCHANGED <<generation, foreignLost, processVars, fileVars>>

OtherDeletes(id) ==
  /\ devices[id].owner = "other"
  /\ devices' = [devices EXCEPT ![id] = NoDevice]
  /\ UNCHANGED <<generation, foreignLost, processVars, fileVars>>

-----------------------------------------------------------------------------
(* ManagedChild::cleanup: SIGTERM and a grace period, SIGKILL, then the    *)
(* leader and its group are reaped within a bound, or cleanup fails.       *)

BeginCleanup ==
  /\ Signal("TERM")
  /\ reap' = "grace"

CleanupKill ==
  /\ reap = "grace"
  /\ reap' = "killed"
  /\ Signal("KILL")
  /\ UNCHANGED <<kernelVars, deletion, stray, strayed, second, fileVars>>

CleanupReaps ==
  /\ reap = "killed"
  /\ ~Alive
  /\ reap' = "ok"
  /\ daemon' = NoDaemon
  /\ UNCHANGED <<kernelVars, deletion, stray, strayed, second, fileVars>>

\* The group outlives the bound, or a signal or wait fails.
CleanupFails ==
  /\ reap = "killed"
  /\ reap' = "error"
  /\ UNCHANGED <<kernelVars, daemon, deletion, stray, strayed, second, fileVars>>

-----------------------------------------------------------------------------
(* The delete command: the daemon's executable asked to delete an id.      *)

NoDeletion == [id |-> None, state |-> "none"]

Remove(id) ==
  /\ devices' = [devices EXCEPT ![id] = NoDevice]
  /\ foreignLost' = (foreignLost \/ devices[id].owner = "other")

DeleteRuns ==
  /\ deletion.state = "running"
  /\ Remove(deletion.id)
  /\ deletion' = [deletion EXCEPT
       !.state = IF devices[deletion.id] = NoDevice THEN "failed" ELSE "done"]
  /\ UNCHANGED <<generation, daemon, reap, stray, strayed, second, fileVars>>

StrayDeleteRuns(id) ==
  /\ id \in stray
  /\ Remove(id)
  /\ stray' = stray \ {id}
  /\ UNCHANGED <<generation, daemon, reap, deletion, strayed, second, fileVars>>

\* run_command_separate gives up on the command; it is killed and reaped, or it stays behind.
AbandonDelete(reaped) ==
  /\ deletion' = NoDeletion
  /\ IF reaped \/ deletion.state # "running" THEN UNCHANGED <<stray, strayed>>
     ELSE stray' = stray \cup {deletion.id} /\ strayed' = TRUE

-----------------------------------------------------------------------------
WorldInit ==
  /\ devices = [id \in Ids |-> NoDevice]
  /\ generation = FALSE
  /\ daemon = NoDaemon
  /\ reap = "idle"
  /\ deletion = NoDeletion
  /\ stray = {}
  /\ strayed = FALSE
  /\ second = "none"
  /\ foreignLost = FALSE
  /\ dir = FALSE
  /\ image = FALSE

WorldNext ==
  \/ \E id \in Ids : DaemonAdds(id)
  \/ DaemonServes
  \/ DaemonStops
  \/ DaemonParks
  \/ DaemonDies
  \/ \E id \in Ids : KernelStops(id)
  \/ CleanupKill
  \/ CleanupReaps
  \/ CleanupFails
  \/ DeleteRuns
  \/ \E id \in Ids : StrayDeleteRuns(id)

SecondNext ==
  \/ SecondRefused
  \/ \E id \in Ids : SecondAdds(id) \/ SecondServes(id) \/ SecondStops(id)
  \/ SecondEnds

OtherNext == \E id \in Ids : OtherAdds(id) \/ OtherDeletes(id)
=============================================================================
