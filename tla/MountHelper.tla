----------------------------- MODULE MountHelper -----------------------------
(***************************************************************************)
(* The privileged mount helper (rust/src/bin/block-storage-mount.rs) as a  *)
(* process of its own: between its checks, the mount, the preparation of   *)
(* the work directory and the rollback, it can be killed by its alarm or   *)
(* by the lab, and it runs on while the lab gives up on it.                *)
(*                                                                         *)
(* The daemon is LabWorld's.  Fixture::open succeeds on a live device of   *)
(* the lab; what it checks of owners, modes and sizes is one refusal.      *)
(***************************************************************************)
EXTENDS LabWorld

VARIABLES
  mount,         \* the lab's device is mounted on the owned mount directory
  foreignMount,  \* somebody else mounted the lab's device
  work,          \* the work directory of the filesystem, by owner
  helper         \* the helper's process

mountVars == <<mount, foreignMount, work>>
helperVars == <<mountVars, helper>>

NoHelper == [action |-> "none", stage |-> "none"]

HelperStage(stage) == helper' = [helper EXCEPT !.stage = stage]

\* fs_support::require_unmounted and require_mounted_for over the mount table
TableUnmounted == ~mount /\ ~foreignMount

TableMounted == mount /\ ~foreignMount

\* verified_device
FixtureOpens ==
  \E id \in Ids : devices[id].owner = "lab" /\ devices[id].state = "live"

\* Fixture::format_xfs, up to the formatter's exit
HelperFormats ==
  /\ helper = [action |-> "format", stage |-> "check"]
  /\ FixtureOpens /\ TableUnmounted
  /\ work' = "none"
  /\ HelperStage("ok")
  /\ UNCHANGED <<mount, foreignMount>>

\* Fixture::mount, up to the mount system call
HelperMounts ==
  /\ helper = [action |-> "mount", stage |-> "check"]
  /\ FixtureOpens /\ TableUnmounted
  /\ mount' = TRUE
  /\ HelperStage("setup")
  /\ UNCHANGED <<foreignMount, work>>

\* mount_id and the first half of create_work_directory: the new directory is root's.
HelperPrepares(made) ==
  /\ helper.stage = "setup"
  /\ IF ~TableMounted \/ work = "root" \/ (work = "none" /\ ~made)
     THEN HelperStage("rollback") /\ UNCHANGED work
     ELSE IF work = "caller" THEN HelperStage("ok") /\ UNCHANGED work
     ELSE work' = "root" /\ HelperStage("chown")
  /\ UNCHANGED <<mount, foreignMount>>

\* fchown and the syncs after it, or the failure of one
HelperChowns(owned, done) ==
  /\ helper.stage = "chown"
  /\ done => owned
  /\ work' = IF owned THEN "caller" ELSE work
  /\ HelperStage(IF done THEN "ok" ELSE "rollback")
  /\ UNCHANGED <<mount, foreignMount>>

\* rollback_mount: the mount stays if it is not the one recorded, or is busy.
HelperRollsBack(done) ==
  /\ helper.stage = "rollback"
  /\ done => TableMounted
  /\ mount' = (mount /\ ~done)
  /\ HelperStage("failed")
  /\ UNCHANGED <<foreignMount, work>>

\* Fixture::unmount
HelperUnmounts ==
  /\ helper = [action |-> "unmount", stage |-> "check"]
  /\ FixtureOpens /\ TableMounted
  /\ mount' = FALSE
  /\ HelperStage("ok")
  /\ UNCHANGED <<foreignMount, work>>

\* Any refusal before the helper changed anything, and the alarm at any point.
HelperEnds ==
  /\ helper.stage \in {"check", "setup", "chown", "rollback"}
  /\ HelperStage("failed")
  /\ UNCHANGED mountVars

\* Somebody else mounts the live, formatted device elsewhere, and unmounts it.
ForeignMounts ==
  /\ foreignMount \/ FixtureOpens
  /\ foreignMount' = ~foreignMount
  /\ UNCHANGED <<mount, work, helper>>

HelperInit ==
  /\ mount = FALSE
  /\ foreignMount = FALSE
  /\ work = "none"
  /\ helper = NoHelper

HelperNext ==
  \/ HelperFormats
  \/ HelperMounts
  \/ \E made \in BOOLEAN : HelperPrepares(made)
  \/ \E owned, done \in BOOLEAN : HelperChowns(owned, done)
  \/ \E done \in BOOLEAN : HelperRollsBack(done)
  \/ HelperUnmounts
  \/ HelperEnds
  \/ ForeignMounts
=============================================================================
