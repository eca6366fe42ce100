---------------------------- MODULE BlockDevice ----------------------------
(***************************************************************************)
(* What the device promises its clients (the contract of ADR-03): a write  *)
(* is visible at once; a crash loses nothing that a flush has covered, and *)
(* of the rest leaves a prefix of the groups the device has hardened; an   *)
(* open makes what it found durable.                                       *)
(***************************************************************************)
CONSTANTS Lbas, Values, Zero

VARIABLES
  status,  \* "down", "up" or "failed"
  cur,     \* contents the client sees while the device is up
  newest,  \* contents made up of the hardened groups
  media    \* contents a crash may leave

vars == <<status, cur, newest, media>>

\* The client sees nothing of a device that is not up.
Hidden == <<>>

Init ==
  /\ status = "down" /\ cur = Hidden
  /\ newest = [l \in Lbas |-> Zero]
  /\ media = {newest}

Open ==
  /\ status = "down" /\ status' = "up"
  /\ \E image \in media : cur' = image /\ newest' = image /\ media' = {image}

Write ==
  /\ status = "up"
  /\ \E l \in Lbas, v \in Values : cur' = [cur EXCEPT ![l] = v]
  /\ UNCHANGED <<status, newest, media>>

\* A group of writes reaches the medium, in the background or on a flush.
Harden ==
  /\ status = "up"
  /\ \E S \in SUBSET Lbas :
       newest' = [l \in Lbas |-> IF l \in S THEN cur[l] ELSE newest[l]]
  /\ media' = media \cup {newest'}
  /\ UNCHANGED <<status, cur>>

Flush ==
  /\ status = "up" /\ newest = cur
  /\ media' = {cur}
  /\ UNCHANGED <<status, cur, newest>>

Close ==
  /\ status = "up" /\ newest = cur
  /\ status' = "down" /\ cur' = Hidden
  /\ media' = {newest}
  /\ UNCHANGED newest

\* An I/O error makes the device refuse every call until it is opened again.
Fail ==
  /\ status = "up" /\ status' = "failed" /\ cur' = Hidden
  /\ UNCHANGED <<newest, media>>

Crash ==
  /\ status # "down" /\ status' = "down" /\ cur' = Hidden
  /\ UNCHANGED <<newest, media>>

Next == Open \/ Write \/ Harden \/ Flush \/ Close \/ Fail \/ Crash

Spec == Init /\ [][Next]_vars
=============================================================================
