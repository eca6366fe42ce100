------------------------------ MODULE MCVolume ------------------------------
(***************************************************************************)
(* Small instances of Volume for TLC.                                      *)
(***************************************************************************)
EXTENDS Volume

\* A one-slot cache with a write-through buffer, and a cache that holds every
\* page with a buffer of several blocks: a volume may be reopened with either.
SmallCache == [cap |-> 1, buf |-> 1, after |-> 4]
LargeCache == [cap |-> 3, buf |-> 3, after |-> 6]
SmallAndLarge == {SmallCache, LargeCache}

\* A tail of four blocks at most before a release publishes.
ShortTail == {[cap |-> 2, buf |-> 2, after |-> 4]}

\* One or two slots and buffer blocks over a log of long records.
MidAndSmall == {[cap |-> 1, buf |-> 1, after |-> 6], [cap |-> 2, buf |-> 2, after |-> 6]}
=============================================================================
