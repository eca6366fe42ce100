----------------------------- MODULE BlockCheck -----------------------------
(***************************************************************************)
(* The blockcheck tool (tools/blockcheck): a Checker that drives a block   *)
(* target one request at a time and judges every block it reads back, and  *)
(* MemoryTarget, the simulated disk with a volatile cache, a planned fault *)
(* and injected failures that tests the checker.                           *)
(*                                                                         *)
(* The checker keeps a few version numbers per LBA instead of the history  *)
(* of requests.  The history is kept here as an observer (hist, flushed),  *)
(* and the verdicts are compared with what the history allows.             *)
(*                                                                         *)
(* A block is a pair <<lba, version>>: the payload generated for that LBA  *)
(* and version.  Version 0 is a zero block.  Report counters other than    *)
(* "some violation was recorded" are left out.                             *)
(***************************************************************************)
EXTENDS Integers, Sequences, FiniteSets

CONSTANTS
  BlockCount,         \* blocks of the target
  MaxVersion,         \* the largest version of an LBA (u32::MAX in the code)
  MaxRejected,        \* MAX_REJECTED_WRITES
  MaxRequests,        \* bound: versions used when the driver issues its last write or discard
  Faults              \* the faults a plan may name

ASSUME BlockCheckAssumption ==
  /\ BlockCount \in Nat \ {0}
  /\ MaxVersion \in Nat \ {0}
  /\ MaxRejected \in Nat
  /\ MaxRequests \in Nat
  /\ Faults \subseteq {"StaleRead", "MisdirectedWrite", "IgnoredDiscard", "LostFlush",
                       "UnflushedDiscard", "Resurrection", "RejectedWriteLands"}

Blocks == 0 .. BlockCount - 1

Versions == 0 .. MaxVersion

VARIABLES
  lbas,        \* Checker::lbas, one LbaState per LBA
  dirty,       \* how often each LBA is listed in Checker::dirty
  rejected,    \* Checker::rejected
  alarm,       \* a violation was recorded
  pc,          \* where the run is: see Phases
  durable, cached, pending, first,   \* MemoryTarget's vectors
  active,      \* the fault in force: the planned one once its first request is reached
  occurred,    \* faults_occurred > 0
  hist,        \* observer: the requests of each LBA by version
  flushed      \* observer: how many of them the last successful flush followed

checkerVars == <<lbas, dirty, rejected, alarm>>
mediumVars == <<durable, cached, pending, first>>
observerVars == <<hist, flushed>>
vars == <<checkerVars, pc, mediumVars, active, occurred, observerVars>>

-----------------------------------------------------------------------------
(* Contents and the payload codec.                                         *)

Zero == 0

Invalid == -1

ZeroBlock == <<0, 0>>

NoBlock == <<-1, 0>>

Medium == (Blocks \X Versions)

\* A payload decodes only at its own LBA.
Decode(block, lba) ==
  IF block[2] = 0 THEN Zero ELSE IF block[1] = lba THEN block[2] ELSE Invalid

Fill(lba, version, zero) == IF zero THEN ZeroBlock ELSE <<lba, version>>

-----------------------------------------------------------------------------
(* The checker's model of one LBA.                                         *)

LbaState ==
  [issued: Versions, latest: Versions, last_zero: Versions, durable: Versions,
   durable_is_payload: BOOLEAN, uncertain_write: Versions, uncertain_zero: Versions,
   needs_repair: BOOLEAN]

Unwritten ==
  [issued |-> 0, latest |-> 0, last_zero |-> 0, durable |-> 0, durable_is_payload |-> FALSE,
   uncertain_write |-> 0, uncertain_zero |-> 0, needs_repair |-> FALSE]

Expected(s) == IF s.latest # s.last_zero THEN s.latest ELSE Zero

WasRejected(lba, found) == <<lba, found>> \in rejected

\* live_violation returns None.
LiveOk(s, found) ==
  \/ found = Expected(s)
  \/ found = Zero /\ s.uncertain_zero > s.latest
  \/ found > 0 /\ found = s.uncertain_write /\ found > s.latest

\* crash_violation returns None.
ZeroAfterCrash(s) ==
  \/ ~s.durable_is_payload
  \/ s.last_zero > s.durable
  \/ s.uncertain_zero > s.durable

CrashOk(s, found, wasRejected) ==
  \/ found = Zero /\ ZeroAfterCrash(s)
  \/ /\ found > 0
     /\ ~wasRejected
     /\ LET uncertain == found = s.uncertain_write /\ found > s.durable
            durablePayload == s.durable_is_payload /\ found = s.durable
        IN  /\ found > s.latest => uncertain
            /\ durablePayload \/ uncertain \/ found > s.durable

\* What a request's result does to the LBA's state.
Acknowledge(s, version, zero) ==
  [s EXCEPT !.latest = version, !.last_zero = IF zero THEN version ELSE @]

UncertainLimit(s, zero) == (IF zero THEN s.uncertain_zero ELSE s.uncertain_write) # 0

\* An uncertain request that is not remembered (mutant of MarkUncertain).
ForgetUncertain(s, version, zero) == s

MarkUncertain(s, version, zero) ==
  IF UncertainLimit(s, zero) THEN s
  ELSE IF zero THEN [s EXCEPT !.uncertain_zero = version]
  ELSE [s EXCEPT !.uncertain_write = version]

Apply(s, version, zero, result) ==
  CASE result = "Ok" -> Acknowledge(s, version, zero)
    [] result = "Other" -> MarkUncertain(s, version, zero)
    [] OTHER -> s

Issue(s) == [s EXCEPT !.issued = @ + 1]

\* Every acknowledgement enters the dirty list (mutant of NewlyDirty).
AlwaysDirty(s) == TRUE

NewlyDirty(s) == s.latest = s.durable

\* A flush that does not note what it made durable (mutant of MakeDurable).
MakeVersionDurable(s) == [s EXCEPT !.durable = s.latest]

MakeDurable(s) == [s EXCEPT !.durable = s.latest, !.durable_is_payload = s.latest # s.last_zero]

RejectedFull == Cardinality(rejected) >= MaxRejected

-----------------------------------------------------------------------------
(* The simulated disk.                                                     *)

\* index ^ 1
Neighbour(lba) == IF lba % 2 = 0 THEN lba + 1 ELSE lba - 1

Landing(lba) ==
  IF active = "MisdirectedWrite" /\ Neighbour(lba) \in Blocks THEN Neighbour(lba) ELSE lba

CacheWrite(lba, block) ==
  LET index == Landing(lba)
  IN  /\ cached' = [cached EXCEPT ![index] = block]
      /\ pending' = [pending EXCEPT ![index] = "Write"]
      /\ first' = IF first[index] = NoBlock THEN [first EXCEPT ![index] = block] ELSE first
      /\ occurred' = (occurred \/ index # lba)
      /\ UNCHANGED durable

RejectWrite(lba, block) ==
  LET lands == active = "RejectedWriteLands"
  IN  /\ durable' = IF lands THEN [durable EXCEPT ![lba] = block] ELSE durable
      /\ occurred' = (occurred \/ lands)
      /\ UNCHANGED <<cached, pending, first>>

CacheDiscard(range) ==
  LET ignored == active = "IgnoredDiscard"
  IN  /\ pending' = [l \in Blocks |-> IF l \in range /\ ~ignored THEN "Discard" ELSE pending[l]]
      /\ occurred' = (occurred \/ ignored)
      /\ UNCHANGED <<durable, cached, first>>

\* How a write or discard goes: unharmed, or as the failure injected for it.  An injected failure
\* is taken by the next write or discard and cancelled by a crash, so it is chosen with the request.
Injected == {"None", "NoSpace", "IoErrorApplied", "IoErrorDropped"}

Result(failure) ==
  CASE failure = "None" -> "Ok"
    [] failure \in {"NoSpace", "Unsupported"} -> "Refused"
    [] OTHER -> "Other"

TargetWrite(lba, block, failure) ==
  CASE failure = "NoSpace" -> RejectWrite(lba, block)
    [] failure = "IoErrorDropped" -> UNCHANGED <<mediumVars, occurred>>
    [] OTHER -> CacheWrite(lba, block)

\* A target of another kind may also refuse the operation: IoFailure::Unsupported.
TargetDiscard(range, failure) ==
  IF failure \in {"NoSpace", "IoErrorDropped", "Unsupported"} THEN UNCHANGED <<mediumVars, occurred>>
  ELSE CacheDiscard(range)

\* The contents a read returns, and whether the stale-read fault chose them.
Visible(lba) ==
  LET seen == IF active = "StaleRead" THEN "None" ELSE pending[lba]
  IN  CASE seen = "Discard" -> ZeroBlock
        [] seen = "Write" -> cached[lba]
        [] OTHER -> durable[lba]

TargetRead(lba) ==
  /\ occurred' = (occurred \/ (active = "StaleRead" /\ pending[lba] # "None"))
  /\ UNCHANGED mediumVars

\* settle_block over the LBAs that do not stay cached; kept are the ones that survive.
Settle(kept, stays) ==
  /\ durable' = [l \in Blocks |->
       IF l \in kept \ stays
       THEN CASE pending[l] = "Write" -> cached[l]
              [] pending[l] = "Discard" -> ZeroBlock
              [] OTHER -> durable[l]
       ELSE durable[l]]
  /\ pending' = [l \in Blocks |-> IF l \in stays THEN pending[l] ELSE "None"]
  /\ UNCHANGED <<cached, first>>

TargetFlush ==
  LET discards == {l \in Blocks : pending[l] = "Discard"}
      writes == {l \in Blocks : pending[l] = "Write"}
  IN  /\ CASE active = "LostFlush" -> UNCHANGED mediumVars
           [] active = "UnflushedDiscard" -> Settle(Blocks, discards)
           [] OTHER -> Settle(Blocks, {})
      /\ occurred' = \/ occurred
                     \/ active = "LostFlush" /\ discards \cup writes # {}
                     \/ active = "UnflushedDiscard" /\ discards # {}

-----------------------------------------------------------------------------
(* The checker's requests.                                                 *)

Phases == {"idle", "crashed", "verify", "repair", "flush", "incomplete"}

At(phase, lba) == [at |-> phase, lba |-> lba]

Idle == At("idle", 0)

Incomplete == At("incomplete", 0)

\* The driver's workload is bounded.
WorkloadLeft ==
  Cardinality({r \in Blocks \X Versions : r[2] \in DOMAIN hist[r[1]]}) < MaxRequests

Observed(zero, result) == [zero |-> zero, result |-> result]

\* submit_write at an LBA with a version left: issue, the target's write, apply and finish.
\* onOk and onIo are where the run continues after success and after the target's failure.
SubmitWrite(lba, zero, failure, onOk, onIo) ==
  LET s == Issue(lbas[lba])
      version == s.issued
      result == Result(failure)
      limit == \/ result = "Other" /\ UncertainLimit(s, zero)
               \/ result = "Refused" /\ ~zero /\ RejectedFull
  IN  /\ lbas[lba].issued < MaxVersion
      /\ TargetWrite(lba, Fill(lba, version, zero), failure)
      /\ lbas' = [lbas EXCEPT ![lba] =
                    [Apply(s, version, zero, result) EXCEPT !.needs_repair = FALSE]]
      /\ dirty' = IF result = "Ok" /\ NewlyDirty(s) THEN [dirty EXCEPT ![lba] = @ + 1] ELSE dirty
      /\ rejected' = IF result = "Refused" /\ ~zero /\ ~limit
                     THEN rejected \cup {<<lba, version>>} ELSE rejected
      /\ hist' = [hist EXCEPT ![lba] = Append(@, Observed(zero, result))]
      /\ pc' = IF limit THEN Incomplete ELSE IF result = "Ok" THEN onOk ELSE onIo
      /\ UNCHANGED <<alarm, active, flushed>>

\* write and write_zero
Write(lba, zero, failure) ==
  /\ pc = Idle
  /\ WorkloadLeft
  /\ SubmitWrite(lba, zero, failure, Idle, Idle)

\* discard: every LBA of the range gets a version, the target discards the range once, and the
\* result is applied LBA by LBA until one of them cannot record a second uncertain request.
Discard(lo, hi, failure) ==
  LET range == lo .. hi
      s == [l \in Blocks |-> Issue(lbas[l])]
      result == Result(failure)
      stuck == {l \in range : result = "Other" /\ UncertainLimit(lbas[l], TRUE)}
      reached == {l \in range : \A k \in stuck : l < k}
  IN  /\ pc = Idle
      /\ WorkloadLeft
      /\ \A l \in range : lbas[l].issued < MaxVersion
      /\ TargetDiscard(range, failure)
      /\ lbas' = [l \in Blocks |->
           IF l \in reached THEN Apply(s[l], s[l].issued, TRUE, result)
           ELSE IF l \in range THEN s[l] ELSE lbas[l]]
      /\ dirty' = [l \in Blocks |->
           IF l \in range /\ result = "Ok" /\ NewlyDirty(lbas[l]) THEN dirty[l] + 1 ELSE dirty[l]]
      /\ hist' = [l \in Blocks |->
           IF l \in range THEN Append(hist[l], Observed(TRUE, result)) ELSE hist[l]]
      /\ pc' = IF stuck # {} THEN Incomplete ELSE Idle
      /\ UNCHANGED <<rejected, alarm, active, flushed>>

\* discard stops with VersionOverflow at the first LBA without a version left: the ones before it
\* have used a version up for a request that was never sent.
DiscardOverflow(lo, hi) ==
  /\ pc = Idle
  /\ \E full \in lo .. hi :
       /\ lbas[full].issued = MaxVersion
       /\ \A l \in lo .. full - 1 : lbas[l].issued < MaxVersion
       /\ lbas' = [l \in Blocks |-> IF l \in lo .. full - 1 THEN Issue(lbas[l]) ELSE lbas[l]]
       /\ hist' = [l \in Blocks |->
            IF l \in lo .. full - 1 THEN Append(hist[l], Observed(TRUE, "Refused")) ELSE hist[l]]
  /\ UNCHANGED <<dirty, rejected, alarm, pc, mediumVars, active, occurred, flushed>>

FlushThen(onOk) ==
  /\ TargetFlush
  /\ lbas' = [l \in Blocks |-> IF dirty[l] > 0 THEN MakeDurable(lbas[l]) ELSE lbas[l]]
  /\ dirty' = [l \in Blocks |-> 0]
  /\ flushed' = [l \in Blocks |-> Len(hist[l])]
  /\ pc' = onOk
  /\ UNCHANGED <<rejected, alarm, active, hist>>

Flush ==
  /\ pc = Idle
  /\ FlushThen(Idle)

Read(lba) ==
  /\ pc = Idle
  /\ TargetRead(lba)
  /\ alarm' = (alarm \/ ~LiveOk(lbas[lba], Decode(Visible(lba), lba)))
  /\ UNCHANGED <<lbas, dirty, rejected, pc, active, observerVars>>

-----------------------------------------------------------------------------
(* Crash and recovery.                                                     *)

Crash(kept) ==
  /\ pc = Idle
  /\ pc' = At("crashed", 0)
  /\ LET settled(l) == IF l \notin kept THEN durable[l]
                       ELSE CASE pending[l] = "Write" -> cached[l]
                              [] pending[l] = "Discard" -> ZeroBlock
                              [] OTHER -> durable[l]
         restored == {l \in Blocks : active = "Resurrection" /\ first[l] # NoBlock
                                     /\ first[l] # settled(l)}
     IN  /\ durable' = [l \in Blocks |-> IF l \in restored THEN first[l] ELSE settled(l)]
         /\ occurred' = (occurred \/ restored # {})
  /\ pending' = [l \in Blocks |-> "None"]
  /\ UNCHANGED <<checkerVars, cached, first, active, observerVars>>

Recover ==
  /\ pc = At("crashed", 0)
  /\ pc' = At("verify", 0)
  /\ UNCHANGED <<checkerVars, mediumVars, active, occurred, observerVars>>

AfterVerify(lba) == IF lba + 1 \in Blocks THEN At("verify", lba + 1) ELSE At("repair", 0)

Retire(h) ==
  [v \in DOMAIN h |-> IF h[v].result = "Other" THEN [h[v] EXCEPT !.result = "Retired"] ELSE h[v]]

VerifyAfterCrash(lba) ==
  LET before == lbas[lba]
      found == Decode(Visible(lba), lba)
      retired == before.uncertain_write
      full == retired # 0 /\ RejectedFull
  IN  /\ pc = At("verify", lba)
      /\ TargetRead(lba)
      /\ lbas' = [lbas EXCEPT ![lba] = [before EXCEPT !.needs_repair = found # Expected(before),
                                          !.uncertain_write = 0, !.uncertain_zero = 0]]
      /\ rejected' = IF retired # 0 /\ ~full THEN rejected \cup {<<lba, retired>>} ELSE rejected
      /\ alarm' = (alarm \/ (~full /\ ~CrashOk(before, found, WasRejected(lba, found))))
      /\ pc' = IF full THEN Incomplete ELSE AfterVerify(lba)
      /\ hist' = [hist EXCEPT ![lba] = Retire(@)]
      /\ UNCHANGED <<dirty, active, flushed>>

AfterRepair(lba) == IF lba + 1 \in Blocks THEN At("repair", lba + 1) ELSE At("flush", 0)

Repair(lba, failure) ==
  /\ pc = At("repair", lba)
  /\ lbas[lba].needs_repair
  /\ SubmitWrite(lba, Expected(lbas[lba]) = Zero, failure, AfterRepair(lba), Incomplete)

RepairOverflow(lba) ==
  /\ pc = At("repair", lba)
  /\ lbas[lba].needs_repair
  /\ lbas[lba].issued = MaxVersion
  /\ pc' = Incomplete
  /\ lbas' = [lbas EXCEPT ![lba].needs_repair = FALSE]
  /\ UNCHANGED <<dirty, rejected, alarm, mediumVars, active, occurred, observerVars>>

SkipRepair(lba) ==
  /\ pc = At("repair", lba)
  /\ ~lbas[lba].needs_repair
  /\ pc' = AfterRepair(lba)
  /\ UNCHANGED <<checkerVars, mediumVars, active, occurred, observerVars>>

FinishRecovery ==
  /\ pc = At("flush", 0)
  /\ FlushThen(Idle)

-----------------------------------------------------------------------------
(* The plan's first request is reached.                                    *)

\* The plan is not known to anyone before its first request, so it is chosen here; first, which
\* only a Resurrection plan reads, is therefore recorded in every run.
Arm(fault) ==
  /\ active = "None"
  /\ active' = fault
  /\ UNCHANGED <<checkerVars, pc, mediumVars, occurred, observerVars>>

Init ==
  /\ lbas = [l \in Blocks |-> Unwritten]
  /\ dirty = [l \in Blocks |-> 0]
  /\ rejected = {}
  /\ alarm = FALSE
  /\ pc = Idle
  /\ durable = [l \in Blocks |-> ZeroBlock]
  /\ cached = [l \in Blocks |-> ZeroBlock]
  /\ pending = [l \in Blocks |-> "None"]
  /\ first = [l \in Blocks |-> NoBlock]
  /\ active = "None"
  /\ occurred = FALSE
  /\ hist = [l \in Blocks |-> <<>>]
  /\ flushed = [l \in Blocks |-> 0]

Next ==
  \/ \E l \in Blocks, zero \in BOOLEAN, failure \in Injected : Write(l, zero, failure)
  \/ \E lo \in Blocks : \E hi \in lo .. BlockCount - 1 :
       \/ \E failure \in Injected \cup {"Unsupported"} : Discard(lo, hi, failure)
       \/ DiscardOverflow(lo, hi)
  \/ Flush
  \/ \E l \in Blocks : Read(l)
  \/ \E kept \in SUBSET Blocks : Crash(kept)
  \/ Recover
  \/ \E l \in Blocks : VerifyAfterCrash(l)
  \/ \E l \in Blocks, failure \in Injected : Repair(l, failure)
  \/ \E l \in Blocks : RepairOverflow(l)
  \/ \E l \in Blocks : SkipRepair(l)
  \/ FinishRecovery
  \/ \E fault \in Faults : Arm(fault)

Spec == Init /\ [][Next]_vars

-----------------------------------------------------------------------------
(* What the request history allows, without the checker's version numbers. *)

\* d is the last acknowledged of the first f requests, or 0.
LastAcked(h, f, d) ==
  /\ d \in 0 .. f
  /\ d # 0 => h[d].result = "Ok"
  /\ \A v \in d + 1 .. f : h[v].result # "Ok"

ContentOf(h, v) == IF v = 0 THEN Zero ELSE IF h[v].zero THEN Zero ELSE v

\* The contents of that request, and of the later requests with one of these results.
Allowed(h, f, results) ==
  UNION {{ContentOf(h, v) : v \in {d} \cup {w \in d + 1 .. Len(h) : h[w].result \in results}} :
           d \in {e \in 0 .. f : LastAcked(h, f, e)}}

\* What a target can return: no payload is ever generated for a zero request's version.
Returnable(h) == {c \in Invalid .. MaxVersion : c \in DOMAIN h => ~h[c].zero}

(* The checker's verdicts are exact: with the few version numbers it keeps per LBA, it accepts
   before a crash precisely the latest acknowledged content or a later uncertain request, and
   after a crash precisely the content of the last acknowledged request before the last flush or
   any later acknowledged or uncertain request (live_violation, crash_violation). *)
VerdictExact ==
  pc.at # "incomplete" =>
    \A l \in Blocks :
      LET live == Allowed(hist[l], Len(hist[l]), {"Other"})
          kept == Allowed(hist[l], flushed[l], {"Ok", "Other"})
      IN  \A found \in Returnable(hist[l]) :
            /\ LiveOk(lbas[l], found) <=> found \in live
            /\ CrashOk(lbas[l], found, WasRejected(l, found)) <=> found \in kept

(* A recorded violation means that the planned fault occurred: failed and rejected requests,
   crashes that keep any subset of the cache, and recovery's own rewrites never make the checker
   accuse a correct target (the checker and MemoryTarget together). *)
NoFalseAlarm == alarm => occurred

(* The dirty list holds exactly the LBAs with an acknowledged request after the last flush, each
   once, so it never outgrows the capacity reserved for it and a flush misses none
   (Checker::acknowledge, make_durable). *)
DirtyListExact ==
  pc.at # "incomplete" =>
    \A l \in Blocks :
      dirty[l] = IF \E v \in flushed[l] + 1 .. Len(hist[l]) : hist[l][v].result = "Ok"
                 THEN 1 ELSE 0

(* The types of the checker's and the target's state. *)
TypeOK ==
  /\ lbas \in [Blocks -> LbaState]
  /\ dirty \in [Blocks -> Nat]
  /\ rejected \subseteq Blocks \X Versions
  /\ alarm \in BOOLEAN
  /\ pc \in [at: Phases, lba: Blocks]
  /\ durable \in [Blocks -> Medium]
  /\ cached \in [Blocks -> Medium]
  /\ pending \in [Blocks -> {"None", "Write", "Discard"}]
  /\ first \in [Blocks -> Medium \cup {NoBlock}]
  /\ active \in Faults \cup {"None"}
  /\ occurred \in BOOLEAN
  /\ hist \in [Blocks -> Seq([zero: BOOLEAN,
                 result: {"Ok", "Refused", "Other", "Retired"}])]
  /\ flushed \in [Blocks -> Nat]

(* CheckerInv is the type invariant together with DirtyListExact. *)
CheckerInv == TypeOK /\ DirtyListExact
=============================================================================
