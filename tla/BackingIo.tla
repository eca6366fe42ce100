------------------------------ MODULE BackingIo ------------------------------
(***************************************************************************)
(* Accounted I/O on the backing file: the writer of the ledger submits     *)
(* each operation to an io_uring of two entries and waits for its          *)
(* completion, one operation at a time.  The kernel consumes entries,      *)
(* posts completions and interrupts waits as it likes; it holds pointers   *)
(* into the caller's buffers until an entry is complete.  Entries are told *)
(* apart by their user data only, a block number, which calls repeat.      *)
(* Closing a ring does not wait for the entries the kernel has consumed:   *)
(* they end later, when nobody looks at the result any more.               *)
(*                                                                         *)
(* Completion flags are left out: these opcodes have none.                 *)
(***************************************************************************)
EXTENDS IoLedger

CONSTANTS
  UserData,     \* the block numbers calls use
  QueueEntries  \* entries of the ring

ASSUME RingAssumption == UserData \subseteq Nat \ {0} /\ QueueEntries \in Nat \ {0}

VARIABLES
  ring,        \* the ring has not been dropped
  sq,          \* its submission queue
  inflight,    \* the entries the kernel works on
  cq,          \* its completion queue
  lost,        \* entries of dropped rings that the kernel still works on
  user_data,   \* of the call that waits, or 0
  submitted,   \* its entries consumed so far
  unexpected,  \* unexpected_completion
  stage,       \* its place in the loop
  written      \* history: bytes of all writes completed in full

queueVars == <<ring, sq, inflight, cq, lost>>
callVars == <<user_data, submitted, unexpected, stage>>
ringVars == <<queueVars, callVars, written>>
ioVars == <<vars, ringVars>>

\* A completion carries the length the call expects, or another: a short one or an error.
Results == {"exact", "other"}
Entry == [ud : UserData, bytes : Nat]
Completion == [ud : UserData, result : Results]

\* Dropping the ring ends its queues at once, but not the entries `held` by the kernel: it goes on
\* working on them, and on the buffers they point to.
DropRing(held) ==
  /\ ring' = FALSE /\ sq' = <<>> /\ inflight' = {} /\ cq' = <<>>
  /\ lost' = lost \cup held

\* A call keeps its locals until it returns.
CallReturns == user_data' = 0 /\ submitted' = 0 /\ unexpected' = FALSE /\ stage' = "enter"

-----------------------------------------------------------------------------
(* submit_exact_raw and wait_exact_with.                                   *)

\* The entry goes to the submission queue, unless the ring is gone or full.
Push(ud) ==
  /\ wpc = "submit"
  /\ IF ring /\ Len(sq) < QueueEntries
     THEN /\ Submit
          /\ sq' = Append(sq, [ud |-> ud, bytes |-> IF op.kind = "write" THEN op.len ELSE 0])
          /\ user_data' = ud /\ submitted' = 0 /\ unexpected' = FALSE /\ stage' = "enter"
          /\ UNCHANGED <<ring, inflight, cq, lost, written>>
     ELSE /\ Fail
          /\ DropRing(inflight)
          /\ CallReturns
          /\ UNCHANGED written

\* submit_and_wait returns: the kernel consumed `count` entries and a completion is there or a
\* signal came.  An interrupted call consumes none.
SubmitAndWait(count) ==
  /\ wpc = "wait" /\ stage = "enter"
  /\ count <= Len(sq)
  /\ IF count <= 1 - submitted
     THEN /\ inflight' = inflight \cup {sq[i] : i \in 1 .. count}
          /\ sq' = SubSeq(sq, count + 1, Len(sq))
          /\ submitted' = submitted + count
          /\ stage' = "reap"
          /\ UNCHANGED <<vars, ring, cq, lost, user_data, unexpected, written>>
     ELSE /\ Fail
          /\ DropRing(inflight \cup {sq[i] : i \in 1 .. count})
          /\ CallReturns
          /\ UNCHANGED written

\* Any other error of submit_and_wait, of a call whose entry an earlier round may have handed over.
WaitFails ==
  /\ wpc = "wait" /\ stage = "enter"
  /\ Fail
  /\ DropRing(inflight)
  /\ CallReturns
  /\ UNCHANGED written

\* Mutation of Exact: the result is not compared.
AnyResult(c) == c.result \in Results

\* The completion reports expected_result.
Exact(c) == c.result = "exact"

\* The completion of this call decides it.
Decide(c) ==
  LET alone == ~unexpected /\ Exact(c)
      extra == alone /\ Tail(cq) # <<>>
  IN  /\ IF alone /\ ~extra THEN Finish ELSE Fail
      /\ cq' = IF extra THEN Tail(Tail(cq)) ELSE Tail(cq)
      /\ CallReturns
      /\ UNCHANGED <<ring, sq, inflight, lost, written>>

\* Mutation of Reap: an empty completion queue ends the call.
ReapOnce ==
  /\ wpc = "wait" /\ stage = "reap"
  /\ IF cq = <<>> THEN Fail /\ CallReturns /\ UNCHANGED <<queueVars, written>>
     ELSE Decide(Head(cq))

\* The next completion: none, somebody else's, or this call's.
Reap ==
  /\ wpc = "wait" /\ stage = "reap"
  /\ IF cq # <<>> /\ Head(cq).ud = user_data THEN Decide(Head(cq))
     ELSE /\ stage' = "enter"
          /\ unexpected' = (unexpected \/ cq # <<>>)
          /\ cq' = IF cq = <<>> THEN cq ELSE Tail(cq)
          /\ UNCHANGED <<vars, ring, sq, inflight, lost, user_data, submitted, written>>

\* The kernel completes an entry.
Complete(e, result) ==
  /\ e \in inflight
  /\ inflight' = inflight \ {e}
  /\ cq' = Append(cq, [ud |-> e.ud, result |-> result])
  /\ written' = IF result = "exact" THEN written + e.bytes ELSE written
  /\ UNCHANGED <<vars, ring, sq, lost, callVars>>

\* The kernel is done with an entry of a dropped ring, cancelled or not: it takes effect or does
\* not, and posts its completion nowhere.
CompleteLost(e, result) ==
  /\ e \in lost
  /\ lost' = lost \ {e}
  /\ written' = IF result = "exact" THEN written + e.bytes ELSE written
  /\ UNCHANGED <<vars, ring, sq, inflight, cq, callVars>>

-----------------------------------------------------------------------------
(* The rest of BackingIo and of the ledger.                                *)

\* BackingIo::new
OpenIo ==
  /\ OpenWriter
  /\ ring' = TRUE
  /\ UNCHANGED <<sq, inflight, cq, lost, callVars, written>>

\* BackingIo is dropped, or its process killed: the ring goes with it.
EndIo ==
  /\ CloseWriter \/ Kill
  /\ DropRing(inflight)
  /\ CallReturns
  /\ UNCHANGED written

\* reject_unclassified: an operation of another opcode is never submitted.
RejectUnclassified ==
  /\ wpc = "submit" /\ op = Flush
  /\ Fail
  /\ UNCHANGED ringVars

\* The ledger's own steps
LedgerStep ==
  /\ (\E o \in Operations : Begin(o)) \/ Enter \/ Store \/ Leave \/ StartSnapshot
  /\ UNCHANGED ringVars

Reading == Snapshotting /\ UNCHANGED ringVars

IoInit ==
  /\ Init
  /\ ring = FALSE /\ sq = <<>> /\ inflight = {} /\ cq = <<>> /\ lost = {}
  /\ user_data = 0 /\ submitted = 0 /\ unexpected = FALSE /\ stage = "enter"
  /\ written = 0

IoNext ==
  \/ \E ud \in UserData : Push(ud)
  \/ \E count \in 0 .. QueueEntries : SubmitAndWait(count)
  \/ WaitFails
  \/ Reap
  \/ \E e \in inflight, result \in Results : Complete(e, result)
  \/ \E e \in lost, result \in Results : CompleteLost(e, result)
  \/ OpenIo \/ EndIo \/ RejectUnclassified
  \/ LedgerStep \/ Reading

IoSpec == IoInit /\ [][IoNext]_ioVars

\* As in IoLedger, only a reader inside a snapshot keeps running.
IoFairSpec == IoSpec /\ WF_ioVars(Reading)

-----------------------------------------------------------------------------
(* Properties                                                              *)

FlagTypes == ring \in BOOLEAN /\ unexpected \in BOOLEAN

QueueTypes ==
  /\ sq \in Seq(Entry) /\ inflight \subseteq Entry /\ cq \in Seq(Completion)
  /\ lost \subseteq Entry
  /\ user_data \in UserData \cup {0} /\ submitted \in {0, 1} /\ stage \in {"enter", "reap"}
  /\ written \in Nat

(* The type invariant of the ring and of the waiting call. *)
RingTypeOK == FlagTypes /\ QueueTypes

(* A call that has returned on a ring still in use leaves nothing behind, however often its wait
   was interrupted or empty: no entry the kernel still holds the caller's buffers for, and no
   completion that the next call, perhaps of the same block, could take for its own.  A call
   whose wait itself failed has dropped the ring and may leave its entry with the kernel; no
   later call can then wait (wait_exact_with). *)
BuffersReturned ==
  /\ wpc # "wait" => sq = <<>> /\ inflight = {} /\ cq = <<>>
  /\ ring \/ wpc = "wait" => lost = {}

\* A ledger whose entry was lost with its ring says so, or will once the running section is over:
\* nobody opens it again, so what the entry still does is never counted.
LostInv ==
  lost # {} =>
    /\ Even(epoch) => ~Clean
    /\ wpc \in {"idle", "submit"} => ctr["incomplete"] = 1
    /\ InSection => goal["incomplete"] = 1

\* The waiting call's own entry, and where it is: not yet consumed, with the kernel, or complete.
OwnEntry == [ud |-> user_data, bytes |-> Planned(op)]

Completed(result) == cq = <<[ud |-> user_data, result |-> result]>>

EntryInv ==
  wpc = "wait" =>
    /\ user_data \in UserData /\ ~unexpected
    /\ \/ sq = <<OwnEntry>> /\ inflight = {} /\ cq = <<>> /\ submitted = 0
       \/ sq = <<>> /\ inflight = {OwnEntry} /\ cq = <<>> /\ submitted = 1
       \/ sq = <<>> /\ inflight = {} /\ submitted = 1 /\ \E r \in Results : Completed(r)

\* Bytes that the kernel has written and the ledger has yet to count.
Uncounted == IF wpc = "wait" /\ Completed("exact") THEN Planned(op) ELSE 0

\* The ledger's totals against what the kernel has written.
WrittenInv ==
  /\ ctr["wbytes"] + Uncounted <= written
  /\ Even(epoch) /\ Clean => ctr["wbytes"] = written
  /\ wpc \in {"submit", "wait"} /\ ctr["incomplete"] = 0 => ctr["wbytes"] + Uncounted = written
  /\ InSection => /\ goal["wbytes"] <= written
                  /\ goal["incomplete"] = 0 => goal["wbytes"] = written

(* BackingIoInv is the inductive invariant of the ring: its types, BuffersReturned, what is
   known of lost entries, where the waiting call's entry is, and what the ledger has counted of
   it. *)
BackingIoInv ==
  /\ RingTypeOK
  /\ BuffersReturned
  /\ LostInv
  /\ EntryInv
  /\ WrittenInv

(* The ledger never counts a byte that the kernel has not written, and a ledger that may be
   opened again has counted them all, with no entry of an earlier ring still under way: what was
   reserved, what was submitted and what was written are the same (submit_exact, wait_exact_with, finish). *)
AccountedExact ==
  /\ ctr["wbytes"] <= written
  /\ Even(epoch) /\ Clean =>
       /\ ctr["wbytes"] = written /\ ctr["reserved"] = written /\ issued = written
       /\ wpc = "closed" => lost = {}

(* What submit_exact_raw's safety comment says: a call that has returned has waited for its
   completion, so a caller need not keep its buffers any longer.  Not so if the wait fails once
   the entry is with the kernel (wait_exact_with). *)
BuffersOutliveUse == wpc \notin {"wait", "closed"} => lost = {}
=============================================================================
