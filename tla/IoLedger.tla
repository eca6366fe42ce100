------------------------------ MODULE IoLedger ------------------------------
(***************************************************************************)
(* The I/O accounting ledger: counters in shared memory under an epoch     *)
(* that is odd while its single writer changes them.  The writer is the    *)
(* engine, which reserves a write before it submits it; a reader in        *)
(* another process takes snapshots with a bounded number of attempts.      *)
(* Each atomic load and store is a step, and the writer's process may be   *)
(* killed before any of them.                                              *)
(***************************************************************************)
EXTENDS Naturals, Sequences

CONSTANTS
  Limit,     \* write_limit_bytes
  Lengths,   \* lengths of reads and writes
  MaxU64,    \* u64::MAX: where checked_add fails
  Attempts   \* SNAPSHOT_ATTEMPTS (100 in the code)

ASSUME LedgerAssumption ==
  /\ MaxU64 \in Nat
  /\ Limit \in 1 .. MaxU64
  /\ Lengths \subseteq 1 .. MaxU64
  /\ Attempts \in Nat

VARIABLES
  epoch,    \* the sequence number of the ledger
  ctr,      \* its counters and flags
  wpc,      \* where the writer is
  op,       \* the operation begun
  goal,     \* the counters that the running section leaves
  order,    \* the fields that it has yet to store, in order
  next,     \* where the writer goes after the section
  rpc,      \* where the reader is
  tries,    \* attempts used
  before,   \* the epoch this attempt started from
  view,     \* the values loaded so far
  at,       \* the next load
  outcome,  \* of the last snapshot
  issued    \* history: bytes of all writes ever submitted

writerVars == <<wpc, op, goal, order, next>>
readerVars == <<rpc, tries, before, view, at, outcome>>
vars == <<epoch, ctr, wpc, op, goal, order, next, rpc, tries, before, view, at,
          outcome, issued>>

\* The flags word holds two bits, each a field here.
Fields == {"incomplete", "exhausted", "reserved", "wbytes", "rbytes",
           "rops", "wops", "fops", "pending", "errors"}
NewLedger == [f \in Fields |-> 0]
Counters == [Fields -> Nat]

Operations == [kind : {"read", "write"}, len : Lengths] \cup [kind : {"flush"}, len : {0}]
Flush == [kind |-> "flush", len |-> 0]

\* stable_snapshot's loads: the flags word, then one counter after the other.
ReadOrder == <<{"incomplete", "exhausted"}, {"reserved"}, {"wbytes"}, {"rbytes"},
               {"rops"}, {"wops"}, {"fops"}, {"pending"}, {"errors"}>>

Even(n) == n % 2 = 0

TypeOK ==
  /\ epoch \in Nat
  /\ ctr \in Counters /\ goal \in Counters /\ view \in Counters
  /\ wpc \in {"closed", "idle", "enter", "store", "leave", "submit", "wait"}
  /\ op \in Operations
  /\ order \in Seq(Fields)
  /\ next \in {"idle", "submit"}
  /\ rpc \in {"idle", "epoch", "load", "check"}
  /\ tries \in 0 .. Attempts /\ before \in Nat /\ at \in 1 .. Len(ReadOrder)
  /\ outcome \in {"none", "ok", "blocked", "invalid"}
  /\ issued \in Nat

\* Reader::create.
Init ==
  /\ epoch = 0 /\ ctr = NewLedger
  /\ wpc = "closed" /\ op = Flush /\ goal = NewLedger /\ order = <<>> /\ next = "idle"
  /\ rpc = "idle" /\ tries = 0 /\ before = 0 /\ view = NewLedger /\ at = 1
  /\ outcome = "none"
  /\ issued = 0

-----------------------------------------------------------------------------
(* The writer *)

\* The checks of stable_snapshot on the values it returns.
Valid(c) ==
  /\ c["reserved"] <= Limit
  /\ c["wbytes"] <= c["reserved"]
  /\ c["pending"] <= 1

\* Mutation of Clean: a pending operation is overlooked.
CleanFlags == ctr["incomplete"] = 0

\* No operation was cut off or failed.
Clean == ctr["pending"] = 0 /\ ctr["incomplete"] = 0

\* Writer::open.  It holds the writer lease, so nothing changes while it takes
\* its snapshot; a ledger that is not clean is refused.
OpenWriter ==
  /\ wpc = "closed" /\ wpc' = "idle"
  /\ Even(epoch) /\ Valid(ctr) /\ Clean
  /\ UNCHANGED <<epoch, ctr, op, goal, order, next, readerVars, issued>>

\* The writer is dropped, which ends its lease.
CloseWriter ==
  /\ wpc = "idle" /\ wpc' = "closed"
  /\ UNCHANGED <<epoch, ctr, op, goal, order, next, readerVars, issued>>

\* A section of stores between two epochs, after which the writer goes to `then`.
Section(newGoal, fields, then) ==
  /\ wpc' = "enter"
  /\ goal' = newGoal /\ order' = fields /\ next' = then

\* Mutation of RoomToFinish: room for begin's section only.
RoomToBegin == epoch + 2 <= MaxU64

\* begin leaves room for the epochs of its own section and of the finish.
RoomToFinish == epoch + 4 <= MaxU64

\* Mutation of Reserved: the operation in flight is not counted.
StaleReserved(o) == ctr["reserved"]

\* The reserved bytes once o is admitted.
Reserved(o) == ctr["reserved"] + o.len

\* Writer::begin: reserve a write in full, or refuse it and set the flag.
Begin(o) ==
  /\ wpc = "idle" /\ ctr["pending"] = 0
  /\ ctr["errors"] + 1 <= MaxU64
  /\ Even(epoch) /\ RoomToFinish
  /\ op' = o
  /\ IF o.kind # "write"
       THEN Section([ctr EXCEPT !["pending"] = 1], <<"pending">>, "submit")
     ELSE IF Reserved(o) <= Limit
       THEN Section([ctr EXCEPT !["reserved"] = Reserved(o), !["pending"] = 1],
                    <<"reserved", "pending">>, "submit")
     ELSE Section([ctr EXCEPT !["exhausted"] = 1], <<"exhausted">>, "idle")
  /\ UNCHANGED <<epoch, ctr, readerVars, issued>>

\* The epoch becomes odd.
Enter ==
  /\ wpc = "enter" /\ wpc' = "store"
  /\ epoch' = epoch + 1
  /\ UNCHANGED <<ctr, op, goal, order, next, readerVars, issued>>

Store ==
  /\ wpc = "store" /\ order # <<>>
  /\ ctr' = [ctr EXCEPT ![Head(order)] = goal[Head(order)]]
  /\ order' = Tail(order)
  /\ wpc' = IF order' = <<>> THEN "leave" ELSE "store"
  /\ UNCHANGED <<epoch, op, goal, next, readerVars, issued>>

\* The epoch becomes even again.
Leave ==
  /\ wpc = "leave" /\ wpc' = next
  /\ epoch' = epoch + 1
  /\ UNCHANGED <<ctr, op, goal, order, next, readerVars, issued>>

\* submit_exact_raw hands the admitted operation to the kernel.
Submit ==
  /\ wpc = "submit" /\ wpc' = "wait"
  /\ issued' = issued + (IF op.kind = "write" THEN op.len ELSE 0)
  /\ UNCHANGED <<epoch, ctr, op, goal, order, next, readerVars>>

FailureOrder == <<"pending", "errors", "incomplete">>

\* record_failure: the reservation stays, the totals are incomplete for good.
RecordFailure ==
  Section([ctr EXCEPT !["pending"] = 0, !["errors"] = @ + 1, !["incomplete"] = 1],
          FailureOrder, "idle")

\* finish(false), or the operation is dropped: it was refused by the ring, failed
\* or came back short, or had no accountable opcode.
Fail ==
  /\ wpc \in {"submit", "wait"}
  /\ RecordFailure
  /\ UNCHANGED <<epoch, ctr, op, readerVars, issued>>

OpsField(o) == CASE o.kind = "read" -> "rops" [] o.kind = "write" -> "wops"
                 [] OTHER -> "fops"
\* Mutation of BytesField: reads are counted as writes.
WriteBytes(o) == "wbytes"

BytesField(o) == IF o.kind = "write" THEN "wbytes" ELSE "rbytes"

\* checked_add of the counters that a success increments.
FinishFits ==
  /\ ctr[OpsField(op)] + 1 <= MaxU64
  /\ op.kind # "flush" => ctr[BytesField(op)] + op.len <= MaxU64

\* finish(true); a total that would overflow turns it into a failure.
Finish ==
  /\ wpc = "wait"
  /\ IF ~FinishFits THEN RecordFailure
     ELSE IF op.kind = "flush"
       THEN Section([ctr EXCEPT ![OpsField(op)] = @ + 1, !["pending"] = 0],
                    <<OpsField(op), "pending">>, "idle")
     ELSE Section([ctr EXCEPT ![OpsField(op)] = @ + 1, ![BytesField(op)] = @ + op.len,
                              !["pending"] = 0],
                  <<OpsField(op), BytesField(op), "pending">>, "idle")
  /\ UNCHANGED <<epoch, ctr, op, readerVars, issued>>

\* The writer's process is killed: its lease ends, the ledger stays as it is.
Kill ==
  /\ wpc # "closed" /\ wpc' = "closed"
  /\ op' = Flush /\ goal' = ctr /\ order' = <<>> /\ next' = "idle"
  /\ UNCHANGED <<epoch, ctr, readerVars, issued>>

-----------------------------------------------------------------------------
(* The reader *)

StartSnapshot ==
  /\ rpc = "idle" /\ rpc' = "epoch"
  /\ tries' = 0
  /\ UNCHANGED <<epoch, ctr, writerVars, before, view, at, outcome, issued>>

\* The reader comes to an end with `result` and forgets what it loaded.
Return(result) ==
  /\ rpc' = "idle" /\ outcome' = result
  /\ tries' = 0 /\ before' = 0 /\ view' = NewLedger /\ at' = 1

\* Mutation of RetryOdd: an odd epoch does not use up an attempt.
RetryOddForever == UNCHANGED tries

\* An attempt that finds the writer inside a section is over.
RetryOdd == tries' = tries + 1

\* Mutation of Quiet: the parity of the first epoch is not looked at.
AlwaysQuiet == TRUE

\* The epoch says that no section is running.
Quiet == Even(epoch)

LoadEpoch ==
  /\ rpc = "epoch"
  /\ IF tries = Attempts THEN Return("blocked")
     ELSE /\ before' = epoch
          /\ IF Quiet THEN rpc' = "load" /\ at' = 1 /\ UNCHANGED tries
                      ELSE rpc' = "epoch" /\ RetryOdd /\ UNCHANGED at
          /\ UNCHANGED <<view, outcome>>
  /\ UNCHANGED <<epoch, ctr, writerVars, issued>>

Load ==
  /\ rpc = "load"
  /\ view' = [f \in Fields |-> IF f \in ReadOrder[at] THEN ctr[f] ELSE view[f]]
  /\ IF at = Len(ReadOrder) THEN rpc' = "check" /\ UNCHANGED at
                            ELSE at' = at + 1 /\ UNCHANGED rpc
  /\ UNCHANGED <<epoch, ctr, writerVars, tries, before, outcome, issued>>

\* The snapshot counts only if the epoch has not moved.
Check ==
  /\ rpc = "check"
  /\ IF epoch = before THEN Return(IF Valid(view) THEN "ok" ELSE "invalid")
     ELSE rpc' = "epoch" /\ tries' = tries + 1 /\ UNCHANGED <<before, view, at, outcome>>
  /\ UNCHANGED <<epoch, ctr, writerVars, issued>>

-----------------------------------------------------------------------------

Writer ==
  \/ OpenWriter \/ CloseWriter
  \/ \E o \in Operations : Begin(o)
  \/ Enter \/ Store \/ Leave \/ Submit \/ Fail \/ Finish \/ Kill

Snapshotting == LoadEpoch \/ Load \/ Check

Next == Writer \/ StartSnapshot \/ Snapshotting

Spec == Init /\ [][Next]_vars

\* A reader that has begun a snapshot keeps running; nothing is assumed of the
\* writer, which may be killed inside a section.
FairSpec == Spec /\ WF_vars(Snapshotting)

-----------------------------------------------------------------------------
(* Properties *)

\* What a reader is about to accept is the ledger as it is now, outside every
\* section, however its loads interleaved with the writer's stores and with
\* the writer's death (stable_snapshot).
SnapshotCoherent ==
  rpc = "check" /\ before = epoch => view = ctr /\ wpc \notin {"store", "leave"}

\* A snapshot never reports corrupt counters: the validity checks of
\* stable_snapshot only ever fail for a ledger that was tampered with.
NeverInvalid == outcome # "invalid"

\* Whatever fails or is killed, the bytes of all writes ever submitted, over all
\* writers of the ledger, stay within the reservation and the limit (begin).
BudgetHolds == issued <= ctr["reserved"] /\ ctr["reserved"] <= Limit

\* A ledger that a writer may open accounts for every write exactly: nothing is
\* pending, lost in a failure or cut off by a kill (begin, finish, Writer::open).
CleanLedgerExact ==
  Even(epoch) /\ Clean
    => ctr["wbytes"] = issued /\ ctr["reserved"] = issued

\* No store overflows: begin leaves room for the epochs and the error count that
\* finish and Drop need, which cannot fail (begin, record_failure).
NoOverflow == epoch <= MaxU64 /\ \A f \in Fields : ctr[f] <= MaxU64 /\ goal[f] <= MaxU64

\* Counters that a reader or a new writer may find outside a section.
Sound(c) ==
  /\ c["wbytes"] <= issued /\ issued <= c["reserved"] /\ c["reserved"] <= Limit
  /\ c["pending"] <= 1
  /\ c["pending"] = 0 /\ c["incomplete"] = 0
       => c["wbytes"] = issued /\ c["reserved"] = issued

\* Counters with o admitted, before and after its submission.
Planned(o) == IF o.kind = "write" THEN o.len ELSE 0
Admitted(c, o) ==
  /\ c["pending"] = 1 /\ c["errors"] + 1 <= MaxU64
  /\ issued + Planned(o) <= c["reserved"]
  /\ c["incomplete"] = 0 => c["wbytes"] = issued /\ c["reserved"] = issued + Planned(o)
Submitted(c, o) ==
  /\ c["pending"] = 1 /\ c["errors"] + 1 <= MaxU64
  /\ c["wbytes"] + Planned(o) <= issued
  /\ c["incomplete"] = 0 => c["reserved"] = issued /\ c["wbytes"] + Planned(o) = issued

InSection == wpc \in {"enter", "store", "leave"}

\* The writer: parity of the epoch, and where its running section leads.
WriterInv ==
  /\ wpc \in {"store", "leave"} => ~Even(epoch)
  /\ wpc \in {"idle", "enter", "submit", "wait"} => Even(epoch)
  /\ Even(epoch) => Sound(ctr)
  /\ InSection => /\ Sound(goal)
                  /\ \A f \in Fields :
                       (\A i \in 1 .. Len(order) : order[i] # f) => ctr[f] = goal[f]
                  /\ next = "submit" => Admitted(goal, op)
                  /\ next = "idle" => goal["pending"] = 0
  /\ wpc = "store" => order # <<>>
  /\ wpc = "enter" => order # <<>>
  /\ wpc = "leave" => order = <<>>
  /\ wpc = "idle" => ctr["pending"] = 0
  /\ wpc = "submit" => Admitted(ctr, op)
  /\ wpc = "wait" => Submitted(ctr, op)

\* Room for the epochs still to come.
EpochInv ==
  /\ wpc = "enter" => epoch + (IF next = "submit" THEN 4 ELSE 2) <= MaxU64
  /\ wpc \in {"store", "leave"} => epoch + (IF next = "submit" THEN 3 ELSE 1) <= MaxU64
  /\ wpc \in {"submit", "wait"} => epoch + 2 <= MaxU64

\* The reader: what it has loaded is current as long as the epoch has not moved.
ReaderInv ==
  /\ rpc \in {"load", "check"} => Even(before) /\ before <= epoch
  /\ rpc = "load" /\ before = epoch =>
       \A i \in 1 .. at - 1 : \A f \in ReadOrder[i] : view[f] = ctr[f]
  /\ rpc = "check" /\ before = epoch => view = ctr
  /\ rpc \in {"load", "check"} => tries < Attempts

\* The inductive invariant of the ledger.
LedgerInv ==
  /\ TypeOK
  /\ WriterInv
  /\ EpochInv
  /\ ReaderInv
  /\ BudgetHolds
  /\ NoOverflow
  /\ NeverInvalid

\* Every snapshot returns, also when the writer never stops or died inside a
\* section (stable_snapshot's bounded retries).
SnapshotEnds == rpc # "idle" ~> rpc = "idle"
=============================================================================
