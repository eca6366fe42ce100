--------------------------- MODULE BackingIoProofs ---------------------------
(***************************************************************************)
(* Theorems about the accounting ledger, for every limit, set of lengths,  *)
(* number of attempts and width of the counters; and about accounted I/O   *)
(* on the ring, for every ledger, every set of block numbers and every     *)
(* ring size.                                                              *)
(***************************************************************************)
EXTENDS BackingIo, TLAPS

\* The loads of a snapshot cover every field.
LEMMA AllLoaded ==
  /\ Len(ReadOrder) = 9
  /\ \A i \in 1 .. 9 : ReadOrder[i] \subseteq Fields
  /\ \A f \in Fields : \E i \in 1 .. 9 : f \in ReadOrder[i]
<1>1. Len(ReadOrder) = 9
  BY DEF ReadOrder
<1>2. /\ ReadOrder[1] = {"incomplete", "exhausted"} /\ ReadOrder[2] = {"reserved"}
      /\ ReadOrder[3] = {"wbytes"} /\ ReadOrder[4] = {"rbytes"}
      /\ ReadOrder[5] = {"rops"} /\ ReadOrder[6] = {"wops"}
      /\ ReadOrder[7] = {"fops"} /\ ReadOrder[8] = {"pending"}
      /\ ReadOrder[9] = {"errors"}
  BY DEF ReadOrder
<1>3. \A i \in 1 .. 9 : i = 1 \/ i = 2 \/ i = 3 \/ i = 4 \/ i = 5 \/ i = 6 \/ i = 7
                        \/ i = 8 \/ i = 9
  OBVIOUS
<1>4. \A i \in 1 .. 9 : ReadOrder[i] \subseteq Fields
  BY <1>2, <1>3 DEF Fields
<1>5. \A f \in Fields : \E i \in 1 .. 9 : f \in ReadOrder[i]
  <2> SUFFICES ASSUME NEW f \in Fields PROVE \E i \in 1 .. 9 : f \in ReadOrder[i]
    OBVIOUS
  <2>1. \/ f \in ReadOrder[1] \/ f \in ReadOrder[2] \/ f \in ReadOrder[3]
        \/ f \in ReadOrder[4] \/ f \in ReadOrder[5] \/ f \in ReadOrder[6]
        \/ f \in ReadOrder[7] \/ f \in ReadOrder[8] \/ f \in ReadOrder[9]
    BY <1>2 DEF Fields
  <2> QED
    BY <2>1
<1> QED
  BY <1>1, <1>4, <1>5

\* A step changes the parity of a number.
LEMMA Parity ==
  ASSUME NEW n \in Nat
  PROVE  /\ Even(n) => ~Even(n + 1)
         /\ ~Even(n) => Even(n + 1)
  BY DEF Even

\* Every operation has a natural length.
LEMMA OperationTypes ==
  ASSUME NEW o \in Operations
  PROVE  /\ o.len \in Nat
         /\ o.kind \in {"read", "write", "flush"}
         /\ OpsField(o) \in {"rops", "wops", "fops"}
         /\ BytesField(o) \in {"rbytes", "wbytes"}
  BY LedgerAssumption DEF Operations, OpsField, BytesField

LEMMA InitHolds == Init => LedgerInv
<1> SUFFICES ASSUME Init PROVE LedgerInv
  OBVIOUS
<1>1. NewLedger \in Counters /\ \A f \in Fields : NewLedger[f] = 0
  BY DEF NewLedger, Counters
<1>2. TypeOK
  BY <1>1, AllLoaded, LedgerAssumption DEF Init, TypeOK, Operations, Flush
<1>3. Even(0) /\ Sound(NewLedger)
  BY <1>1, LedgerAssumption DEF Init, Even, Sound, Fields
<1> QED
  BY <1>1, <1>2, <1>3, LedgerAssumption
  DEF Init, LedgerInv, WriterInv, EpochInv, ReaderInv, BudgetHolds, NoOverflow,
      NeverInvalid, InSection, Fields

-----------------------------------------------------------------------------
(* The writer's steps *)

\* A step that leaves epoch, counters and reader alone keeps the reader's part.
LEMMA ReaderKept ==
  ASSUME LedgerInv, UNCHANGED <<epoch, ctr, readerVars>>
  PROVE  ReaderInv' /\ NeverInvalid'
  BY DEF LedgerInv, ReaderInv, NeverInvalid, readerVars

\* The start of a section keeps the invariant if the section leads to sound
\* counters and changes only the fields it stores.
LEMMA SectionStarts ==
  ASSUME LedgerInv, wpc \in {"idle", "submit", "wait"},
         NEW g \in Counters, NEW fs \in Seq(Fields), NEW t \in {"idle", "submit"},
         Section(g, fs, t), UNCHANGED <<epoch, ctr, readerVars, issued>>,
         op' \in Operations, fs # <<>>, Sound(g),
         \A f \in Fields : g[f] <= MaxU64,
         \A f \in Fields : (\A i \in 1 .. Len(fs) : fs[i] # f) => ctr[f] = g[f],
         t = "submit" => Admitted(g, op'),
         t = "idle" => g["pending"] = 0,
         epoch + (IF t = "submit" THEN 4 ELSE 2) <= MaxU64
  PROVE  LedgerInv'
<1>1. TypeOK'
  BY DEF LedgerInv, TypeOK, Section, readerVars
<1>2. ReaderInv' /\ NeverInvalid'
  BY ReaderKept
<1>3. goal' = g /\ order' = fs /\ next' = t /\ wpc' = "enter" /\ Even(epoch)
  BY DEF Section, LedgerInv, WriterInv
<1>4. Sound(goal)' /\ Sound(ctr)'
  BY <1>3 DEF Sound, LedgerInv, WriterInv
<1>5. t = "submit" => Admitted(goal, op)'
  BY <1>3 DEF Admitted, Planned
<1>6. WriterInv'
  BY <1>3, <1>4, <1>5 DEF WriterInv, InSection
<1>7. EpochInv'
  BY <1>3 DEF EpochInv
<1>8. BudgetHolds' /\ NoOverflow'
  BY <1>3 DEF LedgerInv, BudgetHolds, NoOverflow
<1> QED
  BY <1>1, <1>2, <1>6, <1>7, <1>8 DEF LedgerInv

\* Updating fields of well-typed counters.
LEMMA Updated ==
  ASSUME NEW c \in Counters, NEW f \in Fields, NEW v \in Nat
  PROVE  /\ [c EXCEPT ![f] = v] \in Counters
         /\ [c EXCEPT ![f] = v][f] = v
         /\ \A g \in Fields : g # f => [c EXCEPT ![f] = v][g] = c[g]
  BY DEF Counters

LEMMA OpenWriterStep == LedgerInv /\ OpenWriter => LedgerInv'
<1> SUFFICES ASSUME LedgerInv, OpenWriter PROVE LedgerInv'
  OBVIOUS
<1>1. ReaderInv' /\ NeverInvalid'
  BY ReaderKept DEF OpenWriter
<1> QED
  BY <1>1 DEF LedgerInv, OpenWriter, TypeOK, WriterInv, EpochInv, BudgetHolds,
     NoOverflow, Sound, InSection, Clean, readerVars

LEMMA CloseWriterStep == LedgerInv /\ CloseWriter => LedgerInv'
<1> SUFFICES ASSUME LedgerInv, CloseWriter PROVE LedgerInv'
  OBVIOUS
<1>1. ReaderInv' /\ NeverInvalid'
  BY ReaderKept DEF CloseWriter
<1> QED
  BY <1>1 DEF LedgerInv, CloseWriter, TypeOK, WriterInv, EpochInv, BudgetHolds,
     NoOverflow, Sound, InSection, readerVars

LEMMA BeginStep ==
  ASSUME LedgerInv, NEW o \in Operations, Begin(o)
  PROVE  LedgerInv'
<1>1. /\ ctr \in Counters /\ o.len \in Nat /\ issued \in Nat /\ epoch \in Nat
      /\ \A f \in Fields : ctr[f] \in Nat
      /\ wpc = "idle" /\ ctr["pending"] = 0 /\ Sound(ctr) /\ MaxU64 \in Nat
      /\ \A f \in Fields : ctr[f] <= MaxU64
      /\ ctr["errors"] + 1 <= MaxU64 /\ epoch + 4 <= MaxU64
      /\ op' = o /\ UNCHANGED <<epoch, ctr, readerVars, issued>>
  BY OperationTypes, LedgerAssumption
  DEF LedgerInv, TypeOK, Counters, WriterInv, NoOverflow, Begin, RoomToFinish
<1>2. CASE o.kind # "write"
  <2> DEFINE g == [ctr EXCEPT !["pending"] = 1]
  <2>1. g \in Counters /\ g["pending"] = 1 /\ \A f \in Fields : f # "pending" => g[f] = ctr[f]
    BY <1>1, Updated DEF Fields
  <2>2. Sound(g) /\ Admitted(g, op')
    BY <1>1, <1>2, <2>1 DEF Sound, Admitted, Planned, Fields
  <2>3. Section(g, <<"pending">>, "submit")
    BY <1>2 DEF Begin
  <2>4. <<"pending">> \in Seq(Fields) /\ <<"pending">> # <<>> /\ Len(<<"pending">>) = 1
        /\ <<"pending">>[1] = "pending"
    BY DEF Fields
  <2>5. \A f \in Fields : g[f] <= MaxU64
    BY <1>1, <2>1 DEF Fields
  <2>6. \A f \in Fields : (\A i \in 1 .. Len(<<"pending">>) : <<"pending">>[i] # f)
                            => ctr[f] = g[f]
    BY <2>1, <2>4
  <2> HIDE DEF g
  <2> QED
    BY <1>1, <2>1, <2>2, <2>3, <2>4, <2>5, <2>6, SectionStarts
<1>3. CASE o.kind = "write" /\ Reserved(o) <= Limit
  <2> DEFINE g == [ctr EXCEPT !["reserved"] = Reserved(o), !["pending"] = 1]
             fs == <<"reserved", "pending">>
  <2>1. /\ g \in Counters /\ g["pending"] = 1 /\ g["reserved"] = ctr["reserved"] + o.len
        /\ \A f \in Fields : f \notin {"reserved", "pending"} => g[f] = ctr[f]
    BY <1>1 DEF Fields, Counters, Reserved
  <2>2. Sound(g) /\ Admitted(g, op')
    BY <1>1, <1>3, <2>1, LedgerAssumption DEF Sound, Admitted, Planned, Fields, Reserved
  <2>3. Section(g, fs, "submit")
    BY <1>3 DEF Begin
  <2>4. fs \in Seq(Fields) /\ fs # <<>> /\ Len(fs) = 2 /\ fs[1] = "reserved" /\ fs[2] = "pending"
    BY DEF Fields
  <2> HIDE DEF g, fs
  <2>5. \A f \in Fields : g[f] <= MaxU64
    <3>1. g["reserved"] <= MaxU64 /\ g["pending"] <= MaxU64
      BY <1>1, <1>3, <2>1, LedgerAssumption DEF Fields, Reserved
    <3> QED
      BY <1>1, <2>1, <3>1
  <2>6. \A f \in Fields : (\A i \in 1 .. Len(fs) : fs[i] # f) => ctr[f] = g[f]
    <3>1. 1 \in 1 .. Len(fs) /\ 2 \in 1 .. Len(fs)
      BY <2>4
    <3> QED
      BY <2>1, <2>4, <3>1
  <2> QED
    BY <1>1, <2>1, <2>2, <2>3, <2>4, <2>5, <2>6, SectionStarts
<1>4. CASE o.kind = "write" /\ ~(Reserved(o) <= Limit)
  <2> DEFINE g == [ctr EXCEPT !["exhausted"] = 1]
             fs == <<"exhausted">>
  <2>1. g \in Counters /\ g["exhausted"] = 1 /\ \A f \in Fields : f # "exhausted" => g[f] = ctr[f]
    BY <1>1, Updated DEF Fields
  <2>2. Sound(g) /\ g["pending"] = 0
    BY <1>1, <2>1 DEF Sound, Fields
  <2>3. Section(g, fs, "idle")
    BY <1>4 DEF Begin
  <2>4. fs \in Seq(Fields) /\ fs # <<>> /\ Len(fs) = 1 /\ fs[1] = "exhausted"
    BY DEF Fields
  <2>5. \A f \in Fields : g[f] <= MaxU64
    BY <1>1, <2>1 DEF Fields
  <2>6. \A f \in Fields : (\A i \in 1 .. Len(fs) : fs[i] # f) => ctr[f] = g[f]
    BY <2>1, <2>4
  <2> HIDE DEF g, fs
  <2> QED
    BY <1>1, <2>1, <2>2, <2>3, <2>4, <2>5, <2>6, SectionStarts
<1> QED
  BY <1>2, <1>3, <1>4

\* The epoch of a running attempt stays behind when the writer moves on.
LEMMA EpochMoves ==
  ASSUME LedgerInv, epoch' = epoch + 1, UNCHANGED readerVars
  PROVE  ReaderInv' /\ NeverInvalid'
  BY DEF LedgerInv, TypeOK, ReaderInv, NeverInvalid, readerVars

LEMMA EnterStep == LedgerInv /\ Enter => LedgerInv'
<1> SUFFICES ASSUME LedgerInv, Enter PROVE LedgerInv'
  OBVIOUS
<1>1. ReaderInv' /\ NeverInvalid'
  BY EpochMoves DEF Enter
<1>2. epoch \in Nat /\ Even(epoch) /\ ~Even(epoch') /\ epoch' \in Nat
  BY Parity DEF LedgerInv, TypeOK, WriterInv, Enter
<1>3. TypeOK'
  BY <1>2 DEF LedgerInv, TypeOK, Enter, readerVars
<1>4. WriterInv'
  BY <1>2 DEF LedgerInv, WriterInv, Enter, InSection, Sound, Admitted, Planned
<1>5. EpochInv'
  BY <1>2 DEF LedgerInv, TypeOK, EpochInv, Enter
<1>6. BudgetHolds' /\ NoOverflow'
  BY <1>2, LedgerAssumption
  DEF LedgerInv, TypeOK, EpochInv, BudgetHolds, NoOverflow, Enter
<1> QED
  BY <1>1, <1>3, <1>4, <1>5, <1>6 DEF LedgerInv

LEMMA StoreStep == LedgerInv /\ Store => LedgerInv'
<1> SUFFICES ASSUME LedgerInv, Store PROVE LedgerInv'
  OBVIOUS
<1>1. /\ ctr \in Counters /\ goal \in Counters /\ order \in Seq(Fields) /\ order # <<>>
      /\ ~Even(epoch) /\ epoch \in Nat /\ wpc = "store"
  BY DEF LedgerInv, TypeOK, WriterInv, Store
<1>2. /\ Head(order) \in Fields /\ Head(order) = order[1]
      /\ order' = Tail(order) /\ order' \in Seq(Fields)
      /\ Len(order') = Len(order) - 1 /\ Len(order) \in Nat \ {0}
      /\ \A i \in 1 .. Len(order') : order'[i] = order[i + 1]
  BY <1>1 DEF Store
<1>3. /\ ctr' \in Counters /\ ctr'[Head(order)] = goal[Head(order)]
      /\ \A f \in Fields : f # Head(order) => ctr'[f] = ctr[f]
  BY <1>1, <1>2 DEF Store, Counters
<1>4. TypeOK'
  BY <1>2, <1>3 DEF LedgerInv, TypeOK, Store, readerVars
<1>5. ASSUME NEW f \in Fields, \A i \in 1 .. Len(order') : order'[i] # f
      PROVE  ctr'[f] = goal'[f]
  <2>1. CASE f = Head(order)
    BY <1>3, <2>1 DEF Store
  <2>2. CASE f # Head(order)
    <3>1. ASSUME NEW i \in 1 .. Len(order) PROVE order[i] # f
      <4>1. CASE i = 1
        BY <1>2, <2>2, <4>1
      <4>2. CASE i # 1
        <5>1. i - 1 \in 1 .. Len(order') /\ (i - 1) + 1 = i
          BY <1>2, <4>2
        <5> QED
          BY <1>2, <1>5, <5>1
      <4> QED
        BY <4>1, <4>2
    <3>2. ctr[f] = goal[f]
      BY <1>1, <3>1 DEF LedgerInv, WriterInv, InSection
    <3> QED
      BY <1>3, <2>2, <3>2 DEF Store
  <2> QED
    BY <2>1, <2>2
<1>6. /\ wpc' \in {"store", "leave"} /\ (wpc' = "leave" <=> order' = <<>>)
      /\ UNCHANGED <<epoch, op, goal, next, readerVars, issued>>
  BY DEF Store
<1>7. Sound(goal)' /\ (next' = "submit" => Admitted(goal, op)')
                   /\ (next' = "idle" => goal'["pending"] = 0)
  BY <1>1, <1>6 DEF LedgerInv, WriterInv, InSection, Sound, Admitted, Planned
<1>8. WriterInv'
  BY <1>1, <1>5, <1>6, <1>7 DEF WriterInv, InSection
<1>9. EpochInv'
  BY <1>1, <1>6 DEF LedgerInv, EpochInv
<1>10. BudgetHolds'
  <2>1. Sound(goal) /\ issued <= ctr["reserved"] /\ ctr["reserved"] <= Limit
    BY <1>1 DEF LedgerInv, WriterInv, InSection, BudgetHolds
  <2>2. ctr'["reserved"] = ctr["reserved"] \/ ctr'["reserved"] = goal["reserved"]
    BY <1>3 DEF Fields
  <2> QED
    BY <1>6, <2>1, <2>2 DEF BudgetHolds, Sound
<1>11. NoOverflow'
  BY <1>2, <1>3, <1>6 DEF LedgerInv, NoOverflow
<1>12. ReaderInv' /\ NeverInvalid'
  BY <1>1, <1>6 DEF LedgerInv, ReaderInv, NeverInvalid, readerVars
<1> QED
  BY <1>4, <1>8, <1>9, <1>10, <1>11, <1>12 DEF LedgerInv

LEMMA LeaveStep == LedgerInv /\ Leave => LedgerInv'
<1> SUFFICES ASSUME LedgerInv, Leave PROVE LedgerInv'
  OBVIOUS
<1>1. ReaderInv' /\ NeverInvalid'
  BY EpochMoves DEF Leave
<1>2. /\ epoch \in Nat /\ ~Even(epoch) /\ Even(epoch') /\ epoch' \in Nat
      /\ order = <<>> /\ Len(order) = 0
  BY Parity DEF LedgerInv, TypeOK, WriterInv, Leave
<1>3. \A f \in Fields : ctr[f] = goal[f]
  BY <1>2 DEF LedgerInv, WriterInv, Leave, InSection
<1>4. TypeOK'
  BY <1>2 DEF LedgerInv, TypeOK, Leave, readerVars
<1>5. Sound(ctr)' /\ (next = "submit" => Admitted(ctr, op)')
                  /\ (next = "idle" => ctr'["pending"] = 0)
  BY <1>3 DEF LedgerInv, WriterInv, Leave, InSection, Sound, Admitted, Planned, Fields
<1>6. WriterInv'
  BY <1>2, <1>5 DEF LedgerInv, TypeOK, WriterInv, Leave, InSection
<1>7. EpochInv'
  BY <1>2, LedgerAssumption DEF LedgerInv, TypeOK, EpochInv, Leave
<1>8. BudgetHolds' /\ NoOverflow'
  BY <1>2, LedgerAssumption
  DEF LedgerInv, TypeOK, EpochInv, BudgetHolds, NoOverflow, Leave
<1> QED
  BY <1>1, <1>4, <1>6, <1>7, <1>8 DEF LedgerInv

LEMMA SubmitStep == LedgerInv /\ Submit => LedgerInv'
<1> SUFFICES ASSUME LedgerInv, Submit PROVE LedgerInv'
  OBVIOUS
<1>1. /\ op \in Operations /\ op.len \in Nat /\ issued \in Nat /\ Planned(op) \in Nat
      /\ issued' = issued + Planned(op) /\ ctr["reserved"] \in Nat /\ ctr["wbytes"] \in Nat
      /\ Even(epoch) /\ Sound(ctr) /\ Admitted(ctr, op) /\ Limit \in Nat
  <2>1. op \in Operations /\ issued \in Nat /\ ctr \in Counters /\ wpc = "submit"
    BY DEF LedgerInv, TypeOK, Submit
  <2>2. op.len \in Nat /\ Planned(op) \in Nat
    BY <2>1, OperationTypes DEF Planned
  <2>3. issued' = issued + Planned(op)
    BY DEF Submit, Planned
  <2>4. ctr["reserved"] \in Nat /\ ctr["wbytes"] \in Nat /\ Limit \in Nat
    BY <2>1, LedgerAssumption DEF Counters, Fields
  <2>5. Even(epoch) /\ Sound(ctr) /\ Admitted(ctr, op)
    BY <2>1 DEF LedgerInv, WriterInv
  <2> QED
    BY <2>1, <2>2, <2>3, <2>4, <2>5
<1>2. ReaderInv' /\ NeverInvalid'
  BY ReaderKept DEF Submit
<1>3. TypeOK'
  BY <1>1 DEF LedgerInv, TypeOK, Submit, readerVars
<1>4. Sound(ctr)' /\ Submitted(ctr, op)'
  BY <1>1 DEF Submit, Sound, Admitted, Submitted, Planned
<1>5. WriterInv'
  BY <1>1, <1>4 DEF WriterInv, Submit, InSection
<1>6. EpochInv' /\ NoOverflow'
  BY DEF LedgerInv, EpochInv, NoOverflow, Submit
<1>7. BudgetHolds'
  BY <1>4 DEF BudgetHolds, Sound
<1> QED
  BY <1>2, <1>3, <1>5, <1>6, <1>7 DEF LedgerInv

\* What is known of the counters while an operation is in flight.
LEMMA InFlight ==
  ASSUME LedgerInv, wpc \in {"submit", "wait"}
  PROVE  /\ ctr \in Counters /\ \A f \in Fields : ctr[f] \in Nat /\ ctr[f] <= MaxU64
         /\ issued \in Nat /\ epoch \in Nat /\ MaxU64 \in Nat /\ Limit \in Nat
         /\ op \in Operations /\ op.len \in Nat /\ Sound(ctr)
         /\ ctr["pending"] = 1 /\ ctr["errors"] + 1 <= MaxU64
         /\ epoch + 2 <= MaxU64
<1>1. ctr \in Counters /\ issued \in Nat /\ epoch \in Nat /\ op \in Operations
  BY DEF LedgerInv, TypeOK
<1>2. MaxU64 \in Nat /\ Limit \in Nat /\ op.len \in Nat
  BY <1>1, LedgerAssumption, OperationTypes
<1>3. \A f \in Fields : ctr[f] \in Nat /\ ctr[f] <= MaxU64
  BY <1>1 DEF Counters, LedgerInv, NoOverflow
<1>4. Sound(ctr) /\ ctr["pending"] = 1 /\ ctr["errors"] + 1 <= MaxU64
  BY DEF LedgerInv, WriterInv, Admitted, Submitted
<1>5. epoch + 2 <= MaxU64
  BY DEF LedgerInv, EpochInv
<1> QED
  BY <1>1, <1>2, <1>3, <1>4, <1>5

LEMMA FailureStep ==
  ASSUME LedgerInv, wpc \in {"submit", "wait"}, RecordFailure,
         UNCHANGED <<epoch, ctr, op, readerVars, issued>>
  PROVE  LedgerInv'
<1> DEFINE g == [ctr EXCEPT !["pending"] = 0, !["errors"] = @ + 1, !["incomplete"] = 1]
           fs == <<"pending", "errors", "incomplete">>
<1>1. ctr \in Counters /\ ctr["errors"] \in Nat
  BY InFlight DEF Fields
<1>2. /\ g \in Counters /\ g["pending"] = 0 /\ g["errors"] = ctr["errors"] + 1
      /\ g["incomplete"] = 1
      /\ \A f \in Fields : f \notin {"pending", "errors", "incomplete"} => g[f] = ctr[f]
  BY <1>1 DEF Counters, Fields
<1>3. Section(g, fs, "idle")
  BY DEF RecordFailure, FailureOrder
<1>4. /\ fs \in Seq(Fields) /\ fs # <<>> /\ Len(fs) = 3
      /\ fs[1] = "pending" /\ fs[2] = "errors" /\ fs[3] = "incomplete"
  BY DEF Fields
<1> HIDE DEF g, fs
<1>5. Sound(g)
  BY <1>2, InFlight DEF Sound, Fields
<1>6. \A f \in Fields : g[f] <= MaxU64
  <2>1. g["pending"] <= MaxU64 /\ g["errors"] <= MaxU64 /\ g["incomplete"] <= MaxU64
    BY <1>1, <1>2, InFlight
  <2> QED
    BY <1>2, <2>1, InFlight
<1>7. \A f \in Fields : (\A i \in 1 .. Len(fs) : fs[i] # f) => ctr[f] = g[f]
  <2>1. 1 \in 1 .. Len(fs) /\ 2 \in 1 .. Len(fs) /\ 3 \in 1 .. Len(fs)
    BY <1>4
  <2> QED
    BY <1>2, <1>4, <2>1
<1>8. op' \in Operations /\ epoch + 2 <= MaxU64
  BY InFlight
<1> QED
  BY <1>2, <1>3, <1>4, <1>5, <1>6, <1>7, <1>8, SectionStarts

LEMMA FailStep == LedgerInv /\ Fail => LedgerInv'
  BY FailureStep DEF Fail

LEMMA FinishStep == LedgerInv /\ Finish => LedgerInv'
<1> SUFFICES ASSUME LedgerInv, Finish PROVE LedgerInv'
  OBVIOUS
<1>1. wpc = "wait" /\ UNCHANGED <<epoch, ctr, op, readerVars, issued>>
  BY DEF Finish
<1>2. CASE ~FinishFits
  BY <1>1, <1>2, FailureStep DEF Finish
<1>3. /\ OpsField(op) \in {"rops", "wops", "fops"} /\ BytesField(op) \in {"rbytes", "wbytes"}
      /\ op.kind = "write" <=> BytesField(op) = "wbytes"
      /\ Submitted(ctr, op) /\ epoch + 2 <= MaxU64 /\ op' \in Operations
  <2>1. op \in Operations /\ op' \in Operations /\ epoch + 2 <= MaxU64
    BY <1>1, InFlight
  <2>2. Submitted(ctr, op)
    BY <1>1 DEF LedgerInv, WriterInv
  <2> QED
    BY <2>1, <2>2, OperationTypes DEF BytesField
<1>4. CASE FinishFits /\ op.kind = "flush"
  <2> DEFINE a == OpsField(op)
             g == [ctr EXCEPT ![a] = @ + 1, !["pending"] = 0]
             fs == <<a, "pending">>
  <2>1. a \in {"rops", "wops", "fops"} /\ ctr[a] + 1 <= MaxU64
    BY <1>3, <1>4 DEF FinishFits
  <2>2. Section(g, fs, "idle")
    BY <1>1, <1>4 DEF Finish
  <2> HIDE DEF a
  <2>3. /\ g \in Counters /\ g["pending"] = 0 /\ g[a] = ctr[a] + 1
        /\ \A f \in Fields : f \notin {a, "pending"} => g[f] = ctr[f]
    BY <1>1, <2>1, InFlight DEF Counters, Fields
  <2>4. fs \in Seq(Fields) /\ fs # <<>> /\ Len(fs) = 2 /\ fs[1] = a /\ fs[2] = "pending"
    BY <2>1 DEF Fields
  <2> HIDE DEF g, fs
  <2>5. Sound(g)
    BY <1>1, <1>3, <1>4, <2>1, <2>3, InFlight DEF Sound, Submitted, Planned, Fields
  <2>6. \A f \in Fields : g[f] <= MaxU64
    <3>1. g["pending"] <= MaxU64 /\ g[a] <= MaxU64
      BY <1>1, <2>1, <2>3, InFlight
    <3> QED
      BY <1>1, <2>3, <3>1, InFlight
  <2>7. \A f \in Fields : (\A i \in 1 .. Len(fs) : fs[i] # f) => ctr[f] = g[f]
    <3>1. 1 \in 1 .. Len(fs) /\ 2 \in 1 .. Len(fs)
      BY <2>4
    <3> QED
      BY <2>3, <2>4, <3>1
  <2> QED
    BY <1>1, <1>3, <2>2, <2>3, <2>4, <2>5, <2>6, <2>7, SectionStarts
<1>5. CASE FinishFits /\ op.kind # "flush"
  <2> DEFINE a == OpsField(op)
             b == BytesField(op)
             g == [ctr EXCEPT ![a] = @ + 1, ![b] = @ + op.len, !["pending"] = 0]
             fs == <<a, b, "pending">>
  <2>1. /\ a \in {"rops", "wops", "fops"} /\ ctr[a] + 1 <= MaxU64
        /\ b \in {"rbytes", "wbytes"} /\ ctr[b] + op.len <= MaxU64
        /\ op.kind = "write" <=> b = "wbytes"
    BY <1>3, <1>5 DEF FinishFits
  <2>2. Section(g, fs, "idle")
    BY <1>1, <1>5 DEF Finish
  <2> HIDE DEF a, b
  <2>3. /\ g \in Counters /\ g["pending"] = 0 /\ g[a] = ctr[a] + 1
        /\ g[b] = ctr[b] + op.len
        /\ \A f \in Fields : f \notin {a, b, "pending"} => g[f] = ctr[f]
    BY <1>1, <2>1, InFlight DEF Counters, Fields
  <2>4. /\ fs \in Seq(Fields) /\ fs # <<>> /\ Len(fs) = 3
        /\ fs[1] = a /\ fs[2] = b /\ fs[3] = "pending"
    BY <2>1 DEF Fields
  <2> HIDE DEF g, fs
  <2>5. Sound(g)
    <3>1. CASE op.kind = "write"
      BY <1>1, <1>3, <2>1, <2>3, <3>1, InFlight DEF Sound, Submitted, Planned, Fields
    <3>2. CASE op.kind # "write"
      BY <1>1, <1>3, <2>1, <2>3, <3>2, InFlight DEF Sound, Submitted, Planned, Fields
    <3> QED
      BY <3>1, <3>2
  <2>6. \A f \in Fields : g[f] <= MaxU64
    <3>1. g["pending"] <= MaxU64 /\ g[a] <= MaxU64 /\ g[b] <= MaxU64
      BY <1>1, <2>1, <2>3, InFlight
    <3> QED
      BY <1>1, <2>3, <3>1, InFlight
  <2>7. \A f \in Fields : (\A i \in 1 .. Len(fs) : fs[i] # f) => ctr[f] = g[f]
    <3>1. 1 \in 1 .. Len(fs) /\ 2 \in 1 .. Len(fs) /\ 3 \in 1 .. Len(fs)
      BY <2>4
    <3> QED
      BY <2>3, <2>4, <3>1
  <2> QED
    BY <1>1, <1>3, <2>2, <2>3, <2>4, <2>5, <2>6, <2>7, SectionStarts
<1> QED
  BY <1>2, <1>4, <1>5

LEMMA KillStep == LedgerInv /\ Kill => LedgerInv'
<1> SUFFICES ASSUME LedgerInv, Kill PROVE LedgerInv'
  OBVIOUS
<1>1. ReaderInv' /\ NeverInvalid'
  BY ReaderKept DEF Kill
<1>2. TypeOK'
  BY DEF LedgerInv, TypeOK, Kill, readerVars, Operations, Flush
<1>3. WriterInv'
  BY DEF LedgerInv, WriterInv, Kill, Sound, InSection
<1>4. EpochInv' /\ BudgetHolds' /\ NoOverflow'
  BY DEF LedgerInv, EpochInv, BudgetHolds, NoOverflow, Kill
<1> QED
  BY <1>1, <1>2, <1>3, <1>4 DEF LedgerInv

-----------------------------------------------------------------------------
(* The reader's steps *)

\* A step of the reader keeps everything that does not mention it.
LEMMA WriterKept ==
  ASSUME LedgerInv, UNCHANGED <<epoch, ctr, writerVars, issued>>
  PROVE  WriterInv' /\ EpochInv' /\ BudgetHolds' /\ NoOverflow'
  BY DEF LedgerInv, WriterInv, EpochInv, BudgetHolds, NoOverflow, writerVars, Sound,
     Admitted, Submitted, Planned, InSection

LEMMA ReaderStep == LedgerInv /\ (StartSnapshot \/ Snapshotting) => LedgerInv'
<1> SUFFICES ASSUME LedgerInv, StartSnapshot \/ Snapshotting PROVE LedgerInv'
  OBVIOUS
<1>1. UNCHANGED <<epoch, ctr, writerVars, issued>>
  BY DEF StartSnapshot, Snapshotting, LoadEpoch, Load, Check
<1>2. WriterInv' /\ EpochInv' /\ BudgetHolds' /\ NoOverflow'
  BY <1>1, WriterKept
<1>3. NewLedger \in Counters
  BY DEF NewLedger, Counters
<1>4. /\ epoch \in Nat /\ ctr \in Counters /\ view \in Counters /\ Attempts \in Nat
      /\ tries \in 0 .. Attempts /\ at \in 1 .. 9 /\ Len(ReadOrder) = 9
  BY AllLoaded, LedgerAssumption DEF LedgerInv, TypeOK
<1>5. TypeOK' /\ ReaderInv' /\ NeverInvalid'
  <2>1. CASE StartSnapshot
    BY <1>4, <2>1
    DEF LedgerInv, TypeOK, ReaderInv, NeverInvalid, StartSnapshot, writerVars
  <2>2. CASE LoadEpoch
    <3>1. CASE tries = Attempts
      BY <1>3, <1>4, <2>2, <3>1
      DEF LedgerInv, TypeOK, ReaderInv, NeverInvalid, LoadEpoch, Return, writerVars
    <3>2. CASE tries # Attempts /\ Quiet
      BY <1>4, <2>2, <3>2
      DEF LedgerInv, TypeOK, ReaderInv, NeverInvalid, LoadEpoch, Quiet, writerVars
    <3>3. CASE tries # Attempts /\ ~Quiet
      BY <1>4, <2>2, <3>3
      DEF LedgerInv, TypeOK, ReaderInv, NeverInvalid, LoadEpoch, RetryOdd, writerVars
    <3> QED
      BY <3>1, <3>2, <3>3
  <2>3. CASE Load
    <3>1. /\ view' \in Counters
          /\ \A f \in Fields : view'[f] = IF f \in ReadOrder[at] THEN ctr[f] ELSE view[f]
      BY <1>4, <2>3 DEF Load, Counters
    <3>2. TypeOK' /\ NeverInvalid'
      BY <1>4, <2>3, <3>1 DEF LedgerInv, TypeOK, NeverInvalid, Load, writerVars
    <3>3. before = epoch => \A i \in 1 .. at : \A f \in ReadOrder[i] : view'[f] = ctr[f]
      <4> SUFFICES ASSUME before = epoch, NEW i \in 1 .. at, NEW f \in ReadOrder[i]
                   PROVE  view'[f] = ctr[f]
        OBVIOUS
      <4>1. f \in Fields
        BY <1>4, AllLoaded
      <4>2. CASE i = at
        BY <3>1, <4>1, <4>2
      <4>3. CASE i # at
        <5>1. i \in 1 .. at - 1
          BY <1>4, <4>3
        <5>2. view[f] = ctr[f]
          BY <2>3, <5>1 DEF LedgerInv, ReaderInv, Load
        <5> QED
          BY <3>1, <4>1, <5>2
      <4> QED
        BY <4>2, <4>3
    <3>4. CASE at = 9
      <4>1. before = epoch => view' = ctr
        <5> SUFFICES ASSUME before = epoch PROVE view' = ctr
          OBVIOUS
        <5>1. \A f \in Fields : view'[f] = ctr[f]
          BY <3>3, <3>4, AllLoaded
        <5> QED
          BY <1>4, <3>1, <5>1 DEF Counters
      <4> QED
        BY <1>4, <2>3, <3>2, <3>4, <4>1 DEF LedgerInv, ReaderInv, Load
    <3>5. CASE at # 9
      <4>1. at' = at + 1 /\ rpc' = "load" /\ UNCHANGED <<epoch, ctr, before, tries>>
        BY <1>4, <2>3, <3>5 DEF Load
      <4>2. at' - 1 = at
        BY <1>4, <4>1
      <4>3. before' = epoch' =>
              \A i \in 1 .. at' - 1 : \A f \in ReadOrder[i] : view'[f] = ctr'[f]
        BY <3>3, <4>1, <4>2
      <4> QED
        BY <2>3, <3>2, <4>1, <4>3 DEF LedgerInv, ReaderInv, Load
    <3> QED
      BY <3>4, <3>5
  <2>4. CASE Check
    <3>1. CASE epoch = before
      <4>1. view = ctr /\ Even(epoch)
        BY <2>4, <3>1 DEF LedgerInv, ReaderInv, Check
      <4>2. Valid(view)
        <5>1. Sound(ctr)
          BY <4>1 DEF LedgerInv, WriterInv
        <5>2. /\ ctr["wbytes"] \in Nat /\ ctr["reserved"] \in Nat /\ issued \in Nat
          BY DEF LedgerInv, TypeOK, Counters, Fields
        <5> QED
          BY <4>1, <5>1, <5>2 DEF Sound, Valid
      <4> QED
        BY <1>3, <1>4, <2>4, <3>1, <4>2
        DEF LedgerInv, TypeOK, ReaderInv, NeverInvalid, Check, Return, writerVars
    <3>2. CASE epoch # before
      BY <1>4, <2>4, <3>2
      DEF LedgerInv, TypeOK, ReaderInv, NeverInvalid, Check, writerVars
    <3> QED
      BY <3>1, <3>2
  <2> QED
    BY <2>1, <2>2, <2>3, <2>4 DEF Snapshotting
<1> QED
  BY <1>2, <1>5 DEF LedgerInv

-----------------------------------------------------------------------------
(* The theorems *)

LEMMA NextStep == LedgerInv /\ [Next]_vars => LedgerInv'
<1> SUFFICES ASSUME LedgerInv, [Next]_vars PROVE LedgerInv'
  OBVIOUS
<1>1. CASE Writer
  BY <1>1, OpenWriterStep, CloseWriterStep, BeginStep, EnterStep, StoreStep, LeaveStep,
     SubmitStep, FailStep, FinishStep, KillStep DEF Writer
<1>2. CASE StartSnapshot \/ Snapshotting
  BY <1>2, ReaderStep
<1>3. CASE UNCHANGED vars
  BY <1>3 DEF LedgerInv, TypeOK, WriterInv, EpochInv, ReaderInv, BudgetHolds, NoOverflow,
     NeverInvalid, Sound, Admitted, Submitted, Planned, InSection, vars
<1> QED
  BY <1>1, <1>2, <1>3 DEF Next

\* The ledger's invariant holds in every reachable state: the writer's sections
\* lead from sound counters to sound counters whatever is killed in between, and a
\* reader's loads are current while the epoch stands (begin, finish, stable_snapshot).
THEOREM LedgerInvariant == Spec => []LedgerInv
<1>1. Init => LedgerInv
  BY InitHolds
<1>2. LedgerInv /\ [Next]_vars => LedgerInv'
  BY NextStep
<1> QED
  BY <1>1, <1>2, PTL DEF Spec

\* An accepted snapshot is the ledger at one moment outside every section, for
\* every interleaving of loads and stores and any death of the writer.
THEOREM SnapshotsCoherent == Spec => []SnapshotCoherent
<1>1. LedgerInv => SnapshotCoherent
  <2> SUFFICES ASSUME LedgerInv, rpc = "check", before = epoch
               PROVE  view = ctr /\ wpc \notin {"store", "leave"}
    BY DEF SnapshotCoherent
  <2>1. Even(epoch) /\ view = ctr
    BY DEF LedgerInv, ReaderInv
  <2> QED
    BY <2>1 DEF LedgerInv, WriterInv
<1> QED
  BY <1>1, LedgerInvariant, PTL

\* No snapshot of a ledger written only by this code is reported as corrupt.
THEOREM SnapshotsValid == Spec => []NeverInvalid
<1>1. LedgerInv => NeverInvalid
  BY DEF LedgerInv
<1> QED
  BY <1>1, LedgerInvariant, PTL

\* The write budget holds over all writers, failures and kills.
THEOREM BudgetKept == Spec => []BudgetHolds
<1>1. LedgerInv => BudgetHolds
  BY DEF LedgerInv
<1> QED
  BY <1>1, LedgerInvariant, PTL

\* A ledger that can be opened for writing accounts for every submitted byte.
THEOREM CleanIsExact == Spec => []CleanLedgerExact
<1>1. LedgerInv => CleanLedgerExact
  BY DEF LedgerInv, WriterInv, Sound, CleanLedgerExact, Clean
<1> QED
  BY <1>1, LedgerInvariant, PTL

\* Neither the epoch nor a counter overflows, the ones that Drop stores included.
THEOREM CountersFit == Spec => []NoOverflow
<1>1. LedgerInv => NoOverflow
  BY DEF LedgerInv
<1> QED
  BY <1>1, LedgerInvariant, PTL

-----------------------------------------------------------------------------
(* Accounted I/O on the ring: BackingIo implements IoLedger.               *)

\* Every step of the ring, the kernel and the calls is a ledger step or none.
LEMMA LedgerStutters ==
  ASSUME [IoNext]_ioVars
  PROVE  [Next]_vars
<1>1. CASE \E ud \in UserData : Push(ud)
  BY <1>1 DEF Push, Next, Writer
<1>2. CASE \E count \in 0 .. QueueEntries : SubmitAndWait(count)
  BY <1>2 DEF SubmitAndWait, Next, Writer
<1>3. CASE WaitFails
  BY <1>3 DEF WaitFails, Next, Writer
<1>4. CASE Reap
  BY <1>4 DEF Reap, Decide, Next, Writer
<1>5. CASE \E e \in inflight, result \in Results : Complete(e, result)
  BY <1>5 DEF Complete
<1>6. CASE OpenIo \/ EndIo \/ RejectUnclassified
  BY <1>6 DEF OpenIo, EndIo, RejectUnclassified, Next, Writer
<1>7. CASE LedgerStep \/ Reading
  BY <1>7 DEF LedgerStep, Reading, Next, Writer
<1>8. CASE UNCHANGED ioVars
  BY <1>8 DEF ioVars
<1>9. CASE \E e \in lost, result \in Results : CompleteLost(e, result)
  BY <1>9 DEF CompleteLost
<1> QED
  BY <1>1, <1>2, <1>3, <1>4, <1>5, <1>6, <1>7, <1>8, <1>9 DEF IoNext

\* Accounted I/O implements the ledger: each step of the ring, of the kernel and of the loop in
\* wait_exact_with is a step of IoLedger or leaves the ledger alone (submit_exact).
THEOREM IoImplementsLedger == IoSpec => Spec
<1>1. IoInit => Init
  BY DEF IoInit
<1>2. [IoNext]_ioVars => [Next]_vars
  BY LedgerStutters
<1> QED
  BY <1>1, <1>2, PTL DEF IoSpec, Spec

\* The ledger's invariant holds under accounted I/O.
LEMMA LedgerUnderIo == IoSpec => []LedgerInv
  BY IoImplementsLedger, LedgerInvariant, PTL

-----------------------------------------------------------------------------
(* The inductive invariant *)

\* What the proofs use of the ledger's types.
LEMMA LedgerTypes ==
  ASSUME LedgerInv
  PROVE  /\ \A f \in Fields : ctr[f] \in Nat /\ goal[f] \in Nat
         /\ op \in Operations /\ Planned(op) \in Nat
         /\ epoch \in Nat /\ issued \in Nat
<1>1. ctr \in [Fields -> Nat] /\ goal \in [Fields -> Nat] /\ op \in Operations
  BY DEF LedgerInv, TypeOK, Counters
<1>2. op.len \in Nat
  BY <1>1, OperationTypes
<1>3. epoch \in Nat /\ issued \in Nat
  BY DEF LedgerInv, TypeOK
<1> QED
  BY <1>1, <1>2, <1>3 DEF Planned

\* A failed operation marks the ledger incomplete in the section it starts.
LEMMA FailFacts ==
  ASSUME LedgerInv, Fail
  PROVE  /\ wpc' = "enter" /\ ctr' = ctr /\ epoch' = epoch /\ op' = op
         /\ goal'["incomplete"] = 1 /\ goal'["wbytes"] = ctr["wbytes"]
         /\ ctr["pending"] = 1
<1>1. ctr \in [Fields -> Nat]
  BY DEF LedgerInv, TypeOK, Counters
<1>2. goal' = [ctr EXCEPT !["pending"] = 0, !["errors"] = @ + 1, !["incomplete"] = 1]
  BY DEF Fail, RecordFailure, Section
<1>3. goal'["incomplete"] = 1 /\ goal'["wbytes"] = ctr["wbytes"]
  BY <1>1, <1>2 DEF Fields
<1>4. ctr["pending"] = 1
  BY DEF LedgerInv, WriterInv, Fail, Admitted, Submitted
<1> QED
  BY <1>3, <1>4 DEF Fail, RecordFailure, Section

LEMMA NoEntries == <<>> \in Seq(Entry) /\ <<>> \in Seq(Completion) /\ {} \subseteq Entry
  OBVIOUS

LEMMA IoInitHolds == IoInit => BackingIoInv
<1> SUFFICES ASSUME IoInit PROVE BackingIoInv
  OBVIOUS
<1>1. RingTypeOK
  <2>1. FlagTypes
    BY DEF IoInit, FlagTypes
  <2>2. QueueTypes
    BY NoEntries DEF IoInit, QueueTypes
  <2> QED
    BY <2>1, <2>2 DEF RingTypeOK
<1>2. BuffersReturned /\ EntryInv
  BY DEF IoInit, Init, BuffersReturned, EntryInv
<1>4. LostInv
  BY DEF IoInit, LostInv
<1>3. WrittenInv
  BY DEF IoInit, Init, NewLedger, Fields, WrittenInv, Uncounted, InSection
<1> QED
  BY <1>1, <1>2, <1>3, <1>4 DEF BackingIoInv

\* A call that fails with the ring dropped.
LEMMA DropStep ==
  ASSUME LedgerInv, BackingIoInv, NEW held, held \subseteq Entry, Fail, DropRing(held),
         CallReturns, written' = written
  PROVE  BackingIoInv'
<1>1. RingTypeOK'
  <2>1. FlagTypes'
    BY DEF DropRing, CallReturns, FlagTypes
  <2>2. QueueTypes'
    BY NoEntries DEF BackingIoInv, RingTypeOK, DropRing, CallReturns, QueueTypes
  <2> QED
    BY <2>1, <2>2 DEF RingTypeOK
<1>2. BuffersReturned' /\ EntryInv'
  BY FailFacts DEF DropRing, BuffersReturned, EntryInv
<1>4. LostInv'
  BY FailFacts DEF LostInv, Clean
<1>3. WrittenInv'
  <2>1. Uncounted' = 0 /\ Uncounted \in Nat
    BY FailFacts, LedgerTypes DEF Uncounted
  <2>2. ctr["wbytes"] \in Nat /\ written \in Nat
    BY LedgerTypes DEF BackingIoInv, RingTypeOK, QueueTypes, Fields
  <2> QED
    BY <2>1, <2>2, FailFacts DEF BackingIoInv, WrittenInv, InSection, Clean
<1> QED
  BY <1>1, <1>2, <1>3, <1>4 DEF BackingIoInv

LEMMA PushStep ==
  ASSUME LedgerInv, BackingIoInv, NEW ud \in UserData, Push(ud)
  PROVE  BackingIoInv'
<1>1. sq = <<>> /\ inflight = {} /\ cq = <<>>
  BY DEF Push, BackingIoInv, BuffersReturned
<1>2. Len(sq) < QueueEntries
  BY <1>1, RingAssumption
<1>3. CASE ~ring
  BY <1>1, <1>3, DropStep, NoEntries DEF Push
<1>4. CASE ring
  <2>1. /\ Submit /\ wpc' = "wait" /\ ctr' = ctr /\ op' = op /\ epoch' = epoch
        /\ user_data' = ud /\ submitted' = 0 /\ unexpected' = FALSE /\ stage' = "enter"
        /\ ring' = ring /\ inflight' = {} /\ cq' = <<>> /\ written' = written
        /\ lost = {} /\ lost' = {}
    BY <1>1, <1>2, <1>4 DEF Push, Submit, BackingIoInv, BuffersReturned
  <2>2. sq' = <<OwnEntry'>>
    <3>1. sq' = Append(sq, [ud |-> ud, bytes |-> Planned(op)])
      BY <1>2, <1>4 DEF Push, Planned
    <3>2. OwnEntry' = [ud |-> ud, bytes |-> Planned(op)]
      BY <2>1 DEF OwnEntry, Planned
    <3> QED
      BY <1>1, <3>1, <3>2
  <2>3. OwnEntry' \in Entry
    BY <2>1, LedgerTypes DEF OwnEntry, Entry, Planned
  <2>4. RingTypeOK'
    <3>1. FlagTypes'
      BY <1>4, <2>1 DEF FlagTypes
    <3>2. sq' \in Seq(Entry)
      BY <2>2, <2>3
    <3>3. QueueTypes'
      BY <2>1, <3>2, NoEntries DEF BackingIoInv, RingTypeOK, QueueTypes
    <3> QED
      BY <3>1, <3>3 DEF RingTypeOK
  <2>5. BuffersReturned' /\ EntryInv' /\ LostInv'
    BY <2>1, <2>2 DEF BuffersReturned, EntryInv, LostInv
  <2>6. WrittenInv'
    <3>1. Uncounted = 0 /\ Uncounted' = 0
      BY <2>1 DEF Uncounted, Completed, Push
    <3> QED
      BY <2>1, <3>1 DEF BackingIoInv, WrittenInv, InSection, Clean, Push
  <2> QED
    BY <2>4, <2>5, <2>6 DEF BackingIoInv
<1> QED
  BY <1>3, <1>4
LEMMA OneEntry == \A e : SubSeq(<<e>>, 1, 1) = <<e>>
<1> TAKE e
<1>1. Len(<<e>>) = 1 /\ <<e>>[1] = e
  OBVIOUS
<1>2. SubSeq(<<e>>, 1, 1) = [i \in 1 .. 1 |-> e]
  BY <1>1, SMT
<1>3. <<e>> = [i \in 1 .. 1 |-> e]
  BY <1>1, SMT
<1> QED
  BY <1>2, <1>3

\* submit_and_wait consumes the call's entry, or nothing.
LEMMA SubmitAndWaitStep ==
  ASSUME LedgerInv, BackingIoInv, NEW count \in 0 .. QueueEntries, SubmitAndWait(count)
  PROVE  BackingIoInv'
<1>1. CASE ~(count <= 1 - submitted)
  <2>1. {sq[i] : i \in 1 .. count} \subseteq Entry /\ inflight \subseteq Entry
    BY <1>1 DEF SubmitAndWait, BackingIoInv, RingTypeOK, QueueTypes
  <2> QED
    BY <1>1, <2>1, DropStep DEF SubmitAndWait
<1>2. CASE count <= 1 - submitted
  <2>1. /\ wpc = "wait" /\ wpc' = wpc /\ ctr' = ctr /\ op' = op /\ epoch' = epoch
        /\ goal' = goal /\ ring' = ring /\ cq' = cq /\ user_data' = user_data
        /\ unexpected' = unexpected /\ written' = written /\ stage' = "reap"
        /\ inflight' = inflight \cup {sq[i] : i \in 1 .. count}
        /\ sq' = SubSeq(sq, count + 1, Len(sq))
        /\ submitted' = submitted + count /\ count <= Len(sq) /\ lost = {} /\ lost' = {}
    BY <1>2 DEF SubmitAndWait, vars, BackingIoInv, BuffersReturned
  <2>2. EntryInv
    BY DEF BackingIoInv
  <2>3. OwnEntry' = OwnEntry /\ Uncounted' = Uncounted /\ \A r : Completed(r)' <=> Completed(r)
    BY <2>1 DEF OwnEntry, Uncounted, Completed, Planned
  <2>4. OwnEntry \in Entry
    BY <2>1, <2>2, LedgerTypes DEF EntryInv, OwnEntry, Entry
  <2>5. /\ EntryInv'
        /\ sq' \in Seq(Entry) /\ inflight' \subseteq Entry /\ submitted' \in {0, 1}
    <3>1. CASE sq = <<>>
      <4>1. count = 0
        BY <2>1, <3>1
      <4>2. sq' = <<>> /\ inflight' = inflight /\ submitted' = submitted
        BY <2>1, <3>1, <4>1 DEF BackingIoInv, RingTypeOK, QueueTypes
      <4> QED
        BY <2>1, <2>2, <2>3, <3>1, <4>2 DEF EntryInv, BackingIoInv, RingTypeOK, QueueTypes
    <3>2. CASE sq # <<>>
      <4>1. sq = <<OwnEntry>> /\ inflight = {} /\ cq = <<>> /\ submitted = 0
        BY <2>1, <2>2, <3>2 DEF EntryInv
      <4>2. count = 0 \/ count = 1
        BY <2>1, <4>1
      <4>3. CASE count = 0
        <5>1. sq' = SubSeq(<<OwnEntry>>, 1, 1) /\ submitted' = 0
          BY <2>1, <4>1, <4>3
        <5>2. sq' = <<OwnEntry>>
          BY <5>1, OneEntry
        <5>3. inflight' = {}
          BY <2>1, <4>1, <4>3
        <5>4. sq' \in Seq(Entry)
          BY <2>4, <5>2
        <5>5. EntryInv'
          BY <2>1, <2>2, <2>3, <4>1, <5>1, <5>2, <5>3 DEF EntryInv
        <5> QED
          BY <5>1, <5>3, <5>4, <5>5
      <4>4. CASE count = 1
        <5>1. sq' = <<>> /\ inflight' = {OwnEntry} /\ submitted' = 1
          <6>1. {sq[i] : i \in 1 .. 1} = {OwnEntry}
            BY <4>1
          <6> QED
            BY <2>1, <4>1, <4>4, <6>1
        <5> QED
          BY <2>1, <2>2, <2>3, <2>4, <4>1, <5>1, NoEntries DEF EntryInv
      <4> QED
        BY <4>2, <4>3, <4>4
    <3> QED
      BY <3>1, <3>2
  <2>6. FlagTypes'
    BY <2>1 DEF BackingIoInv, RingTypeOK, FlagTypes
  <2>7. QueueTypes'
    BY <2>1, <2>5 DEF BackingIoInv, RingTypeOK, QueueTypes
  <2>8. BuffersReturned' /\ LostInv'
    BY <2>1 DEF BuffersReturned, LostInv
  <2>9. WrittenInv'
    BY <2>1, <2>3 DEF BackingIoInv, WrittenInv, InSection, Clean
  <2> QED
    BY <2>5, <2>6, <2>7, <2>8, <2>9 DEF BackingIoInv, RingTypeOK
<1> QED
  BY <1>1, <1>2

\* The kernel completes the call's entry.
LEMMA CompleteStep ==
  ASSUME LedgerInv, BackingIoInv, NEW e \in inflight, NEW result \in Results,
         Complete(e, result)
  PROVE  BackingIoInv'
<1>1. /\ wpc' = wpc /\ ctr' = ctr /\ op' = op /\ epoch' = epoch /\ goal' = goal
      /\ ring' = ring /\ sq' = sq /\ user_data' = user_data /\ submitted' = submitted
      /\ unexpected' = unexpected /\ stage' = stage
      /\ inflight' = inflight \ {e} /\ cq' = Append(cq, [ud |-> e.ud, result |-> result])
      /\ written' = IF result = "exact" THEN written + e.bytes ELSE written
      /\ lost' = lost
  BY DEF Complete, vars, callVars
<1>2. wpc = "wait"
  BY DEF BackingIoInv, BuffersReturned
<1>3. /\ user_data \in UserData /\ ~unexpected
      /\ sq = <<>> /\ inflight = {OwnEntry} /\ cq = <<>> /\ submitted = 1
  BY <1>2 DEF BackingIoInv, EntryInv
<1>4. e = OwnEntry /\ e.ud = user_data /\ e.bytes = Planned(op)
  BY <1>3 DEF OwnEntry
<1>5. inflight' = {} /\ cq' = <<[ud |-> user_data, result |-> result]>>
  BY <1>1, <1>3, <1>4
<1>6. Completed(result)'
  BY <1>1, <1>5 DEF Completed
<1>7. FlagTypes'
  BY <1>1 DEF BackingIoInv, RingTypeOK, FlagTypes
<1>8. QueueTypes'
  <2>1. cq' \in Seq(Completion)
    <3>1. [ud |-> user_data, result |-> result] \in Completion
      BY <1>3 DEF Completion
    <3> QED
      BY <1>5, <3>1
  <2>2. written' \in Nat
    BY <1>1, <1>4, LedgerTypes DEF BackingIoInv, RingTypeOK, QueueTypes
  <2> QED
    BY <1>1, <1>5, <2>1, <2>2 DEF BackingIoInv, RingTypeOK, QueueTypes
<1>9. BuffersReturned' /\ EntryInv' /\ LostInv'
  BY <1>1, <1>2, <1>3, <1>5, <1>6 DEF BackingIoInv, BuffersReturned, EntryInv, LostInv
<1>10. WrittenInv'
  <2>1. Uncounted = 0
    BY <1>3 DEF Uncounted, Completed
  <2>2. Uncounted' = IF result = "exact" THEN Planned(op) ELSE 0
    <3>1. Completed("exact")' <=> result = "exact"
      <4>1. Completed("exact")' <=>
              <<[ud |-> user_data, result |-> result]>> = <<[ud |-> user_data, result |-> "exact"]>>
        BY <1>1, <1>5 DEF Completed
      <4>2. [ud |-> user_data, result |-> result] = [ud |-> user_data, result |-> "exact"]
              <=> result = "exact"
        OBVIOUS
      <4> QED
        BY <4>1, <4>2
    <3> QED
      BY <1>1, <1>2, <3>1 DEF Uncounted, Planned
  <2>3. written' = written + Uncounted'
    BY <1>1, <1>4, <2>2, LedgerTypes DEF BackingIoInv, RingTypeOK, QueueTypes
  <2>4. ctr["wbytes"] \in Nat /\ written \in Nat /\ Planned(op) \in Nat
    BY LedgerTypes DEF BackingIoInv, RingTypeOK, QueueTypes, Fields
  <2>5. ctr["pending"] = 1
    BY <1>2 DEF LedgerInv, WriterInv, Submitted
  <2> QED
    BY <1>1, <1>2, <2>1, <2>2, <2>3, <2>4, <2>5
    DEF BackingIoInv, WrittenInv, InSection, Clean
<1> QED
  BY <1>7, <1>8, <1>9, <1>10 DEF BackingIoInv, RingTypeOK

\* The kernel is done with an entry of a dropped ring: nobody counts what it wrote.
LEMMA CompleteLostStep ==
  ASSUME LedgerInv, BackingIoInv, NEW e \in lost, NEW result \in Results,
         CompleteLost(e, result)
  PROVE  BackingIoInv'
<1>1. /\ wpc' = wpc /\ ctr' = ctr /\ op' = op /\ epoch' = epoch /\ goal' = goal
      /\ ring' = ring /\ sq' = sq /\ user_data' = user_data /\ submitted' = submitted
      /\ unexpected' = unexpected /\ stage' = stage /\ inflight' = inflight /\ cq' = cq
      /\ lost' = lost \ {e} /\ lost # {}
      /\ written' = IF result = "exact" THEN written + e.bytes ELSE written
  BY DEF CompleteLost, vars, callVars
<1>2. /\ ctr["wbytes"] \in Nat /\ goal["wbytes"] \in Nat /\ written \in Nat /\ e.bytes \in Nat
      /\ written' \in Nat /\ written <= written'
  <2>1. ctr["wbytes"] \in Nat /\ goal["wbytes"] \in Nat /\ written \in Nat /\ e \in Entry
    BY LedgerTypes DEF BackingIoInv, RingTypeOK, QueueTypes, Fields
  <2> QED
    BY <1>1, <2>1 DEF Entry
<1>3. FlagTypes'
  BY <1>1 DEF BackingIoInv, RingTypeOK, FlagTypes
<1>4. QueueTypes'
  BY <1>1, <1>2 DEF BackingIoInv, RingTypeOK, QueueTypes
<1>5. wpc # "wait" /\ BuffersReturned' /\ EntryInv' /\ LostInv'
  BY <1>1 DEF BackingIoInv, BuffersReturned, EntryInv, LostInv, Clean, InSection
<1>6. Uncounted = 0 /\ Uncounted' = 0
  BY <1>1, <1>5 DEF Uncounted
<1>7. WrittenInv'
  BY <1>1, <1>2, <1>5, <1>6 DEF BackingIoInv, LostInv, WrittenInv, InSection, Clean
<1> QED
  BY <1>3, <1>4, <1>5, <1>7 DEF BackingIoInv, RingTypeOK

\* A call that ends with its ring in use: its completion is consumed.
LEMMA ReapStep ==
  ASSUME LedgerInv, BackingIoInv, Reap
  PROVE  BackingIoInv'
<1> USE DEF RingTypeOK
<1>1. /\ wpc = "wait" /\ stage = "reap" /\ EntryInv /\ user_data \in UserData /\ ~unexpected
      /\ lost = {} /\ lost' = {}
  BY DEF Reap, Decide, BackingIoInv, BuffersReturned, EntryInv
<1>5. LostInv'
  BY <1>1 DEF LostInv
<1>2. ctr["wbytes"] \in Nat /\ written \in Nat /\ Planned(op) \in Nat /\ ctr["pending"] = 1
  BY <1>1, LedgerTypes DEF BackingIoInv, QueueTypes, Fields, LedgerInv, WriterInv, Submitted
<1>3. CASE cq = <<>>
  <2>1. /\ wpc' = wpc /\ ctr' = ctr /\ op' = op /\ epoch' = epoch /\ goal' = goal
        /\ ring' = ring /\ sq' = sq /\ inflight' = inflight /\ cq' = cq
        /\ user_data' = user_data /\ submitted' = submitted /\ stage' = "enter"
        /\ unexpected' = (unexpected \/ cq # <<>>) /\ written' = written
    BY <1>3 DEF Reap, vars
  <2>2. ~unexpected' /\ unexpected' \in BOOLEAN
    BY <1>1, <1>3, <2>1
  <2>3. OwnEntry' = OwnEntry /\ Uncounted' = Uncounted /\ \A r : Completed(r)' <=> Completed(r)
    BY <2>1 DEF OwnEntry, Uncounted, Completed, Planned
  <2>4. FlagTypes'
    BY <2>1, <2>2 DEF BackingIoInv, FlagTypes
  <2>5. QueueTypes'
    BY <1>1, <2>1 DEF BackingIoInv, QueueTypes
  <2>6. BuffersReturned' /\ EntryInv'
    BY <1>1, <2>1, <2>2, <2>3 DEF BuffersReturned, EntryInv
  <2>7. WrittenInv'
    BY <2>1, <2>3 DEF BackingIoInv, WrittenInv, InSection, Clean
  <2> QED
    BY <1>5, <2>4, <2>5, <2>6, <2>7 DEF BackingIoInv
<1>4. CASE cq # <<>>
  <2>1. PICK r \in Results : cq = <<[ud |-> user_data, result |-> r]>>
    BY <1>1, <1>4 DEF EntryInv, Completed
  <2>2. sq = <<>> /\ inflight = {} /\ submitted = 1
    BY <1>1, <1>4 DEF EntryInv
  <2>3. Head(cq) = [ud |-> user_data, result |-> r] /\ Tail(cq) = <<>>
    BY <2>1
  <2>4. Decide(Head(cq))
    BY <1>4, <2>3 DEF Reap
  <2>5. /\ cq' = <<>> /\ sq' = <<>> /\ inflight' = {} /\ ring' = ring /\ written' = written
        /\ CallReturns
    BY <2>2, <2>3, <2>4 DEF Decide
  <2>6. FlagTypes'
    BY <2>5 DEF BackingIoInv, FlagTypes, CallReturns
  <2>7. QueueTypes'
    BY <1>1, <2>5, NoEntries DEF BackingIoInv, QueueTypes, CallReturns
  <2>8. CASE Fail
    <3>1. BuffersReturned' /\ EntryInv'
      BY <1>1, <2>5, <2>8, FailFacts DEF BuffersReturned, EntryInv
    <3>2. WrittenInv'
      <4>1. Uncounted' = 0 /\ Uncounted \in Nat
        BY <1>2, <2>8, FailFacts DEF Uncounted
      <4> QED
        BY <1>2, <2>5, <2>8, <4>1, FailFacts DEF BackingIoInv, WrittenInv, InSection, Clean
    <3> QED
      BY <1>5, <2>6, <2>7, <3>1, <3>2 DEF BackingIoInv
  <2>9. CASE ~Fail
    <3>1. r = "exact" /\ Finish
      <4>1. (~unexpected /\ Exact(Head(cq)) /\ Tail(cq) = <<>>) /\ Finish
        BY <2>4, <2>9 DEF Decide
      <4> QED
        BY <2>3, <4>1 DEF Exact
    <3>2. FinishFits
      BY <2>9, <3>1 DEF Finish, Fail
    <3>3. ctr \in [Fields -> Nat]
      BY DEF LedgerInv, TypeOK, Counters
    <3>4. op.len \in Nat /\ op.kind \in {"read", "write", "flush"} /\ op \in Operations
      BY LedgerTypes, OperationTypes
    <3>5. Uncounted = Planned(op)
      BY <1>1, <2>1, <3>1 DEF Uncounted, Completed
    <3>6. /\ wpc' = "enter" /\ ctr' = ctr /\ epoch' = epoch /\ op' = op
          /\ goal'["wbytes"] = ctr["wbytes"] + Planned(op)
          /\ goal'["incomplete"] = ctr["incomplete"]
      <4>1. CASE op.kind = "flush"
        <5>1. goal' = [ctr EXCEPT !["fops"] = @ + 1, !["pending"] = 0]
          BY <3>1, <3>2, <4>1 DEF Finish, Section, OpsField
        <5>2. goal'["wbytes"] = ctr["wbytes"] /\ goal'["incomplete"] = ctr["incomplete"]
          BY <3>3, <5>1 DEF Fields
        <5> QED
          BY <1>2, <3>1, <3>2, <4>1, <5>2 DEF Finish, Section, Planned
      <4>2. CASE op.kind = "read"
        <5>1. goal' = [ctr EXCEPT !["rops"] = @ + 1, !["rbytes"] = @ + op.len, !["pending"] = 0]
          BY <3>1, <3>2, <4>2 DEF Finish, Section, OpsField, BytesField
        <5>2. goal'["wbytes"] = ctr["wbytes"] /\ goal'["incomplete"] = ctr["incomplete"]
          BY <3>3, <5>1 DEF Fields
        <5> QED
          BY <1>2, <3>1, <3>2, <4>2, <5>2 DEF Finish, Section, Planned
      <4>3. CASE op.kind = "write"
        <5>1. goal' = [ctr EXCEPT !["wops"] = @ + 1, !["wbytes"] = @ + op.len, !["pending"] = 0]
          BY <3>1, <3>2, <4>3 DEF Finish, Section, OpsField, BytesField
        <5>2. /\ goal'["wbytes"] = ctr["wbytes"] + op.len
              /\ goal'["incomplete"] = ctr["incomplete"]
          BY <3>3, <5>1 DEF Fields
        <5> QED
          BY <1>2, <3>1, <3>2, <4>3, <5>2 DEF Finish, Section, Planned
      <4> QED
        BY <3>4, <4>1, <4>2, <4>3
    <3>7. BuffersReturned' /\ EntryInv'
      BY <1>1, <2>5, <3>6 DEF BuffersReturned, EntryInv
    <3>8. WrittenInv'
      <4>1. Uncounted' = 0
        BY <3>6 DEF Uncounted
      <4> QED
        BY <1>1, <1>2, <2>5, <3>5, <3>6, <4>1 DEF BackingIoInv, WrittenInv, InSection, Clean
    <3> QED
      BY <1>5, <2>6, <2>7, <3>7, <3>8 DEF BackingIoInv
  <2> QED
    BY <2>8, <2>9
<1> QED
  BY <1>3, <1>4
\* BackingIo is opened, dropped or killed, or refuses an operation.
LEMMA LifeStep ==
  ASSUME LedgerInv, BackingIoInv, OpenIo \/ EndIo \/ RejectUnclassified
  PROVE  BackingIoInv'
<1> USE DEF RingTypeOK
<1>1. ctr["wbytes"] \in Nat /\ written \in Nat /\ Planned(op) \in Nat /\ Uncounted \in Nat
  BY LedgerTypes DEF BackingIoInv, QueueTypes, Fields, Uncounted
<1>2. CASE OpenIo
  <2>1. /\ wpc = "closed" /\ wpc' = "idle" /\ ctr' = ctr /\ epoch' = epoch /\ goal' = goal
        /\ ring' = TRUE /\ sq' = sq /\ inflight' = inflight /\ cq' = cq /\ written' = written
        /\ user_data' = user_data /\ submitted' = submitted /\ unexpected' = unexpected
        /\ stage' = stage /\ lost' = lost /\ Even(epoch) /\ Clean
    BY <1>2 DEF OpenIo, OpenWriter, callVars
  <2>2. FlagTypes'
    BY <2>1 DEF BackingIoInv, FlagTypes
  <2>3. QueueTypes'
    BY <2>1 DEF BackingIoInv, QueueTypes
  <2>4. BuffersReturned' /\ EntryInv' /\ LostInv'
    BY <2>1 DEF BackingIoInv, BuffersReturned, EntryInv, LostInv
  <2>5. Uncounted' = 0 /\ Uncounted = 0
    BY <2>1 DEF Uncounted
  <2>6. WrittenInv'
    BY <2>1, <2>5 DEF BackingIoInv, WrittenInv, InSection, Clean
  <2> QED
    BY <2>2, <2>3, <2>4, <2>6 DEF BackingIoInv
<1>3. CASE EndIo
  <2>1. wpc' = "closed" /\ ctr' = ctr /\ epoch' = epoch /\ written' = written
    BY <1>3 DEF EndIo, CloseWriter, Kill
  <2>2. DropRing(inflight) /\ CallReturns
    BY <1>3 DEF EndIo
  <2>3. FlagTypes'
    BY <2>2 DEF DropRing, CallReturns, FlagTypes
  <2>4. QueueTypes'
    BY <2>1, <2>2, NoEntries DEF BackingIoInv, DropRing, CallReturns, QueueTypes
  <2>5. BuffersReturned' /\ EntryInv'
    BY <2>1, <2>2 DEF DropRing, BuffersReturned, EntryInv
  <2>8. LostInv'
    <3>1. CASE inflight = {}
      <4>1. lost' = lost
        BY <2>2, <3>1 DEF DropRing
      <4> QED
        BY <2>1, <4>1 DEF BackingIoInv, LostInv, Clean, InSection
    <3>2. CASE inflight # {}
      <4>1. ctr["pending"] = 1
        BY <3>2 DEF BackingIoInv, BuffersReturned, LedgerInv, WriterInv, Submitted
      <4> QED
        BY <2>1, <4>1 DEF LostInv, Clean, InSection
    <3> QED
      BY <3>1, <3>2
  <2>6. Uncounted' = 0
    BY <2>1 DEF Uncounted
  <2>7. WrittenInv'
    BY <1>1, <2>1, <2>6 DEF BackingIoInv, WrittenInv, InSection, Clean
  <2> QED
    BY <2>3, <2>4, <2>5, <2>7, <2>8 DEF BackingIoInv
<1>4. CASE RejectUnclassified
  <2>1. Fail /\ wpc = "submit"
    BY <1>4 DEF RejectUnclassified
  <2>2. /\ ring' = ring /\ sq' = sq /\ inflight' = inflight /\ cq' = cq /\ written' = written
        /\ user_data' = user_data /\ submitted' = submitted /\ unexpected' = unexpected
        /\ stage' = stage /\ lost' = lost
    BY <1>4 DEF RejectUnclassified, ringVars, queueVars, callVars
  <2>3. FlagTypes'
    BY <2>2 DEF BackingIoInv, FlagTypes
  <2>4. QueueTypes'
    BY <2>2 DEF BackingIoInv, QueueTypes
  <2>5. BuffersReturned' /\ EntryInv' /\ LostInv'
    BY <2>1, <2>2, FailFacts DEF BackingIoInv, BuffersReturned, EntryInv, LostInv, Clean
  <2>6. Uncounted' = 0
    BY <2>1, FailFacts DEF Uncounted
  <2>7. WrittenInv'
    BY <1>1, <2>1, <2>2, <2>6, FailFacts DEF BackingIoInv, WrittenInv, InSection, Clean
  <2> QED
    BY <2>3, <2>4, <2>5, <2>7 DEF BackingIoInv
<1> QED
  BY <1>2, <1>3, <1>4

\* A step of the ledger that leaves ring and call alone, and does not touch a waiting operation.
LEMMA QuietStep ==
  ASSUME BackingIoInv, UNCHANGED ringVars,
         \/ wpc # "wait" /\ wpc' # "wait"
         \/ wpc' = wpc /\ op' = op
  PROVE  /\ RingTypeOK' /\ BuffersReturned' /\ EntryInv'
         /\ Uncounted' = Uncounted /\ written' = written /\ lost' = lost
<1>1. /\ lost' = lost /\ ring' = ring /\ sq' = sq /\ inflight' = inflight /\ cq' = cq /\ written' = written
      /\ user_data' = user_data /\ submitted' = submitted /\ unexpected' = unexpected
      /\ stage' = stage
  BY DEF ringVars, queueVars, callVars
<1>2. FlagTypes'
  BY <1>1 DEF BackingIoInv, RingTypeOK, FlagTypes
<1>3. QueueTypes'
  BY <1>1 DEF BackingIoInv, RingTypeOK, QueueTypes
<1>4. CASE wpc # "wait" /\ wpc' # "wait"
  BY <1>1, <1>2, <1>3, <1>4
  DEF BackingIoInv, RingTypeOK, BuffersReturned, EntryInv, Uncounted
<1>5. CASE wpc' = wpc /\ op' = op
  <2>1. OwnEntry' = OwnEntry /\ Uncounted' = Uncounted /\ \A r : Completed(r)' <=> Completed(r)
    BY <1>1, <1>5 DEF OwnEntry, Uncounted, Completed, Planned
  <2>2. BuffersReturned'
    BY <1>1, <1>5 DEF BackingIoInv, BuffersReturned
  <2>3. EntryInv'
    BY <1>1, <1>5, <2>1 DEF BackingIoInv, EntryInv
  <2> QED
    BY <1>1, <1>2, <1>3, <2>1, <2>2, <2>3 DEF RingTypeOK
<1> QED
  BY <1>4, <1>5

\* Begin, Enter, Store and Leave: the section carries the totals over.
LEMMA SectionStep ==
  ASSUME LedgerInv, BackingIoInv, LedgerStep
  PROVE  BackingIoInv'
<1>1. UNCHANGED ringVars
  BY DEF LedgerStep
<1>2. /\ ctr \in [Fields -> Nat] /\ goal \in [Fields -> Nat] /\ written \in Nat
      /\ ctr["wbytes"] \in Nat /\ goal["wbytes"] \in Nat /\ epoch \in Nat
  BY DEF LedgerInv, TypeOK, Counters, BackingIoInv, RingTypeOK, QueueTypes, Fields
<1>3. CASE \E o \in Operations : Begin(o)
  <2>1. PICK o \in Operations : Begin(o)
    BY <1>3
  <2>2. wpc = "idle" /\ wpc' = "enter" /\ ctr' = ctr /\ epoch' = epoch /\ ctr["pending"] = 0
        /\ Even(epoch)
    BY <2>1 DEF Begin, Section
  <2>3. goal'["wbytes"] = ctr["wbytes"] /\ goal'["incomplete"] = ctr["incomplete"]
    <3>1. \/ goal' = [ctr EXCEPT !["pending"] = 1]
          \/ goal' = [ctr EXCEPT !["reserved"] = Reserved(o), !["pending"] = 1]
          \/ goal' = [ctr EXCEPT !["exhausted"] = 1]
      BY <2>1 DEF Begin, Section
    <3> QED
      BY <1>2, <3>1 DEF Fields
  <2>4. /\ RingTypeOK' /\ BuffersReturned' /\ EntryInv'
        /\ Uncounted' = Uncounted /\ written' = written /\ lost' = lost
    BY <1>1, <2>2, QuietStep
  <2>5. Uncounted = 0
    BY <2>2 DEF Uncounted
  <2>6. WrittenInv' /\ LostInv'
    BY <1>2, <2>2, <2>3, <2>4, <2>5 DEF BackingIoInv, WrittenInv, LostInv, InSection, Clean
  <2> QED
    BY <2>4, <2>6 DEF BackingIoInv
<1>4. CASE Enter
  <2>1. wpc = "enter" /\ wpc' = "store" /\ ctr' = ctr /\ goal' = goal /\ epoch' = epoch + 1
    BY <1>4 DEF Enter
  <2>2. /\ RingTypeOK' /\ BuffersReturned' /\ EntryInv'
        /\ Uncounted' = Uncounted /\ written' = written /\ lost' = lost
    BY <1>1, <2>1, QuietStep
  <2>3. ~Even(epoch')
    BY <1>2, <2>1, Parity DEF LedgerInv, WriterInv
  <2>4. WrittenInv' /\ LostInv'
    BY <2>1, <2>2, <2>3 DEF BackingIoInv, WrittenInv, LostInv, InSection
  <2> QED
    BY <2>2, <2>4 DEF BackingIoInv
<1>5. CASE Store
  <2>1. /\ wpc = "store" /\ wpc' \in {"store", "leave"} /\ goal' = goal /\ epoch' = epoch
        /\ ctr' = [ctr EXCEPT ![Head(order)] = goal[Head(order)]]
    BY <1>5 DEF Store
  <2>2. /\ RingTypeOK' /\ BuffersReturned' /\ EntryInv'
        /\ Uncounted' = Uncounted /\ written' = written /\ lost' = lost
    BY <1>1, <2>1, QuietStep
  <2>3. ~Even(epoch')
    BY <2>1 DEF LedgerInv, WriterInv
  <2>4. ctr'["wbytes"] \in {ctr["wbytes"], goal["wbytes"]}
    BY <1>2, <2>1 DEF Fields
  <2>5. Uncounted = 0
    BY <2>1 DEF Uncounted
  <2>6. WrittenInv' /\ LostInv'
    BY <1>2, <2>1, <2>2, <2>3, <2>4, <2>5 DEF BackingIoInv, WrittenInv, LostInv, InSection
  <2> QED
    BY <2>2, <2>6 DEF BackingIoInv
<1>6. CASE Leave
  <2>1. /\ wpc = "leave" /\ wpc' = next /\ wpc' \in {"idle", "submit"} /\ ctr' = ctr
        /\ goal' = goal /\ epoch' = epoch + 1
    BY <1>6 DEF Leave, LedgerInv, TypeOK
  <2>2. /\ RingTypeOK' /\ BuffersReturned' /\ EntryInv'
        /\ Uncounted' = Uncounted /\ written' = written /\ lost' = lost
    BY <1>1, <2>1, QuietStep
  <2>3. ctr["wbytes"] = goal["wbytes"] /\ ctr["incomplete"] = goal["incomplete"]
    <3>1. \A f \in Fields : ctr[f] = goal[f]
      BY <2>1 DEF LedgerInv, WriterInv, InSection
    <3> QED
      BY <3>1 DEF Fields
  <2>4. Uncounted = 0
    BY <2>1 DEF Uncounted
  <2>5. WrittenInv' /\ LostInv'
    BY <1>2, <2>1, <2>2, <2>3, <2>4 DEF BackingIoInv, WrittenInv, LostInv, InSection, Clean
  <2> QED
    BY <2>2, <2>5 DEF BackingIoInv
<1>7. CASE StartSnapshot
  <2>1. wpc' = wpc /\ op' = op /\ ctr' = ctr /\ goal' = goal /\ epoch' = epoch
    BY <1>7 DEF StartSnapshot, writerVars
  <2>2. /\ RingTypeOK' /\ BuffersReturned' /\ EntryInv'
        /\ Uncounted' = Uncounted /\ written' = written /\ lost' = lost
    BY <1>1, <2>1, QuietStep
  <2>3. WrittenInv' /\ LostInv'
    BY <2>1, <2>2 DEF BackingIoInv, WrittenInv, LostInv, InSection, Clean
  <2> QED
    BY <2>2, <2>3 DEF BackingIoInv
<1> QED
  BY <1>3, <1>4, <1>5, <1>6, <1>7 DEF LedgerStep

\* The reader changes nothing of the writer, the ring or the counters.
LEMMA ReadingStep ==
  ASSUME BackingIoInv, Reading \/ UNCHANGED ioVars
  PROVE  BackingIoInv'
<1>1. /\ UNCHANGED ringVars
      /\ wpc' = wpc /\ op' = op /\ ctr' = ctr /\ goal' = goal /\ epoch' = epoch
  BY DEF Reading, Snapshotting, LoadEpoch, Load, Check, writerVars, ioVars, vars
<1>2. /\ RingTypeOK' /\ BuffersReturned' /\ EntryInv'
      /\ Uncounted' = Uncounted /\ written' = written /\ lost' = lost
  BY <1>1, QuietStep
<1>3. WrittenInv' /\ LostInv'
  BY <1>1, <1>2 DEF BackingIoInv, WrittenInv, LostInv, InSection, Clean
<1> QED
  BY <1>2, <1>3 DEF BackingIoInv

-----------------------------------------------------------------------------
(* The theorems *)

\* No call of wait_exact_with whose wait is only interrupted or empty returns while the kernel
\* holds its entry, or leaves a completion behind for a later call; the entry of a waiting call is
\* in exactly one place.  A call whose wait fails may leave its entry with the kernel, but then
\* drops the ring, so that no later call waits, and leaves a ledger that nobody opens again.
THEOREM BuffersComeBack == IoSpec => []BackingIoInv
<1>1. IoInit => BackingIoInv
  BY IoInitHolds
<1>2. LedgerInv /\ BackingIoInv /\ [IoNext]_ioVars => BackingIoInv'
  <2> SUFFICES ASSUME LedgerInv, BackingIoInv, [IoNext]_ioVars PROVE BackingIoInv'
    OBVIOUS
  <2>1. CASE WaitFails
    BY <2>1, DropStep DEF WaitFails, BackingIoInv, RingTypeOK, QueueTypes
  <2> QED
    BY <2>1, PushStep, SubmitAndWaitStep, ReapStep, CompleteStep, CompleteLostStep, LifeStep, SectionStep,
       ReadingStep DEF IoNext
<1> QED
  BY <1>1, <1>2, LedgerUnderIo, PTL DEF IoSpec

\* The ledger counts only bytes the kernel has written, and a ledger that may be opened again has
\* counted all of them, for any results, interruptions, failures and kills (submit_exact).
THEOREM AccountingExact == IoSpec => []AccountedExact
<1>1. LedgerInv /\ BackingIoInv => AccountedExact
  <2> SUFFICES ASSUME LedgerInv, BackingIoInv PROVE AccountedExact
    OBVIOUS
  <2>1. ctr["wbytes"] \in Nat /\ written \in Nat /\ Uncounted \in Nat
    BY LedgerTypes DEF BackingIoInv, RingTypeOK, QueueTypes, Fields, Uncounted
  <2>2. ctr["wbytes"] <= written
    BY <2>1 DEF BackingIoInv, WrittenInv
  <2>3. ASSUME Even(epoch), Clean
        PROVE  ctr["wbytes"] = written /\ ctr["reserved"] = written /\ issued = written
    BY <2>3 DEF BackingIoInv, WrittenInv, LedgerInv, WriterInv, Sound, Clean
  <2>4. ASSUME Even(epoch), Clean PROVE lost = {}
    BY <2>4 DEF BackingIoInv, LostInv
  <2> QED
    BY <2>2, <2>3, <2>4 DEF AccountedExact
<1> QED
  BY <1>1, LedgerUnderIo, BuffersComeBack, PTL
=============================================================================
