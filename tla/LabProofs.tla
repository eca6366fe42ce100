----------------------------- MODULE LabProofs -----------------------------
(***************************************************************************)
(* Theorems about the lab's live suites, for every set of device ids,      *)
(* every number of repetitions and every amount of I/O: a pass is clean, a *)
(* SQLite case measures everything once, and what the inductive invariant  *)
(* implies.                                                                *)
(***************************************************************************)
EXTENDS LabHoldingProofs

-----------------------------------------------------------------------------
(* A pass is clean.                                                        *)

\* Nothing comes back by itself.
LEMMA CleanKept ==
  ASSUME Types, Clean, Settles, UNCHANGED helperVars
  PROVE  Clean'
<1>1. daemon.state # "starting"
  BY DEF Clean, NoDaemon
<1> QED BY <1>1 DEF Clean, Settles, helperVars, mountVars

\* No helper is left that could mount.
LEMMA CleanKeptByHelper ==
  ASSUME Clean, HelperNext, UNCHANGED worldVars
  PROVE  Clean'
<1>1. helper' = NoHelper /\ mount' = mount
  BY DEF Clean, HelperNext, HelperFormats, HelperMounts, HelperPrepares, HelperChowns,
     HelperRollsBack, HelperUnmounts, HelperEnds, ForeignMounts, NoHelper
<1>2. OwnDevices' = OwnDevices
  BY DEF OwnDevices, worldVars, kernelVars
<1> QED BY <1>1, <1>2 DEF Clean, worldVars, processVars, fileVars

\* Nothing left stays so while nothing changes.
LEMMA CleanSame ==
  ASSUME Clean, UNCHANGED <<worldVars, helperVars>>
  PROVE  Clean'
BY DEF Clean, OwnDevices, worldVars, kernelVars, processVars, fileVars, helperVars, mountVars

\* finish of a filesystem suite leaves nothing behind.
LEMMA FixtureClean ==
  ASSUME Types, Holding, fs.at # "off", RemoveFixture
  PROVE  Clean'
<1>1. FsHold
  BY FsHoldsBefore
<1>2. fs.at = "script" /\ FsBare /\ ~fs.command /\ ~mount
  BY DEF RemoveFixture, Step, FinishAllowed, FsBare
<1>3. fs.step \in 1..18 /\ ~fs.recovering
  BY <1>1, <1>2, InScript DEF FsHold, ScriptStep
<1>4. OwnDevices \subseteq {None}
  BY <1>1, <1>2, <1>3 DEF FsHold, FsOwns, FsWorking, FsSteps, FsBare, Unrecorded
<1>5. OwnDevices' = OwnDevices
  BY DEF RemoveFixture, OwnDevices, kernelVars
<1>6. OwnDevices = {}
  BY <1>4, NoneNotId DEF OwnDevices
<1> QED
  BY <1>1, <1>2, <1>5, <1>6 DEF RemoveFixture, Clean, FsHold, FsHeld, FsBare, HelperHeld,
     processVars

\* The end of a fio repetition leaves nothing behind.
LEMMA ClearClean ==
  ASSUME Types, Holding, fio.at # "off", FioClear, UNCHANGED helperVars
  PROVE  Clean'
<1>1. FioHold /\ fs = FsIdle
  BY FioHoldsBefore DEF Types, FsType, Holding, OneSuite
<1>2. fio.at = "script" /\ FioOp = "clear"
  BY Zenon DEF FioClear, Op, FioOp
<1>3. FioBare
  BY <1>1, <1>2 DEF FioHold, FioPlaced
<1>4. OwnDevices \subseteq {None}
  BY <1>1, <1>2, <1>3 DEF FioHold, FioOwns, FioBare, Unrecorded
<1>5. OwnDevices' = OwnDevices
  BY Zenon DEF FioClear, OwnDevices, kernelVars
<1>6. OwnDevices = {}
  BY <1>4, NoneNotId DEF OwnDevices
<1>7. ~mount /\ helper = NoHelper
  BY <1>1 DEF Holding, HelperPlaced, FsIdle
<1> QED
  BY <1>1, <1>3, <1>5, <1>6, <1>7, Zenon
     DEF FioClear, Clean, FioHold, FioHeld, FioBare, helperVars, mountVars, processVars

\* One more selection that passed.
LEMMA AnotherPass ==
  ASSUME NEW n \in Nat
  PROVE  Append([i \in 1..n |-> "pass"], "pass") = [i \in 1..(n + 1) |-> "pass"]
<1> DEFINE s == [i \in 1..n |-> "pass"]
           t == Append(s, "pass")
           u == [i \in 1..(n + 1) |-> "pass"]
<1>1. s \in Seq({"pass"}) /\ Len(s) = n
  OBVIOUS
<1>2. t \in Seq({"pass"}) /\ Len(t) = n + 1
  BY <1>1
<1>3. u \in Seq({"pass"}) /\ Len(u) = n + 1
  OBVIOUS
<1>4. \A i \in 1..(n + 1) : t[i] = "pass" /\ u[i] = "pass"
  BY <1>1, <1>2
<1> HIDE DEF t, u
<1> QED BY <1>2, <1>3, <1>4, SeqEqual DEF t, u, s

\* A selection that failed, in the index.
LEMMA IndexFails ==
  ASSUME IndexType, NEW status \in Verdicts
  PROVE  /\ IndexOK(SelectionFailed(status))
         /\ IndexOK([SelectionFailed(status) EXCEPT !.attempted = @ + 1])
         /\ SelectionFailed(status).failed # 0
         /\ SelectionFailed(status).completed = index.completed
         /\ [SelectionFailed(status) EXCEPT !.attempted = @ + 1].failed # 0
         /\ [SelectionFailed(status) EXCEPT !.attempted = @ + 1].completed = index.completed
<1> DEFINE r == Append(index.results, status)
<1>1. r \in Seq(Verdicts)
  BY AppendProperties DEF IndexType, IndexOK
<1>2. SelectionFailed(status) = [index EXCEPT !.failed = index.failed + 1, !.results = r]
  BY DEF SelectionFailed
<1> HIDE DEF r
<1>3. index.failed + 1 \in Nat \ {0}
  BY DEF IndexType, IndexOK
<1> DEFINE f == SelectionFailed(status)
<1>4. IndexOK(f) /\ f.failed # 0 /\ f.completed = index.completed
  BY <1>1, <1>2, <1>3 DEF IndexType, IndexOK
<1> HIDE DEF f
<1>5. f.attempted + 1 \in Nat
  BY <1>4 DEF IndexOK
<1>6. /\ IndexOK([f EXCEPT !.attempted = @ + 1])
      /\ [f EXCEPT !.attempted = @ + 1].failed = f.failed
      /\ [f EXCEPT !.attempted = @ + 1].completed = f.completed
  BY <1>4, <1>5 DEF IndexOK
<1> QED BY <1>4, <1>6 DEF f

\* A selection that passed, in the index.
LEMMA IndexPasses ==
  ASSUME IndexType
  PROVE  LET i == [index EXCEPT !.completed = @ + 1, !.results = Append(@, "pass")]
         IN  /\ IndexOK(i)
             /\ i.completed = index.completed + 1 /\ i.failed = index.failed
             /\ i.results = Append(index.results, "pass")
<1> DEFINE r == Append(index.results, "pass")
<1>1. r \in Seq(Verdicts)
  BY AppendProperties DEF IndexType, IndexOK, Verdicts
<1>2. [index EXCEPT !.completed = @ + 1, !.results = Append(@, "pass")]
        = [index EXCEPT !.completed = index.completed + 1, !.results = r]
  OBVIOUS
<1> HIDE DEF r
<1>3. index.completed + 1 \in Nat
  BY DEF IndexType, IndexOK
<1>4. LET i == [index EXCEPT !.completed = index.completed + 1, !.results = r]
      IN  /\ IndexOK(i)
          /\ i.completed = index.completed + 1 /\ i.failed = index.failed
          /\ i.results = r
  BY <1>1, <1>3 DEF IndexType, IndexOK
<1> QED BY <1>2, <1>4 DEF r

\* A step inside a repetition: neither its end nor its result.
Inside ==
  /\ fs.at \notin {"off", "select", "pass", "result", "summary", "fail"}
  /\ fs'.at \notin {"off", "pass", "result", "summary"}
  /\ fs'.round = fs.round /\ fs'.sqlite = fs.sqlite

\* A step inside a repetition keeps PassInv.
LEMMA InsidePass ==
  ASSUME Types, Holding, PassInv, Inside, UNCHANGED <<fio, index>>
  PROVE  PassInv'
<1>1. fio.at = "off"
  BY DEF Inside, Holding, OneSuite
<1>2. index.completed # FsRounds
  BY DEF PassInv, Inside
<1> QED BY <1>1, <1>2 DEF PassInv, Inside, IndexType, Passed

\* The steps that the SQLite suite shares with the others.
FsShared ==
  \/ FsCommonNext
  \/ \E done \in BOOLEAN : FsFormat(done)
  \/ FsStart
  \/ \E verified \in BOOLEAN : FsMounted(verified)
  \/ FsStop
  \/ \E logged \in BOOLEAN : FsGone(logged)
  \/ FsError
  \/ FsRecoverDaemon

\* Only steps of the SQLite suite itself change the index.
LEMMA SqliteShares ==
  ASSUME SqliteNext
  PROVE  (FsShared /\ UNCHANGED index) \/ SqliteOnly \/ CountersNext
BY Zenon DEF SqliteNext, FsShared, SqliteOnly, FinishStages, SqliteFormat, SqliteStart,
   SqliteMounted, SqliteStop, SqliteGone, SqliteRecoverDaemon, sqliteVars

\* The shared steps are inside a repetition.
LEMMA SharedInside ==
  ASSUME Types, FsShared
  PROVE  Inside
<1>1. ASSUME NEW reaped \in BOOLEAN, FsHelperFails(reaped)
      PROVE  Inside
  BY <1>1 DEF FsHelperFails, Proceed, Fails, AfterCleanup, RunHelper, HelperSucceeded, Types,
     FsType, FsOK, Step, Inside
<1>2. ASSUME NEW reaped \in BOOLEAN, FsCommandFails(reaped)
      PROVE  Inside
  BY <1>2 DEF FsCommandFails, Proceed, Fails, AfterCleanup, RunHelper, HelperSucceeded, Types,
     FsType, FsOK, Step, Inside
<1>3. ASSUME NEW accepted \in BOOLEAN, FsReady(accepted)
      PROVE  Inside
  BY <1>3 DEF FsReady, Proceed, Fails, AfterCleanup, RunHelper, HelperSucceeded, Types, FsType,
     FsOK, Step, Inside
<1>4. CASE FsCheck
  BY <1>4 DEF FsCheck, Proceed, Fails, AfterCleanup, RunHelper, HelperSucceeded, Types, FsType,
     FsOK, Step, Inside
<1>5. CASE FsFormatXfs
  BY <1>5 DEF FsFormatXfs, Proceed, Fails, AfterCleanup, RunHelper, HelperSucceeded, Types, FsType,
     FsOK, Step, Inside
<1>6. CASE FsFormattedXfs
  BY <1>6 DEF FsFormattedXfs, Proceed, Fails, AfterCleanup, RunHelper, HelperSucceeded, Types,
     FsType, FsOK, Step, Inside
<1>7. CASE FsMount
  BY <1>7 DEF FsMount, Proceed, Fails, AfterCleanup, RunHelper, HelperSucceeded, Types, FsType,
     FsOK, Step, Inside
<1>8. CASE FsUnmount
  BY <1>8 DEF FsUnmount, Proceed, Fails, AfterCleanup, RunHelper, HelperSucceeded, Types, FsType,
     FsOK, Step, Inside
<1>9. ASSUME NEW verified \in BOOLEAN, FsUnmounted(verified)
      PROVE  Inside
  BY <1>9 DEF FsUnmounted, Proceed, Fails, AfterCleanup, RunHelper, HelperSucceeded, Types, FsType,
     FsOK, Step, Inside
<1>10. CASE FsTerminate
  BY <1>10 DEF FsTerminate, Proceed, Fails, AfterCleanup, RunHelper, HelperSucceeded, Types, FsType,
     FsOK, Step, Inside
<1>11. CASE FsExited
  BY <1>11 DEF FsExited, Proceed, Fails, AfterCleanup, RunHelper, HelperSucceeded, Types, FsType,
     FsOK, Step, Inside
<1>12. CASE FsReaped
  BY <1>12 DEF FsReaped, Proceed, Fails, AfterCleanup, RunHelper, HelperSucceeded, Types, FsType,
     FsOK, Step, Inside
<1>13. ASSUME NEW reaped \in BOOLEAN, FsRecover(reaped)
      PROVE  Inside
  BY <1>13 DEF FsRecover, Proceed, Fails, AfterCleanup, RunHelper, HelperSucceeded, Types, FsType,
     FsOK, Step, Inside
<1>14. CASE FsRecoverReaped
  BY <1>14 DEF FsRecoverReaped, Proceed, Fails, AfterCleanup, RunHelper, HelperSucceeded, Types,
     FsType, FsOK, Step, Inside
<1>15. CASE FsRecoverDevice
  BY <1>15 DEF FsRecoverDevice, Proceed, Fails, AfterCleanup, RunHelper, HelperSucceeded, Types,
     FsType, FsOK, Step, Inside
<1>16. CASE FsUnrecoverable
  BY <1>16 DEF FsUnrecoverable, Proceed, Fails, AfterCleanup, RunHelper, HelperSucceeded, Types,
     FsType, FsOK, Step, Inside
<1>17. ASSUME NEW done \in BOOLEAN, FsFormat(done)
      PROVE  Inside
  BY <1>17 DEF FsFormat, Proceed, Fails, AfterCleanup, RunHelper, HelperSucceeded, Types, FsType,
     FsOK, Step, Inside
<1>18. CASE FsStart
  BY <1>18 DEF FsStart, Proceed, Fails, AfterCleanup, RunHelper, HelperSucceeded, Types, FsType,
     FsOK, Step, Inside
<1>19. ASSUME NEW verified \in BOOLEAN, FsMounted(verified)
      PROVE  Inside
  BY <1>19 DEF FsMounted, Proceed, Fails, AfterCleanup, RunHelper, HelperSucceeded, Types, FsType,
     FsOK, Step, Inside
<1>20. CASE FsStop
  BY <1>20 DEF FsStop, Proceed, Fails, AfterCleanup, RunHelper, HelperSucceeded, Types, FsType,
     FsOK, Step, Inside
<1>21. ASSUME NEW logged \in BOOLEAN, FsGone(logged)
      PROVE  Inside
  BY <1>21 DEF FsGone, Proceed, Fails, AfterCleanup, RunHelper, HelperSucceeded, Types, FsType,
     FsOK, Step, Inside
<1>22. CASE FsError
  BY <1>22 DEF FsError, Proceed, Fails, AfterCleanup, RunHelper, HelperSucceeded, Types, FsType,
     FsOK, Step, Inside
<1>23. CASE FsRecoverDaemon
  BY <1>23 DEF FsRecoverDaemon, Proceed, Fails, AfterCleanup, RunHelper, HelperSucceeded, Types,
     FsType, FsOK, Step, Inside
<1>24. ASSUME NEW created \in BOOLEAN, NEW reaped \in BOOLEAN, FsFormatFails(created, reaped)
      PROVE  Inside
  BY <1>24 DEF FsFormatFails, Fails, AfterCleanup, Types, FsType, FsOK, Step, Inside
<1> QED
  BY <1>1, <1>2, <1>3, <1>4, <1>5, <1>6, <1>7, <1>8, <1>9, <1>10, <1>11, <1>12, <1>13, <1>14, <1>15,
     <1>16, <1>17, <1>18, <1>19, <1>20, <1>21, <1>22, <1>23, <1>24 DEF FsShared, FsCommonNext

\* So are the work on files and a finish that fails.
LEMMA OthersInside ==
  ASSUME Types, FsFiles \/ (\E imageLeft \in BOOLEAN : FsFinishFails(imageLeft))
  PROVE  Inside
<1>1. CASE FsFiles
  BY <1>1 DEF FsFiles, Proceed, Fails, AfterCleanup, RunHelper, HelperSucceeded, Types, FsType,
     FsOK, Step, Inside
<1>2. ASSUME NEW imageLeft \in BOOLEAN, FsFinishFails(imageLeft)
      PROVE  Inside
  BY <1>2 DEF FsFinishFails, Proceed, Fails, AfterCleanup, RunHelper, HelperSucceeded, Types,
     FsType, FsOK, Step, Inside
<1> QED
  BY <1>1, <1>2 DEF FsNext

\* What only the SQLite suite does keeps PassInv.
LEMMA SqlitePass ==
  ASSUME Types, Holding, PassInv, fs.sqlite, SqliteOnly, UNCHANGED fio
  PROVE  PassInv'
<1>1. CASE SqliteTimeout
  <2>0. index.completed = fs.round - 1 /\ fio.at = "off" /\ fs.round \in 1..FsRounds
    BY <1>1 DEF SqliteTimeout, PassInv, Holding, OneSuite, Types, FsType, FsOK, Step, RemoveFixture
  <2>1. fs'.at = "fail" /\ fs'.sqlite
    BY <1>1 DEF SqliteTimeout, Types, FsType, FsOK
  <2>2. IndexType' /\ index'.completed = index.completed /\ index'.failed = index.failed /\
          index'.results = index.results
    BY <1>1 DEF SqliteTimeout, PassInv, IndexType, IndexOK
  <2> QED BY <2>0, <2>1, <2>2, FsRoundsAssumption DEF PassInv, Passed
<1>2. CASE SqliteNew
  <2>0. index.completed = fs.round - 1 /\ fio.at = "off" /\ fs.round \in 1..FsRounds
    BY <1>2 DEF SqliteNew, PassInv, Holding, OneSuite, Types, FsType, FsOK, Step, RemoveFixture
  <2>1. fs'.at = "preflight" /\ fs'.sqlite /\ fs'.round = fs.round
    BY <1>2 DEF SqliteNew, Types, FsType, FsOK
  <2>2. IndexType' /\ index'.completed = index.completed /\ index'.failed = index.failed /\
          index'.results = index.results
    BY <1>2 DEF SqliteNew, PassInv, IndexType, IndexOK
  <2> QED BY <2>0, <2>1, <2>2, FsRoundsAssumption DEF PassInv, Passed
<1>3. ASSUME NEW left \in BOOLEAN, SqliteNewFails(left)
      PROVE  PassInv'
  <2>0. index.completed = fs.round - 1 /\ fio.at = "off" /\ fs.round \in 1..FsRounds
    BY <1>3 DEF SqliteNewFails, PassInv, Holding, OneSuite, Types, FsType, FsOK, Step, RemoveFixture
  <2>1. fs'.at = "fail" /\ fs'.sqlite
    BY <1>3 DEF SqliteNewFails, Types, FsType, FsOK
  <2>2. IndexType' /\ index'.completed = index.completed /\ index'.failed # 0
    BY <1>3, IndexFails DEF SqliteNewFails, PassInv, IndexType, Verdicts
  <2> QED BY <2>0, <2>1, <2>2, FsRoundsAssumption DEF PassInv, Passed
<1>4. ASSUME NEW done \in BOOLEAN, NEW reaped \in BOOLEAN, SqlitePreflight(done, reaped)
      PROVE  PassInv'
  <2>1. Inside /\ UNCHANGED index
    BY <1>4 DEF SqlitePreflight, sqliteVars, Proceed, Fails, AfterCleanup, RunHelper,
       HelperSucceeded, Types, FsType, FsOK, Step, Inside
  <2> QED BY <2>1, InsidePass
<1>5. ASSUME NEW speedtest \in BOOLEAN, SqliteSetup(speedtest)
      PROVE  PassInv'
  <2>1. Inside /\ UNCHANGED index
    BY <1>5 DEF SqliteSetup, sqliteVars, Proceed, Fails, AfterCleanup, RunHelper, HelperSucceeded,
       Types, FsType, FsOK, Step, Inside
  <2> QED BY <2>1, InsidePass
<1>6. CASE SqliteInitialized
  <2>1. Inside /\ UNCHANGED index
    BY <1>6 DEF SqliteInitialized, sqliteVars, Proceed, Fails, AfterCleanup, RunHelper,
       HelperSucceeded, Types, FsType, FsOK, Step, Inside
  <2> QED BY <2>1, InsidePass
<1>7. CASE SqliteDrainStart
  <2>1. Inside /\ UNCHANGED index
    BY <1>7 DEF SqliteDrainStart, sqliteVars, Proceed, Fails, AfterCleanup, RunHelper,
       HelperSucceeded, Types, FsType, FsOK, Step, Inside
  <2> QED BY <2>1, InsidePass
<1>8. CASE SqliteDrainEnd
  <2>1. Inside /\ UNCHANGED index
    BY <1>8 DEF SqliteDrainEnd, sqliteVars, Proceed, Fails, AfterCleanup, RunHelper,
       HelperSucceeded, Types, FsType, FsOK, Step, Inside
  <2> QED BY <2>1, InsidePass
<1>9. CASE SqliteWorkload
  <2>1. Inside /\ UNCHANGED index
    BY <1>9 DEF SqliteWorkload, sqliteVars, Proceed, Fails, AfterCleanup, RunHelper,
       HelperSucceeded, Types, FsType, FsOK, Step, Inside
  <2> QED BY <2>1, InsidePass
<1>10. CASE SqliteVerify
  <2>1. Inside /\ UNCHANGED index
    BY <1>10 DEF SqliteVerify, sqliteVars, Proceed, Fails, AfterCleanup, RunHelper, HelperSucceeded,
       Types, FsType, FsOK, Step, Inside
  <2> QED BY <2>1, InsidePass
<1>11. CASE SqliteVerified
  <2>1. Inside /\ UNCHANGED index
    BY <1>11 DEF SqliteVerified, sqliteVars, Proceed, Fails, AfterCleanup, RunHelper,
       HelperSucceeded, Types, FsType, FsOK, Step, Inside
  <2> QED BY <2>1, InsidePass
<1>12. ASSUME NEW reaped \in BOOLEAN, SqliteFilesFail(reaped)
      PROVE  PassInv'
  <2>1. Inside /\ UNCHANGED index
    BY <1>12 DEF SqliteFilesFail, sqliteVars, Proceed, Fails, AfterCleanup, RunHelper,
       HelperSucceeded, Types, FsType, FsOK, Step, Inside
  <2> QED BY <2>1, InsidePass
<1>13. CASE SqliteFinish
  <2>0. index.completed = fs.round - 1 /\ fio.at = "off" /\ fs.round \in 1..FsRounds
    BY <1>13 DEF SqliteFinish, PassInv, Holding, OneSuite, Types, FsType, FsOK, Step, RemoveFixture
  <2>1. fs'.at = "result" /\ fs'.sqlite /\ fs'.round = fs.round /\ index' = index
    BY <1>13 DEF SqliteFinish, Types, FsType, FsOK
  <2>2. Clean'
    BY <1>13, FixtureClean DEF SqliteFinish, RemoveFixture, Step
  <2> QED BY <2>0, <2>1, <2>2, FsRoundsAssumption DEF PassInv, Passed, IndexType
<1>14. ASSUME NEW stage \in FinishStages, NEW imageLeft \in BOOLEAN, SqliteFinishFails(stage,
              imageLeft)
      PROVE  PassInv'
  <2>0. index.completed = fs.round - 1 /\ fio.at = "off" /\ fs.round \in 1..FsRounds
    BY <1>14 DEF SqliteFinishFails, PassInv, Holding, OneSuite, Types, FsType, FsOK, Step,
       RemoveFixture
  <2>1. fs'.at = "fail" /\ fs'.sqlite
    BY <1>14 DEF SqliteFinishFails, Types, FsType, FsOK
  <2>2. IndexType' /\ index'.completed = index.completed /\ index'.failed # 0
    BY <1>14, IndexFails DEF SqliteFinishFails, PassInv, IndexType, Verdicts
  <2> QED BY <2>0, <2>1, <2>2, FsRoundsAssumption DEF PassInv, Passed
<1>15. ASSUME NEW written \in BOOLEAN, SqliteResult(written)
      PROVE  PassInv'
  <2>0. index.completed = fs.round - 1 /\ fio.at = "off" /\ fs.round \in 1..FsRounds
    BY <1>15 DEF SqliteResult, PassInv, Holding, OneSuite, Types, FsType, FsOK, Step, RemoveFixture
  <2>1. Clean'
    BY <1>15, CleanSame DEF SqliteResult, PassInv
  <2>2. CASE ~written
    <3>1. fs'.at = "fail" /\ fs'.sqlite
      BY <1>15, <2>2 DEF SqliteResult, Types, FsType, FsOK
    <3>2. IndexType' /\ index'.completed = index.completed /\ index'.failed # 0
      BY <1>15, <2>2, IndexFails DEF SqliteResult, PassInv, IndexType, Verdicts
    <3> QED BY <2>0, <3>1, <3>2, FsRoundsAssumption DEF PassInv, Passed
  <2>3. CASE written
    <3>1. index' = [index EXCEPT !.completed = @ + 1, !.results = Append(@, "pass")]
      BY <1>15, <2>3 DEF SqliteResult
    <3>2. /\ IndexType' /\ index'.completed = index.completed + 1 /\ index'.failed = index.failed
          /\ index'.results = Append(index.results, "pass")
      BY <3>1, IndexPasses DEF PassInv, IndexType
    <3>3. index'.failed = 0 => index'.results = [n \in 1..index'.completed |-> "pass"]
      BY <3>2, AnotherPass DEF PassInv, IndexType, IndexOK
    <3>4. fs.sqlite /\ fs'.sqlite
      BY <1>15, <2>3 DEF SqliteResult, Types, FsType, FsOK
    <3>5. CASE fs.round = FsRounds
      <4>1. fs'.at = "summary"
        BY <1>15, <2>3, <3>5 DEF SqliteResult, Types, FsType, FsOK
      <4> QED BY <2>0, <2>1, <3>2, <3>3, <3>4, <4>1 DEF PassInv, Passed
    <3>6. CASE fs.round # FsRounds
      <4>1. fs'.at = "select" /\ fs'.round = fs.round + 1
        BY <1>15, <2>3, <3>6 DEF SqliteResult, Types, FsType, FsOK
      <4> QED BY <2>0, <3>2, <3>3, <3>4, <3>6, <4>1, FsRoundsAssumption DEF PassInv, Passed
    <3> QED BY <3>5, <3>6
  <2> QED BY <2>2, <2>3
<1>16. ASSUME NEW written \in BOOLEAN, SqliteSummary(written)
      PROVE  PassInv'
  <2>1. Clean'
    BY <1>16, CleanSame DEF SqliteSummary, PassInv
  <2>2. fs'.at \in {"pass", "fail"} /\ fs'.sqlite /\ index' = index
    BY <1>16 DEF SqliteSummary, Types, FsType, FsOK, sqliteVars
  <2> QED BY <2>1, <2>2 DEF PassInv, IndexType
<1>17. ASSUME NEW written \in BOOLEAN, SqliteFailed(written)
      PROVE  PassInv'
  <2>0. index.completed = fs.round - 1 /\ fio.at = "off" /\ fs.round \in 1..FsRounds
    BY <1>17 DEF SqliteFailed, PassInv, Holding, OneSuite, Types, FsType, FsOK, Step, RemoveFixture
  <2>1. fs'.at = "fail" /\ fs'.sqlite
    BY <1>17 DEF SqliteFailed, Types, FsType, FsOK
  <2>2. IndexType' /\ index'.completed = index.completed /\ index'.failed # 0
    BY <1>17, IndexFails DEF SqliteFailed, PassInv, IndexType, Verdicts
  <2> QED BY <2>0, <2>1, <2>2, FsRoundsAssumption DEF PassInv, Passed
<1> QED
  BY <1>1, <1>2, <1>3, <1>4, <1>5, <1>6, <1>7, <1>8, <1>9, <1>10, <1>11, <1>12, <1>13, <1>14, <1>15,
     <1>16, <1>17 DEF SqliteOnly

\* A suite over real files keeps PassInv.
LEMMA FsPass ==
  ASSUME Types, Holding, PassInv, ~fs.sqlite, FsNext, UNCHANGED <<fio, index>>
  PROVE  PassInv'
<1>1. fs.at # "off" /\ fio.at = "off"
  BY FsSuiteTypes DEF Types, WorldType, Holding, OneSuite
<1>2. index = NoIndex /\ NoIndex.completed = 0
  BY DEF PassInv, NoIndex
<1>3. CASE FsFinish
  <2>1. Clean'
    BY <1>1, <1>3, FixtureClean DEF FsFinish
  <2>2. ~fs'.sqlite /\ fs'.at \in {"script", "pass"}
    BY <1>3 DEF FsFinish, RemoveFixture, Step, Types, FsType, FsOK
  <2> QED BY <1>1, <1>2, <2>1, <2>2, FsRoundsAssumption DEF PassInv, IndexType
<1>4. CASE FsDrop
  <2>1. ~fs'.sqlite /\ fs'.at = "fail"
    BY <1>4 DEF FsDrop, Types, FsType, FsOK
  <2> QED BY <1>1, <1>2, <2>1, FsRoundsAssumption DEF PassInv, IndexType, Passed
<1>5. CASE Inside
  BY <1>5, InsidePass
<1>6. FsFinish \/ FsDrop \/ FsShared \/ FsFiles \/ \E imageLeft
        \in BOOLEAN : FsFinishFails(imageLeft)
  BY DEF FsNext, FsShared
<1> QED BY <1>3, <1>4, <1>5, <1>6, SharedInside, OthersInside

\* The fio suite passes by the end of its last repetition.
LEMMA FioPassing ==
  ASSUME Types, FioNext
  PROVE  fio'.at = "pass" => FioClear
<1>1. CASE FioSetup
  BY <1>1 DEF FioSetup, Advance, Failed, Refuse, Preserve, Types, FioType, FioOK
<1>2. ASSUME NEW created \in BOOLEAN, NEW valid \in BOOLEAN, FioFormat(created, valid)
      PROVE  fio'.at = "pass" => FioClear
  BY <1>2 DEF FioFormat, Advance, Failed, Refuse, Preserve, Types, FioType, FioOK
<1>3. CASE FioStart
  BY <1>3 DEF FioStart, Advance, Failed, Refuse, Preserve, Types, FioType, FioOK
<1>4. CASE FioReady
  BY <1>4 DEF FioReady, Advance, Failed, Refuse, Preserve, Types, FioType, FioOK
<1>5. ASSUME NEW identity \in Identities, FioRun(identity)
      PROVE  fio'.at = "pass" => FioClear
  BY <1>5 DEF FioRun, Advance, Failed, Refuse, Preserve, Types, FioType, FioOK
<1>6. CASE FioLock \/ FioLockProven
  BY <1>6 DEF FioLock, FioLockProven, Types, FioType, FioOK
<1>7. ASSUME NEW reaped \in BOOLEAN, FioLockLost(reaped)
      PROVE  fio'.at = "pass" => FioClear
  BY <1>7 DEF FioLockLost, Advance, Failed, Refuse, Preserve, Types, FioType, FioOK
<1>8. CASE FioSignal
  BY <1>8 DEF FioSignal, Advance, Failed, Refuse, Preserve, Types, FioType, FioOK
<1>9. CASE FioExited
  BY <1>9 DEF FioExited, Advance, Failed, Refuse, Preserve, Types, FioType, FioOK
<1>10. CASE FioReaped
  BY <1>10 DEF FioReaped, Advance, Failed, Refuse, Preserve, Types, FioType, FioOK
<1>11. CASE FioGone
  BY <1>11 DEF FioGone, Advance, Failed, Refuse, Preserve, Types, FioType, FioOK
<1>12. CASE FioHandshake
  BY <1>12 DEF FioHandshake, Advance, Failed, Refuse, Preserve, Types, FioType, FioOK
<1>13. ASSUME NEW identity \in Identities, FioIdentity(identity)
      PROVE  fio'.at = "pass" => FioClear
  BY <1>13 DEF FioIdentity, Advance, Failed, Refuse, Preserve, Types, FioType, FioOK
<1>14. ASSUME NEW identity \in Identities, FioDelete(identity)
      PROVE  fio'.at = "pass" => FioClear
  BY <1>14 DEF FioDelete, Advance, Failed, Refuse, Preserve, Types, FioType, FioOK
<1>15. CASE FioDeleted
  BY <1>15 DEF FioDeleted, Advance, Failed, Refuse, Preserve, Types, FioType, FioOK
<1>16. ASSUME NEW reaped \in BOOLEAN, FioDeleteFails(reaped)
      PROVE  fio'.at = "pass" => FioClear
  BY <1>16 DEF FioDeleteFails, Advance, Failed, Refuse, Preserve, Types, FioType, FioOK
<1>17. CASE FioClear
  BY <1>17
<1>18. ASSUME NEW imageLeft \in BOOLEAN, FioClearFails(imageLeft)
      PROVE  fio'.at = "pass" => FioClear
  BY <1>18 DEF FioClearFails, Advance, Failed, Refuse, Preserve, Types, FioType, FioOK
<1>19. CASE FioError
  BY <1>19 DEF FioError, Advance, Failed, Refuse, Preserve, Types, FioType, FioOK
<1>20. CASE CleanChild
  BY <1>20 DEF CleanChild, Advance, Failed, Refuse, Preserve, Types, FioType, FioOK
<1>21. CASE CleanChildDone
  BY <1>21 DEF CleanChildDone, Advance, Failed, Refuse, Preserve, Types, FioType, FioOK
<1>22. CASE CleanUnrecorded
  BY <1>22 DEF CleanUnrecorded, Advance, Failed, Refuse, Preserve, Types, FioType, FioOK
<1>23. ASSUME NEW identity \in Identities, CleanDevice(identity)
      PROVE  fio'.at = "pass" => FioClear
  BY <1>23 DEF CleanDevice, Advance, Failed, Refuse, Preserve, Types, FioType, FioOK
<1>24. CASE CleanDeleted
  BY <1>24 DEF CleanDeleted, Advance, Failed, Refuse, Preserve, Types, FioType, FioOK
<1>25. ASSUME NEW reaped \in BOOLEAN, CleanDeleteFails(reaped)
      PROVE  fio'.at = "pass" => FioClear
  BY <1>25 DEF CleanDeleteFails, Advance, Failed, Refuse, Preserve, Types, FioType, FioOK
<1>26. ASSUME NEW disappeared \in BOOLEAN, CleanGone(disappeared)
      PROVE  fio'.at = "pass" => FioClear
  BY <1>26 DEF CleanGone, Advance, Failed, Refuse, Preserve, Types, FioType, FioOK
<1>27. ASSUME NEW valid \in BOOLEAN, NEW removed \in BOOLEAN, NEW imageLeft \in BOOLEAN,
              CleanFiles(valid, removed, imageLeft)
      PROVE  fio'.at = "pass" => FioClear
  BY <1>27 DEF CleanFiles, Advance, Failed, Refuse, Preserve, Types, FioType, FioOK
<1> QED
  BY <1>1, <1>2, <1>3, <1>4, <1>5, <1>6, <1>7, <1>8, <1>9, <1>10, <1>11, <1>12, <1>13, <1>14, <1>15,
     <1>16, <1>17, <1>18, <1>19, <1>20, <1>21, <1>22, <1>23, <1>24, <1>25, <1>26, <1>27 DEF FioNext

\* Every step keeps PassInv.
LEMMA PassStep ==
  ASSUME Types, Holding, PassInv, [Next]_vars
  PROVE  PassInv'
<1>1. ASSUME UNCHANGED <<fio, fs, index>>, Clean => Clean'
      PROVE  PassInv'
  BY <1>1 DEF PassInv, IndexType, Passed
<1>2. CASE WorldNext /\ UNCHANGED <<helperVars, fio, fs, sqliteVars>>
  <2>1. Clean => Clean'
    BY <1>2, WorldSettles, CleanKept DEF Types
  <2> QED BY <1>1, <1>2, <2>1 DEF sqliteVars
<1>3. CASE OtherNext /\ ~fs.sqlite /\ UNCHANGED <<helperVars, fio, fs, sqliteVars>>
  <2>1. Clean => Clean'
    BY <1>3, OtherSettles, CleanKept DEF Types
  <2> QED BY <1>1, <1>3, <2>1 DEF sqliteVars
<1>4. CASE HelperNext /\ fio.at = "off" /\ UNCHANGED <<worldVars, fio, fs, sqliteVars>>
  <2>1. Clean => Clean'
    BY <1>4, CleanKeptByHelper
  <2> QED BY <1>1, <1>4, <2>1 DEF sqliteVars
<1>5. CASE FioNext /\ UNCHANGED <<helperVars, fs, sqliteVars>>
  <2>1. fio.at # "off" /\ fs = FsIdle
    BY <1>5, FioSuiteTypes DEF Types, WorldType, Holding, OneSuite, FsType
  <2>2. index = NoIndex /\ NoIndex.completed = 0 /\ index' = index
    BY <1>5, <2>1 DEF PassInv, NoIndex, FsIdle, sqliteVars
  <2>3. fio'.at = "pass" => Clean'
    BY <1>5, <2>1, FioPassing, ClearClean
  <2> QED BY <1>5, <2>1, <2>2, <2>3, FsRoundsAssumption DEF PassInv, IndexType, Passed, FsIdle
<1>6. CASE FsNext /\ ~fs.sqlite /\ UNCHANGED <<fio, sqliteVars>>
  BY <1>6, FsPass DEF sqliteVars
<1>7. CASE SqliteNext /\ fs.sqlite /\ UNCHANGED fio
  <2>1. CASE CountersNext
    <3>1. Clean => Clean'
      BY <2>1, CleanSame DEF CountersNext
    <3> QED BY <1>1, <1>7, <2>1, <3>1 DEF CountersNext
  <2>2. CASE FsShared /\ UNCHANGED index
    BY <1>7, <2>2, SharedInside, InsidePass
  <2> QED BY <1>7, <2>1, <2>2, SqliteShares, SqlitePass
<1>8. CASE UNCHANGED vars
  <2>1. Clean => Clean'
    BY <1>8, CleanSame DEF vars
  <2> QED BY <1>1, <1>8, <2>1 DEF vars, sqliteVars
<1>9. CASE SecondNext /\ UNCHANGED <<helperVars, fio, fs, sqliteVars>>
  <2>1. Clean => Clean'
    BY <1>9, SecondSettles, CleanKept DEF Types
  <2> QED BY <1>1, <1>9, <2>1 DEF sqliteVars
<1> QED
  BY <1>2, <1>3, <1>4, <1>5, <1>6, <1>7, <1>8, <1>9 DEF Next

\* What PassInv says of a suite that passed.
LEMMA PassInvSuffices ==
  ASSUME Holding, SecondInv, PassInv
  PROVE  PassIsClean
<1>1. ManifestStatus = "pass" => index.failed = 0 /\ index.completed = FsRounds
  BY DEF ManifestStatus, PassInv, IndexType, IndexOK
<1>2. Passed \/ ManifestStatus = "pass" => fio.at \in {"off", "pass"}
  BY <1>1 DEF Passed, PassInv, Holding, OneSuite
<1>3. fio.at \in {"off", "pass"} =>
        second = "none" /\ \A id \in Ids : devices[id].owner # "second"
  BY DEF SecondInv, SecondPlaces
<1> QED BY <1>1, <1>2, <1>3 DEF PassInv, PassIsClean, Clean

-----------------------------------------------------------------------------
(* The I/O of a SQLite case.                                               *)

\* The values of points and counters.
LEMMA SqlValues ==
  ASSUME SqlType
  PROVE  /\ Point \in Points /\ NoPoint \in Points
         /\ Point.block = io.kernel /\ Point.ledger = io.ledger
         /\ NoPoint.block = None /\ NoPoint.ledger = None
         /\ io.kernel \in 0..MaxIo /\ io.daemon \in 0..MaxIo /\ io.ledger \in 0..MaxIo
         /\ io.past \in 0..MaxIo
         /\ sql.phases.block \in Int /\ sql.phases.ledger \in Int
         /\ sql.phases \in [block: Int, ledger: Int]
BY MaxIoAssumption DEF SqlType, IoOK, SqlOK, Point, NoPoint, Points, None

\* The numbers of a point.
LEMMA PointValues ==
  ASSUME NEW p \in Points
  PROVE  p.block \in Int /\ p.ledger \in Int /\ p.block >= -1
BY MaxIoAssumption DEF Points

\* The numbers of the case.
LEMMA SqlNumbers ==
  ASSUME SqlType
  PROVE  /\ io.kernel \in Nat /\ io.daemon \in Nat /\ io.ledger \in Nat /\ io.past \in Nat
         /\ sql.phases.block \in Int /\ sql.phases.ledger \in Int
         /\ sql.last.block \in Int /\ sql.last.ledger \in Int
         /\ sql.before.block \in Int /\ sql.before.ledger \in Int
         /\ sql.origin.block \in Int /\ sql.origin.ledger \in Int
         /\ sql.firstEnd.block \in Int /\ sql.preStop.block \in Int
<1>1. /\ sql.last \in Points /\ sql.before \in Points /\ sql.origin \in Points
      /\ sql.firstEnd \in Points /\ sql.preStop \in Points
  BY DEF SqlType, SqlOK
<1> QED BY <1>1, SqlValues, PointValues

\* A case is left, and its points stay as they are.
LEMMA SqlLeaves ==
  ASSUME SqlType, SqlBounds, UNCHANGED <<io, sql>>, fs.at \notin Ended, fs'.at # "result", ~InCase'
  PROVE  SqlCase'
BY DEF SqlCase, SqlType, SqlBounds, Accounted, SqlPlaced, SqlDone

\* Types and bounds do not depend on the place inside a case.
LEMMA SqlStays ==
  ASSUME SqlType, SqlBounds, UNCHANGED <<io, sql>>, fs.at \notin Ended
  PROVE  SqlType' /\ SqlBounds'
BY DEF SqlType, SqlBounds, Accounted

\* A step elsewhere keeps the accounting.
LEMMA SqlKept ==
  ASSUME SqlInv, UNCHANGED <<io, sql, index, fs>>, daemon = NoDaemon => daemon' = NoDaemon
  PROVE  SqlInv'
<1>1. SqlType /\ SqlBounds => SqlType' /\ SqlBounds'
  BY DEF SqlType, SqlBounds, Accounted, FormatLeft
<1>2. SqlPlaced => SqlPlaced'
  BY DEF SqlPlaced, InCase, FsWorking, SqlCounts, SqlFirst, SqlPoints, SqlRestart, SqlStops,
     InFiles, Stopping, Measured, Accounted
<1>3. SqlDone => SqlDone'
  BY DEF SqlDone
<1> QED BY <1>1, <1>2, <1>3 DEF SqlInv, SqlCase, SqliteIdle

\* A new case has its types.
LEMMA NewCaseOK ==
  SqlOK(NewCase) /\ SqlOK([NewCase EXCEPT !.reader = FALSE])
<1>1. NoPoint \in Points
  BY MaxIoAssumption DEF Points, NoPoint, None
<1>2. [block |-> 0, ledger |-> 0] \in [block: Int, ledger: Int]
  OBVIOUS
<1>3. None \in -1..MaxIo
  BY MaxIoAssumption DEF None
<1>4. SqlOK(NewCase)
  BY <1>1, <1>2, <1>3 DEF NewCase, SqlOK
<1> QED BY <1>4 DEF SqlOK

\* So has a case that is not used.
LEMMA SqlUnused ==
  ASSUME MaxIo \in Nat \ {0}, SqliteIdle
  PROVE  SqlType /\ SqlBounds
<1>1. io = NoIo /\ sql = [NewCase EXCEPT !.reader = FALSE]
  BY DEF SqliteIdle
<1>2. IoOK(io)
  BY <1>1 DEF NoIo, IoOK
<1>3. SqlOK(sql)
  BY <1>1, NewCaseOK
<1>4. SqlBounds
  BY <1>1 DEF SqlBounds, NoIo, NewCase, NoPoint, None
<1> QED BY <1>2, <1>3, <1>4 DEF SqlType

\* FsHelperFails keeps the accounting of the case.
LEMMA FsHelperFailsMeasured ==
  ASSUME Types, FsHold, SqlCase, NEW reaped \in BOOLEAN, FsHelperFails(reaped), UNCHANGED <<io,
         sql>>
  PROVE  SqlCase'
<1>1. fs.at \in {"formatting", "mounting", "unmounting"}
  BY DEF FsHelperFails, HelperSucceeded, Step, FsHold, FsPlaced, FsWorking, FsSteps
<1>2. /\ (fs.recovering => fs'.at = "drop") /\ (~fs.recovering => fs'.at = "failed")
      /\ fs'.step = fs.step /\ fs'.recovering = fs.recovering
  BY <1>1 DEF FsHelperFails, Proceed, Fails, AfterCleanup, RunHelper, HelperSucceeded, Types,
     FsType, FsOK
<1>3. ~InCase' /\ fs.at \notin Ended /\ fs'.at # "result"
  BY <1>1, <1>2 DEF InCase, FsWorking, FsSteps, Ended, FsHold, FsPlaced
<1> QED BY <1>3, SqlLeaves DEF SqlCase

\* FsCommandFails keeps the accounting of the case.
LEMMA FsCommandFailsMeasured ==
  ASSUME Types, FsHold, SqlCase, NEW reaped \in BOOLEAN, FsCommandFails(reaped), UNCHANGED <<io,
         sql>>
  PROVE  SqlCase'
<1>1. fs.at = "script" /\ fs.step \in 1..18 /\ ScriptStep
  BY InScript DEF FsCommandFails, Step, FsHold, ScriptStep, RemoveFixture
<1>2. fs.at = "script" /\ ScriptStep
  BY <1>1, StepNumbers DEF FsCommandFails, Step, RemoveFixture
<1>3. /\ (fs.recovering => fs'.at = "drop") /\ (~fs.recovering => fs'.at = "failed")
      /\ fs'.step = fs.step /\ fs'.recovering = fs.recovering
  BY <1>2 DEF FsCommandFails, Proceed, Fails, AfterCleanup, RunHelper, HelperSucceeded, Types,
     FsType, FsOK, ScriptStep
<1>4. ~InCase' /\ fs.at \notin Ended /\ fs'.at # "result"
  BY <1>2, <1>3 DEF InCase, FsWorking, FsSteps, Ended, FsHold, FsPlaced
<1> QED BY <1>4, SqlLeaves DEF SqlCase

\* FsFormatFails keeps the accounting of the case.
LEMMA FsFormatFailsMeasured ==
  ASSUME Types, FsHold, SqlCase, NEW created \in BOOLEAN, NEW reaped \in BOOLEAN,
         FsFormatFails(created, reaped), UNCHANGED <<io, sql>>
  PROVE  SqlCase'
<1>1. fs.at = "script" /\ ScriptStep
  BY InScript DEF FsFormatFails, Step, FsHold
<1>2. /\ (fs.recovering => fs'.at = "drop") /\ (~fs.recovering => fs'.at = "failed")
      /\ fs'.recovering = fs.recovering
  BY DEF FsFormatFails, Fails, AfterCleanup, Types, FsType, FsOK
<1>3. ~InCase' /\ fs.at \notin Ended /\ fs'.at # "result"
  BY <1>1, <1>2 DEF InCase, FsWorking, FsSteps, Ended
<1> QED BY <1>3, SqlLeaves DEF SqlCase

\* FsReady keeps the accounting of the case.
LEMMA FsReadyMeasured ==
  ASSUME Types, FsHold, SqlCase, NEW accepted \in BOOLEAN, FsReady(accepted), UNCHANGED <<io, sql>>
  PROVE  SqlCase'
<1>1. CASE accepted
  <2>1. fs.at = "ready" /\ ~fs.recovering
    BY <1>1 DEF FsReady, HelperSucceeded, Step, FsHold, FsPlaced, FsWorking, FsSteps
  <2>2. /\ fs'.at = "script"
        /\ fs'.step = fs.step + 1 /\ fs'.recovering = fs.recovering
    BY <2>1, <1>1 DEF FsReady, Proceed, Fails, AfterCleanup, RunHelper, HelperSucceeded, Types,
       FsType, FsOK
  <2>3. fs.at \notin Ended /\ fs'.at # "result"
    BY <2>1, <2>2 DEF Ended
  <2>4. SqlType' /\ SqlBounds'
    BY <2>3, SqlStays DEF SqlCase
  <2>5. InCase' => InCase /\ FsWorking /\ fs.step \in FsSteps[fs.at]
    BY <2>1, <2>2 DEF InCase, FsWorking, FsSteps, FsHold, FsPlaced
  <2>6. InCase' => SqlCounts'
    BY <2>1, <2>2, <2>5, SqlValues, PointValues DEF SqlCase, SqlPlaced, FsSteps, SqlCounts
  <2>7. InCase' => SqlFirst'
    BY <2>1, <2>2, <2>5, SqlValues, PointValues DEF SqlCase, SqlPlaced, FsSteps, SqlFirst, InFiles
  <2>8. InCase' => SqlPoints'
    BY <2>1, <2>2, <2>5, SqlValues, PointValues
       DEF SqlCase, SqlPlaced, FsSteps, SqlPoints, InFiles, Measured, Accounted
  <2>9. InCase' => SqlRestart'
    BY <2>1, <2>2, <2>5, SqlValues, PointValues
       DEF SqlCase, SqlPlaced, FsSteps, SqlRestart, Stopping, SqlPoints, InFiles, Measured,
       Accounted, SqlFirst
  <2>10. InCase' => SqlStops'
    BY <2>1, <2>2, <2>5, SqlValues, PointValues
       DEF SqlCase, SqlPlaced, FsSteps, SqlStops, SqlPoints, InFiles, Measured
  <2>11. fs'.at # "result"
    BY <2>2
  <2> QED BY <2>4, <2>11, <2>6, <2>7, <2>8, <2>9, <2>10 DEF SqlCase, SqlPlaced, SqlDone
<1>2. CASE ~accepted
  <2>1. fs.at = "ready" /\ ~fs.recovering
    BY <1>2 DEF FsReady, HelperSucceeded, Step, FsHold, FsPlaced, FsWorking, FsSteps
  <2>2. /\ (fs.recovering => fs'.at = "drop") /\ (~fs.recovering => fs'.at = "failed")
        /\ fs'.step = fs.step /\ fs'.recovering = fs.recovering
    BY <2>1, <1>2 DEF FsReady, Proceed, Fails, AfterCleanup, RunHelper, HelperSucceeded, Types,
       FsType, FsOK
  <2>3. ~InCase' /\ fs.at \notin Ended /\ fs'.at # "result"
    BY <2>1, <2>2 DEF InCase, FsWorking, FsSteps, Ended, FsHold, FsPlaced
  <2> QED BY <2>3, SqlLeaves DEF SqlCase
<1> QED BY <1>1, <1>2

\* FsCheck keeps the accounting of the case.
LEMMA FsCheckMeasured ==
  ASSUME Types, FsHold, SqlCase, FsCheck, UNCHANGED <<io, sql>>
  PROVE  SqlCase'
<1>1. fs.at = "script" /\ fs.step \in 1..18 /\ ScriptStep
  BY InScript DEF FsCheck, Step, FsHold, ScriptStep, RemoveFixture
<1>2. fs.at = "script" /\ ScriptStep /\ (fs.step = 3 \/ fs.step \in {4, 9, 12, 16})
  BY <1>1, StepNumbers DEF FsCheck, Step, RemoveFixture
<1>3. /\ fs'.at = "script"
      /\ fs'.step = fs.step + 1 /\ fs'.recovering = fs.recovering
  BY <1>2 DEF FsCheck, Proceed, Fails, AfterCleanup, RunHelper, HelperSucceeded, Types, FsType,
     FsOK, ScriptStep
<1>4. fs.at \notin Ended /\ fs'.at # "result"
  BY <1>2, <1>3 DEF Ended
<1>5. SqlType' /\ SqlBounds'
  BY <1>4, SqlStays DEF SqlCase
<1>6. InCase' => InCase /\ FsWorking /\ fs.step \in FsSteps[fs.at]
  BY <1>2, <1>3 DEF InCase, FsWorking, FsSteps, FsHold, FsPlaced
<1>7. InCase' => SqlCounts'
  BY <1>2, <1>3, <1>6, SqlValues, PointValues DEF SqlCase, SqlPlaced, FsSteps, SqlCounts
<1>8. InCase' => SqlFirst'
  BY <1>2, <1>3, <1>6, SqlValues, PointValues DEF SqlCase, SqlPlaced, FsSteps, SqlFirst, InFiles
<1>9. InCase' => SqlPoints'
  BY <1>2, <1>3, <1>6, SqlValues, PointValues
     DEF SqlCase, SqlPlaced, FsSteps, SqlPoints, InFiles, Measured, Accounted
<1>10. InCase' => SqlRestart'
  BY <1>2, <1>3, <1>6, SqlValues, PointValues
     DEF SqlCase, SqlPlaced, FsSteps, SqlRestart, Stopping, SqlPoints, InFiles, Measured, Accounted,
     SqlFirst
<1>11. InCase' => SqlStops'
  BY <1>2, <1>3, <1>6, SqlValues, PointValues
     DEF SqlCase, SqlPlaced, FsSteps, SqlStops, SqlPoints, InFiles, Measured
<1>12. fs'.at # "result"
  BY <1>3
<1> QED BY <1>5, <1>12, <1>7, <1>8, <1>9, <1>10, <1>11 DEF SqlCase, SqlPlaced, SqlDone

\* FsFormatXfs keeps the accounting of the case.
LEMMA FsFormatXfsMeasured ==
  ASSUME Types, FsHold, SqlCase, FsFormatXfs, UNCHANGED <<io, sql>>
  PROVE  SqlCase'
<1>1. fs.at = "script" /\ fs.step \in 1..18 /\ ScriptStep
  BY InScript DEF FsFormatXfs, Step, FsHold, ScriptStep, RemoveFixture
<1>2. fs.at = "script" /\ ScriptStep /\ (fs.step = 3)
  BY <1>1, StepNumbers DEF FsFormatXfs, Step, RemoveFixture
<1>3. /\ fs'.at = "formatting"
      /\ fs'.step = fs.step /\ fs'.recovering = fs.recovering
  BY <1>2 DEF FsFormatXfs, Proceed, Fails, AfterCleanup, RunHelper, HelperSucceeded, Types, FsType,
     FsOK, ScriptStep
<1>4. fs.at \notin Ended /\ fs'.at # "result"
  BY <1>2, <1>3 DEF Ended
<1>5. SqlType' /\ SqlBounds'
  BY <1>4, SqlStays DEF SqlCase
<1>6. InCase' => InCase /\ FsWorking /\ fs.step \in FsSteps[fs.at]
  BY <1>2, <1>3 DEF InCase, FsWorking, FsSteps, FsHold, FsPlaced
<1>7. InCase' => SqlCounts'
  BY <1>2, <1>3, <1>6, SqlValues, PointValues DEF SqlCase, SqlPlaced, FsSteps, SqlCounts
<1>8. InCase' => SqlFirst'
  BY <1>2, <1>3, <1>6, SqlValues, PointValues DEF SqlCase, SqlPlaced, FsSteps, SqlFirst, InFiles
<1>9. InCase' => SqlPoints'
  BY <1>2, <1>3, <1>6, SqlValues, PointValues
     DEF SqlCase, SqlPlaced, FsSteps, SqlPoints, InFiles, Measured, Accounted
<1>10. InCase' => SqlRestart'
  BY <1>2, <1>3, <1>6, SqlValues, PointValues
     DEF SqlCase, SqlPlaced, FsSteps, SqlRestart, Stopping, SqlPoints, InFiles, Measured, Accounted,
     SqlFirst
<1>11. InCase' => SqlStops'
  BY <1>2, <1>3, <1>6, SqlValues, PointValues
     DEF SqlCase, SqlPlaced, FsSteps, SqlStops, SqlPoints, InFiles, Measured
<1>12. fs'.at # "result"
  BY <1>3
<1> QED BY <1>5, <1>12, <1>7, <1>8, <1>9, <1>10, <1>11 DEF SqlCase, SqlPlaced, SqlDone

\* FsFormattedXfs keeps the accounting of the case.
LEMMA FsFormattedXfsMeasured ==
  ASSUME Types, FsHold, SqlCase, FsFormattedXfs, UNCHANGED <<io, sql>>
  PROVE  SqlCase'
<1>1. fs.at = "formatting" /\ ~fs.recovering /\ fs.step = 3
  BY DEF FsFormattedXfs, HelperSucceeded, Step, FsHold, FsPlaced, FsWorking, FsSteps
<1>2. /\ fs'.at = "script"
      /\ fs'.step = fs.step + 1 /\ fs'.recovering = fs.recovering
  BY <1>1 DEF FsFormattedXfs, Proceed, Fails, AfterCleanup, RunHelper, HelperSucceeded, Types,
     FsType, FsOK
<1>3. fs.at \notin Ended /\ fs'.at # "result"
  BY <1>1, <1>2 DEF Ended
<1>4. SqlType' /\ SqlBounds'
  BY <1>3, SqlStays DEF SqlCase
<1>5. InCase' => InCase /\ FsWorking /\ fs.step \in FsSteps[fs.at]
  BY <1>1, <1>2 DEF InCase, FsWorking, FsSteps, FsHold, FsPlaced
<1>6. InCase' => SqlCounts'
  BY <1>1, <1>2, <1>5, SqlValues, PointValues DEF SqlCase, SqlPlaced, FsSteps, SqlCounts
<1>7. InCase' => SqlFirst'
  BY <1>1, <1>2, <1>5, SqlValues, PointValues DEF SqlCase, SqlPlaced, FsSteps, SqlFirst, InFiles
<1>8. InCase' => SqlPoints'
  BY <1>1, <1>2, <1>5, SqlValues, PointValues
     DEF SqlCase, SqlPlaced, FsSteps, SqlPoints, InFiles, Measured, Accounted
<1>9. InCase' => SqlRestart'
  BY <1>1, <1>2, <1>5, SqlValues, PointValues
     DEF SqlCase, SqlPlaced, FsSteps, SqlRestart, Stopping, SqlPoints, InFiles, Measured, Accounted,
     SqlFirst
<1>10. InCase' => SqlStops'
  BY <1>1, <1>2, <1>5, SqlValues, PointValues
     DEF SqlCase, SqlPlaced, FsSteps, SqlStops, SqlPoints, InFiles, Measured
<1>11. fs'.at # "result"
  BY <1>2
<1> QED BY <1>4, <1>11, <1>6, <1>7, <1>8, <1>9, <1>10 DEF SqlCase, SqlPlaced, SqlDone

\* FsMount keeps the accounting of the case.
LEMMA FsMountMeasured ==
  ASSUME Types, FsHold, SqlCase, FsMount, UNCHANGED <<io, sql>>
  PROVE  SqlCase'
<1>1. fs.at = "script" /\ fs.step \in 1..18 /\ ScriptStep
  BY InScript DEF FsMount, Step, FsHold, ScriptStep, RemoveFixture
<1>2. fs.at = "script" /\ ScriptStep /\ (fs.step \in {5, 13})
  BY <1>1, StepNumbers DEF FsMount, Step, RemoveFixture
<1>3. /\ fs'.at = "mounting"
      /\ fs'.step = fs.step /\ fs'.recovering = fs.recovering
  BY <1>2 DEF FsMount, Proceed, Fails, AfterCleanup, RunHelper, HelperSucceeded, Types, FsType,
     FsOK, ScriptStep
<1>4. fs.at \notin Ended /\ fs'.at # "result"
  BY <1>2, <1>3 DEF Ended
<1>5. SqlType' /\ SqlBounds'
  BY <1>4, SqlStays DEF SqlCase
<1>6. InCase' => InCase /\ FsWorking /\ fs.step \in FsSteps[fs.at]
  BY <1>2, <1>3 DEF InCase, FsWorking, FsSteps, FsHold, FsPlaced
<1>7. InCase' => SqlCounts'
  BY <1>2, <1>3, <1>6, SqlValues, PointValues DEF SqlCase, SqlPlaced, FsSteps, SqlCounts
<1>8. InCase' => SqlFirst'
  BY <1>2, <1>3, <1>6, SqlValues, PointValues DEF SqlCase, SqlPlaced, FsSteps, SqlFirst, InFiles
<1>9. InCase' => SqlPoints'
  BY <1>2, <1>3, <1>6, SqlValues, PointValues
     DEF SqlCase, SqlPlaced, FsSteps, SqlPoints, InFiles, Measured, Accounted
<1>10. InCase' => SqlRestart'
  BY <1>2, <1>3, <1>6, SqlValues, PointValues
     DEF SqlCase, SqlPlaced, FsSteps, SqlRestart, Stopping, SqlPoints, InFiles, Measured, Accounted,
     SqlFirst
<1>11. InCase' => SqlStops'
  BY <1>2, <1>3, <1>6, SqlValues, PointValues
     DEF SqlCase, SqlPlaced, FsSteps, SqlStops, SqlPoints, InFiles, Measured
<1>12. fs'.at # "result"
  BY <1>3
<1> QED BY <1>5, <1>12, <1>7, <1>8, <1>9, <1>10, <1>11 DEF SqlCase, SqlPlaced, SqlDone

\* FsUnmount keeps the accounting of the case.
LEMMA FsUnmountMeasured ==
  ASSUME Types, FsHold, SqlCase, FsUnmount, UNCHANGED <<io, sql>>
  PROVE  SqlCase'
<1>1. CASE fs.at = "script"
  <2>1. fs.at = "script" /\ fs.step \in 1..18 /\ ScriptStep
    BY <1>1, InScript DEF FsUnmount, Step, FsHold, ScriptStep, RemoveFixture
  <2>2. fs.at = "script" /\ ScriptStep /\ (fs.step \in {8, 15}) /\ fs.daemon /\
          fs.device # Unrecorded
    BY <2>1, <1>1, StepNumbers DEF FsUnmount, Step, RemoveFixture, RequireMounted, Validated
  <2>3. /\ fs'.at = "unmounting"
        /\ fs'.step = fs.step /\ fs'.recovering = fs.recovering
    BY <2>2, <1>1 DEF FsUnmount, Proceed, Fails, AfterCleanup, RunHelper, HelperSucceeded, Types,
       FsType, FsOK, ScriptStep
  <2>4. fs.at \notin Ended /\ fs'.at # "result"
    BY <2>2, <2>3 DEF Ended
  <2>5. SqlType' /\ SqlBounds'
    BY <2>4, SqlStays DEF SqlCase
  <2>6. InCase' => InCase /\ FsWorking /\ fs.step \in FsSteps[fs.at]
    BY <2>2, <2>3 DEF InCase, FsWorking, FsSteps, FsHold, FsPlaced
  <2>7. InCase' => SqlCounts'
    BY <2>2, <2>3, <2>6, SqlValues, PointValues DEF SqlCase, SqlPlaced, FsSteps, SqlCounts
  <2>8. InCase' => SqlFirst'
    BY <2>2, <2>3, <2>6, SqlValues, PointValues DEF SqlCase, SqlPlaced, FsSteps, SqlFirst, InFiles
  <2>9. InCase' => SqlPoints'
    BY <2>2, <2>3, <2>6, SqlValues, PointValues
       DEF SqlCase, SqlPlaced, FsSteps, SqlPoints, InFiles, Measured, Accounted
  <2>10. InCase' => SqlRestart'
    BY <2>2, <2>3, <2>6, SqlValues, PointValues
       DEF SqlCase, SqlPlaced, FsSteps, SqlRestart, Stopping, SqlPoints, InFiles, Measured,
       Accounted, SqlFirst
  <2>11. InCase' => SqlStops'
    BY <2>2, <2>3, <2>6, SqlValues, PointValues
       DEF SqlCase, SqlPlaced, FsSteps, SqlStops, SqlPoints, InFiles, Measured
  <2>12. fs'.at # "result"
    BY <2>3
  <2> QED BY <2>5, <2>12, <2>7, <2>8, <2>9, <2>10, <2>11 DEF SqlCase, SqlPlaced, SqlDone
<1>2. CASE fs.at # "script"
  <2>1. fs.at = "recover_mounted" /\ fs.daemon /\ fs.device # Unrecorded
    BY <1>2 DEF FsUnmount, HelperSucceeded, Step, FsHold, FsPlaced, FsWorking, FsSteps,
       RequireMounted, Validated
  <2>2. /\ fs'.at = "unmounting"
        /\ fs'.step = fs.step /\ fs'.recovering = fs.recovering
    BY <2>1, <1>2 DEF FsUnmount, Proceed, Fails, AfterCleanup, RunHelper, HelperSucceeded, Types,
       FsType, FsOK
  <2>3. fs.at \notin Ended /\ fs'.at # "result"
    BY <2>1, <2>2 DEF Ended
  <2>4. SqlType' /\ SqlBounds'
    BY <2>3, SqlStays DEF SqlCase
  <2>5. InCase' => InCase /\ FsWorking /\ fs.step \in FsSteps[fs.at]
    BY <2>1, <2>2 DEF InCase, FsWorking, FsSteps, FsHold, FsPlaced
  <2>6. InCase' => SqlCounts'
    BY <2>1, <2>2, <2>5, SqlValues, PointValues DEF SqlCase, SqlPlaced, FsSteps, SqlCounts
  <2>7. InCase' => SqlFirst'
    BY <2>1, <2>2, <2>5, SqlValues, PointValues DEF SqlCase, SqlPlaced, FsSteps, SqlFirst, InFiles
  <2>8. InCase' => SqlPoints'
    BY <2>1, <2>2, <2>5, SqlValues, PointValues
       DEF SqlCase, SqlPlaced, FsSteps, SqlPoints, InFiles, Measured, Accounted
  <2>9. InCase' => SqlRestart'
    BY <2>1, <2>2, <2>5, SqlValues, PointValues
       DEF SqlCase, SqlPlaced, FsSteps, SqlRestart, Stopping, SqlPoints, InFiles, Measured,
       Accounted, SqlFirst
  <2>10. InCase' => SqlStops'
    BY <2>1, <2>2, <2>5, SqlValues, PointValues
       DEF SqlCase, SqlPlaced, FsSteps, SqlStops, SqlPoints, InFiles, Measured
  <2>11. fs'.at # "result"
    BY <2>2
  <2> QED BY <2>4, <2>11, <2>6, <2>7, <2>8, <2>9, <2>10 DEF SqlCase, SqlPlaced, SqlDone
<1> QED BY <1>1, <1>2

\* FsUnmounted keeps the accounting of the case.
LEMMA FsUnmountedMeasured ==
  ASSUME Types, FsHold, SqlCase, NEW verified \in BOOLEAN, FsUnmounted(verified), UNCHANGED <<io,
         sql>>
  PROVE  SqlCase'
<1>1. CASE ~verified
  <2>1. fs.at = "unmounting"
    BY <1>1 DEF FsUnmounted, HelperSucceeded, Step, FsHold, FsPlaced, FsWorking, FsSteps
  <2>2. /\ (fs.recovering => fs'.at = "drop") /\ (~fs.recovering => fs'.at = "failed")
        /\ fs'.step = fs.step /\ fs'.recovering = fs.recovering
    BY <2>1, <1>1 DEF FsUnmounted, Proceed, Fails, AfterCleanup, RunHelper, HelperSucceeded, Types,
       FsType, FsOK
  <2>3. ~InCase' /\ fs.at \notin Ended /\ fs'.at # "result"
    BY <2>1, <2>2 DEF InCase, FsWorking, FsSteps, Ended, FsHold, FsPlaced
  <2> QED BY <2>3, SqlLeaves DEF SqlCase
<1>2. CASE verified /\ fs.recovering
  <2>1. fs.at = "unmounting" /\ fs.recovering
    BY <1>2 DEF FsUnmounted, HelperSucceeded, Step, FsHold, FsPlaced, FsWorking, FsSteps
  <2>2. /\ fs'.at = "recover_stop"
        /\ fs'.step = fs.step /\ fs'.recovering = fs.recovering
    BY <2>1, <1>2 DEF FsUnmounted, Proceed, Fails, AfterCleanup, RunHelper, HelperSucceeded, Types,
       FsType, FsOK
  <2>3. ~InCase' /\ fs.at \notin Ended /\ fs'.at # "result"
    BY <2>1, <2>2 DEF InCase, FsWorking, FsSteps, Ended, FsHold, FsPlaced
  <2> QED BY <2>3, SqlLeaves DEF SqlCase
<1>3. CASE verified /\ ~fs.recovering
  <2>1. fs.at = "unmounting" /\ ~fs.recovering /\ fs.step \in {8, 15}
    BY <1>3 DEF FsUnmounted, HelperSucceeded, Step, FsHold, FsPlaced, FsWorking, FsSteps
  <2>2. /\ fs'.at = "script"
        /\ fs'.step = fs.step + 1 /\ fs'.recovering = fs.recovering
    BY <2>1, <1>3 DEF FsUnmounted, Proceed, Fails, AfterCleanup, RunHelper, HelperSucceeded, Types,
       FsType, FsOK
  <2>3. fs.at \notin Ended /\ fs'.at # "result"
    BY <2>1, <2>2 DEF Ended
  <2>4. SqlType' /\ SqlBounds'
    BY <2>3, SqlStays DEF SqlCase
  <2>5. InCase' => InCase /\ FsWorking /\ fs.step \in FsSteps[fs.at]
    BY <2>1, <2>2 DEF InCase, FsWorking, FsSteps, FsHold, FsPlaced
  <2>6. InCase' => SqlCounts'
    BY <2>1, <2>2, <2>5, SqlValues, PointValues DEF SqlCase, SqlPlaced, FsSteps, SqlCounts
  <2>7. InCase' => SqlFirst'
    BY <2>1, <2>2, <2>5, SqlValues, PointValues DEF SqlCase, SqlPlaced, FsSteps, SqlFirst, InFiles
  <2>8. InCase' => SqlPoints'
    BY <2>1, <2>2, <2>5, SqlValues, PointValues
       DEF SqlCase, SqlPlaced, FsSteps, SqlPoints, InFiles, Measured, Accounted
  <2>9. InCase' => SqlRestart'
    BY <2>1, <2>2, <2>5, SqlValues, PointValues
       DEF SqlCase, SqlPlaced, FsSteps, SqlRestart, Stopping, SqlPoints, InFiles, Measured,
       Accounted, SqlFirst
  <2>10. InCase' => SqlStops'
    BY <2>1, <2>2, <2>5, SqlValues, PointValues
       DEF SqlCase, SqlPlaced, FsSteps, SqlStops, SqlPoints, InFiles, Measured
  <2>11. fs'.at # "result"
    BY <2>2
  <2> QED BY <2>4, <2>11, <2>6, <2>7, <2>8, <2>9, <2>10 DEF SqlCase, SqlPlaced, SqlDone
<1> QED BY <1>1, <1>2, <1>3

\* FsTerminate keeps the accounting of the case.
LEMMA FsTerminateMeasured ==
  ASSUME Types, FsHold, SqlCase, FsTerminate, UNCHANGED <<io, sql>>
  PROVE  SqlCase'
<1>1. fs.at = "term"
  BY DEF FsTerminate, HelperSucceeded, Step, FsHold, FsPlaced, FsWorking, FsSteps
<1>2. /\ fs'.at = "exit"
      /\ fs'.step = fs.step /\ fs'.recovering = fs.recovering
  BY <1>1 DEF FsTerminate, Proceed, Fails, AfterCleanup, RunHelper, HelperSucceeded, Types, FsType,
     FsOK
<1>3. fs.at \notin Ended /\ fs'.at # "result"
  BY <1>1, <1>2 DEF Ended
<1>4. SqlType' /\ SqlBounds'
  BY <1>3, SqlStays DEF SqlCase
<1>5. InCase' => InCase /\ FsWorking /\ fs.step \in FsSteps[fs.at]
  BY <1>1, <1>2 DEF InCase, FsWorking, FsSteps, FsHold, FsPlaced
<1>6. InCase' => SqlCounts'
  BY <1>1, <1>2, <1>5, SqlValues, PointValues DEF SqlCase, SqlPlaced, FsSteps, SqlCounts
<1>7. InCase' => SqlFirst'
  BY <1>1, <1>2, <1>5, SqlValues, PointValues DEF SqlCase, SqlPlaced, FsSteps, SqlFirst, InFiles
<1>8. InCase' => SqlPoints'
  BY <1>1, <1>2, <1>5, SqlValues, PointValues
     DEF SqlCase, SqlPlaced, FsSteps, SqlPoints, InFiles, Measured, Accounted
<1>9. InCase' => SqlRestart'
  BY <1>1, <1>2, <1>5, SqlValues, PointValues
     DEF SqlCase, SqlPlaced, FsSteps, SqlRestart, Stopping, SqlPoints, InFiles, Measured, Accounted,
     SqlFirst
<1>10. InCase' => SqlStops'
  BY <1>1, <1>2, <1>5, SqlValues, PointValues
     DEF SqlCase, SqlPlaced, FsSteps, SqlStops, SqlPoints, InFiles, Measured
<1>11. fs'.at # "result"
  BY <1>2
<1> QED BY <1>4, <1>11, <1>6, <1>7, <1>8, <1>9, <1>10 DEF SqlCase, SqlPlaced, SqlDone

\* FsExited keeps the accounting of the case.
LEMMA FsExitedMeasured ==
  ASSUME Types, FsHold, SqlCase, FsExited, UNCHANGED <<io, sql>>
  PROVE  SqlCase'
<1>1. fs.at = "exit" /\ daemon.state = "exited" /\ ~Alive
  BY DEF FsExited, HelperSucceeded, Step, FsHold, FsPlaced, FsWorking, FsSteps, Alive
<1>2. /\ fs'.at = "reap"
      /\ fs'.step = fs.step /\ fs'.recovering = fs.recovering
  BY <1>1 DEF FsExited, Proceed, Fails, AfterCleanup, RunHelper, HelperSucceeded, Types, FsType,
     FsOK
<1>3. fs.at \notin Ended /\ fs'.at # "result"
  BY <1>1, <1>2 DEF Ended
<1>4. SqlType' /\ SqlBounds'
  BY <1>3, SqlStays DEF SqlCase
<1>5. InCase' => InCase /\ FsWorking /\ fs.step \in FsSteps[fs.at]
  BY <1>1, <1>2 DEF InCase, FsWorking, FsSteps, FsHold, FsPlaced
<1>6. InCase' => SqlCounts'
  BY <1>1, <1>2, <1>5, SqlValues, PointValues DEF SqlCase, SqlPlaced, FsSteps, SqlCounts
<1>7. InCase' => SqlFirst'
  BY <1>1, <1>2, <1>5, SqlValues, PointValues DEF SqlCase, SqlPlaced, FsSteps, SqlFirst, InFiles
<1>8. InCase' => SqlPoints'
  BY <1>1, <1>2, <1>5, SqlValues, PointValues
     DEF SqlCase, SqlPlaced, FsSteps, SqlPoints, InFiles, Measured, Accounted
<1>9. InCase' => SqlRestart'
  BY <1>1, <1>2, <1>5, SqlValues, PointValues
     DEF SqlCase, SqlPlaced, FsSteps, SqlRestart, Stopping, SqlPoints, InFiles, Measured, Accounted,
     SqlFirst
<1>10. InCase' => SqlStops'
  BY <1>1, <1>2, <1>5, SqlValues, PointValues
     DEF SqlCase, SqlPlaced, FsSteps, SqlStops, SqlPoints, InFiles, Measured
<1>11. fs'.at # "result"
  BY <1>2
<1> QED BY <1>4, <1>11, <1>6, <1>7, <1>8, <1>9, <1>10 DEF SqlCase, SqlPlaced, SqlDone

\* FsReaped keeps the accounting of the case.
LEMMA FsReapedMeasured ==
  ASSUME Types, FsHold, SqlCase, FsReaped, UNCHANGED <<io, sql>>
  PROVE  SqlCase'
<1>1. CASE reap = "ok"
  <2>1. fs.at = "reap" /\ daemon = NoDaemon
    BY <1>1 DEF FsReaped, HelperSucceeded, Step, FsHold, FsPlaced, FsWorking, FsSteps, FsHold,
       FsReap
  <2>2. /\ fs'.at = "gone"
        /\ fs'.step = fs.step /\ fs'.recovering = fs.recovering
    BY <2>1, <1>1 DEF FsReaped, Proceed, Fails, AfterCleanup, RunHelper, HelperSucceeded, Types,
       FsType, FsOK
  <2>3. fs.at \notin Ended /\ fs'.at # "result"
    BY <2>1, <2>2 DEF Ended
  <2>4. SqlType' /\ SqlBounds'
    BY <2>3, SqlStays DEF SqlCase
  <2>5. InCase' => InCase /\ FsWorking /\ fs.step \in FsSteps[fs.at]
    BY <2>1, <2>2 DEF InCase, FsWorking, FsSteps, FsHold, FsPlaced
  <2>6. InCase' => SqlCounts'
    BY <2>1, <2>2, <2>5, SqlValues, PointValues DEF SqlCase, SqlPlaced, FsSteps, SqlCounts
  <2>7. InCase' => SqlFirst'
    BY <2>1, <2>2, <2>5, SqlValues, PointValues DEF SqlCase, SqlPlaced, FsSteps, SqlFirst, InFiles
  <2>8. InCase' => SqlPoints'
    BY <2>1, <2>2, <2>5, SqlValues, PointValues
       DEF SqlCase, SqlPlaced, FsSteps, SqlPoints, InFiles, Measured, Accounted
  <2>9. InCase' => SqlRestart'
    BY <2>1, <2>2, <2>5, SqlValues, PointValues
       DEF SqlCase, SqlPlaced, FsSteps, SqlRestart, Stopping, SqlPoints, InFiles, Measured,
       Accounted, SqlFirst
  <2>10. InCase' => SqlStops'
    BY <2>1, <2>2, <2>5, SqlValues, PointValues
       DEF SqlCase, SqlPlaced, FsSteps, SqlStops, SqlPoints, InFiles, Measured
  <2>11. fs'.at # "result"
    BY <2>2
  <2> QED BY <2>4, <2>11, <2>6, <2>7, <2>8, <2>9, <2>10 DEF SqlCase, SqlPlaced, SqlDone
<1>2. CASE reap # "ok"
  <2>1. fs.at = "reap"
    BY <1>2 DEF FsReaped, HelperSucceeded, Step, FsHold, FsPlaced, FsWorking, FsSteps
  <2>2. /\ (fs.recovering => fs'.at = "drop") /\ (~fs.recovering => fs'.at = "failed")
        /\ fs'.step = fs.step /\ fs'.recovering = fs.recovering
    BY <2>1, <1>2 DEF FsReaped, Proceed, Fails, AfterCleanup, RunHelper, HelperSucceeded, Types,
       FsType, FsOK
  <2>3. ~InCase' /\ fs.at \notin Ended /\ fs'.at # "result"
    BY <2>1, <2>2 DEF InCase, FsWorking, FsSteps, Ended, FsHold, FsPlaced
  <2> QED BY <2>3, SqlLeaves DEF SqlCase
<1> QED BY <1>1, <1>2

\* FsRecover keeps the accounting of the case.
LEMMA FsRecoverMeasured ==
  ASSUME Types, FsHold, SqlCase, NEW reaped \in BOOLEAN, FsRecover(reaped), UNCHANGED <<io, sql>>
  PROVE  SqlCase'
<1>1. CASE reaped
  <2>1. fs.at = "failed"
    BY <1>1 DEF FsRecover, HelperSucceeded, Step, FsHold, FsPlaced, FsWorking, FsSteps
  <2>2. /\ fs'.at = "recover"
        /\ fs'.step = fs.step /\ fs'.recovering = TRUE
    BY <2>1, <1>1 DEF FsRecover, Proceed, Fails, AfterCleanup, RunHelper, HelperSucceeded, Types,
       FsType, FsOK
  <2>3. ~InCase' /\ fs.at \notin Ended /\ fs'.at # "result"
    BY <2>1, <2>2 DEF InCase, FsWorking, FsSteps, Ended, FsHold, FsPlaced
  <2> QED BY <2>3, SqlLeaves DEF SqlCase
<1>2. CASE ~reaped
  <2>1. fs.at = "failed" /\ fs.command
    BY <1>2 DEF FsRecover, HelperSucceeded, Step, FsHold, FsPlaced, FsWorking, FsSteps
  <2>2. /\ fs'.at = "drop"
        /\ fs'.step = fs.step /\ fs'.recovering = fs.recovering
    BY <2>1, <1>2 DEF FsRecover, Proceed, Fails, AfterCleanup, RunHelper, HelperSucceeded, Types,
       FsType, FsOK
  <2>3. ~InCase' /\ fs.at \notin Ended /\ fs'.at # "result"
    BY <2>1, <2>2 DEF InCase, FsWorking, FsSteps, Ended, FsHold, FsPlaced
  <2> QED BY <2>3, SqlLeaves DEF SqlCase
<1> QED BY <1>1, <1>2

\* FsRecoverReaped keeps the accounting of the case.
LEMMA FsRecoverReapedMeasured ==
  ASSUME Types, FsHold, SqlCase, FsRecoverReaped, UNCHANGED <<io, sql>>
  PROVE  SqlCase'
<1>1. fs.at = "recover_reap"
  BY DEF FsRecoverReaped, HelperSucceeded, Step, FsHold, FsPlaced, FsWorking, FsSteps
<1>2. /\ fs'.at = "drop"
      /\ fs'.step = fs.step /\ fs'.recovering = fs.recovering
  BY <1>1 DEF FsRecoverReaped, Proceed, Fails, AfterCleanup, RunHelper, HelperSucceeded, Types,
     FsType, FsOK
<1>3. ~InCase' /\ fs.at \notin Ended /\ fs'.at # "result"
  BY <1>1, <1>2 DEF InCase, FsWorking, FsSteps, Ended, FsHold, FsPlaced
<1> QED BY <1>3, SqlLeaves DEF SqlCase

\* FsRecoverDevice keeps the accounting of the case.
LEMMA FsRecoverDeviceMeasured ==
  ASSUME Types, FsHold, SqlCase, FsRecoverDevice, UNCHANGED <<io, sql>>
  PROVE  SqlCase'
<1>1. fs.at = "recover"
  BY DEF FsRecoverDevice, HelperSucceeded, Step, FsHold, FsPlaced, FsWorking, FsSteps
<1>2. /\ fs'.at \in {"recover_stop", "recover_mounted", "drop"}
      /\ fs'.step = fs.step /\ fs'.recovering = fs.recovering
  BY <1>1 DEF FsRecoverDevice, Proceed, Fails, AfterCleanup, RunHelper, HelperSucceeded, Types,
     FsType, FsOK
<1>3. ~InCase' /\ fs.at \notin Ended /\ fs'.at # "result"
  BY <1>1, <1>2 DEF InCase, FsWorking, FsSteps, Ended, FsHold, FsPlaced
<1> QED BY <1>3, SqlLeaves DEF SqlCase

\* FsUnrecoverable keeps the accounting of the case.
LEMMA FsUnrecoverableMeasured ==
  ASSUME Types, FsHold, SqlCase, FsUnrecoverable, UNCHANGED <<io, sql>>
  PROVE  SqlCase'
<1>1. fs.at = "failed"
  BY DEF FsUnrecoverable, HelperSucceeded, Step, FsHold, FsPlaced, FsWorking, FsSteps
<1>2. /\ fs'.at = "drop"
      /\ fs'.step = fs.step /\ fs'.recovering = fs.recovering
  BY <1>1 DEF FsUnrecoverable, Proceed, Fails, AfterCleanup, RunHelper, HelperSucceeded, Types,
     FsType, FsOK
<1>3. ~InCase' /\ fs.at \notin Ended /\ fs'.at # "result"
  BY <1>1, <1>2 DEF InCase, FsWorking, FsSteps, Ended, FsHold, FsPlaced
<1> QED BY <1>3, SqlLeaves DEF SqlCase

\* FsError keeps the accounting of the case.
LEMMA FsErrorMeasured ==
  ASSUME Types, FsHold, SqlCase, FsError, UNCHANGED <<io, sql>>
  PROVE  SqlCase'
<1>1. fs.at \in {"script", "ready", "term", "exit", "gone", "recover_mounted", "recover_stop"}
  BY DEF FsError, HelperSucceeded, Step, FsHold, FsPlaced, FsWorking, FsSteps
<1>2. /\ (fs.recovering => fs'.at = "drop") /\ (~fs.recovering => fs'.at = "failed")
      /\ fs'.step = fs.step /\ fs'.recovering = fs.recovering
  BY <1>1 DEF FsError, Proceed, Fails, AfterCleanup, RunHelper, HelperSucceeded, Types, FsType, FsOK
<1>3. ~InCase' /\ fs.at \notin Ended /\ fs'.at # "result"
  BY <1>1, <1>2 DEF InCase, FsWorking, FsSteps, Ended, FsHold, FsPlaced
<1> QED BY <1>3, SqlLeaves DEF SqlCase

\* What a validation that succeeds records.
LEMMA VerifiedPoints ==
  ASSUME SqlType, SqliteVerified
  PROVE  /\ SqlOK(sql')
         /\ sql'.validations = sql.validations + 1 /\ sql'.stops = sql.stops
         /\ sql'.restarting <=> sql.restarting \/ sql.validations = 0
         /\ sql'.closing <=> sql.closing \/ sql.validations = 1
         /\ sql'.before.block = None /\ sql'.before.ledger = None
         /\ sql'.last.block = io.kernel /\ sql'.last.ledger = io.ledger
         /\ sql'.origin = sql.origin /\ sql'.firstEnd = sql.firstEnd /\ sql'.preStop = sql.preStop
         /\ sql'.phases.block = sql.phases.block + (io.kernel - sql.before.block)
         /\ sql'.phases.ledger = sql.phases.ledger + (io.ledger - sql.before.ledger)
         /\ sql'.final = sql.final
<1> DEFINE r == RecordPhase(sql.before, Point)
           p == [block |-> sql.phases.block + (io.kernel - sql.before.block),
                 ledger |-> sql.phases.ledger + (io.ledger - sql.before.ledger)]
           n == r.validations + 1
           b == (r.restarting \/ sql.validations = 0)
           c == (r.closing \/ sql.validations = 1)
<1>1. r = [sql EXCEPT !.phases = p, !.last = Point]
  BY DEF RecordPhase, Insert, Delta, Point
<1>2. p \in [block: Int, ledger: Int]
  BY SqlNumbers
<1>3. /\ p.block = sql.phases.block + (io.kernel - sql.before.block)
      /\ p.ledger = sql.phases.ledger + (io.ledger - sql.before.ledger)
  OBVIOUS
<1>4. sql' = [r EXCEPT !.before = NoPoint, !.validations = n, !.restarting = b, !.closing = c]
  BY DEF SqliteVerified
<1> HIDE DEF p, r
<1>5. /\ SqlOK(r) /\ r.validations = sql.validations /\ r.stops = sql.stops
      /\ r.restarting = sql.restarting /\ r.closing = sql.closing
      /\ r.last = Point /\ r.origin = sql.origin /\ r.firstEnd = sql.firstEnd
      /\ r.preStop = sql.preStop /\ r.phases = p /\ r.final = sql.final
  BY <1>1, <1>2, SqlValues DEF SqlType, SqlOK
<1>6. n \in Nat /\ n = sql.validations + 1
  BY <1>5 DEF SqlOK
<1>7. b \in BOOLEAN /\ c \in BOOLEAN
  BY Zenon
<1>8. (b <=> sql.restarting \/ sql.validations = 0) /\ (c <=> sql.closing \/ sql.validations = 1)
  BY <1>5
<1> HIDE DEF n, b, c
<1>9. /\ SqlOK(sql')
      /\ sql'.validations = n /\ sql'.stops = r.stops
      /\ sql'.restarting = b /\ sql'.closing = c
      /\ sql'.before = NoPoint /\ sql'.last = r.last
      /\ sql'.origin = r.origin /\ sql'.firstEnd = r.firstEnd /\ sql'.preStop = r.preStop
      /\ sql'.phases = r.phases /\ sql'.final = r.final
  BY <1>4, <1>5, <1>6, <1>7, SqlValues DEF SqlOK
<1> QED BY <1>3, <1>5, <1>6, <1>8, <1>9, SqlValues

\* SqliteFormat keeps the accounting of the case.
LEMMA SqliteFormatMeasured ==
  ASSUME Types, FsHold, SqlCase, NEW done \in BOOLEAN, NEW clean \in BOOLEAN, SqliteFormat(done,
         clean)
  PROVE  SqlCase'
<1>1. CASE done
  <2>1. fs.at = "script" /\ fs.step \in 1..18 /\ ScriptStep
    BY <1>1, InScript DEF SqliteFormat, FsFormat, Step, FsHold, ScriptStep, RemoveFixture
  <2>2. fs.at = "script" /\ ScriptStep /\ (fs.step = 1)
    BY <2>1, <1>1, StepNumbers DEF SqliteFormat, FsFormat, Step, RemoveFixture
  <2>3. /\ fs'.at = "script"
        /\ fs'.step = fs.step + 1 /\ fs'.recovering = fs.recovering
    BY <2>2, <1>1 DEF SqliteFormat, FsFormat, Proceed, Fails, AfterCleanup, RunHelper,
       HelperSucceeded, Types, FsType, FsOK, ScriptStep
  <2>4. InCase /\ SqlCounts /\ SqlFirst /\ SqlPoints /\ SqlRestart /\ SqlStops
    BY <2>2 DEF InCase, FsWorking, FsSteps, SqlCase, SqlPlaced, ScriptStep
  <2>5. SqlType /\ SqlBounds
    BY DEF SqlCase
  <2>6. 1 \in 0..MaxIo
    BY MaxIoAssumption
  <2>7. io' = [io EXCEPT !.ledger = 1, !.clean = clean]
    BY <1>1 DEF SqliteFormat, FsFormat
  <2>8. /\ io'.ledger = 1 /\ io'.kernel = io.kernel /\ io'.daemon = io.daemon /\ io'.past = io.past
    BY <2>7, <2>5 DEF SqlType, IoOK, NoIo
  <2>9. IoOK(io')
    BY <2>7, <2>5, <2>6 DEF SqlType, IoOK
  <2>10. sql' = sql
    BY <1>1 DEF SqliteFormat, FsFormat, sqliteVars
  <2>11. SqlOK(sql')
    BY <2>10, <2>5 DEF SqlType
  <2>12. SqlType'
    BY <2>9, <2>11 DEF SqlType
  <2>13. SqlBounds'
    BY <2>2, <2>3, <2>8, <2>10, <2>4, <2>6, <2>5, SqlNumbers, <1>1, MaxIoAssumption
       DEF SqlBounds, Accounted, Ended, None, SqlCounts, SqlFirst, SqlPoints, SqlRestart, SqlStops,
       InFiles, Stopping, Measured
  <2>14. SqlCounts'
    BY <2>2, <2>3, <2>8, <2>10, <2>4, <2>6, <2>5, SqlNumbers, <1>1
       DEF SqlCounts, SqlFirst, SqlPoints, SqlRestart, SqlStops, InFiles, Stopping, Measured,
       Accounted, None, SqlBounds
  <2>15. SqlFirst'
    BY <2>2, <2>3, <2>8, <2>10, <2>4, <2>6, <2>5, SqlNumbers, <1>1
       DEF SqlCounts, SqlFirst, SqlPoints, SqlRestart, SqlStops, InFiles, Stopping, Measured,
       Accounted, None, SqlBounds
  <2>16. SqlPoints'
    BY <2>2, <2>3, <2>8, <2>10, <2>4, <2>6, <2>5, SqlNumbers, <1>1
       DEF SqlCounts, SqlFirst, SqlPoints, SqlRestart, SqlStops, InFiles, Stopping, Measured,
       Accounted, None, SqlBounds
  <2>17. SqlRestart'
    BY <2>2, <2>3, <2>8, <2>10, <2>4, <2>6, <2>5, SqlNumbers, <1>1
       DEF SqlCounts, SqlFirst, SqlPoints, SqlRestart, SqlStops, InFiles, Stopping, Measured,
       Accounted, None, SqlBounds
  <2>18. SqlStops'
    BY <2>2, <2>3, <2>8, <2>10, <2>4, <2>6, <2>5, SqlNumbers, <1>1
       DEF SqlCounts, SqlFirst, SqlPoints, SqlRestart, SqlStops, InFiles, Stopping, Measured,
       Accounted, None, SqlBounds
  <2>19. fs'.at # "result"
    BY <2>3
  <2> QED BY <2>13, <2>12, <2>19, <2>14, <2>15, <2>16, <2>17, <2>18 DEF SqlCase, SqlPlaced, SqlDone
<1>2. CASE ~done
  <2>1. fs.at = "script" /\ fs.step \in 1..18 /\ ScriptStep
    BY <1>2, InScript DEF SqliteFormat, FsFormat, Step, FsHold, ScriptStep, RemoveFixture
  <2>2. fs.at = "script" /\ ScriptStep /\ (fs.step = 1)
    BY <2>1, <1>2, StepNumbers DEF SqliteFormat, FsFormat, Step, RemoveFixture
  <2>3. /\ (fs.recovering => fs'.at = "drop") /\ (~fs.recovering => fs'.at = "failed")
        /\ fs'.step = fs.step /\ fs'.recovering = fs.recovering
    BY <2>2, <1>2 DEF SqliteFormat, FsFormat, Proceed, Fails, AfterCleanup, RunHelper,
       HelperSucceeded, Types, FsType, FsOK, ScriptStep
  <2>4. InCase /\ SqlCounts /\ SqlFirst /\ SqlPoints /\ SqlRestart /\ SqlStops
    BY <2>2 DEF InCase, FsWorking, FsSteps, SqlCase, SqlPlaced, ScriptStep
  <2>5. SqlType /\ SqlBounds
    BY DEF SqlCase
  <2>6. 1 \in 0..MaxIo
    BY MaxIoAssumption
  <2>7. io' = [io EXCEPT !.ledger = 1, !.clean = clean]
    BY <1>2 DEF SqliteFormat, FsFormat
  <2>8. /\ io'.ledger = 1 /\ io'.kernel = io.kernel /\ io'.daemon = io.daemon /\ io'.past = io.past
    BY <2>7, <2>5 DEF SqlType, IoOK, NoIo
  <2>9. IoOK(io')
    BY <2>7, <2>5, <2>6 DEF SqlType, IoOK
  <2>10. sql' = sql
    BY <1>2 DEF SqliteFormat, FsFormat, sqliteVars
  <2>11. SqlOK(sql')
    BY <2>10, <2>5 DEF SqlType
  <2>12. SqlType'
    BY <2>9, <2>11 DEF SqlType
  <2>13. SqlBounds'
    BY <2>2, <2>3, <2>8, <2>10, <2>4, <2>6, <2>5, SqlNumbers, <1>2, MaxIoAssumption
       DEF SqlBounds, Accounted, Ended, None, SqlCounts, SqlFirst, SqlPoints, SqlRestart, SqlStops,
       InFiles, Stopping, Measured
  <2>14. ~InCase' /\ fs'.at # "result"
    BY <2>2, <2>3 DEF InCase, FsWorking, FsSteps, FsHold, FsPlaced
  <2> QED BY <2>14, <2>13, <2>12 DEF SqlCase, SqlPlaced, SqlDone
<1> QED BY <1>1, <1>2

\* SqliteStart keeps the accounting of the case.
LEMMA SqliteStartMeasured ==
  ASSUME Types, FsHold, SqlCase, SqliteStart
  PROVE  SqlCase'
<1>1. fs.at = "script" /\ fs.step \in 1..18 /\ ScriptStep
  BY InScript DEF SqliteStart, FsStart, Step, FsHold, ScriptStep, RemoveFixture
<1>2. fs.at = "script" /\ ScriptStep /\ (fs.step \in {2, 11})
  BY <1>1, StepNumbers DEF SqliteStart, FsStart, Step, RemoveFixture
<1>3. /\ fs'.at = "ready"
      /\ fs'.step = fs.step /\ fs'.recovering = fs.recovering
  BY <1>2 DEF SqliteStart, FsStart, Proceed, Fails, AfterCleanup, RunHelper, HelperSucceeded, Types,
     FsType, FsOK, ScriptStep
<1>4. InCase /\ SqlCounts /\ SqlFirst /\ SqlPoints /\ SqlRestart /\ SqlStops
  BY <1>2 DEF InCase, FsWorking, FsSteps, SqlCase, SqlPlaced, ScriptStep
<1>5. SqlType /\ SqlBounds
  BY DEF SqlCase
<1>6. 0 \in 0..MaxIo /\ io.past + io.daemon \in 0..MaxIo
  BY <1>2, <1>4, <1>5, SqlValues, MaxIoAssumption DEF SqlBounds
<1>7. io' = [io EXCEPT !.past = @ + io.daemon, !.kernel = 0, !.daemon = 0]
  BY DEF SqliteStart, FsStart
<1>8. /\ io'.past = io.past + io.daemon /\ io'.kernel = 0 /\ io'.daemon = 0 /\
           io'.ledger = io.ledger
  BY <1>7, <1>5 DEF SqlType, IoOK, NoIo
<1>9. IoOK(io')
  BY <1>7, <1>5, <1>6 DEF SqlType, IoOK
<1>10. sql' = [sql EXCEPT !.outputs = TRUE]
  BY <1>2, <1>6, <1>4 DEF SqliteStart, FsStart, Insert, Delta, RecordPhase
<1>11. SqlOK(sql')
  BY <1>10, NewCaseOK, <1>5, SqlValues, <1>6 DEF SqlType, SqlOK
<1>12. /\ sql'.validations = sql.validations
      /\ sql'.stops = sql.stops
      /\ sql'.restarting = sql.restarting
      /\ sql'.closing = sql.closing
      /\ sql'.before = sql.before
      /\ sql'.last = sql.last
      /\ sql'.origin = sql.origin
      /\ sql'.firstEnd = sql.firstEnd
      /\ sql'.preStop = sql.preStop
      /\ sql'.phases = sql.phases
      /\ sql'.final = sql.final
  BY <1>10, <1>5, SqlValues, <1>6 DEF SqlType, SqlOK, NewCase
<1>13. SqlType'
  BY <1>9, <1>11 DEF SqlType
<1>14. SqlBounds'
  BY <1>2, <1>3, <1>8, <1>12, <1>4, <1>6, <1>5, SqlNumbers, MaxIoAssumption
     DEF SqlBounds, Accounted, Ended, None, SqlCounts, SqlFirst, SqlPoints, SqlRestart, SqlStops,
     InFiles, Stopping, Measured
<1>15. SqlCounts'
  BY <1>2, <1>3, <1>8, <1>12, <1>4, <1>6, <1>5, SqlNumbers
     DEF SqlCounts, SqlFirst, SqlPoints, SqlRestart, SqlStops, InFiles, Stopping, Measured,
     Accounted, None, SqlBounds
<1>16. SqlFirst'
  BY <1>2, <1>3, <1>8, <1>12, <1>4, <1>6, <1>5, SqlNumbers
     DEF SqlCounts, SqlFirst, SqlPoints, SqlRestart, SqlStops, InFiles, Stopping, Measured,
     Accounted, None, SqlBounds
<1>17. SqlPoints'
  BY <1>2, <1>3, <1>8, <1>12, <1>4, <1>6, <1>5, SqlNumbers
     DEF SqlCounts, SqlFirst, SqlPoints, SqlRestart, SqlStops, InFiles, Stopping, Measured,
     Accounted, None, SqlBounds
<1>18. SqlRestart'
  BY <1>2, <1>3, <1>8, <1>12, <1>4, <1>6, <1>5, SqlNumbers
     DEF SqlCounts, SqlFirst, SqlPoints, SqlRestart, SqlStops, InFiles, Stopping, Measured,
     Accounted, None, SqlBounds
<1>19. SqlStops'
  BY <1>2, <1>3, <1>8, <1>12, <1>4, <1>6, <1>5, SqlNumbers
     DEF SqlCounts, SqlFirst, SqlPoints, SqlRestart, SqlStops, InFiles, Stopping, Measured,
     Accounted, None, SqlBounds
<1>20. fs'.at # "result"
  BY <1>3
<1> QED BY <1>14, <1>13, <1>20, <1>15, <1>16, <1>17, <1>18, <1>19 DEF SqlCase, SqlPlaced, SqlDone

\* SqliteMounted keeps the accounting of the case.
LEMMA SqliteMountedMeasured ==
  ASSUME Types, FsHold, SqlCase, NEW verified \in BOOLEAN, NEW taken \in BOOLEAN,
         SqliteMounted(verified, taken)
  PROVE  SqlCase'
<1>1. CASE verified /\ ~sql.restarting
  <2>1. fs.at = "mounting" /\ ~fs.recovering /\ fs.step \in {5, 13}
    BY <1>1 DEF SqliteMounted, FsMounted, HelperSucceeded, Step, FsHold, FsPlaced, FsWorking,
       FsSteps
  <2>2. /\ fs'.at = "script"
        /\ fs'.step = fs.step + 1 /\ fs'.recovering = fs.recovering
    BY <2>1, <1>1 DEF SqliteMounted, FsMounted, Proceed, Fails, AfterCleanup, RunHelper,
       HelperSucceeded, Types, FsType, FsOK
  <2>3. InCase /\ SqlCounts /\ SqlFirst /\ SqlPoints /\ SqlRestart /\ SqlStops
    BY <2>1 DEF InCase, FsWorking, FsSteps, SqlCase, SqlPlaced, ScriptStep
  <2>4. SqlType /\ SqlBounds
    BY DEF SqlCase
  <2>5. io' = io
    BY <1>1 DEF SqliteMounted, FsMounted, sqliteVars
  <2>6. IoOK(io')
    BY <2>5, <2>4 DEF SqlType
  <2>7. sql' = sql
    BY <1>1 DEF SqliteMounted, FsMounted, sqliteVars
  <2>8. SqlOK(sql')
    BY <2>7, <2>4 DEF SqlType
  <2>9. SqlType'
    BY <2>6, <2>8 DEF SqlType
  <2>10. SqlBounds'
    BY <2>1, <2>2, <2>5, <2>7, <2>3, <2>4, SqlNumbers, <1>1, MaxIoAssumption
       DEF SqlBounds, Accounted, Ended, None, SqlCounts, SqlFirst, SqlPoints, SqlRestart, SqlStops,
       InFiles, Stopping, Measured
  <2>11. SqlCounts'
    BY <2>1, <2>2, <2>5, <2>7, <2>3, <2>4, SqlNumbers, <1>1
       DEF SqlCounts, SqlFirst, SqlPoints, SqlRestart, SqlStops, InFiles, Stopping, Measured,
       Accounted, None, SqlBounds
  <2>12. SqlFirst'
    BY <2>1, <2>2, <2>5, <2>7, <2>3, <2>4, SqlNumbers, <1>1
       DEF SqlCounts, SqlFirst, SqlPoints, SqlRestart, SqlStops, InFiles, Stopping, Measured,
       Accounted, None, SqlBounds
  <2>13. SqlPoints'
    BY <2>1, <2>2, <2>5, <2>7, <2>3, <2>4, SqlNumbers, <1>1
       DEF SqlCounts, SqlFirst, SqlPoints, SqlRestart, SqlStops, InFiles, Stopping, Measured,
       Accounted, None, SqlBounds
  <2>14. SqlRestart'
    BY <2>1, <2>2, <2>5, <2>7, <2>3, <2>4, SqlNumbers, <1>1
       DEF SqlCounts, SqlFirst, SqlPoints, SqlRestart, SqlStops, InFiles, Stopping, Measured,
       Accounted, None, SqlBounds
  <2>15. SqlStops'
    BY <2>1, <2>2, <2>5, <2>7, <2>3, <2>4, SqlNumbers, <1>1
       DEF SqlCounts, SqlFirst, SqlPoints, SqlRestart, SqlStops, InFiles, Stopping, Measured,
       Accounted, None, SqlBounds
  <2>16. fs'.at # "result"
    BY <2>2
  <2> QED BY <2>10, <2>9, <2>16, <2>11, <2>12, <2>13, <2>14, <2>15 DEF SqlCase, SqlPlaced, SqlDone
<1>2. CASE verified /\ sql.restarting
  <2>1. fs.at = "mounting" /\ ~fs.recovering /\ fs.step \in {5, 13}
    BY <1>2 DEF SqliteMounted, FsMounted, HelperSucceeded, Step, FsHold, FsPlaced, FsWorking,
       FsSteps
  <2>2. /\ fs'.at = "script"
        /\ fs'.step = fs.step + 1 /\ fs'.recovering = fs.recovering
    BY <2>1, <1>2 DEF SqliteMounted, FsMounted, Proceed, Fails, AfterCleanup, RunHelper,
       HelperSucceeded, Types, FsType, FsOK
  <2>3. InCase /\ SqlCounts /\ SqlFirst /\ SqlPoints /\ SqlRestart /\ SqlStops
    BY <2>1 DEF InCase, FsWorking, FsSteps, SqlCase, SqlPlaced, ScriptStep
  <2>4. SqlType /\ SqlBounds
    BY DEF SqlCase
  <2>5. io' = io
    BY <1>2 DEF SqliteMounted, FsMounted, sqliteVars
  <2>6. IoOK(io')
    BY <2>5, <2>4 DEF SqlType
  <2>7. sql' = [sql EXCEPT !.restarting = FALSE, !.origin = NoPoint, !.firstEnd = NoPoint,
          !.last = Point,
              !.phases = [block |-> sql.phases.block + ((sql.firstEnd.block - sql.origin.block) +
                io.kernel), ledger |-> sql.phases.ledger + (io.ledger - sql.origin.ledger)]]
    BY <1>2, <2>1, <2>3 DEF SqliteMounted, FsMounted, AfterRemount, Insert, RestartDelta, Point
  <2>8. [block |-> sql.phases.block + ((sql.firstEnd.block - sql.origin.block) + io.kernel),
          ledger |-> sql.phases.ledger + (io.ledger - sql.origin.ledger)] \in [block: Int,
          ledger: Int]
    BY <2>4, SqlNumbers
  <2>9. SqlOK(sql')
    BY <2>7, NewCaseOK, <2>4, SqlValues, <2>8 DEF SqlType, SqlOK
  <2>10. /\ sql'.validations = sql.validations
        /\ sql'.stops = sql.stops
        /\ sql'.restarting = FALSE
        /\ sql'.closing = sql.closing
        /\ sql'.before = sql.before
        /\ sql'.last.block = io.kernel /\ sql'.last.ledger = io.ledger
        /\ sql'.origin.block = None /\ sql'.origin.ledger = None
        /\ sql'.firstEnd.block = None /\ sql'.firstEnd.ledger = None
        /\ sql'.preStop = sql.preStop
        /\ sql'.phases.block = sql.phases.block + ((sql.firstEnd.block - sql.origin.block) +
             io.kernel) /\ sql'.phases.ledger = sql.phases.ledger + (io.ledger - sql.origin.ledger)
        /\ sql'.final = sql.final
    BY <2>7, <2>4, SqlValues, <2>8 DEF SqlType, SqlOK, NewCase
  <2>11. SqlType'
    BY <2>6, <2>9 DEF SqlType
  <2>12. SqlBounds'
    BY <2>1, <2>2, <2>5, <2>10, <2>3, <2>8, <2>4, SqlNumbers, <1>2, MaxIoAssumption
       DEF SqlBounds, Accounted, Ended, None, SqlCounts, SqlFirst, SqlPoints, SqlRestart, SqlStops,
       InFiles, Stopping, Measured
  <2>13. SqlCounts'
    BY <2>1, <2>2, <2>5, <2>10, <2>3, <2>8, <2>4, SqlNumbers, <1>2
       DEF SqlCounts, SqlFirst, SqlPoints, SqlRestart, SqlStops, InFiles, Stopping, Measured,
       Accounted, None, SqlBounds
  <2>14. SqlFirst'
    BY <2>1, <2>2, <2>5, <2>10, <2>3, <2>8, <2>4, SqlNumbers, <1>2
       DEF SqlCounts, SqlFirst, SqlPoints, SqlRestart, SqlStops, InFiles, Stopping, Measured,
       Accounted, None, SqlBounds
  <2>15. SqlPoints'
    BY <2>1, <2>2, <2>5, <2>10, <2>3, <2>8, <2>4, SqlNumbers, <1>2
       DEF SqlCounts, SqlFirst, SqlPoints, SqlRestart, SqlStops, InFiles, Stopping, Measured,
       Accounted, None, SqlBounds
  <2>16. SqlRestart'
    BY <2>1, <2>2, <2>5, <2>10, <2>3, <2>8, <2>4, SqlNumbers, <1>2
       DEF SqlCounts, SqlFirst, SqlPoints, SqlRestart, SqlStops, InFiles, Stopping, Measured,
       Accounted, None, SqlBounds
  <2>17. SqlStops'
    BY <2>1, <2>2, <2>5, <2>10, <2>3, <2>8, <2>4, SqlNumbers, <1>2
       DEF SqlCounts, SqlFirst, SqlPoints, SqlRestart, SqlStops, InFiles, Stopping, Measured,
       Accounted, None, SqlBounds
  <2>18. fs'.at # "result"
    BY <2>2
  <2> QED BY <2>12, <2>11, <2>18, <2>13, <2>14, <2>15, <2>16, <2>17 DEF SqlCase, SqlPlaced, SqlDone
<1>3. CASE ~verified
  <2>1. fs.at = "mounting"
    BY <1>3 DEF SqliteMounted, FsMounted, HelperSucceeded, Step, FsHold, FsPlaced, FsWorking,
       FsSteps
  <2>2. /\ (fs.recovering => fs'.at = "drop") /\ (~fs.recovering => fs'.at = "failed")
        /\ fs'.step = fs.step /\ fs'.recovering = fs.recovering
    BY <2>1, <1>3 DEF SqliteMounted, FsMounted, Proceed, Fails, AfterCleanup, RunHelper,
       HelperSucceeded, Types, FsType, FsOK
  <2>3. SqlType /\ SqlBounds
    BY DEF SqlCase
  <2>4. io' = io
    BY <1>3 DEF SqliteMounted, FsMounted, sqliteVars
  <2>5. IoOK(io')
    BY <2>4, <2>3 DEF SqlType
  <2>6. \/ sql' = sql
        \/ sql' = [sql EXCEPT !.restarting = FALSE, !.origin = NoPoint, !.firstEnd = NoPoint]
    BY <1>3 DEF SqliteMounted
  <2>7. /\ SqlOK(sql')
        /\ sql'.phases = sql.phases /\ sql'.preStop = sql.preStop /\ sql'.final = sql.final
        /\ sql'.closing = sql.closing /\ sql'.last = sql.last
    BY <2>3, <2>6, SqlValues DEF SqlType, SqlOK
  <2>8. SqlType'
    BY <2>5, <2>7 DEF SqlType
  <2>9. SqlBounds'
    BY <2>1, <2>3, <2>4, <2>7 DEF SqlBounds, Accounted, Ended
  <2>10. ~InCase' /\ fs'.at # "result"
    BY <2>1, <2>2 DEF InCase, FsWorking, FsSteps, FsHold, FsPlaced
  <2> QED BY <2>10, <2>9, <2>8 DEF SqlCase, SqlPlaced, SqlDone
<1> QED BY <1>1, <1>2, <1>3

\* SqlitePreflight keeps the accounting of the case.
LEMMA SqlitePreflightMeasured ==
  ASSUME Types, FsHold, SqlCase, NEW done \in BOOLEAN, NEW reaped \in BOOLEAN, SqlitePreflight(done,
         reaped)
  PROVE  SqlCase'
<1>1. CASE done
  <2>1. fs.at = "preflight" /\ ~fs.recovering /\ fs.step = 1
    BY <1>1 DEF SqlitePreflight, HelperSucceeded, Step, FsHold, FsPlaced, FsWorking, FsSteps
  <2>2. /\ fs'.at = "script"
        /\ fs'.step = fs.step /\ fs'.recovering = fs.recovering
    BY <2>1, <1>1 DEF SqlitePreflight, Proceed, Fails, AfterCleanup, RunHelper, HelperSucceeded,
       Types, FsType, FsOK
  <2>3. InCase /\ SqlCounts /\ SqlFirst /\ SqlPoints /\ SqlRestart /\ SqlStops
    BY <2>1 DEF InCase, FsWorking, FsSteps, SqlCase, SqlPlaced, ScriptStep
  <2>4. SqlType /\ SqlBounds
    BY DEF SqlCase
  <2>5. io' = io
    BY <1>1 DEF SqlitePreflight, sqliteVars
  <2>6. IoOK(io')
    BY <2>5, <2>4 DEF SqlType
  <2>7. sql' = sql
    BY <1>1 DEF SqlitePreflight, sqliteVars
  <2>8. SqlOK(sql')
    BY <2>7, <2>4 DEF SqlType
  <2>9. SqlType'
    BY <2>6, <2>8 DEF SqlType
  <2>10. SqlBounds'
    BY <2>1, <2>2, <2>5, <2>7, <2>3, <2>4, SqlNumbers, <1>1, MaxIoAssumption
       DEF SqlBounds, Accounted, Ended, None, SqlCounts, SqlFirst, SqlPoints, SqlRestart, SqlStops,
       InFiles, Stopping, Measured
  <2>11. SqlCounts'
    BY <2>1, <2>2, <2>5, <2>7, <2>3, <2>4, SqlNumbers, <1>1
       DEF SqlCounts, SqlFirst, SqlPoints, SqlRestart, SqlStops, InFiles, Stopping, Measured,
       Accounted, None, SqlBounds
  <2>12. SqlFirst'
    BY <2>1, <2>2, <2>5, <2>7, <2>3, <2>4, SqlNumbers, <1>1
       DEF SqlCounts, SqlFirst, SqlPoints, SqlRestart, SqlStops, InFiles, Stopping, Measured,
       Accounted, None, SqlBounds
  <2>13. SqlPoints'
    BY <2>1, <2>2, <2>5, <2>7, <2>3, <2>4, SqlNumbers, <1>1
       DEF SqlCounts, SqlFirst, SqlPoints, SqlRestart, SqlStops, InFiles, Stopping, Measured,
       Accounted, None, SqlBounds
  <2>14. SqlRestart'
    BY <2>1, <2>2, <2>5, <2>7, <2>3, <2>4, SqlNumbers, <1>1
       DEF SqlCounts, SqlFirst, SqlPoints, SqlRestart, SqlStops, InFiles, Stopping, Measured,
       Accounted, None, SqlBounds
  <2>15. SqlStops'
    BY <2>1, <2>2, <2>5, <2>7, <2>3, <2>4, SqlNumbers, <1>1
       DEF SqlCounts, SqlFirst, SqlPoints, SqlRestart, SqlStops, InFiles, Stopping, Measured,
       Accounted, None, SqlBounds
  <2>16. fs'.at # "result"
    BY <2>2
  <2> QED BY <2>10, <2>9, <2>16, <2>11, <2>12, <2>13, <2>14, <2>15 DEF SqlCase, SqlPlaced, SqlDone
<1>2. CASE ~done
  <2>1. fs.at = "preflight"
    BY <1>2 DEF SqlitePreflight, HelperSucceeded, Step, FsHold, FsPlaced, FsWorking, FsSteps
  <2>2. /\ (fs.recovering => fs'.at = "drop") /\ (~fs.recovering => fs'.at = "failed")
        /\ fs'.step = fs.step /\ fs'.recovering = fs.recovering
    BY <2>1, <1>2 DEF SqlitePreflight, Proceed, Fails, AfterCleanup, RunHelper, HelperSucceeded,
       Types, FsType, FsOK
  <2>3. SqlType /\ SqlBounds
    BY DEF SqlCase
  <2>4. io' = io
    BY <1>2 DEF SqlitePreflight, sqliteVars
  <2>5. IoOK(io')
    BY <2>4, <2>3 DEF SqlType
  <2>6. sql' = sql
    BY <1>2 DEF SqlitePreflight, sqliteVars
  <2>7. SqlOK(sql')
    BY <2>6, <2>3 DEF SqlType
  <2>8. SqlType'
    BY <2>5, <2>7 DEF SqlType
  <2>9. SqlBounds'
    BY <2>1, <2>2, <2>4, <2>6, <2>3, SqlNumbers, <1>2, MaxIoAssumption
       DEF SqlBounds, Accounted, Ended, None, SqlCounts, SqlFirst, SqlPoints, SqlRestart, SqlStops,
       InFiles, Stopping, Measured
  <2>10. ~InCase' /\ fs'.at # "result"
    BY <2>1, <2>2 DEF InCase, FsWorking, FsSteps, FsHold, FsPlaced
  <2> QED BY <2>10, <2>9, <2>8 DEF SqlCase, SqlPlaced, SqlDone
<1> QED BY <1>1, <1>2

\* SqliteSetup keeps the accounting of the case.
LEMMA SqliteSetupMeasured ==
  ASSUME Types, FsHold, SqlCase, NEW speedtest \in BOOLEAN, SqliteSetup(speedtest)
  PROVE  SqlCase'
<1>1. fs.at = "script" /\ fs.step \in 1..18 /\ ScriptStep
  BY InScript DEF SqliteSetup, Step, FsHold, ScriptStep, RemoveFixture
<1>2. fs.at = "script" /\ ScriptStep /\ (fs.step = 6)
  BY <1>1, StepNumbers DEF SqliteSetup, Step, RemoveFixture
<1>3. /\ fs'.at \in {"workload", "initialize"}
      /\ fs'.step = fs.step /\ fs'.recovering = fs.recovering
  BY <1>2 DEF SqliteSetup, Proceed, Fails, AfterCleanup, RunHelper, HelperSucceeded, Types, FsType,
     FsOK, ScriptStep
<1>4. InCase /\ SqlCounts /\ SqlFirst /\ SqlPoints /\ SqlRestart /\ SqlStops
  BY <1>2 DEF InCase, FsWorking, FsSteps, SqlCase, SqlPlaced, ScriptStep
<1>5. SqlType /\ SqlBounds
  BY DEF SqlCase
<1>6. io' = io
  BY DEF SqliteSetup, sqliteVars
<1>7. IoOK(io')
  BY <1>6, <1>5 DEF SqlType
<1>8. sql' = [sql EXCEPT !.setup = FALSE, !.before = Point,
        !.phases = [block |-> sql.phases.block + io.kernel,
        ledger |-> sql.phases.ledger + io.ledger]]
  BY <1>2, <1>4 DEF SqliteSetup, Insert, Point
<1>9. [block |-> sql.phases.block + io.kernel, ledger |-> sql.phases.ledger + io.ledger]
        \in [block: Int, ledger: Int]
  BY <1>5, SqlNumbers
<1>10. SqlOK(sql')
  BY <1>8, NewCaseOK, <1>5, SqlValues, <1>9 DEF SqlType, SqlOK
<1>11. /\ sql'.validations = sql.validations
      /\ sql'.stops = sql.stops
      /\ sql'.restarting = sql.restarting
      /\ sql'.closing = sql.closing
      /\ sql'.before.block = io.kernel /\ sql'.before.ledger = io.ledger
      /\ sql'.last = sql.last
      /\ sql'.origin = sql.origin
      /\ sql'.firstEnd = sql.firstEnd
      /\ sql'.preStop = sql.preStop
      /\ sql'.phases.block = sql.phases.block + io.kernel /\
           sql'.phases.ledger = sql.phases.ledger + io.ledger
      /\ sql'.final = sql.final
  BY <1>8, <1>5, SqlValues, <1>9 DEF SqlType, SqlOK, NewCase
<1>12. SqlType'
  BY <1>7, <1>10 DEF SqlType
<1>13. SqlBounds'
  BY <1>2, <1>3, <1>6, <1>11, <1>4, <1>9, <1>5, SqlNumbers, MaxIoAssumption
     DEF SqlBounds, Accounted, Ended, None, SqlCounts, SqlFirst, SqlPoints, SqlRestart, SqlStops,
     InFiles, Stopping, Measured
<1>14. SqlCounts'
  BY <1>2, <1>3, <1>6, <1>11, <1>4, <1>9, <1>5, SqlNumbers
     DEF SqlCounts, SqlFirst, SqlPoints, SqlRestart, SqlStops, InFiles, Stopping, Measured,
     Accounted, None, SqlBounds
<1>15. SqlFirst'
  BY <1>2, <1>3, <1>6, <1>11, <1>4, <1>9, <1>5, SqlNumbers
     DEF SqlCounts, SqlFirst, SqlPoints, SqlRestart, SqlStops, InFiles, Stopping, Measured,
     Accounted, None, SqlBounds
<1>16. SqlPoints'
  BY <1>2, <1>3, <1>6, <1>11, <1>4, <1>9, <1>5, SqlNumbers
     DEF SqlCounts, SqlFirst, SqlPoints, SqlRestart, SqlStops, InFiles, Stopping, Measured,
     Accounted, None, SqlBounds
<1>17. SqlRestart'
  BY <1>2, <1>3, <1>6, <1>11, <1>4, <1>9, <1>5, SqlNumbers
     DEF SqlCounts, SqlFirst, SqlPoints, SqlRestart, SqlStops, InFiles, Stopping, Measured,
     Accounted, None, SqlBounds
<1>18. SqlStops'
  BY <1>2, <1>3, <1>6, <1>11, <1>4, <1>9, <1>5, SqlNumbers
     DEF SqlCounts, SqlFirst, SqlPoints, SqlRestart, SqlStops, InFiles, Stopping, Measured,
     Accounted, None, SqlBounds
<1>19. fs'.at # "result"
  BY <1>3
<1> QED BY <1>13, <1>12, <1>19, <1>14, <1>15, <1>16, <1>17, <1>18 DEF SqlCase, SqlPlaced, SqlDone

\* SqliteInitialized keeps the accounting of the case.
LEMMA SqliteInitializedMeasured ==
  ASSUME Types, FsHold, SqlCase, SqliteInitialized
  PROVE  SqlCase'
<1>1. fs.at = "initialize" /\ ~fs.recovering /\ fs.step = 6
  BY DEF SqliteInitialized, HelperSucceeded, Step, FsHold, FsPlaced, FsWorking, FsSteps
<1>2. /\ fs'.at = "workload"
      /\ fs'.step = fs.step /\ fs'.recovering = fs.recovering
  BY <1>1 DEF SqliteInitialized, Proceed, Fails, AfterCleanup, RunHelper, HelperSucceeded, Types,
     FsType, FsOK
<1>3. InCase /\ SqlCounts /\ SqlFirst /\ SqlPoints /\ SqlRestart /\ SqlStops
  BY <1>1 DEF InCase, FsWorking, FsSteps, SqlCase, SqlPlaced, ScriptStep
<1>4. SqlType /\ SqlBounds
  BY DEF SqlCase
<1>5. io' = io
  BY DEF SqliteInitialized, sqliteVars
<1>6. IoOK(io')
  BY <1>5, <1>4 DEF SqlType
<1>7. sql' = [sql EXCEPT !.phases = [block |-> sql.phases.block + (io.kernel - sql.before.block),
        ledger |-> sql.phases.ledger + (io.ledger - sql.before.ledger)], !.last = Point,
        !.before = Point]
  BY <1>1, <1>3 DEF SqliteInitialized, RecordPhase, Insert, Delta, Point, SqlType, SqlOK
<1>8. [block |-> sql.phases.block + (io.kernel - sql.before.block),
        ledger |-> sql.phases.ledger + (io.ledger - sql.before.ledger)] \in [block: Int,
        ledger: Int]
  BY <1>4, SqlNumbers
<1>9. SqlOK(sql')
  BY <1>7, NewCaseOK, <1>4, SqlValues, <1>8 DEF SqlType, SqlOK
<1>10. /\ sql'.validations = sql.validations
      /\ sql'.stops = sql.stops
      /\ sql'.restarting = sql.restarting
      /\ sql'.closing = sql.closing
      /\ sql'.before.block = io.kernel /\ sql'.before.ledger = io.ledger
      /\ sql'.last.block = io.kernel /\ sql'.last.ledger = io.ledger
      /\ sql'.origin = sql.origin
      /\ sql'.firstEnd = sql.firstEnd
      /\ sql'.preStop = sql.preStop
      /\ sql'.phases.block = sql.phases.block + (io.kernel - sql.before.block) /\
           sql'.phases.ledger = sql.phases.ledger + (io.ledger - sql.before.ledger)
      /\ sql'.final = sql.final
  BY <1>7, <1>4, SqlValues, <1>8 DEF SqlType, SqlOK, NewCase
<1>11. SqlType'
  BY <1>6, <1>9 DEF SqlType
<1>12. SqlBounds'
  BY <1>1, <1>2, <1>5, <1>10, <1>3, <1>8, <1>4, SqlNumbers, MaxIoAssumption
     DEF SqlBounds, Accounted, Ended, None, SqlCounts, SqlFirst, SqlPoints, SqlRestart, SqlStops,
     InFiles, Stopping, Measured
<1>13. SqlCounts'
  BY <1>1, <1>2, <1>5, <1>10, <1>3, <1>8, <1>4, SqlNumbers
     DEF SqlCounts, SqlFirst, SqlPoints, SqlRestart, SqlStops, InFiles, Stopping, Measured,
     Accounted, None, SqlBounds
<1>14. SqlFirst'
  BY <1>1, <1>2, <1>5, <1>10, <1>3, <1>8, <1>4, SqlNumbers
     DEF SqlCounts, SqlFirst, SqlPoints, SqlRestart, SqlStops, InFiles, Stopping, Measured,
     Accounted, None, SqlBounds
<1>15. SqlPoints'
  BY <1>1, <1>2, <1>5, <1>10, <1>3, <1>8, <1>4, SqlNumbers
     DEF SqlCounts, SqlFirst, SqlPoints, SqlRestart, SqlStops, InFiles, Stopping, Measured,
     Accounted, None, SqlBounds
<1>16. SqlRestart'
  BY <1>1, <1>2, <1>5, <1>10, <1>3, <1>8, <1>4, SqlNumbers
     DEF SqlCounts, SqlFirst, SqlPoints, SqlRestart, SqlStops, InFiles, Stopping, Measured,
     Accounted, None, SqlBounds
<1>17. SqlStops'
  BY <1>1, <1>2, <1>5, <1>10, <1>3, <1>8, <1>4, SqlNumbers
     DEF SqlCounts, SqlFirst, SqlPoints, SqlRestart, SqlStops, InFiles, Stopping, Measured,
     Accounted, None, SqlBounds
<1>18. fs'.at # "result"
  BY <1>2
<1> QED BY <1>12, <1>11, <1>18, <1>13, <1>14, <1>15, <1>16, <1>17 DEF SqlCase, SqlPlaced, SqlDone

\* SqliteDrainStart keeps the accounting of the case.
LEMMA SqliteDrainStartMeasured ==
  ASSUME Types, FsHold, SqlCase, SqliteDrainStart
  PROVE  SqlCase'
<1>1. fs.at = "workload" /\ ~fs.recovering /\ fs.step = 6
  BY DEF SqliteDrainStart, HelperSucceeded, Step, FsHold, FsPlaced, FsWorking, FsSteps
<1>2. /\ fs'.at = "drain"
      /\ fs'.step = fs.step /\ fs'.recovering = fs.recovering
  BY <1>1 DEF SqliteDrainStart, Proceed, Fails, AfterCleanup, RunHelper, HelperSucceeded, Types,
     FsType, FsOK
<1>3. InCase /\ SqlCounts /\ SqlFirst /\ SqlPoints /\ SqlRestart /\ SqlStops
  BY <1>1 DEF InCase, FsWorking, FsSteps, SqlCase, SqlPlaced, ScriptStep
<1>4. SqlType /\ SqlBounds
  BY DEF SqlCase
<1>5. io' = io
  BY DEF SqliteDrainStart, sqliteVars
<1>6. IoOK(io')
  BY <1>5, <1>4 DEF SqlType
<1>7. sql' = [sql EXCEPT !.drain = Point]
  BY <1>1, <1>3 DEF SqliteDrainStart, Insert, Delta, RecordPhase
<1>8. SqlOK(sql')
  BY <1>7, NewCaseOK, <1>4, SqlValues DEF SqlType, SqlOK
<1>9. /\ sql'.validations = sql.validations
      /\ sql'.stops = sql.stops
      /\ sql'.restarting = sql.restarting
      /\ sql'.closing = sql.closing
      /\ sql'.before = sql.before
      /\ sql'.last = sql.last
      /\ sql'.origin = sql.origin
      /\ sql'.firstEnd = sql.firstEnd
      /\ sql'.preStop = sql.preStop
      /\ sql'.phases = sql.phases
      /\ sql'.final = sql.final
  BY <1>7, <1>4, SqlValues DEF SqlType, SqlOK, NewCase
<1>10. SqlType'
  BY <1>6, <1>8 DEF SqlType
<1>11. SqlBounds'
  BY <1>1, <1>2, <1>5, <1>9, <1>3, <1>4, SqlNumbers, MaxIoAssumption
     DEF SqlBounds, Accounted, Ended, None, SqlCounts, SqlFirst, SqlPoints, SqlRestart, SqlStops,
     InFiles, Stopping, Measured
<1>12. SqlCounts'
  BY <1>1, <1>2, <1>5, <1>9, <1>3, <1>4, SqlNumbers
     DEF SqlCounts, SqlFirst, SqlPoints, SqlRestart, SqlStops, InFiles, Stopping, Measured,
     Accounted, None, SqlBounds
<1>13. SqlFirst'
  BY <1>1, <1>2, <1>5, <1>9, <1>3, <1>4, SqlNumbers
     DEF SqlCounts, SqlFirst, SqlPoints, SqlRestart, SqlStops, InFiles, Stopping, Measured,
     Accounted, None, SqlBounds
<1>14. SqlPoints'
  BY <1>1, <1>2, <1>5, <1>9, <1>3, <1>4, SqlNumbers
     DEF SqlCounts, SqlFirst, SqlPoints, SqlRestart, SqlStops, InFiles, Stopping, Measured,
     Accounted, None, SqlBounds
<1>15. SqlRestart'
  BY <1>1, <1>2, <1>5, <1>9, <1>3, <1>4, SqlNumbers
     DEF SqlCounts, SqlFirst, SqlPoints, SqlRestart, SqlStops, InFiles, Stopping, Measured,
     Accounted, None, SqlBounds
<1>16. SqlStops'
  BY <1>1, <1>2, <1>5, <1>9, <1>3, <1>4, SqlNumbers
     DEF SqlCounts, SqlFirst, SqlPoints, SqlRestart, SqlStops, InFiles, Stopping, Measured,
     Accounted, None, SqlBounds
<1>17. fs'.at # "result"
  BY <1>2
<1> QED BY <1>11, <1>10, <1>17, <1>12, <1>13, <1>14, <1>15, <1>16 DEF SqlCase, SqlPlaced, SqlDone

\* SqliteDrainEnd keeps the accounting of the case.
LEMMA SqliteDrainEndMeasured ==
  ASSUME Types, FsHold, SqlCase, SqliteDrainEnd
  PROVE  SqlCase'
<1>1. fs.at = "drain" /\ ~fs.recovering /\ fs.step = 6
  BY DEF SqliteDrainEnd, HelperSucceeded, Step, FsHold, FsPlaced, FsWorking, FsSteps
<1>2. /\ fs'.at = "drained"
      /\ fs'.step = fs.step /\ fs'.recovering = fs.recovering
  BY <1>1 DEF SqliteDrainEnd, Proceed, Fails, AfterCleanup, RunHelper, HelperSucceeded, Types,
     FsType, FsOK
<1>3. InCase /\ SqlCounts /\ SqlFirst /\ SqlPoints /\ SqlRestart /\ SqlStops
  BY <1>1 DEF InCase, FsWorking, FsSteps, SqlCase, SqlPlaced, ScriptStep
<1>4. SqlType /\ SqlBounds
  BY DEF SqlCase
<1>5. io' = io
  BY DEF SqliteDrainEnd, sqliteVars
<1>6. IoOK(io')
  BY <1>5, <1>4 DEF SqlType
<1>7. sql' = [sql EXCEPT !.drain = Point]
  BY <1>1, <1>3 DEF SqliteDrainEnd, Insert, Delta, RecordPhase
<1>8. SqlOK(sql')
  BY <1>7, NewCaseOK, <1>4, SqlValues DEF SqlType, SqlOK
<1>9. /\ sql'.validations = sql.validations
      /\ sql'.stops = sql.stops
      /\ sql'.restarting = sql.restarting
      /\ sql'.closing = sql.closing
      /\ sql'.before = sql.before
      /\ sql'.last = sql.last
      /\ sql'.origin = sql.origin
      /\ sql'.firstEnd = sql.firstEnd
      /\ sql'.preStop = sql.preStop
      /\ sql'.phases = sql.phases
      /\ sql'.final = sql.final
  BY <1>7, <1>4, SqlValues DEF SqlType, SqlOK, NewCase
<1>10. SqlType'
  BY <1>6, <1>8 DEF SqlType
<1>11. SqlBounds'
  BY <1>1, <1>2, <1>5, <1>9, <1>3, <1>4, SqlNumbers, MaxIoAssumption
     DEF SqlBounds, Accounted, Ended, None, SqlCounts, SqlFirst, SqlPoints, SqlRestart, SqlStops,
     InFiles, Stopping, Measured
<1>12. SqlCounts'
  BY <1>1, <1>2, <1>5, <1>9, <1>3, <1>4, SqlNumbers
     DEF SqlCounts, SqlFirst, SqlPoints, SqlRestart, SqlStops, InFiles, Stopping, Measured,
     Accounted, None, SqlBounds
<1>13. SqlFirst'
  BY <1>1, <1>2, <1>5, <1>9, <1>3, <1>4, SqlNumbers
     DEF SqlCounts, SqlFirst, SqlPoints, SqlRestart, SqlStops, InFiles, Stopping, Measured,
     Accounted, None, SqlBounds
<1>14. SqlPoints'
  BY <1>1, <1>2, <1>5, <1>9, <1>3, <1>4, SqlNumbers
     DEF SqlCounts, SqlFirst, SqlPoints, SqlRestart, SqlStops, InFiles, Stopping, Measured,
     Accounted, None, SqlBounds
<1>15. SqlRestart'
  BY <1>1, <1>2, <1>5, <1>9, <1>3, <1>4, SqlNumbers
     DEF SqlCounts, SqlFirst, SqlPoints, SqlRestart, SqlStops, InFiles, Stopping, Measured,
     Accounted, None, SqlBounds
<1>16. SqlStops'
  BY <1>1, <1>2, <1>5, <1>9, <1>3, <1>4, SqlNumbers
     DEF SqlCounts, SqlFirst, SqlPoints, SqlRestart, SqlStops, InFiles, Stopping, Measured,
     Accounted, None, SqlBounds
<1>17. fs'.at # "result"
  BY <1>2
<1> QED BY <1>11, <1>10, <1>17, <1>12, <1>13, <1>14, <1>15, <1>16 DEF SqlCase, SqlPlaced, SqlDone

\* SqliteWorkload keeps the accounting of the case.
LEMMA SqliteWorkloadMeasured ==
  ASSUME Types, FsHold, SqlCase, SqliteWorkload
  PROVE  SqlCase'
<1>1. fs.at = "drained" /\ ~fs.recovering /\ fs.step = 6
  BY DEF SqliteWorkload, HelperSucceeded, Step, FsHold, FsPlaced, FsWorking, FsSteps
<1>2. /\ fs'.at = "script"
      /\ fs'.step = fs.step + 1 /\ fs'.recovering = fs.recovering
  BY <1>1 DEF SqliteWorkload, Proceed, Fails, AfterCleanup, RunHelper, HelperSucceeded, Types,
     FsType, FsOK
<1>3. InCase /\ SqlCounts /\ SqlFirst /\ SqlPoints /\ SqlRestart /\ SqlStops
  BY <1>1 DEF InCase, FsWorking, FsSteps, SqlCase, SqlPlaced, ScriptStep
<1>4. SqlType /\ SqlBounds
  BY DEF SqlCase
<1>5. io' = io
  BY DEF SqliteWorkload, sqliteVars
<1>6. IoOK(io')
  BY <1>5, <1>4 DEF SqlType
<1>7. sql' = [sql EXCEPT !.phases = [block |-> sql.phases.block + (io.kernel - sql.before.block),
        ledger |-> sql.phases.ledger + (io.ledger - sql.before.ledger)], !.last = Point,
        !.before = NoPoint, !.drain = NoPoint]
  BY <1>1, <1>3 DEF SqliteWorkload, RecordPhase, Insert, Delta, Point, SqlType, SqlOK
<1>8. [block |-> sql.phases.block + (io.kernel - sql.before.block),
        ledger |-> sql.phases.ledger + (io.ledger - sql.before.ledger)] \in [block: Int,
        ledger: Int]
  BY <1>4, SqlNumbers
<1>9. SqlOK(sql')
  BY <1>7, NewCaseOK, <1>4, SqlValues, <1>8 DEF SqlType, SqlOK
<1>10. /\ sql'.validations = sql.validations
      /\ sql'.stops = sql.stops
      /\ sql'.restarting = sql.restarting
      /\ sql'.closing = sql.closing
      /\ sql'.before.block = None /\ sql'.before.ledger = None
      /\ sql'.last.block = io.kernel /\ sql'.last.ledger = io.ledger
      /\ sql'.origin = sql.origin
      /\ sql'.firstEnd = sql.firstEnd
      /\ sql'.preStop = sql.preStop
      /\ sql'.phases.block = sql.phases.block + (io.kernel - sql.before.block) /\
           sql'.phases.ledger = sql.phases.ledger + (io.ledger - sql.before.ledger)
      /\ sql'.final = sql.final
  BY <1>7, <1>4, SqlValues, <1>8 DEF SqlType, SqlOK, NewCase
<1>11. SqlType'
  BY <1>6, <1>9 DEF SqlType
<1>12. SqlBounds'
  BY <1>1, <1>2, <1>5, <1>10, <1>3, <1>8, <1>4, SqlNumbers, MaxIoAssumption
     DEF SqlBounds, Accounted, Ended, None, SqlCounts, SqlFirst, SqlPoints, SqlRestart, SqlStops,
     InFiles, Stopping, Measured
<1>13. SqlCounts'
  BY <1>1, <1>2, <1>5, <1>10, <1>3, <1>8, <1>4, SqlNumbers
     DEF SqlCounts, SqlFirst, SqlPoints, SqlRestart, SqlStops, InFiles, Stopping, Measured,
     Accounted, None, SqlBounds
<1>14. SqlFirst'
  BY <1>1, <1>2, <1>5, <1>10, <1>3, <1>8, <1>4, SqlNumbers
     DEF SqlCounts, SqlFirst, SqlPoints, SqlRestart, SqlStops, InFiles, Stopping, Measured,
     Accounted, None, SqlBounds
<1>15. SqlPoints'
  BY <1>1, <1>2, <1>5, <1>10, <1>3, <1>8, <1>4, SqlNumbers
     DEF SqlCounts, SqlFirst, SqlPoints, SqlRestart, SqlStops, InFiles, Stopping, Measured,
     Accounted, None, SqlBounds
<1>16. SqlRestart'
  BY <1>1, <1>2, <1>5, <1>10, <1>3, <1>8, <1>4, SqlNumbers
     DEF SqlCounts, SqlFirst, SqlPoints, SqlRestart, SqlStops, InFiles, Stopping, Measured,
     Accounted, None, SqlBounds
<1>17. SqlStops'
  BY <1>1, <1>2, <1>5, <1>10, <1>3, <1>8, <1>4, SqlNumbers
     DEF SqlCounts, SqlFirst, SqlPoints, SqlRestart, SqlStops, InFiles, Stopping, Measured,
     Accounted, None, SqlBounds
<1>18. fs'.at # "result"
  BY <1>2
<1> QED BY <1>12, <1>11, <1>18, <1>13, <1>14, <1>15, <1>16, <1>17 DEF SqlCase, SqlPlaced, SqlDone

\* SqliteVerify keeps the accounting of the case.
LEMMA SqliteVerifyMeasured ==
  ASSUME Types, FsHold, SqlCase, SqliteVerify
  PROVE  SqlCase'
<1>1. fs.at = "script" /\ fs.step \in 1..18 /\ ScriptStep
  BY InScript DEF SqliteVerify, Step, FsHold, ScriptStep, RemoveFixture
<1>2. fs.at = "script" /\ ScriptStep /\ (fs.step \in {7, 14})
  BY <1>1, StepNumbers DEF SqliteVerify, Step, RemoveFixture
<1>3. /\ fs'.at = "verify"
      /\ fs'.step = fs.step /\ fs'.recovering = fs.recovering
  BY <1>2 DEF SqliteVerify, Proceed, Fails, AfterCleanup, RunHelper, HelperSucceeded, Types, FsType,
     FsOK, ScriptStep
<1>4. InCase /\ SqlCounts /\ SqlFirst /\ SqlPoints /\ SqlRestart /\ SqlStops
  BY <1>2 DEF InCase, FsWorking, FsSteps, SqlCase, SqlPlaced, ScriptStep
<1>5. SqlType /\ SqlBounds
  BY DEF SqlCase
<1>6. Ordered(sql.last, Point)
  BY <1>2, <1>4, <1>5, SqlValues DEF Ordered, SqlPoints, Measured, InFiles, Point
<1>7. io' = io
  BY DEF SqliteVerify, sqliteVars
<1>8. IoOK(io')
  BY <1>7, <1>5 DEF SqlType
<1>9. sql' = [sql EXCEPT !.before = Point,
        !.phases = [block |-> sql.phases.block + (io.kernel - sql.last.block),
        ledger |-> sql.phases.ledger + (io.ledger - sql.last.ledger)]]
  BY <1>2, <1>6, <1>4 DEF SqliteVerify, Insert, Delta, Point
<1>10. [block |-> sql.phases.block + (io.kernel - sql.last.block),
         ledger |-> sql.phases.ledger + (io.ledger - sql.last.ledger)] \in [block: Int, ledger: Int]
  BY <1>5, SqlNumbers
<1>11. SqlOK(sql')
  BY <1>9, NewCaseOK, <1>5, SqlValues, <1>6, <1>10 DEF SqlType, SqlOK
<1>12. /\ sql'.validations = sql.validations
      /\ sql'.stops = sql.stops
      /\ sql'.restarting = sql.restarting
      /\ sql'.closing = sql.closing
      /\ sql'.before.block = io.kernel /\ sql'.before.ledger = io.ledger
      /\ sql'.last = sql.last
      /\ sql'.origin = sql.origin
      /\ sql'.firstEnd = sql.firstEnd
      /\ sql'.preStop = sql.preStop
      /\ sql'.phases.block = sql.phases.block + (io.kernel - sql.last.block) /\
           sql'.phases.ledger = sql.phases.ledger + (io.ledger - sql.last.ledger)
      /\ sql'.final = sql.final
  BY <1>9, <1>5, SqlValues, <1>6, <1>10 DEF SqlType, SqlOK, NewCase
<1>13. SqlType'
  BY <1>8, <1>11 DEF SqlType
<1>14. SqlBounds'
  BY <1>2, <1>3, <1>7, <1>12, <1>4, <1>6, <1>10, <1>5, SqlNumbers, MaxIoAssumption
     DEF SqlBounds, Accounted, Ended, None, SqlCounts, SqlFirst, SqlPoints, SqlRestart, SqlStops,
     InFiles, Stopping, Measured
<1>15. SqlCounts'
  BY <1>2, <1>3, <1>7, <1>12, <1>4, <1>6, <1>10, <1>5, SqlNumbers
     DEF SqlCounts, SqlFirst, SqlPoints, SqlRestart, SqlStops, InFiles, Stopping, Measured,
     Accounted, None, SqlBounds
<1>16. SqlFirst'
  BY <1>2, <1>3, <1>7, <1>12, <1>4, <1>6, <1>10, <1>5, SqlNumbers
     DEF SqlCounts, SqlFirst, SqlPoints, SqlRestart, SqlStops, InFiles, Stopping, Measured,
     Accounted, None, SqlBounds
<1>17. SqlPoints'
  BY <1>2, <1>3, <1>7, <1>12, <1>4, <1>6, <1>10, <1>5, SqlNumbers
     DEF SqlCounts, SqlFirst, SqlPoints, SqlRestart, SqlStops, InFiles, Stopping, Measured,
     Accounted, None, SqlBounds
<1>18. SqlRestart'
  BY <1>2, <1>3, <1>7, <1>12, <1>4, <1>6, <1>10, <1>5, SqlNumbers
     DEF SqlCounts, SqlFirst, SqlPoints, SqlRestart, SqlStops, InFiles, Stopping, Measured,
     Accounted, None, SqlBounds
<1>19. SqlStops'
  BY <1>2, <1>3, <1>7, <1>12, <1>4, <1>6, <1>10, <1>5, SqlNumbers
     DEF SqlCounts, SqlFirst, SqlPoints, SqlRestart, SqlStops, InFiles, Stopping, Measured,
     Accounted, None, SqlBounds
<1>20. fs'.at # "result"
  BY <1>3
<1> QED BY <1>14, <1>13, <1>20, <1>15, <1>16, <1>17, <1>18, <1>19 DEF SqlCase, SqlPlaced, SqlDone

\* SqliteVerified keeps the accounting of the case.
LEMMA SqliteVerifiedMeasured ==
  ASSUME Types, FsHold, SqlCase, SqliteVerified
  PROVE  SqlCase'
<1>1. fs.at = "verify" /\ ~fs.recovering /\ fs.step \in {7, 14}
  BY DEF SqliteVerified, HelperSucceeded, Step, FsHold, FsPlaced, FsWorking, FsSteps
<1>2. /\ fs'.at = "script"
      /\ fs'.step = fs.step + 1 /\ fs'.recovering = fs.recovering
  BY <1>1 DEF SqliteVerified, Proceed, Fails, AfterCleanup, RunHelper, HelperSucceeded, Types,
     FsType, FsOK
<1>3. InCase /\ SqlCounts /\ SqlFirst /\ SqlPoints /\ SqlRestart /\ SqlStops
  BY <1>1 DEF InCase, FsWorking, FsSteps, SqlCase, SqlPlaced, ScriptStep
<1>4. SqlType /\ SqlBounds
  BY DEF SqlCase
<1>5. io' = io
  BY DEF SqliteVerified, sqliteVars
<1>6. IoOK(io')
  BY <1>5, <1>4 DEF SqlType
<1>7. SqlOK(sql')
  BY <1>4, VerifiedPoints
<1>8. /\ sql'.validations = sql.validations + 1
      /\ sql'.stops = sql.stops
      /\ sql'.before.block = None /\ sql'.before.ledger = None
      /\ sql'.last.block = io.kernel /\ sql'.last.ledger = io.ledger
      /\ sql'.origin = sql.origin
      /\ sql'.firstEnd = sql.firstEnd
      /\ sql'.preStop = sql.preStop
      /\ sql'.phases.block = sql.phases.block + (io.kernel - sql.before.block) /\
           sql'.phases.ledger = sql.phases.ledger + (io.ledger - sql.before.ledger)
      /\ sql'.final = sql.final
      /\ sql'.restarting <=> sql.restarting \/ sql.validations = 0
      /\ sql'.closing <=> sql.closing \/ sql.validations = 1
  BY <1>4, VerifiedPoints
<1>9. SqlType'
  BY <1>6, <1>7 DEF SqlType
<1>10. SqlBounds'
  BY <1>1, <1>2, <1>5, <1>8, <1>3, <1>4, SqlNumbers, MaxIoAssumption
     DEF SqlBounds, Accounted, Ended, None, SqlCounts, SqlFirst, SqlPoints, SqlRestart, SqlStops,
     InFiles, Stopping, Measured
<1>11. SqlCounts'
  BY <1>1, <1>2, <1>5, <1>8, <1>3, <1>4, SqlNumbers
     DEF SqlCounts, SqlFirst, SqlPoints, SqlRestart, SqlStops, InFiles, Stopping, Measured,
     Accounted, None, SqlBounds
<1>12. SqlFirst'
  BY <1>1, <1>2, <1>5, <1>8, <1>3, <1>4, SqlNumbers
     DEF SqlCounts, SqlFirst, SqlPoints, SqlRestart, SqlStops, InFiles, Stopping, Measured,
     Accounted, None, SqlBounds
<1>13. SqlPoints'
  BY <1>1, <1>2, <1>5, <1>8, <1>3, <1>4, SqlNumbers
     DEF SqlCounts, SqlFirst, SqlPoints, SqlRestart, SqlStops, InFiles, Stopping, Measured,
     Accounted, None, SqlBounds
<1>14. SqlRestart'
  BY <1>1, <1>2, <1>5, <1>8, <1>3, <1>4, SqlNumbers
     DEF SqlCounts, SqlFirst, SqlPoints, SqlRestart, SqlStops, InFiles, Stopping, Measured,
     Accounted, None, SqlBounds
<1>15. SqlStops'
  BY <1>1, <1>2, <1>5, <1>8, <1>3, <1>4, SqlNumbers
     DEF SqlCounts, SqlFirst, SqlPoints, SqlRestart, SqlStops, InFiles, Stopping, Measured,
     Accounted, None, SqlBounds
<1>16. fs'.at # "result"
  BY <1>2
<1> QED BY <1>10, <1>9, <1>16, <1>11, <1>12, <1>13, <1>14, <1>15 DEF SqlCase, SqlPlaced, SqlDone

\* SqliteFilesFail keeps the accounting of the case.
LEMMA SqliteFilesFailMeasured ==
  ASSUME Types, FsHold, SqlCase, NEW reaped \in BOOLEAN, SqliteFilesFail(reaped)
  PROVE  SqlCase'
<1>1. fs.at \in {"initialize", "workload", "drain", "drained", "verify"}
  BY DEF SqliteFilesFail, HelperSucceeded, Step, FsHold, FsPlaced, FsWorking, FsSteps
<1>2. /\ (fs.recovering => fs'.at = "drop") /\ (~fs.recovering => fs'.at = "failed")
      /\ fs'.step = fs.step /\ fs'.recovering = fs.recovering
  BY <1>1 DEF SqliteFilesFail, Proceed, Fails, AfterCleanup, RunHelper, HelperSucceeded, Types,
     FsType, FsOK
<1>3. SqlType /\ SqlBounds
  BY DEF SqlCase
<1>4. io' = io
  BY DEF SqliteFilesFail, sqliteVars
<1>5. IoOK(io')
  BY <1>4, <1>3 DEF SqlType
<1>6. sql' = sql
  BY DEF SqliteFilesFail, sqliteVars
<1>7. SqlOK(sql')
  BY <1>6, <1>3 DEF SqlType
<1>8. SqlType'
  BY <1>5, <1>7 DEF SqlType
<1>9. SqlBounds'
  BY <1>1, <1>2, <1>4, <1>6, <1>3, SqlNumbers, MaxIoAssumption
     DEF SqlBounds, Accounted, Ended, None, SqlCounts, SqlFirst, SqlPoints, SqlRestart, SqlStops,
     InFiles, Stopping, Measured
<1>10. ~InCase' /\ fs'.at # "result"
  BY <1>1, <1>2 DEF InCase, FsWorking, FsSteps, FsHold, FsPlaced
<1> QED BY <1>10, <1>9, <1>8 DEF SqlCase, SqlPlaced, SqlDone

\* SqliteStop keeps the accounting of the case.
LEMMA SqliteStopMeasured ==
  ASSUME Types, FsHold, SqlCase, SqliteStop
  PROVE  SqlCase'
<1>1. CASE fs.at = "script" /\ sql.stops = 0
  <2>1. fs.at = "script" /\ fs.step \in 1..18 /\ ScriptStep
    BY <1>1, InScript DEF SqliteStop, FsStop, Step, FsHold, ScriptStep, RemoveFixture
  <2>2. fs.at = "script" /\ ScriptStep /\ (fs.step \in {10, 17}) /\ fs.daemon /\
          fs.device # Unrecorded /\ ~mount
    BY <2>1, <1>1, StepNumbers
       DEF SqliteStop, FsStop, Step, RemoveFixture, RequireUnmounted, Validated, TableUnmounted
  <2>3. /\ fs'.at = "term"
        /\ fs'.step = fs.step /\ fs'.recovering = fs.recovering
    BY <2>2, <1>1 DEF SqliteStop, FsStop, Proceed, Fails, AfterCleanup, RunHelper, HelperSucceeded,
       Types, FsType, FsOK, ScriptStep
  <2>4. InCase /\ SqlCounts /\ SqlFirst /\ SqlPoints /\ SqlRestart /\ SqlStops
    BY <2>2 DEF InCase, FsWorking, FsSteps, SqlCase, SqlPlaced, ScriptStep
  <2>5. SqlType /\ SqlBounds
    BY DEF SqlCase
  <2>6. io' = io
    BY <1>1 DEF SqliteStop, FsStop, sqliteVars
  <2>7. IoOK(io')
    BY <2>6, <2>5 DEF SqlType
  <2>8. sql' = [sql EXCEPT !.origin = sql.last, !.firstEnd = Point]
    BY <1>1, <2>2, <2>4 DEF SqliteStop, FsStop, Insert, Delta, RecordPhase
  <2>9. SqlOK(sql')
    BY <2>8, NewCaseOK, <2>5, SqlValues DEF SqlType, SqlOK
  <2>10. /\ sql'.validations = sql.validations
        /\ sql'.stops = sql.stops
        /\ sql'.restarting = sql.restarting
        /\ sql'.closing = sql.closing
        /\ sql'.before = sql.before
        /\ sql'.last = sql.last
        /\ sql'.origin = sql.last
        /\ sql'.firstEnd.block = io.kernel /\ sql'.firstEnd.ledger = io.ledger
        /\ sql'.preStop = sql.preStop
        /\ sql'.phases = sql.phases
        /\ sql'.final = sql.final
    BY <2>8, <2>5, SqlValues DEF SqlType, SqlOK, NewCase
  <2>11. SqlType'
    BY <2>7, <2>9 DEF SqlType
  <2>12. SqlBounds'
    BY <2>2, <2>3, <2>6, <2>10, <2>4, <2>5, SqlNumbers, <1>1, MaxIoAssumption
       DEF SqlBounds, Accounted, Ended, None, SqlCounts, SqlFirst, SqlPoints, SqlRestart, SqlStops,
       InFiles, Stopping, Measured
  <2>13. SqlCounts'
    BY <2>2, <2>3, <2>6, <2>10, <2>4, <2>5, SqlNumbers, <1>1
       DEF SqlCounts, SqlFirst, SqlPoints, SqlRestart, SqlStops, InFiles, Stopping, Measured,
       Accounted, None, SqlBounds
  <2>14. SqlFirst'
    BY <2>2, <2>3, <2>6, <2>10, <2>4, <2>5, SqlNumbers, <1>1
       DEF SqlCounts, SqlFirst, SqlPoints, SqlRestart, SqlStops, InFiles, Stopping, Measured,
       Accounted, None, SqlBounds
  <2>15. SqlPoints'
    BY <2>2, <2>3, <2>6, <2>10, <2>4, <2>5, SqlNumbers, <1>1
       DEF SqlCounts, SqlFirst, SqlPoints, SqlRestart, SqlStops, InFiles, Stopping, Measured,
       Accounted, None, SqlBounds
  <2>16. SqlRestart'
    BY <2>2, <2>3, <2>6, <2>10, <2>4, <2>5, SqlNumbers, <1>1
       DEF SqlCounts, SqlFirst, SqlPoints, SqlRestart, SqlStops, InFiles, Stopping, Measured,
       Accounted, None, SqlBounds
  <2>17. SqlStops'
    BY <2>2, <2>3, <2>6, <2>10, <2>4, <2>5, SqlNumbers, <1>1
       DEF SqlCounts, SqlFirst, SqlPoints, SqlRestart, SqlStops, InFiles, Stopping, Measured,
       Accounted, None, SqlBounds
  <2>18. fs'.at # "result"
    BY <2>3
  <2> QED BY <2>12, <2>11, <2>18, <2>13, <2>14, <2>15, <2>16, <2>17 DEF SqlCase, SqlPlaced, SqlDone
<1>2. CASE fs.at = "script" /\ sql.stops # 0
  <2>1. fs.at = "script" /\ fs.step \in 1..18 /\ ScriptStep
    BY <1>2, InScript DEF SqliteStop, FsStop, Step, FsHold, ScriptStep, RemoveFixture
  <2>2. fs.at = "script" /\ ScriptStep /\ (fs.step \in {10, 17}) /\ fs.daemon /\
          fs.device # Unrecorded /\ ~mount
    BY <2>1, <1>2, StepNumbers
       DEF SqliteStop, FsStop, Step, RemoveFixture, RequireUnmounted, Validated, TableUnmounted
  <2>3. /\ fs'.at = "term"
        /\ fs'.step = fs.step /\ fs'.recovering = fs.recovering
    BY <2>2, <1>2 DEF SqliteStop, FsStop, Proceed, Fails, AfterCleanup, RunHelper, HelperSucceeded,
       Types, FsType, FsOK, ScriptStep
  <2>4. InCase /\ SqlCounts /\ SqlFirst /\ SqlPoints /\ SqlRestart /\ SqlStops
    BY <2>2 DEF InCase, FsWorking, FsSteps, SqlCase, SqlPlaced, ScriptStep
  <2>5. SqlType /\ SqlBounds
    BY DEF SqlCase
  <2>6. io' = io
    BY <1>2 DEF SqliteStop, FsStop, sqliteVars
  <2>7. IoOK(io')
    BY <2>6, <2>5 DEF SqlType
  <2>8. sql' = [sql EXCEPT !.preStop = Point]
    BY <1>2, <2>2, <2>4 DEF SqliteStop, FsStop, Insert, Delta, RecordPhase
  <2>9. SqlOK(sql')
    BY <2>8, NewCaseOK, <2>5, SqlValues DEF SqlType, SqlOK
  <2>10. /\ sql'.validations = sql.validations
        /\ sql'.stops = sql.stops
        /\ sql'.restarting = sql.restarting
        /\ sql'.closing = sql.closing
        /\ sql'.before = sql.before
        /\ sql'.last = sql.last
        /\ sql'.origin = sql.origin
        /\ sql'.firstEnd = sql.firstEnd
        /\ sql'.preStop.block = io.kernel /\ sql'.preStop.ledger = io.ledger
        /\ sql'.phases = sql.phases
        /\ sql'.final = sql.final
    BY <2>8, <2>5, SqlValues DEF SqlType, SqlOK, NewCase
  <2>11. SqlType'
    BY <2>7, <2>9 DEF SqlType
  <2>12. SqlBounds'
    BY <2>2, <2>3, <2>6, <2>10, <2>4, <2>5, SqlNumbers, <1>2, MaxIoAssumption
       DEF SqlBounds, Accounted, Ended, None, SqlCounts, SqlFirst, SqlPoints, SqlRestart, SqlStops,
       InFiles, Stopping, Measured
  <2>13. SqlCounts'
    BY <2>2, <2>3, <2>6, <2>10, <2>4, <2>5, SqlNumbers, <1>2
       DEF SqlCounts, SqlFirst, SqlPoints, SqlRestart, SqlStops, InFiles, Stopping, Measured,
       Accounted, None, SqlBounds
  <2>14. SqlFirst'
    BY <2>2, <2>3, <2>6, <2>10, <2>4, <2>5, SqlNumbers, <1>2
       DEF SqlCounts, SqlFirst, SqlPoints, SqlRestart, SqlStops, InFiles, Stopping, Measured,
       Accounted, None, SqlBounds
  <2>15. SqlPoints'
    BY <2>2, <2>3, <2>6, <2>10, <2>4, <2>5, SqlNumbers, <1>2
       DEF SqlCounts, SqlFirst, SqlPoints, SqlRestart, SqlStops, InFiles, Stopping, Measured,
       Accounted, None, SqlBounds
  <2>16. SqlRestart'
    BY <2>2, <2>3, <2>6, <2>10, <2>4, <2>5, SqlNumbers, <1>2
       DEF SqlCounts, SqlFirst, SqlPoints, SqlRestart, SqlStops, InFiles, Stopping, Measured,
       Accounted, None, SqlBounds
  <2>17. SqlStops'
    BY <2>2, <2>3, <2>6, <2>10, <2>4, <2>5, SqlNumbers, <1>2
       DEF SqlCounts, SqlFirst, SqlPoints, SqlRestart, SqlStops, InFiles, Stopping, Measured,
       Accounted, None, SqlBounds
  <2>18. fs'.at # "result"
    BY <2>3
  <2> QED BY <2>12, <2>11, <2>18, <2>13, <2>14, <2>15, <2>16, <2>17 DEF SqlCase, SqlPlaced, SqlDone
<1>3. CASE fs.at # "script" /\ sql.stops = 0
  <2>1. fs.at = "recover_stop" /\ fs.daemon /\ fs.device # Unrecorded /\ ~mount
    BY <1>3 DEF SqliteStop, FsStop, HelperSucceeded, Step, FsHold, FsPlaced, FsWorking, FsSteps,
       RequireUnmounted, Validated, TableUnmounted
  <2>2. /\ fs'.at = "term"
        /\ fs'.step = fs.step /\ fs'.recovering = fs.recovering
    BY <2>1, <1>3 DEF SqliteStop, FsStop, Proceed, Fails, AfterCleanup, RunHelper, HelperSucceeded,
       Types, FsType, FsOK
  <2>3. SqlType /\ SqlBounds
    BY DEF SqlCase
  <2>4. io' = io
    BY <1>3 DEF SqliteStop, FsStop, sqliteVars
  <2>5. IoOK(io')
    BY <2>4, <2>3 DEF SqlType
  <2>6. sql' = [sql EXCEPT !.origin = sql.last, !.firstEnd = Point]
    BY <1>3, <2>1 DEF SqliteStop, FsStop, Insert, Delta, RecordPhase
  <2>7. SqlOK(sql')
    BY <2>6, NewCaseOK, <2>3, SqlValues DEF SqlType, SqlOK
  <2>8. /\ sql'.validations = sql.validations
        /\ sql'.stops = sql.stops
        /\ sql'.restarting = sql.restarting
        /\ sql'.closing = sql.closing
        /\ sql'.before = sql.before
        /\ sql'.last = sql.last
        /\ sql'.origin = sql.last
        /\ sql'.firstEnd.block = io.kernel /\ sql'.firstEnd.ledger = io.ledger
        /\ sql'.preStop = sql.preStop
        /\ sql'.phases = sql.phases
        /\ sql'.final = sql.final
    BY <2>6, <2>3, SqlValues DEF SqlType, SqlOK, NewCase
  <2>9. SqlType'
    BY <2>5, <2>7 DEF SqlType
  <2>10. SqlBounds'
    BY <2>1, <2>2, <2>4, <2>8, <2>3, SqlNumbers, <1>3, MaxIoAssumption
       DEF SqlBounds, Accounted, Ended, None, SqlCounts, SqlFirst, SqlPoints, SqlRestart, SqlStops,
       InFiles, Stopping, Measured
  <2>11. ~InCase' /\ fs'.at # "result"
    BY <2>1, <2>2 DEF InCase, FsWorking, FsSteps, FsHold, FsPlaced
  <2> QED BY <2>11, <2>10, <2>9 DEF SqlCase, SqlPlaced, SqlDone
<1>4. CASE fs.at # "script" /\ sql.stops # 0
  <2>1. fs.at = "recover_stop" /\ fs.daemon /\ fs.device # Unrecorded /\ ~mount
    BY <1>4 DEF SqliteStop, FsStop, HelperSucceeded, Step, FsHold, FsPlaced, FsWorking, FsSteps,
       RequireUnmounted, Validated, TableUnmounted
  <2>2. /\ fs'.at = "term"
        /\ fs'.step = fs.step /\ fs'.recovering = fs.recovering
    BY <2>1, <1>4 DEF SqliteStop, FsStop, Proceed, Fails, AfterCleanup, RunHelper, HelperSucceeded,
       Types, FsType, FsOK
  <2>3. SqlType /\ SqlBounds
    BY DEF SqlCase
  <2>4. io' = io
    BY <1>4 DEF SqliteStop, FsStop, sqliteVars
  <2>5. IoOK(io')
    BY <2>4, <2>3 DEF SqlType
  <2>6. sql' = [sql EXCEPT !.preStop = Point]
    BY <1>4, <2>1 DEF SqliteStop, FsStop, Insert, Delta, RecordPhase
  <2>7. SqlOK(sql')
    BY <2>6, NewCaseOK, <2>3, SqlValues DEF SqlType, SqlOK
  <2>8. /\ sql'.validations = sql.validations
        /\ sql'.stops = sql.stops
        /\ sql'.restarting = sql.restarting
        /\ sql'.closing = sql.closing
        /\ sql'.before = sql.before
        /\ sql'.last = sql.last
        /\ sql'.origin = sql.origin
        /\ sql'.firstEnd = sql.firstEnd
        /\ sql'.preStop.block = io.kernel /\ sql'.preStop.ledger = io.ledger
        /\ sql'.phases = sql.phases
        /\ sql'.final = sql.final
    BY <2>6, <2>3, SqlValues DEF SqlType, SqlOK, NewCase
  <2>9. SqlType'
    BY <2>5, <2>7 DEF SqlType
  <2>10. SqlBounds'
    BY <2>1, <2>2, <2>4, <2>8, <2>3, SqlNumbers, <1>4, MaxIoAssumption
       DEF SqlBounds, Accounted, Ended, None, SqlCounts, SqlFirst, SqlPoints, SqlRestart, SqlStops,
       InFiles, Stopping, Measured
  <2>11. ~InCase' /\ fs'.at # "result"
    BY <2>1, <2>2 DEF InCase, FsWorking, FsSteps, FsHold, FsPlaced
  <2> QED BY <2>11, <2>10, <2>9 DEF SqlCase, SqlPlaced, SqlDone
<1> QED BY <1>1, <1>2, <1>3, <1>4

\* SqliteGone keeps the accounting of the case.
LEMMA SqliteGoneMeasured ==
  ASSUME Types, FsHold, SqlCase, NEW logged \in BOOLEAN, NEW reported \in BOOLEAN,
         SqliteGone(logged, reported)
  PROVE  SqlCase'
<1>1. CASE ~logged /\ ~reported
  <2>1. fs.at = "gone"
    BY <1>1 DEF SqliteGone, FsGone, HelperSucceeded, Step, FsHold, FsPlaced, FsWorking, FsSteps
  <2>2. /\ (fs.recovering => fs'.at = "drop") /\ (~fs.recovering => fs'.at = "failed")
        /\ fs'.step = fs.step /\ fs'.recovering = fs.recovering
    BY <2>1, <1>1 DEF SqliteGone, FsGone, Proceed, Fails, AfterCleanup, RunHelper, HelperSucceeded,
       Types, FsType, FsOK
  <2>3. SqlType /\ SqlBounds
    BY DEF SqlCase
  <2>4. io' = io
    BY <1>1 DEF SqliteGone, FsGone, sqliteVars
  <2>5. IoOK(io')
    BY <2>4, <2>3 DEF SqlType
  <2>6. sql' = sql
    BY <1>1 DEF SqliteGone, FsGone, sqliteVars
  <2>7. SqlOK(sql')
    BY <2>6, <2>3 DEF SqlType
  <2>8. SqlType'
    BY <2>5, <2>7 DEF SqlType
  <2>9. SqlBounds'
    BY <2>1, <2>2, <2>4, <2>6, <2>3, SqlNumbers, <1>1, MaxIoAssumption
       DEF SqlBounds, Accounted, Ended, None, SqlCounts, SqlFirst, SqlPoints, SqlRestart, SqlStops,
       InFiles, Stopping, Measured
  <2>10. ~InCase' /\ fs'.at # "result"
    BY <2>1, <2>2 DEF InCase, FsWorking, FsSteps, FsHold, FsPlaced
  <2> QED BY <2>10, <2>9, <2>8 DEF SqlCase, SqlPlaced, SqlDone
<1>2. CASE ~logged /\ reported /\ sql.stops = 0
  <2>1. fs.at = "gone"
    BY <1>2 DEF SqliteGone, FsGone, HelperSucceeded, Step, FsHold, FsPlaced, FsWorking, FsSteps
  <2>2. /\ (fs.recovering => fs'.at = "drop") /\ (~fs.recovering => fs'.at = "failed")
        /\ fs'.step = fs.step /\ fs'.recovering = fs.recovering
    BY <2>1, <1>2 DEF SqliteGone, FsGone, Proceed, Fails, AfterCleanup, RunHelper, HelperSucceeded,
       Types, FsType, FsOK
  <2>3. SqlType /\ SqlBounds
    BY DEF SqlCase
  <2>4. [sql.firstEnd EXCEPT !.block = io.daemon] \in Points /\
          [sql.firstEnd EXCEPT !.block = io.daemon].block = io.daemon /\
          [sql.firstEnd EXCEPT !.block = io.daemon].ledger = sql.firstEnd.ledger
    BY <1>2, <2>1, <2>3, SqlValues DEF SqlType, SqlOK, Points
  <2>5. sql.stops + 1 \in Nat
    BY <1>2, <2>1, <2>3, SqlValues, <2>4 DEF SqlType, SqlOK
  <2>6. io' = io
    BY <1>2 DEF SqliteGone, FsGone, sqliteVars
  <2>7. IoOK(io')
    BY <2>6, <2>3 DEF SqlType
  <2>8. sql' = [sql EXCEPT !.firstEnd = [sql.firstEnd EXCEPT !.block = io.daemon]]
    BY <1>2, <2>1, <2>4, <2>5 DEF SqliteGone, FsGone, WithReport, SqlType, SqlOK
  <2>9. SqlOK(sql')
    BY <2>8, NewCaseOK, <2>3, SqlValues, <2>4, <2>5 DEF SqlType, SqlOK
  <2>10. /\ sql'.validations = sql.validations
        /\ sql'.stops = sql.stops
        /\ sql'.restarting = sql.restarting
        /\ sql'.closing = sql.closing
        /\ sql'.before = sql.before
        /\ sql'.last = sql.last
        /\ sql'.origin = sql.origin
        /\ sql'.firstEnd.block = io.daemon /\ sql'.firstEnd.ledger = sql.firstEnd.ledger
        /\ sql'.preStop = sql.preStop
        /\ sql'.phases = sql.phases
        /\ sql'.final = sql.final
    BY <2>8, <2>3, SqlValues, <2>4, <2>5 DEF SqlType, SqlOK, NewCase
  <2>11. SqlType'
    BY <2>7, <2>9 DEF SqlType
  <2>12. SqlBounds'
    BY <2>1, <2>2, <2>6, <2>10, <2>4, <2>5, <2>3, SqlNumbers, <1>2, MaxIoAssumption
       DEF SqlBounds, Accounted, Ended, None, SqlCounts, SqlFirst, SqlPoints, SqlRestart, SqlStops,
       InFiles, Stopping, Measured
  <2>13. ~InCase' /\ fs'.at # "result"
    BY <2>1, <2>2 DEF InCase, FsWorking, FsSteps, FsHold, FsPlaced
  <2> QED BY <2>13, <2>12, <2>11 DEF SqlCase, SqlPlaced, SqlDone
<1>3. CASE ~logged /\ reported /\ sql.stops # 0
  <2>1. fs.at = "gone"
    BY <1>3 DEF SqliteGone, FsGone, HelperSucceeded, Step, FsHold, FsPlaced, FsWorking, FsSteps
  <2>2. /\ (fs.recovering => fs'.at = "drop") /\ (~fs.recovering => fs'.at = "failed")
        /\ fs'.step = fs.step /\ fs'.recovering = fs.recovering
    BY <2>1, <1>3 DEF SqliteGone, FsGone, Proceed, Fails, AfterCleanup, RunHelper, HelperSucceeded,
       Types, FsType, FsOK
  <2>3. SqlType /\ SqlBounds
    BY DEF SqlCase
  <2>4. [sql.preStop EXCEPT !.block = io.daemon] \in Points /\
          [sql.preStop EXCEPT !.block = io.daemon].block = io.daemon /\
          [sql.preStop EXCEPT !.block = io.daemon].ledger = sql.preStop.ledger
    BY <1>3, <2>1, <2>3, SqlValues DEF SqlType, SqlOK, Points
  <2>5. sql.stops + 1 \in Nat
    BY <1>3, <2>1, <2>3, SqlValues, <2>4 DEF SqlType, SqlOK
  <2>6. io' = io
    BY <1>3 DEF SqliteGone, FsGone, sqliteVars
  <2>7. IoOK(io')
    BY <2>6, <2>3 DEF SqlType
  <2>8. sql' = [sql EXCEPT !.preStop = [sql.preStop EXCEPT !.block = io.daemon]]
    BY <1>3, <2>1, <2>4, <2>5 DEF SqliteGone, FsGone, WithReport, SqlType, SqlOK
  <2>9. SqlOK(sql')
    BY <2>8, NewCaseOK, <2>3, SqlValues, <2>4, <2>5 DEF SqlType, SqlOK
  <2>10. /\ sql'.validations = sql.validations
        /\ sql'.stops = sql.stops
        /\ sql'.restarting = sql.restarting
        /\ sql'.closing = sql.closing
        /\ sql'.before = sql.before
        /\ sql'.last = sql.last
        /\ sql'.origin = sql.origin
        /\ sql'.firstEnd = sql.firstEnd
        /\ sql'.preStop.block = io.daemon /\ sql'.preStop.ledger = sql.preStop.ledger
        /\ sql'.phases = sql.phases
        /\ sql'.final = sql.final
    BY <2>8, <2>3, SqlValues, <2>4, <2>5 DEF SqlType, SqlOK, NewCase
  <2>11. SqlType'
    BY <2>7, <2>9 DEF SqlType
  <2>12. SqlBounds'
    BY <2>1, <2>2, <2>6, <2>10, <2>4, <2>5, <2>3, SqlNumbers, <1>3, MaxIoAssumption
       DEF SqlBounds, Accounted, Ended, None, SqlCounts, SqlFirst, SqlPoints, SqlRestart, SqlStops,
       InFiles, Stopping, Measured
  <2>13. ~InCase' /\ fs'.at # "result"
    BY <2>1, <2>2 DEF InCase, FsWorking, FsSteps, FsHold, FsPlaced
  <2> QED BY <2>13, <2>12, <2>11 DEF SqlCase, SqlPlaced, SqlDone
<1>4. CASE logged /\ fs.recovering /\ sql.stops = 0
  <2>1. fs.at = "gone" /\ fs.recovering
    BY <1>4 DEF SqliteGone, FsGone, HelperSucceeded, Step, FsHold, FsPlaced, FsWorking, FsSteps
  <2>2. /\ fs'.at = "drop"
        /\ fs'.step = fs.step /\ fs'.recovering = fs.recovering
    BY <2>1, <1>4 DEF SqliteGone, FsGone, Proceed, Fails, AfterCleanup, RunHelper, HelperSucceeded,
       Types, FsType, FsOK
  <2>3. SqlType /\ SqlBounds
    BY DEF SqlCase
  <2>4. [sql.firstEnd EXCEPT !.block = io.daemon] \in Points /\
          [sql.firstEnd EXCEPT !.block = io.daemon].block = io.daemon /\
          [sql.firstEnd EXCEPT !.block = io.daemon].ledger = sql.firstEnd.ledger
    BY <1>4, <2>1, <2>3, SqlValues DEF SqlType, SqlOK, Points
  <2>5. sql.stops + 1 \in Nat
    BY <1>4, <2>1, <2>3, SqlValues, <2>4 DEF SqlType, SqlOK
  <2>6. io' = io
    BY <1>4 DEF SqliteGone, FsGone, sqliteVars
  <2>7. IoOK(io')
    BY <2>6, <2>3 DEF SqlType
  <2>8. sql' = [sql EXCEPT !.firstEnd = [sql.firstEnd EXCEPT !.block = io.daemon],
          !.stops = sql.stops + 1, !.outputs = FALSE]
    BY <1>4, <2>1, <2>4, <2>5 DEF SqliteGone, FsGone, WithReport, SqlType, SqlOK
  <2>9. SqlOK(sql')
    BY <2>8, NewCaseOK, <2>3, SqlValues, <2>4, <2>5 DEF SqlType, SqlOK
  <2>10. /\ sql'.validations = sql.validations
        /\ sql'.stops = sql.stops + 1
        /\ sql'.restarting = sql.restarting
        /\ sql'.closing = sql.closing
        /\ sql'.before = sql.before
        /\ sql'.last = sql.last
        /\ sql'.origin = sql.origin
        /\ sql'.firstEnd.block = io.daemon /\ sql'.firstEnd.ledger = sql.firstEnd.ledger
        /\ sql'.preStop = sql.preStop
        /\ sql'.phases = sql.phases
        /\ sql'.final = sql.final
    BY <2>8, <2>3, SqlValues, <2>4, <2>5 DEF SqlType, SqlOK, NewCase
  <2>11. SqlType'
    BY <2>7, <2>9 DEF SqlType
  <2>12. SqlBounds'
    BY <2>1, <2>2, <2>6, <2>10, <2>4, <2>5, <2>3, SqlNumbers, <1>4, MaxIoAssumption
       DEF SqlBounds, Accounted, Ended, None, SqlCounts, SqlFirst, SqlPoints, SqlRestart, SqlStops,
       InFiles, Stopping, Measured
  <2>13. ~InCase' /\ fs'.at # "result"
    BY <2>1, <2>2 DEF InCase, FsWorking, FsSteps, FsHold, FsPlaced
  <2> QED BY <2>13, <2>12, <2>11 DEF SqlCase, SqlPlaced, SqlDone
<1>5. CASE logged /\ fs.recovering /\ sql.stops # 0
  <2>1. fs.at = "gone" /\ fs.recovering
    BY <1>5 DEF SqliteGone, FsGone, HelperSucceeded, Step, FsHold, FsPlaced, FsWorking, FsSteps
  <2>2. /\ fs'.at = "drop"
        /\ fs'.step = fs.step /\ fs'.recovering = fs.recovering
    BY <2>1, <1>5 DEF SqliteGone, FsGone, Proceed, Fails, AfterCleanup, RunHelper, HelperSucceeded,
       Types, FsType, FsOK
  <2>3. SqlType /\ SqlBounds
    BY DEF SqlCase
  <2>4. [sql.preStop EXCEPT !.block = io.daemon] \in Points /\
          [sql.preStop EXCEPT !.block = io.daemon].block = io.daemon /\
          [sql.preStop EXCEPT !.block = io.daemon].ledger = sql.preStop.ledger
    BY <1>5, <2>1, <2>3, SqlValues DEF SqlType, SqlOK, Points
  <2>5. sql.stops + 1 \in Nat
    BY <1>5, <2>1, <2>3, SqlValues, <2>4 DEF SqlType, SqlOK
  <2>6. io' = io
    BY <1>5 DEF SqliteGone, FsGone, sqliteVars
  <2>7. IoOK(io')
    BY <2>6, <2>3 DEF SqlType
  <2>8. sql' = [sql EXCEPT !.preStop = [sql.preStop EXCEPT !.block = io.daemon],
          !.stops = sql.stops + 1, !.outputs = FALSE]
    BY <1>5, <2>1, <2>4, <2>5 DEF SqliteGone, FsGone, WithReport, SqlType, SqlOK
  <2>9. SqlOK(sql')
    BY <2>8, NewCaseOK, <2>3, SqlValues, <2>4, <2>5 DEF SqlType, SqlOK
  <2>10. /\ sql'.validations = sql.validations
        /\ sql'.stops = sql.stops + 1
        /\ sql'.restarting = sql.restarting
        /\ sql'.closing = sql.closing
        /\ sql'.before = sql.before
        /\ sql'.last = sql.last
        /\ sql'.origin = sql.origin
        /\ sql'.firstEnd = sql.firstEnd
        /\ sql'.preStop.block = io.daemon /\ sql'.preStop.ledger = sql.preStop.ledger
        /\ sql'.phases = sql.phases
        /\ sql'.final = sql.final
    BY <2>8, <2>3, SqlValues, <2>4, <2>5 DEF SqlType, SqlOK, NewCase
  <2>11. SqlType'
    BY <2>7, <2>9 DEF SqlType
  <2>12. SqlBounds'
    BY <2>1, <2>2, <2>6, <2>10, <2>4, <2>5, <2>3, SqlNumbers, <1>5, MaxIoAssumption
       DEF SqlBounds, Accounted, Ended, None, SqlCounts, SqlFirst, SqlPoints, SqlRestart, SqlStops,
       InFiles, Stopping, Measured
  <2>13. ~InCase' /\ fs'.at # "result"
    BY <2>1, <2>2 DEF InCase, FsWorking, FsSteps, FsHold, FsPlaced
  <2> QED BY <2>13, <2>12, <2>11 DEF SqlCase, SqlPlaced, SqlDone
<1>6. CASE logged /\ ~fs.recovering /\ sql.stops = 0
  <2>1. fs.at = "gone" /\ ~fs.recovering /\ fs.step \in {10, 17}
    BY <1>6 DEF SqliteGone, FsGone, HelperSucceeded, Step, FsHold, FsPlaced, FsWorking, FsSteps
  <2>2. /\ fs'.at = "script"
        /\ fs'.step = fs.step + 1 /\ fs'.recovering = fs.recovering
    BY <2>1, <1>6 DEF SqliteGone, FsGone, Proceed, Fails, AfterCleanup, RunHelper, HelperSucceeded,
       Types, FsType, FsOK
  <2>3. InCase /\ SqlCounts /\ SqlFirst /\ SqlPoints /\ SqlRestart /\ SqlStops
    BY <2>1 DEF InCase, FsWorking, FsSteps, SqlCase, SqlPlaced, ScriptStep
  <2>4. SqlType /\ SqlBounds
    BY DEF SqlCase
  <2>5. [sql.firstEnd EXCEPT !.block = io.daemon] \in Points /\
          [sql.firstEnd EXCEPT !.block = io.daemon].block = io.daemon /\
          [sql.firstEnd EXCEPT !.block = io.daemon].ledger = sql.firstEnd.ledger
    BY <1>6, <2>1, <2>3, <2>4, SqlValues DEF SqlType, SqlOK, Points
  <2>6. sql.stops + 1 \in Nat
    BY <1>6, <2>1, <2>3, <2>4, SqlValues, <2>5 DEF SqlType, SqlOK
  <2>7. io' = io
    BY <1>6 DEF SqliteGone, FsGone, sqliteVars
  <2>8. IoOK(io')
    BY <2>7, <2>4 DEF SqlType
  <2>9. sql' = [sql EXCEPT !.firstEnd = [sql.firstEnd EXCEPT !.block = io.daemon],
          !.stops = sql.stops + 1, !.outputs = FALSE]
    BY <1>6, <2>1, <2>5, <2>6, <2>3 DEF SqliteGone, FsGone, WithReport, SqlType, SqlOK
  <2>10. SqlOK(sql')
    BY <2>9, NewCaseOK, <2>4, SqlValues, <2>5, <2>6 DEF SqlType, SqlOK
  <2>11. /\ sql'.validations = sql.validations
        /\ sql'.stops = sql.stops + 1
        /\ sql'.restarting = sql.restarting
        /\ sql'.closing = sql.closing
        /\ sql'.before = sql.before
        /\ sql'.last = sql.last
        /\ sql'.origin = sql.origin
        /\ sql'.firstEnd.block = io.daemon /\ sql'.firstEnd.ledger = sql.firstEnd.ledger
        /\ sql'.preStop = sql.preStop
        /\ sql'.phases = sql.phases
        /\ sql'.final = sql.final
    BY <2>9, <2>4, SqlValues, <2>5, <2>6 DEF SqlType, SqlOK, NewCase
  <2>12. SqlType'
    BY <2>8, <2>10 DEF SqlType
  <2>13. SqlBounds'
    BY <2>1, <2>2, <2>7, <2>11, <2>3, <2>5, <2>6, <2>4, SqlNumbers, <1>6, MaxIoAssumption
       DEF SqlBounds, Accounted, Ended, None, SqlCounts, SqlFirst, SqlPoints, SqlRestart, SqlStops,
       InFiles, Stopping, Measured
  <2>14. SqlCounts'
    BY <2>1, <2>2, <2>7, <2>11, <2>3, <2>5, <2>6, <2>4, SqlNumbers, <1>6
       DEF SqlCounts, SqlFirst, SqlPoints, SqlRestart, SqlStops, InFiles, Stopping, Measured,
       Accounted, None, SqlBounds
  <2>15. SqlFirst'
    BY <2>1, <2>2, <2>7, <2>11, <2>3, <2>5, <2>6, <2>4, SqlNumbers, <1>6
       DEF SqlCounts, SqlFirst, SqlPoints, SqlRestart, SqlStops, InFiles, Stopping, Measured,
       Accounted, None, SqlBounds
  <2>16. SqlPoints'
    BY <2>1, <2>2, <2>7, <2>11, <2>3, <2>5, <2>6, <2>4, SqlNumbers, <1>6
       DEF SqlCounts, SqlFirst, SqlPoints, SqlRestart, SqlStops, InFiles, Stopping, Measured,
       Accounted, None, SqlBounds
  <2>17. SqlRestart'
    BY <2>1, <2>2, <2>7, <2>11, <2>3, <2>5, <2>6, <2>4, SqlNumbers, <1>6
       DEF SqlCounts, SqlFirst, SqlPoints, SqlRestart, SqlStops, InFiles, Stopping, Measured,
       Accounted, None, SqlBounds
  <2>18. SqlStops'
    BY <2>1, <2>2, <2>7, <2>11, <2>3, <2>5, <2>6, <2>4, SqlNumbers, <1>6
       DEF SqlCounts, SqlFirst, SqlPoints, SqlRestart, SqlStops, InFiles, Stopping, Measured,
       Accounted, None, SqlBounds
  <2>19. fs'.at # "result"
    BY <2>2
  <2> QED BY <2>13, <2>12, <2>19, <2>14, <2>15, <2>16, <2>17, <2>18 DEF SqlCase, SqlPlaced, SqlDone
<1>7. CASE logged /\ ~fs.recovering /\ sql.stops # 0
  <2>1. fs.at = "gone" /\ ~fs.recovering /\ fs.step \in {10, 17}
    BY <1>7 DEF SqliteGone, FsGone, HelperSucceeded, Step, FsHold, FsPlaced, FsWorking, FsSteps
  <2>2. /\ fs'.at = "script"
        /\ fs'.step = fs.step + 1 /\ fs'.recovering = fs.recovering
    BY <2>1, <1>7 DEF SqliteGone, FsGone, Proceed, Fails, AfterCleanup, RunHelper, HelperSucceeded,
       Types, FsType, FsOK
  <2>3. InCase /\ SqlCounts /\ SqlFirst /\ SqlPoints /\ SqlRestart /\ SqlStops
    BY <2>1 DEF InCase, FsWorking, FsSteps, SqlCase, SqlPlaced, ScriptStep
  <2>4. SqlType /\ SqlBounds
    BY DEF SqlCase
  <2>5. [sql.preStop EXCEPT !.block = io.daemon] \in Points /\
          [sql.preStop EXCEPT !.block = io.daemon].block = io.daemon /\
          [sql.preStop EXCEPT !.block = io.daemon].ledger = sql.preStop.ledger
    BY <1>7, <2>1, <2>3, <2>4, SqlValues DEF SqlType, SqlOK, Points
  <2>6. sql.stops + 1 \in Nat
    BY <1>7, <2>1, <2>3, <2>4, SqlValues, <2>5 DEF SqlType, SqlOK
  <2>7. io' = io
    BY <1>7 DEF SqliteGone, FsGone, sqliteVars
  <2>8. IoOK(io')
    BY <2>7, <2>4 DEF SqlType
  <2>9. sql' = [sql EXCEPT !.preStop = [sql.preStop EXCEPT !.block = io.daemon],
          !.stops = sql.stops + 1, !.outputs = FALSE]
    BY <1>7, <2>1, <2>5, <2>6, <2>3 DEF SqliteGone, FsGone, WithReport, SqlType, SqlOK
  <2>10. SqlOK(sql')
    BY <2>9, NewCaseOK, <2>4, SqlValues, <2>5, <2>6 DEF SqlType, SqlOK
  <2>11. /\ sql'.validations = sql.validations
        /\ sql'.stops = sql.stops + 1
        /\ sql'.restarting = sql.restarting
        /\ sql'.closing = sql.closing
        /\ sql'.before = sql.before
        /\ sql'.last = sql.last
        /\ sql'.origin = sql.origin
        /\ sql'.firstEnd = sql.firstEnd
        /\ sql'.preStop.block = io.daemon /\ sql'.preStop.ledger = sql.preStop.ledger
        /\ sql'.phases = sql.phases
        /\ sql'.final = sql.final
    BY <2>9, <2>4, SqlValues, <2>5, <2>6 DEF SqlType, SqlOK, NewCase
  <2>12. SqlType'
    BY <2>8, <2>10 DEF SqlType
  <2>13. SqlBounds'
    BY <2>1, <2>2, <2>7, <2>11, <2>3, <2>5, <2>6, <2>4, SqlNumbers, <1>7, MaxIoAssumption
       DEF SqlBounds, Accounted, Ended, None, SqlCounts, SqlFirst, SqlPoints, SqlRestart, SqlStops,
       InFiles, Stopping, Measured
  <2>14. SqlCounts'
    BY <2>1, <2>2, <2>7, <2>11, <2>3, <2>5, <2>6, <2>4, SqlNumbers, <1>7
       DEF SqlCounts, SqlFirst, SqlPoints, SqlRestart, SqlStops, InFiles, Stopping, Measured,
       Accounted, None, SqlBounds
  <2>15. SqlFirst'
    BY <2>1, <2>2, <2>7, <2>11, <2>3, <2>5, <2>6, <2>4, SqlNumbers, <1>7
       DEF SqlCounts, SqlFirst, SqlPoints, SqlRestart, SqlStops, InFiles, Stopping, Measured,
       Accounted, None, SqlBounds
  <2>16. SqlPoints'
    BY <2>1, <2>2, <2>7, <2>11, <2>3, <2>5, <2>6, <2>4, SqlNumbers, <1>7
       DEF SqlCounts, SqlFirst, SqlPoints, SqlRestart, SqlStops, InFiles, Stopping, Measured,
       Accounted, None, SqlBounds
  <2>17. SqlRestart'
    BY <2>1, <2>2, <2>7, <2>11, <2>3, <2>5, <2>6, <2>4, SqlNumbers, <1>7
       DEF SqlCounts, SqlFirst, SqlPoints, SqlRestart, SqlStops, InFiles, Stopping, Measured,
       Accounted, None, SqlBounds
  <2>18. SqlStops'
    BY <2>1, <2>2, <2>7, <2>11, <2>3, <2>5, <2>6, <2>4, SqlNumbers, <1>7
       DEF SqlCounts, SqlFirst, SqlPoints, SqlRestart, SqlStops, InFiles, Stopping, Measured,
       Accounted, None, SqlBounds
  <2>19. fs'.at # "result"
    BY <2>2
  <2> QED BY <2>13, <2>12, <2>19, <2>14, <2>15, <2>16, <2>17, <2>18 DEF SqlCase, SqlPlaced, SqlDone
<1> QED BY <1>1, <1>2, <1>3, <1>4, <1>5, <1>6, <1>7

\* SqliteRecoverDaemon keeps the accounting of the case.
LEMMA SqliteRecoverDaemonMeasured ==
  ASSUME Types, FsHold, SqlCase, NEW reported \in BOOLEAN, SqliteRecoverDaemon(reported)
  PROVE  SqlCase'
<1>1. CASE ~reported
  <2>1. fs.at = "recover"
    BY <1>1 DEF SqliteRecoverDaemon, FsRecoverDaemon, HelperSucceeded, Step, FsHold, FsPlaced,
       FsWorking, FsSteps
  <2>2. /\ fs'.at \in {"recover_reap", "drop"}
        /\ fs'.step = fs.step /\ fs'.recovering = fs.recovering
    BY <2>1, <1>1 DEF SqliteRecoverDaemon, FsRecoverDaemon, Proceed, Fails, AfterCleanup, RunHelper,
       HelperSucceeded, Types, FsType, FsOK
  <2>3. SqlType /\ SqlBounds
    BY DEF SqlCase
  <2>4. io' = io
    BY <1>1 DEF SqliteRecoverDaemon, FsRecoverDaemon, sqliteVars
  <2>5. IoOK(io')
    BY <2>4, <2>3 DEF SqlType
  <2>6. sql' = sql
    BY <1>1 DEF SqliteRecoverDaemon, FsRecoverDaemon, sqliteVars
  <2>7. SqlOK(sql')
    BY <2>6, <2>3 DEF SqlType
  <2>8. SqlType'
    BY <2>5, <2>7 DEF SqlType
  <2>9. SqlBounds'
    BY <2>1, <2>2, <2>4, <2>6, <2>3, SqlNumbers, <1>1, MaxIoAssumption
       DEF SqlBounds, Accounted, Ended, None, SqlCounts, SqlFirst, SqlPoints, SqlRestart, SqlStops,
       InFiles, Stopping, Measured
  <2>10. ~InCase' /\ fs'.at # "result"
    BY <2>1, <2>2 DEF InCase, FsWorking, FsSteps, FsHold, FsPlaced
  <2> QED BY <2>10, <2>9, <2>8 DEF SqlCase, SqlPlaced, SqlDone
<1>2. CASE reported /\ sql.stops = 0
  <2>1. fs.at = "recover"
    BY <1>2 DEF SqliteRecoverDaemon, FsRecoverDaemon, HelperSucceeded, Step, FsHold, FsPlaced,
       FsWorking, FsSteps
  <2>2. /\ fs'.at \in {"recover_reap", "drop"}
        /\ fs'.step = fs.step /\ fs'.recovering = fs.recovering
    BY <2>1, <1>2 DEF SqliteRecoverDaemon, FsRecoverDaemon, Proceed, Fails, AfterCleanup, RunHelper,
       HelperSucceeded, Types, FsType, FsOK
  <2>3. SqlType /\ SqlBounds
    BY DEF SqlCase
  <2>4. [sql.firstEnd EXCEPT !.block = io.daemon] \in Points /\
          [sql.firstEnd EXCEPT !.block = io.daemon].block = io.daemon /\
          [sql.firstEnd EXCEPT !.block = io.daemon].ledger = sql.firstEnd.ledger
    BY <1>2, <2>1, <2>3, SqlValues DEF SqlType, SqlOK, Points
  <2>5. io' = io
    BY <1>2 DEF SqliteRecoverDaemon, FsRecoverDaemon, sqliteVars
  <2>6. IoOK(io')
    BY <2>5, <2>3 DEF SqlType
  <2>7. sql' = [sql EXCEPT !.firstEnd = [sql.firstEnd EXCEPT !.block = io.daemon],
          !.outputs = FALSE]
    BY <1>2, <2>1, <2>4 DEF SqliteRecoverDaemon, FsRecoverDaemon, WithReport, SqlType, SqlOK
  <2>8. SqlOK(sql')
    BY <2>7, NewCaseOK, <2>3, SqlValues, <2>4 DEF SqlType, SqlOK
  <2>9. /\ sql'.validations = sql.validations
        /\ sql'.stops = sql.stops
        /\ sql'.restarting = sql.restarting
        /\ sql'.closing = sql.closing
        /\ sql'.before = sql.before
        /\ sql'.last = sql.last
        /\ sql'.origin = sql.origin
        /\ sql'.firstEnd.block = io.daemon /\ sql'.firstEnd.ledger = sql.firstEnd.ledger
        /\ sql'.preStop = sql.preStop
        /\ sql'.phases = sql.phases
        /\ sql'.final = sql.final
    BY <2>7, <2>3, SqlValues, <2>4 DEF SqlType, SqlOK, NewCase
  <2>10. SqlType'
    BY <2>6, <2>8 DEF SqlType
  <2>11. SqlBounds'
    BY <2>1, <2>2, <2>5, <2>9, <2>4, <2>3, SqlNumbers, <1>2, MaxIoAssumption
       DEF SqlBounds, Accounted, Ended, None, SqlCounts, SqlFirst, SqlPoints, SqlRestart, SqlStops,
       InFiles, Stopping, Measured
  <2>12. ~InCase' /\ fs'.at # "result"
    BY <2>1, <2>2 DEF InCase, FsWorking, FsSteps, FsHold, FsPlaced
  <2> QED BY <2>12, <2>11, <2>10 DEF SqlCase, SqlPlaced, SqlDone
<1>3. CASE reported /\ sql.stops # 0
  <2>1. fs.at = "recover"
    BY <1>3 DEF SqliteRecoverDaemon, FsRecoverDaemon, HelperSucceeded, Step, FsHold, FsPlaced,
       FsWorking, FsSteps
  <2>2. /\ fs'.at \in {"recover_reap", "drop"}
        /\ fs'.step = fs.step /\ fs'.recovering = fs.recovering
    BY <2>1, <1>3 DEF SqliteRecoverDaemon, FsRecoverDaemon, Proceed, Fails, AfterCleanup, RunHelper,
       HelperSucceeded, Types, FsType, FsOK
  <2>3. SqlType /\ SqlBounds
    BY DEF SqlCase
  <2>4. [sql.preStop EXCEPT !.block = io.daemon] \in Points /\
          [sql.preStop EXCEPT !.block = io.daemon].block = io.daemon /\
          [sql.preStop EXCEPT !.block = io.daemon].ledger = sql.preStop.ledger
    BY <1>3, <2>1, <2>3, SqlValues DEF SqlType, SqlOK, Points
  <2>5. io' = io
    BY <1>3 DEF SqliteRecoverDaemon, FsRecoverDaemon, sqliteVars
  <2>6. IoOK(io')
    BY <2>5, <2>3 DEF SqlType
  <2>7. sql' = [sql EXCEPT !.preStop = [sql.preStop EXCEPT !.block = io.daemon], !.outputs = FALSE]
    BY <1>3, <2>1, <2>4 DEF SqliteRecoverDaemon, FsRecoverDaemon, WithReport, SqlType, SqlOK
  <2>8. SqlOK(sql')
    BY <2>7, NewCaseOK, <2>3, SqlValues, <2>4 DEF SqlType, SqlOK
  <2>9. /\ sql'.validations = sql.validations
        /\ sql'.stops = sql.stops
        /\ sql'.restarting = sql.restarting
        /\ sql'.closing = sql.closing
        /\ sql'.before = sql.before
        /\ sql'.last = sql.last
        /\ sql'.origin = sql.origin
        /\ sql'.firstEnd = sql.firstEnd
        /\ sql'.preStop.block = io.daemon /\ sql'.preStop.ledger = sql.preStop.ledger
        /\ sql'.phases = sql.phases
        /\ sql'.final = sql.final
    BY <2>7, <2>3, SqlValues, <2>4 DEF SqlType, SqlOK, NewCase
  <2>10. SqlType'
    BY <2>6, <2>8 DEF SqlType
  <2>11. SqlBounds'
    BY <2>1, <2>2, <2>5, <2>9, <2>4, <2>3, SqlNumbers, <1>3, MaxIoAssumption
       DEF SqlBounds, Accounted, Ended, None, SqlCounts, SqlFirst, SqlPoints, SqlRestart, SqlStops,
       InFiles, Stopping, Measured
  <2>12. ~InCase' /\ fs'.at # "result"
    BY <2>1, <2>2 DEF InCase, FsWorking, FsSteps, FsHold, FsPlaced
  <2> QED BY <2>12, <2>11, <2>10 DEF SqlCase, SqlPlaced, SqlDone
<1> QED BY <1>1, <1>2, <1>3

\* SqliteFinish keeps the accounting of the case.
LEMMA SqliteFinishMeasured ==
  ASSUME Types, FsHold, SqlCase, SqliteFinish
  PROVE  SqlCase'
<1>1. fs.at = "script" /\ fs.step \in 1..18 /\ ScriptStep
  BY InScript DEF SqliteFinish, Step, FsHold, ScriptStep, RemoveFixture
<1>2. fs.at = "script" /\ ScriptStep /\ (fs.step = 18)
  BY <1>1, StepNumbers DEF SqliteFinish, Step, RemoveFixture, RemoveFixture
<1>3. /\ fs'.at = "result"
      /\ fs'.step = fs.step /\ fs'.recovering = fs.recovering
  BY <1>2 DEF SqliteFinish, Proceed, Fails, AfterCleanup, RunHelper, HelperSucceeded, Types, FsType,
     FsOK, ScriptStep
<1>4. InCase /\ SqlCounts /\ SqlFirst /\ SqlPoints /\ SqlRestart /\ SqlStops
  BY <1>2 DEF InCase, FsWorking, FsSteps, SqlCase, SqlPlaced, ScriptStep
<1>5. SqlType /\ SqlBounds
  BY DEF SqlCase
<1>6. HasFinalPhase
  BY <1>2, <1>4, <1>5, SqlValues, SqlNumbers DEF HasFinalPhase, NoPoint, None, SqlCounts, SqlStops
<1>7. Ordered(sql.last, FinalEnd)
  BY <1>2, <1>4, <1>5, SqlValues, <1>6 DEF SqliteFinish, LedgerValid
<1>8. io.ledger \in -1..MaxIo
  BY <1>2, <1>4, <1>5, SqlValues, <1>6, <1>7, MaxIoAssumption
<1>9. daemon' = NoDaemon
  BY <1>2, <1>4, <1>5, SqlValues, <1>6, <1>7, <1>8
     DEF SqliteFinish, RemoveFixture, processVars, FsHold, FsHeld, ScriptStep, FsBare
<1>10. io' = io
  BY DEF SqliteFinish, sqliteVars
<1>11. IoOK(io')
  BY <1>10, <1>5 DEF SqlType
<1>12. sql' = [sql EXCEPT !.closing = FALSE, !.last = NoPoint, !.preStop = NoPoint,
         !.phases = [block |-> sql.phases.block + (sql.preStop.block - sql.last.block),
         ledger |-> sql.phases.ledger + (io.ledger - sql.last.ledger)], !.reader = FALSE,
         !.final = io.ledger]
  BY <1>2, <1>6, <1>7, <1>8, <1>9, <1>4
     DEF SqliteFinish, FinalLedger, FinalPhase, FinalEnd, Insert, Delta, SqlType, SqlOK
<1>13. [block |-> sql.phases.block + (sql.preStop.block - sql.last.block),
         ledger |-> sql.phases.ledger + (io.ledger - sql.last.ledger)] \in [block: Int, ledger: Int]
  BY <1>5, SqlNumbers
<1>14. SqlOK(sql')
  BY <1>12, NewCaseOK, <1>5, SqlValues, <1>6, <1>7, <1>8, <1>9, <1>13 DEF SqlType, SqlOK
<1>15. /\ sql'.validations = sql.validations
      /\ sql'.stops = sql.stops
      /\ sql'.restarting = sql.restarting
      /\ sql'.closing = FALSE
      /\ sql'.before = sql.before
      /\ sql'.last.block = None /\ sql'.last.ledger = None
      /\ sql'.origin = sql.origin
      /\ sql'.firstEnd = sql.firstEnd
      /\ sql'.preStop.block = None /\ sql'.preStop.ledger = None
      /\ sql'.phases.block = sql.phases.block + (sql.preStop.block - sql.last.block) /\
           sql'.phases.ledger = sql.phases.ledger + (io.ledger - sql.last.ledger)
      /\ sql'.final = io.ledger
  BY <1>12, <1>5, SqlValues, <1>6, <1>7, <1>8, <1>9, <1>13 DEF SqlType, SqlOK, NewCase
<1>16. SqlType'
  BY <1>11, <1>14 DEF SqlType
<1>17. SqlBounds'
  BY <1>2, <1>3, <1>10, <1>15, <1>4, <1>6, <1>7, <1>8, <1>9, <1>13, <1>5, SqlNumbers,
     MaxIoAssumption DEF SqlBounds, Accounted, Ended, None, SqlCounts, SqlFirst, SqlPoints,
     SqlRestart, SqlStops, InFiles, Stopping, Measured
<1>18. ~InCase'
  BY <1>2, <1>3 DEF InCase, FsWorking, FsSteps, FsHold, FsPlaced
<1>19. sql'.phases.block = io'.past + io'.daemon /\ sql'.phases.ledger = io'.ledger /\
         sql'.validations = 2
  BY <1>2, <1>3, <1>10, <1>15, <1>4, <1>6, <1>7, <1>8, <1>9, <1>13, <1>5, SqlNumbers
     DEF SqlCounts, SqlFirst, SqlPoints, SqlRestart, SqlStops, InFiles, Stopping, Measured,
     Accounted, SqlBounds
<1>20. sql'.phases \in [block: Int, ledger: Int]
  BY <1>14 DEF SqlOK
<1>21. SqlDone'
  BY <1>19, <1>20 DEF SqlDone
<1> QED BY <1>18, <1>17, <1>16, <1>21 DEF SqlCase, SqlPlaced

\* Leaving the case behind keeps the accounting.
LEMMA SqlEnds ==
  ASSUME SqlCase, UNCHANGED <<io, sql, daemon>>, fs'.at \in Ended, fs'.at # "result",
         FormatLeft => FormatLeft'
  PROVE  SqlCase'
<1>1. SqlType' /\ SqlBounds'
  BY DEF SqlCase, SqlType, SqlBounds, Accounted
<1>2. ~InCase'
  BY DEF InCase, FsWorking, FsSteps, Ended
<1> QED BY <1>1, <1>2 DEF SqlCase, SqlPlaced, SqlDone

\* What is left of the points when the ledger is final, or its validation has failed.
LEMMA FinalPoints ==
  ASSUME SqlType, SqlBounds, NEW f, f \in {FinalPhase, FinalLedger,
         [FinalPhase EXCEPT !.reader = FALSE]}
  PROVE  /\ SqlOK(f)
         /\ f.phases.block <= io.past + io.daemon /\ f.phases.ledger <= io.ledger
         /\ f.preStop.block = None /\ ~f.closing
         /\ f.final = sql.final \/ (f = FinalLedger /\ f.final = io.ledger)
<1> DEFINE p == IF HasFinalPhase /\ Ordered(sql.last, FinalEnd)
                THEN Insert(sql.phases, Delta(sql.last, FinalEnd)) ELSE sql.phases
           g == [sql EXCEPT !.closing = FALSE, !.last = NoPoint, !.preStop = NoPoint, !.phases = p]
<1>1. p \in [block: Int, ledger: Int] /\ p.block <= io.past + io.daemon /\ p.ledger <= io.ledger
  <2>1. CASE HasFinalPhase /\ Ordered(sql.last, FinalEnd)
    <3>1. p = [block |-> sql.phases.block + (sql.preStop.block - sql.last.block),
               ledger |-> sql.phases.ledger + (io.ledger - sql.last.ledger)]
      BY <2>1 DEF Insert, Delta, FinalEnd
    <3>2. /\ sql.phases.block + (sql.preStop.block - sql.last.block) \in Int
          /\ sql.phases.ledger + (io.ledger - sql.last.ledger) \in Int
      BY SqlNumbers
    <3>3. sql.phases.block = io.past + sql.last.block /\ sql.phases.ledger = sql.last.ledger
      BY <2>1 DEF HasFinalPhase, SqlBounds, Accounted
    <3>4. /\ sql.phases.block + (sql.preStop.block - sql.last.block) <= io.past + io.daemon
          /\ sql.phases.ledger + (io.ledger - sql.last.ledger) <= io.ledger
      BY <3>3, SqlNumbers DEF SqlBounds
    <3> HIDE DEF p
    <3> QED BY <3>1, <3>2, <3>4
  <2>2. CASE ~(HasFinalPhase /\ Ordered(sql.last, FinalEnd))
    <3>1. p = sql.phases
      BY <2>2
    <3> QED BY <3>1, SqlValues DEF SqlBounds
  <2> QED BY <2>1, <2>2
<1>2. FinalPhase = g
  BY DEF FinalPhase
<1> HIDE DEF p
<1>3. io.ledger \in -1..MaxIo
  BY SqlValues, MaxIoAssumption
<1>4. /\ SqlOK(g) /\ g.phases = p /\ g.preStop = NoPoint /\ g.closing = FALSE
      /\ g.final = sql.final
  BY <1>1, SqlValues DEF SqlType, SqlOK
<1> HIDE DEF g
<1>5. CASE f = FinalPhase
  BY <1>1, <1>2, <1>4, <1>5, SqlValues
<1>6. CASE f = [FinalPhase EXCEPT !.reader = FALSE]
  <2>1. f = [g EXCEPT !.reader = FALSE]
    BY <1>2, <1>6
  <2>2. /\ SqlOK(f) /\ f.phases = p /\ f.preStop = NoPoint /\ f.closing = FALSE
        /\ f.final = sql.final
    BY <1>4, <2>1 DEF SqlOK
  <2> QED BY <1>1, <2>2, SqlValues
<1>7. CASE f = FinalLedger
  <2>1. f = [g EXCEPT !.reader = FALSE, !.final = io.ledger]
    BY <1>2, <1>7 DEF FinalLedger
  <2>2. /\ SqlOK(f) /\ f.phases = p /\ f.preStop = NoPoint /\ f.closing = FALSE
        /\ f.final = io.ledger
    BY <1>3, <1>4, <2>1 DEF SqlOK
  <2> QED BY <1>1, <1>7, <2>2, SqlValues
<1> QED BY <1>5, <1>6, <1>7

\* A final ledger of a case that failed keeps the accounting.
LEMMA SqlFinal ==
  ASSUME SqlCase, UNCHANGED <<io, daemon>>, fs'.at = "fail",
         sql' \in {FinalPhase, FinalLedger, [FinalPhase EXCEPT !.reader = FALSE]},
         sql.final = None, daemon = NoDaemon
  PROVE  SqlCase'
<1> DEFINE f == sql'
<1>1. SqlType /\ SqlBounds
  BY DEF SqlCase
<1>2. /\ SqlOK(f)
      /\ f.phases.block <= io.past + io.daemon /\ f.phases.ledger <= io.ledger
      /\ f.preStop.block = None /\ ~f.closing
      /\ f.final = sql.final \/ f.final = io.ledger
  BY <1>1, FinalPoints
<1>3. SqlType'
  BY <1>1, <1>2 DEF SqlType
<1>4. SqlBounds'
  BY <1>1, <1>2, SqlNumbers DEF SqlBounds, Ended, None
<1>5. ~InCase' /\ fs'.at # "result"
  BY DEF InCase, FsWorking, FsSteps
<1> QED BY <1>3, <1>4, <1>5 DEF SqlCase, SqlPlaced, SqlDone

\* SqliteNew keeps the accounting of the case.
LEMMA SqliteNewMeasured ==
  ASSUME Types, FsHold, SqlCase, SqliteNew
  PROVE  SqlCase'
<1>1. fs.at = "select" /\ ~fs.recovering /\ fs.step = 1
  BY DEF SqliteNew, FsHold, FsPlaced, FsWorking, FsSteps
<1>2. fs'.at = "preflight" /\ fs'.step = 1 /\ ~fs'.recovering
  BY <1>1 DEF SqliteNew, Types, FsType, FsOK
<1>3. io' = NoIo /\ sql' = NewCase
  BY DEF SqliteNew
<1>4. SqlType'
  <2>1. IoOK(NoIo)
    BY MaxIoAssumption DEF NoIo, IoOK
  <2> QED BY <1>3, <2>1, NewCaseOK DEF SqlType
<1>5. /\ io'.kernel = 0 /\ io'.daemon = 0 /\ io'.ledger = 0 /\ io'.past = 0
      /\ sql'.validations = 0 /\ sql'.stops = 0 /\ ~sql'.restarting /\ ~sql'.closing
      /\ sql'.phases.block = 0 /\ sql'.phases.ledger = 0
      /\ sql'.preStop.block = None /\ sql'.final = None
  BY <1>3 DEF NoIo, NewCase, NoPoint
<1>6. SqlBounds'
  BY <1>5, MaxIoAssumption DEF SqlBounds, None
<1>7. SqlCounts' /\ SqlFirst' /\ SqlPoints' /\ SqlRestart' /\ SqlStops'
  BY <1>2, <1>5 DEF SqlCounts, SqlFirst, SqlPoints, SqlRestart, SqlStops, InFiles, Stopping
<1> QED BY <1>2, <1>4, <1>6, <1>7 DEF SqlCase, SqlPlaced, SqlDone

\* SqliteFinishFails keeps the accounting of the case.
LEMMA SqliteFinishFailsMeasured ==
  ASSUME Types, FsHold, SqlCase, NEW stage \in FinishStages, NEW imageLeft \in BOOLEAN,
         SqliteFinishFails(stage, imageLeft)
  PROVE  SqlCase'
<1>1. fs.at = "script" /\ fs.step \in 1..18 /\ ScriptStep
  BY InScript DEF SqliteFinishFails, Step, FsHold, ScriptStep
<1>2. fs.step = 18
  BY <1>1, StepNumbers DEF SqliteFinishFails, Step
<1>3. fs'.at = "fail" /\ io' = io /\ daemon' = daemon
  BY DEF SqliteFinishFails, processVars, Types, FsType, FsOK
<1>4. daemon = NoDaemon
  BY <1>1, <1>2 DEF ScriptStep, FsBare, FsHold, FsHeld
<1>5. sql.final = None
  BY <1>1 DEF SqlCase, SqlBounds, Ended
<1>6. CASE stage = "before"
  <2>1. sql' = sql
    BY <1>6 DEF SqliteFinishFails
  <2>2. FormatLeft => FormatLeft'
    BY DEF SqliteFinishFails, FormatLeft, Types, FsType, FsOK
  <2> QED BY <1>3, <2>1, <2>2, SqlEnds DEF Ended
<1>7. CASE stage # "before"
  <2>1. sql' \in {FinalPhase, FinalLedger, [FinalPhase EXCEPT !.reader = FALSE]}
    BY <1>7 DEF SqliteFinishFails, FinishStages
  <2> QED BY <1>3, <1>4, <1>5, <2>1, SqlFinal
<1> QED BY <1>6, <1>7

\* SqliteFailed keeps the accounting of the case.
LEMMA SqliteFailedMeasured ==
  ASSUME Types, FsHold, SqlCase, NEW written \in BOOLEAN, SqliteFailed(written)
  PROVE  SqlCase'
<1>1. fs.at = "drop" /\ fs'.at = "fail" /\ io' = io /\ daemon' = daemon
  BY DEF SqliteFailed, worldVars, processVars, Types, FsType, FsOK
<1>2. sql.final = None
  BY <1>1 DEF SqlCase, SqlBounds, Ended
<1>3. CASE ~sql.reader \/ fs.daemon
  <2>1. sql' = sql
    BY <1>3 DEF SqliteFailed
  <2>2. FormatLeft => FormatLeft'
    BY DEF SqliteFailed, FormatLeft, Types, FsType, FsOK
  <2> QED BY <1>1, <2>1, <2>2, SqlEnds DEF Ended
<1>4. CASE ~(~sql.reader \/ fs.daemon)
  <2>1. sql' \in {FinalPhase, FinalLedger, [FinalPhase EXCEPT !.reader = FALSE]}
    BY <1>4 DEF SqliteFailed
  <2>2. daemon = NoDaemon
    BY <1>4 DEF FsHold, FsHeld
  <2> QED BY <1>1, <1>2, <2>1, <2>2, SqlFinal
<1> QED BY <1>3, <1>4

\* What only the SQLite suite does keeps the accounting.
LEMMA SqliteOnlyMeasured ==
  ASSUME Types, FsHold, SqlCase, SqliteOnly
  PROVE  SqlCase'
<1>1. CASE SqliteTimeout
  <2>1. fs'.at = "fail" /\ UNCHANGED <<io, sql, daemon>>
    BY <1>1 DEF SqliteTimeout, worldVars, processVars, Types, FsType, FsOK
  <2>2. FormatLeft => FormatLeft'
    BY <1>1 DEF SqliteTimeout, FormatLeft, Types, FsType, FsOK
  <2> QED BY <2>1, <2>2, SqlEnds DEF Ended
<1>2. ASSUME NEW left \in BOOLEAN, SqliteNewFails(left)
      PROVE  SqlCase'
  <2>1. fs'.at = "fail" /\ UNCHANGED <<io, sql, daemon>>
    BY <1>2 DEF SqliteNewFails, processVars, Types, FsType, FsOK
  <2>2. FormatLeft => FormatLeft'
    BY <1>2 DEF SqliteNewFails, FormatLeft, Types, FsType, FsOK
  <2> QED BY <2>1, <2>2, SqlEnds DEF Ended
<1>3. ASSUME NEW written \in BOOLEAN, SqliteResult(written)
      PROVE  SqlCase'
  <2>1. fs'.at \in {"fail", "summary", "select"} /\ UNCHANGED <<io, sql, daemon>>
    BY <1>3 DEF SqliteResult, worldVars, processVars, Types, FsType, FsOK
  <2>2. FormatLeft => FormatLeft'
    BY <1>3 DEF SqliteResult, FormatLeft, Types, FsType, FsOK
  <2> QED BY <2>1, <2>2, SqlEnds DEF Ended
<1>4. ASSUME NEW written \in BOOLEAN, SqliteSummary(written)
      PROVE  SqlCase'
  <2>1. fs'.at \in {"fail", "pass"} /\ UNCHANGED <<io, sql, daemon>>
    BY <1>4 DEF SqliteSummary, worldVars, processVars, sqliteVars, Types, FsType, FsOK
  <2>2. FormatLeft => FormatLeft'
    BY <1>4 DEF SqliteSummary, FormatLeft, Types, FsType, FsOK
  <2> QED BY <2>1, <2>2, SqlEnds DEF Ended
<1> QED
  BY <1>1, <1>2, <1>3, <1>4, SqliteNewMeasured, SqlitePreflightMeasured, SqliteSetupMeasured,
     SqliteInitializedMeasured, SqliteDrainStartMeasured, SqliteDrainEndMeasured,
     SqliteWorkloadMeasured, SqliteVerifyMeasured, SqliteVerifiedMeasured,
     SqliteFilesFailMeasured, SqliteFinishMeasured, SqliteFinishFailsMeasured,
     SqliteFailedMeasured
  DEF SqliteOnly

\* The shared steps keep the accounting.
LEMMA CommonMeasured ==
  ASSUME Types, FsHold, SqlCase, FsCommonNext, UNCHANGED <<io, sql>>
  PROVE  SqlCase'
BY FsHelperFailsMeasured, FsCommandFailsMeasured, FsFormatFailsMeasured, FsReadyMeasured,
   FsCheckMeasured,
   FsFormatXfsMeasured, FsFormattedXfsMeasured, FsMountMeasured, FsUnmountMeasured,
   FsUnmountedMeasured, FsTerminateMeasured, FsExitedMeasured, FsReapedMeasured,
   FsRecoverMeasured, FsRecoverReapedMeasured, FsRecoverDeviceMeasured, FsUnrecoverableMeasured
DEF FsCommonNext

\* The counters move on, and no point is beyond them.
LEMMA CountersMeasured ==
  ASSUME Types, FsHold, SqlCase, CountersNext
  PROVE  SqlCase'
<1>1. Alive \/ FormatLeft
  BY Zenon DEF CountersNext, Served, KernelCounts, BackingOperation, OnDevice
<1>2. \/ fs.daemon /\ sql.final = None
      \/ FormatLeft /\ fs.at \in {"formatting", "mounting", "unmounting", "failed", "drop", "fail"}
  <2>1. Alive => daemon # NoDaemon
    BY DEF Alive, NoDaemon
  <2>2. Alive => fs.daemon /\ sql.final = None
    BY <2>1 DEF FsHold, FsHeld, SqlCase, SqlBounds
  <2>3. FormatLeft => fs.at \in {"formatting", "mounting", "unmounting", "failed", "drop", "fail"}
    BY DEF FormatLeft, FsHold, HelperHeld
  <2> QED BY <1>1, <2>2, <2>3
<1>3. SqlType /\ SqlBounds
  BY DEF SqlCase
<1>4. fs' = fs /\ sql' = sql /\ daemon' = daemon
  BY DEF CountersNext, worldVars, processVars
<1>5. /\ IoOK(io') /\ io'.past = io.past
      /\ io'.kernel >= io.kernel /\ io'.daemon >= io.daemon /\ io'.ledger >= io.ledger
      /\ io'.kernel <= io'.daemon /\ io'.past + io'.daemon <= MaxIo
  <2>1. CASE Served
    <3>1. io' = [io EXCEPT !.daemon = @ + 1] /\ io.past + io.daemon < MaxIo
      BY <2>1 DEF Served
    <3>2. io.daemon + 1 \in 0..MaxIo
      BY <1>3, <3>1, SqlNumbers, MaxIoAssumption
    <3>3. /\ IoOK(io') /\ io'.daemon = io.daemon + 1 /\ io'.past = io.past
          /\ io'.kernel = io.kernel /\ io'.ledger = io.ledger
      BY <1>3, <3>1, <3>2 DEF SqlType, IoOK
    <3> QED BY <1>3, <3>1, <3>3, SqlNumbers, MaxIoAssumption DEF SqlBounds
  <2>2. CASE KernelCounts
    <3>1. io' = [io EXCEPT !.kernel = @ + 1] /\ io.kernel < io.daemon
      BY <2>2 DEF KernelCounts
    <3>2. io.kernel + 1 \in 0..MaxIo
      BY <1>3, <3>1, SqlNumbers, MaxIoAssumption DEF SqlBounds
    <3>3. /\ IoOK(io') /\ io'.kernel = io.kernel + 1 /\ io'.past = io.past
          /\ io'.daemon = io.daemon /\ io'.ledger = io.ledger
      BY <1>3, <3>1, <3>2 DEF SqlType, IoOK
    <3> QED BY <1>3, <3>1, <3>3, SqlNumbers, MaxIoAssumption DEF SqlBounds
  <2>3. ASSUME NEW completed \in BOOLEAN, BackingOperation(completed)
        PROVE  /\ IoOK(io') /\ io'.past = io.past
               /\ io'.kernel >= io.kernel /\ io'.daemon >= io.daemon /\ io'.ledger >= io.ledger
               /\ io'.kernel <= io'.daemon /\ io'.past + io'.daemon <= MaxIo
    <3> DEFINE b == (io.clean /\ completed)
    <3>1. io' = [io EXCEPT !.ledger = @ + 1, !.clean = b] /\ io.ledger < MaxIo
      BY <2>3 DEF BackingOperation
    <3>2. io.ledger + 1 \in 0..MaxIo /\ b \in BOOLEAN
      <4>1. b \in BOOLEAN
        BY Zenon
      <4>2. io.ledger + 1 \in 0..MaxIo
        BY <1>3, <3>1, SqlNumbers, MaxIoAssumption
      <4> QED BY <4>1, <4>2
    <3> HIDE DEF b
    <3>3. /\ IoOK(io') /\ io'.ledger = io.ledger + 1 /\ io'.past = io.past
          /\ io'.daemon = io.daemon /\ io'.kernel = io.kernel
      BY <1>3, <3>1, <3>2 DEF SqlType, IoOK
    <3> QED BY <1>3, <3>1, <3>3, SqlNumbers, MaxIoAssumption DEF SqlBounds
  <2> QED BY <2>1, <2>2, <2>3 DEF CountersNext
<1>6. SqlType'
  BY <1>3, <1>4, <1>5 DEF SqlType
<1>7. io'.kernel \in Nat /\ io'.daemon \in Nat /\ io'.ledger \in Nat /\ io'.past \in Nat
  BY <1>5, MaxIoAssumption DEF IoOK
<1>8. SqlBounds'
  BY <1>2, <1>3, <1>4, <1>5, <1>7, SqlNumbers, MaxIoAssumption DEF SqlBounds, Accounted, FormatLeft
<1>9. InCase' = InCase
  BY <1>4 DEF InCase, FsWorking
<1>10. InCase =>
         /\ ~(fs.step <= 2 /\ fs.at # "ready") /\ ~(fs.step = 11 /\ fs.at = "script")
         /\ fs.step # 18
  BY <1>2 DEF InCase, FsHold, FsPlaced, FsWorking, FsSteps, FsBare
<1>11. InCase => SqlCounts' /\ SqlFirst' /\ SqlPoints' /\ SqlRestart' /\ SqlStops'
  <2> SUFFICES ASSUME InCase
               PROVE  SqlCounts' /\ SqlFirst' /\ SqlPoints' /\ SqlRestart' /\ SqlStops'
    OBVIOUS
  <2>1. SqlCounts /\ SqlFirst /\ SqlPoints /\ SqlRestart /\ SqlStops
    BY DEF SqlCase, SqlPlaced
  <2>2. SqlCounts' /\ SqlFirst' /\ SqlStops'
    BY <1>4, <1>5, <1>10, <2>1 DEF SqlCounts, SqlFirst, SqlStops, InFiles
  <2>3. SqlPoints'
    BY <1>3, <1>4, <1>5, <1>7, <2>1, SqlNumbers DEF SqlPoints, InFiles, Measured, Accounted
  <2>4. SqlRestart'
    BY <1>4, <1>5, <1>10, <2>1 DEF SqlRestart, Stopping
  <2> QED BY <2>2, <2>3, <2>4
<1>12. fs.at # "result"
  BY <1>2 DEF FsHold, FsPlaced, FsWorking, FsSteps, FsBare
<1> QED BY <1>4, <1>6, <1>8, <1>9, <1>11, <1>12 DEF SqlCase, SqlPlaced, SqlDone

\* Every step of the SQLite suite keeps the accounting.
LEMMA SqliteMeasured ==
  ASSUME Types, FsHold, SqlCase, SqliteNext
  PROVE  SqlCase'
<1>1. CASE SqliteOnly
  BY <1>1, SqliteOnlyMeasured
<1>2. CASE FsCommonNext /\ UNCHANGED sqliteVars
  BY <1>2, CommonMeasured DEF sqliteVars
<1>3. CASE FsError /\ ~Step("Finish") /\ UNCHANGED sqliteVars
  BY <1>3, FsErrorMeasured DEF sqliteVars
<1>4. CASE CountersNext
  BY <1>4, CountersMeasured
<1> QED
  BY <1>1, <1>2, <1>3, <1>4, SqliteFormatMeasured, SqliteStartMeasured, SqliteMountedMeasured,
     SqliteStopMeasured, SqliteGoneMeasured, SqliteRecoverDaemonMeasured
  DEF SqliteNext, SqliteOnly, FinishStages

\* The suite that runs stays the same.
LEMMA SqliteOnlyStays ==
  ASSUME Types, SqliteOnly
  PROVE  fs'.sqlite = fs.sqlite
<1>1. CASE SqliteTimeout
  BY <1>1 DEF SqliteTimeout, Proceed, Fails, AfterCleanup, Types, FsType, FsOK
<1>2. CASE SqliteNew
  BY <1>2 DEF SqliteNew, Proceed, Fails, AfterCleanup, Types, FsType, FsOK
<1>3. ASSUME NEW left \in BOOLEAN, SqliteNewFails(left)
      PROVE  fs'.sqlite = fs.sqlite
  BY <1>3 DEF SqliteNewFails, Proceed, Fails, AfterCleanup, Types, FsType, FsOK
<1>4. ASSUME NEW done \in BOOLEAN, NEW reaped \in BOOLEAN, SqlitePreflight(done, reaped)
      PROVE  fs'.sqlite = fs.sqlite
  BY <1>4 DEF SqlitePreflight, Proceed, Fails, AfterCleanup, Types, FsType, FsOK
<1>5. ASSUME NEW speedtest \in BOOLEAN, SqliteSetup(speedtest)
      PROVE  fs'.sqlite = fs.sqlite
  BY <1>5 DEF SqliteSetup, Proceed, Fails, AfterCleanup, Types, FsType, FsOK
<1>6. CASE SqliteInitialized
  BY <1>6 DEF SqliteInitialized, Proceed, Fails, AfterCleanup, Types, FsType, FsOK
<1>7. CASE SqliteDrainStart
  BY <1>7 DEF SqliteDrainStart, Proceed, Fails, AfterCleanup, Types, FsType, FsOK
<1>8. CASE SqliteDrainEnd
  BY <1>8 DEF SqliteDrainEnd, Proceed, Fails, AfterCleanup, Types, FsType, FsOK
<1>9. CASE SqliteWorkload
  BY <1>9 DEF SqliteWorkload, Proceed, Fails, AfterCleanup, Types, FsType, FsOK
<1>10. CASE SqliteVerify
  BY <1>10 DEF SqliteVerify, Proceed, Fails, AfterCleanup, Types, FsType, FsOK
<1>11. CASE SqliteVerified
  BY <1>11 DEF SqliteVerified, Proceed, Fails, AfterCleanup, Types, FsType, FsOK
<1>12. ASSUME NEW reaped \in BOOLEAN, SqliteFilesFail(reaped)
      PROVE  fs'.sqlite = fs.sqlite
  BY <1>12 DEF SqliteFilesFail, Proceed, Fails, AfterCleanup, Types, FsType, FsOK
<1>13. CASE SqliteFinish
  BY <1>13 DEF SqliteFinish, Proceed, Fails, AfterCleanup, Types, FsType, FsOK
<1>14. ASSUME NEW stage \in FinishStages, NEW imageLeft \in BOOLEAN, SqliteFinishFails(stage,
              imageLeft)
      PROVE  fs'.sqlite = fs.sqlite
  BY <1>14 DEF SqliteFinishFails, Proceed, Fails, AfterCleanup, Types, FsType, FsOK
<1>15. ASSUME NEW written \in BOOLEAN, SqliteResult(written)
      PROVE  fs'.sqlite = fs.sqlite
  BY <1>15 DEF SqliteResult, Proceed, Fails, AfterCleanup, Types, FsType, FsOK
<1>16. ASSUME NEW written \in BOOLEAN, SqliteSummary(written)
      PROVE  fs'.sqlite = fs.sqlite
  BY <1>16 DEF SqliteSummary, Proceed, Fails, AfterCleanup, Types, FsType, FsOK
<1>17. ASSUME NEW written \in BOOLEAN, SqliteFailed(written)
      PROVE  fs'.sqlite = fs.sqlite
  BY <1>17 DEF SqliteFailed, Proceed, Fails, AfterCleanup, Types, FsType, FsOK
<1> QED
  BY <1>1, <1>2, <1>3, <1>4, <1>5, <1>6, <1>7, <1>8, <1>9, <1>10, <1>11, <1>12, <1>13, <1>14, <1>15,
     <1>16, <1>17
  DEF SqliteOnly

\* A suite over real files has no SQLite case, and never one's result.
LEMMA FsStaysFiles ==
  ASSUME Types, FsNext, ~fs.sqlite
  PROVE  ~fs'.sqlite /\ fs'.at # "result"
<1>1. CASE FsFinish
  BY <1>1 DEF FsFinish, RemoveFixture, Step, Types, FsType, FsOK
<1>2. CASE FsDrop
  BY <1>2 DEF FsDrop, Types, FsType, FsOK
<1>3. CASE Inside
  BY <1>3 DEF Inside
<1>4. FsFinish \/ FsDrop \/ FsShared \/ FsFiles \/ \E imageLeft
        \in BOOLEAN : FsFinishFails(imageLeft)
  BY DEF FsNext, FsShared
<1> QED BY <1>1, <1>2, <1>3, <1>4, SharedInside, OthersInside

\* Every step keeps the accounting of the case.
LEMMA SqlStep ==
  ASSUME Types, Holding, SqlInv, [Next]_vars
  PROVE  SqlInv'
<1>1. CASE (WorldNext \/ SecondNext) /\ UNCHANGED <<helperVars, fio, fs, sqliteVars>>
  <2>1. Settles
    BY <1>1, WorldSettles, SecondSettles DEF Types
  <2> QED BY <1>1, <2>1, SqlKept DEF Settles, sqliteVars
<1>2. CASE OtherNext /\ ~fs.sqlite /\ UNCHANGED <<helperVars, fio, fs, sqliteVars>>
  <2>1. Settles
    BY <1>2, OtherSettles DEF Types
  <2> QED BY <1>2, <2>1, SqlKept DEF Settles, sqliteVars
<1>3. CASE HelperNext /\ fio.at = "off" /\ UNCHANGED <<worldVars, fio, fs, sqliteVars>>
  BY <1>3, SqlKept DEF worldVars, processVars, sqliteVars
<1>4. CASE FioNext /\ UNCHANGED <<helperVars, fs, sqliteVars>>
  <2>1. fs = FsIdle
    BY <1>4, FioSuiteTypes DEF Types, WorldType, Holding, OneSuite, FsType
  <2>2. ~fs.sqlite /\ fs' = fs /\ UNCHANGED <<io, sql, index>>
    BY <1>4, <2>1 DEF FsIdle, sqliteVars
  <2> QED BY <2>2 DEF SqlInv, SqliteIdle
<1>5. CASE FsNext /\ ~fs.sqlite /\ UNCHANGED <<fio, sqliteVars>>
  <2>1. ~fs'.sqlite /\ fs'.at # "result"
    BY <1>5, FsStaysFiles
  <2> QED BY <1>5, <2>1 DEF SqlInv, SqliteIdle, sqliteVars
<1>6. CASE SqliteNext /\ fs.sqlite /\ UNCHANGED fio
  <2>1. fs'.sqlite
    <3>1. CASE FsShared
      BY <1>6, <3>1, SharedInside DEF Inside
    <3>2. CASE SqliteOnly
      BY <1>6, <3>2, SqliteOnlyStays
    <3>3. CASE CountersNext
      BY <1>6, <3>3 DEF CountersNext
    <3> QED BY <1>6, <3>1, <3>2, <3>3, SqliteShares
  <2>2. fs.at # "off"
    BY <1>6 DEF Types, FsType, FsIdle
  <2>3. FsHold
    BY <2>2, FsHoldsBefore
  <2>4. SqlCase'
    BY <1>6, <2>3, SqliteMeasured DEF SqlInv
  <2> QED BY <2>1, <2>4 DEF SqlInv
<1>7. CASE UNCHANGED vars
  BY <1>7, SqlKept DEF vars, worldVars, processVars, sqliteVars
<1> QED
  BY <1>1, <1>2, <1>3, <1>4, <1>5, <1>6, <1>7 DEF Next

\* What the accounting says of all suites.
LEMMA SqlInvSuffices ==
  ASSUME SqlInv
  PROVE  MeasuredOnce
<1>1. SqlBounds
  BY MaxIoAssumption, SqlUnused DEF SqlInv, SqlCase
<1>2. SqlDone
  BY DEF SqlInv, SqlCase, SqlDone
<1>3. daemon = NoDaemon => ~Alive
  BY DEF Alive, NoDaemon
<1> QED BY <1>1, <1>2, <1>3 DEF MeasuredOnce, SqlBounds, SqlDone

-----------------------------------------------------------------------------
(* The first state.                                                        *)

\* The values the suites start with.
LEMMA NothingRecorded ==
  /\ Unrecorded \in Records
  /\ NoDaemon.state = "none" /\ NoDaemon.id = None /\ NoDaemon.signal = "none"
BY DEF Unrecorded, Records, IdsOrNone, NoDaemon

\* The first states of the suites have their types.
LEMMA IdleOK ==
  /\ FioOK(FioIdle)
  /\ \A scenario \in DOMAIN Scenarios :
       FioOK([FioIdle EXCEPT !.at = "script", !.scenario = scenario])
  /\ FsOK(FsIdle)
  /\ FsOK([FsIdle EXCEPT !.at = "script"])
  /\ FsOK([FsIdle EXCEPT !.at = "select", !.sqlite = TRUE])
<1>1. 1 \in Nat /\ 1 \in 1..FioRounds /\ 1 \in 1..FsRounds
  BY FioRoundsAssumption, FsRoundsAssumption
<1>2. "Sequential" \in DOMAIN Scenarios
  BY DEF Scenarios
<1>3. FioOK(FioIdle)
  BY <1>1, <1>2, NothingRecorded DEF FioIdle, FioOK, FioPlaces
<1>4. FioIdle.device = Unrecorded /\ FsIdle.device = Unrecorded
  BY DEF FioIdle, FsIdle
<1>5. \A scenario \in DOMAIN Scenarios :
        FioOK([FioIdle EXCEPT !.at = "script", !.scenario = scenario])
  BY <1>3, <1>4 DEF FioOK, FioPlaces
<1>6. FsOK(FsIdle)
  BY <1>1, NothingRecorded DEF FsIdle, FsOK, FsPlaces
<1> QED BY <1>3, <1>4, <1>5, <1>6, Zenon DEF FsOK, FsPlaces

\* The first state of the machine.
LEMMA WorldInitHolds ==
  ASSUME WorldInit, HelperInit
  PROVE  /\ WorldType /\ HelperType /\ OwnDevices = {}
         /\ \A id \in Ids : ~devices[id].known /\ devices[id].owner # "second"
<1>1. NoDevice \in Device /\ DeviceOK(NoDevice) /\ NoDevice.owner = "none" /\ ~NoDevice.known
  BY DEF NoDevice, Device, DeviceOK
<1>2. \A id \in Ids : devices[id] = NoDevice
  BY DEF WorldInit
<1>3. KernelType
  BY <1>1, <1>2 DEF KernelType, WorldInit
<1>4. DaemonOK(NoDaemon)
  BY DEF DaemonOK, NoDaemon, Daemons, IdsOrNone
<1>5. DeletionOK(NoDeletion)
  BY DEF DeletionOK, NoDeletion, Deletions, IdsOrNone
<1>6. ProcessType /\ FileType
  BY <1>4, <1>5 DEF ProcessType, FileType, ReapStates, SecondStates, WorldInit
<1>7. HelperType
  BY DEF HelperType, HelperInit, NoHelper
<1>8. OwnDevices = {} /\ \A id \in Ids : ~devices[id].known /\ devices[id].owner # "second"
  BY <1>1, <1>2 DEF OwnDevices
<1> QED BY <1>3, <1>6, <1>7, <1>8 DEF WorldType

\* The first states of the three suites: nothing is held yet.
Fresh ==
  /\ WorldInit /\ HelperInit
  /\ ~fio.child /\ fio.device = Unrecorded
  /\ ~fs.daemon /\ fs.device = Unrecorded /\ ~fs.command /\ ~fs.recovering
  /\ fio.at = "off" \/ fs.at = "off"
  /\ fio.at \in {"off", "script"} /\ (fio.at = "script" => FioInScript /\ FioOp = "setup")
  /\ fs.at \in {"off", "script", "select"} /\ fs.step = 1

\* A suite that holds nothing holds what it should.
LEMMA FreshHolds ==
  ASSUME Fresh
  PROVE  Holding /\ SecondInv /\ ForeignInv
<1>1. OwnDevices = {} /\ \A id \in Ids : ~devices[id].known
  BY WorldInitHolds DEF Fresh
<1>2. daemon = NoDaemon /\ reap = "idle" /\ deletion = NoDeletion /\ ~Alive
  BY DEF Fresh, WorldInit, Alive, NoDaemon
<1>3. OneSuite /\ DaemonHeld /\ KnownRecorded /\ ReapPlaced /\ DeletionPlaced
  BY <1>1, <1>2 DEF Fresh, OneSuite, DaemonHeld, KnownRecorded, ReapPlaced, DeletionPlaced
<1>4. FioPlaced /\ FioOwns
  BY <1>1 DEF Fresh, FioPlaced, FioOwns, FioBare, RunOps
<1>5. FsPlaced /\ FsOwns
  BY <1>1 DEF Fresh, FsPlaced, FsOwns, FsWorking, FsSteps, FsBare
<1>6. HelperPlaced /\ ImageOutlivesUse
  BY <1>1, <1>2 DEF Fresh, HelperInit, HelperPlaced, ImageOutlivesUse
<1>7. ForeignInv
  BY <1>2, NoneNotId, NothingRecorded DEF Fresh, WorldInit, ForeignInv, NoDeletion
<1>8. SecondInv
  BY WorldInitHolds DEF Fresh, WorldInit, SecondInv
<1> QED BY <1>3, <1>4, <1>5, <1>6, <1>7, <1>8 DEF Holding

\* The index of a suite that starts.
LEMMA NoIndexPasses ==
  ASSUME index = NoIndex, fs.at \notin {"pass", "result", "summary"}, fio.at # "pass",
         fs.sqlite => fs.round = 1
  PROVE  PassInv
<1>1. IndexType /\ index.completed = 0 /\ index.failed = 0
  BY DEF NoIndex, IndexType, IndexOK
<1>2. index.results = [n \in 1..0 |-> "pass"]
  BY DEF NoIndex
<1> QED BY <1>1, <1>2, FsRoundsAssumption DEF PassInv, Passed

\* The first states satisfy the invariant.
LEMMA InitHolds ==
  ASSUME Init
  PROVE  IInv
<1>0. WorldInit /\ HelperInit /\ WorldType /\ HelperType
  BY WorldInitHolds DEF Init
<1>1. CASE FioInit /\ fs = FsIdle /\ SqliteIdle
  <2>1. PICK scenario \in DOMAIN Scenarios :
          fio = [FioIdle EXCEPT !.at = "script", !.scenario = scenario]
    BY <1>1, Zenon DEF FioInit
  <2>2. /\ fio.at = "script" /\ fio.scenario = scenario /\ fio.step = 1 /\ fio.proven = FALSE
        /\ ~fio.child /\ fio.device = Unrecorded
    BY <2>1 DEF FioIdle
  <2>3. /\ fs.at = "off" /\ ~fs.daemon /\ fs.device = Unrecorded /\ ~fs.command /\ ~fs.recovering
        /\ ~fs.sqlite /\ fs.step = 1
    BY <1>1 DEF FsIdle
  <2>4. Types
    BY <1>0, <1>1, <2>1, <2>2, IdleOK, Zenon DEF Types, FioType, FsType
  <2>5. FioInScript /\ FioOp = "setup"
    <3>1. /\ 1 \in 1..Len(Script(scenario, FALSE))
          /\ Script(scenario, FALSE)[1] = "setup"
      BY ScriptStart
    <3> QED BY <2>2, <3>1 DEF FioInScript, FioOp
  <2>6. Holding /\ SecondInv /\ ForeignInv
    BY <1>0, <2>2, <2>3, <2>5, FreshHolds DEF Fresh
  <2>7. PassInv
    BY <1>1, <2>2, <2>3, NoIndexPasses DEF SqliteIdle
  <2> QED BY <1>1, <2>3, <2>4, <2>6, <2>7 DEF IInv, SqlInv
<1>2. CASE FsInit /\ fio = FioIdle /\ SqliteIdle
  <2>1. fs.at = "script" /\ ~fs.daemon /\ fs.device = Unrecorded /\ ~fs.command /\ ~fs.recovering
        /\ ~fs.sqlite /\ fs.step = 1
    BY <1>2 DEF FsInit, FsIdle
  <2>2. fio.at = "off" /\ ~fio.child /\ fio.device = Unrecorded
    BY <1>2 DEF FioIdle
  <2>3. Types
    BY <1>0, <1>2, <2>1, IdleOK, Zenon DEF Types, FioType, FsType, FsInit
  <2>4. Holding /\ SecondInv /\ ForeignInv
    BY <1>0, <2>1, <2>2, FreshHolds DEF Fresh
  <2>5. PassInv
    BY <1>2, <2>1, <2>2, NoIndexPasses DEF SqliteIdle
  <2> QED BY <1>2, <2>1, <2>3, <2>4, <2>5 DEF IInv, SqlInv
<1>3. CASE SqliteInit /\ fio = FioIdle
  <2>1. fs.at = "select" /\ ~fs.daemon /\ fs.device = Unrecorded /\ ~fs.command /\ ~fs.recovering
        /\ fs.sqlite /\ fs.step = 1 /\ fs.round = 1
    BY <1>3 DEF SqliteInit, FsIdle
  <2>2. fio.at = "off" /\ ~fio.child /\ fio.device = Unrecorded
    BY <1>3 DEF FioIdle
  <2>3. Types
    BY <1>0, <1>3, <2>1, IdleOK, Zenon DEF Types, FioType, FsType, SqliteInit
  <2>4. Holding /\ SecondInv /\ ForeignInv
    BY <1>0, <2>1, <2>2, FreshHolds DEF Fresh
  <2>5. PassInv
    BY <1>3, <2>1, <2>2, NoIndexPasses DEF SqliteInit
  <2>6. io = NoIo /\ sql = NewCase
    BY <1>3 DEF SqliteInit
  <2>7. SqlType
    <3>1. IoOK(io)
      BY <2>6, MaxIoAssumption DEF NoIo, IoOK
    <3> QED BY <2>6, <3>1, NewCaseOK DEF SqlType
  <2>8. SqlBounds
    BY <2>6, MaxIoAssumption DEF SqlBounds, NoIo, NewCase, NoPoint, None
  <2>9. SqlCase
    BY <2>1, <2>7, <2>8 DEF SqlCase, SqlPlaced, SqlDone, InCase
  <2> QED BY <2>1, <2>3, <2>4, <2>5, <2>9 DEF IInv, SqlInv
<1> QED BY <1>1, <1>2, <1>3 DEF Init

-----------------------------------------------------------------------------
(* The theorems.                                                           *)

\* Every step keeps the invariant.
LEMMA IInvStep ==
  ASSUME IInv, [Next]_vars
  PROVE  IInv'
<1>1. Types'
  BY TypesStep DEF IInv, Holding
<1>2. Holding'
  BY HoldingStep DEF IInv
<1>3. ForeignInv'
  BY ForeignStep DEF IInv
<1>4. PassInv'
  BY PassStep DEF IInv
<1>5. SqlInv'
  BY SqlStep DEF IInv
<1>6. SecondInv'
  BY SecondStep DEF IInv
<1> QED BY <1>1, <1>2, <1>3, <1>4, <1>5, <1>6 DEF IInv

\* The invariant implies the type invariant of Lab.
LEMMA IInvTypes ==
  ASSUME IInv
  PROVE  TypeOK
<1> USE DEF IInv, Types, WorldType
<1>1. /\ daemon.state \in {"none", "starting", "serving", "parked", "exited"}
      /\ daemon.id \in Ids \cup {None}
      /\ daemon.signal \in {"none", "TERM", "KILL"}
      /\ daemon.status \in {"none", "ok", "failed", "killed"}
  BY DEF ProcessType, DaemonOK, Daemons, IdsOrNone
<1>2. deletion \in [id: Ids \cup {None}, state: {"none", "running", "done", "failed"}]
  BY DEF ProcessType, DeletionOK, Deletions, IdsOrNone
<1>3. /\ devices \in [Ids -> Device]
      /\ reap \in {"idle", "grace", "killed", "ok", "error"}
      /\ stray \subseteq Ids
      /\ second \in {"none", "starting", "refused", "adding", "serving", "stopping"}
  BY DEF KernelType, ProcessType, ReapStates, SecondStates
<1>4. {generation, strayed, foreignLost, dir, image, mount, foreignMount} \subseteq BOOLEAN
  <2>1. /\ generation \in BOOLEAN /\ strayed \in BOOLEAN /\ foreignLost \in BOOLEAN
        /\ dir \in BOOLEAN /\ image \in BOOLEAN /\ mount \in BOOLEAN /\ foreignMount \in BOOLEAN
    BY DEF KernelType, ProcessType, FileType, HelperType
  <2> QED BY <2>1, Zenon
<1>5. /\ work \in {"none", "root", "caller"}
      /\ helper \in [action: {"none", "format", "mount", "unmount"},
                     stage: {"none", "check", "setup", "chown", "rollback", "ok", "failed"}]
  BY DEF HelperType
<1>6. SqlType
  BY MaxIoAssumption, SqlUnused DEF SqlInv, SqlCase
<1>7. io \in [kernel: 0..MaxIo, daemon: 0..MaxIo, ledger: 0..MaxIo, clean: BOOLEAN, past: 0..MaxIo]
  BY <1>6 DEF SqlType, IoOK
<1>8. {sql.before, sql.drain, sql.last, sql.origin, sql.firstEnd, sql.preStop}
        \subseteq [block: -1..MaxIo, ledger: -1..MaxIo]
  <2>1. /\ sql.before \in Points /\ sql.drain \in Points /\ sql.last \in Points
        /\ sql.origin \in Points /\ sql.firstEnd \in Points /\ sql.preStop \in Points
    BY <1>6 DEF SqlType, SqlOK
  <2> QED BY <2>1, Zenon DEF Points
<1>9. \A n \in DOMAIN index.results : index.results[n] \in {"none", "failed", "pass"}
  <2>1. index.results \in Seq(Verdicts)
    BY DEF PassInv, IndexType, IndexOK
  <2> QED BY <2>1 DEF Verdicts
<1> QED BY <1>1, <1>2, <1>3, <1>4, <1>5, <1>7, <1>8, <1>9, Zenon DEF TypeOK

\* The inductive invariant of the live suites: what the lab holds at each place of a run and of
\* its cleanup, whose devices the kernel has, where the second daemon of the lock proof can be left,
\* what a repetition leaves and what a SQLite case has measured (run_all, prove_backing_lock,
\* execute_lifecycle, run_matrix).
THEOREM LabInvariant == Spec => []IInv
<1>1. Init => IInv
  BY InitHolds
<1>2. IInv /\ [Next]_vars => IInv'
  BY IInvStep
<1> QED BY <1>1, <1>2, PTL DEF Spec

\* While the daemon a suite holds runs, or a device it recorded is in the kernel, the backing image is
\* there, whichever step of a run or of its cleanup failed (cleanup_error_with, finish).  Nothing is
\* said of the second daemon of prove_backing_lock, which can outlive its cleanup and the image.
THEOREM LabTypeAndImage == Spec => []LabInv
<1>1. IInv => LabInv
  BY IInvTypes DEF LabInv, IInv, Holding
<1> QED BY <1>1, LabInvariant, PTL

\* The fio suite deletes by id, but never a device somebody else has added, unless a delete
\* command outlived its cleanup (require_deletable_device).
THEOREM LabSparesForeignDevices == Spec => []ForeignUntouched
<1>1. IInv => ForeignUntouched
  BY DEF IInv, ForeignInv, ForeignUntouched
<1> QED BY <1>1, LabInvariant, PTL

\* No filesystem suite signals the daemon while the filesystem is mounted or being mounted
\* (recover_error, stop).
THEOREM LabKeepsDaemonMounted == Spec => MountKeepsDaemon
<1>1. IInv /\ [Next]_vars =>
        [fs.at # "off" /\ Signalled => ~mount /\ helper.action # "mount"]_vars
  BY MountKeepsDaemonStep DEF IInv
<1> QED BY <1>1, LabInvariant, PTL DEF Spec, MountKeepsDaemon

\* A suite that reports PASS has left no daemon, not even the second one of the lock proof, no device,
\* mount or file, and the SQLite manifest
\* says so only when every selection passed (run_all, finish, SuiteIndex::write).
THEOREM LabPassesClean == Spec => []PassIsClean
<1>1. IInv => PassIsClean
  BY PassInvSuffices DEF IInv
<1> QED BY <1>1, LabInvariant, PTL

\* A SQLite case attributes no request and no backing operation twice, and all of them when it
\* ends well; a final ledger has no daemon left, and changes only by a format command that outlived
\* its cleanup (sqlite_mounted, sqlite_stopping, sqlite_finalize_ledger).
THEOREM LabMeasuresOnce == Spec => []MeasuredOnce
<1>1. IInv => MeasuredOnce
  BY SqlInvSuffices DEF IInv
<1> QED BY <1>1, LabInvariant, PTL
=============================================================================
