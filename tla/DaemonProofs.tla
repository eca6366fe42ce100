---------------------------- MODULE DaemonProofs ----------------------------
(***************************************************************************)
(* The shutdown protocol of the daemon, proved for every interleaving of   *)
(* its threads and any number of requests.                                 *)
(***************************************************************************)
EXTENDS Daemon, TLAPS

\* The answers of the daemon as a set.
Replies == {"ok", "einval", "enospc", "eio"}
Answers == [reply : Replies, vol : {"open", "latched", "closed"}, fatal : BOOLEAN]

\* What a request may come to: an answer, a verdict, and a volume that is closed
\* only if it was (handle_request).
LEMMA OutcomeType ==
  ASSUME NEW r \in Requests, NEW a \in Outcomes(r), vol \in {"open", "latched", "closed"}
  PROVE  a \in Answers /\ (a.vol = "closed" => vol = "closed")
<1>1. \A x \in Replies, v \in {"open", "latched", "closed"}, f \in BOOLEAN :
        Answer(x, v, f) \in Answers /\ Answer(x, v, f).vol = v
  BY DEF Answer, Answers
<1>2. \A x \in Replies, v \in {"open", "latched"}, f \in BOOLEAN :
        Answer(x, v, f) \in Answers /\ Answer(x, v, f).vol # "closed"
  BY <1>1
<1> HIDE DEF Answers
<1>3. ASSUME NEW b \in FlushFailures PROVE b \in Answers /\ b.vol # "closed"
  BY <1>2 DEF FlushFailures, Replies
<1>4. ASSUME NEW t, NEW b \in Transfer(t) PROVE b \in Answers /\ b.vol # "closed"
  <2>1. CASE t = "read"  BY <1>2, <2>1 DEF Transfer, Replies
  <2>2. CASE t # "read"  BY <1>2, <2>2 DEF Transfer, Replies
  <2>. QED  BY <2>1, <2>2
<1>5. CASE r = "bad"
  BY <1>1, <1>5 DEF Outcomes, Replies
<1>6. CASE r # "bad" /\ vol # "open"
  BY <1>1, <1>6 DEF Outcomes, Replies
<1>7. CASE r \in {"read", "write", "fua"} /\ vol = "open"
  <2>1. a \in Transfer(r) \cup FlushFailures
    BY <1>7 DEF Outcomes
  <2>. QED  BY <1>3, <1>4, <2>1
<1>8. CASE r = "flush" /\ vol = "open"
  <2>1. a = Answer("ok", "open", FALSE) \/ a \in FlushFailures
    BY <1>8 DEF Outcomes
  <2>. QED  BY <1>2, <1>3, <2>1 DEF Replies
<1>. QED  BY <1>5, <1>6, <1>7, <1>8 DEF Requests

\* Types are kept by every step.
LEMMA TypeStep == TypeOK /\ [Next]_vars => TypeOK'
<1> SUFFICES ASSUME TypeOK, [Next]_vars PROVE TypeOK'
  OBVIOUS
<1> USE DEF TypeOK, Requests, shared, volVars, queueVars, stopVars
<1>1. ASSUME Engine PROVE TypeOK'
  <2>1. PICK a \in Outcomes(req) :
          /\ reply' = a.reply /\ vol' = a.vol
          /\ unsafe' = IF a.reply = "ok" THEN UnsafeAfter(req) ELSE unsafe
          /\ failed' = (failed \/ a.fatal) /\ qerr' = (qerr \/ a.fatal)
    BY <1>1 DEF Engine
  <2>2. /\ a.reply \in Replies /\ a.fatal \in BOOLEAN
        /\ a.vol \in {"open", "latched", "closed"}
    BY OutcomeType DEF Answers
  <2>3. UnsafeAfter(req) \in BOOLEAN
    BY DEF UnsafeAfter
  <2>. QED  BY <1>1, <2>1, <2>2, <2>3 DEF Engine, Replies
<1>2. ASSUME QueueStart \/ BeginWork \/ CheckStop \/ Complete \/ DropGuard PROVE TypeOK'
  BY <1>2 DEF QueueStart, BeginWork, CheckStop, Complete, DropGuard, PhaseAfterDrop
<1>3. ASSUME QueueEnds \/ QueueCloses PROVE TypeOK'
  BY <1>3 DEF QueueEnds, QueueCloses, CloseVolume, CloseResult
<1>4. ASSUME StopThread PROVE TypeOK'
  BY <1>4 DEF StopThread, StopIfIdle, StopReady, StopDone, StopKill
<1>5. ASSUME MainThread PROVE TypeOK'
  BY <1>5 DEF MainThread, StartDevice, Ready, ReadyFailed, TargetDone, Join, Shutdown, Exit,
              CloseVolume
<1>6. ASSUME NEW r \in Requests, Fetch(r) PROVE TypeOK'
  BY <1>6 DEF Fetch
<1>7. ASSUME Sigterm \/ Delete \/ Exited \/ UNCHANGED vars PROVE TypeOK'
  BY <1>7 DEF Sigterm, Delete, Exited, vars
<1>. QED  BY <1>1, <1>2, <1>3, <1>4, <1>5, <1>6, <1>7 DEF Next, QueueThread

\* The guard of a request and the phase agree after every step.
LEMMA GuardStep == TypeOK /\ GuardInv /\ [Next]_vars => GuardInv'
<1> SUFFICES ASSUME TypeOK, GuardInv, [Next]_vars PROVE GuardInv'
  OBVIOUS
<1> USE DEF TypeOK, GuardInv, shared, volVars, queueVars, stopVars
<1>1. ASSUME QueueThread PROVE GuardInv'
  <2>1. CASE BeginWork \/ CheckStop  BY <2>1 DEF BeginWork, CheckStop
  <2>2. CASE DropGuard              BY <2>2 DEF DropGuard, PhaseAfterDrop
  <2>3. CASE Engine \/ Complete     BY <2>3 DEF Engine, Complete
  <2>4. CASE QueueStart             BY <2>4 DEF QueueStart
  <2>5. CASE QueueEnds              BY <2>5 DEF QueueEnds
  <2>6. CASE QueueCloses            BY <2>6 DEF QueueCloses
  <2>. QED  BY <1>1, <2>1, <2>2, <2>3, <2>4, <2>5, <2>6 DEF QueueThread
<1>2. ASSUME StopThread PROVE GuardInv'
  BY <1>2 DEF StopThread, StopIfIdle, MayStop, StopReady, StopDone, StopKill
<1>3. ASSUME MainThread PROVE GuardInv'
  <2>1. UNCHANGED <<phase, held, qpc, spc>>
    BY <1>3 DEF MainThread, StartDevice, Ready, ReadyFailed, TargetDone, Join, Shutdown, Exit
  <2>. QED  BY <2>1
<1>4. ASSUME NEW r \in Requests, Fetch(r) PROVE GuardInv'
  BY <1>4 DEF Fetch
<1>5. ASSUME Sigterm \/ Delete \/ Exited \/ UNCHANGED vars PROVE GuardInv'
  BY <1>5 DEF Sigterm, Delete, Exited, vars
<1>. QED  BY <1>1, <1>2, <1>3, <1>4, <1>5 DEF Next

\* The owner of the volume after every step.  Only the request handler uses an
\* open volume, and it has the queue's place in the protocol.
LEMMA OwnerStep == DaemonInv /\ [Next]_vars => OwnerInv'
<1> SUFFICES ASSUME DaemonInv, [Next]_vars PROVE OwnerInv'
  OBVIOUS
<1> USE DEF DaemonInv, TypeOK, OwnerInv, shared, volVars, queueVars, stopVars
<1>1. ASSUME Engine PROVE OwnerInv'
  <2>1. vol # "closed" /\ \A a \in Outcomes(req) : a.vol # "closed"
    BY <1>1, OutcomeType DEF Engine
  <2>2. vol' # "closed"
    BY <1>1, <2>1 DEF Engine
  <2>. QED  BY <1>1, <2>2 DEF Engine
<1>2. ASSUME QueueStart \/ BeginWork \/ CheckStop \/ Complete \/ DropGuard PROVE OwnerInv'
  BY <1>2 DEF QueueStart, BeginWork, CheckStop, Complete, DropGuard
<1>3. ASSUME QueueEnds \/ QueueCloses PROVE OwnerInv'
  BY <1>3 DEF QueueEnds, QueueCloses, CloseVolume, CloseResult
<1>4. ASSUME StopThread PROVE OwnerInv'
  BY <1>4 DEF StopThread, StopIfIdle, StopReady, StopDone, StopKill
<1>5. ASSUME MainThread PROVE OwnerInv'
  <2>1. CASE StartDevice \/ Ready \/ ReadyFailed
    BY <2>1 DEF StartDevice, Ready, ReadyFailed
  <2>2. CASE TargetDone \/ Join  BY <2>2 DEF TargetDone, Join
  <2>3. CASE Shutdown            BY <2>3 DEF Shutdown, CloseVolume
  <2>4. CASE Exit                BY <2>4 DEF Exit
  <2>. QED  BY <1>5, <2>1, <2>2, <2>3, <2>4 DEF MainThread
<1>6. ASSUME NEW r \in Requests, Fetch(r) PROVE OwnerInv'
  BY <1>6 DEF Fetch
<1>7. ASSUME Sigterm \/ Delete \/ Exited \/ UNCHANGED vars PROVE OwnerInv'
  BY <1>7 DEF Sigterm, Delete, Exited, vars
<1>. QED  BY <1>1, <1>2, <1>3, <1>4, <1>5, <1>6, <1>7 DEF Next, QueueThread

\* The inductive invariant of the daemon's threads holds in every state
\* (DrainState, InFlightRequest, serve's hand-over of the volume).
THEOREM DaemonInvariant == Spec => []DaemonInv
<1>1. Init => DaemonInv
  BY DEF Init, DaemonInv, TypeOK, GuardInv, OwnerInv, Requests
<1>2. DaemonInv /\ [Next]_vars => DaemonInv'
  BY TypeStep, GuardStep, OwnerStep DEF DaemonInv
<1>. QED  BY <1>1, <1>2, PTL DEF Spec

\* The device is stopped only when no request is in the engine
\* (begin_engine_work, stop_if_idle, wait_for_stop).
THEOREM DrainedStop == Spec => []StopDrains
<1>1. DaemonInv => StopDrains
  BY DEF DaemonInv, GuardInv, StopDrains
<1>. QED  BY <1>1, DaemonInvariant, PTL

\* The stopping phase is never left: InFlightRequest::drop stores the idle phase
\* only over its own.
THEOREM FinalStop == Spec => StopFinal
<1>1. ASSUME DaemonInv, [Next]_vars, phase = "stopping" PROVE phase' = "stopping"
  <2> USE <1>1 DEF DaemonInv, GuardInv, shared, volVars, queueVars, stopVars
  <2>1. ASSUME QueueThread PROVE phase' = "stopping"
    BY <2>1 DEF QueueThread, QueueStart, BeginWork, CheckStop, Engine, Complete, DropGuard,
                PhaseAfterDrop, QueueEnds, QueueCloses
  <2>2. ASSUME StopThread PROVE phase' = "stopping"
    BY <2>2 DEF StopThread, StopIfIdle, StopReady, StopDone, StopKill
  <2>3. ASSUME MainThread PROVE phase' = "stopping"
    BY <2>3 DEF MainThread, StartDevice, Ready, ReadyFailed, TargetDone, Join, Shutdown, Exit
  <2>4. ASSUME NEW r \in Requests, Fetch(r) PROVE phase' = "stopping"
    BY <2>4 DEF Fetch
  <2>5. ASSUME Sigterm \/ Delete \/ Exited \/ UNCHANGED vars PROVE phase' = "stopping"
    BY <2>5 DEF Sigterm, Delete, Exited, vars
  <2>. QED  BY <1>1, <2>1, <2>2, <2>3, <2>4, <2>5 DEF Next
<1>2. DaemonInv /\ [Next]_vars => [phase = "stopping" => phase' = "stopping"]_vars
  BY <1>1
<1>. QED  BY <1>2, DaemonInvariant, PTL DEF Spec, StopFinal

\* An exit without an error means a closed volume and durable acknowledged
\* writes (close_after_queue, combine_shutdown_results, combine_daemon_results).
THEOREM HonestExit == Spec => []ExitHonest
<1>1. DaemonInv => ExitHonest
  BY DEF DaemonInv, OwnerInv, ExitHonest
<1>. QED  BY <1>1, DaemonInvariant, PTL
=============================================================================
