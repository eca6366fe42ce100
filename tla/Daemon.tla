------------------------------- MODULE Daemon -------------------------------
(***************************************************************************)
(* The ublk daemon: the queue thread that serves requests, the thread that *)
(* waits for a reason to stop, and the main thread that starts the device, *)
(* waits for the queue and reports.  They share the atomics of DrainState  *)
(* and the SIGTERM flag; each atomic access is a step of its own.          *)
(*                                                                         *)
(* The engine is seen through its calls: they succeed, are refused, or     *)
(* fail and latch the volume.  The kernel and libublk are external: they   *)
(* deliver requests while the device is live, and end the queue's loop     *)
(* once it is dead.                                                        *)
(***************************************************************************)
VARIABLES
  phase, sigterm, failed, ready, done,  \* the shared atomics
  dev,       \* the kernel's device
  vol,       \* the volume
  unsafe,    \* an acknowledged write is not durable yet
  qpc,       \* the queue thread
  req,       \* the request it handles
  held,      \* it holds the InFlightRequest guard
  reply,     \* completion of the request
  qerr,      \* queue_error
  result,    \* QueueState::result
  spc,       \* the stop thread
  stopErr,   \* its stop_device failed
  mpc,       \* the main thread
  errors     \* one of the results main combines is an error

shared == <<phase, sigterm, failed, ready, done>>
volVars == <<vol, unsafe>>
queueVars == <<qpc, req, held, reply, qerr, result>>
stopVars == <<spc, stopErr>>
vars == <<phase, sigterm, failed, ready, done, dev, vol, unsafe, qpc, req, held, reply,
          qerr, result, spc, stopErr, mpc, errors>>

Requests == {"read", "write", "fua", "flush", "bad"}

TypeOK ==
  /\ phase \in {"idle", "inflight", "stopping"}
  /\ sigterm \in BOOLEAN /\ failed \in BOOLEAN /\ ready \in BOOLEAN /\ done \in BOOLEAN
  /\ dev \in {"added", "live", "dead"}
  /\ vol \in {"open", "latched", "closed"} /\ unsafe \in BOOLEAN
  /\ qpc \in {"start", "serve", "begin", "check", "engine", "complete", "drop",
              "closing", "ended"}
  /\ req \in Requests /\ held \in BOOLEAN
  /\ reply \in {"none", "ok", "einval", "enospc", "eio", "eshutdown"}
  /\ qerr \in BOOLEAN /\ result \in {"none", "ok", "err"}
  /\ spc \in {"poll", "ready", "kill", "done", "ended"} /\ stopErr \in BOOLEAN
  /\ mpc \in {"start", "ready", "term", "wait", "join", "shutdown", "remove", "exit"}
  /\ errors \in BOOLEAN

\* serve, once the volume is open and the controller built.
Init ==
  /\ phase = "idle" /\ sigterm = FALSE /\ failed = FALSE /\ ready = FALSE /\ done = FALSE
  /\ dev = "added"
  /\ vol = "open" /\ unsafe = FALSE
  /\ qpc = "start" /\ req = "bad" /\ held = FALSE /\ reply = "none" /\ qerr = FALSE
  /\ result = "none"
  /\ spc = "poll" /\ stopErr = FALSE /\ mpc = "start" /\ errors = FALSE

-----------------------------------------------------------------------------
(* The queue thread *)

\* run_queue takes the volume and submits its fetch commands, or cannot.
QueueStart ==
  /\ qpc = "start" /\ mpc = "start" /\ dev = "added"
  /\ \/ qpc' = "serve" /\ UNCHANGED <<failed, qerr>>
     \/ qpc' = "closing" /\ failed' = TRUE /\ qerr' = TRUE
  /\ UNCHANGED <<phase, sigterm, ready, done, dev, volVars, req, held, reply, result,
                 stopVars, mpc, errors>>

\* The kernel hands over a request.
Fetch(r) ==
  /\ qpc = "serve" /\ dev = "live"
  /\ qpc' = "begin" /\ req' = r
  /\ UNCHANGED <<shared, dev, volVars, held, reply, qerr, result, stopVars, mpc, errors>>

\* begin_engine_work's compare-and-exchange.
BeginWork ==
  /\ qpc = "begin"
  /\ IF phase = "idle"
       THEN phase' = "inflight" /\ held' = TRUE /\ qpc' = "check" /\ UNCHANGED reply
       ELSE qpc' = "complete" /\ reply' = "eshutdown" /\ UNCHANGED <<phase, held>>
  /\ UNCHANGED <<sigterm, failed, ready, done, dev, volVars, req, qerr, result, stopVars, mpc,
                 errors>>

\* Its look at the reasons to stop, with the guard already held.
CheckStop ==
  /\ qpc = "check"
  /\ IF sigterm \/ failed THEN qpc' = "complete" /\ reply' = "eshutdown"
                          ELSE qpc' = "engine" /\ UNCHANGED reply
  /\ UNCHANGED <<shared, dev, volVars, req, held, qerr, result, stopVars, mpc, errors>>

Answer(r, v, fatal) == [reply |-> r, vol |-> v, fatal |-> fatal]

\* handle_request, transfer_blocks and complete_flush: what a request may come
\* to.  ENOSPC of a block transfer is not fatal, whether admission refused it or
\* the volume latched on it; any error of a flush is.
Transfer(r) ==
  {Answer("ok", "open", FALSE), Answer("eio", "latched", TRUE),
   Answer("enospc", "latched", FALSE)}
    \cup IF r = "read" THEN {Answer("eio", "open", TRUE)}
                       ELSE {Answer("enospc", "open", FALSE)}
FlushFailures == {Answer("eio", "latched", TRUE), Answer("enospc", "latched", TRUE)}

Outcomes(r) ==
  CASE r = "bad" -> {Answer("einval", vol, FALSE)}
    [] r # "bad" /\ vol # "open" -> {Answer("eio", vol, TRUE)}
    [] r \in {"read", "write"} /\ vol = "open" -> Transfer(r)
    [] r = "fua" /\ vol = "open" -> Transfer(r) \cup FlushFailures
    [] OTHER -> {Answer("ok", "open", FALSE)} \cup FlushFailures

\* Whether acknowledged data is volatile after request r succeeded.
UnsafeAfter(r) == CASE r = "write" -> TRUE [] r \in {"fua", "flush"} -> FALSE
                    [] OTHER -> unsafe

\* handle_queue_request.
Engine ==
  /\ qpc = "engine" /\ qpc' = "complete"
  /\ \E a \in Outcomes(req) :
       /\ reply' = a.reply /\ vol' = a.vol
       /\ unsafe' = IF a.reply = "ok" THEN UnsafeAfter(req) ELSE unsafe
       /\ failed' = (failed \/ a.fatal) /\ qerr' = (qerr \/ a.fatal)
  /\ UNCHANGED <<phase, sigterm, ready, done, dev, req, held, result, stopVars, mpc, errors>>

\* complete_fetched_request hands the completion to the kernel, which can fail.
Complete ==
  /\ qpc = "complete" /\ qpc' = "drop"
  /\ \/ UNCHANGED <<failed, qerr>>
     \/ failed' = TRUE /\ qerr' = TRUE
  /\ UNCHANGED <<phase, sigterm, ready, done, dev, volVars, req, held, reply, result, stopVars,
                 mpc, errors>>

\* Mutation of PhaseAfterDrop: a rejected request does not give up its guard.
PhaseKept == IF held /\ reply # "eshutdown" THEN "idle" ELSE phase

\* Mutation of PhaseAfterDrop: a request rejected without a guard stores the phase.
PhaseIdle == "idle"

\* InFlightRequest::drop stores the idle phase.
PhaseAfterDrop == IF held THEN "idle" ELSE phase

DropGuard ==
  /\ qpc = "drop" /\ qpc' = "serve"
  /\ phase' = PhaseAfterDrop /\ held' = FALSE
  /\ req' = "bad" /\ reply' = "none"
  /\ UNCHANGED <<sigterm, failed, ready, done, dev, volVars, qerr, result, stopVars, mpc, errors>>

\* libublk's loop ends with its device; reporting the request counts may fail.
QueueEnds ==
  /\ qpc = "serve" /\ dev = "dead" /\ qpc' = "closing"
  /\ qerr' \in {qerr, TRUE}
  /\ UNCHANGED <<shared, dev, volVars, req, held, reply, result, stopVars, mpc, errors>>

\* Volume::close: an error if the volume is latched, or of the backing file.
CloseVolume(ok) ==
  /\ vol' = "closed"
  /\ \/ ok /\ vol = "open" /\ unsafe' = FALSE
     \/ ~ok /\ UNCHANGED unsafe

\* Mutation of CloseResult: the result of close is not looked at.
QueueResult(ok) == IF ~qerr THEN "ok" ELSE "err"

\* combine_shutdown_results.
CloseResult(ok) == IF ok /\ ~qerr THEN "ok" ELSE "err"

\* close_after_queue.
QueueCloses ==
  /\ qpc = "closing" /\ qpc' = "ended"
  /\ \E ok \in BOOLEAN : CloseVolume(ok) /\ result' = CloseResult(ok)
  /\ UNCHANGED <<shared, dev, req, held, reply, qerr, stopVars, mpc, errors>>

-----------------------------------------------------------------------------
(* The stop thread: wait_for_stop.  A round of its loop that finds no reason to  *)
(* stop, a request in flight and the target running changes nothing.            *)

\* Mutation of MayStop: work in flight does not hold the stop up.
AlwaysStop == TRUE

\* stop_if_idle succeeds unless a request is in flight.
MayStop == phase # "inflight"

\* The reasons to stop are never withdrawn, so their load and the exchange are
\* one step.
StopIfIdle ==
  /\ spc = "poll" /\ (sigterm \/ failed) /\ MayStop
  /\ phase' = "stopping" /\ spc' = "ready"
  /\ UNCHANGED <<sigterm, failed, ready, done, dev, volVars, queueVars, stopErr, mpc,
                 errors>>

StopReady ==
  /\ spc = "ready"
  /\ spc' = IF ready THEN "kill" ELSE "done"
  /\ UNCHANGED <<shared, dev, volVars, queueVars, stopErr, mpc, errors>>

\* The end of a round.  What it loaded before may be older than target_done.
StopDone ==
  /\ \/ spc \in {"poll", "done"} /\ done /\ spc' = "ended"
     \/ spc = "done" /\ ~done /\ spc' = "poll"
  /\ UNCHANGED <<shared, dev, volVars, queueVars, stopErr, mpc, errors>>

\* stop_device: its error is the thread's result, and the thread is gone.
StopKill ==
  /\ spc = "kill" /\ spc' = "ended"
  /\ \/ dev' = "dead" /\ UNCHANGED stopErr
     \/ stopErr' = TRUE /\ UNCHANGED dev
  /\ UNCHANGED <<shared, volVars, queueVars, mpc, errors>>

-----------------------------------------------------------------------------
(* The main thread: serve and run_target *)

\* run_target starts the device once the queue has its fetch commands in, or
\* fails; without a queue it can only fail.
StartDevice ==
  /\ mpc = "start"
  /\ \/ /\ qpc = "serve"
        /\ dev' = "live" /\ mpc' = "ready" /\ UNCHANGED errors
     \/ dev' = "dead" /\ mpc' = "wait" /\ errors' = TRUE
  /\ UNCHANGED <<shared, volVars, queueVars, stopVars>>

\* The readiness callback: the line is written or not, then device_ready is set.
Ready ==
  /\ mpc = "ready" /\ ready' = TRUE
  /\ \/ mpc' = "wait" /\ UNCHANGED errors
     \/ mpc' = "term" /\ errors' = TRUE
  /\ UNCHANGED <<phase, sigterm, failed, done, dev, volVars, queueVars, stopVars>>

\* A readiness line that could not be written stops the daemon.
ReadyFailed ==
  /\ mpc = "term" /\ mpc' = "wait" /\ sigterm' = TRUE
  /\ UNCHANGED <<phase, failed, ready, done, dev, volVars, queueVars, stopVars, errors>>

\* run_target returns when the queue thread has ended or never started.
TargetDone ==
  /\ mpc = "wait" /\ (qpc = "ended" \/ (qpc = "start" /\ dev = "dead"))
  /\ done' = TRUE /\ mpc' = "join"
  /\ UNCHANGED <<phase, sigterm, failed, ready, dev, volVars, queueVars, stopVars, errors>>

Join ==
  /\ mpc = "join" /\ spc = "ended" /\ mpc' = "shutdown"
  /\ UNCHANGED <<shared, dev, volVars, queueVars, stopVars, errors>>

\* Close a volume that no queue took, or take over the queue's result.
Shutdown ==
  /\ mpc = "shutdown" /\ mpc' = "remove"
  /\ \/ /\ qpc = "start"
        /\ \E ok \in BOOLEAN : CloseVolume(ok) /\ errors' = (errors \/ ~ok)
     \/ /\ qpc = "ended" /\ errors' = (errors \/ result # "ok")
        /\ UNCHANGED volVars
  /\ UNCHANGED <<shared, dev, queueVars, stopVars>>

\* wait_for_device_removal, which may time out, and the exit status.
Exit ==
  /\ mpc = "remove" /\ mpc' = "exit"
  /\ errors' \in {errors \/ stopErr, TRUE}
  /\ UNCHANGED <<shared, dev, volVars, queueVars, stopVars>>

-----------------------------------------------------------------------------
(* The environment *)

Sigterm ==
  /\ ~sigterm /\ mpc # "exit" /\ sigterm' = TRUE
  /\ UNCHANGED <<phase, failed, ready, done, dev, volVars, queueVars, stopVars, mpc, errors>>

\* Another process deletes the device.
Delete ==
  /\ dev = "live" /\ dev' = "dead"
  /\ UNCHANGED <<shared, volVars, queueVars, stopVars, mpc, errors>>

QueueThread ==
  \/ QueueStart \/ BeginWork \/ CheckStop \/ Engine \/ Complete \/ DropGuard
  \/ QueueEnds \/ QueueCloses

StopThread == StopIfIdle \/ StopReady \/ StopDone \/ StopKill

MainThread == StartDevice \/ Ready \/ ReadyFailed \/ TargetDone \/ Join \/ Shutdown \/ Exit

\* The daemon has exited.
Exited == mpc = "exit" /\ UNCHANGED vars

Next ==
  \/ QueueThread \/ StopThread \/ MainThread
  \/ \E r \in Requests : Fetch(r)
  \/ Sigterm \/ Delete \/ Exited

Spec == Init /\ [][Next]_vars

\* The three threads run.  A request may be in flight whenever the stop thread
\* looks, so its exchange needs strong fairness: a thread that looks every
\* millisecond is not for ever in step with the requests.
FairSpec ==
  /\ Spec
  /\ WF_vars(QueueThread) /\ WF_vars(StopThread) /\ WF_vars(MainThread)
  /\ SF_vars(StopIfIdle)

-----------------------------------------------------------------------------
(* Properties *)

\* The phase and the guard agree: a request holds InFlightRequest exactly while
\* the phase says so, and only in the part of its handling that needs it.
GuardInv ==
  /\ held <=> phase = "inflight"
  /\ held => qpc \in {"check", "engine", "complete", "drop"}
  /\ qpc \in {"check", "engine"} => held
  /\ spc \in {"ready", "kill"} => phase = "stopping"

\* The volume has one owner at a time: the queue thread that took it, or main.
OwnerInv ==
  /\ mpc \in {"join", "shutdown", "remove", "exit"} =>
       qpc = "ended" \/ (qpc = "start" /\ dev = "dead")
  /\ vol = "closed" <=> qpc = "ended" \/ (qpc = "start" /\ mpc \in {"remove", "exit"})
  /\ result # "none" <=> qpc = "ended"
  /\ result = "ok" => ~unsafe
  /\ mpc \in {"remove", "exit"} /\ ~errors => ~unsafe

\* The inductive invariant.  DropGuard stores the idle phase blindly: it is right
\* only because nobody replaces the phase of a request that holds the guard.
DaemonInv == TypeOK /\ GuardInv /\ OwnerInv

\* Once the stop thread has won the phase no request is in the engine and none
\* gets there, so the device is only ever stopped with all engine work answered
\* (begin_engine_work, stop_if_idle).
StopDrains ==
  /\ phase = "stopping" => ~held /\ qpc \notin {"check", "engine"}
  /\ spc = "kill" => phase = "stopping"

\* The stop is final: the phase the stop thread has set is never overwritten by
\* the store of a request's guard (InFlightRequest::drop).
StopFinal == [][phase = "stopping" => phase' = "stopping"]_vars

\* A daemon that exits without an error has closed the volume, and every write it
\* acknowledged is durable, whatever failed on the way (close_after_queue,
\* combine_shutdown_results, the ENOSPC that is not fatal).
ExitHonest == mpc = "exit" /\ ~errors => vol = "closed" /\ ~unsafe

\* SIGTERM and a fatal error end the daemon, unless the device could not be
\* stopped: no wait of the three threads on each other lasts (wait_for_stop,
\* run_target, join).
StopEnds == sigterm \/ failed ~> mpc = "exit" \/ stopErr

\* SIGTERM is always honoured: the daemon drains, closes the volume and goes.
TermHonoured == sigterm ~> mpc = "exit"
=============================================================================
