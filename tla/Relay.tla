------------------------------- MODULE Relay --------------------------------
(***************************************************************************)
(* cmd/gruf-relay/main.go: the parts of the relay as goroutines that start *)
(* together and stop together.                                             *)
(*                                                                         *)
(* main launches the manager with its workers, the balancer, the checker   *)
(* and the servers (gRPC, and the HTTP servers of probes and metrics) over *)
(* one context, which a signal or the failure of a part cancels, and waits *)
(* for them all.  A worker here is its Run: what happens inside is Worker. *)
(* Requests in flight end (Proxy), so a graceful stop does; what balancer  *)
(* and checker do to the rotation is HealthCheck, here they only meet on   *)
(* the unbuffered channel.                                                 *)
(***************************************************************************)
EXTENDS Naturals

CONSTANTS
  Ruby,       \* the workers
  Http,       \* the HTTP servers that are enabled: probes, metrics
  Grpc,       \* the gRPC server
  MaxSignals  \* bound: signals sent to the relay

ASSUME RelayAssumption == Grpc \notin Http /\ MaxSignals \in Nat

VARIABLES
  main,      \* "launch", "ready" (signal.Notify is next), "select", "wait", "exited"
  code,      \* exitCode
  signals,   \* signals sent so far
  signalCh,  \* signals in signalCh
  cancelled, \* ctx is cancelled
  dead,      \* "no", or the relay ended at once: "killed" by a signal, "panic"
  mgr,       \* Manager.Run: "off", "select", "wait", "failed" (cancel() is next), "done"
  mgrErrs,   \* its errChan holds an error
  mgrErr,    \* it returns an error
  run,       \* run[w]: the goroutine of Run of worker w; a process may live in "run" and "stop"
  balancer,  \* "off", "run", "done"
  checker,   \* "off", "wait", "report" (a worker to the balancer), "done"
  serve,     \* serve[s]: Serve of server s
  listener,  \* listener[s]: the goroutine that Serve starts
  errs       \* errs[s]: the errChan of s holds an error

mainVars   == <<main, code, signals, signalCh>>
mgrVars    == <<mgr, mgrErrs, mgrErr, run>>
healthVars == <<balancer, checker>>
serveVars  == <<serve, listener, errs>>
vars == <<mainVars, cancelled, dead, mgrVars, healthVars, serveVars>>

Server == Http \cup {Grpc}

Gone == dead # "no" \/ main = "exited"

\* errCtx of the manager, which its workers get
ErrCtxDone == cancelled \/ mgr = "wait"

-----------------------------------------------------------------------------
Init ==
  /\ main = "launch" /\ code = 0 /\ signals = 0 /\ signalCh = 0
  /\ cancelled = FALSE /\ dead = "no"
  /\ mgr = "off" /\ mgrErrs = FALSE /\ mgrErr = FALSE
  /\ run = [w \in Ruby |-> "off"]
  /\ balancer = "off" /\ checker = "off"
  /\ serve = [s \in Server |-> "off"]
  /\ listener = [s \in Server |-> "off"]
  /\ errs = [s \in Server |-> FALSE]

-----------------------------------------------------------------------------
(* A worker's Run, and the goroutine of the manager around it.             *)

\* w.start() starts the process, or fails.
WorkerStart(w) ==
  /\ run[w] = "start"
  /\ \E next \in {"run", "report"} : run' = [run EXCEPT ![w] = next]
  /\ UNCHANGED <<mainVars, cancelled, dead, mgr, mgrErrs, mgrErr, healthVars, serveVars>>

\* <-ctx.Done()
WorkerStop(w) ==
  /\ run[w] = "run" /\ ErrCtxDone
  /\ run' = [run EXCEPT ![w] = "stop"]
  /\ UNCHANGED <<mainVars, cancelled, dead, mgr, mgrErrs, mgrErr, healthVars, serveVars>>

\* shutdown() is over, with or without an error; no process is left (NoOrphan of Worker).
WorkerStopped(w) ==
  /\ run[w] = "stop"
  /\ \E end \in {"done", "report"} : run' = [run EXCEPT ![w] = end]
  /\ UNCHANGED <<mainVars, cancelled, dead, mgr, mgrErrs, mgrErr, healthVars, serveVars>>

\* errChan is unbuffered: a manager that is not yet in its select misses the error.
WorkerReportUnbuffered(w) ==
  /\ run[w] = "report"
  /\ run' = [run EXCEPT ![w] = "done"]
  /\ mgrErrs' \in {mgrErrs, mgr = "select"}
  /\ UNCHANGED <<mainVars, cancelled, dead, mgr, mgrErr, healthVars, serveVars>>

\* select { case errChan <- err: default: }, then wg.Done().  A send on the closed channel
\* panics.
WorkerReport(w) ==
  /\ run[w] = "report"
  /\ run' = [run EXCEPT ![w] = "done"]
  /\ mgrErrs' = TRUE
  /\ dead' = IF mgr \in {"failed", "done"} THEN "panic" ELSE dead
  /\ UNCHANGED <<mainVars, cancelled, mgr, mgrErr, healthVars, serveVars>>

WorkerRun(w) == WorkerStart(w) \/ WorkerStop(w) \/ WorkerStopped(w) \/ WorkerReport(w)

-----------------------------------------------------------------------------
(* Manager.Run, and main's goroutine around it.                            *)

\* The first error of a worker or ctx.Done(), either if both are there; then cancel().
ManagerWake ==
  /\ mgr = "select"
  /\ \/ mgrErrs /\ mgrErrs' = FALSE /\ mgrErr' = TRUE
     \/ cancelled /\ UNCHANGED <<mgrErrs, mgrErr>>
  /\ mgr' = "wait"
  /\ UNCHANGED <<mainVars, cancelled, dead, run, healthVars, serveVars>>

\* wg.Wait() is left out.
ManagerReturnAtOnce ==
  /\ mgr = "wait"
  /\ mgr' = IF mgrErr THEN "failed" ELSE "done"
  /\ UNCHANGED <<mainVars, cancelled, dead, mgrErrs, mgrErr, run, healthVars, serveVars>>

\* wg.Wait(), return err
ManagerReturn ==
  /\ mgr = "wait"
  /\ \A w \in Ruby : run[w] = "done"
  /\ mgr' = IF mgrErr THEN "failed" ELSE "done"
  /\ UNCHANGED <<mainVars, cancelled, dead, mgrErrs, mgrErr, run, healthVars, serveVars>>

\* cancel() in main's goroutine
ManagerFails ==
  /\ mgr = "failed"
  /\ mgr' = "done"
  /\ cancelled' = TRUE
  /\ UNCHANGED <<mainVars, dead, mgrErrs, mgrErr, run, healthVars, serveVars>>

Manager == ManagerWake \/ ManagerReturn \/ ManagerFails

-----------------------------------------------------------------------------
(* The balancer and the checker.                                           *)

BalancerStop ==
  /\ balancer = "run" /\ cancelled
  /\ balancer' = "done"
  /\ UNCHANGED <<mainVars, cancelled, dead, mgrVars, checker, serveVars>>

\* The ticker fires, and the check of a worker has a verdict for the balancer.
CheckerTick ==
  /\ checker = "wait"
  /\ checker' = "report"
  /\ UNCHANGED <<mainVars, cancelled, dead, mgrVars, balancer, serveVars>>

\* AddWorker or RemoveWorker: only a running balancer receives.
CheckerReport ==
  /\ checker = "report" /\ balancer = "run"
  /\ checker' = "wait"
  /\ UNCHANGED <<mainVars, cancelled, dead, mgrVars, balancer, serveVars>>

CheckerStop ==
  /\ checker = "wait" /\ cancelled
  /\ checker' = "done"
  /\ UNCHANGED <<mainVars, cancelled, dead, mgrVars, balancer, serveVars>>

Health == BalancerStop \/ CheckerTick \/ CheckerReport \/ CheckerStop

-----------------------------------------------------------------------------
(* Serve of a server s, and main's goroutine around it.                    *)

ServeGoto(s, next) == serve' = [serve EXCEPT ![s] = next]
ListenerGoto(s, next) == listener' = [listener EXCEPT ![s] = next]

\* The gRPC server calls net.Listen, which may fail, before it starts its goroutine.
GrpcListen ==
  /\ main # "launch" /\ serve[Grpc] = "off"
  /\ \/ ServeGoto(Grpc, "select") /\ ListenerGoto(Grpc, "start")
     \/ ServeGoto(Grpc, "failed") /\ UNCHANGED listener
  /\ UNCHANGED <<mainVars, cancelled, dead, mgrVars, healthVars, errs>>

\* Serve, or ListenAndServe, gets to its accept loop.
ListenerUp(s) ==
  /\ listener[s] = "start" /\ serve[s] = "select"
  /\ ListenerGoto(s, "accept")
  /\ UNCHANGED <<mainVars, cancelled, dead, mgrVars, healthVars, serve, errs>>

\* The port is taken (HTTP), or accepting fails.
ListenerFails(s) ==
  /\ listener[s] = "accept" \/ (listener[s] = "start" /\ s # Grpc)
  /\ serve[s] = "select"
  /\ ListenerGoto(s, "failed")
  /\ UNCHANGED <<mainVars, cancelled, dead, mgrVars, healthVars, serve, errs>>

\* The server was shut down: ErrServerClosed, or nil, is no error.  A gRPC server that
\* was stopped before its Serve began answers ErrServerStopped, which is one.
ListenerEnds(s) ==
  /\ serve[s] \notin {"off", "select"}
  /\ \/ listener[s] = "start" /\ s = Grpc /\ ListenerGoto(s, "failed")
     \/ listener[s] = "start" /\ s # Grpc /\ ListenerGoto(s, "ended")
     \/ listener[s] = "accept" /\ ListenerGoto(s, "ended")
  /\ UNCHANGED <<mainVars, cancelled, dead, mgrVars, healthVars, serve, errs>>

\* errChan <- err: Serve has closed errChan if it has returned.
ListenerSend(s) ==
  /\ listener[s] = "failed"
  /\ ListenerGoto(s, "ended")
  /\ IF serve[s] \in {"failed", "done"}
       THEN dead' = "panic" /\ UNCHANGED errs
       ELSE errs' = [errs EXCEPT ![s] = TRUE] /\ UNCHANGED dead
  /\ UNCHANGED <<mainVars, cancelled, mgrVars, healthVars, serve>>

\* case err := <-errChan: return err
ServeErr(s) ==
  /\ serve[s] = "select" /\ errs[s]
  /\ errs' = [errs EXCEPT ![s] = FALSE]
  /\ ServeGoto(s, "failed")
  /\ UNCHANGED <<mainVars, cancelled, dead, mgrVars, healthVars, listener>>

\* case <-ctx.Done(): Shutdown or GracefulStop begins.  A scrape may delay the select of the
\* metrics server by the ten seconds its client allows.
ServeStop(s) ==
  /\ serve[s] = "select" /\ cancelled
  /\ ServeGoto(s, "stop")
  /\ UNCHANGED <<mainVars, cancelled, dead, mgrVars, healthVars, listener, errs>>

\* The requests in flight have ended; GracefulStop also waits for an accept loop to end.
\* An error of Shutdown would only cancel a ctx that is cancelled.
ServeReturn(s) ==
  /\ serve[s] = "stop"
  /\ ~(s = Grpc /\ listener[s] = "accept")
  /\ ServeGoto(s, "done")
  /\ UNCHANGED <<mainVars, cancelled, dead, mgrVars, healthVars, listener, errs>>

\* The error of a server is logged only.
ServeFailsLogged(s) ==
  /\ serve[s] = "failed"
  /\ ServeGoto(s, "done")
  /\ UNCHANGED <<mainVars, cancelled, dead, mgrVars, healthVars, listener, errs>>

\* cancel() in main's goroutine
ServeFails(s) ==
  /\ serve[s] = "failed"
  /\ ServeGoto(s, "done")
  /\ cancelled' = TRUE
  /\ UNCHANGED <<mainVars, dead, mgrVars, healthVars, listener, errs>>

Listen(s) == ListenerFails(s) \/ ListenerUp(s)
Serving(s) ==
  \/ (s = Grpc /\ GrpcListen) \/ ServeErr(s) \/ ServeStop(s) \/ ServeReturn(s) \/ ServeFails(s)
  \/ ListenerEnds(s) \/ ListenerSend(s)

-----------------------------------------------------------------------------
(* main.                                                                   *)

\* Every part is launched.  A goroutine that was not scheduled yet is like one that waits
\* in its first select; only net.Listen comes before.
Launch ==
  /\ main = "launch"
  /\ main' = "ready"
  /\ mgr' = "select" /\ run' = [w \in Ruby |-> "start"]
  /\ balancer' = "run" /\ checker' = "wait"
  /\ serve' = [s \in Server |-> IF s = Grpc THEN "off" ELSE "select"]
  /\ listener' = [s \in Server |-> IF s = Grpc THEN "off" ELSE "start"]
  /\ UNCHANGED <<code, signals, signalCh, cancelled, dead, mgrErrs, mgrErr, errs>>

\* signal.Notify
Notify ==
  /\ main = "ready"
  /\ main' = "select"
  /\ UNCHANGED <<code, signals, signalCh, cancelled, dead, mgrVars, healthVars, serveVars>>

\* A signal kills a relay that does not catch it yet; signalCh holds one and drops more.
Signal ==
  /\ signals < MaxSignals
  /\ signals' = signals + 1
  /\ IF main \in {"launch", "ready"}
       THEN dead' = "killed" /\ UNCHANGED signalCh
       ELSE signalCh' = 1 /\ UNCHANGED dead
  /\ UNCHANGED <<main, code, cancelled, mgrVars, healthVars, serveVars>>

\* On a signal main goes to its wait without cancel().
MainWakeUncancelled ==
  /\ main = "select"
  /\ \/ cancelled /\ code' = 1 /\ UNCHANGED signalCh
     \/ signalCh > 0 /\ signalCh' = 0 /\ UNCHANGED code
  /\ main' = "wait"
  /\ UNCHANGED <<signals, cancelled, dead, mgrVars, healthVars, serveVars>>

\* select: ctx.Done() makes the exit code 1, a signal cancels ctx.
MainWake ==
  /\ main = "select"
  /\ \/ cancelled /\ code' = 1 /\ UNCHANGED <<signalCh, cancelled>>
     \/ signalCh > 0 /\ signalCh' = 0 /\ cancelled' = TRUE /\ UNCHANGED code
  /\ main' = "wait"
  /\ UNCHANGED <<signals, dead, mgrVars, healthVars, serveVars>>

PartsDone ==
  /\ mgr = "done" /\ balancer = "done" /\ checker = "done"
  /\ \A s \in Server : serve[s] = "done"

\* wg.Add is missing for the manager.
MainExitUnmanaged ==
  /\ main = "wait"
  /\ balancer = "done" /\ checker = "done" /\ \A s \in Server : serve[s] = "done"
  /\ main' = "exited"
  /\ UNCHANGED <<code, signals, signalCh, cancelled, dead, mgrVars, healthVars, serveVars>>

\* wg.Wait(), os.Exit(exitCode)
MainExit ==
  /\ main = "wait" /\ PartsDone
  /\ main' = "exited"
  /\ UNCHANGED <<code, signals, signalCh, cancelled, dead, mgrVars, healthVars, serveVars>>

Main == Launch \/ Notify \/ MainWake \/ MainExit

-----------------------------------------------------------------------------
Step ==
  \/ Main \/ Signal \/ Manager \/ Health
  \/ \E w \in Ruby : WorkerRun(w)
  \/ \E s \in Server : Listen(s) \/ Serving(s)

\* All but the checker is done; the checker waits for a balancer that has left.
OnlyCheckerLeft ==
  /\ main = "wait" /\ mgr = "done" /\ balancer = "done" /\ checker = "report"
  /\ \A s \in Server : serve[s] = "done"

Next == (~Gone /\ Step) \/ ((Gone \/ OnlyCheckerLeft) /\ UNCHANGED vars)

\* Goroutines run on and shutdowns end: the worker's after five seconds, a server's when its
\* requests have (Proxy).  select picks at random, so CheckerStop is not passed over forever.
Fairness ==
  /\ WF_vars(~Gone /\ Main)
  /\ WF_vars(~Gone /\ Manager)
  /\ WF_vars(~Gone /\ BalancerStop)
  /\ WF_vars(~Gone /\ CheckerReport)
  /\ SF_vars(~Gone /\ CheckerStop)
  /\ \A w \in Ruby : WF_vars(~Gone /\ WorkerRun(w))
  /\ \A s \in Server : WF_vars(~Gone /\ Serving(s))

Spec == Init /\ [][Next]_vars /\ Fairness

-----------------------------------------------------------------------------
(* Properties.                                                             *)

\* A relay that leaves through os.Exit leaves no Ruby process behind: main waits for the
\* manager, the manager for every Run, whichever of them failed; and exit code 0 means that
\* somebody asked it to stop.
ExitIsClean ==
  main = "exited" =>
    /\ \A w \in Ruby : run[w] = "done"
    /\ code = 0 => signals > 0

\* A relay that ends at once had a reason: a signal before signal.Notify, or a listener whose
\* error came when Serve had left on ctx.Done().  The manager's errChan is never the one.
EndsAtOnce ==
  /\ dead = "killed" => main \in {"launch", "ready"}
  /\ dead = "panic" => cancelled /\ \E s \in Server : serve[s] = "done" /\ listener[s] = "ended"
  /\ mgr \in {"failed", "done"} => \A w \in Ruby : run[w] = "done"

\* No part is missing from a relay that goes on: when a part has returned, ctx is cancelled.
RunsWhole ==
  (mgr = "done" \/ balancer = "done" \/ checker = "done" \/ \E s \in Server : serve[s] = "done")
    => cancelled

\* After a signal, or the failure of a part, the relay exits: also when the manager's errChan,
\* which holds one error, drops the others and however the failures overlap, unless the
\* checker is caught in its hand-over to the balancer: nothing else can hold it.
ShutdownEnds ==
  \/ cancelled \/ signalCh > 0
  \/ \E w \in Ruby : run[w] = "report"
  \/ \E s \in Server : listener[s] = "failed"
  ~> Gone \/ OnlyCheckerLeft
=============================================================================
