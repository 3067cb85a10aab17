------------------------------- MODULE Worker -------------------------------
(***************************************************************************)
(* internal/worker/worker.go and command.go: one worker, that is one Ruby  *)
(* child process and the goroutines that look after it.                    *)
(*                                                                         *)
(* Run starts the process and, once its context is done, shuts it down.    *)
(* waitCmdDone, one goroutine per started process, waits for the process   *)
(* to end and starts the next one.  They share running, stopping, cmd and  *)
(* cmdDoneChan under w.mu, except that waitCmdDone reads w.stopping, and   *)
(* exec.Cmd writes ProcessState, without it.  shutdown holds w.mu while it *)
(* waits for the process; every other critical section is one step.        *)
(***************************************************************************)
EXTENDS WorkerLife

VARIABLES
  cancelled,   \* Run's context is done
  run,         \* where Run is
  failed,      \* Run returned an error
  waiter,      \* where waitCmdDone is, "none" before the first start, "gone" at its end
  locked,      \* shutdown holds w.mu
  running, stopping,
  queued,      \* a value is in cmdDoneChan (capacity 1)
  closed,      \* cmdDoneChan is closed
  proc,        \* the process of w.cmd: "none", "alive", "zombie" or "reaped"
  how,         \* how that process ended: "exited" or "signaled", "alive" before
  state,       \* w.cmd.ProcessState: "nil", or how Wait saw the process end
  killed       \* SIGKILL was sent to that process

flags   == <<running, stopping>>
channel == <<queued, closed>>
process == <<proc, how, state, killed>>
vars    == <<cancelled, run, failed, waiter, locked, flags, channel, process>>

Init ==
  /\ cancelled = FALSE
  /\ run = "start"
  /\ failed = FALSE
  /\ waiter = "none"
  /\ locked = FALSE
  /\ running = FALSE /\ stopping = FALSE
  /\ queued = FALSE /\ closed = FALSE
  /\ proc = "none" /\ how = "alive" /\ state = "nil" /\ killed = FALSE

-----------------------------------------------------------------------------
(* The environment: the context and the operating system.                  *)

Cancel ==
  /\ ~cancelled
  /\ cancelled' = TRUE
  /\ UNCHANGED <<run, failed, waiter, locked, flags, channel, process>>

\* The process ends: by itself, on SIGTERM (which it may also ignore), by a crash or a
\* signal from anywhere.
ProcEnds ==
  /\ proc = "alive"
  /\ proc' = "zombie"
  /\ how' \in IF killed THEN {"signaled"} ELSE {"exited", "signaled"}
  /\ UNCHANGED <<cancelled, run, failed, waiter, locked, flags, channel, state, killed>>

-----------------------------------------------------------------------------
(* start(), called by Run and by waitCmdDone with w.mu free.               *)

\* A worker that is running or stopping is left alone.
StartRefused == running \/ stopping

\* A mutant of StartCmd: start() forgets w.running = true.
StartCmdUnmarked ==
  /\ ~StartRefused
  /\ proc' = "alive" /\ how' = "alive" /\ state' = "nil" /\ killed' = FALSE
  /\ waiter' = "wait"
  /\ UNCHANGED flags

\* buildCmd replaces w.cmd, cmd.Start succeeds, and a new waitCmdDone takes over.
StartCmd ==
  /\ ~StartRefused
  /\ proc' = "alive" /\ how' = "alive" /\ state' = "nil" /\ killed' = FALSE
  /\ running' = TRUE
  /\ waiter' = "wait"
  /\ UNCHANGED stopping

\* cmd.Start fails: w.cmd has no process.
StartFails ==
  /\ ~StartRefused
  /\ proc' = "none" /\ how' = "alive" /\ state' = "nil" /\ killed' = FALSE
  /\ UNCHANGED flags

-----------------------------------------------------------------------------
(* Mutants: plausible mistakes in the actions below.  No action uses them;  *)
(* TLC shows for each that a property would catch it.                      *)

\* waitCmdDone restarts the process without the checks of start().
RestartUnchecked ==
  /\ waiter = "start"
  /\ ~locked
  /\ proc' = "alive" /\ how' = "alive" /\ state' = "nil" /\ killed' = FALSE
  /\ running' = TRUE
  /\ waiter' = "wait"
  /\ UNCHANGED <<cancelled, run, failed, locked, stopping, channel>>

\* waitCmdDone forgets w.running = false.
ResetForgotten ==
  /\ waiter = "reset"
  /\ ~locked
  /\ waiter' = "start"
  /\ UNCHANGED <<cancelled, run, failed, locked, flags, channel, process>>

\* waitCmdDone gives up on a process that a signal ended.
GiveUpOnSignal ==
  /\ waiter = "check"
  /\ waiter' = IF stopping THEN "send" ELSE IF state = "signaled" THEN "gone" ELSE "reset"
  /\ UNCHANGED <<cancelled, run, failed, locked, flags, channel, process>>

\* shutdown forgets w.stopping = true.
BeginUnmarked ==
  /\ run = "serve"
  /\ cancelled
  /\ running' = FALSE
  /\ IF running THEN locked' = TRUE /\ run' = "inspect" /\ UNCHANGED failed
                ELSE run' = "done" /\ failed' = FALSE /\ locked' = FALSE
  /\ UNCHANGED <<cancelled, waiter, stopping, channel, process>>

\* shutdown returns without a SIGKILL when the process ignores SIGTERM.
TimeoutGivesUp ==
  /\ run = "select"
  /\ run' = "done"
  /\ locked' = FALSE
  /\ UNCHANGED <<cancelled, failed, waiter, flags, channel, process>>

\* shutdown waits for cmdDoneChan without a timeout.
TimeoutNever == run = "select" /\ UNCHANGED vars

-----------------------------------------------------------------------------
(* Run and shutdown.                                                       *)

\* Run returns, from shutdown with the deferred unlock.
RunReturns(err) ==
  /\ run' = "done"
  /\ failed' = err
  /\ locked' = FALSE

RunStart ==
  /\ run = "start"
  /\ \/ StartCmd /\ run' = "serve" /\ UNCHANGED <<failed, locked>>
     \/ StartFails /\ RunReturns(TRUE) /\ UNCHANGED waiter
  /\ UNCHANGED <<cancelled, channel>>

\* shutdown locks w.mu and sets w.stopping; with nothing running it is done.
ShutdownBegin ==
  /\ run = "serve"
  /\ cancelled
  /\ stopping' = TRUE
  /\ running' = FALSE
  /\ IF running THEN locked' = TRUE /\ run' = "inspect" /\ UNCHANGED failed
                ELSE RunReturns(FALSE)
  /\ UNCHANGED <<cancelled, waiter, channel, process>>

\* state != nil && state.Exited(): Exited() is false for a process that a signal ended.
Inspect ==
  /\ run = "inspect"
  /\ IF state = "exited" THEN RunReturns(FALSE)
                         ELSE run' = "stop" /\ UNCHANGED <<failed, locked>>
  /\ UNCHANGED <<cancelled, waiter, flags, channel, process>>

\* cmd.Stop: SIGTERM.  os.Process.Signal fails once the process was waited for.
StopCmd ==
  /\ run = "stop"
  /\ run' = IF proc = "reaped" THEN "kill" ELSE "select"
  /\ UNCHANGED <<cancelled, failed, waiter, locked, flags, channel, process>>

\* cmd.Kill because SIGTERM could not be sent, which then fails alike.
KillAfterStop ==
  /\ run = "kill"
  /\ IF proc = "reaped"
       THEN RunReturns(TRUE) /\ UNCHANGED killed
       ELSE run' = "select" /\ killed' = TRUE /\ UNCHANGED <<failed, locked>>
  /\ UNCHANGED <<cancelled, waiter, flags, channel, proc, how, state>>

\* <-w.cmdDoneChan
CmdDone ==
  /\ run = "select"
  /\ queued \/ closed
  /\ queued' = FALSE
  /\ RunReturns(FALSE)
  /\ UNCHANGED <<cancelled, waiter, flags, closed, process>>

\* <-time.After(5 * time.Second)
Timeout ==
  /\ run = "select"
  /\ run' = "expired"
  /\ UNCHANGED <<cancelled, failed, waiter, locked, flags, channel, process>>

\* cmd.Kill after the timeout; an error if the process was waited for meanwhile.
KillAfterTimeout ==
  /\ run = "expired"
  /\ killed' = (killed \/ proc # "reaped")
  /\ RunReturns(proc = "reaped")
  /\ UNCHANGED <<cancelled, waiter, flags, channel, proc, how, state>>

RunStep ==
  \/ RunStart \/ ShutdownBegin \/ Inspect \/ StopCmd \/ KillAfterStop
  \/ CmdDone \/ Timeout \/ KillAfterTimeout

-----------------------------------------------------------------------------
(* waitCmdDone.                                                            *)

\* cmd.Wait reaps the process ...
WaitReaps ==
  /\ waiter = "wait"
  /\ proc = "zombie"
  /\ proc' = "reaped"
  /\ waiter' = "record"
  /\ UNCHANGED <<cancelled, run, failed, locked, flags, channel, how, state, killed>>

\* ... and then sets cmd.ProcessState, without w.mu.
WaitRecords ==
  /\ waiter = "record"
  /\ state' = how
  /\ waiter' = "check"
  /\ UNCHANGED <<cancelled, run, failed, locked, flags, channel, proc, how, killed>>

\* if w.stopping, read without w.mu
WaitChecks ==
  /\ waiter = "check"
  /\ waiter' = IF stopping THEN "send" ELSE "reset"
  /\ UNCHANGED <<cancelled, run, failed, locked, flags, channel, process>>

\* w.cmdDoneChan <- err.  On a closed channel this would panic.
WaitSends ==
  /\ waiter = "send"
  /\ ~queued
  /\ queued' = TRUE
  /\ waiter' = "close"
  /\ UNCHANGED <<cancelled, run, failed, locked, flags, closed, process>>

WaitCloses ==
  /\ waiter = "close"
  /\ closed' = TRUE
  /\ waiter' = "gone"
  /\ UNCHANGED <<cancelled, run, failed, locked, flags, queued, process>>

\* The process ended by itself: w.running = false.
WaitResets ==
  /\ waiter = "reset"
  /\ ~locked
  /\ running' = FALSE
  /\ waiter' = "start"
  /\ UNCHANGED <<cancelled, run, failed, locked, stopping, channel, process>>

\* A second later, start() again.  Without a new process nobody tries once more.
WaitRestarts ==
  /\ waiter = "start"
  /\ ~locked
  /\ \/ StartCmd
     \/ StartFails /\ waiter' = "gone"
     \/ StartRefused /\ waiter' = "gone" /\ UNCHANGED <<flags, process>>
  /\ UNCHANGED <<cancelled, run, failed, locked, channel>>

WaiterStep ==
  \/ WaitReaps \/ WaitRecords \/ WaitChecks \/ WaitSends \/ WaitCloses
  \/ WaitResets \/ WaitRestarts

-----------------------------------------------------------------------------
Next == Cancel \/ ProcEnds \/ RunStep \/ WaiterStep

Spec == Init /\ [][Next]_vars

\* Goroutines run on, timers fire and SIGKILL ends a process; SIGTERM need not.
Fairness ==
  /\ WF_vars(RunStep)
  /\ WF_vars(WaiterStep)
  /\ WF_vars(killed /\ ProcEnds)

FairSpec == Spec /\ Fairness

-----------------------------------------------------------------------------
(* Properties.                                                             *)

TypeOK ==
  /\ cancelled \in BOOLEAN /\ failed \in BOOLEAN /\ locked \in BOOLEAN /\ killed \in BOOLEAN
  /\ running \in BOOLEAN /\ stopping \in BOOLEAN /\ queued \in BOOLEAN /\ closed \in BOOLEAN
  /\ run \in {"start", "serve", "inspect", "stop", "kill", "select", "expired", "done"}
  /\ waiter \in {"none", "wait", "record", "check", "send", "close", "reset", "start", "gone"}
  /\ proc \in {"none", "alive", "zombie", "reaped"}
  /\ how \in {"alive", "exited", "signaled"}
  /\ state \in {"nil", "exited", "signaled"}

\* Run leaves no process behind: when it has returned, the last process has ended or has
\* got SIGKILL, and the goroutine that sleeps before a restart starts no other.
NoOrphan == run = "done" /\ proc = "alive" => killed

\* Until shutdown begins, a live process is never taken for stopped: shutdown, which
\* signals a running worker only, would leave it, and start() would start a second one.
AliveIsRunning == proc = "alive" /\ ~stopping => running

\* IsRunning() does not stay true for a process that has ended: while it is true a
\* waitCmdDone is on its way to the line that clears it.
RunningIsWatched == running => waiter \in {"wait", "record", "check", "reset"}

\* While shutdown waits for cmdDoneChan, waitCmdDone has not yet decided, by its read of
\* w.stopping without the lock, not to send: the five seconds are the process's alone.
AnswerIsComing ==
  run = "select" => queued \/ closed \/ waiter \in {"wait", "record", "check", "send"}

\* A send on cmdDoneChan finds it open and empty, and close finds it open: neither
\* panics nor blocks, in whatever order restarts and the shutdown come.
CmdDoneSafe ==
  /\ waiter = "send" => ~queued /\ ~closed
  /\ waiter = "close" => ~closed

\* Where shutdown is, against its lock and its flags.
ShutdownInv ==
  /\ locked <=> run \in {"inspect", "stop", "kill", "select", "expired"}
  /\ locked => stopping /\ ~running /\ waiter \notin {"none", "start"} /\ proc # "none"
  /\ stopping => ~running
  /\ stopping => locked \/ run = "done"
  /\ run = "start" => waiter = "none"
  /\ run = "serve" => waiter # "none"
  /\ run = "kill" => proc = "reaped"
  /\ run = "done" /\ ~stopping => waiter = "none"

\* Where waitCmdDone is, against its process and the channel.
WaiterInv ==
  /\ waiter = "wait" <=> proc \in {"alive", "zombie"}
  /\ proc = "none" => waiter \in {"none", "gone"}
  /\ waiter = "none" => proc = "none" /\ ~running /\ ~stopping
  /\ waiter \in {"wait", "record"} => state = "nil"
  /\ waiter \in {"send", "close"} => stopping
  /\ queued \/ closed => stopping /\ waiter \in {"close", "gone"}
  /\ waiter = "gone" /\ locked => closed
  /\ waiter = "start" => ~running
  /\ how = "alive" <=> proc \in {"none", "alive"}

\* The inductive invariant of the proofs.
WorkerInv ==
  /\ TypeOK /\ ShutdownInv /\ WaiterInv /\ CmdDoneSafe
  /\ NoOrphan /\ AliveIsRunning /\ RunningIsWatched /\ AnswerIsComing

\* The worker as the others see it, and that it takes no step they do not expect: this is
\* what lets HealthCheck replace the goroutines above by the steps of WorkerLife.
life ==
  LifeOf(IF waiter = "none" THEN (IF run = "start" THEN "unborn" ELSE "failed")
         ELSE IF proc = "alive" THEN "alive" ELSE "ended",
         running, stopping, locked)

LifeSpec == life = Unborn /\ [][LifeStep(life, life')]_life

\* shutdown goes on to signal the process only while the process is not known to have
\* ended ("Check if the process is still alive").
SignalsOnlyAlive ==
  [][run = "inspect" /\ run' = "stop" => state = "nil"]_vars

\* A done context ends Run, also when the process ignores SIGTERM or ends by itself at
\* the same moment.
ContextEndsRun == cancelled ~> run = "done"

\* A process that ends by itself is replaced, unless the worker is stopping or the new
\* process cannot be started.
CrashIsRepaired == proc = "zombie" ~> proc \in {"alive", "none"} \/ stopping
=============================================================================
