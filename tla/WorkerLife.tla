----------------------------- MODULE WorkerLife -----------------------------
(***************************************************************************)
(* What the rest of the relay sees of a worker (internal/worker/worker.go):*)
(* its process, the flags that start() and IsRunning() look at, and the    *)
(* lock that IsRunning() waits for.  A life l moves on to a life m:        *)
(* Worker implements these steps, HealthCheck lets its workers take them.  *)
(***************************************************************************)

Life == [cmd : {"unborn", "alive", "ended", "failed"}, \* "failed": Run's start() failed
         running : BOOLEAN,
         stopping : BOOLEAN,
         locked : BOOLEAN]                             \* shutdown holds w.mu

LifeOf(cmd, running, stopping, locked) ==
  [cmd |-> cmd, running |-> running, stopping |-> stopping, locked |-> locked]

Unborn == LifeOf("unborn", FALSE, FALSE, FALSE)

\* A process was started for l at some time.
Born(l) == l.cmd \in {"alive", "ended"}

\* start(), called by Run or a second after a crash.
Starts(l, m) ==
  /\ l.cmd \in {"unborn", "ended"}
  /\ ~l.running /\ ~l.stopping
  /\ m = LifeOf("alive", TRUE, FALSE, l.locked)

\* The start() of Run fails, and Run with it.
Fails(l, m) == l.cmd = "unborn" /\ m = LifeOf("failed", l.running, l.stopping, l.locked)

\* The process ends, for whatever reason.
Ends(l, m) == l.cmd = "alive" /\ m = LifeOf("ended", l.running, l.stopping, l.locked)

\* waitCmdDone has noticed: w.running = false.
Notices(l, m) ==
  /\ l.cmd = "ended" /\ l.running
  /\ m = LifeOf("ended", FALSE, l.stopping, l.locked)

\* shutdown begins.  It holds the lock only if it has a process to wait for.
Stops(l, m) ==
  /\ Born(l) /\ ~l.stopping
  /\ m = LifeOf(l.cmd, FALSE, TRUE, l.running)

\* shutdown is over; a process that ignored SIGTERM may be about to die of SIGKILL.
Unlocks(l, m) == l.locked /\ m = LifeOf(l.cmd, l.running, l.stopping, FALSE)

LifeStep(l, m) ==
  \/ Starts(l, m) \/ Fails(l, m) \/ Ends(l, m)
  \/ Notices(l, m) \/ Stops(l, m) \/ Unlocks(l, m)
=============================================================================
