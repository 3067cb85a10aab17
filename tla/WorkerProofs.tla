---------------------------- MODULE WorkerProofs ----------------------------
(***************************************************************************)
(* The safety properties of Worker hold in every behaviour.  Each action   *)
(* preserves WorkerInv: the actions of the environment and of shutdown and *)
(* those of waitCmdDone have a lemma each.                                 *)
(***************************************************************************)
EXTENDS Worker, TLAPS

\* Before Run starts the process nothing is running and nobody waits for anything.
LEMMA InitInv == Init => WorkerInv
  BY DEF Init, WorkerInv, TypeOK, ShutdownInv, WaiterInv, CmdDoneSafe, NoOrphan,
         AliveIsRunning, RunningIsWatched, AnswerIsComing

\* A stuttering step changes no variable, hence no part of the invariant.
LEMMA StutterInv == WorkerInv /\ UNCHANGED vars => WorkerInv'
  BY DEF vars, flags, channel, process, WorkerInv, TypeOK, ShutdownInv, WaiterInv,
         CmdDoneSafe, NoOrphan, AliveIsRunning, RunningIsWatched, AnswerIsComing

\* The context may end, and the process may end, at any moment.
LEMMA EnvironmentInv == WorkerInv /\ (Cancel \/ ProcEnds) => WorkerInv'
<1> SUFFICES ASSUME WorkerInv, Cancel \/ ProcEnds PROVE WorkerInv'
  OBVIOUS
<1> USE DEF flags, channel, process, WorkerInv, TypeOK, ShutdownInv, WaiterInv,
            CmdDoneSafe, NoOrphan, AliveIsRunning, RunningIsWatched, AnswerIsComing
<1>1. CASE Cancel
  BY <1>1 DEF Cancel
<1>2. CASE ProcEnds
  BY <1>2 DEF ProcEnds
<1> QED
  BY <1>1, <1>2

\* Run starts the first process; shutdown takes the lock, marks the worker as stopping,
\* and looks at the process only after that.
LEMMA RunInv == WorkerInv /\ RunStep => WorkerInv'
<1> SUFFICES ASSUME WorkerInv, RunStep PROVE WorkerInv'
  OBVIOUS
<1> USE DEF flags, channel, process, WorkerInv, TypeOK, ShutdownInv, WaiterInv,
            CmdDoneSafe, NoOrphan, AliveIsRunning, RunningIsWatched, AnswerIsComing
<1>1. CASE RunStart
  <2>1. CASE StartCmd
    <3>1. /\ proc' = "alive" /\ how' = "alive" /\ state' = "nil" /\ killed' = FALSE
          /\ running' = TRUE /\ stopping' = stopping /\ waiter' = "wait"
      BY <2>1 DEF StartCmd
    <3>2. /\ run = "start" /\ run' = "serve"
          /\ UNCHANGED <<cancelled, failed, locked, queued, closed>>
      BY <1>1, <2>1 DEF RunStart, StartCmd, StartFails
    <3> QED
      BY <3>1, <3>2
  <2>2. CASE StartFails /\ RunReturns(TRUE) /\ UNCHANGED waiter
    BY <1>1, <2>2 DEF RunStart, StartFails, StartRefused, RunReturns
  <2> QED
    BY <1>1, <2>1, <2>2 DEF RunStart
<1>2. CASE ShutdownBegin
  <2>1. CASE running
    BY <1>2, <2>1 DEF ShutdownBegin
  <2>2. CASE ~running
    <3>1. /\ run = "serve" /\ run' = "done" /\ stopping' = TRUE /\ running' = FALSE
          /\ failed' = FALSE /\ locked' = FALSE
          /\ UNCHANGED <<cancelled, waiter, queued, closed, proc, how, state, killed>>
      BY <1>2, <2>2 DEF ShutdownBegin, RunReturns
    <3>2. TypeOK' /\ ShutdownInv' /\ CmdDoneSafe'
      BY <2>2, <3>1
    <3>3. WaiterInv'
      BY <2>2, <3>1
    <3>4. NoOrphan' /\ AliveIsRunning' /\ RunningIsWatched' /\ AnswerIsComing'
      BY <2>2, <3>1
    <3> QED
      BY <3>2, <3>3, <3>4
  <2> QED
    BY <2>1, <2>2
<1>3. CASE Inspect
  <2>1. /\ run = "inspect"
        /\ UNCHANGED <<cancelled, waiter, running, stopping, queued, closed, proc, how, state,
                       killed>>
    BY <1>3 DEF Inspect
  <2>2. CASE state = "exited"
    <3>1. run' = "done" /\ failed' = FALSE /\ locked' = FALSE
      BY <1>3, <2>2 DEF Inspect, RunReturns
    <3>2. proc = "reaped"
      BY <2>1, <2>2
    <3> QED
      BY <2>1, <3>1, <3>2
  <2>3. CASE state # "exited"
    <3>1. run' = "stop" /\ failed' = failed /\ locked' = locked
      BY <1>3, <2>3 DEF Inspect
    <3> QED
      BY <2>1, <3>1
  <2> QED
    BY <2>2, <2>3
<1>4. CASE StopCmd
  BY <1>4 DEF StopCmd
<1>5. CASE KillAfterStop
  BY <1>5 DEF KillAfterStop, RunReturns
<1>6. CASE CmdDone
  BY <1>6 DEF CmdDone, RunReturns
<1>7. CASE Timeout
  BY <1>7 DEF Timeout
<1>8. CASE KillAfterTimeout
  BY <1>8 DEF KillAfterTimeout, RunReturns
<1> QED
  BY <1>1, <1>2, <1>3, <1>4, <1>5, <1>6, <1>7, <1>8 DEF RunStep

\* waitCmdDone reads w.stopping without the lock, after the process has ended; it starts
\* a new process only under the lock and only while the worker is not stopping.
LEMMA WaiterInvariance == WorkerInv /\ WaiterStep => WorkerInv'
<1> SUFFICES ASSUME WorkerInv, WaiterStep PROVE WorkerInv'
  OBVIOUS
<1> USE DEF flags, channel, process, WorkerInv, TypeOK, ShutdownInv, WaiterInv,
            CmdDoneSafe, NoOrphan, AliveIsRunning, RunningIsWatched, AnswerIsComing
<1>1. CASE WaitReaps
  BY <1>1 DEF WaitReaps
<1>2. CASE WaitRecords
  BY <1>2 DEF WaitRecords
<1>3. CASE WaitChecks
  BY <1>3 DEF WaitChecks
<1>4. CASE WaitSends
  BY <1>4 DEF WaitSends
<1>5. CASE WaitCloses
  BY <1>5 DEF WaitCloses
<1>6. CASE WaitResets
  BY <1>6 DEF WaitResets
<1>7. CASE WaitRestarts
  <2>1. CASE StartCmd
    BY <1>7, <2>1 DEF WaitRestarts, StartCmd, StartRefused
  <2>2. CASE StartFails /\ waiter' = "gone"
    BY <1>7, <2>2 DEF WaitRestarts, StartFails, StartRefused
  <2>3. CASE StartRefused /\ waiter' = "gone" /\ UNCHANGED <<flags, process>>
    BY <1>7, <2>3 DEF WaitRestarts, StartRefused
  <2> QED
    BY <1>7, <2>1, <2>2, <2>3 DEF WaitRestarts
<1> QED
  BY <1>1, <1>2, <1>3, <1>4, <1>5, <1>6, <1>7 DEF WaiterStep

\* WorkerInv holds in every reachable state, whatever the process does and whenever the
\* context ends.
THEOREM WorkerInvariant == Spec => []WorkerInv
<1>1. WorkerInv /\ [Next]_vars => WorkerInv'
  BY EnvironmentInv, RunInv, WaiterInvariance, StutterInv DEF Next
<1> QED
  BY InitInv, <1>1, PTL DEF Spec

\* When Run has returned, shutdown has ended the process or sent it SIGKILL, and no
\* waitCmdDone restarts it.
THEOREM NoOrphanHolds == Spec => []NoOrphan
<1>1. WorkerInv => NoOrphan
  BY DEF WorkerInv
<1> QED
  BY <1>1, WorkerInvariant, PTL

\* shutdown's select on cmdDoneChan is never left unanswered because of the unlocked read
\* of w.stopping in waitCmdDone.
THEOREM AnswerIsComingHolds == Spec => []AnswerIsComing
<1>1. WorkerInv => AnswerIsComing
  BY DEF WorkerInv
<1> QED
  BY <1>1, WorkerInvariant, PTL

\* cmdDoneChan is sent to and closed at most once: no panic, no blocked waitCmdDone.
THEOREM CmdDoneSafeHolds == Spec => []CmdDoneSafe
<1>1. WorkerInv => CmdDoneSafe
  BY DEF WorkerInv
<1> QED
  BY <1>1, WorkerInvariant, PTL

\* running never claims a process that nobody waits for, and never disowns a live one.
THEOREM RunningIsTrue == Spec => [](AliveIsRunning /\ RunningIsWatched)
<1>1. WorkerInv => AliveIsRunning /\ RunningIsWatched
  BY DEF WorkerInv
<1> QED
  BY <1>1, WorkerInvariant, PTL

\* What an action of the worker does to its life: nothing, or one step of WorkerLife.
LEMMA LifeStepLemma ==
  ASSUME WorkerInv, WorkerInv', [Next]_vars
  PROVE  [LifeStep(life, life')]_life
<1> USE DEF flags, channel, process, LifeOf
<1>1. CASE Cancel \/ UNCHANGED vars
  BY <1>1 DEF Cancel, vars, life
<1>2. CASE ProcEnds
  <2>1. Ends(life, life')
    BY <1>2 DEF ProcEnds, Ends, life, WorkerInv, WaiterInv
  <2> QED
    BY <2>1 DEF LifeStep
<1>3. CASE RunStart
  <2>1. CASE StartCmd
    <3>1. /\ run = "start" /\ run' = "serve" /\ waiter = "none" /\ waiter' = "wait"
          /\ locked' = locked /\ proc' = "alive"
      BY <1>3, <2>1 DEF RunStart, StartCmd, StartFails, WorkerInv, ShutdownInv
    <3>2. running = FALSE /\ running' = TRUE /\ stopping = FALSE /\ stopping' = FALSE
      BY <2>1 DEF StartCmd, StartRefused, WorkerInv, TypeOK
    <3>3. Starts(life, life')
      BY <3>1, <3>2 DEF Starts, life
    <3> QED
      BY <3>3 DEF LifeStep
  <2>2. CASE StartFails /\ RunReturns(TRUE) /\ UNCHANGED waiter
    <3>1. Fails(life, life')
      BY <1>3, <2>2 DEF RunStart, StartFails, RunReturns, Fails, life,
                        WorkerInv, TypeOK, ShutdownInv
    <3> QED
      BY <3>1 DEF LifeStep
  <2> QED
    BY <1>3, <2>1, <2>2 DEF RunStart
<1>4. CASE ShutdownBegin
  <2>1. locked' = running /\ running' = FALSE /\ stopping' = TRUE
    BY <1>4 DEF ShutdownBegin, RunReturns, WorkerInv, TypeOK
  <2>2. waiter # "none" /\ ~stopping /\ waiter' = waiter /\ proc' = proc
    BY <1>4 DEF ShutdownBegin, WorkerInv, ShutdownInv
  <2>3. Stops(life, life')
    BY <2>1, <2>2 DEF Stops, Born, life
  <2> QED
    BY <2>3 DEF LifeStep
<1>5. CASE Inspect \/ StopCmd \/ KillAfterStop \/ CmdDone \/ Timeout \/ KillAfterTimeout
  <2>1. UNCHANGED <<waiter, running, stopping, proc>>
    BY <1>5 DEF Inspect, StopCmd, KillAfterStop, CmdDone, Timeout, KillAfterTimeout
  <2>2. waiter # "none" /\ locked
    BY <1>5 DEF Inspect, StopCmd, KillAfterStop, CmdDone, Timeout, KillAfterTimeout,
                WorkerInv, ShutdownInv
  <2>3. locked' \in BOOLEAN
    BY DEF WorkerInv, TypeOK
  <2>4. CASE locked'
    BY <2>1, <2>2, <2>4 DEF life
  <2>5. CASE ~locked'
    <3>1. Unlocks(life, life')
      BY <2>1, <2>2, <2>5, <2>3 DEF Unlocks, life
    <3> QED
      BY <3>1 DEF LifeStep
  <2> QED
    BY <2>3, <2>4, <2>5
<1>6. CASE WaitReaps \/ WaitRecords \/ WaitChecks \/ WaitSends \/ WaitCloses
  BY <1>6 DEF WaitReaps, WaitRecords, WaitChecks, WaitSends, WaitCloses, life
<1>7. CASE WaitResets
  <2>1. CASE running
    <3>1. Notices(life, life')
      BY <1>7, <2>1 DEF WaitResets, Notices, life, WorkerInv, WaiterInv
    <3> QED
      BY <3>1 DEF LifeStep
  <2>2. CASE ~running
    <3>1. running' = running
      BY <1>7, <2>2 DEF WaitResets, WorkerInv, TypeOK
    <3> QED
      BY <1>7, <3>1 DEF WaitResets, life
  <2> QED
    BY <2>1, <2>2
<1>8. CASE WaitRestarts
  <2>1. waiter # "none" /\ ~locked /\ locked' = locked /\ proc # "alive"
    BY <1>8 DEF WaitRestarts, WorkerInv, WaiterInv
  <2>2. CASE StartCmd
    <3>1. /\ running = FALSE /\ running' = TRUE /\ stopping = FALSE /\ stopping' = FALSE
          /\ waiter' = "wait" /\ proc' = "alive"
      BY <2>2 DEF StartCmd, StartRefused, WorkerInv, TypeOK
    <3>2. Starts(life, life')
      BY <2>1, <3>1 DEF Starts, life
    <3> QED
      BY <3>2 DEF LifeStep
  <2>3. CASE StartFails /\ waiter' = "gone"
    BY <2>1, <2>3 DEF StartFails, life
  <2>4. CASE StartRefused /\ waiter' = "gone" /\ UNCHANGED <<flags, process>>
    BY <2>1, <2>4 DEF life
  <2> QED
    BY <1>8, <2>2, <2>3, <2>4 DEF WaitRestarts
<1> QED
  BY <1>1, <1>2, <1>3, <1>4, <1>5, <1>6, <1>7, <1>8 DEF Next, RunStep, WaiterStep

\* Worker implements the life cycle that the health checker reckons with: to the others,
\* its goroutines and its lock are the six steps of WorkerLife and nothing else.
THEOREM ImplementsWorkerLife == Spec => LifeSpec
<1>1. Init => life = Unborn
  BY DEF Init, life, LifeOf, Unborn
<1>2. WorkerInv /\ WorkerInv' /\ [Next]_vars => [LifeStep(life, life')]_life
  BY LifeStepLemma
<1> QED
  BY <1>1, <1>2, WorkerInvariant, PTL DEF Spec, LifeSpec
=============================================================================
