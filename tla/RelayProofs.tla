---------------------------- MODULE RelayProofs -----------------------------
(***************************************************************************)
(* Theorems about Relay, for any number of workers, HTTP servers and       *)
(* signals.                                                                *)
(***************************************************************************)
EXTENDS Relay, TLAPS

TypeOK ==
  /\ main \in {"launch", "ready", "select", "wait", "exited"}
  /\ code \in {0, 1} /\ signals \in Nat /\ signalCh \in {0, 1}
  /\ cancelled \in BOOLEAN /\ dead \in {"no", "killed", "panic"}
  /\ mgr \in {"off", "select", "wait", "failed", "done"}
  /\ mgrErrs \in BOOLEAN /\ mgrErr \in BOOLEAN
  /\ run \in [Ruby -> {"off", "start", "run", "stop", "report", "done"}]
  /\ balancer \in {"off", "run", "done"}
  /\ checker \in {"off", "wait", "report", "done"}
  /\ serve \in [Server -> {"off", "select", "stop", "failed", "done"}]
  /\ listener \in [Server -> {"off", "start", "accept", "failed", "ended"}]
  /\ errs \in [Server -> BOOLEAN]

\* Manager.Run returns after its workers did, and without an error only if ctx is cancelled.
ManagerInv ==
  /\ mgr \in {"failed", "done"} => \A w \in Ruby : run[w] = "done"
  /\ (mgr = "done" \/ (mgr = "wait" /\ ~mgrErr)) => cancelled

\* A part stops only when ctx is cancelled; balancer and checker have no other reason.
HealthInv == balancer = "done" \/ checker = "done" => cancelled

\* An error in errChan comes from a listener that is over, so a Serve that returns it leaves
\* none that could send again; without one, Serve stops only when ctx is cancelled.
ServerInv ==
  \A s \in Server :
    /\ main = "launch" => serve[s] = "off"
    /\ serve[s] = "off" => listener[s] = "off"
    /\ errs[s] => listener[s] = "ended"
    /\ serve[s] = "failed" => listener[s] \in {"off", "ended"}
    /\ serve[s] \in {"stop", "done"} => cancelled

\* main exits when all parts are done, and has its exit code from what woke it.
MainInv ==
  /\ main = "exited" => PartsDone
  /\ (main \in {"wait", "exited"} /\ code = 0) \/ signalCh > 0 => signals > 0

\* The relay ends at once for one of two reasons.
DeadInv ==
  /\ dead = "killed" => main \in {"launch", "ready"}
  /\ dead = "panic" => cancelled /\ \E s \in Server : serve[s] = "done" /\ listener[s] = "ended"

\* The inductive invariant: the parts above, which hold each other up through ctx.
RelayInv == TypeOK /\ ManagerInv /\ HealthInv /\ ServerInv /\ MainInv /\ DeadInv

-----------------------------------------------------------------------------
\* The invariant holds before main launches anything.
LEMMA InitInv == Init => RelayInv
<1>1. ASSUME Init PROVE TypeOK
  <2>1. errs \in [Server -> BOOLEAN]
    BY <1>1, Zenon DEF Init
  <2>2. QED BY <1>1, <2>1 DEF Init, TypeOK
<1>2. Init => ManagerInv /\ HealthInv /\ MainInv /\ DeadInv
  BY DEF Init, ManagerInv, HealthInv, MainInv, DeadInv, PartsDone
<1>3. Init => ServerInv
  BY DEF Init, ServerInv
<1>4. QED BY <1>1, <1>2, <1>3 DEF RelayInv

\* A worker's goroutine keeps the invariant; it cannot find errChan closed.
LEMMA WorkerKeepsInv ==
  ASSUME NEW w \in Ruby, RelayInv, ~Gone, \/ WorkerStart(w)
         \/ WorkerStop(w)
         \/ WorkerStopped(w)
         \/ WorkerReport(w)
  PROVE RelayInv'
<1>1. CASE WorkerStart(w)
  <2>1. TypeOK'
    BY <1>1 DEF WorkerStart, Gone, RelayInv, TypeOK, vars, mainVars, mgrVars, healthVars,
      serveVars, ErrCtxDone
  <2>2. ManagerInv'
    BY <1>1 DEF WorkerStart, Gone, RelayInv, ManagerInv, TypeOK, vars, mainVars, mgrVars,
      healthVars, serveVars, ErrCtxDone
  <2>3. HealthInv'
    BY <1>1 DEF WorkerStart, Gone, RelayInv, HealthInv, TypeOK, vars, mainVars, mgrVars,
      healthVars, serveVars, ErrCtxDone
  <2>4. ServerInv'
    BY <1>1 DEF WorkerStart, Gone, RelayInv, ServerInv, TypeOK, vars, mainVars, mgrVars,
      healthVars, serveVars, ErrCtxDone
  <2>5. MainInv'
    BY <1>1 DEF WorkerStart, Gone, RelayInv, MainInv, PartsDone, TypeOK, vars, mainVars,
      mgrVars, healthVars, serveVars, ErrCtxDone
  <2>6. DeadInv'
    BY <1>1 DEF WorkerStart, Gone, RelayInv, DeadInv, ManagerInv, ServerInv, TypeOK, vars,
      mainVars, mgrVars, healthVars, serveVars, ErrCtxDone
  <2>7. QED BY <2>1, <2>2, <2>3, <2>4, <2>5, <2>6 DEF RelayInv
<1>2. CASE WorkerStop(w)
  <2>1. TypeOK'
    BY <1>2 DEF WorkerStop, Gone, RelayInv, TypeOK, vars, mainVars, mgrVars, healthVars,
      serveVars, ErrCtxDone
  <2>2. ManagerInv'
    BY <1>2 DEF WorkerStop, Gone, RelayInv, ManagerInv, TypeOK, vars, mainVars, mgrVars,
      healthVars, serveVars, ErrCtxDone
  <2>3. HealthInv'
    BY <1>2 DEF WorkerStop, Gone, RelayInv, HealthInv, TypeOK, vars, mainVars, mgrVars,
      healthVars, serveVars, ErrCtxDone
  <2>4. ServerInv'
    BY <1>2 DEF WorkerStop, Gone, RelayInv, ServerInv, TypeOK, vars, mainVars, mgrVars,
      healthVars, serveVars, ErrCtxDone
  <2>5. MainInv'
    BY <1>2 DEF WorkerStop, Gone, RelayInv, MainInv, PartsDone, TypeOK, vars, mainVars,
      mgrVars, healthVars, serveVars, ErrCtxDone
  <2>6. DeadInv'
    BY <1>2 DEF WorkerStop, Gone, RelayInv, DeadInv, ManagerInv, ServerInv, TypeOK, vars,
      mainVars, mgrVars, healthVars, serveVars, ErrCtxDone
  <2>7. QED BY <2>1, <2>2, <2>3, <2>4, <2>5, <2>6 DEF RelayInv
<1>3. CASE WorkerStopped(w)
  <2>1. TypeOK'
    BY <1>3 DEF WorkerStopped, Gone, RelayInv, TypeOK, vars, mainVars, mgrVars, healthVars,
      serveVars, ErrCtxDone
  <2>2. ManagerInv'
    BY <1>3 DEF WorkerStopped, Gone, RelayInv, ManagerInv, TypeOK, vars, mainVars, mgrVars,
      healthVars, serveVars, ErrCtxDone
  <2>3. HealthInv'
    BY <1>3 DEF WorkerStopped, Gone, RelayInv, HealthInv, TypeOK, vars, mainVars, mgrVars,
      healthVars, serveVars, ErrCtxDone
  <2>4. ServerInv'
    BY <1>3 DEF WorkerStopped, Gone, RelayInv, ServerInv, TypeOK, vars, mainVars, mgrVars,
      healthVars, serveVars, ErrCtxDone
  <2>5. MainInv'
    BY <1>3 DEF WorkerStopped, Gone, RelayInv, MainInv, PartsDone, TypeOK, vars, mainVars,
      mgrVars, healthVars, serveVars, ErrCtxDone
  <2>6. DeadInv'
    BY <1>3 DEF WorkerStopped, Gone, RelayInv, DeadInv, ManagerInv, ServerInv, TypeOK, vars,
      mainVars, mgrVars, healthVars, serveVars, ErrCtxDone
  <2>7. QED BY <2>1, <2>2, <2>3, <2>4, <2>5, <2>6 DEF RelayInv
<1>4. CASE WorkerReport(w)
  <2>1. TypeOK'
    BY <1>4 DEF WorkerReport, Gone, RelayInv, TypeOK, vars, mainVars, mgrVars, healthVars,
      serveVars, ErrCtxDone
  <2>2. ManagerInv'
    BY <1>4 DEF WorkerReport, Gone, RelayInv, ManagerInv, TypeOK, vars, mainVars, mgrVars,
      healthVars, serveVars, ErrCtxDone
  <2>3. HealthInv'
    BY <1>4 DEF WorkerReport, Gone, RelayInv, HealthInv, TypeOK, vars, mainVars, mgrVars,
      healthVars, serveVars, ErrCtxDone
  <2>4. ServerInv'
    BY <1>4 DEF WorkerReport, Gone, RelayInv, ServerInv, TypeOK, vars, mainVars, mgrVars,
      healthVars, serveVars, ErrCtxDone
  <2>5. MainInv'
    BY <1>4 DEF WorkerReport, Gone, RelayInv, MainInv, PartsDone, TypeOK, vars, mainVars,
      mgrVars, healthVars, serveVars, ErrCtxDone
  <2>6. DeadInv'
    BY <1>4 DEF WorkerReport, Gone, RelayInv, DeadInv, ManagerInv, ServerInv, TypeOK, vars,
      mainVars, mgrVars, healthVars, serveVars, ErrCtxDone
  <2>7. QED BY <2>1, <2>2, <2>3, <2>4, <2>5, <2>6 DEF RelayInv
<1>5. QED BY <1>1, <1>2, <1>3, <1>4

\* The manager keeps the invariant.
LEMMA ManagerKeepsInv ==
  ASSUME RelayInv, ~Gone, \/ ManagerWake
         \/ ManagerReturn
         \/ ManagerFails
  PROVE RelayInv'
<1>1. CASE ManagerWake
  <2>1. TypeOK'
    BY <1>1 DEF ManagerWake, Gone, RelayInv, TypeOK, vars, mainVars, mgrVars, healthVars,
      serveVars
  <2>2. ManagerInv'
    BY <1>1 DEF ManagerWake, Gone, RelayInv, ManagerInv, TypeOK, vars, mainVars, mgrVars,
      healthVars, serveVars
  <2>3. HealthInv'
    BY <1>1 DEF ManagerWake, Gone, RelayInv, HealthInv, TypeOK, vars, mainVars, mgrVars,
      healthVars, serveVars
  <2>4. ServerInv'
    BY <1>1 DEF ManagerWake, Gone, RelayInv, ServerInv, TypeOK, vars, mainVars, mgrVars,
      healthVars, serveVars
  <2>5. MainInv'
    BY <1>1 DEF ManagerWake, Gone, RelayInv, MainInv, PartsDone, TypeOK, vars, mainVars,
      mgrVars, healthVars, serveVars
  <2>6. DeadInv'
    BY <1>1 DEF ManagerWake, Gone, RelayInv, DeadInv, ManagerInv, ServerInv, TypeOK, vars,
      mainVars, mgrVars, healthVars, serveVars
  <2>7. QED BY <2>1, <2>2, <2>3, <2>4, <2>5, <2>6 DEF RelayInv
<1>2. CASE ManagerReturn
  <2>1. TypeOK'
    BY <1>2 DEF ManagerReturn, Gone, RelayInv, TypeOK, vars, mainVars, mgrVars, healthVars,
      serveVars
  <2>2. ManagerInv'
    BY <1>2 DEF ManagerReturn, Gone, RelayInv, ManagerInv, TypeOK, vars, mainVars, mgrVars,
      healthVars, serveVars
  <2>3. HealthInv'
    BY <1>2 DEF ManagerReturn, Gone, RelayInv, HealthInv, TypeOK, vars, mainVars, mgrVars,
      healthVars, serveVars
  <2>4. ServerInv'
    BY <1>2 DEF ManagerReturn, Gone, RelayInv, ServerInv, TypeOK, vars, mainVars, mgrVars,
      healthVars, serveVars
  <2>5. MainInv'
    BY <1>2 DEF ManagerReturn, Gone, RelayInv, MainInv, PartsDone, TypeOK, vars, mainVars,
      mgrVars, healthVars, serveVars
  <2>6. DeadInv'
    BY <1>2 DEF ManagerReturn, Gone, RelayInv, DeadInv, ManagerInv, ServerInv, TypeOK, vars,
      mainVars, mgrVars, healthVars, serveVars
  <2>7. QED BY <2>1, <2>2, <2>3, <2>4, <2>5, <2>6 DEF RelayInv
<1>3. CASE ManagerFails
  <2>1. TypeOK'
    BY <1>3 DEF ManagerFails, Gone, RelayInv, TypeOK, vars, mainVars, mgrVars, healthVars,
      serveVars
  <2>2. ManagerInv'
    BY <1>3 DEF ManagerFails, Gone, RelayInv, ManagerInv, TypeOK, vars, mainVars, mgrVars,
      healthVars, serveVars
  <2>3. HealthInv'
    BY <1>3 DEF ManagerFails, Gone, RelayInv, HealthInv, TypeOK, vars, mainVars, mgrVars,
      healthVars, serveVars
  <2>4. ServerInv'
    BY <1>3 DEF ManagerFails, Gone, RelayInv, ServerInv, TypeOK, vars, mainVars, mgrVars,
      healthVars, serveVars
  <2>5. MainInv'
    BY <1>3 DEF ManagerFails, Gone, RelayInv, MainInv, PartsDone, TypeOK, vars, mainVars,
      mgrVars, healthVars, serveVars
  <2>6. DeadInv'
    BY <1>3 DEF ManagerFails, Gone, RelayInv, DeadInv, ManagerInv, ServerInv, TypeOK, vars,
      mainVars, mgrVars, healthVars, serveVars
  <2>7. QED BY <2>1, <2>2, <2>3, <2>4, <2>5, <2>6 DEF RelayInv
<1>4. QED BY <1>1, <1>2, <1>3

\* Balancer and checker keep the invariant.
LEMMA HealthKeepsInv ==
  ASSUME RelayInv, ~Gone, \/ BalancerStop
         \/ CheckerTick
         \/ CheckerReport
         \/ CheckerStop
  PROVE RelayInv'
<1>1. CASE BalancerStop
  <2>1. TypeOK'
    BY <1>1 DEF BalancerStop, Gone, RelayInv, TypeOK, vars, mainVars, mgrVars, healthVars,
      serveVars
  <2>2. ManagerInv'
    BY <1>1 DEF BalancerStop, Gone, RelayInv, ManagerInv, TypeOK, vars, mainVars, mgrVars,
      healthVars, serveVars
  <2>3. HealthInv'
    BY <1>1 DEF BalancerStop, Gone, RelayInv, HealthInv, TypeOK, vars, mainVars, mgrVars,
      healthVars, serveVars
  <2>4. ServerInv'
    BY <1>1 DEF BalancerStop, Gone, RelayInv, ServerInv, TypeOK, vars, mainVars, mgrVars,
      healthVars, serveVars
  <2>5. MainInv'
    BY <1>1 DEF BalancerStop, Gone, RelayInv, MainInv, PartsDone, TypeOK, vars, mainVars,
      mgrVars, healthVars, serveVars
  <2>6. DeadInv'
    BY <1>1 DEF BalancerStop, Gone, RelayInv, DeadInv, ManagerInv, ServerInv, TypeOK, vars,
      mainVars, mgrVars, healthVars, serveVars
  <2>7. QED BY <2>1, <2>2, <2>3, <2>4, <2>5, <2>6 DEF RelayInv
<1>2. CASE CheckerTick
  <2>1. TypeOK'
    BY <1>2 DEF CheckerTick, Gone, RelayInv, TypeOK, vars, mainVars, mgrVars, healthVars,
      serveVars
  <2>2. ManagerInv'
    BY <1>2 DEF CheckerTick, Gone, RelayInv, ManagerInv, TypeOK, vars, mainVars, mgrVars,
      healthVars, serveVars
  <2>3. HealthInv'
    BY <1>2 DEF CheckerTick, Gone, RelayInv, HealthInv, TypeOK, vars, mainVars, mgrVars,
      healthVars, serveVars
  <2>4. ServerInv'
    BY <1>2 DEF CheckerTick, Gone, RelayInv, ServerInv, TypeOK, vars, mainVars, mgrVars,
      healthVars, serveVars
  <2>5. MainInv'
    BY <1>2 DEF CheckerTick, Gone, RelayInv, MainInv, PartsDone, TypeOK, vars, mainVars,
      mgrVars, healthVars, serveVars
  <2>6. DeadInv'
    BY <1>2 DEF CheckerTick, Gone, RelayInv, DeadInv, ManagerInv, ServerInv, TypeOK, vars,
      mainVars, mgrVars, healthVars, serveVars
  <2>7. QED BY <2>1, <2>2, <2>3, <2>4, <2>5, <2>6 DEF RelayInv
<1>3. CASE CheckerReport
  <2>1. TypeOK'
    BY <1>3 DEF CheckerReport, Gone, RelayInv, TypeOK, vars, mainVars, mgrVars, healthVars,
      serveVars
  <2>2. ManagerInv'
    BY <1>3 DEF CheckerReport, Gone, RelayInv, ManagerInv, TypeOK, vars, mainVars, mgrVars,
      healthVars, serveVars
  <2>3. HealthInv'
    BY <1>3 DEF CheckerReport, Gone, RelayInv, HealthInv, TypeOK, vars, mainVars, mgrVars,
      healthVars, serveVars
  <2>4. ServerInv'
    BY <1>3 DEF CheckerReport, Gone, RelayInv, ServerInv, TypeOK, vars, mainVars, mgrVars,
      healthVars, serveVars
  <2>5. MainInv'
    BY <1>3 DEF CheckerReport, Gone, RelayInv, MainInv, PartsDone, TypeOK, vars, mainVars,
      mgrVars, healthVars, serveVars
  <2>6. DeadInv'
    BY <1>3 DEF CheckerReport, Gone, RelayInv, DeadInv, ManagerInv, ServerInv, TypeOK, vars,
      mainVars, mgrVars, healthVars, serveVars
  <2>7. QED BY <2>1, <2>2, <2>3, <2>4, <2>5, <2>6 DEF RelayInv
<1>4. CASE CheckerStop
  <2>1. TypeOK'
    BY <1>4 DEF CheckerStop, Gone, RelayInv, TypeOK, vars, mainVars, mgrVars, healthVars,
      serveVars
  <2>2. ManagerInv'
    BY <1>4 DEF CheckerStop, Gone, RelayInv, ManagerInv, TypeOK, vars, mainVars, mgrVars,
      healthVars, serveVars
  <2>3. HealthInv'
    BY <1>4 DEF CheckerStop, Gone, RelayInv, HealthInv, TypeOK, vars, mainVars, mgrVars,
      healthVars, serveVars
  <2>4. ServerInv'
    BY <1>4 DEF CheckerStop, Gone, RelayInv, ServerInv, TypeOK, vars, mainVars, mgrVars,
      healthVars, serveVars
  <2>5. MainInv'
    BY <1>4 DEF CheckerStop, Gone, RelayInv, MainInv, PartsDone, TypeOK, vars, mainVars,
      mgrVars, healthVars, serveVars
  <2>6. DeadInv'
    BY <1>4 DEF CheckerStop, Gone, RelayInv, DeadInv, ManagerInv, ServerInv, TypeOK, vars,
      mainVars, mgrVars, healthVars, serveVars
  <2>7. QED BY <2>1, <2>2, <2>3, <2>4, <2>5, <2>6 DEF RelayInv
<1>5. QED BY <1>1, <1>2, <1>3, <1>4

\* The goroutine of a listener keeps the invariant; a panic means that Serve is done.
LEMMA ListenerKeepsInv ==
  ASSUME NEW s \in Server, RelayInv, ~Gone, \/ ListenerUp(s)
         \/ ListenerFails(s)
         \/ ListenerEnds(s)
         \/ ListenerSend(s)
  PROVE RelayInv'
<1>1. CASE ListenerUp(s)
  <2>1. TypeOK'
    BY <1>1 DEF ListenerUp, Gone, RelayInv, TypeOK, vars, mainVars, mgrVars, healthVars,
      serveVars, ListenerGoto
  <2>2. ManagerInv'
    BY <1>1 DEF ListenerUp, Gone, RelayInv, ManagerInv, TypeOK, vars, mainVars, mgrVars,
      healthVars, serveVars, ListenerGoto
  <2>3. HealthInv'
    BY <1>1 DEF ListenerUp, Gone, RelayInv, HealthInv, TypeOK, vars, mainVars, mgrVars,
      healthVars, serveVars, ListenerGoto
  <2>4. ServerInv'
    BY <1>1 DEF ListenerUp, Gone, RelayInv, ServerInv, TypeOK, vars, mainVars, mgrVars,
      healthVars, serveVars, ListenerGoto
  <2>5. MainInv'
    BY <1>1 DEF ListenerUp, Gone, RelayInv, MainInv, PartsDone, TypeOK, vars, mainVars,
      mgrVars, healthVars, serveVars, ListenerGoto
  <2>6. DeadInv'
    BY <1>1 DEF ListenerUp, Gone, RelayInv, DeadInv, ManagerInv, ServerInv, TypeOK, vars,
      mainVars, mgrVars, healthVars, serveVars, ListenerGoto
  <2>7. QED BY <2>1, <2>2, <2>3, <2>4, <2>5, <2>6 DEF RelayInv
<1>2. CASE ListenerFails(s)
  <2>1. TypeOK'
    BY <1>2 DEF ListenerFails, Gone, RelayInv, TypeOK, vars, mainVars, mgrVars, healthVars,
      serveVars, ListenerGoto
  <2>2. ManagerInv'
    BY <1>2 DEF ListenerFails, Gone, RelayInv, ManagerInv, TypeOK, vars, mainVars, mgrVars,
      healthVars, serveVars, ListenerGoto
  <2>3. HealthInv'
    BY <1>2 DEF ListenerFails, Gone, RelayInv, HealthInv, TypeOK, vars, mainVars, mgrVars,
      healthVars, serveVars, ListenerGoto
  <2>4. ServerInv'
    BY <1>2 DEF ListenerFails, Gone, RelayInv, ServerInv, TypeOK, vars, mainVars, mgrVars,
      healthVars, serveVars, ListenerGoto
  <2>5. MainInv'
    BY <1>2 DEF ListenerFails, Gone, RelayInv, MainInv, PartsDone, TypeOK, vars, mainVars,
      mgrVars, healthVars, serveVars, ListenerGoto
  <2>6. DeadInv'
    BY <1>2 DEF ListenerFails, Gone, RelayInv, DeadInv, ManagerInv, ServerInv, TypeOK, vars,
      mainVars, mgrVars, healthVars, serveVars, ListenerGoto
  <2>7. QED BY <2>1, <2>2, <2>3, <2>4, <2>5, <2>6 DEF RelayInv
<1>3. CASE ListenerEnds(s)
  <2>1. TypeOK'
    BY <1>3 DEF ListenerEnds, Gone, RelayInv, TypeOK, vars, mainVars, mgrVars, healthVars,
      serveVars, ListenerGoto
  <2>2. ManagerInv'
    BY <1>3 DEF ListenerEnds, Gone, RelayInv, ManagerInv, TypeOK, vars, mainVars, mgrVars,
      healthVars, serveVars, ListenerGoto
  <2>3. HealthInv'
    BY <1>3 DEF ListenerEnds, Gone, RelayInv, HealthInv, TypeOK, vars, mainVars, mgrVars,
      healthVars, serveVars, ListenerGoto
  <2>4. ServerInv'
    BY <1>3 DEF ListenerEnds, Gone, RelayInv, ServerInv, TypeOK, vars, mainVars, mgrVars,
      healthVars, serveVars, ListenerGoto
  <2>5. MainInv'
    BY <1>3 DEF ListenerEnds, Gone, RelayInv, MainInv, PartsDone, TypeOK, vars, mainVars,
      mgrVars, healthVars, serveVars, ListenerGoto
  <2>6. DeadInv'
    BY <1>3 DEF ListenerEnds, Gone, RelayInv, DeadInv, ManagerInv, ServerInv, TypeOK, vars,
      mainVars, mgrVars, healthVars, serveVars, ListenerGoto
  <2>7. QED BY <2>1, <2>2, <2>3, <2>4, <2>5, <2>6 DEF RelayInv
<1>4. CASE ListenerSend(s)
  <2>1. TypeOK'
    <3>1. CASE serve[s] \in {"failed", "done"}
      BY <1>4, <3>1 DEF ListenerSend, RelayInv, TypeOK, mainVars, mgrVars, healthVars, ListenerGoto
    <3>2. CASE serve[s] \notin {"failed", "done"}
      <4>1. errs \in [Server -> BOOLEAN] /\ errs' = [errs EXCEPT ![s] = TRUE]
        BY <1>4, <3>2 DEF ListenerSend, RelayInv, TypeOK
      <4>2. errs' \in [Server -> BOOLEAN]
        BY <4>1, Zenon
      <4>3. QED BY <1>4, <3>2, <4>2 DEF ListenerSend, RelayInv, TypeOK, mainVars, mgrVars,
        healthVars, ListenerGoto
    <3>3. QED BY <3>1, <3>2
  <2>2. ManagerInv'
    BY <1>4 DEF ListenerSend, Gone, RelayInv, ManagerInv, TypeOK, vars, mainVars, mgrVars,
      healthVars, serveVars, ListenerGoto
  <2>3. HealthInv'
    BY <1>4 DEF ListenerSend, Gone, RelayInv, HealthInv, TypeOK, vars, mainVars, mgrVars,
      healthVars, serveVars, ListenerGoto
  <2>4. ServerInv'
    BY <1>4 DEF ListenerSend, Gone, RelayInv, ServerInv, TypeOK, vars, mainVars, mgrVars,
      healthVars, serveVars, ListenerGoto
  <2>5. MainInv'
    BY <1>4 DEF ListenerSend, Gone, RelayInv, MainInv, PartsDone, TypeOK, vars, mainVars,
      mgrVars, healthVars, serveVars, ListenerGoto
  <2>6. DeadInv'
    BY <1>4 DEF ListenerSend, Gone, RelayInv, DeadInv, ManagerInv, ServerInv, TypeOK, vars,
      mainVars, mgrVars, healthVars, serveVars, ListenerGoto
  <2>7. QED BY <2>1, <2>2, <2>3, <2>4, <2>5, <2>6 DEF RelayInv
<1>5. QED BY <1>1, <1>2, <1>3, <1>4

\* Serve and main's goroutine around it keep the invariant.
LEMMA ServeKeepsInv ==
  ASSUME NEW s \in Server, RelayInv, ~Gone, \/ ServeErr(s)
         \/ ServeStop(s)
         \/ ServeReturn(s)
         \/ ServeFails(s)
  PROVE RelayInv'
<1>1. CASE ServeErr(s)
  <2>1. TypeOK'
    BY <1>1 DEF ServeErr, Gone, RelayInv, TypeOK, vars, mainVars, mgrVars, healthVars,
      serveVars, ServeGoto
  <2>2. ManagerInv'
    BY <1>1 DEF ServeErr, Gone, RelayInv, ManagerInv, TypeOK, vars, mainVars, mgrVars,
      healthVars, serveVars, ServeGoto
  <2>3. HealthInv'
    BY <1>1 DEF ServeErr, Gone, RelayInv, HealthInv, TypeOK, vars, mainVars, mgrVars,
      healthVars, serveVars, ServeGoto
  <2>4. ServerInv'
    BY <1>1 DEF ServeErr, Gone, RelayInv, ServerInv, TypeOK, vars, mainVars, mgrVars,
      healthVars, serveVars, ServeGoto
  <2>5. MainInv'
    BY <1>1 DEF ServeErr, Gone, RelayInv, MainInv, PartsDone, TypeOK, vars, mainVars, mgrVars,
      healthVars, serveVars, ServeGoto
  <2>6. DeadInv'
    BY <1>1 DEF ServeErr, Gone, RelayInv, DeadInv, ManagerInv, ServerInv, TypeOK, vars,
      mainVars, mgrVars, healthVars, serveVars, ServeGoto
  <2>7. QED BY <2>1, <2>2, <2>3, <2>4, <2>5, <2>6 DEF RelayInv
<1>2. CASE ServeStop(s)
  <2>1. TypeOK'
    BY <1>2 DEF ServeStop, Gone, RelayInv, TypeOK, vars, mainVars, mgrVars, healthVars,
      serveVars, ServeGoto
  <2>2. ManagerInv'
    BY <1>2 DEF ServeStop, Gone, RelayInv, ManagerInv, TypeOK, vars, mainVars, mgrVars,
      healthVars, serveVars, ServeGoto
  <2>3. HealthInv'
    BY <1>2 DEF ServeStop, Gone, RelayInv, HealthInv, TypeOK, vars, mainVars, mgrVars,
      healthVars, serveVars, ServeGoto
  <2>4. ServerInv'
    BY <1>2 DEF ServeStop, Gone, RelayInv, ServerInv, TypeOK, vars, mainVars, mgrVars,
      healthVars, serveVars, ServeGoto
  <2>5. MainInv'
    BY <1>2 DEF ServeStop, Gone, RelayInv, MainInv, PartsDone, TypeOK, vars, mainVars, mgrVars,
      healthVars, serveVars, ServeGoto
  <2>6. DeadInv'
    BY <1>2 DEF ServeStop, Gone, RelayInv, DeadInv, ManagerInv, ServerInv, TypeOK, vars,
      mainVars, mgrVars, healthVars, serveVars, ServeGoto
  <2>7. QED BY <2>1, <2>2, <2>3, <2>4, <2>5, <2>6 DEF RelayInv
<1>3. CASE ServeReturn(s)
  <2>1. TypeOK'
    BY <1>3 DEF ServeReturn, Gone, RelayInv, TypeOK, vars, mainVars, mgrVars, healthVars,
      serveVars, ServeGoto
  <2>2. ManagerInv'
    BY <1>3 DEF ServeReturn, Gone, RelayInv, ManagerInv, TypeOK, vars, mainVars, mgrVars,
      healthVars, serveVars, ServeGoto
  <2>3. HealthInv'
    BY <1>3 DEF ServeReturn, Gone, RelayInv, HealthInv, TypeOK, vars, mainVars, mgrVars,
      healthVars, serveVars, ServeGoto
  <2>4. ServerInv'
    BY <1>3 DEF ServeReturn, Gone, RelayInv, ServerInv, TypeOK, vars, mainVars, mgrVars,
      healthVars, serveVars, ServeGoto
  <2>5. MainInv'
    BY <1>3 DEF ServeReturn, Gone, RelayInv, MainInv, PartsDone, TypeOK, vars, mainVars,
      mgrVars, healthVars, serveVars, ServeGoto
  <2>6. DeadInv'
    BY <1>3 DEF ServeReturn, Gone, RelayInv, DeadInv, ManagerInv, ServerInv, TypeOK, vars,
      mainVars, mgrVars, healthVars, serveVars, ServeGoto
  <2>7. QED BY <2>1, <2>2, <2>3, <2>4, <2>5, <2>6 DEF RelayInv
<1>4. CASE ServeFails(s)
  <2>1. TypeOK'
    BY <1>4 DEF ServeFails, Gone, RelayInv, TypeOK, vars, mainVars, mgrVars, healthVars,
      serveVars, ServeGoto
  <2>2. ManagerInv'
    BY <1>4 DEF ServeFails, Gone, RelayInv, ManagerInv, TypeOK, vars, mainVars, mgrVars,
      healthVars, serveVars, ServeGoto
  <2>3. HealthInv'
    BY <1>4 DEF ServeFails, Gone, RelayInv, HealthInv, TypeOK, vars, mainVars, mgrVars,
      healthVars, serveVars, ServeGoto
  <2>4. ServerInv'
    BY <1>4 DEF ServeFails, Gone, RelayInv, ServerInv, TypeOK, vars, mainVars, mgrVars,
      healthVars, serveVars, ServeGoto
  <2>5. MainInv'
    BY <1>4 DEF ServeFails, Gone, RelayInv, MainInv, PartsDone, TypeOK, vars, mainVars,
      mgrVars, healthVars, serveVars, ServeGoto
  <2>6. DeadInv'
    BY <1>4 DEF ServeFails, Gone, RelayInv, DeadInv, ManagerInv, ServerInv, TypeOK, vars,
      mainVars, mgrVars, healthVars, serveVars, ServeGoto
  <2>7. QED BY <2>1, <2>2, <2>3, <2>4, <2>5, <2>6 DEF RelayInv
<1>5. QED BY <1>1, <1>2, <1>3, <1>4

\* So does the gRPC server that has not begun to listen.
LEMMA GrpcListenKeepsInv ==
  ASSUME RelayInv, ~Gone, GrpcListen
  PROVE RelayInv'
<1>1. CASE GrpcListen
  <2>1. TypeOK'
    BY <1>1 DEF GrpcListen, Gone, RelayInv, TypeOK, vars, mainVars, mgrVars, healthVars,
      serveVars, ServeGoto, ListenerGoto, Server
  <2>2. ManagerInv'
    BY <1>1 DEF GrpcListen, Gone, RelayInv, ManagerInv, TypeOK, vars, mainVars, mgrVars,
      healthVars, serveVars, ServeGoto, ListenerGoto, Server
  <2>3. HealthInv'
    BY <1>1 DEF GrpcListen, Gone, RelayInv, HealthInv, TypeOK, vars, mainVars, mgrVars,
      healthVars, serveVars, ServeGoto, ListenerGoto, Server
  <2>4. ServerInv'
    BY <1>1 DEF GrpcListen, Gone, RelayInv, ServerInv, TypeOK, vars, mainVars, mgrVars,
      healthVars, serveVars, ServeGoto, ListenerGoto, Server
  <2>5. MainInv'
    BY <1>1 DEF GrpcListen, Gone, RelayInv, MainInv, PartsDone, TypeOK, vars, mainVars,
      mgrVars, healthVars, serveVars, ServeGoto, ListenerGoto, Server
  <2>6. DeadInv'
    BY <1>1 DEF GrpcListen, Gone, RelayInv, DeadInv, ManagerInv, ServerInv, TypeOK, vars,
      mainVars, mgrVars, healthVars, serveVars, ServeGoto, ListenerGoto, Server
  <2>7. QED BY <2>1, <2>2, <2>3, <2>4, <2>5, <2>6 DEF RelayInv
<1>2. QED BY <1>1

\* main and the signals keep the invariant.
LEMMA MainKeepsInv ==
  ASSUME RelayInv, ~Gone, \/ Launch
         \/ Notify
         \/ Signal
         \/ MainWake
         \/ MainExit
  PROVE RelayInv'
<1>1. CASE Launch
  <2>1. TypeOK'
    BY <1>1 DEF Launch, Gone, RelayInv, TypeOK, vars, mainVars, mgrVars, healthVars, serveVars
  <2>2. ManagerInv'
    BY <1>1 DEF Launch, Gone, RelayInv, ManagerInv, TypeOK, vars, mainVars, mgrVars,
      healthVars, serveVars
  <2>3. HealthInv'
    BY <1>1 DEF Launch, Gone, RelayInv, HealthInv, TypeOK, vars, mainVars, mgrVars, healthVars,
      serveVars
  <2>4. ServerInv'
    BY <1>1 DEF Launch, Gone, RelayInv, ServerInv, TypeOK, vars, mainVars, mgrVars, healthVars,
      serveVars
  <2>5. MainInv'
    BY <1>1 DEF Launch, Gone, RelayInv, MainInv, PartsDone, TypeOK, vars, mainVars, mgrVars,
      healthVars, serveVars
  <2>6. DeadInv'
    BY <1>1 DEF Launch, Gone, RelayInv, DeadInv, ManagerInv, ServerInv, TypeOK, vars, mainVars,
      mgrVars, healthVars, serveVars
  <2>7. QED BY <2>1, <2>2, <2>3, <2>4, <2>5, <2>6 DEF RelayInv
<1>2. CASE Notify
  <2>1. TypeOK'
    BY <1>2 DEF Notify, Gone, RelayInv, TypeOK, vars, mainVars, mgrVars, healthVars, serveVars
  <2>2. ManagerInv'
    BY <1>2 DEF Notify, Gone, RelayInv, ManagerInv, TypeOK, vars, mainVars, mgrVars,
      healthVars, serveVars
  <2>3. HealthInv'
    BY <1>2 DEF Notify, Gone, RelayInv, HealthInv, TypeOK, vars, mainVars, mgrVars, healthVars,
      serveVars
  <2>4. ServerInv'
    BY <1>2 DEF Notify, Gone, RelayInv, ServerInv, TypeOK, vars, mainVars, mgrVars, healthVars,
      serveVars
  <2>5. MainInv'
    BY <1>2 DEF Notify, Gone, RelayInv, MainInv, PartsDone, TypeOK, vars, mainVars, mgrVars,
      healthVars, serveVars
  <2>6. DeadInv'
    BY <1>2 DEF Notify, Gone, RelayInv, DeadInv, ManagerInv, ServerInv, TypeOK, vars, mainVars,
      mgrVars, healthVars, serveVars
  <2>7. QED BY <2>1, <2>2, <2>3, <2>4, <2>5, <2>6 DEF RelayInv
<1>3. CASE Signal
  <2>1. TypeOK'
    BY <1>3 DEF Signal, Gone, RelayInv, TypeOK, vars, mainVars, mgrVars, healthVars, serveVars
  <2>2. ManagerInv'
    BY <1>3 DEF Signal, Gone, RelayInv, ManagerInv, TypeOK, vars, mainVars, mgrVars,
      healthVars, serveVars
  <2>3. HealthInv'
    BY <1>3 DEF Signal, Gone, RelayInv, HealthInv, TypeOK, vars, mainVars, mgrVars, healthVars,
      serveVars
  <2>4. ServerInv'
    BY <1>3 DEF Signal, Gone, RelayInv, ServerInv, TypeOK, vars, mainVars, mgrVars, healthVars,
      serveVars
  <2>5. MainInv'
    BY <1>3 DEF Signal, Gone, RelayInv, MainInv, PartsDone, TypeOK, vars, mainVars, mgrVars,
      healthVars, serveVars
  <2>6. DeadInv'
    BY <1>3 DEF Signal, Gone, RelayInv, DeadInv, ManagerInv, ServerInv, TypeOK, vars, mainVars,
      mgrVars, healthVars, serveVars
  <2>7. QED BY <2>1, <2>2, <2>3, <2>4, <2>5, <2>6 DEF RelayInv
<1>4. CASE MainWake
  <2>0. /\ main' = "wait" /\ code' \in {code, 1} /\ signalCh' \in {signalCh, 0}
        /\ cancelled' \in BOOLEAN
        /\ UNCHANGED <<signals, dead, mgrVars, healthVars, serveVars>>
    BY <1>4 DEF MainWake, RelayInv, TypeOK
  <2>1. TypeOK'
    BY <2>0 DEF RelayInv, TypeOK, mgrVars, healthVars, serveVars
  <2>2. ManagerInv'
    BY <1>4 DEF MainWake, Gone, RelayInv, ManagerInv, TypeOK, vars, mainVars, mgrVars,
      healthVars, serveVars
  <2>3. HealthInv'
    BY <1>4 DEF MainWake, Gone, RelayInv, HealthInv, TypeOK, vars, mainVars, mgrVars,
      healthVars, serveVars
  <2>4. ServerInv'
    BY <1>4 DEF MainWake, Gone, RelayInv, ServerInv, TypeOK, vars, mainVars, mgrVars,
      healthVars, serveVars
  <2>5. MainInv'
    BY <1>4 DEF MainWake, Gone, RelayInv, MainInv, PartsDone, TypeOK, vars, mainVars, mgrVars,
      healthVars, serveVars
  <2>6. DeadInv'
    BY <1>4 DEF MainWake, Gone, RelayInv, DeadInv, ManagerInv, ServerInv, TypeOK, vars,
      mainVars, mgrVars, healthVars, serveVars
  <2>7. QED BY <2>1, <2>2, <2>3, <2>4, <2>5, <2>6 DEF RelayInv
<1>5. CASE MainExit
  <2>1. TypeOK'
    BY <1>5 DEF MainExit, Gone, RelayInv, TypeOK, vars, mainVars, mgrVars, healthVars,
      serveVars
  <2>2. ManagerInv'
    BY <1>5 DEF MainExit, Gone, RelayInv, ManagerInv, TypeOK, vars, mainVars, mgrVars,
      healthVars, serveVars
  <2>3. HealthInv'
    BY <1>5 DEF MainExit, Gone, RelayInv, HealthInv, TypeOK, vars, mainVars, mgrVars,
      healthVars, serveVars
  <2>4. ServerInv'
    BY <1>5 DEF MainExit, Gone, RelayInv, ServerInv, TypeOK, vars, mainVars, mgrVars,
      healthVars, serveVars
  <2>5. MainInv'
    BY <1>5 DEF MainExit, Gone, RelayInv, MainInv, PartsDone, TypeOK, vars, mainVars, mgrVars,
      healthVars, serveVars
  <2>6. DeadInv'
    BY <1>5 DEF MainExit, Gone, RelayInv, DeadInv, ManagerInv, ServerInv, TypeOK, vars,
      mainVars, mgrVars, healthVars, serveVars
  <2>7. QED BY <2>1, <2>2, <2>3, <2>4, <2>5, <2>6 DEF RelayInv
<1>6. QED BY <1>1, <1>2, <1>3, <1>4, <1>5

-----------------------------------------------------------------------------
\* RelayInv is an invariant: of the order in which parts fail, stop and are waited for.
THEOREM RelayInvariant == Spec => []RelayInv
<1>1. ASSUME RelayInv, [Next]_vars PROVE RelayInv'
  <2>1. CASE UNCHANGED vars
    BY <1>1, <2>1 DEF vars, mainVars, mgrVars, healthVars, serveVars, RelayInv, TypeOK,
      ManagerInv, HealthInv, ServerInv, MainInv, DeadInv, PartsDone
  <2>2. CASE ~Gone /\ Step
    <3>1. CASE Main
      BY <1>1, <2>2, <3>1, MainKeepsInv DEF Main
    <3>2. CASE Signal
      BY <1>1, <2>2, <3>2, MainKeepsInv
    <3>3. CASE Manager
      BY <1>1, <2>2, <3>3, ManagerKeepsInv DEF Manager
    <3>4. CASE Health
      BY <1>1, <2>2, <3>4, HealthKeepsInv DEF Health
    <3>5. ASSUME NEW w \in Ruby, WorkerRun(w) PROVE RelayInv'
      BY <1>1, <2>2, <3>5, WorkerKeepsInv DEF WorkerRun
    <3>6. ASSUME NEW s \in Server, Listen(s) PROVE RelayInv'
      BY <1>1, <2>2, <3>6, ListenerKeepsInv DEF Listen
    <3>7. ASSUME NEW s \in Server, Serving(s) PROVE RelayInv'
      <4>1. CASE GrpcListen
        BY <1>1, <2>2, <4>1, GrpcListenKeepsInv
      <4>2. CASE ListenerEnds(s) \/ ListenerSend(s)
        BY <1>1, <2>2, <4>2, ListenerKeepsInv
      <4>3. CASE ServeErr(s) \/ ServeStop(s) \/ ServeReturn(s) \/ ServeFails(s)
        BY <1>1, <2>2, <4>3, ServeKeepsInv
      <4>4. QED BY <3>7, <4>1, <4>2, <4>3 DEF Serving
    <3>8. QED BY <2>2, <3>1, <3>2, <3>3, <3>4, <3>5, <3>6, <3>7 DEF Step
  <2>3. QED BY <1>1, <2>1, <2>2 DEF Next
<1>2. QED BY InitInv, <1>1, PTL DEF Spec

\* os.Exit is reached only when no worker's Run is left, and with code 0 only after a signal.
THEOREM ExitIsCleanHolds == Spec => []ExitIsClean
<1>1. RelayInv => ExitIsClean
  BY DEF RelayInv, TypeOK, MainInv, ManagerInv, PartsDone, ExitIsClean
<1>2. QED BY RelayInvariant, <1>1, PTL

\* A relay that ends at once was signalled before it listened for signals, or sent on the
\* closed channel of a server; Manager.Run closes its own when nobody is left to send.
THEOREM EndsAtOnceHolds == Spec => []EndsAtOnce
<1>1. RelayInv => EndsAtOnce
  BY DEF RelayInv, DeadInv, ManagerInv, EndsAtOnce
<1>2. QED BY RelayInvariant, <1>1, PTL

\* No part returns while ctx lives on.
THEOREM RunsWholeHolds == Spec => []RunsWhole
<1>1. RelayInv => RunsWhole
  BY DEF RelayInv, ManagerInv, HealthInv, ServerInv, RunsWhole
<1>2. QED BY RelayInvariant, <1>1, PTL
=============================================================================
