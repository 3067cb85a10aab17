----------------------------- MODULE HealthCheck ----------------------------
(***************************************************************************)
(* internal/healthcheck/healthcheck.go, with what it works on: the workers *)
(* (WorkerLife), the goroutine of the load balancer (one handler at a      *)
(* time, see LoadBalancer), and the Kubernetes probes that read the        *)
(* checker's verdicts (internal/probes/probes.go).                         *)
(*                                                                         *)
(* Each tick starts one goroutine per worker and waits for all of them.  A *)
(* goroutine asks the worker, hands the worker over an unbuffered channel  *)
(* to the balancer and only then records its verdict.                      *)
(***************************************************************************)
EXTENDS WorkerLife

CONSTANTS
  Worker,  \* the workers the manager created
  Probe    \* probe requests in flight

VARIABLES
  cancelled,  \* main's context is done: the relay shuts down
  stopped,    \* the manager's errCtx is done: the workers shut down
  life,       \* life[w]: the worker, see WorkerLife
  lb,         \* LoadBalancer.Run: "select", "stopped", "add" or "remove" in a handler
  handed,     \* the worker that handler works on, {} when none runs
  rotation,   \* the workers in rotation
  checker,    \* Checker.Run: "select", "round" inside checkAll, "done"
  check,      \* check[w]: the goroutine that checks w, "idle" between the rounds
  verdict,    \* verdict[w]: what that goroutine will record, SHUTDOWN until it knows
  states,     \* workerStates[w], "none" for a missing key
  asked,      \* asked[p]: "readiness", "liveness", or "none" between two requests
  unseen,     \* unseen[p]: the names p's loop has not come to
  answer,     \* answer[p]: the status of p's latest request, 0 until it has one
  sawAlive    \* history: w's process was alive at some moment since its check began

relayVars == <<cancelled, stopped, life, sawAlive>>
lbVars    == <<lb, handed, rotation>>
checkVars == <<checker, check, verdict, states>>
probeVars == <<asked, unseen, answer>>
vars      == <<relayVars, lbVars, checkVars, probeVars>>

Init ==
  /\ cancelled = FALSE /\ stopped = FALSE
  /\ life = [w \in Worker |-> Unborn]
  /\ lb = "select" /\ handed = {} /\ rotation = {}
  /\ checker = "select"
  /\ check = [w \in Worker |-> "idle"]
  /\ verdict = [w \in Worker |-> "SHUTDOWN"]
  /\ states = [w \in Worker |-> "none"]
  /\ asked = [p \in Probe |-> "none"]
  /\ unseen = [p \in Probe |-> {}]
  /\ answer = [p \in Probe |-> 0]
  /\ sawAlive = [w \in Worker |-> FALSE]

-----------------------------------------------------------------------------
(* The relay around the checker.                                           *)

\* A signal, or a server that failed: main cancels the context of everything.
Cancel ==
  /\ ~cancelled
  /\ cancelled' = TRUE /\ stopped' = TRUE
  /\ UNCHANGED <<life, sawAlive, lbVars, checkVars, probeVars>>

\* A worker could not be started: the manager shuts the other workers down.
ManagerFails ==
  /\ \E w \in Worker : life[w].cmd = "failed"
  /\ ~stopped
  /\ stopped' = TRUE
  /\ UNCHANGED <<cancelled, life, sawAlive, lbVars, checkVars, probeVars>>

LiveOn(w, m) ==
  /\ life' = [life EXCEPT ![w] = m]
  /\ sawAlive' = [sawAlive EXCEPT ![w] = @ \/ m.cmd = "alive"]
  /\ UNCHANGED <<cancelled, stopped, lbVars, checkVars, probeVars>>

\* The shutdown of w is over.
WorkerUnlocks(w) == \E m \in Life : Unlocks(life[w], m) /\ LiveOn(w, m)

WorkerStep(w) ==
  \E m \in Life :
    /\ LifeStep(life[w], m)
    /\ Stops(life[w], m) => stopped
    /\ LiveOn(w, m)

-----------------------------------------------------------------------------
(* LoadBalancer.Run, which receives what AddWorker and RemoveWorker send.  *)

Report(w) == check[w] \in {"add", "remove"}

\* The rendezvous: the sender goes on, the handler has yet to run.
LBTake(w) ==
  /\ lb = "select"
  /\ Report(w)
  /\ lb' = check[w]
  /\ handed' = {w}
  /\ check' = [check EXCEPT ![w] = "record"]
  /\ UNCHANGED <<relayVars, rotation, checker, verdict, states, probeVars>>

\* The rotation once the handler that runs, if any, is done: onAddWorker leaves a worker
\* that is in rotation alone, onRemoveWorker one that is not.
Effective ==
  IF lb = "add" THEN rotation \cup handed
  ELSE IF lb = "remove" THEN rotation \ handed ELSE rotation

LBHandle ==
  /\ lb \in {"add", "remove"}
  /\ rotation' = Effective
  /\ lb' = "select"
  /\ handed' = {}
  /\ UNCHANGED <<relayVars, checkVars, probeVars>>

LBStop ==
  /\ lb = "select"
  /\ cancelled
  /\ lb' = "stopped"
  /\ UNCHANGED <<relayVars, handed, rotation, checkVars, probeVars>>

-----------------------------------------------------------------------------
(* Checker.Run and the goroutines of checkAll.                             *)

\* <-ticker.C
Tick ==
  /\ checker = "select"
  /\ checker' = "round"
  /\ check' = [w \in Worker |-> "ask"]
  /\ sawAlive' = [w \in Worker |-> life[w].cmd = "alive"]
  /\ UNCHANGED <<cancelled, stopped, life, lbVars, verdict, states, probeVars>>

\* w's goroutine goes on to `to` with the verdict v.
Judge(w, v, to) ==
  /\ verdict' = [verdict EXCEPT ![w] = v]
  /\ check' = [check EXCEPT ![w] = to]
  /\ UNCHANGED <<relayVars, lbVars, checker, states, probeVars>>

\* A mutant of AskRunning: a worker that is not running is not taken out of rotation.
AskRunningOnly(w) ==
  /\ check[w] = "ask"
  /\ ~life[w].locked
  /\ IF life[w].running THEN Judge(w, "SHUTDOWN", "call") ELSE Judge(w, "SHUTDOWN", "record")

\* w.IsRunning(), which waits while the worker shuts down.
AskRunning(w) ==
  /\ check[w] = "ask"
  /\ ~life[w].locked
  /\ IF life[w].running THEN Judge(w, "SHUTDOWN", "call") ELSE Judge(w, "SHUTDOWN", "remove")

\* The RPC answered SERVING.  Only a live process answers.
Serving(w) ==
  /\ check[w] = "call"
  /\ life[w].cmd = "alive"
  /\ Judge(w, "READY", "add")

\* It failed (the pool had no connection within the timeout, the process was gone or is
\* not listening yet, the context is done) or answered something else.
NotServing(w) ==
  /\ check[w] = "call"
  /\ Judge(w, "TRANSIENT_FAILURE", "remove")

\* A mutant of HealthCheckFn: its error is dropped.
ErrorDropped(w) ==
  \/ check[w] = "call" /\ Judge(w, "READY", "add")
  \/ NotServing(w)

\* healthCheckFn, and the switch over what it returned.
HealthCheckFn(w) == Serving(w) \/ NotServing(w)

\* updateWorkerState
Record(w) ==
  /\ check[w] = "record"
  /\ states' = [states EXCEPT ![w] = verdict[w]]
  /\ verdict' = [verdict EXCEPT ![w] = "SHUTDOWN"]
  /\ check' = [check EXCEPT ![w] = "idle"]
  /\ UNCHANGED <<relayVars, lbVars, checker, probeVars>>

\* A mutant of RoundEnds: checkAll does not wait for its goroutines.
RoundNotAwaited ==
  /\ checker = "round"
  /\ checker' = "select"
  /\ UNCHANGED <<relayVars, lbVars, check, verdict, states, probeVars>>

\* wg.Wait() in checkAll
RoundEnds ==
  /\ checker = "round"
  /\ \A w \in Worker : check[w] = "idle"
  /\ checker' = "select"
  /\ UNCHANGED <<relayVars, lbVars, check, verdict, states, probeVars>>

\* <-ctx.Done()
CheckerStop ==
  /\ checker = "select"
  /\ cancelled
  /\ checker' = "done"
  /\ UNCHANGED <<relayVars, lbVars, check, verdict, states, probeVars>>

CheckStep(w) == AskRunning(w) \/ HealthCheckFn(w) \/ Record(w)

-----------------------------------------------------------------------------
(* The probes.                                                             *)

\* A mutant of GetServerState: a missing key is the zero value, IDLE.
StateOrZero(w) == IF states[w] = "none" THEN "IDLE" ELSE states[w]

GetServerState(w) == IF states[w] = "none" THEN "SHUTDOWN" ELSE states[w]

\* The states that make a probe of the kind answer 503.
Bad(kind) ==
  IF kind = "readiness" THEN {"TRANSIENT_FAILURE", "SHUTDOWN"} ELSE {"SHUTDOWN"}

ProbeBegins(p) ==
  /\ asked[p] = "none"
  /\ \E kind \in {"readiness", "liveness"} : asked' = [asked EXCEPT ![p] = kind]
  /\ unseen' = [unseen EXCEPT ![p] = Worker]
  /\ answer' = [answer EXCEPT ![p] = 0]
  /\ UNCHANGED <<relayVars, lbVars, checkVars>>

ProbeAnswers(p, status) ==
  /\ answer' = [answer EXCEPT ![p] = status]
  /\ asked' = [asked EXCEPT ![p] = "none"]
  /\ unseen' = [unseen EXCEPT ![p] = {}]
  /\ UNCHANGED <<relayVars, lbVars, checkVars>>

\* The loop looks at the workers in the random order of a Go map, one at a time.
ProbeLooks(p) ==
  \E w \in unseen[p] :
    IF GetServerState(w) \in Bad(asked[p])
      THEN ProbeAnswers(p, 503)
      ELSE /\ unseen' = [unseen EXCEPT ![p] = @ \ {w}]
           /\ UNCHANGED <<relayVars, lbVars, checkVars, asked, answer>>

ProbePasses(p) == asked[p] # "none" /\ unseen[p] = {} /\ ProbeAnswers(p, 200)

-----------------------------------------------------------------------------
Next ==
  \/ Cancel \/ ManagerFails
  \/ LBHandle \/ LBStop
  \/ Tick \/ RoundEnds \/ CheckerStop
  \/ \E w \in Worker : WorkerStep(w) \/ LBTake(w) \/ CheckStep(w)
  \/ \E p \in Probe : ProbeBegins(p) \/ ProbeLooks(p) \/ ProbePasses(p)

Spec == Init /\ [][Next]_vars

\* Goroutines run on, tickers tick, the health check has a timeout and a shutdown ends
\* (Worker!ContextEndsRun).  Senders on a channel queue, so each is received in the end,
\* and a select that finds ctx.Done() ready again and again takes it in the end.
Fairness ==
  /\ WF_vars(Tick) /\ WF_vars(RoundEnds) /\ SF_vars(CheckerStop)
  /\ WF_vars(LBHandle) /\ SF_vars(LBStop)
  /\ \A w \in Worker : /\ WF_vars(CheckStep(w))
                       /\ SF_vars(LBTake(w))
                       /\ WF_vars(WorkerUnlocks(w))

FairSpec == Spec /\ Fairness

-----------------------------------------------------------------------------
(* Properties.                                                             *)

TypeOK ==
  /\ cancelled \in BOOLEAN /\ stopped \in BOOLEAN
  /\ life \in [Worker -> Life]
  /\ lb \in {"select", "stopped", "add", "remove"}
  /\ handed \subseteq Worker
  /\ rotation \subseteq Worker
  /\ checker \in {"select", "round", "done"}
  /\ check \in [Worker -> {"idle", "ask", "call", "add", "remove", "record"}]
  /\ verdict \in [Worker -> {"READY", "TRANSIENT_FAILURE", "SHUTDOWN"}]
  /\ states \in [Worker -> {"none", "READY", "TRANSIENT_FAILURE", "SHUTDOWN"}]
  /\ asked \in [Probe -> {"none", "readiness", "liveness"}]
  /\ unseen \in [Probe -> SUBSET Worker]
  /\ answer \in [Probe -> {0, 200, 503}]
  /\ sawAlive \in [Worker -> BOOLEAN]

\* What the probes report and where requests go agree: outside its own check, a worker
\* is in rotation exactly when its recorded state is READY.
RotationMatchesStates ==
  \A w \in Worker : check[w] = "idle" => (w \in Effective <=> states[w] = "READY")

\* Stale liveness lasts one round: IsRunning() may answer from a flag nobody has reset yet
\* and the process may die before the hand-over, but after a check during which the
\* process was never alive the worker is out of rotation and its state is not READY.
RoundCleans ==
  \A w \in Worker :
    check[w] = "idle" /\ ~sawAlive[w] => w \notin Effective /\ states[w] # "READY"

\* A probe that answers 200, of either kind, has seen a verdict on a process that was
\* started: Kubernetes never takes a relay for alive one of whose workers never started,
\* also before the first round of checks and with the loop not atomic.
ProbeTruth ==
  \A p \in Probe : answer[p] = 200 => \A w \in Worker : Born(life[w])

\* Where the goroutines of a round are, against the round and their verdicts.
RoundInv ==
  /\ checker # "round" => \A w \in Worker : check[w] = "idle"
  /\ \A w \in Worker :
       /\ check[w] = "add" => verdict[w] = "READY"
       /\ check[w] = "remove" => verdict[w] # "READY"
       /\ check[w] = "record" => (w \in Effective <=> verdict[w] = "READY")
       /\ verdict[w] # "SHUTDOWN" => check[w] \in {"add", "remove", "record"}
       /\ verdict[w] = "READY" => sawAlive[w]

\* A verdict other than SHUTDOWN, recorded or not, is about a process that was started.
BornInv ==
  /\ \A w \in Worker :
       /\ life[w].running \/ check[w] = "call" \/ verdict[w] # "SHUTDOWN" => Born(life[w])
       /\ states[w] \in {"READY", "TRANSIENT_FAILURE"} => Born(life[w])
       /\ life[w].cmd = "alive" => sawAlive[w]
  /\ \A p \in Probe : asked[p] # "none" => \A w \in Worker \ unseen[p] : Born(life[w])

\* The inductive invariant of the proofs.
HealthInv ==
  TypeOK /\ RotationMatchesStates /\ RoundCleans /\ ProbeTruth /\ RoundInv /\ BornInv

\* The balancer is here what Rotation promises and LoadBalancer implements, without the calls
\* of Next(): verdicts add and remove one worker at a time.
Rot == INSTANCE Rotation WITH
         Caller <- {}, Misses <- {}, calling <- {},
         candidates <- [c \in {} |-> {}], answer <- [c \in {} |-> {}]

RotationAsPromised == Rot!Spec

\* A worker whose process has ended does not stay in rotation: it leaves it or is started
\* again, unless the relay shuts down first.
EndedLeaves ==
  \A w \in Worker : []<>(w \notin rotation \/ life[w].cmd # "ended" \/ cancelled)

\* Once the context is done Checker.Run returns, for which main waits before it exits.
CheckerEnds == cancelled ~> checker = "done"
=============================================================================
