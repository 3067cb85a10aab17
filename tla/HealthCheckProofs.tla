------------------------- MODULE HealthCheckProofs --------------------------
(***************************************************************************)
(* The health checker's safety properties for any number of workers and    *)
(* probes.  HealthInv is inductive; its parts are grouped by what the      *)
(* actions disturb: the workers disturb life, the round and the balancer   *)
(* hand a verdict on from check to rotation to states, the probes read.    *)
(***************************************************************************)
EXTENDS HealthCheck, TLAPS

\* Nothing was started, checked or asked yet.
LEMMA InitInv == Init => HealthInv
<1> SUFFICES ASSUME Init PROVE HealthInv
  OBVIOUS
<1>1. Unborn \in Life /\ ~Unborn.running /\ Unborn.cmd # "alive"
  BY DEF Unborn, LifeOf, Life
<1>2. TypeOK
  BY <1>1 DEF Init, TypeOK
<1>3. Effective = {}
  BY DEF Init, Effective
<1>4. RotationMatchesStates /\ RoundCleans /\ RoundInv
  BY <1>3 DEF Init, RotationMatchesStates, RoundCleans, RoundInv
<1>5. ProbeTruth /\ BornInv
  BY <1>1 DEF Init, ProbeTruth, BornInv
<1> QED
  BY <1>2, <1>4, <1>5 DEF HealthInv

\* A step of a worker's life never takes back that a process was started, and starts
\* before it runs.
LEMMA LifeKeepsBorn ==
  ASSUME NEW l \in Life, NEW m \in Life, LifeStep(l, m)
  PROVE  /\ Born(l) => Born(m)
         /\ (l.running => Born(l)) => (m.running => Born(m))
  BY DEF Life, LifeStep, Starts, Fails, Ends, Notices, Stops, Unlocks, LifeOf, Born

\* Steps of the workers change neither rotation nor verdicts, and only add to what is
\* known of a worker's past.
LEMMA WorkersInv ==
  ASSUME HealthInv, Cancel \/ ManagerFails \/ \E w \in Worker : WorkerStep(w)
  PROVE  HealthInv'
<1>1. UNCHANGED <<lbVars, checkVars, probeVars>>
  BY DEF Cancel, ManagerFails, WorkerStep, LiveOn
<1>2. Effective' = Effective
  BY <1>1 DEF Effective, lbVars
<1> DEFINE Typed == /\ cancelled' \in BOOLEAN /\ stopped' \in BOOLEAN
                    /\ life' \in [Worker -> Life] /\ sawAlive' \in [Worker -> BOOLEAN]
           Grows(v) == /\ Born(life[v]) => Born(life'[v])
                       /\ life'[v].running => Born(life'[v])
                       /\ sawAlive[v] \/ life'[v].cmd = "alive" => sawAlive'[v]
<1>3. Typed /\ \A v \in Worker : Grows(v)
  <2>1. CASE Cancel \/ ManagerFails
    <3>1. UNCHANGED <<life, sawAlive>> /\ cancelled' \in BOOLEAN /\ stopped' \in BOOLEAN
      BY <2>1 DEF Cancel, ManagerFails, HealthInv, TypeOK
    <3> QED
      BY <3>1 DEF HealthInv, TypeOK, BornInv
  <2>2. ASSUME NEW w \in Worker, WorkerStep(w)
        PROVE  Typed /\ \A v \in Worker : Grows(v)
    <3>1. PICK m \in Life : LifeStep(life[w], m) /\ LiveOn(w, m)
      BY <2>2 DEF WorkerStep
    <3>2. life' = [life EXCEPT ![w] = m] /\ sawAlive' = [sawAlive EXCEPT ![w] = @ \/ m.cmd = "alive"]
      BY <3>1 DEF LiveOn
    <3>3. (Born(life[w]) => Born(m)) /\ (m.running => Born(m))
      BY <3>1, LifeKeepsBorn DEF HealthInv, TypeOK, BornInv
    <3>4. life' \in [Worker -> Life] /\ sawAlive' \in [Worker -> BOOLEAN]
      BY <3>2 DEF HealthInv, TypeOK
    <3>5. cancelled' \in BOOLEAN /\ stopped' \in BOOLEAN
      BY <3>1 DEF LiveOn, HealthInv, TypeOK
    <3>6. ASSUME NEW v \in Worker PROVE Grows(v)
      <4>1. CASE v = w
        <5>1. life'[v] = m /\ sawAlive'[v] = (sawAlive[v] \/ m.cmd = "alive")
          BY <3>2, <4>1 DEF HealthInv, TypeOK
        <5>2. sawAlive[v] \/ m.cmd = "alive" => sawAlive'[v]
          BY <5>1, Zenon
        <5> QED
          BY <3>3, <4>1, <5>1, <5>2
      <4>2. CASE v # w
        BY <3>2, <4>2 DEF HealthInv, TypeOK, BornInv
      <4> QED
        BY <4>1, <4>2
    <3> QED
      BY <3>4, <3>5, <3>6
  <2> QED
    BY <2>1, <2>2
<1>4. TypeOK'
  BY <1>1, <1>3 DEF lbVars, checkVars, probeVars, HealthInv, TypeOK
<1>5. RotationMatchesStates' /\ RoundCleans' /\ RoundInv'
  BY <1>1, <1>2, <1>3 DEF checkVars, HealthInv, RotationMatchesStates, RoundCleans, RoundInv
<1>6. ProbeTruth' /\ BornInv'
  BY <1>1, <1>3 DEF checkVars, probeVars, HealthInv, TypeOK, ProbeTruth, BornInv
<1> QED
  BY <1>4, <1>5, <1>6 DEF HealthInv

\* The balancer takes a worker over and later changes the rotation: what it has taken
\* over counts as done, so the rotation it works towards changes at the hand-over only.
LEMMA BalancerInv ==
  ASSUME HealthInv, LBHandle \/ LBStop \/ \E w \in Worker : LBTake(w)
  PROVE  HealthInv'
<1>1. CASE LBHandle \/ LBStop
  <2>1. UNCHANGED <<relayVars, checkVars, probeVars>>
    BY <1>1 DEF LBHandle, LBStop
  <2>2. Effective' = Effective
    BY <1>1 DEF LBHandle, LBStop, Effective
  <2>3. TypeOK'
    BY <1>1, <2>1 DEF LBHandle, LBStop, Effective, relayVars, checkVars,
                      probeVars, HealthInv, TypeOK
  <2>4. RotationMatchesStates' /\ RoundCleans' /\ RoundInv'
    BY <2>1, <2>2 DEF relayVars, checkVars, HealthInv, RotationMatchesStates, RoundCleans,
                      RoundInv
  <2>5. ProbeTruth' /\ BornInv'
    BY <2>1 DEF relayVars, checkVars, probeVars, HealthInv, ProbeTruth, BornInv
  <2> QED
    BY <2>3, <2>4, <2>5 DEF HealthInv
<1>2. ASSUME NEW w \in Worker, LBTake(w)
      PROVE  HealthInv'
  <2>1. /\ lb = "select" /\ lb' = check[w] /\ handed' = {w} /\ check[w] \in {"add", "remove"}
        /\ check' = [check EXCEPT ![w] = "record"]
        /\ UNCHANGED <<relayVars, rotation, checker, verdict, states, probeVars>>
    BY <1>2 DEF LBTake, Report
  <2>2. \A v \in Worker : v # w => (v \in Effective' <=> v \in Effective)
    BY <2>1 DEF Effective
  <2>3. w \in Effective' <=> check[w] = "add"
    BY <2>1 DEF Effective
  <2>4. TypeOK'
    BY <2>1 DEF relayVars, probeVars, HealthInv, TypeOK
  <2>5. check'[w] = "record" /\ \A v \in Worker : v # w => check'[v] = check[v]
    BY <2>1 DEF HealthInv, TypeOK
  <2>6. RotationMatchesStates' /\ RoundCleans'
    BY <2>1, <2>2, <2>5 DEF relayVars, HealthInv, RotationMatchesStates, RoundCleans
  <2>7. RoundInv'
    <3>1. checker # "round" => \A v \in Worker : check'[v] = "idle"
      BY <2>1 DEF HealthInv, RoundInv
    <3>2. ASSUME NEW v \in Worker
          PROVE  /\ check'[v] = "add" => verdict[v] = "READY"
                 /\ check'[v] = "remove" => verdict[v] # "READY"
                 /\ check'[v] = "record" => (v \in Effective' <=> verdict[v] = "READY")
                 /\ verdict[v] # "SHUTDOWN" => check'[v] \in {"add", "remove", "record"}
                 /\ verdict[v] = "READY" => sawAlive[v]
      <4>1. CASE v = w
        BY <2>1, <2>3, <2>5, <4>1 DEF HealthInv, RoundInv
      <4>2. CASE v # w
        BY <2>2, <2>5, <4>2 DEF HealthInv, RoundInv
      <4> QED
        BY <4>1, <4>2
    <3> QED
      BY <2>1, <3>1, <3>2 DEF relayVars, RoundInv
  <2>8. ProbeTruth' /\ BornInv'
    BY <2>1, <2>5 DEF relayVars, probeVars, HealthInv, ProbeTruth, BornInv
  <2> QED
    BY <2>4, <2>6, <2>7, <2>8 DEF HealthInv
<1> QED
  BY <1>1, <1>2

\* A tick finds every goroutine of the round before gone, and the history starts anew.
LEMMA TickInv ==
  ASSUME HealthInv, Tick \/ RoundEnds \/ CheckerStop
  PROVE  HealthInv'
<1>1. CASE Tick
  <2>1. \A w \in Worker : check[w] = "idle" /\ check'[w] = "ask"
    BY <1>1 DEF Tick, HealthInv, RoundInv
  <2>2. TypeOK'
    BY <1>1 DEF Tick, lbVars, probeVars, HealthInv, TypeOK
  <2>3. RotationMatchesStates' /\ RoundCleans'
    BY <2>1 DEF RotationMatchesStates, RoundCleans
  <2>4. RoundInv'
    <3>1. /\ checker' = "round" /\ verdict' = verdict
          /\ \A w \in Worker : verdict[w] = "SHUTDOWN"
      BY <1>1, <2>1 DEF Tick, HealthInv, TypeOK, RoundInv
    <3> QED
      BY <2>1, <3>1 DEF RoundInv
  <2>5. ProbeTruth' /\ BornInv'
    BY <1>1, <2>1 DEF Tick, probeVars, HealthInv, ProbeTruth, BornInv
  <2> QED
    BY <2>2, <2>3, <2>4, <2>5 DEF HealthInv
<1>2. CASE RoundEnds \/ CheckerStop
  <2>1. /\ UNCHANGED <<relayVars, lbVars, check, verdict, states, probeVars>>
        /\ checker' \in {"select", "done"}
        /\ \A w \in Worker : check[w] = "idle"
    BY <1>2 DEF RoundEnds, CheckerStop, HealthInv, RoundInv
  <2>2. Effective' = Effective
    BY <2>1 DEF Effective, lbVars
  <2>3. TypeOK'
    BY <2>1 DEF relayVars, lbVars, probeVars, HealthInv, TypeOK
  <2>4. RotationMatchesStates' /\ RoundCleans' /\ RoundInv'
    BY <2>1, <2>2 DEF relayVars, HealthInv, RotationMatchesStates, RoundCleans, RoundInv
  <2>5. ProbeTruth' /\ BornInv'
    BY <2>1 DEF relayVars, probeVars, HealthInv, ProbeTruth, BornInv
  <2> QED
    BY <2>3, <2>4, <2>5 DEF HealthInv
<1> QED
  BY <1>1, <1>2

\* The goroutine that checks w moves on with a verdict v, before the hand-over.
LEMMA JudgeInv ==
  ASSUME HealthInv, NEW w \in Worker, AskRunning(w) \/ HealthCheckFn(w)
  PROVE  HealthInv'
<1>1. PICK v, to :
        /\ check[w] \in {"ask", "call"} /\ Judge(w, v, to)
        /\ \/ v = "SHUTDOWN" /\ to = "call" /\ life[w].running
           \/ v = "SHUTDOWN" /\ to = "remove"
           \/ v = "READY" /\ to = "add" /\ check[w] = "call" /\ sawAlive[w]
           \/ v = "TRANSIENT_FAILURE" /\ to = "remove" /\ check[w] = "call"
  <2>1. CASE AskRunning(w)
    BY <2>1 DEF AskRunning
  <2>2. CASE Serving(w)
    BY <2>2 DEF Serving, HealthInv, BornInv
  <2>3. CASE NotServing(w)
    BY <2>3 DEF NotServing
  <2> QED
    BY <2>1, <2>2, <2>3 DEF HealthCheckFn
<1>2. /\ UNCHANGED <<relayVars, lbVars, checker, states, probeVars>>
      /\ verdict' = [verdict EXCEPT ![w] = v] /\ check' = [check EXCEPT ![w] = to]
  BY <1>1 DEF Judge
<1>3. /\ check'[w] = to /\ verdict'[w] = v
      /\ \A u \in Worker : u # w => check'[u] = check[u] /\ verdict'[u] = verdict[u]
  BY <1>2 DEF HealthInv, TypeOK
<1>4. Effective' = Effective
  BY <1>2 DEF Effective, lbVars
<1>5. TypeOK'
  BY <1>1, <1>2 DEF relayVars, lbVars, probeVars, HealthInv, TypeOK
<1>6. RotationMatchesStates' /\ RoundCleans'
  BY <1>1, <1>2, <1>3, <1>4 DEF relayVars, HealthInv, RotationMatchesStates, RoundCleans
<1>7. RoundInv'
  <2>1. checker = "round"
    BY <1>1 DEF HealthInv, RoundInv
  <2>2. ASSUME NEW u \in Worker
        PROVE  /\ check'[u] = "add" => verdict'[u] = "READY"
               /\ check'[u] = "remove" => verdict'[u] # "READY"
               /\ check'[u] = "record" => (u \in Effective <=> verdict'[u] = "READY")
               /\ verdict'[u] # "SHUTDOWN" => check'[u] \in {"add", "remove", "record"}
               /\ verdict'[u] = "READY" => sawAlive[u]
    <3>1. CASE u = w
      BY <1>1, <1>3, <3>1
    <3>2. CASE u # w
      BY <1>3, <3>2 DEF HealthInv, RoundInv
    <3> QED
      BY <3>1, <3>2
  <2> QED
    BY <1>2, <1>4, <2>1, <2>2 DEF relayVars, RoundInv
<1>8. ProbeTruth' /\ BornInv'
  <2>1. check[w] = "call" \/ life[w].running => Born(life[w])
    BY DEF HealthInv, BornInv
  <2>2. BornInv'
    BY <1>1, <1>2, <1>3, <2>1 DEF relayVars, probeVars, HealthInv, BornInv
  <2> QED
    BY <1>1, <1>2, <1>3, <2>2 DEF relayVars, probeVars, HealthInv, ProbeTruth
<1> QED
  BY <1>5, <1>6, <1>7, <1>8 DEF HealthInv

\* The verdict is recorded after the hand-over, so rotation and state agree again.
LEMMA RecordInv ==
  ASSUME HealthInv, NEW w \in Worker, Record(w)
  PROVE  HealthInv'
<1>1. /\ check[w] = "record"
      /\ states' = [states EXCEPT ![w] = verdict[w]]
      /\ verdict' = [verdict EXCEPT ![w] = "SHUTDOWN"]
      /\ check' = [check EXCEPT ![w] = "idle"]
      /\ UNCHANGED <<relayVars, lbVars, checker, probeVars>>
  BY DEF Record
<1>2. /\ check'[w] = "idle" /\ verdict'[w] = "SHUTDOWN" /\ states'[w] = verdict[w]
      /\ \A v \in Worker :
           v # w => /\ check'[v] = check[v]
                    /\ verdict'[v] = verdict[v]
                    /\ states'[v] = states[v]
  BY <1>1 DEF HealthInv, TypeOK
<1>3. Effective' = Effective
  BY <1>1 DEF Effective, lbVars
<1>4. /\ w \in Effective <=> verdict[w] = "READY"
      /\ verdict[w] = "READY" => sawAlive[w]
      /\ verdict[w] # "SHUTDOWN" => Born(life[w])
  BY <1>1 DEF HealthInv, RoundInv, BornInv
<1>5. TypeOK'
  BY <1>1, verdict[w] \in {"READY", "TRANSIENT_FAILURE", "SHUTDOWN"}
  DEF relayVars, lbVars, probeVars, HealthInv, TypeOK
<1>6. RotationMatchesStates' /\ RoundCleans'
  BY <1>1, <1>2, <1>3, <1>4 DEF relayVars, HealthInv, RotationMatchesStates, RoundCleans
<1>7. RoundInv'
  BY <1>1, <1>2, <1>3 DEF relayVars, HealthInv, RoundInv
<1>8. ProbeTruth' /\ BornInv'
  BY <1>1, <1>2, <1>4 DEF relayVars, probeVars, HealthInv, ProbeTruth, BornInv
<1> QED
  BY <1>5, <1>6, <1>7, <1>8 DEF HealthInv

\* A probe's loop passes a worker only on a state recorded for a process that was started,
\* and nothing it saw is undone before it answers.
LEMMA ProbesInv ==
  ASSUME HealthInv, NEW p \in Probe, ProbeBegins(p) \/ ProbeLooks(p) \/ ProbePasses(p)
  PROVE  HealthInv'
<1>1. UNCHANGED <<relayVars, lbVars, checkVars>>
  BY DEF ProbeBegins, ProbeLooks, ProbePasses, ProbeAnswers
<1>2. RotationMatchesStates' /\ RoundCleans' /\ RoundInv'
  <2>1. Effective' = Effective
    BY <1>1 DEF Effective, lbVars
  <2> QED
    BY <1>1, <2>1 DEF relayVars, checkVars, HealthInv, RotationMatchesStates, RoundCleans,
                      RoundInv
<1> DEFINE Seen(a, u) == a # "none" => \A w \in Worker \ u : Born(life[w])
           Told(s) == s = 200 => \A w \in Worker : Born(life[w])
           Move(a, u, s) ==
             /\ a \in {"none", "readiness", "liveness"}
             /\ u \in SUBSET Worker
             /\ s \in {0, 200, 503}
             /\ asked' = [asked EXCEPT ![p] = a]
             /\ unseen' = [unseen EXCEPT ![p] = u]
             /\ answer' = [answer EXCEPT ![p] = s]
             /\ Seen(a, u) /\ Told(s)
<1>3. ASSUME NEW a, NEW u, NEW s, Move(a, u, s)
      PROVE  HealthInv'
  <2>1. TypeOK'
    BY <1>1, <1>3 DEF relayVars, lbVars, checkVars, HealthInv, TypeOK
  <2>2. /\ asked'[p] = a /\ unseen'[p] = u /\ answer'[p] = s
        /\ \A q \in Probe :
             q # p => /\ asked'[q] = asked[q]
                      /\ unseen'[q] = unseen[q]
                      /\ answer'[q] = answer[q]
    BY <1>3 DEF HealthInv, TypeOK
  <2>3. ProbeTruth'
    BY <1>1, <1>3, <2>2 DEF relayVars, HealthInv, ProbeTruth
  <2>4. BornInv'
    BY <1>1, <1>3, <2>2 DEF relayVars, checkVars, HealthInv, BornInv
  <2> QED
    BY <1>2, <2>1, <2>3, <2>4 DEF HealthInv
<1>4. CASE ProbeBegins(p)
  <2>1. PICK kind \in {"readiness", "liveness"} : asked' = [asked EXCEPT ![p] = kind]
    BY <1>4 DEF ProbeBegins
  <2>2. Seen(kind, Worker) /\ Told(0)
    OBVIOUS
  <2>3. unseen' = [unseen EXCEPT ![p] = Worker] /\ answer' = [answer EXCEPT ![p] = 0]
    BY <1>4 DEF ProbeBegins
  <2>4. Move(kind, Worker, 0)
    BY <2>1, <2>2, <2>3
  <2> HIDE DEF Move
  <2> QED
    BY <1>3, <2>4
<1>5. CASE ProbeLooks(p)
  <2>1. PICK w \in unseen[p] :
          IF GetServerState(w) \in Bad(asked[p])
            THEN ProbeAnswers(p, 503)
            ELSE /\ unseen' = [unseen EXCEPT ![p] = @ \ {w}]
                 /\ UNCHANGED <<relayVars, lbVars, checkVars, asked, answer>>
    BY <1>5 DEF ProbeLooks
  <2>2. CASE GetServerState(w) \in Bad(asked[p])
    <3>1. Seen("none", {}) /\ Told(503)
      OBVIOUS
    <3>2. Move("none", {}, 503)
      BY <2>1, <2>2, <3>1 DEF ProbeAnswers
    <3> HIDE DEF Move
    <3> QED
      BY <1>3, <3>2
  <2>3. CASE GetServerState(w) \notin Bad(asked[p])
    <3>1. w \in Worker /\ states[w] \in {"READY", "TRANSIENT_FAILURE"}
      BY <2>3 DEF GetServerState, Bad, HealthInv, TypeOK
    <3>2. PICK rest \in SUBSET Worker : rest = unseen[p] \ {w}
      BY DEF HealthInv, TypeOK
    <3>3. PICK kind \in {"none", "readiness", "liveness"}, status \in {0, 200, 503} :
            kind = asked[p] /\ status = answer[p]
      BY DEF HealthInv, TypeOK
    <3>4. /\ unseen' = [unseen EXCEPT ![p] = rest]
          /\ asked' = [asked EXCEPT ![p] = kind]
          /\ answer' = [answer EXCEPT ![p] = status]
      BY <2>1, <2>3, <3>2, <3>3 DEF HealthInv, TypeOK
    <3>5. Seen(kind, rest) /\ Told(status)
      BY <3>1, <3>2, <3>3 DEF HealthInv, BornInv, ProbeTruth
    <3>6. /\ kind \in {"none", "readiness", "liveness"}
          /\ rest \in SUBSET Worker
          /\ status \in {0, 200, 503}
      BY <3>2, <3>3
    <3>7. Move(kind, rest, status)
      BY <3>4, <3>5, <3>6
    <3> HIDE DEF Move
    <3> QED
      BY <1>3, <3>7
  <2> QED
    BY <2>2, <2>3
<1>6. CASE ProbePasses(p)
  <2>1. Seen("none", {}) /\ Told(200)
    BY <1>6 DEF ProbePasses, HealthInv, BornInv
  <2>2. /\ asked' = [asked EXCEPT ![p] = "none"]
        /\ unseen' = [unseen EXCEPT ![p] = {}]
        /\ answer' = [answer EXCEPT ![p] = 200]
    BY <1>6 DEF ProbePasses, ProbeAnswers
  <2>3. Move("none", {}, 200)
    BY <2>1, <2>2
  <2> HIDE DEF Move
  <2> QED
    BY <1>3, <2>3
<1> QED
  BY <1>4, <1>5, <1>6

\* Every step of the checker, the balancer, the workers and the probes preserves HealthInv.
LEMMA StepInv == HealthInv /\ [Next]_vars => HealthInv'
<1> SUFFICES ASSUME HealthInv, [Next]_vars PROVE HealthInv'
  OBVIOUS
<1>1. CASE UNCHANGED vars
  BY <1>1 DEF vars, relayVars, lbVars, checkVars, probeVars, HealthInv, TypeOK, Effective,
              RotationMatchesStates, RoundCleans, ProbeTruth, RoundInv, BornInv
<1>2. CASE Next
  BY <1>2, WorkersInv, BalancerInv, TickInv, JudgeInv, RecordInv, ProbesInv
  DEF Next, CheckStep
<1> QED
  BY <1>1, <1>2

\* HealthInv holds in every reachable state, for any number of workers and probes.
THEOREM HealthInvariant == Spec => []HealthInv
  BY InitInv, StepInv, PTL DEF Spec

\* Outside its own check a worker is in rotation exactly when its recorded state is READY,
\* although checkWorker changes the two one after the other.
THEOREM RotationMatchesStatesHolds == Spec => []RotationMatchesStates
<1>1. HealthInv => RotationMatchesStates
  BY DEF HealthInv
<1> QED
  BY <1>1, HealthInvariant, PTL

\* After a check during which its process was never alive a worker is out of rotation.
THEOREM RoundCleansHolds == Spec => []RoundCleans
<1>1. HealthInv => RoundCleans
  BY DEF HealthInv
<1> QED
  BY <1>1, HealthInvariant, PTL

\* A probe answers 200 only if the process of every worker was started.
THEOREM ProbeTruthHolds == Spec => []ProbeTruth
<1>1. HealthInv => ProbeTruth
  BY DEF HealthInv
<1> QED
  BY <1>1, HealthInvariant, PTL

-----------------------------------------------------------------------------
(* The balancer of this module against the one that LoadBalancer implements. *)

\* The handler that runs works on one worker.
OneHanded == lb \in {"add", "remove"} => \E w \in Worker : handed = {w}

LEMMA OneHandedInv == OneHanded /\ [Next]_vars => OneHanded'
<1> SUFFICES ASSUME OneHanded, [Next]_vars PROVE OneHanded'
  OBVIOUS
<1>1. ASSUME NEW w \in Worker, LBTake(w) PROVE OneHanded'
  BY <1>1 DEF LBTake, OneHanded
<1>2. CASE LBHandle \/ LBStop
  BY <1>2 DEF LBHandle, LBStop, OneHanded
<1>3. CASE lb' = lb /\ handed' = handed
  BY <1>3 DEF OneHanded
<1>4. CASE UNCHANGED vars
  BY <1>3, <1>4 DEF vars, lbVars
<1> QED
  BY <1>1, <1>2, <1>3, <1>4
     DEF Next, Cancel, ManagerFails, WorkerStep, LiveOn, Tick, RoundEnds, CheckerStop, CheckStep,
         AskRunning, HealthCheckFn, Serving, NotServing, Judge, Record, ProbeBegins, ProbeLooks,
         ProbePasses, ProbeAnswers, lbVars

\* The handlers change the rotation by their worker, if at all; nothing else changes it.
LEMMA StepRotates == OneHanded /\ [Next]_vars => [Rot!Next]_(Rot!vars)
<1> SUFFICES ASSUME OneHanded, [Next]_vars PROVE [Rot!Next]_(Rot!vars)
  OBVIOUS
<1>1. CASE rotation' = rotation
  BY <1>1 DEF Rot!vars
<1>2. CASE LBHandle
  <2>1. PICK w \in Worker : handed = {w}
    BY <1>2 DEF LBHandle, OneHanded
  <2>2. CASE rotation' = rotation \cup {w} /\ w \notin rotation
    BY <2>2 DEF Rot!Next, Rot!Add, Rot!WithCandidate
  <2>3. CASE rotation' = rotation \ {w} /\ w \in rotation
    BY <2>3 DEF Rot!Next, Rot!Remove
  <2> QED
    BY <1>1, <1>2, <2>1, <2>2, <2>3 DEF LBHandle, Effective
<1> QED
  BY <1>1, <1>2
     DEF Next, Cancel, ManagerFails, WorkerStep, LiveOn, Tick, RoundEnds, CheckerStop, CheckStep,
         AskRunning, HealthCheckFn, Serving, NotServing, Judge, Record, ProbeBegins, ProbeLooks,
         ProbePasses, ProbeAnswers, LBTake, LBStop, lbVars, vars

\* The balancer that the checker's verdicts reach is the one LoadBalancer implements: what
\* is proved of either holds when they are put together.
THEOREM BalancerAsPromised == Spec => RotationAsPromised
<1>1. Init => OneHanded
  BY DEF Init, OneHanded
<1>2. Init => Rot!Init
  BY DEF Init, Rot!Init
<1> QED
  BY <1>1, <1>2, OneHandedInv, StepRotates, PTL DEF Spec, RotationAsPromised, Rot!Spec
=============================================================================
