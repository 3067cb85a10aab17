--------------------------- MODULE ServiceProofs ----------------------------
(***************************************************************************)
(* The composition implements HealthCheck, so what is proved of the health *)
(* checker holds with pools that fill up and requests that come and go;    *)
(* and no slot number is lost between them.                                *)
(***************************************************************************)
EXTENDS Service, HealthCheckProofs, FiniteSetTheorems

\* Requests and the connections of the checks are invisible to HealthCheck; what ends a
\* check is one of its verdicts.
THEOREM ServiceImplementsHealthCheck == ServiceSpec => Spec
<1>1. ServiceInit => Init
  BY DEF ServiceInit
<1>2. [ServiceNext]_serviceVars => [Next]_vars
  <2> SUFFICES ASSUME [ServiceNext]_serviceVars PROVE [Next]_vars
    OBVIOUS
  <2>1. CASE Elsewhere
    BY <2>1 DEF Elsewhere, Next, CheckStep
  <2>2. ASSUME NEW w \in Worker, CheckCall(w) PROVE [Next]_vars
    <3>1. Serving(w) \/ NotServing(w) \/ UNCHANGED vars
      BY <2>2 DEF CheckCall, CheckFetches, CheckServes, CheckFails, CheckTimesOut
    <3> QED
      BY <3>1 DEF Next, CheckStep, HealthCheckFn
  <2>3. ASSUME NEW r \in Request, NEW w \in Worker,
               Picks(r, w) \/ Fetches(r, w) \/ Refused(r, w) \/ Returns(r, w)
        PROVE  UNCHANGED vars
    BY <2>3 DEF Picks, Fetches, Refused, Returns
  <2>4. CASE UNCHANGED serviceVars
    BY <2>4 DEF serviceVars
  <2> QED
    BY <2>1, <2>2, <2>3, <2>4 DEF ServiceNext
<1> QED
  BY <1>1, <1>2, PTL DEF ServiceSpec, Spec

\* Rotation and recorded states agree (healthcheck.go:82-125) whatever the load.
THEOREM ServiceMatchesStates == ServiceSpec => []RotationMatchesStates
BY ServiceImplementsHealthCheck, RotationMatchesStatesHolds, PTL

-----------------------------------------------------------------------------
(* The slot numbers.                                                       *)

\* Only finitely many requests have ever begun.
PoolTypeOK ==
  /\ available \in [Worker -> Int]
  /\ wait \subseteq Request \X Worker
  /\ wait \cap use = {}
  /\ held \subseteq Worker
  /\ \A w \in Worker : IsFiniteSet(Users(w))

PoolInv == PoolTypeOK /\ SlotsKept

\* What w's slot numbers are counted by.
Count(w) == available[w] + Cardinality(Users(w)) + (IF w \in held THEN 1 ELSE 0)

LEMMA PoolInitInv == ServiceInit => PoolInv
<1> SUFFICES ASSUME ServiceInit PROVE PoolInv
  OBVIOUS
<1>1. \A w \in Worker : Users(w) = {} /\ available[w] = PoolSize
  BY DEF ServiceInit, Users
<1>2. PoolTypeOK
  BY <1>1, FS_EmptySet, ServiceAssumption DEF ServiceInit, PoolTypeOK
<1>3. SlotsKept
  BY <1>1, FS_EmptySet, ServiceAssumption DEF ServiceInit, SlotsKept
<1> QED
  BY <1>2, <1>3 DEF PoolInv

\* No check that holds a connection moves in a step of the other parts.
LEMMA ElsewhereInv ==
  ASSUME PoolInv, HealthInv, \/ Elsewhere /\ UNCHANGED poolVars
                             \/ UNCHANGED serviceVars
  PROVE  PoolInv'
<1>1. UNCHANGED poolVars
  BY DEF serviceVars
<1>2. \A w \in Worker : Users(w)' = Users(w)
  BY <1>1 DEF poolVars, Users
<1>3. PoolTypeOK'
  BY <1>1, <1>2 DEF PoolInv, PoolTypeOK, poolVars
<1>4. ASSUME NEW w \in Worker, check[w] = "call", Elsewhere \/ UNCHANGED serviceVars
      PROVE  check'[w] = "call"
  <2>1. /\ checker = "round"
        /\ check \in [Worker -> {"idle", "ask", "call", "add", "remove", "record"}]
    BY <1>4 DEF HealthInv, TypeOK, RoundInv
  <2>2. CASE UNCHANGED serviceVars
    BY <1>4, <2>2 DEF serviceVars, vars, checkVars
  <2>3. CASE Elsewhere
    <3>1. CASE Tick
      BY <2>1, <3>1 DEF Tick
    <3>2. ASSUME NEW v \in Worker, LBTake(v) \/ AskRunning(v) \/ Record(v)
          PROVE  check'[w] = "call"
      <4>1. check[v] # "call"
        BY <3>2 DEF LBTake, Report, AskRunning, Record
      <4>2. v # w
        BY <1>4, <4>1
      <4>3. PICK to : check' = [check EXCEPT ![v] = to]
        BY <3>2 DEF LBTake, AskRunning, Judge, Record
      <4> QED
        BY <1>4, <2>1, <4>2, <4>3
    <3>3. CASE check' = check
      BY <1>4, <3>3
    <3> QED
      BY <2>3, <3>1, <3>2, <3>3
         DEF Elsewhere, Cancel, ManagerFails, LBHandle, LBStop, RoundEnds, CheckerStop,
             WorkerStep, LiveOn, ProbeBegins, ProbeLooks, ProbePasses, ProbeAnswers, checkVars
  <2> QED
    BY <1>4, <2>2, <2>3
<1>5. SlotsKept'
  BY <1>1, <1>2, <1>4 DEF PoolInv, PoolTypeOK, SlotsKept, poolVars
<1> QED
  BY <1>3, <1>5 DEF PoolInv

\* A request moves: the numbers of its worker w change by n, the connections of w by the
\* request itself.
LEMMA RequestInv ==
  ASSUME PoolInv, NEW r \in Request, NEW w \in Worker,
         Picks(r, w) \/ Fetches(r, w) \/ Refused(r, w) \/ Returns(r, w)
  PROVE  PoolInv'
<1>1. check' = check /\ held' = held
  BY DEF Picks, Fetches, Refused, Returns, vars, checkVars
<1>2. wait' \subseteq Request \X Worker /\ wait' \cap use' = {}
  BY DEF PoolInv, PoolTypeOK, Picks, Fetches, Refused, Returns
<1>3. /\ available' \in [Worker -> Int]
      /\ \A v \in Worker : IsFiniteSet(Users(v)') /\ Count(v)' = Count(v)
  <2>1. CASE Picks(r, w) \/ Refused(r, w)
    <3>1. available' = available /\ use' = use
      BY <2>1 DEF Picks, Refused
    <3> QED
      BY <1>1, <3>1 DEF PoolInv, PoolTypeOK, Users, Count
  <2>2. CASE Fetches(r, w)
    <3>1. /\ available' \in [Worker -> Int]
          /\ \A v \in Worker : available'[v] = IF v = w THEN available[v] - 1 ELSE available[v]
      BY <2>2 DEF PoolInv, PoolTypeOK, Fetches
    <3>2. \A v \in Worker : Users(v)' = IF v = w THEN Users(v) \cup {r} ELSE Users(v)
      BY <2>2 DEF Fetches, Users
    <3>3. r \notin Users(w)
      BY <2>2 DEF Fetches, Users, PoolInv, PoolTypeOK
    <3>4. /\ IsFiniteSet(Users(w)) /\ Cardinality(Users(w)) \in Int
          /\ available[w] \in Int
      BY FS_CardinalityType DEF PoolInv, PoolTypeOK
    <3>5. /\ IsFiniteSet(Users(w)')
          /\ Cardinality(Users(w)') = Cardinality(Users(w)) + 1
      BY <3>2, <3>3, <3>4, FS_AddElement
    <3>6. Count(w)' = Count(w)
      BY <1>1, <3>1, <3>4, <3>5 DEF Count
    <3>7. \A v \in Worker \ {w} : IsFiniteSet(Users(v)') /\ Count(v)' = Count(v)
      BY <1>1, <3>1, <3>2 DEF PoolInv, PoolTypeOK, Count
    <3> QED
      BY <3>1, <3>5, <3>6, <3>7
  <2>3. CASE Returns(r, w)
    <3>1. /\ available' \in [Worker -> Int]
          /\ \A v \in Worker : available'[v] = IF v = w THEN available[v] + 1 ELSE available[v]
      BY <2>3 DEF PoolInv, PoolTypeOK, Returns
    <3>2. \A v \in Worker : Users(v)' = IF v = w THEN Users(v) \ {r} ELSE Users(v)
      BY <2>3 DEF Returns, Users
    <3>3. r \in Users(w)
      BY <2>3 DEF Returns, Users
    <3>4. /\ IsFiniteSet(Users(w)) /\ Cardinality(Users(w)) \in Int
          /\ available[w] \in Int
      BY FS_CardinalityType DEF PoolInv, PoolTypeOK
    <3>5. /\ IsFiniteSet(Users(w)')
          /\ Cardinality(Users(w)') = Cardinality(Users(w)) - 1
      BY <3>2, <3>3, <3>4, FS_RemoveElement
    <3>6. Count(w)' = Count(w)
      BY <1>1, <3>1, <3>4, <3>5 DEF Count
    <3>7. \A v \in Worker \ {w} : IsFiniteSet(Users(v)') /\ Count(v)' = Count(v)
      BY <1>1, <3>1, <3>2 DEF PoolInv, PoolTypeOK, Count
    <3> QED
      BY <3>1, <3>5, <3>6, <3>7
  <2> QED
    BY <2>1, <2>2, <2>3
<1>4. PoolTypeOK'
  BY <1>1, <1>2, <1>3 DEF PoolInv, PoolTypeOK
<1>5. SlotsKept'
  BY <1>1, <1>3 DEF PoolInv, SlotsKept, Count
<1> QED
  BY <1>4, <1>5 DEF PoolInv

LEMMA CheckInv ==
  ASSUME PoolInv, HealthInv, NEW w \in Worker, CheckCall(w)
  PROVE  PoolInv'
<1>1. wait' = wait /\ use' = use
  BY DEF CheckCall, CheckFetches, CheckServes, CheckFails, CheckReturns, CheckTimesOut, poolVars
<1>2. \A v \in Worker : Users(v)' = Users(v)
  BY <1>1 DEF Users
<1>3. \A v \in Worker : available[v] \in Int /\ Cardinality(Users(v)) \in Int
  BY FS_CardinalityType DEF PoolInv, PoolTypeOK
<1>4. check \in [Worker -> {"idle", "ask", "call", "add", "remove", "record"}]
  BY DEF HealthInv, TypeOK
<1>5. CASE CheckFetches(w)
  <2>1. /\ available' \in [Worker -> Int] /\ check' = check /\ w \notin held
        /\ held' = held \cup {w} /\ check[w] = "call"
        /\ \A v \in Worker : available'[v] = IF v = w THEN available[v] - 1 ELSE available[v]
    BY <1>5 DEF PoolInv, PoolTypeOK, CheckFetches, vars, checkVars
  <2>2. \A v \in Worker : Count(v)' = Count(v)
    BY <1>2, <1>3, <2>1 DEF Count
  <2> QED
    BY <1>1, <1>2, <2>1, <2>2 DEF PoolInv, PoolTypeOK, SlotsKept, Count
<1>6. CASE CheckServes(w) \/ CheckFails(w)
  <2>1. /\ available' \in [Worker -> Int] /\ w \in held /\ held' = held \ {w}
        /\ \A v \in Worker : available'[v] = IF v = w THEN available[v] + 1 ELSE available[v]
    BY <1>6 DEF PoolInv, PoolTypeOK, CheckServes, CheckFails, CheckReturns
  <2>2. PICK to : check' = [check EXCEPT ![w] = to]
    BY <1>6 DEF CheckServes, CheckFails, Serving, NotServing, Judge
  <2>3. \A v \in Worker \ {w} : check'[v] = check[v]
    BY <1>4, <2>2
  <2>4. \A v \in Worker : Count(v)' = Count(v)
    BY <1>2, <1>3, <2>1 DEF Count
  <2> QED
    BY <1>1, <1>2, <2>1, <2>3, <2>4 DEF PoolInv, PoolTypeOK, SlotsKept, Count
<1>7. CASE CheckTimesOut(w)
  <2>1. available' = available /\ held' = held /\ w \notin held
    BY <1>7 DEF CheckTimesOut, poolVars
  <2>2. PICK to : check' = [check EXCEPT ![w] = to]
    BY <1>7 DEF CheckTimesOut, NotServing, Judge
  <2>3. \A v \in Worker \ {w} : check'[v] = check[v]
    BY <1>4, <2>2
  <2> QED
    BY <1>1, <1>2, <2>1, <2>3 DEF PoolInv, PoolTypeOK, SlotsKept
<1> QED
  BY <1>5, <1>6, <1>7 DEF CheckCall

LEMMA PoolInvariant == ServiceSpec => []PoolInv
<1>1. ServiceSpec => []HealthInv
  BY ServiceImplementsHealthCheck, HealthInvariant, PTL
<1>2. PoolInv /\ HealthInv /\ [ServiceNext]_serviceVars => PoolInv'
  BY ElsewhereInv, RequestInv, CheckInv DEF ServiceNext
<1> QED
  BY <1>1, <1>2, PoolInitInv, PTL DEF ServiceSpec

\* For any number of requests, workers and connections: whatever the order in which requests
\* and health checks end, time out or fail, their slot numbers are given back
\* (connection_pool.go:104-107), and a verdict is handed on only after that.
THEOREM SlotsAreKept == ServiceSpec => []SlotsKept
<1>1. PoolInv => SlotsKept
  BY DEF PoolInv
<1> QED
  BY <1>1, PoolInvariant, PTL

\* A step that leaves the connections of w and their number alone.
LEMMA OtherPools ==
  ASSUME NEW w \in Worker, available'[w] = available[w], Using(w)' = Using(w)
  PROVE  UNCHANGED Permits(w)!vars
BY DEF Permits!vars

\* Each step of the composition is one of the semaphore of w, or none.
LEMMA StepIsPermit ==
  ASSUME PoolInv, [ServiceNext]_serviceVars, NEW w \in Worker
  PROVE  [Permits(w)!Next]_(Permits(w)!vars)
<1> USE DEF PoolInv, PoolTypeOK
<1>1. CASE \/ Elsewhere /\ UNCHANGED poolVars
           \/ UNCHANGED serviceVars
  BY <1>1, OtherPools DEF poolVars, serviceVars, Using, Users
<1>2. ASSUME NEW v \in Worker, CheckCall(v) PROVE [Permits(w)!Next]_(Permits(w)!vars)
  <2>1. use' = use /\ \A u \in Worker : Users(u)' = Users(u)
    BY <1>2 DEF CheckCall, CheckFetches, CheckServes, CheckFails, CheckReturns, CheckTimesOut,
       poolVars, Users
  <2>2. CASE CheckFetches(v)
    <3>1. /\ v \notin held /\ held' = held \cup {v} /\ available[v] > 0
          /\ available'[v] = available[v] - 1
          /\ \A u \in Worker \ {v} : available'[u] = available[u]
      BY <2>2 DEF CheckFetches
    <3>2. CASE v = w
      <4>1. <<"check", w>> \notin Using(w) /\ Using(w)' = Using(w) \cup {<<"check", w>>}
        BY <2>1, <3>1, <3>2 DEF Using
      <4> QED
        BY <3>1, <3>2, <4>1 DEF Permits!Next, Permits!Take
    <3>3. CASE v # w
      BY <2>1, <3>1, <3>3, OtherPools DEF Using
    <3> QED
      BY <3>2, <3>3
  <2>3. CASE CheckServes(v) \/ CheckFails(v)
    <3>1. /\ v \in held /\ held' = held \ {v}
          /\ available'[v] = available[v] + 1
          /\ \A u \in Worker \ {v} : available'[u] = available[u]
      BY <2>3 DEF CheckServes, CheckFails, CheckReturns
    <3>2. CASE v = w
      <4>1. <<"check", w>> \in Using(w) /\ Using(w)' = Using(w) \ {<<"check", w>>}
        BY <2>1, <3>1, <3>2 DEF Using
      <4> QED
        BY <3>1, <3>2, <4>1 DEF Permits!Next, Permits!Give
    <3>3. CASE v # w
      BY <2>1, <3>1, <3>3, OtherPools DEF Using
    <3> QED
      BY <3>2, <3>3
  <2>4. CASE CheckTimesOut(v)
    BY <2>1, <2>4, OtherPools DEF CheckTimesOut, poolVars, Using
  <2> QED
    BY <1>2, <2>2, <2>3, <2>4 DEF CheckCall
<1>3. ASSUME NEW r \in Request, NEW v \in Worker,
             Picks(r, v) \/ Fetches(r, v) \/ Refused(r, v) \/ Returns(r, v)
      PROVE  [Permits(w)!Next]_(Permits(w)!vars)
  <2>1. held' = held
    BY <1>3 DEF Picks, Fetches, Refused, Returns
  <2>2. CASE Picks(r, v) \/ Refused(r, v)
    BY <2>1, <2>2, OtherPools DEF Picks, Refused, Using, Users
  <2>3. CASE Fetches(r, v)
    <3>1. /\ <<r, v>> \notin use /\ use' = use \cup {<<r, v>>} /\ available[v] > 0
          /\ available'[v] = available[v] - 1
          /\ \A u \in Worker \ {v} : available'[u] = available[u]
      BY <2>3 DEF Fetches
    <3>2. CASE v = w
      <4>1. /\ <<"request", r>> \notin Using(w)
            /\ Using(w)' = Using(w) \cup {<<"request", r>>}
        <5>1. r \notin Users(w) /\ Users(w)' = Users(w) \cup {r}
          BY <3>1, <3>2 DEF Users
        <5> QED
          BY <2>1, <5>1 DEF Using
      <4> QED
        BY <3>1, <3>2, <4>1 DEF Permits!Next, Permits!Take
    <3>3. CASE v # w
      BY <2>1, <3>1, <3>3, OtherPools DEF Using, Users
    <3> QED
      BY <3>2, <3>3
  <2>4. CASE Returns(r, v)
    <3>1. /\ <<r, v>> \in use /\ use' = use \ {<<r, v>>}
          /\ available'[v] = available[v] + 1
          /\ \A u \in Worker \ {v} : available'[u] = available[u]
      BY <2>4 DEF Returns
    <3>2. CASE v = w
      <4>1. /\ <<"request", r>> \in Using(w)
            /\ Using(w)' = Using(w) \ {<<"request", r>>}
        <5>1. r \in Users(w) /\ Users(w)' = Users(w) \ {r}
          BY <3>1, <3>2 DEF Users
        <5> QED
          BY <2>1, <5>1 DEF Using
      <4> QED
        BY <3>1, <3>2, <4>1 DEF Permits!Next, Permits!Give
    <3>3. CASE v # w
      BY <2>1, <3>1, <3>3, OtherPools DEF Using, Users
    <3> QED
      BY <3>2, <3>3
  <2> QED
    BY <1>3, <2>2, <2>3, <2>4
<1> QED
  BY <1>1, <1>2, <1>3 DEF ServiceNext

\* The counters that Service has in place of the pools are the semaphores that the pools
\* implement (connection_pool.go:51-77): requests and checks compete for them as for the
\* channel itself.
THEOREM ServicePoolsAreSemaphores == ServiceSpec => PoolsAreSemaphores
<1> SUFFICES ASSUME NEW w \in Worker PROVE ServiceSpec => Permits(w)!Spec
  BY DEF PoolsAreSemaphores
<1>1. ServiceInit => Permits(w)!Init
  BY DEF ServiceInit, Permits!Init, Using, Users
<1>2. ServiceSpec => []PoolInv
  BY PoolInvariant, PTL
<1>3. PoolInv /\ [ServiceNext]_serviceVars => [Permits(w)!Next]_(Permits(w)!vars)
  BY StepIsPermit
<1> QED
  BY <1>1, <1>2, <1>3, PTL DEF ServiceSpec, Permits!Spec
=============================================================================
