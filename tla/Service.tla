------------------------------ MODULE Service -------------------------------
(***************************************************************************)
(* Requests (internal/proxy/proxy.go) and health checks compete for the    *)
(* connections of the workers: HealthCheck, with its workers, balancer and *)
(* checker, composed with the pool of each worker (internal/worker) and    *)
(* the requests that use it.                                               *)
(*                                                                         *)
(* Of a pool only the numbers in the channel `available` are seen here,    *)
(* see ConnectionPool for its slots; of a request the worker it was given, *)
(* see Proxy for what happens on the connection.                           *)
(***************************************************************************)
EXTENDS HealthCheck, Integers, FiniteSets

CONSTANTS Request,  \* the requests a server handles at a time
          PoolSize

ASSUME ServiceAssumption == PoolSize \in Nat \ {0}

VARIABLES
  available,  \* available[w]: how many slot numbers are in the channel of w's pool
  wait,       \* the requests, with their worker, that wait for a number
  use,        \* those that have a connection
  held        \* the workers whose health check has a connection

poolVars == <<available, wait, use, held>>
serviceVars == <<vars, poolVars>>

ServiceInit ==
  /\ Init
  /\ available = [w \in Worker |-> PoolSize]
  /\ wait = {} /\ use = {} /\ held = {}

-----------------------------------------------------------------------------
(* A request: HandleRequest.                                               *)

\* Next() answers a worker in rotation.  A request that gets none is refused at once.
Picks(r, w) ==
  /\ \A v \in Worker : <<r, v>> \notin wait \cup use
  /\ w \in rotation
  /\ wait' = wait \cup {<<r, w>>}
  /\ UNCHANGED <<vars, available, use, held>>

Fetches(r, w) ==
  /\ <<r, w>> \in wait /\ available[w] > 0
  /\ available' = [available EXCEPT ![w] = @ - 1]
  /\ wait' = wait \ {<<r, w>>}
  /\ use' = use \cup {<<r, w>>}
  /\ UNCHANGED <<vars, held>>

\* The five seconds of FetchClientConn are over, or the client has gone.
Refused(r, w) ==
  /\ <<r, w>> \in wait
  /\ wait' = wait \ {<<r, w>>}
  /\ UNCHANGED <<vars, available, use, held>>

\* HandleRequest returns, whatever the outcome, and with it the deferred Return().
Returns(r, w) ==
  /\ <<r, w>> \in use
  /\ available' = [available EXCEPT ![w] = @ + 1]
  /\ use' = use \ {<<r, w>>}
  /\ UNCHANGED <<vars, wait, held>>

-----------------------------------------------------------------------------
(* A health check: defaultHealthCheck.                                     *)

CheckFetches(w) ==
  /\ check[w] = "call" /\ w \notin held /\ available[w] > 0
  /\ available' = [available EXCEPT ![w] = @ - 1]
  /\ held' = held \cup {w}
  /\ UNCHANGED <<vars, wait, use>>

\* A mutant of CheckReturns: Return() is left out.
CheckKeeps(w) ==
  /\ w \in held
  /\ held' = held \ {w}
  /\ UNCHANGED <<available, wait, use>>

\* The deferred Return() runs before the verdict goes to the balancer.
CheckReturns(w) ==
  /\ w \in held
  /\ available' = [available EXCEPT ![w] = @ + 1]
  /\ held' = held \ {w}
  /\ UNCHANGED <<wait, use>>

CheckServes(w) == Serving(w) /\ CheckReturns(w)

\* The RPC or the dialling failed, or the worker is not serving.
CheckFails(w) == NotServing(w) /\ CheckReturns(w)

\* A mutant of CheckTimesOut: it waits on without looking at the context.
CheckWaitsOn(w) == FALSE

\* The timeout is over before a number came, or the context is done.
CheckTimesOut(w) ==
  /\ w \notin held
  /\ available[w] = 0 \/ cancelled
  /\ NotServing(w)
  /\ UNCHANGED poolVars

CheckCall(w) == CheckFetches(w) \/ CheckServes(w) \/ CheckFails(w) \/ CheckTimesOut(w)

-----------------------------------------------------------------------------
\* The steps of HealthCheck that leave the pools alone.
Elsewhere ==
  \/ Cancel \/ ManagerFails
  \/ LBHandle \/ LBStop
  \/ Tick \/ RoundEnds \/ CheckerStop
  \/ \E w \in Worker : WorkerStep(w) \/ LBTake(w) \/ AskRunning(w) \/ Record(w)
  \/ \E p \in Probe : ProbeBegins(p) \/ ProbeLooks(p) \/ ProbePasses(p)

ServiceNext ==
  \/ Elsewhere /\ UNCHANGED poolVars
  \/ \E w \in Worker : CheckCall(w)
  \/ \E r \in Request, w \in Worker :
       Picks(r, w) \/ Fetches(r, w) \/ Refused(r, w) \/ Returns(r, w)

\* Weak fairness as in HealthCheck; a request ends (Proxy!RequestEnds).  A live
\* worker that is asked for its health again and again answers SERVING in the end.
ServiceFairness ==
  /\ WF_serviceVars(Tick /\ UNCHANGED poolVars)
  /\ WF_serviceVars(RoundEnds /\ UNCHANGED poolVars)
  /\ WF_serviceVars(LBHandle /\ UNCHANGED poolVars)
  /\ \A w \in Worker :
       /\ WF_serviceVars((AskRunning(w) \/ Record(w)) /\ UNCHANGED poolVars)
       /\ WF_serviceVars(WorkerUnlocks(w) /\ UNCHANGED poolVars)
       /\ SF_serviceVars(LBTake(w) /\ UNCHANGED poolVars)
       /\ WF_serviceVars(CheckCall(w))
       /\ SF_serviceVars(CheckServes(w))
       /\ \A r \in Request : /\ WF_serviceVars(Fetches(r, w) \/ Refused(r, w))
                             /\ WF_serviceVars(Returns(r, w))

ServiceSpec == ServiceInit /\ [][ServiceNext]_serviceVars
FairServiceSpec == ServiceSpec /\ ServiceFairness

-----------------------------------------------------------------------------
(* Properties.                                                             *)

\* A worker that is only busy, so that its health check finds no connection and takes it
\* out of rotation, comes back: its requests drain and the check of a later round succeeds.
BusyComesBack ==
  \A w \in Worker :
    <>[](life[w].cmd = "alive" /\ ~life[w].stopping /\ ~cancelled) => []<>(w \in rotation)

\* The requests that have a connection of w.
Users(w) == {r \in Request : <<r, w>> \in use}

\* Those that have a connection of w, requests and the health check.
Using(w) ==
  {<<"request", r>> : r \in Users(w)} \cup {<<"check", v>> : v \in held \cap {w}}

\* The counter available[w] stands for the channel of w's pool: both are the semaphore that
\* ConnectionPool implements.
Permits(w) == INSTANCE Semaphore WITH
                User <- {<<"request", r>> : r \in Request} \cup {<<"check", v>> : v \in Worker},
                Size <- PoolSize, free <- available[w], using <- Using(w)

PoolsAreSemaphores == \A w \in Worker : Permits(w)!Spec

\* No slot number is lost or doubled between requests and health checks, which give theirs
\* back on different paths: a check that is over holds none.
SlotsKept ==
  /\ \A w \in Worker :
       available[w] + Cardinality(Users(w)) + (IF w \in held THEN 1 ELSE 0) = PoolSize
  /\ \A w \in held : check[w] = "call"
=============================================================================
