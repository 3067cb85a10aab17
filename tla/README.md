# gruf-relay: models, checks and proofs

gruf-relay is a Go process that starts several Ruby gRPC servers (workers), balances incoming
gRPC calls over them, checks their health, answers Kubernetes probes and aggregates their
metrics. This directory holds TLA+ models of its concurrent core, the TLC configurations that
check them and TLAPS proofs of the properties that matter most. Paths below are relative to
the repository; `lines` are of the commit the models were written from.

## 1. The system

| part | state | operations | used by |
|---|---|---|---|
| main (`cmd/gruf-relay/main.go`) | a context, a wait group, `isStarted` | start every part, wait for a signal or a failed part, cancel, wait for all | - |
| manager (`internal/manager`) | the map of workers (fixed) | run all workers, stop all when one fails | main; names and workers: checker, probes, scraper |
| worker (`internal/worker/worker.go`, `command.go`) | `running`, `stopping`, `cmd`, `cmdDoneChan` under `mu`; the OS process | `Run`, `start`, `shutdown`, `waitCmdDone`, `IsRunning`, `FetchClientConn` | manager, checker, proxy, scraper |
| connection pool (`internal/worker/connection_pool.go`) | `connections[]`, channel `available` | `fetchConn`, `Return`, `close` | worker; indirectly proxy and checker |
| load balancer (`internal/loadbalance`) | `workers` (atomic slice), `workerNames`, `nextIndex` | `AddWorker`, `RemoveWorker` (unbuffered channels to `Run`), `Next` | checker (add, remove), proxy (`Next`) |
| health checker (`internal/healthcheck`) | `workerStates` under an RWMutex | one round of checks per tick, `GetServerState` | probes |
| probes (`internal/probes`) | none | `/startup`, `/readiness`, `/liveness` | Kubernetes |
| proxy (`internal/proxy`) | per request: two streams, two pumps | `HandleRequest`, `proxyRequest`, `proxyResponse` | gRPC server |
| gRPC server (`internal/server`) | listener | `Serve`, graceful stop | main |
| metrics (`internal/metrics`) | the families merged in the last round, under `mu` | scrape every worker per tick, merge, publish; `Collect` adds up counters and histograms and picks gauges | Prometheus |
| config, log, codec | none after start | - | all |
| Ruby gem, example, e2e | outside the relay | - | - |

What is hard in it:

* **Readers without locks.** `Next()` indexes a slice whose backing array the balancer's
  goroutine shifts and zeroes in place; `fetchConn` looks at a slot, and then again, without
  the mutex that `close()` holds; `waitCmdDone` reads `stopping` without `mu`.
* **A process that ends whenever it likes**, while it is started, restarted after a second,
  signalled with a five-second limit, or already waited for.
* **Verdicts that are stale when used**: a worker checked healthy is added after it died;
  rotation, recorded state and process change one after the other.
* **Rounds of goroutines** (health checks, scrapes) of which some fail and some are late, while
  others read what the last round has left.
* **Data from outside**: labels and buckets that differ between workers meet in one family.
* **Shutdown**: one context ends all parts at once, and some of them are still needed by
  others.

Properties that make each part correct: the balancer answers workers in rotation, evenly, and
its list never differs from its set of names; the pool neither loses nor duplicates a slot
number, never shares or leaks a connection and is empty after `close()`; a worker leaves no
process behind, never blocks or panics on `cmdDoneChan`, and replaces a crashed process; the
checker keeps rotation and states in step and removes dead workers within a round; probes do
not answer 200 for a worker that never started; a request hands every message on, in order, and
returns what the worker returned, and neither it nor its goroutines outlive their cause; the
metrics endpoint exposes the answers of one round, each series once and added up, and an ordinary
answer never makes it panic; the first failure of a part stops the relay, and its exit leaves nothing running.

## 2. Modules

| module | models | composition |
|---|---|---|
| `Rotation` | what the balancer promises: a set of workers, and calls that answer one of those in rotation at some moment of the call | abstract specification |
| `LoadBalancer` | `loadbalance.go`, one memory access at a time | implements `Rotation` |
| `Semaphore` | what a pool promises: a number of connections, each taken and given back by one user at a time | abstract specification |
| `ConnectionPool` | `connection_pool.go` and its clients | implements `Semaphore` |
| `WorkerLife` | what the others see of a worker: process, flags, lock | abstract steps |
| `Worker` | `worker.go` and `command.go` against an OS process | implements `WorkerLife` |
| `HealthCheck` | `healthcheck.go`, the handlers of `probes.go`, the balancer's goroutine | its workers take the steps of `WorkerLife`; its balancer implements `Rotation` |
| `Service` | requests and health checks that compete for the pools' connections, from `Next()` to `Return()` | composes `HealthCheck` (with its workers and balancer) with pools, each a `Semaphore`, and requests |
| `Proxy` | `proxy.go`: one RPC with its handler, two pumps, client, worker and timer | - |
| `Relay` | `main.go`, `manager.go`, the `Serve` of gRPC server, probes and scraper | joins the parts by what they do when the relay stops |
| `Metrics` | `collector.go`, `counter.go`, `gauge.go`, `histogram.go`: what a collection exposes of merged families | operators |
| `Scraper` | `scraper.go`: rounds, goroutines, merge, publication; `Collect` | uses `Metrics` |
| `MC*` | symmetry, views and constants for TLC | |
| `*Proofs` | theorems and their proofs | |

### LoadBalancer
A Go slice is a header, `[arr, len]`, into one of `arrays`. `Run` is a program counter `pc`:
`OnAddWorker`, `AddWrite` (append: in place while the capacity lasts, else `Grown`),
`AddStore`; and `OnRemoveWorker`, `ShiftSlot`*, `ClearTail` (what `slices.Delete` does to the
array, one slot at a time), `RemoveStore`. `Next()` is `NextLoad`, `NextBump`, and a read of
the two words of an interface value, `NextReadType` and `NextReadData`: a reader that races
with `ClearTail` may see the type of a worker and a nil pointer (`Half`). `candidates`,
`wasEmpty` and `turn` (the slots handed out in the current round of the rotation) are history
variables and guard nothing.

### ConnectionPool
Slot numbers circulate through `available`. `FetchCheck` and `FetchWrap` are the two reads of
`cp.connections[idx]` outside the mutex, `FetchLocked` the slow path under it, which is why it
asks `closer = "idle"`. `close()` is `CloseBegin`, then per slot `CloseSkip`, or `CloseConn`
and `CloseClear`, then `CloseEnd`. `Return` is the deferred `Return()` of `HandleRequest`
and of the health check. `Panic` is `grpc.NewClientStream` on a nil connection.

### Worker, WorkerLife
`RunStep` is `Run` with `shutdown` up to its return, which holds `w.mu` (`locked`) throughout;
`WaiterStep` is the one `waitCmdDone` that exists at a time. `exec.Cmd.Wait` is two steps,
`WaitReaps` (the process is gone, signals to it fail) and `WaitRecords` (`ProcessState` is
set), because `shutdown` reads `ProcessState` from another goroutine. `WorkerLife` forgets the
program counters: `life` in `Worker` is the mapping.

### HealthCheck
`Tick` starts a goroutine per worker (`check[w]`): `AskRunning`, `Serving` or `NotServing`
(the answer to the RPC; only a live process answers, anything may fail), the hand-over
`LBTake`, after which the balancer's handler still has to run (`LBHandle`), and `Record`.
`RoundEnds` is `wg.Wait`. The balancer here changes `rotation` in one step per handler: what
its readers see in between is the subject of `LoadBalancer`. `ProbeLooks` reads one state at
a time.

### Service
Extends `HealthCheck`. A request `Picks` a worker in rotation, waits for a slot number, `Fetches`
one or is `Refused` after five seconds, and `Returns`. The RPC of a health check, one step in
`HealthCheck`, is split in `CheckFetches`, and `CheckServes` or `CheckFails`, which give the number
back before the verdict goes to the balancer; `CheckTimesOut` is the check that gets no number
within its timeout. It needs an empty channel: a receiver takes a number that is there at once.
All other steps are those of `HealthCheck` (`Elsewhere`). What the slots hold is left to
`ConnectionPool`, also its nil connection, which ends the relay (section 4).

### Proxy
`HandlerNext`, `HandlerFetch`, `HandlerOpen` and the three cases of the select
(`HandlerRequestErr`, `HandlerRequestDone`, `HandlerResponseErr`) are `HandleRequest`;
`u` and `d` are the two pumps with their program counter, the message and the error in hand,
and `uchan`, `dchan` their error channels. `HandlerReturn` is `return` with the deferred
cancels and `Return()`. gRPC is the environment: what the code relies on is listed at the head
of the module and stated once, in `StreamEnd`, `StreamReset` and the failing branches of the
pumps. `StreamReset` may drop any messages that have not arrived; trailers come behind all of
them. `gone` is a client that cancelled or whose connection `server.go:51-57` cut. Messages
below gRPC's size limits are assumed. Metadata is only seen as `header`.

### Relay
Each part is the goroutine that `main` launches for it. A worker's `Run` may fail to start or
in its shutdown; that no process survives it is `NoOrphan` of `Worker`. A server is `serve`,
`listener` (the goroutine around `ListenAndServe` or `Serve`) and their channel `errs`; the
action names follow `probes.go`, and `s = Grpc` marks where the gRPC server differs:
`net.Listen` is called first, and a stop before `Serve` is an error. `dead` records that the
process ended without `os.Exit`: by a signal before `signal.Notify`, or by a send on a channel
that `Serve` had closed. Balancer and checker are reduced to their hand-over.

### Metrics, Scraper
`RoundBegins` is the tick on which `Serve` calls `scrapeAndAggregate`; `Visit` is one turn of its
loop (`IsRunning()` may answer either way), `job[w]` the goroutine it starts: `ScrapeFails` or
`ScrapeDone` (all of `scrapeMetrics`), then `Merge` under `mapMu`. `Publish` is `wg.Wait()` with
`updateMetrics`. `Collect` is a request to the endpoint: it computes `Samples` of the published
families and ends the process if a constructor panics (`Panics`): that of the family's collector
on a nil `Help` (`Helped`), or `MustNewConst...` on what `NewDesc` refused (`Refused`, which is the
library's business and any relation here) or on a wrong number of label values. `source` is a history variable:
the answers that the published families come from.

`Metrics` keeps the way the code gets its results: the label names are those of the first
metric, the label values are joined to a key and the key is taken apart again, buckets are
compared by the difference of their bounds. A label value is the sequence of its parts between
commas (`LabelPart`), which is all that joining and splitting can tell apart; so a key, the
concatenation of label values, is such a sequence, too. Floats and 64-bit integers are
numbers here, without rounding or wrap. A family has the same type in all workers, and a HELP line
in all or none, as they run one application; with two types the values of one would be nil.

## 3. Runs

| run | question | bounds |
|---|---|---|
| `load_balancer` | list = names (`ListMatchesNames`), what unlocked readers find (`LBInv`), `EvenSpread`, `MissNeedsChange`, refinement of `Rotation` | 3 workers, 2 callers, `IndexLimit` 5 |
| `load_balancer_miss` | is `nil` answered only when no worker stays in rotation? No | the same |
| `connection_pool` | `TokenInv`, `NoLeak`, `CloseIsComplete`, `ExclusiveConn`, all of `PoolInv`, refinement of `Semaphore`; liveness `SlotComesBack` | 3 clients, 2 slots, 3 dials |
| `connection_pool_nil` | does a fetch without error yield a connection? No | the same |
| `worker` | `NoOrphan`, `RunningIsWatched`, `AnswerIsComing`, all of `WorkerInv`, refinement of `WorkerLife`; liveness `ContextEndsRun`, `CrashIsRepaired` | none: the state space is finite |
| `worker_signaled` | does `shutdown` signal only a process not known to have ended? No | none |
| `health_check` | `RotationMatchesStates`, `RoundCleans`, `ProbeTruth`, all of `HealthInv` | 2 workers, 1 probe that overlaps the checks (`ProbesApart`) |
| `service` | liveness `EndedLeaves`, `BusyComesBack` | 2 workers with 1 connection each, 1 request at a time, behaviours without a shutdown |
| `health_check_shutdown` | does the checker end when the context does? No | 2 workers |
| `proxy` | `InOrder`, `AnswerComplete`, `StatusFaithful`, `NotMisled`; liveness `RequestEnds` | 2 messages each way, windows of 1 |
| `relay` | `ExitIsClean`, `EndsAtOnce`, `RunsWhole`; liveness `ShutdownEnds` | 2 workers, 1 HTTP server, 1 signal |
| `scraper` | `OneRound`, `SeriesOnce`, `SumsAreRight`, `PanicNeedsOddFamily`, all of `ScraperInv`; liveness `ScraperStops` | 2 workers, 7 answers |

Why the bounds are enough. Three workers make the array grow at lengths 0, 1 and 2 and let
`slices.Delete` shift two slots; two callers overtake each other. `IndexLimit` stands for
2^64. Like 2^64 it is no multiple of 3, and unlike it none of 2: the wrap of the counter cuts a
round of the rotation short, which `EvenSpread` allows there and nowhere else. Five leaves room for
a full round of three workers between two wraps. Three clients
on two slots make one wait while `close()` runs; `MaxDials` bounds the connections of a
behaviour, and three are enough to fill both slots and dial again after a close. Two workers
make two checks compete for the balancer, and one probe reads both. One request takes
the only connection of a worker, so that its check times out, while the other worker is checked.
`EndedLeaves` and `BusyComesBack` promise nothing after a shutdown, which nothing forces, so
`BeforeShutdown` leaves it out. With a
window of one and two messages every pump blocks on a full window with a message in hand, while
another is on its way. Two workers fill the manager's error channel and find it full; the gRPC
server and one HTTP server fail together in every order, and probes and scraper do not differ
in this. A second signal would only be dropped. The seven answers of a worker to a scrape meet
in every pair and both orders: the same series in both, other series of one family, labels in
another order, a family of one worker only, other buckets, no labels, empty ones, a comma in one,
a reserved label name, and families without a HELP line, of a converted type and of a skipped
one. Any number of rounds may follow each other, so a leftover of an earlier round would show.

`MCLoadBalancer` uses the symmetry of workers and callers, and a `VIEW` that drops the content
of arrays to which neither the published header nor a call refers: nothing reads them again,
and they are only ever appended after. The `VIEW` of `load_balancer` also drops `wasEmpty`, which
only `MissOnlyWhenEmpty` reads. The `VIEW` of `MCService` drops the recorded states and
`sawAlive`, which no step and neither of its properties reads. `MCHealthCheck` uses the symmetry of
the workers, and a `VIEW` that keeps of an answer only whether it was 200. Its bound `ProbesApart`
lets a probe overlap the checks and the lives of the workers, not the balancer's handlers, which it
does not read, nor the shutdown; the theorems hold without it. The liveness runs use no symmetry.

Deadlock is checked in `proxy` and `relay`, where the final states (and, in `relay`, the
checker's hang) stutter explicitly. The other processes may stop for good, because the relay
shuts down, the client goes away or a bound is reached, and their runs do not check it.

Fairness. Go runs its goroutines on (weak fairness of each); timers and tickers fire; SIGKILL
ends a process, SIGTERM need not; an RPC ends by the proxy's timeout or, if the client does not
read its answers, when the server cuts its connection, so a slot's user returns. In `Proxy`
neither client, worker, timer nor connection age need do anything: the properties say what
follows once they do. In `Relay` a server's stop ends because its requests do.
Strong fairness is assumed in three cases: `sync.Mutex` does not starve the client that waits
for `cp.mu` (its starvation mode hands the lock over after a millisecond); senders on a channel
queue in order, so each hand-over to the balancer is received; and a `select` that finds
`ctx.Done()` ready again and again takes it (in `Scraper` a tick may be ready each time, too). A
scrape ends by its client's timeout of ten seconds. `WorkerUnlocks` in `HealthCheck` is fair because
`ContextEndsRun` holds of `Worker`, `Returns` in `Service` because `RequestEnds` holds of
`Proxy`. Of a live worker `Service` assumes that, asked for its health again and again, it answers
SERVING in the end; without that no relay could keep it in rotation.

Each property has a mutant, a plausible mistake in one action (the operators marked "Mutants"
in the modules), under which TLC finds it violated.

Type invariants are parts of the inductive invariants that the runs check (`LBInv`, `PoolInv`,
`WorkerInv`, `HealthInv`, `ScraperInv`); those of `Proxy` and `Relay` are proved only.

## 4. What the runs found

* `load_balancer_miss`: `slices.Delete` (`loadbalance.go:95`) zeroes a slot that a running
  `Next()` may be about to read. The call returns nil and the request is refused although a
  worker was available all the time.
* `connection_pool_nil`: `close()` between the two unlocked reads (`connection_pool.go:58`,
  `93`) makes `fetchConn` return a nil connection without an error; the RPC on it panics.
* `worker_signaled`: `ProcessState.Exited()` (`worker.go:175`) is false for a process that a
  signal ended. `shutdown` then signals a process that is gone, and `Run` returns an error.
* `health_check_shutdown`: the balancer stops receiving while a check has still to remove a
  worker (`loadbalance.go:43-45`, `50-56`). `checkAll` waits for ever, and so does `main`.

Four things a reader of the code may want to know are not violations of anything the repository
says, and are allowed for in the properties. The proxy timeout does not end a request whose
client does not read (`WaitsForClient`): nothing selects on `timeoutCtx`, and the pump blocked
in `SendMsg` reports nothing until the server cuts the connection, 35 seconds after it was
made. And a relay that finds two of its ports taken may panic instead of exiting with code 1,
leaving its workers running (`EndsAtOnce`, the case `"panic"`). The `+Inf` buckets of several
workers are never added up: `math.Abs(x - y)` of two infinite bounds is NaN and not below 1e-10
(`histogram.go:105`), so each is appended and the last one stays when they are put into a map
(line 129). The published `+Inf` bucket is therefore one worker's, while the count is the sum of
all (`Summed`, the case `b = Inf`); the tests of the histogram only have finite bounds. And a
worker may end the whole relay by what it exposes, at the next collection, which panics in a
goroutine of the registry where nothing recovers. A family without a HELP line has a nil `Help`,
which the constructors of the collectors dereference (`counter.go:24`, `gauge.go:24`,
`histogram.go:28`). `MustNewConstMetric` and `MustNewConstHistogram` panic on label names that
`NewDesc` refuses, such as one that begins with `__`, and on a number of label values that is not
that of the names: an empty value, one with a comma, or metrics with different label names may
lead to that. `PanicNeedsOddFamily` says that nothing else in the families does: not several
workers, no merge order, no labels at all, several, or the same ones in another order.

## 5. Proofs

The theorems hold for every set of workers, callers, clients, probes and servers, every pool
size and every `IndexLimit`. The assumptions are `LBAssumption` (nil and a half-read interface
are no workers; `IndexLimit` is positive), `PoolAssumption` (numbers are naturals; the
configuration does not ask for a positive pool size, so neither does the proof),
`ProxyAssumption` (a window holds at least one message), `RelayAssumption` (the gRPC server
is not an HTTP server), `MetricsAssumption` (each family has one type, and a HELP line
in all workers or in none; an infinite bound is no number; a label value may be empty), `AnswerAssumption` (an answer has each family once, and no
empty one; a label has a name and a value; a metric has the numbers that its family's type asks
for) and
`ServiceAssumption` (a pool has at least one connection: with none, no worker ever passes its
check). Those about `Proxy` hold for any number of messages and any window.

* **LoadBalancerProofs.** `ListMatchesNames` is not inductive: in the middle of a handler the
  array holds a worker twice, or a zero. `LBInv` adds what the array holds then (`ContentInv`),
  where the header points (`HeaderInv`), and what a call that holds an older header may find:
  candidates of the call or nothing (`ViewInv`). One lemma per action. `ImplementsRotation` is the
  refinement. `EvenSpread` needs `TurnInv`: the slots of a round are a run of slots that ends at the
  counter, around the end of the list, so that the next one is new unless the round is full
  (`SlotOfSuccessor`, for every length of the list and every width of the counter, the wrap
  included). `MissNeedsChange` bounds the finding of `load_balancer_miss`: only a removal that
  overwrites the list, or a list replaced meanwhile, lets a call miss.
* **ConnectionPoolProofs.** `PoolInv` joins the slot numbers (`TokenInv`) with the content of
  the slots during a sweep (`SlotInv`); `NoLeak` and `ExclusiveConn` need both. From it also
  `CloseIsComplete`. `PoolIsSemaphore` is the refinement of `Semaphore`, with the clients that
  hold a number as its users.
* **WorkerProofs.** `WorkerInv` relates the two program counters: the unlocked read of
  `stopping` is harmless because it comes after the process was reaped and `shutdown` sets the
  flag before it looks. `ImplementsWorkerLife` is the refinement that `HealthCheck` rests on.
* **HealthCheckProofs.** `HealthInv` follows a verdict from the goroutine to the rotation to
  the recorded state: a hand-over counts as done when it is received (`Effective`).
  `BalancerAsPromised`: the balancer of `HealthCheck`, which changes `rotation` in one step, is the
  one of `Rotation` that `LoadBalancer` implements, so the two fit together.
* **ServiceProofs.** `ServiceImplementsHealthCheck`: the composition is a behaviour of
  `HealthCheck`, so the theorems above hold under any load. `SlotsAreKept`: no slot number is lost
  between requests and checks. It needs `HealthInv`: that no check which holds a connection is
  started over by the next tick follows from `RoundInv`. `ServicePoolsAreSemaphores`: what stands
  for a pool in `Service` is the same `Semaphore` that `ConnectionPool` implements.
* **RelayProofs.** `RelayInv` says of each part why it may be over: a manager because all its
  workers are (`ManagerInv`), a server because the context is cancelled or its listener failed
  (`ServerInv`). `EndsAtOnce` needs the latter: an error in a server's channel comes from a
  listener that is over, so a `Serve` that returns that error leaves nobody to send on the
  channel it closes. Not so a `Serve` that leaves on `ctx.Done()`.
* **ProxyProofs.** None of the four properties is inductive: each is about the ends of a path.
  `RequestInv` and `ResponseInv` say that the messages on the whole path are one sequence, cut
  into what was received, the window, the pump's hand and the other window (`Follows`), as long
  as the pump has not failed. io.EOF means the end of that sequence only on an open stream,
  which is why `HandlerRequestErr` may half-close on every io.EOF. `StatusInv` gives each error
  in a pump's hand or channel its reason.
* **ScraperProofs.** `OneRound` says that there is a bijection between the positions of each
  published family and the metrics of the answers. `ScraperInv` says the same of the families
  merged so far and the answers merged so far (`Done`), which holds between any two steps of the
  goroutines; `MergeRearranged` extends the bijection by the metrics of one more answer, and when
  no goroutine is left `Done` is all that was answered. It holds for any workers and answers.
  `SeriesOnce` and `PanicNeedsOddFamily` are about the keys: regular values have one part each, so
  the key of a metric has as many parts as the family has names (`RegularKey`), and its parts are
  the values in the order of the names (`FlattenSingles`, by a least counterexample). The names
  given to `NewDesc` are those of one of the answers' metrics (`DescribableIsDescribed`). A crash
  is of the families that are published (`CrashInv`).
  `SumsAreRight` compares two computations: the code's loop over a family in the order of the
  merges, and a sum over the answers, which has no order. Both are defined by recursion over
  sets; that such a recursion has a solution (`SetRecursion`) and what it computes is shown by a
  counterexample of least size (`PartInduction`). `LoopSums` is the core: a loop that adds a number
  at each position of a key finds the sum over the metrics these positions stand for
  (`SeriesPositions`). `SumAdds` says that the order in which the sum picks its summands does not
  matter. For histograms the loop's state is a list of buckets, of which no two have the same
  finite bound (`BoundsDiffer`), so that one metric more adds its number to one bucket (`Grows`).

Only model-checked: liveness (`SlotComesBack`, `ContextEndsRun`, `CrashIsRepaired`, `EndedLeaves`,
`BusyComesBack`, `RequestEnds`, `ShutdownEnds`, `ScraperStops`), which TLAPS does not handle under
fairness.

## 6. Not modelled

Configuration (read once, no state), logging, the codec (passes bytes through), TLS and
HTTP/2, the Ruby side, the example and the test drivers. In the modelled parts: log lines, the
command line and environment of a worker, the cause of an RPC error. Of metrics, HTTP and the
text format are one step that yields an answer or fails, and the wording of help texts (whether there is one
matters, and is modelled) and the default registry are left out. The startup probe reads a flag that `main` sets once, before it waits.

## 7. Plan

What would come next:

1. An abstract specification of the relay as a service (which requests it may refuse, and which
   answers it may give), implemented by `Service` with `Proxy` in place of `Returns`.
2. The proof of that refinement.

Nothing in the repository says which requests the relay may refuse when its workers are busy (a
request waits five seconds for a connection, in no order across workers, `worker.go:149`), nor what becomes of the header metadata of an answer
without messages (`proxy.go:161`), so no property states it.
