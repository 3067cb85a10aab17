--------------------------- MODULE ConnectionPool ---------------------------
(***************************************************************************)
(* internal/worker/connection_pool.go: the gRPC connections of one worker. *)
(*                                                                         *)
(* The buffered channel `available` holds the free slot numbers.  A client *)
(* (a proxied request or a health check) takes a number, gets the slot's   *)
(* connection or dials one, and gives the number back when it is done.     *)
(* close(), called when the worker (re)starts and when it shuts down,      *)
(* closes every connection, also those in use.  It holds cp.mu, but        *)
(* fetchConn looks at a slot without the lock first: each access of that   *)
(* fast path is a step of its own.                                         *)
(***************************************************************************)
EXTENDS Naturals, Sequences

CONSTANTS
  Client,    \* goroutines that fetch connections
  PoolSize,  \* workers.pool_size; config does not ask for a positive one
  MaxDials   \* bound: connections dialled in a behaviour

ASSUME PoolAssumption == PoolSize \in Nat /\ MaxDials \in Nat

VARIABLES
  connections, \* connections[s]: number of the connection in slot s, NoConn for nil
  available,   \* the channel of free slots
  dialed,      \* connections are numbered from 1 in the order they are dialled
  open,        \* the connections that were not closed
  closer,      \* close(): "idle", or under cp.mu "visit" or "clear" slot sweep
  sweep,
  step,        \* step[c]: where client c is
  idx,         \* idx[c]: the slot number c took from the channel
  conn,        \* conn[c]: the connection in c's pooledClientConn
  crashed      \* a nil *grpc.ClientConn was dereferenced: the process is gone

vars == <<connections, available, dialed, open, closer, sweep, step, idx, conn, crashed>>

Slots  == 0..(PoolSize - 1)
NoConn == 0

\* The clients that hold a slot number.
Holders == {c \in Client : step[c] \in {"check", "wrap", "lock", "held"}}

-----------------------------------------------------------------------------
\* newConnectionPool: no connections, every slot number in the channel.
Init ==
  /\ connections = [s \in Slots |-> NoConn]
  /\ available = [i \in 1..PoolSize |-> i - 1]
  /\ dialed = 0
  /\ open = {}
  /\ closer = "idle"
  /\ sweep = 0
  /\ step = [c \in Client |-> "idle"]
  /\ idx = [c \in Client |-> 0]
  /\ conn = [c \in Client |-> NoConn]
  /\ crashed = FALSE

-----------------------------------------------------------------------------
(* Mutants: plausible mistakes in the actions below.  No action uses them;  *)
(* TLC shows for each that a property would catch it.                      *)

\* fetchConn returns a dial error without giving the slot number back.
FetchDialErrorLosesSlot(c) ==
  /\ step[c] = "lock"
  /\ closer = "idle"
  /\ connections[idx[c]] = NoConn
  /\ step' = [step EXCEPT ![c] = "idle"]
  /\ UNCHANGED <<connections, available, dialed, open, closer, sweep, idx, conn, crashed>>

\* The slow path of fetchConn dials without cp.mu.
FetchUnlocked(c) ==
  /\ step[c] = "lock"
  /\ dialed < MaxDials
  /\ dialed' = dialed + 1
  /\ open' = open \cup {dialed'}
  /\ connections' = [connections EXCEPT ![idx[c]] = dialed']
  /\ conn' = [conn EXCEPT ![c] = dialed']
  /\ step' = [step EXCEPT ![c] = "held"]
  /\ UNCHANGED <<available, closer, sweep, idx, crashed>>

\* close() drops the connection without conn.Close().
CloseForgetsConn ==
  /\ closer = "visit"
  /\ sweep < PoolSize
  /\ connections[sweep] # NoConn
  /\ closer' = "clear"
  /\ UNCHANGED <<connections, available, dialed, open, sweep, step, idx, conn, crashed>>

\* close() leaves the closed connection in its slot.
CloseKeepsSlot ==
  /\ closer = "clear"
  /\ sweep' = sweep + 1
  /\ closer' = "visit"
  /\ UNCHANGED <<connections, available, dialed, open, step, idx, conn, crashed>>

-----------------------------------------------------------------------------
(* fetchConn and Return.                                                   *)

Fetch(c) ==
  /\ step[c] = "idle"
  /\ step' = [step EXCEPT ![c] = "wait"]
  /\ UNCHANGED <<connections, available, dialed, open, closer, sweep, idx, conn, crashed>>

\* idx = <-cp.available
FetchTake(c) ==
  /\ step[c] = "wait"
  /\ available # <<>>
  /\ idx' = [idx EXCEPT ![c] = Head(available)]
  /\ available' = Tail(available)
  /\ step' = [step EXCEPT ![c] = "check"]
  /\ UNCHANGED <<connections, dialed, open, closer, sweep, conn, crashed>>

\* <-ctx.Done(): five seconds passed or the request is over.  A select with both
\* cases ready takes either.
FetchTimeout(c) ==
  /\ step[c] = "wait"
  /\ step' = [step EXCEPT ![c] = "idle"]
  /\ UNCHANGED <<connections, available, dialed, open, closer, sweep, idx, conn, crashed>>

\* if cp.connections[idx] != nil, without the lock
FetchCheck(c) ==
  /\ step[c] = "check"
  /\ step' = [step EXCEPT ![c] = IF connections[idx[c]] # NoConn THEN "wrap" ELSE "lock"]
  /\ UNCHANGED <<connections, available, dialed, open, closer, sweep, idx, conn, crashed>>

\* newPooledClientConn on the fast path reads cp.connections[idx] a second time.
FetchWrap(c) ==
  /\ step[c] = "wrap"
  /\ conn' = [conn EXCEPT ![c] = connections[idx[c]]]
  /\ step' = [step EXCEPT ![c] = "held"]
  /\ UNCHANGED <<connections, available, dialed, open, closer, sweep, idx, crashed>>

\* The slow path, under cp.mu: take the connection that is there now or dial one.
FetchLocked(c) ==
  /\ step[c] = "lock"
  /\ closer = "idle"
  /\ IF connections[idx[c]] = NoConn
       THEN /\ dialed < MaxDials
            /\ dialed' = dialed + 1
            /\ open' = open \cup {dialed'}
            /\ connections' = [connections EXCEPT ![idx[c]] = dialed']
       ELSE UNCHANGED <<connections, dialed, open>>
  /\ conn' = [conn EXCEPT ![c] = connections'[idx[c]]]
  /\ step' = [step EXCEPT ![c] = "held"]
  /\ UNCHANGED <<available, closer, sweep, idx, crashed>>

\* cp.builder() fails: the slot number goes back, still under cp.mu.
FetchDialError(c) ==
  /\ step[c] = "lock"
  /\ closer = "idle"
  /\ connections[idx[c]] = NoConn
  /\ Len(available) < PoolSize
  /\ available' = Append(available, idx[c])
  /\ step' = [step EXCEPT ![c] = "idle"]
  /\ UNCHANGED <<connections, dialed, open, closer, sweep, idx, conn, crashed>>

\* Return() sends `slots` on the channel.
Returning(c, slots) ==
  /\ step[c] = "held"
  /\ conn[c] # NoConn
  /\ Len(available \o slots) <= PoolSize
  /\ available' = available \o slots
  /\ conn' = [conn EXCEPT ![c] = NoConn]
  /\ step' = [step EXCEPT ![c] = "idle"]
  /\ UNCHANGED <<connections, dialed, open, closer, sweep, idx, crashed>>

(* Mutants of Return. *)

\* Both a deferred and an explicit Return().
ReturnTwice(c) == Returning(c, <<idx[c], idx[c]>>)

\* A connection that close() has closed is not given back.
ReturnOnlyOpen(c) == conn[c] \in open /\ Returning(c, <<idx[c]>>)

\* The client's RPC is over, whatever its outcome: Return() sends the number back.
Return(c) == Returning(c, <<idx[c]>>)

\* The client's RPC on a nil *grpc.ClientConn panics, and nothing recovers.
Panic(c) ==
  /\ step[c] = "held"
  /\ conn[c] = NoConn
  /\ crashed' = TRUE
  /\ UNCHANGED <<connections, available, dialed, open, closer, sweep, step, idx, conn>>

-----------------------------------------------------------------------------
(* close(), called by the worker's start and shutdown one at a time.       *)

CloseBegin ==
  /\ closer = "idle"
  /\ closer' = "visit"
  /\ sweep' = 0
  /\ UNCHANGED <<connections, available, dialed, open, step, idx, conn, crashed>>

\* A nil slot is skipped.
CloseSkip ==
  /\ closer = "visit"
  /\ sweep < PoolSize
  /\ connections[sweep] = NoConn
  /\ sweep' = sweep + 1
  /\ UNCHANGED <<connections, available, dialed, open, closer, step, idx, conn, crashed>>

\* conn.Close(): RPCs in flight on the connection fail.
CloseConn ==
  /\ closer = "visit"
  /\ sweep < PoolSize
  /\ connections[sweep] # NoConn
  /\ open' = open \ {connections[sweep]}
  /\ closer' = "clear"
  /\ UNCHANGED <<connections, available, dialed, sweep, step, idx, conn, crashed>>

\* cp.connections[i] = nil
CloseClear ==
  /\ closer = "clear"
  /\ connections' = [connections EXCEPT ![sweep] = NoConn]
  /\ sweep' = sweep + 1
  /\ closer' = "visit"
  /\ UNCHANGED <<available, dialed, open, step, idx, conn, crashed>>

CloseEnd ==
  /\ closer = "visit"
  /\ sweep = PoolSize
  /\ closer' = "idle"
  /\ sweep' = 0
  /\ UNCHANGED <<connections, available, dialed, open, step, idx, conn, crashed>>

Closing == CloseSkip \/ CloseConn \/ CloseClear \/ CloseEnd

-----------------------------------------------------------------------------
Serve(c) ==
  \/ FetchTake(c) \/ FetchTimeout(c) \/ FetchCheck(c) \/ FetchWrap(c)
  \/ FetchLocked(c) \/ FetchDialError(c) \/ Return(c) \/ Panic(c)

Next ==
  /\ ~crashed
  /\ \/ \E c \in Client : Fetch(c) \/ Serve(c)
     \/ CloseBegin \/ Closing

Spec == Init /\ [][Next]_vars

\* Goroutines run on, RPCs end (by the proxy's timeout or, if their client does not read,
\* when the server cuts its connection at the maximum age) and sync.Mutex does not
\* starve the client that waits for cp.mu while close() is called again and again.
Fairness ==
  /\ WF_vars(~crashed /\ Closing)
  /\ \A c \in Client : /\ WF_vars(~crashed /\ Serve(c))
                       /\ SF_vars(~crashed /\ (FetchLocked(c) \/ FetchDialError(c)))

FairSpec == Spec /\ Fairness

-----------------------------------------------------------------------------
(* Properties.                                                             *)

TypeOK ==
  /\ connections \in [Slots -> 0..dialed]
  /\ available \in Seq(Slots)
  /\ dialed \in Nat
  /\ open \subseteq 1..dialed
  /\ closer \in {"idle", "visit", "clear"}
  /\ sweep \in 0..PoolSize
  /\ step \in [Client -> {"idle", "wait", "check", "wrap", "lock", "held"}]
  /\ idx \in [Client -> Nat]
  /\ conn \in [Client -> 0..dialed]
  /\ crashed \in BOOLEAN

\* Every slot number is in exactly one place, the channel or one client: none is lost on
\* the error paths and none is handed out twice.
TokenInv ==
  /\ \A c \in Holders : idx[c] \in Slots
  /\ \A i, j \in 1..Len(available) : available[i] = available[j] => i = j
  /\ \A c \in Holders, i \in 1..Len(available) : available[i] # idx[c]
  /\ \A c, d \in Holders : idx[c] = idx[d] => c = d
  /\ \A s \in Slots : \/ \E i \in 1..Len(available) : available[i] = s
                     \/ \E c \in Holders : idx[c] = s

\* The channel counts the slot numbers as a semaphore does: a number is only taken when one is
\* free, and each client that has taken one gives it back once, on whichever path it leaves.
Permits == INSTANCE Semaphore WITH
             User <- Client, Size <- PoolSize, free <- Len(available), using <- Holders

ImplementsSemaphore == Permits!Spec

\* A connection that was dialled and not closed is in a slot, where the next close()
\* finds it: racing fetches and closes leak none.
NoLeak == \A k \in open : \E s \in Slots : connections[s] = k

\* When close() is done no connection is open, also none that a client still uses or
\* dialled during the sweep: nothing that served the old process reaches the new one.
CloseIsComplete == closer = "visit" /\ sweep = PoolSize => open = {}

\* Two clients never use one connection: at most pool_size RPCs, each on its own
\* connection, reach the worker, which runs pool_size threads.
ExclusiveConn ==
  \A c, d \in Client : conn[c] = conn[d] /\ conn[c] # NoConn => c = d

\* What the slots hold while close() walks over them under clients that do not lock.
SlotInv ==
  /\ \A s, t \in Slots : connections[s] = connections[t] /\ connections[s] # NoConn => s = t
  /\ \A s \in Slots : connections[s] # NoConn =>
       connections[s] \in open \/ (closer = "clear" /\ s = sweep)
  /\ closer # "idle" => \A s \in Slots : s < sweep => connections[s] = NoConn
  /\ closer = "clear" => sweep \in Slots /\ connections[sweep] \notin open
  /\ \A c \in Client : step[c] # "held" => conn[c] = NoConn
  /\ \A c \in Client, s \in Slots :
       conn[c] # NoConn /\ connections[s] = conn[c] => s = idx[c]

\* The inductive invariant of the proofs.
PoolInv == TypeOK /\ TokenInv /\ NoLeak /\ ExclusiveConn /\ SlotInv

\* Every slot number that was taken comes back: on the timeout, dial error, fast and
\* locked paths alike.  A leaked number would shrink the worker's capacity for good.
SlotComesBack ==
  \A c \in Client : step[c] \in {"check", "wrap", "lock", "held"} ~> step[c] = "idle" \/ crashed

\* A fetch without an error yields a connection.
FetchYieldsConn == \A c \in Client : step[c] = "held" => conn[c] # NoConn
=============================================================================
