------------------------------ MODULE Rotation ------------------------------
(***************************************************************************)
(* What the load balancer promises to the rest of gruf-relay, stated       *)
(* without slices, headers or locks: a set of workers in rotation, changed *)
(* one worker at a time, and calls of Next() that take a while to answer.  *)
(*                                                                         *)
(* A call may answer with any worker that was in rotation at some moment   *)
(* between its beginning and its end, or with one of Misses (no worker).   *)
(***************************************************************************)
CONSTANTS
  Worker,   \* the workers the manager created
  Caller,   \* goroutines that call Next()
  Misses    \* the answers that are not a worker

VARIABLES
  rotation,   \* the workers in rotation
  calling,    \* the callers whose Next() has not returned
  candidates, \* candidates[c]: the workers in rotation at some moment of c's call
  answer      \* answer[c]: what c's latest call returned, a miss until it has

vars == <<rotation, calling, candidates, answer>>

\* What the calls in progress may answer once w is in rotation too.
WithCandidate(w) ==
  [c \in Caller |-> IF c \in calling THEN candidates[c] \cup {w} ELSE candidates[c]]

Init ==
  /\ rotation = {}
  /\ calling = {}
  /\ candidates = [c \in Caller |-> {}]
  /\ answer \in [Caller -> Misses]

Add(w) ==
  /\ w \notin rotation
  /\ rotation' = rotation \cup {w}
  /\ candidates' = WithCandidate(w)
  /\ UNCHANGED <<calling, answer>>

Remove(w) ==
  /\ w \in rotation
  /\ rotation' = rotation \ {w}
  /\ UNCHANGED <<calling, candidates, answer>>

Call(c) ==
  /\ c \notin calling
  /\ calling' = calling \cup {c}
  /\ candidates' = [candidates EXCEPT ![c] = rotation]
  /\ \E m \in Misses : answer' = [answer EXCEPT ![c] = m]
  /\ UNCHANGED rotation

Answer(c) ==
  /\ c \in calling
  /\ calling' = calling \ {c}
  /\ \E r \in candidates[c] \cup Misses : answer' = [answer EXCEPT ![c] = r]
  /\ candidates' = [candidates EXCEPT ![c] = {}]
  /\ UNCHANGED rotation

Next ==
  \/ \E w \in Worker : Add(w) \/ Remove(w)
  \/ \E c \in Caller : Call(c) \/ Answer(c)

Spec == Init /\ [][Next]_vars
=============================================================================
