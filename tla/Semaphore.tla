----------------------------- MODULE Semaphore ------------------------------
(***************************************************************************)
(* What the connection pool of a worker promises to those who use it,      *)
(* stated without slots, channel or locks: a user that has a connection    *)
(* keeps one of Size others from being taken, until it gives it back.      *)
(***************************************************************************)
EXTENDS Naturals

CONSTANTS User,  \* those that fetch connections
          Size   \* workers.pool_size

VARIABLES free,  \* how many connections may be taken
          using  \* the users that have one

vars == <<free, using>>

Init == free = Size /\ using = {}

Take(u) ==
  /\ u \notin using
  /\ free > 0
  /\ free' = free - 1
  /\ using' = using \cup {u}

Give(u) ==
  /\ u \in using
  /\ free' = free + 1
  /\ using' = using \ {u}

Next == \E u \in User : Take(u) \/ Give(u)

Spec == Init /\ [][Next]_vars
=============================================================================
