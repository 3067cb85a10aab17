--------------------------- MODULE MCLoadBalancer ---------------------------
(***************************************************************************)
(* The load balancer with a few workers and concurrent callers.  Three     *)
(* workers make the list outgrow its array twice (capacities 0, 1, 2, 4)   *)
(* and let slices.Delete shift more than one slot.                         *)
(***************************************************************************)
EXTENDS LoadBalancer, TLC

Symmetry == Permutations(Worker) \cup Permutations(Caller)

\* What an array holds once neither the published header nor a call refers to it is
\* never read again: states that differ only there are the same state for TLC.
Reachable(a) == a >= slice.arr \/ \E c \in Calling : view[c].arr = a

WithoutGarbage ==
  <<[a \in DOMAIN arrays |-> IF Reachable(a) THEN arrays[a] ELSE <<>>],
    slice, names, pc, cur, hole, callVars, histVars>>

\* No action and only MissOnlyWhenEmpty reads wasEmpty: the other runs ignore it, too.
WithoutWasEmpty ==
  <<[a \in DOMAIN arrays |-> IF Reachable(a) THEN arrays[a] ELSE <<>>],
    slice, names, pc, cur, hole, callVars, candidates, turn>>

=============================================================================
