--------------------------- MODULE MCHealthCheck ----------------------------
(***************************************************************************)
(* The health checker with two workers, so that the goroutines of a round  *)
(* compete for the balancer, and one probe request.                        *)
(***************************************************************************)
EXTENDS HealthCheck, TLC

Symmetry == Permutations(Worker)

\* Bound: a probe request overlaps the checks and the lives of the workers, not the handlers
\* of the balancer, which it does not read, and not the shutdown.
ProbesApart ==
  stopped \/ lb # "select" => \A p \in Probe : asked[p] = "none" /\ answer[p] # 200

\* Of an answer, only whether it was 200 is seen by a property, and nothing by an action.
Told200 == <<relayVars, lbVars, checkVars, asked, unseen, {p \in Probe : answer[p] = 200}>>
=============================================================================
