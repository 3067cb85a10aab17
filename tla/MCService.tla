----------------------------- MODULE MCService ------------------------------
(***************************************************************************)
(* Two workers with one connection each, so that a request and a health    *)
(* check get into each other's way.                                        *)
(***************************************************************************)
EXTENDS Service

\* Both properties ask for nothing once the relay shuts down, and nothing makes it shut
\* down: the behaviours in which it does not are all that can violate them.
BeforeShutdown == ~cancelled

\* What no step and neither property reads is left out: the states recorded for the probes
\* and the history variable sawAlive.  No step changes them alone.
WithoutRecords ==
  <<cancelled, stopped, life, lbVars, checker, check, verdict, poolVars>>
=============================================================================
