-------------------------- MODULE MCConnectionPool --------------------------
(* The connection pool with more clients than slots.                       *)
EXTENDS ConnectionPool
=============================================================================
