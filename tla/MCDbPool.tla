------------------------------ MODULE MCDbPool ------------------------------
(* The instance of the connection pool for TLC; see DbPool.cfg. *)
EXTENDS DbPool
=============================================================================
