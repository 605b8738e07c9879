----------------------------- MODULE MCLogWriter -----------------------------
(* Instances of the log for TLC; see the cfg files. *)
EXTENDS LogWriter
=============================================================================
