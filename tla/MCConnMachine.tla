---------------------------- MODULE MCConnMachine ----------------------------
(* An instance of the connection machine for TLC. *)
EXTENDS ConnMachine
=============================================================================
