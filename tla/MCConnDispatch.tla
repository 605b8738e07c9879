--------------------------- MODULE MCConnDispatch ---------------------------
(* Instances of the connection hand-over for TLC; see the cfg files. *)
EXTENDS ConnDispatch
=============================================================================
