----------------------------- MODULE MCAdRequest -----------------------------
(* An instance of the requests for TLC. *)
EXTENDS AdRequest

\* Nothing, all, and two sets neither of which holds the other.
SomeContents == {{}, {1, 2}, {2, 3}, Ads}
=============================================================================
