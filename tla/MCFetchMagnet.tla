--------------------------- MODULE MCFetchMagnet ---------------------------
(* FetchMagnet on small instances. *)
EXTENDS FetchMagnet
=============================================================================
