--------------------------- MODULE MCSafJobQueue ---------------------------
(* SafJobQueue on small instances. *)
EXTENDS SafJobQueue
=============================================================================
