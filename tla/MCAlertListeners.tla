------------------------- MODULE MCAlertListeners -------------------------
(* AlertListeners with a typed and an all-types listener. *)
EXTENDS AlertListeners

CONSTANTS reply, stats, typed, every

TypesDef(l) == IF l = typed THEN <<reply, stats>> ELSE <<>>
=============================================================================
