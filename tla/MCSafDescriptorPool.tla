------------------------ MODULE MCSafDescriptorPool ------------------------
(* SafDescriptorPool on a small instance. *)
EXTENDS SafDescriptorPool
=============================================================================
