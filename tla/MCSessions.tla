----------------------------- MODULE MCSessions -----------------------------
(* Sessions on a small instance: three connections, two accounts. *)
EXTENDS Sessions
=============================================================================
