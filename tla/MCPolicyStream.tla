--------------------------- MODULE MCPolicyStream ---------------------------
(* Actions that are one tick overdue are not told from older ones: a plan  *)
(* drops both, and the command thread looks at neither before a newer one. *)
EXTENDS PolicyStream

MCOldest == -1

=============================================================================
