--------------------------- MODULE MCMirrorRegistry ---------------------------
(***************************************************************************)
(* Two twins, queues of one, and as many requests as it takes to overflow  *)
(* a queue whose worker has not started, each with a path of its own; the  *)
(* comparison is about the incident of the first twin.                     *)
(***************************************************************************)
EXTENDS MirrorRegistry

CONSTANTS t1, t2

MCPathOf == [r \in Requests |-> r]
===============================================================================
