--------------------------- MODULE MCSnapshotClone ---------------------------
(* Two pipelines that may run at once, one twin whose name is cloned a     *)
(* second time, and production that writes between the refreshes.          *)
EXTENDS SnapshotClone, TLC

CONSTANTS p1, p2, t1

Alike == Permutations({p1, p2})
===============================================================================
