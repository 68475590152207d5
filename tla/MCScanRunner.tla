---------------------------- MODULE MCScanRunner ----------------------------
(***************************************************************************)
(* Instances of ScanRunner for TLC. A target is its position in the list,  *)
(* and the queue hands targets out in that order, so there is no symmetry  *)
(* between targets; the threads are spawned in order.                      *)
(***************************************************************************)
EXTENDS ScanRunner

None == {}
Second == {2}
=============================================================================
