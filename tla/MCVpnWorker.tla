----------------------------- MODULE MCVpnWorker ----------------------------
(* Instances of VpnWorker for TLC: as many starts as let an old worker, the  *)
(* current one and the messages of both overlap.                             *)
EXTENDS VpnWorker
=============================================================================
