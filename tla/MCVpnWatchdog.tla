--------------------------- MODULE MCVpnWatchdog ----------------------------
(* An instance of VpnWatchdog for TLC: the poll time out grows twice before  *)
(* its limit, the waiting time is between the two, the penalty has a limit.  *)
EXTENDS VpnWatchdog
=============================================================================
