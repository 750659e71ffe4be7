--------------------------- MODULE MCDnsEventLoop ---------------------------
(* Instances of DnsEventLoop for TLC: three packets, a queue that holds one  *)
(* query, so that the space limit, the time limit and both together bite.    *)
EXTENDS DnsEventLoop
=============================================================================
