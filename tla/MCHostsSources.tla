--------------------------- MODULE MCHostsSources ---------------------------
(* Two sources retrieved by one thread, or one by two that overlap. *)
EXTENDS HostsSources, TLC

MCServers == {<<"etag", "date">>}

Threads == Permutations(Thread)
=============================================================================
