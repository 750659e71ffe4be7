--------------------------- MODULE MCHostEntries ----------------------------
(* An instance of HostEntries for TLC: a list of the user (source 1) that    *)
(* allows both hosts and redirects the first, and a source that blocks both  *)
(* and redirects the first elsewhere.  Threads are interchangeable.            *)
EXTENDS HostEntries, TLC

CONSTANTS user, other

MCItem ==
    { [type |-> "ALLOWED", matches |-> Host, source |-> 1],
      [type |-> "REDIRECTED", host |-> 1, source |-> 1, redirection |-> user],
      [type |-> "BLOCKED", host |-> 1, source |-> 2],
      [type |-> "BLOCKED", host |-> 2, source |-> 2],
      [type |-> "REDIRECTED", host |-> 1, source |-> 2, redirection |-> other] }

Symmetry == Permutations(Thread)
=============================================================================
