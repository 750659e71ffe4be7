---------------------------- MODULE MCVpnControl ----------------------------
(* Instances of VpnControl for TLC: the main thread and one other, networks   *)
(* of two types, several of the one and one of the other.                     *)
EXTENDS VpnControl

CONSTANT cellular

MCTypeOf == [n \in Network |-> IF n = cellular THEN "CELLULAR" ELSE "WIFI"]
=============================================================================
