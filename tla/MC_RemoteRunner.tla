--------------------------- MODULE MC_RemoteRunner ---------------------------
(* A small instance of RemoteRunner for TLC. *)
EXTENDS RemoteRunner, TLC
CONSTANTS a1, a2
=============================================================================
