----------------------------- MODULE MC_RemoteGate -----------------------------
(* A small instance of RemoteGate for TLC. *)
EXTENDS RemoteGate, TLC
CONSTANTS r1, r2, p1, p2
=============================================================================
