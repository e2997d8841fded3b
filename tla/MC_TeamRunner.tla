---------------------------- MODULE MC_TeamRunner ----------------------------
(* Small instances of TeamRunner: two Roles without clients for the bridges, *)
(* one Role with a client for the projections.                               *)
EXTENDS TeamRunner

CONSTANTS builder, reviewer, c1, null

BothRoles == {builder, reviewer}
OneRole == {builder}
NoClients == {}
OneClient == {c1}
=============================================================================
