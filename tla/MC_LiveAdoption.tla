---------------------------- MODULE MC_LiveAdoption ----------------------------
(* Small instances of LiveAdoption: one Pi session that loses its gateway and *)
(* its connections, and two sessions that succeed each other.                 *)
EXTENDS LiveAdoption, TLC

CONSTANTS builder, reviewer, s1, s2, null

OneRole == {builder}
BothRoles == {builder, reviewer}
OneSession == {s1}
TwoSessions == {s1, s2}
Nobody == {}

Symmetric == Permutations(TwoSessions)
=============================================================================
