---------------------------- MODULE MC_BoomuxAdapter ----------------------------
(* Two roles in one Workspace; the sessions are interchangeable.              *)
EXTENDS BoomuxAdapter, TLC

Symmetry == Permutations(Roles)
================================================================================
