---------------------------- MODULE MC_PluginLoader ----------------------------
(* Two sources that may carry the same plugin id.                             *)
EXTENDS PluginLoader, TLC

Symmetry == Permutations(Sources) \cup Permutations(PluginIds) \cup Permutations(Spellings)
================================================================================
