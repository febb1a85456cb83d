---------------------------- MODULE MCMMService -----------------------------
(* Small instances of MMService for TLC; clients and workers are alike. *)
EXTENDS MMService, TLC

Alike == Permutations(Clients) \cup Permutations(Engines) \cup Permutations(Stores)
=============================================================================
