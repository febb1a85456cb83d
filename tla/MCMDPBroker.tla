---------------------------- MODULE MCMDPBroker -----------------------------
(* Small instances of MDPBroker for TLC. *)
EXTENDS MDPBroker, TLC

\* Workers with an ordinary address are interchangeable.
Symmetry == Permutations(Workers \ ReservedSenders)
=============================================================================
