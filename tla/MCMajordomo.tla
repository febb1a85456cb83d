---------------------------- MODULE MCMajordomo -----------------------------
(* A small instance of Majordomo for TLC: one service and one client. *)
EXTENDS Majordomo

OneService == [p \in Processes |-> CHOOSE s \in Services : TRUE]
OneClient  == [k \in Commands |-> CHOOSE c \in Clients : TRUE]
=============================================================================
