----------------------------- MODULE MCPingPong -----------------------------
(* The three workers of hosted/signal.c, all at priority 0. *)
EXTENDS PingPong

PriFlat == [t \in Task |-> 0]
=============================================================================
