----------------------------- MODULE MCPyGossip -----------------------------
(* PyGossip with nodes that all know and trust each other. *)
EXTENDS PyGossip

CONSTANTS a, c

Everyone  == [n \in Nodes |-> Nodes \ {n}]
OneAndTwo == [n \in Nodes |-> IF n = c THEN 2 ELSE 1]
=============================================================================
