----------------------------- MODULE MCEndpoints ------------------------------
(* Endpoints for TLC: tasks are interchangeable, and so are nodes.           *)
EXTENDS Endpoints, TLC

TaskAndNodeSymmetry == Permutations(Tasks) \union Permutations(Node)
===============================================================================
