------------------------------ MODULE MCMemory ------------------------------
(***************************************************************************)
(* An instance of the memory service for TLC: one agent's name, in two     *)
(* organizations.                                                          *)
(***************************************************************************)
EXTENDS MemoryService

CONSTANTS a1, o1, o2

MCQueries == {[agent |-> a1, org |-> o1, query |-> FALSE, max_results |-> 1]}
=============================================================================
