------------------------------ MODULE MCPurge ------------------------------
(* Instances of Purge for TLC.                                             *)
EXTENDS Purge

CONSTANTS x, y, n1, n2, f1, f2, r1
=============================================================================
