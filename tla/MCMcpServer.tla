---------------------------- MODULE MCMcpServer -----------------------------
(***************************************************************************)
(* McpServer with one file of two contents and one above the capture limit.*)
(***************************************************************************)
EXTENDS McpServer

CONSTANTS c1, c2, big

MCCut == [c \in {big} |-> c1]
=============================================================================
