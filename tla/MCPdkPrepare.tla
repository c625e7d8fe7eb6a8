---------------------------- MODULE MCPdkPrepare ----------------------------
(* Two processes with the same output paths; the family has one asset *)
EXTENDS PdkPrepare
CONSTANTS p1, p2
TwoPreparers == {p1, p2}
=============================================================================
