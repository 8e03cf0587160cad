------------------------------ MODULE MCNesting ------------------------------
(* Four processes, one unreadable, and a walk that may look at three.       *)
EXTENDS Nesting

MCPids == 1..4
MCUnreadable == {1}
=============================================================================
