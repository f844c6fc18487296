------------------------------ MODULE MCPaging ------------------------------
(* A small instance of Paging for TLC. *)
EXTENDS Paging

AllLoops == LoopKinds
GivenLimits == {-1, 0, 1}
=============================================================================
