------------------------------ MODULE MCRunner ------------------------------
(* Small instances of Runner, and of its readers, for TLC. *)
EXTENDS RunnerContract, SinkInspect

NoEndpoints == <<>>
=============================================================================
