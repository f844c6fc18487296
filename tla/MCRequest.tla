----------------------------- MODULE MCRequest -----------------------------
(* Small instances of Request for TLC. *)
EXTENDS Request

\* Discovery waits out the timeout, adaptive requests wait for quiet, exact
\* ones for their count.
AllModes == {-1, 0, 2}
=============================================================================
