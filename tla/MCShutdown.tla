----------------------------- MODULE MCShutdown -----------------------------
(* A small instance of Shutdown for TLC.                                   *)
EXTENDS Shutdown, TLC

CONSTANTS r1, r2, metrics, web

=============================================================================
