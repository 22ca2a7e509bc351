-------------------------- MODULE MCGracefulShutdown --------------------------
(* GracefulShutdown on a small instance. *)
EXTENDS GracefulShutdown
=============================================================================
