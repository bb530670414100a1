------------------------------ MODULE MCTrace ------------------------------
(* The engine without a CPU tier and with its tracer: the constants are     *)
(* those of the scheduler's instances.                                      *)
EXTENDS EngineTrace, MCScheduler
=============================================================================
