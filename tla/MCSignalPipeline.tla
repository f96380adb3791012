-------------------------- MODULE MCSignalPipeline --------------------------
(* The instance of SignalPipeline that TLC checks. *)
EXTENDS SignalPipeline
=============================================================================
