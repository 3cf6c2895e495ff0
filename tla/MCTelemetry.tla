---------------------------- MODULE MCTelemetry ----------------------------
(* Small instances of TelemetryPipeline for TLC. *)
EXTENDS TelemetryInvariant
=============================================================================
