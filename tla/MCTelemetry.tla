----------------------------- MODULE MCTelemetry ----------------------------
(* A heap with room for both messages and two cells more, of which the rest of
   the firmware holds nothing, or so much that the two share eleven. *)
EXTENDS Telemetry

MCHeapSize == Peak + 2
MCOthersUse == {0, 13}
=============================================================================
