---------------------------- MODULE MCDeviceTwin ----------------------------
(* DeviceTwin on a small instance: a document with all fields, one whose only
   interval truncates to zero, one with a relay only, one without any field. *)
EXTENDS DeviceTwin, TLC

MCDocuments ==
    {[interval |-> [t \in Timers |-> 60], relay |-> [r \in Relays |-> TRUE]],
     [interval |-> "heartbeat" :> 65536, relay |-> 2 :> FALSE],
     [interval |-> <<>>, relay |-> 1 :> FALSE],
     [interval |-> <<>>, relay |-> <<>>]}
ShippedTemperature == 0       \* latestTempReading is never written
=============================================================================
