--------------------------- MODULE MCRealtimeHub ---------------------------
(* RealtimeHub on small instances; publishers and events are alike.        *)
EXTENDS RealtimeHub, TLC

=============================================================================
