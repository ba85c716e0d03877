------------------------- MODULE MCTransportChannel -------------------------
(* Instance of TransportChannel for TLC; the configurations give the bounds. *)
EXTENDS TransportChannel
=============================================================================
