--------------------------- MODULE MCTransportLink ---------------------------
(* Instance of TransportLink for TLC.                                        *)
EXTENDS TransportLink
=============================================================================
