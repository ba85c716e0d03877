----------------------------- MODULE MCPeerTable -----------------------------
(* Instance of PeerTable for TLC.                                           *)
EXTENDS PeerTable, TLC
NodeSymmetry == Permutations(Node)
=============================================================================
