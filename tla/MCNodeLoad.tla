----------------------------- MODULE MCNodeLoad -----------------------------
(* Instance of NodeLoad for TLC: loads in steps of one, a word of eight.     *)
EXTENDS NodeLoad
MCValues == {0, 4, 9}
=============================================================================
