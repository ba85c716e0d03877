---------------------------- MODULE MCDelegation ----------------------------
(* Instance of Delegation for TLC; the configurations give the bounds.      *)
EXTENDS Delegation, TLC

\* Everyone hears everyone.
AllPairs == Node \X Node

\* The stressed nodes hear everyone and everyone hears them; what the others
\* hear of each other changes nothing they do.
StarPairs == {p \in Node \X Node : p[1] \in Stressed \/ p[2] \in Stressed}

\* What the stressed nodes hear, which alone look at the level.
StarLaden == {p \in StarPairs : p[1] \in Stressed}

\* Half the load, in the middle of whatever a stressed node does.
HalfLoad == Stressed \X {Blocks \div 2}

NoSettings == {}

\* Hosts are interchangeable.
HostSymmetry == Permutations(Node \ Stressed)
=============================================================================
