--------------------------- MODULE MCWorkPipeline ---------------------------
(* Instance of WorkPipeline for TLC; the configurations give the bounds.    *)
EXTENDS WorkPipeline, TLC

\* Descriptors are only compared.
Descriptors == Permutations(Fd)
=============================================================================
