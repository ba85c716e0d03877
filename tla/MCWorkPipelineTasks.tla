------------------------- MODULE MCWorkPipelineTasks -------------------------
(* Instance of WorkPipelineTasks for TLC.                                   *)
EXTENDS WorkPipelineTasks
=============================================================================
