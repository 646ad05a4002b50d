------------------------------ MODULE MCStorage ------------------------------
(* The two services of application/storage_orchestration.py on one database: *)
(* source reads and stages.  They share no table, so a step of one changes   *)
(* nothing for the other and their interleavings add nothing: a behaviour    *)
(* uses one of them.  Four calls of three workers are enough for all workers *)
(* to store a checkpoint of a stage and for one of them to come back.        *)
EXTENDS MCSourceAccess, CheckpointRunner

VARIABLE service

MCInit == Init /\ RunnerInit /\ service \in {"sources", "stages"}

MCNext ==
    /\ \/ service = "sources" /\ Next /\ UNCHANGED stageVars
       \/ service = "stages" /\ RunnerNext /\ UNCHANGED vars
    /\ UNCHANGED service

MCSpec == MCInit /\ [][MCNext]_<<vars, stageVars, service>>
=============================================================================
