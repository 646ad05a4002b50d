-------------------------- MODULE CheckpointRunner --------------------------
(***************************************************************************)
(* CheckpointRunner.run_once (application/storage_orchestration.py) over   *)
(* latest_checkpoint and save_checkpoint (adapters/sqlite_storage.py): a   *)
(* stage of a run whose checkpoint is stored is not run again.             *)
(*                                                                         *)
(* Workers are coroutines or processes on one database.  The operation is  *)
(* awaited between the look at the table and the insert, and the revision  *)
(* is read before the transaction that uses it.                            *)
(***************************************************************************)
EXTENDS Naturals, FiniteSets

CONSTANTS
    Workers,
    Stages,     \* pairs of analysis_id and stage
    States,     \* what an operation returns: cursor and completed evidence
    MaxStarts,  \* bound on the calls of a behaviour
    NoState     \* no state, no answer

VARIABLES
    table,      \* rows of checkpoints
    work,       \* local state of each worker
    given,      \* history: the highest revision a call on a stage has returned
    started     \* calls so far, for the bound

stageVars == <<table, work, given, started>>

NoStage == [pc |-> "idle", stage |-> NoState, state |-> NoState, revision |-> 0,
            answer |-> NoState, floor |-> 0]

RunnerInit ==
    /\ table = {}
    /\ work = [c \in Workers |-> NoStage]
    /\ given = [s \in Stages |-> 0]
    /\ started = 0

Rows(s) == {x \in table : x.stage = s}

\* Mutant: the first revision is taken.
MutLatest(s) == CHOOSE x \in Rows(s) : \A y \in Rows(s) : x.revision <= y.revision

\* latest_checkpoint
Latest(s) == CHOOSE x \in Rows(s) : \A y \in Rows(s) : y.revision <= x.revision

\* MAX(revision), 0 without rows
MaxRevision(s) == IF Rows(s) = {} THEN 0 ELSE Latest(s).revision

\* The checkpoint x is returned.
Give(x) == given' = [given EXCEPT ![x.stage] = IF @ < x.revision THEN x.revision ELSE @]

\* Mutant: the stage is run whatever is stored.
MutCompleted(s) == FALSE

\* The stage has a checkpoint.
Completed(s) == Rows(s) # {}

\* run_once begins: a stored checkpoint is returned, otherwise the operation
\* starts.
RunOnce(c, s) ==
    /\ work[c].pc \in {"idle", "done"} /\ started < MaxStarts
    /\ started' = started + 1
    /\ LET new == [NoStage EXCEPT !.stage = s, !.floor = given[s]]
       IN  IF Completed(s)
           THEN /\ work' = [work EXCEPT ![c] = [new EXCEPT !.pc = "done", !.answer = Latest(s)]]
                /\ Give(Latest(s))
           ELSE /\ work' = [work EXCEPT ![c] = [new EXCEPT !.pc = "operating"]]
                /\ UNCHANGED given
    /\ UNCHANGED table

\* The operation completes the stage,
Complete(c, v) ==
    /\ work[c].pc = "operating"
    /\ work' = [work EXCEPT ![c].pc = "numbering", ![c].state = v]
    /\ UNCHANGED <<table, given, started>>

\* or raises, and nothing is recorded.
Raise(c) ==
    /\ work[c].pc = "operating"
    /\ work' = [work EXCEPT ![c].pc = "done"]
    /\ UNCHANGED <<table, given, started>>

\* save_checkpoint reads the next revision,
ReadRevision(c) ==
    /\ work[c].pc = "numbering"
    /\ work' = [work EXCEPT ![c].pc = "inserting", ![c].revision = MaxRevision(work[c].stage) + 1]
    /\ UNCHANGED <<table, given, started>>

\* Mutant: no UNIQUE constraint.
MutFree(c) == TRUE

\* UNIQUE(analysis_id, stage, revision); the primary key follows from it.
Free(c) == \A x \in Rows(work[c].stage) : x.revision # work[c].revision

\* and inserts the row.
Insert(c) ==
    /\ work[c].pc = "inserting" /\ Free(c)
    /\ LET x == [stage |-> work[c].stage, revision |-> work[c].revision, state |-> work[c].state]
       IN  /\ table' = table \cup {x} /\ Give(x)
           /\ work' = [work EXCEPT ![c].pc = "done", ![c].answer = x]
    /\ UNCHANGED started

\* Another worker took the revision: the insert raises.
Conflict(c) ==
    /\ work[c].pc = "inserting" /\ ~Free(c)
    /\ work' = [work EXCEPT ![c].pc = "done"]
    /\ UNCHANGED <<table, given, started>>

\* The worker is cancelled or killed.
Abandon(c) ==
    /\ work[c].pc \notin {"idle", "done"}
    /\ work' = [work EXCEPT ![c] = NoStage]
    /\ UNCHANGED <<table, given, started>>

RunnerStep(c) ==
    \/ \E v \in States : Complete(c, v)
    \/ Raise(c) \/ ReadRevision(c) \/ Insert(c) \/ Conflict(c)

RunnerNext == \E c \in Workers : (\E s \in Stages : RunOnce(c, s)) \/ RunnerStep(c) \/ Abandon(c)

RunnerSpec == RunnerInit /\ [][RunnerNext]_stageVars
-----------------------------------------------------------------------------
(* Properties. *)

\* Revisions are numbered from 1 without gaps and none is used twice, also when
\* several workers read the same number (DB schema, principle 7).
RevisionsInOrder ==
    \A s \in Stages : {x.revision : x \in Rows(s)} = 1..Cardinality(Rows(s))

\* Resuming never goes back: a call that starts after another one returned a
\* checkpoint returns that one or a later one.
NeverOlder ==
    \A c \in Workers : work[c].answer # NoState => work[c].answer.revision >= work[c].floor

\* A completed stage is not run again: it never has more checkpoints than there
\* can be workers at once, however often it is resumed.
StageNotRepeated == \A s \in Stages : Cardinality(Rows(s)) <= Cardinality(Workers)
=============================================================================
