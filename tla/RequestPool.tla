---------------------------- MODULE RequestPool ----------------------------
(***************************************************************************)
(* InFlightRequestPool in application/scheduler.py: identical reads that   *)
(* are in flight share one source call, and each source capability has a  *)
(* bounded number of calls running.                                        *)
(*                                                                         *)
(* Everything runs on one event loop.  The bodies under self._lock have no *)
(* await, so the lock is never held across a suspension and each of them   *)
(* is one action.  A task that finishes queues its callbacks in the order  *)
(* they were added: the one that starts _forget, then the wake-ups of the  *)
(* callers that wait in shield; so _forget runs before any of these        *)
(* callers resumes, while other coroutines may run before it.              *)
(***************************************************************************)
EXTENDS Naturals, Sequences, FiniteSets

CONSTANTS
    Callers,        \* coroutines that call execute
    Keys,           \* the (capability, request_key) pairs
    Capabilities,   \* source capabilities with an approved limit
    CapabilityOf,   \* the capability of a key
    Limit,          \* capability_limits
    Tasks           \* identities of source tasks; their number bounds a behaviour

None == 0
Ended == {"value", "error", "cancelled"}
NoCall == [state |-> "idle", task |-> None, suspended |-> FALSE]

ASSUME PoolAssumption ==
    /\ Tasks \subseteq Nat \ {0}
    /\ Keys # {}
    /\ CapabilityOf \in [Keys -> Capabilities]
    /\ Limit \in [Capabilities -> Nat \ {0}]

VARIABLES
    inflight,   \* _inflight: the task of a key, or None
    task,       \* the key and the state of every task
    waiters,    \* the tasks each semaphore makes wait, in order
    slots,      \* the value of each semaphore
    forgetting, \* ended tasks whose _forget has not run
    caller      \* where a caller is, its task, and whether it suspended for it

vars == <<inflight, task, waiters, slots, forgetting, caller>>

Cap(t) == CapabilityOf[task[t].key]
HasEnded(t) == task[t].state \in Ended
SetState(t, s) == task' = [task EXCEPT ![t].state = s]

Init ==
    /\ inflight = [k \in Keys |-> None]
    /\ task = [t \in Tasks |-> [key |-> CHOOSE k \in Keys : TRUE, state |-> "none"]]
    /\ waiters = [c \in Capabilities |-> <<>>]
    /\ slots = Limit
    /\ forgetting = {}
    /\ caller = [c \in Callers |-> NoCall]

\* Mutant: every call starts a task of its own.
MutJoins(k) == FALSE

\* The call finds a task for its key.
Joins(k) == inflight[k] # None

\* execute by a caller that has no call under way.  A task that has ended and
\* is not forgotten yet answers at once, without suspending the caller.
Execute(c, k) ==
    /\ caller[c].state # "waiting"
    /\ \/ /\ Joins(k)
          /\ caller' = [caller EXCEPT ![c] =
                [state |-> IF HasEnded(inflight[k]) THEN "answered" ELSE "waiting",
                 task |-> inflight[k], suspended |-> ~HasEnded(inflight[k])]]
          /\ UNCHANGED <<inflight, task>>
       \/ /\ ~Joins(k)
          /\ \E t \in Tasks :
                /\ task[t].state = "none" /\ \A u \in Tasks : u < t => task[u].state # "none"
                /\ task' = [task EXCEPT ![t] = [key |-> k, state |-> "created"]]
                /\ inflight' = [inflight EXCEPT ![k] = t]
                /\ caller' = [caller EXCEPT ![c] =
                        [state |-> "waiting", task |-> t, suspended |-> TRUE]]
    /\ UNCHANGED <<waiters, slots, forgetting>>

\* asyncio.Semaphore is a fair counting semaphore: a task that finds a free
\* slot and no waiter takes it, any other task queues behind the waiters.
CanEnter(t) == slots[Cap(t)] > 0 /\ waiters[Cap(t)] = <<>>

\* _run_source reaches `async with semaphore`.
AcquireSlot(t) ==
    /\ task[t].state = "created"
    /\ IF CanEnter(t)
       THEN /\ slots' = [slots EXCEPT ![Cap(t)] = @ - 1]
            /\ SetState(t, "running")
            /\ UNCHANGED waiters
       ELSE /\ waiters' = [waiters EXCEPT ![Cap(t)] = Append(@, t)]
            /\ SetState(t, "queued")
            /\ UNCHANGED slots
    /\ UNCHANGED <<inflight, forgetting, caller>>

\* The first waiter gets a slot that was given back, and starts its operation.
WakeWaiter(t) ==
    /\ task[t].state = "queued"
    /\ t = Head(waiters[Cap(t)])
    /\ slots[Cap(t)] > 0
    /\ slots' = [slots EXCEPT ![Cap(t)] = @ - 1]
    /\ waiters' = [waiters EXCEPT ![Cap(t)] = Tail(@)]
    /\ SetState(t, "running")
    /\ UNCHANGED <<inflight, forgetting, caller>>

\* Mutant: an operation that raises keeps its slot.
MutRelease(t, s) ==
    slots' = [slots EXCEPT ![Cap(t)] = IF s = "value" THEN @ + 1 ELSE @]

\* Leaving `async with semaphore`, by a return or an exception s.
Release(t, s) == slots' = [slots EXCEPT ![Cap(t)] = @ + 1]

\* The operation returns or raises; the done callbacks are queued.
EndOperation(t) ==
    /\ task[t].state = "running"
    /\ \E s \in Ended : SetState(t, s) /\ Release(t, s)
    /\ forgetting' = forgetting \cup {t}
    /\ UNCHANGED <<inflight, waiters, caller>>

\* _forget: drops the entry of the key if it is still this task.
Forget(t) ==
    /\ t \in forgetting
    /\ forgetting' = forgetting \ {t}
    /\ inflight' = [k \in Keys |-> IF k = task[t].key /\ inflight[k] = t THEN None
                                   ELSE inflight[k]]
    /\ UNCHANGED <<task, waiters, slots, caller>>

\* Mutant: callers resume as soon as the task has ended.
MutMayResume(t) == HasEnded(t)

\* The wake-ups of the callers are queued behind the task that runs _forget.
MayResume(t) == HasEnded(t) /\ t \notin forgetting

\* A caller that waits in shield resumes with the task's result or exception.
Answer(c) ==
    /\ caller[c].state = "waiting"
    /\ MayResume(caller[c].task)
    /\ caller' = [caller EXCEPT ![c].state = "answered"]
    /\ UNCHANGED <<inflight, task, waiters, slots, forgetting>>

\* The caller's own task is cancelled while it waits: shield keeps the source
\* task running.
Cancel(c) ==
    /\ caller[c].state = "waiting"
    /\ caller' = [caller EXCEPT ![c] = NoCall]
    /\ UNCHANGED <<inflight, task, waiters, slots, forgetting>>

TaskStep(t) == AcquireSlot(t) \/ WakeWaiter(t) \/ EndOperation(t) \/ Forget(t)

Next ==
    \/ \E c \in Callers : (\E k \in Keys : Execute(c, k)) \/ Answer(c) \/ Cancel(c)
    \/ \E t \in Tasks : TaskStep(t)

Spec == Init /\ [][Next]_vars

\* The event loop runs what is queued, and a source operation ends: HTTP calls
\* have a timeout.  Nothing forces a caller to call or to cancel.
FairSpec ==
    /\ Spec
    /\ \A t \in Tasks : WF_vars(TaskStep(t))
    /\ \A c \in Callers : WF_vars(Answer(c))
-----------------------------------------------------------------------------
(* Properties. *)

Started(t) == task[t].state \in {"created", "queued", "running"}

\* Identical requests share one source call: two tasks of one key are never
\* both unfinished (section 7.2 of the parallel solve flow).
OneSourceCall ==
    \A t, u \in Tasks : Started(t) /\ Started(u) /\ task[t].key = task[u].key => t = u

\* A caller that waited for a source call and calls again gets a new one: the
\* outcome it was given, perhaps a failure, is not replayed to it.  This rests
\* on _forget running before the callers resume.
FreshAfterWait ==
    [][\A c \in Callers :
        (caller[c].state = "answered" /\ caller[c].suspended /\ caller'[c] # caller[c])
            => caller'[c].task # caller[c].task]_vars

\* Every started source call ends and is forgotten, also when all its callers
\* gave up, and every caller that waits is answered, unless it is cancelled:
\* failures do not use up the slots, and no ended call stays in the map.
CallsSettle ==
    /\ \A t \in Tasks : Started(t) ~> (HasEnded(t) /\ \A k \in Keys : inflight[k] # t)
    /\ \A c \in Callers : caller[c].state = "waiting" ~> caller[c].state # "waiting"
=============================================================================
