------------------------- MODULE RequestPoolProofs -------------------------
(***************************************************************************)
(* Proofs about RequestPool, for any callers, keys, limits and tasks: the  *)
(* map of in-flight calls and the tasks agree, so identical requests share *)
(* one call, and a caller that waited for a call is not given it again.    *)
(***************************************************************************)
EXTENDS RequestPool, TLAPS

States == {"none", "created", "queued", "running"} \cup Ended

PoolTypes ==
    /\ inflight \in [Keys -> Tasks \cup {None}]
    /\ task \in [Tasks -> [key : Keys, state : States]]
    /\ forgetting \subseteq Tasks
    /\ caller \in [Callers -> [state : {"idle", "waiting", "answered"},
                               task : Tasks \cup {None}, suspended : BOOLEAN]]

\* A call that is under way is the one its key's entry names.
Tracked == \A t \in Tasks : Started(t) => inflight[task[t].key] = t

\* An entry names a task of its own key that was created, and one that has
\* ended is about to be forgotten.
EntriesLive ==
    \A k \in Keys : inflight[k] # None =>
        LET t == inflight[k]
        IN  /\ task[t].key = k
            /\ task[t].state # "none"
            /\ HasEnded(t) => t \in forgetting

\* Only ended calls are forgotten.
ForgottenEnded == \A t \in forgetting : HasEnded(t)

\* The call a caller waits for exists, and one it waited for is over and out of
\* the map.
CallersTracked ==
    \A c \in Callers :
        LET t == caller[c].task
        IN  /\ caller[c].state = "waiting" => t \in Tasks /\ task[t].state # "none"
            /\ caller[c].state = "answered" /\ caller[c].suspended =>
                   t \in Tasks /\ HasEnded(t) /\ t \notin forgetting

IndInv == PoolTypes /\ Tracked /\ EntriesLive /\ ForgottenEnded /\ CallersTracked

-----------------------------------------------------------------------------
\* The pool starts with an empty map.
LEMMA InitHolds == Init => IndInv
<1> SUFFICES ASSUME Init PROVE IndInv
    OBVIOUS
<1>1. (CHOOSE k \in Keys : TRUE) \in Keys
    BY PoolAssumption
<1>2. PoolTypes
    BY <1>1 DEF Init, PoolTypes, States, NoCall
<1>3. Tracked /\ EntriesLive /\ ForgottenEnded
    BY DEF Init, Tracked, EntriesLive, ForgottenEnded, Started
<1>4. CallersTracked
    BY DEF Init, CallersTracked, NoCall
<1>5. QED
    BY <1>2, <1>3, <1>4 DEF IndInv

\* execute joins the call its key's entry names.
LEMMA JoinStep ==
    ASSUME IndInv, NEW c \in Callers, NEW k \in Keys,
           inflight[k] # None,
           caller' = [caller EXCEPT ![c] =
                [state |-> IF HasEnded(inflight[k]) THEN "answered" ELSE "waiting",
                 task |-> inflight[k], suspended |-> ~HasEnded(inflight[k])]],
           UNCHANGED <<inflight, task, waiters, slots, forgetting>>
    PROVE  IndInv'
<1>1. inflight[k] \in Tasks /\ task[inflight[k]].state # "none"
    BY DEF IndInv, PoolTypes, EntriesLive
<1>2. PoolTypes'
    BY <1>1 DEF IndInv, PoolTypes
<1>3. Tracked' /\ EntriesLive' /\ ForgottenEnded'
    BY DEF IndInv, Tracked, EntriesLive, ForgottenEnded, Started, HasEnded
<1>4. CallersTracked'
  <2> SUFFICES ASSUME NEW d \in Callers
               PROVE  /\ caller'[d].state = "waiting" =>
                            caller'[d].task \in Tasks /\ task'[caller'[d].task].state # "none"
                      /\ caller'[d].state = "answered" /\ caller'[d].suspended =>
                            /\ caller'[d].task \in Tasks /\ HasEnded(caller[d].task)'
                            /\ caller'[d].task \notin forgetting'
      BY DEF CallersTracked
  <2>1. CASE d = c
      BY <2>1, <1>1 DEF IndInv, PoolTypes, HasEnded
  <2>2. CASE d # c
      BY <2>2 DEF IndInv, PoolTypes, CallersTracked, HasEnded
  <2>3. QED
      BY <2>1, <2>2
<1>5. QED
    BY <1>2, <1>3, <1>4 DEF IndInv

\* execute starts a call when its key has no entry.
LEMMA CreateStep ==
    ASSUME IndInv, NEW c \in Callers, NEW k \in Keys, NEW t \in Tasks,
           inflight[k] = None, task[t].state = "none",
           task' = [task EXCEPT ![t] = [key |-> k, state |-> "created"]],
           inflight' = [inflight EXCEPT ![k] = t],
           caller' = [caller EXCEPT ![c] =
                [state |-> "waiting", task |-> t, suspended |-> TRUE]],
           UNCHANGED <<waiters, slots, forgetting>>
    PROVE  IndInv'
<1>1. PoolTypes'
    BY DEF IndInv, PoolTypes, States
<1>2. t \notin forgetting /\ \A j \in Keys : inflight[j] # t
    BY PoolAssumption DEF IndInv, PoolTypes, ForgottenEnded, EntriesLive, HasEnded, Ended, None
<1>3. Tracked'
  <2> SUFFICES ASSUME NEW u \in Tasks, Started(u)' PROVE inflight'[task'[u].key] = u
      BY DEF Tracked
  <2>1. CASE u = t
      BY <2>1 DEF IndInv, PoolTypes
  <2>2. CASE u # t
    <3>1. task'[u] = task[u] /\ Started(u)
        BY <2>2 DEF IndInv, PoolTypes, Started
    <3>2. inflight[task[u].key] = u /\ u # None /\ task[u].key \in Keys
        BY <3>1, PoolAssumption DEF IndInv, PoolTypes, Tracked, None
    <3>3. QED
        BY <3>1, <3>2 DEF IndInv, PoolTypes
  <2>3. QED
      BY <2>1, <2>2
<1>4. EntriesLive'
    BY <1>2 DEF IndInv, PoolTypes, EntriesLive, HasEnded, Ended
<1>5. ForgottenEnded'
    BY <1>2 DEF IndInv, PoolTypes, ForgottenEnded, HasEnded
<1>6. CallersTracked'
  <2> SUFFICES ASSUME NEW d \in Callers
               PROVE  /\ caller'[d].state = "waiting" =>
                            caller'[d].task \in Tasks /\ task'[caller'[d].task].state # "none"
                      /\ caller'[d].state = "answered" /\ caller'[d].suspended =>
                            /\ caller'[d].task \in Tasks /\ HasEnded(caller[d].task)'
                            /\ caller'[d].task \notin forgetting'
      BY DEF CallersTracked
  <2>1. CASE d = c
      BY <2>1 DEF IndInv, PoolTypes
  <2>2. CASE d # c
      BY <2>2 DEF IndInv, PoolTypes, CallersTracked, HasEnded, Ended
  <2>3. QED
      BY <2>1, <2>2
<1>7. QED
    BY <1>1, <1>3, <1>4, <1>5, <1>6 DEF IndInv

\* A call moves on between its start and the end of its operation.
LEMMA RunStep ==
    ASSUME IndInv, NEW t \in Tasks, NEW s \in {"queued", "running"}, Started(t),
           task' = [task EXCEPT ![t].state = s],
           UNCHANGED <<inflight, forgetting, caller>>
    PROVE  IndInv'
<1>1. PoolTypes'
    BY DEF IndInv, PoolTypes, States
<1>2. \A u \in Tasks : /\ task'[u].key = task[u].key
                       /\ Started(u)' <=> Started(u)
                       /\ HasEnded(u)' <=> HasEnded(u)
                       /\ task'[u].state = "none" <=> task[u].state = "none"
    BY DEF IndInv, PoolTypes, Started, HasEnded, Ended
<1>3. Tracked'
    BY <1>2 DEF IndInv, Tracked
<1>4. EntriesLive'
    BY <1>2 DEF IndInv, PoolTypes, EntriesLive
<1>5. ForgottenEnded'
    BY <1>2 DEF IndInv, PoolTypes, ForgottenEnded
<1>6. CallersTracked'
    BY <1>2 DEF IndInv, PoolTypes, CallersTracked
<1>7. QED
    BY <1>1, <1>3, <1>4, <1>5, <1>6 DEF IndInv

\* The operation of a call ends, and the call is queued to be forgotten.
LEMMA EndStep ==
    ASSUME IndInv, NEW t \in Tasks, EndOperation(t)
    PROVE  IndInv'
<1>1. PICK s \in Ended : task' = [task EXCEPT ![t].state = s]
    BY DEF EndOperation, SetState
<1>2. /\ task[t].state = "running" /\ forgetting' = forgetting \cup {t}
      /\ UNCHANGED <<inflight, caller>>
    BY DEF EndOperation
<1>3. PoolTypes'
    BY <1>1, <1>2 DEF IndInv, PoolTypes, States
<1>4. \A u \in Tasks : /\ task'[u].key = task[u].key
                       /\ Started(u)' => Started(u)
                       /\ HasEnded(u)' <=> (u = t \/ HasEnded(u))
                       /\ task'[u].state = "none" <=> task[u].state = "none"
    BY <1>1, <1>2 DEF IndInv, PoolTypes, Started, HasEnded, Ended
<1>5. Tracked'
    BY <1>2, <1>4 DEF IndInv, Tracked
<1>6. EntriesLive'
    BY <1>2, <1>4 DEF IndInv, PoolTypes, EntriesLive
<1>7. ForgottenEnded'
    BY <1>2, <1>4 DEF IndInv, PoolTypes, ForgottenEnded
<1>8. ~HasEnded(t)
    BY <1>2 DEF HasEnded, Ended
<1>9. CallersTracked'
    BY <1>2, <1>4, <1>8 DEF IndInv, PoolTypes, CallersTracked
<1>10. QED
    BY <1>3, <1>5, <1>6, <1>7, <1>9 DEF IndInv

\* _forget takes an ended call out of the map.
LEMMA ForgetStep ==
    ASSUME IndInv, NEW t \in Tasks, Forget(t)
    PROVE  IndInv'
<1>1. /\ t \in forgetting /\ forgetting' = forgetting \ {t} /\ UNCHANGED <<task, caller>>
      /\ inflight' = [k \in Keys |-> IF k = task[t].key /\ inflight[k] = t THEN None
                                     ELSE inflight[k]]
    BY DEF Forget
<1>2. PoolTypes'
    BY <1>1 DEF IndInv, PoolTypes
<1>3. Tracked'
    BY <1>1 DEF IndInv, PoolTypes, Tracked, ForgottenEnded, Started, HasEnded, Ended
<1>4. EntriesLive'
    BY <1>1 DEF IndInv, PoolTypes, EntriesLive, HasEnded
<1>5. ForgottenEnded' /\ CallersTracked'
    BY <1>1 DEF IndInv, ForgottenEnded, CallersTracked, HasEnded
<1>6. QED
    BY <1>2, <1>3, <1>4, <1>5 DEF IndInv

\* Every step of the pool keeps the map and the calls in agreement.
LEMMA NextHolds == IndInv /\ [Next]_vars => IndInv'
<1> SUFFICES ASSUME IndInv, [Next]_vars PROVE IndInv'
    OBVIOUS
<1>1. ASSUME NEW c \in Callers, NEW k \in Keys, Execute(c, k) PROVE IndInv'
  <2>1. CASE Joins(k)
      BY <1>1, <2>1, JoinStep DEF Execute, Joins
  <2>2. CASE ~Joins(k)
    <3>1. PICK t \in Tasks :
            /\ task[t].state = "none"
            /\ task' = [task EXCEPT ![t] = [key |-> k, state |-> "created"]]
            /\ inflight' = [inflight EXCEPT ![k] = t]
            /\ caller' = [caller EXCEPT ![c] =
                    [state |-> "waiting", task |-> t, suspended |-> TRUE]]
        BY <1>1, <2>2 DEF Execute
    <3>2. inflight[k] = None /\ UNCHANGED <<waiters, slots, forgetting>>
        BY <1>1, <2>2 DEF Execute, Joins
    <3>3. QED
        BY <3>1, <3>2, CreateStep
  <2>3. QED
      BY <2>1, <2>2
<1>2. ASSUME NEW c \in Callers, Answer(c) PROVE IndInv'
  <2>1. /\ caller' = [caller EXCEPT ![c].state = "answered"]
        /\ UNCHANGED <<inflight, task, waiters, slots, forgetting>>
        /\ caller[c].state = "waiting" /\ MayResume(caller[c].task)
      BY <1>2 DEF Answer
  <2>2. PoolTypes' /\ Tracked' /\ EntriesLive' /\ ForgottenEnded'
      BY <2>1 DEF IndInv, PoolTypes, Tracked, EntriesLive, ForgottenEnded, Started, HasEnded
  <2>3. CallersTracked'
      BY <2>1 DEF IndInv, PoolTypes, CallersTracked, MayResume, HasEnded
  <2>4. QED
      BY <2>2, <2>3 DEF IndInv
<1>3. ASSUME NEW c \in Callers, Cancel(c) PROVE IndInv'
  <2>1. /\ caller' = [caller EXCEPT ![c] = NoCall]
        /\ UNCHANGED <<inflight, task, waiters, slots, forgetting>>
      BY <1>3 DEF Cancel
  <2>2. PoolTypes' /\ Tracked' /\ EntriesLive' /\ ForgottenEnded'
      BY <2>1 DEF IndInv, PoolTypes, Tracked, EntriesLive, ForgottenEnded, Started, HasEnded,
                  NoCall
  <2>3. CallersTracked'
      BY <2>1 DEF IndInv, PoolTypes, CallersTracked, HasEnded, NoCall
  <2>4. QED
      BY <2>2, <2>3 DEF IndInv
<1>4. ASSUME NEW t \in Tasks, AcquireSlot(t) PROVE IndInv'
    BY <1>4, RunStep DEF AcquireSlot, SetState, Started
<1>5. ASSUME NEW t \in Tasks, WakeWaiter(t) PROVE IndInv'
    BY <1>5, RunStep DEF WakeWaiter, SetState, Started
<1>6. CASE UNCHANGED vars
    BY <1>6 DEF vars, IndInv, PoolTypes, Tracked, EntriesLive, ForgottenEnded, CallersTracked,
                Started, HasEnded
<1>7. QED
    BY <1>1, <1>2, <1>3, <1>4, <1>5, <1>6, EndStep, ForgetStep DEF Next, TaskStep

\* The induction for every property below.
LEMMA Inductive == Spec => []IndInv
BY InitHolds, NextHolds, PTL DEF Spec

\* InFlightRequestPool: two source calls of one key are never both unfinished,
\* however callers join, cancel and repeat.
THEOREM SharedCall == Spec => []OneSourceCall
<1>1. IndInv => OneSourceCall
    BY DEF IndInv, Tracked, OneSourceCall
<1>2. QED
    BY <1>1, Inductive, PTL

\* InFlightRequestPool: a caller that waited for a call and calls again gets a
\* new one, because _forget has run before the caller resumes.
THEOREM FreshCall == Spec => FreshAfterWait
<1>1. IndInv /\ [Next]_vars =>
        [\A c \in Callers :
            (caller[c].state = "answered" /\ caller[c].suspended /\ caller'[c] # caller[c])
                => caller'[c].task # caller[c].task]_vars
  <2> SUFFICES ASSUME IndInv, Next, NEW c \in Callers, caller[c].state = "answered",
                      caller[c].suspended, caller'[c] # caller[c]
               PROVE  caller'[c].task # caller[c].task
      OBVIOUS
  <2>1. PICK k \in Keys : Execute(c, k)
    <3>1. ASSUME NEW t \in Tasks, TaskStep(t) PROVE FALSE
        BY <3>1 DEF TaskStep, AcquireSlot, WakeWaiter, EndOperation, Forget
    <3>2. ASSUME NEW d \in Callers, Answer(d) \/ Cancel(d) PROVE FALSE
        BY <3>2 DEF Answer, Cancel, IndInv, PoolTypes
    <3>3. ASSUME NEW d \in Callers, NEW j \in Keys, Execute(d, j) PROVE d = c
        BY <3>3 DEF Execute, IndInv, PoolTypes
    <3>4. QED
        BY <3>1, <3>2, <3>3 DEF Next
  <2>2. /\ caller[c].task \in Tasks /\ HasEnded(caller[c].task)
        /\ caller[c].task \notin forgetting
      BY DEF IndInv, CallersTracked
  <2>3. inflight[k] # caller[c].task
      BY <2>2, PoolAssumption DEF IndInv, PoolTypes, EntriesLive, None
  <2>4. CASE Joins(k)
      BY <2>1, <2>3, <2>4 DEF Execute, IndInv, PoolTypes
  <2>5. CASE ~Joins(k)
    <3>1. PICK t \in Tasks : /\ task[t].state = "none"
                             /\ caller' = [caller EXCEPT ![c] =
                                    [state |-> "waiting", task |-> t, suspended |-> TRUE]]
        BY <2>1, <2>5 DEF Execute
    <3>2. t # caller[c].task
        BY <2>2, <3>1 DEF HasEnded, Ended
    <3>3. QED
        BY <3>1, <3>2 DEF IndInv, PoolTypes
  <2>6. QED
      BY <2>4, <2>5
<1>2. QED
    BY <1>1, Inductive, PTL DEF Spec, FreshAfterWait
=============================================================================
