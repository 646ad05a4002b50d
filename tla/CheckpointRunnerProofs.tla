----------------------- MODULE CheckpointRunnerProofs -----------------------
(***************************************************************************)
(* Proofs about CheckpointRunner, for any finite set of workers and any    *)
(* stages and states: the revisions of a stage, what a call may return,    *)
(* and how often a stage is run.                                           *)
(***************************************************************************)
EXTENDS CheckpointRunner, FiniteSetTheorems, TLAPS

Checkpoints == [stage : Stages, revision : Nat \ {0}, state : States \cup {NoState}]

Locals ==
    [pc : {"idle", "operating", "numbering", "inserting", "done"},
     stage : Stages \cup {NoState}, state : States \cup {NoState}, revision : Nat,
     answer : Checkpoints \cup {NoState}, floor : Nat]

RunnerTypes ==
    /\ IsFiniteSet(Workers)
    /\ table \subseteq Checkpoints /\ IsFiniteSet(table)
    /\ work \in [Workers -> Locals]
    /\ given \in [Stages -> Nat]

\* The workers that run the operation of stage s or store its checkpoint
Running(s) ==
    {c \in Workers : work[c].pc \in {"operating", "numbering", "inserting"} /\ work[c].stage = s}

\* Nobody was given a revision that is not stored.
GivenIsStored == \A s \in Stages : given[s] <= Cardinality(Rows(s))

\* A call in progress has no answer yet; its floor was given before; the
\* revision it is to insert was the next one when it was read, so it is at most
\* the next one now.
CallOK(c) ==
    LET k == work[c]
    IN  /\ k.pc \in {"operating", "numbering", "inserting"} =>
              k.stage \in Stages /\ k.answer = NoState /\ k.floor <= given[k.stage]
        /\ k.pc = "inserting" => k.revision \in 1..(Cardinality(Rows(k.stage)) + 1)

CallsOK == \A c \in Workers : CallOK(c)

\* Whoever runs a stage found no checkpoint of it; so those who run it and those
\* who stored one are together no more than there are workers.
RoomForRunning ==
    \A s \in Stages : Cardinality(Rows(s)) + Cardinality(Running(s)) <= Cardinality(Workers)

IndInv ==
    /\ RunnerTypes /\ RevisionsInOrder /\ GivenIsStored /\ CallsOK /\ NeverOlder
    /\ RoomForRunning
-----------------------------------------------------------------------------
\* The rows and the runners of a stage are finitely many.
LEMMA FiniteParts ==
    ASSUME RunnerTypes, NEW s
    PROVE  /\ IsFiniteSet(Rows(s)) /\ Cardinality(Rows(s)) \in Nat
           /\ IsFiniteSet(Running(s)) /\ Cardinality(Running(s)) \in Nat
           /\ Cardinality(Running(s)) <= Cardinality(Workers)
           /\ Cardinality(Workers) \in Nat
<1>1. Rows(s) \subseteq table /\ IsFiniteSet(table)
  BY DEF Rows, RunnerTypes, Locals
<1>2. IsFiniteSet(Rows(s))
  BY <1>1, FS_Subset
<1>3. Running(s) \subseteq Workers /\ IsFiniteSet(Workers)
  BY DEF Running, RunnerTypes, Locals
<1>4. IsFiniteSet(Running(s)) /\ Cardinality(Running(s)) <= Cardinality(Workers)
  BY <1>3, FS_Subset
<1> QED
  BY <1>2, <1>3, <1>4, FS_CardinalityType

\* The latest checkpoint has the number of checkpoints as its revision.
LEMMA LatestIsLast ==
    ASSUME RunnerTypes, RevisionsInOrder, NEW s \in Stages, Rows(s) # {}
    PROVE  /\ Latest(s) \in Rows(s)
           /\ Latest(s).revision = Cardinality(Rows(s))
<1> DEFINE n == Cardinality(Rows(s))
<1>1. n \in Nat /\ IsFiniteSet(Rows(s))
  BY FiniteParts
<1>2. {x.revision : x \in Rows(s)} = 1..n
  BY DEF RevisionsInOrder
<1>3. PICK z \in Rows(s) : TRUE
  OBVIOUS
<1>4. z.revision \in 1..n
  BY <1>2
<1>5. n \in 1..n
  BY <1>1, <1>4
<1>6. PICK x \in Rows(s) : x.revision = n
  BY <1>2, <1>5
<1>7. \A y \in Rows(s) : y.revision \in 1..n
  BY <1>2
<1>8. \A y \in Rows(s) : y.revision <= x.revision
  BY <1>1, <1>6, <1>7
<1>9. /\ Latest(s) \in Rows(s)
      /\ \A y \in Rows(s) : y.revision <= Latest(s).revision
  <2>1. \E w \in Rows(s) : \A y \in Rows(s) : y.revision <= w.revision
    BY <1>6, <1>8
  <2> QED
    BY <2>1 DEF Latest
<1>10. Latest(s).revision \in 1..n /\ n <= Latest(s).revision
  BY <1>6, <1>7, <1>9
<1> QED
  BY <1>1, <1>9, <1>10

\* MAX(revision) is the number of checkpoints.
LEMMA MaxIsCount ==
    ASSUME RunnerTypes, RevisionsInOrder, NEW s \in Stages
    PROVE  MaxRevision(s) = Cardinality(Rows(s))
<1>1. CASE Rows(s) = {}
  BY <1>1, FS_EmptySet DEF MaxRevision
<1>2. CASE Rows(s) # {}
  BY <1>2, LatestIsLast DEF MaxRevision
<1> QED
  BY <1>1, <1>2

\* The empty database satisfies the invariant.
LEMMA InitInd ==
    ASSUME IsFiniteSet(Workers), RunnerInit
    PROVE  IndInv
<1>1. RunnerTypes
  BY FS_EmptySet DEF RunnerInit, RunnerTypes, Locals, NoStage
<1>2. \A s : Rows(s) = {} /\ Cardinality(Rows(s)) = 0
  BY FS_EmptySet DEF RunnerInit, Rows
<1>3. \A s : Running(s) = {} /\ Cardinality(Running(s)) = 0
  BY FS_EmptySet DEF RunnerInit, Running, NoStage
<1>4. RevisionsInOrder
  BY <1>2 DEF RevisionsInOrder
<1>5. GivenIsStored
  BY <1>2 DEF RunnerInit, GivenIsStored
<1>6. CallsOK /\ NeverOlder
  BY DEF RunnerInit, CallsOK, CallOK, NeverOlder, NoStage
<1>7. RoomForRunning
  <2>1. Cardinality(Workers) \in Nat
    BY <1>1, FiniteParts
  <2> QED
    BY <1>2, <1>3, <2>1 DEF RoomForRunning
<1> QED
  BY <1>1, <1>4, <1>5, <1>6, <1>7 DEF IndInv

\* A step that leaves the tables alone, and in which worker c does not begin to
\* run a stage, keeps whatever counts rows and runners.
LEMMA QuietStep ==
    ASSUME IndInv, RunnerTypes', NEW c \in Workers, UNCHANGED <<table, given>>,
           \A d \in Workers \ {c} : work'[d] = work[d],
           \A s \in Stages : c \in Running(s)' => c \in Running(s),
           CallOK(c)',
           work'[c].answer = NoState
    PROVE  IndInv'
<1> USE DEF IndInv
<1>1. \A s : Rows(s)' = Rows(s)
  BY DEF Rows
<1>2. RevisionsInOrder' /\ GivenIsStored'
  BY <1>1 DEF RevisionsInOrder, GivenIsStored
<1>3. CallsOK' /\ NeverOlder'
  <2>1. ASSUME NEW d \in Workers, d # c
        PROVE  CallOK(d)' /\ (work'[d].answer # NoState => work'[d].answer.revision >= work'[d].floor)
    BY <1>1, <2>1 DEF CallsOK, CallOK, NeverOlder
  <2> QED
    BY <2>1 DEF CallsOK, NeverOlder
<1>4. RoomForRunning'
  <2> SUFFICES ASSUME NEW s \in Stages
               PROVE  Cardinality(Rows(s)') + Cardinality(Running(s)') <= Cardinality(Workers)
    BY DEF RoomForRunning
  <2>1. Running(s)' \subseteq Running(s)
    BY DEF Running
  <2>2. Cardinality(Running(s)') <= Cardinality(Running(s)) /\ Cardinality(Running(s)') \in Nat
    BY <2>1, FiniteParts, FS_Subset, FS_CardinalityType
  <2>3. Cardinality(Rows(s)) + Cardinality(Running(s)) <= Cardinality(Workers)
    BY DEF RoomForRunning
  <2> QED
    BY <1>1, <2>2, <2>3, FiniteParts
<1> QED
  BY <1>2, <1>3, <1>4

\* Every step preserves the invariant.
LEMMA NextInd == IndInv /\ [RunnerNext]_stageVars => IndInv'
<1> SUFFICES ASSUME IndInv, [RunnerNext]_stageVars PROVE IndInv'
  OBVIOUS
<1> USE DEF IndInv
<1>1. ASSUME NEW c \in Workers, NEW s \in Stages, RunOnce(c, s)
      PROVE  IndInv'
  <2> USE <1>1
  <2> DEFINE new == [NoStage EXCEPT !.stage = s, !.floor = given[s]]
  <2>0. /\ table' = table
        /\ \A d \in Workers \ {c} : work'[d] = work[d]
    BY DEF RunOnce, RunnerTypes, Locals
  <2>r. \A t : Rows(t)' = Rows(t)
    BY <2>0 DEF Rows
  <2>1. CASE Completed(s)
    <3>1. /\ Latest(s) \in Rows(s)
          /\ Latest(s).revision = Cardinality(Rows(s))
      BY <2>1, LatestIsLast DEF Completed
    <3>2. Latest(s) \in Checkpoints /\ Latest(s).stage = s
      BY <3>1 DEF Rows, RunnerTypes, Locals
    <3>3. /\ work' = [work EXCEPT ![c] = [new EXCEPT !.pc = "done", !.answer = Latest(s)]]
          /\ given' = [given EXCEPT ![s] = IF @ < Latest(s).revision THEN Latest(s).revision ELSE @]
      BY <2>1, <3>2 DEF RunOnce, Give
    <3>4. Latest(s).revision \in Nat
      BY <3>2 DEF Checkpoints
    <3>5. RunnerTypes'
      BY <2>0, <3>2, <3>3, <3>4 DEF RunnerTypes, Locals, NoStage
    <3>6. \A t \in Stages : given'[t] >= given[t] /\ given'[t] <= Cardinality(Rows(t))
      BY <3>1, <3>3, <3>4 DEF RunnerTypes, GivenIsStored
    <3>7. /\ work'[c].pc = "done" /\ work'[c].answer = Latest(s) /\ work'[c].floor = given[s]
      BY <3>3 DEF RunnerTypes, Locals, NoStage
    <3>8. RevisionsInOrder' /\ GivenIsStored'
      BY <2>r, <3>6 DEF RevisionsInOrder, GivenIsStored
    <3>9. CallsOK'
      <4>1. ASSUME NEW d \in Workers, d # c PROVE CallOK(d)'
        <5>1. CallOK(d) /\ work'[d] = work[d]
          BY <2>0, <4>1 DEF CallsOK
        <5>2. \A t \in Stages : given[t] \in Nat /\ given'[t] \in Nat
          BY <3>5 DEF RunnerTypes, Locals
        <5>3. work[d].floor \in Nat
          BY DEF RunnerTypes, Locals
        <5> QED
          BY <2>r, <3>6, <5>1, <5>2, <5>3 DEF CallOK
      <4>2. CallOK(c)'
        BY <3>7 DEF CallOK
      <4> QED
        BY <4>1, <4>2 DEF CallsOK
    <3>10. NeverOlder'
      <4>1. Latest(s).revision >= given[s]
        BY <3>1 DEF GivenIsStored
      <4> QED
        BY <2>0, <3>7, <4>1 DEF NeverOlder
    <3>11. RoomForRunning'
      <4> SUFFICES ASSUME NEW t \in Stages
                   PROVE  Cardinality(Rows(t)') + Cardinality(Running(t)') <= Cardinality(Workers)
        BY DEF RoomForRunning
      <4>1. Running(t)' \subseteq Running(t)
        BY <2>0, <3>7 DEF Running
      <4>2. Cardinality(Running(t)') <= Cardinality(Running(t)) /\ Cardinality(Running(t)') \in Nat
        BY <4>1, FiniteParts, FS_Subset, FS_CardinalityType
      <4> QED
        BY <2>r, <4>2, FiniteParts DEF RoomForRunning
    <3> QED
      BY <3>5, <3>8, <3>9, <3>10, <3>11
  <2>2. CASE ~Completed(s)
    <3>1. /\ work' = [work EXCEPT ![c] = [new EXCEPT !.pc = "operating"]]
          /\ given' = given
      BY <2>2 DEF RunOnce
    <3>2. RunnerTypes'
      BY <2>0, <3>1 DEF RunnerTypes, Locals, NoStage
    <3>3. /\ work'[c].pc = "operating" /\ work'[c].stage = s /\ work'[c].answer = NoState
          /\ work'[c].floor = given[s]
      BY <3>1 DEF RunnerTypes, Locals, NoStage
    <3>4. RevisionsInOrder' /\ GivenIsStored'
      BY <2>r, <3>1 DEF RevisionsInOrder, GivenIsStored
    <3>5. CallsOK' /\ NeverOlder'
      <4>1. ASSUME NEW d \in Workers, d # c
            PROVE  CallOK(d)' /\ (work'[d].answer # NoState => work'[d].answer.revision >= work'[d].floor)
        BY <2>0, <2>r, <3>1, <4>1 DEF CallsOK, CallOK, NeverOlder
      <4>2. CallOK(c)'
        BY <3>1, <3>3 DEF CallOK, RunnerTypes, Locals
      <4> QED
        BY <3>3, <4>1, <4>2 DEF CallsOK, NeverOlder
    <3>6. RoomForRunning'
      <4> SUFFICES ASSUME NEW t \in Stages
                   PROVE  Cardinality(Rows(t)') + Cardinality(Running(t)') <= Cardinality(Workers)
        BY DEF RoomForRunning
      <4>1. CASE t = s
        <5>1. Cardinality(Rows(t)') = 0
          BY <2>2, <2>r, <4>1, FS_EmptySet DEF Completed
        <5>2. /\ Running(t)' \subseteq Workers /\ IsFiniteSet(Workers)
          BY DEF Running, RunnerTypes, Locals
        <5>3. /\ Cardinality(Running(t)') <= Cardinality(Workers)
              /\ Cardinality(Running(t)') \in Nat
          BY <5>2, FS_Subset, FS_CardinalityType
        <5> QED
          BY <5>1, <5>3, FiniteParts
      <4>2. CASE t # s
        <5>1. Running(t)' \subseteq Running(t)
          BY <2>0, <3>3, <4>2 DEF Running
        <5>2. Cardinality(Running(t)') <= Cardinality(Running(t)) /\ Cardinality(Running(t)') \in Nat
          BY <5>1, FiniteParts, FS_Subset, FS_CardinalityType
        <5> QED
          BY <2>r, <5>2, FiniteParts DEF RoomForRunning
      <4> QED
        BY <4>1, <4>2
    <3> QED
      BY <3>2, <3>4, <3>5, <3>6
  <2> QED
    BY <2>1, <2>2
<1>2. ASSUME NEW c \in Workers, NEW v \in States, Complete(c, v)
      PROVE  IndInv'
  <2>1. /\ RunnerTypes'
        /\ work'[c] = [work[c] EXCEPT !.pc = "numbering", !.state = v]
        /\ work[c].pc = "operating"
    BY <1>2 DEF Complete, RunnerTypes, Locals
  <2>2. CallOK(c)' /\ work'[c].answer = NoState
    BY <1>2, <2>1 DEF Complete, CallsOK, CallOK, RunnerTypes, Locals
  <2> QED
    BY <1>2, <2>1, <2>2, QuietStep DEF Complete, Running, RunnerTypes, Locals
<1>3. ASSUME NEW c \in Workers, Raise(c)
      PROVE  IndInv'
  <2>1. /\ RunnerTypes'
        /\ work'[c] = [work[c] EXCEPT !.pc = "done"]
        /\ work[c].pc = "operating"
    BY <1>3 DEF Raise, RunnerTypes, Locals
  <2>2. CallOK(c)' /\ work'[c].answer = NoState
    BY <1>3, <2>1 DEF Raise, CallsOK, CallOK, RunnerTypes, Locals
  <2> QED
    BY <1>3, <2>1, <2>2, QuietStep DEF Raise, Running, RunnerTypes, Locals
<1>4. ASSUME NEW c \in Workers, ReadRevision(c)
      PROVE  IndInv'
  <2>1. work[c].pc = "numbering" /\ work[c].stage \in Stages /\ work[c].answer = NoState
    BY <1>4 DEF ReadRevision, CallsOK, CallOK
  <2>a. PICK n \in Nat : n = Cardinality(Rows(work[c].stage))
    BY FiniteParts
  <2>2. MaxRevision(work[c].stage) = n
    BY <2>1, <2>a, MaxIsCount
  <2>3. work' = [work EXCEPT ![c].pc = "inserting", ![c].revision = n + 1]
    BY <1>4, <2>2 DEF ReadRevision
  <2>4. [work[c] EXCEPT !.pc = "inserting", !.revision = n + 1] \in Locals
    <3>1. work[c] \in Locals /\ n + 1 \in Nat
      BY DEF RunnerTypes
    <3> QED
      BY <3>1 DEF Locals
  <2>5. /\ RunnerTypes'
        /\ work'[c] = [work[c] EXCEPT !.pc = "inserting", !.revision = n + 1]
    BY <1>4, <2>3, <2>4 DEF ReadRevision, RunnerTypes
  <2>6. /\ work'[c].stage = work[c].stage /\ work'[c].answer = NoState /\ work'[c].revision = n + 1
        /\ work'[c].floor = work[c].floor /\ work'[c].pc = "inserting"
    BY <2>1, <2>5 DEF RunnerTypes, Locals
  <2>7. CallOK(c)'
    <3>1. Rows(work[c].stage)' = Rows(work[c].stage)
      BY <1>4, <2>6 DEF ReadRevision, Rows
    <3> QED
      BY <1>4, <2>1, <2>a, <2>6, <3>1 DEF ReadRevision, CallsOK, CallOK
  <2> QED
    BY <1>4, <2>1, <2>5, <2>6, <2>7, QuietStep DEF ReadRevision, Running, RunnerTypes, Locals
<1>5. ASSUME NEW c \in Workers, Insert(c)
      PROVE  IndInv'
  <2> USE <1>5
  <2>a. PICK s \in Stages : s = work[c].stage
    BY DEF Insert, CallsOK, CallOK
  <2>b. PICK n \in Nat : n = Cardinality(Rows(s))
    BY FiniteParts
  <2>c. PICK x : x = [stage |-> s, revision |-> work[c].revision, state |-> work[c].state]
    OBVIOUS
  <2>1. /\ work[c].pc = "inserting" /\ work[c].answer = NoState
        /\ work[c].floor <= given[s] /\ work[c].revision \in 1..(n + 1)
    BY <2>a, <2>b DEF Insert, CallsOK, CallOK
  <2>2. IsFiniteSet(Rows(s)) /\ {y.revision : y \in Rows(s)} = 1..n
    BY <2>b, FiniteParts DEF RevisionsInOrder
  <2>3. work[c].revision = n + 1 /\ x.revision = n + 1 /\ x.stage = s
    <3>1. work[c].revision \notin {y.revision : y \in Rows(s)}
      BY <2>a DEF Insert, Free
    <3> QED
      BY <2>1, <2>2, <2>c, <3>1
  <2>4. /\ table' = table \cup {x}
        /\ given' = [given EXCEPT ![s] = IF @ < n + 1 THEN n + 1 ELSE @]
        /\ work' = [work EXCEPT ![c].pc = "done", ![c].answer = x]
    BY <2>3, <2>a, <2>c DEF Insert, Give
  <2>5. x \in Checkpoints
    BY <2>3, <2>c DEF Checkpoints, RunnerTypes, Locals
  <2>6. IsFiniteSet(table')
    BY <2>4, FS_AddElement DEF RunnerTypes, Locals
  <2>7. RunnerTypes'
    <3>1. [work[c] EXCEPT !.pc = "done", !.answer = x] \in Locals
      BY <2>5 DEF RunnerTypes, Locals
    <3>2. work' \in [Workers -> Locals]
      BY <2>4, <3>1 DEF RunnerTypes
    <3>3. given' \in [Stages -> Nat]
      BY <2>4 DEF RunnerTypes
    <3> QED
      BY <2>4, <2>5, <2>6, <3>2, <3>3 DEF RunnerTypes
  <2>8. x \notin Rows(s)
    <3>1. n + 1 \notin 1..n
      OBVIOUS
    <3> QED
      BY <2>2, <2>3, <3>1
  <2>9. Rows(s)' = Rows(s) \cup {x} /\ \A t : t # s => Rows(t)' = Rows(t)
    BY <2>3, <2>4 DEF Rows
  <2>10. Cardinality(Rows(s)') = n + 1
    BY <2>2, <2>8, <2>9, <2>b, FS_AddElement
  <2>11. given[s] <= n /\ given'[s] = n + 1 /\ \A t \in Stages : t # s => given'[t] = given[t]
    BY <2>4, <2>b DEF GivenIsStored, RunnerTypes, Locals
  <2>12. /\ work'[c].pc = "done" /\ work'[c].answer = x /\ work'[c].floor = work[c].floor
         /\ \A d \in Workers \ {c} : work'[d] = work[d]
    BY <2>4 DEF RunnerTypes, Locals
  <2>13. RevisionsInOrder'
    <3> SUFFICES ASSUME NEW t \in Stages
                 PROVE  {y.revision : y \in Rows(t)'} = 1..Cardinality(Rows(t)')
      BY DEF RevisionsInOrder
    <3>1. CASE t = s
      <4>1. {y.revision : y \in Rows(s) \cup {x}} = {y.revision : y \in Rows(s)} \cup {n + 1}
        BY <2>3
      <4>2. (1..n) \cup {n + 1} = 1..(n + 1)
        BY <2>2
      <4> QED
        BY <2>2, <2>9, <2>10, <3>1, <4>1, <4>2
    <3>2. CASE t # s
      BY <2>9, <3>2 DEF RevisionsInOrder
    <3> QED
      BY <3>1, <3>2
  <2>14. GivenIsStored'
    BY <2>9, <2>10, <2>11 DEF GivenIsStored
  <2>15. CallsOK'
    <3>1. ASSUME NEW d \in Workers, d # c PROVE CallOK(d)'
      <4>1. CallOK(d) /\ work'[d] = work[d]
        BY <2>12, <3>1 DEF CallsOK
      <4>2. work[d].floor \in Nat /\ work[d].revision \in Nat /\ given[s] \in Nat
        BY <2>1 DEF RunnerTypes, Locals
      <4>3. CASE work[d].stage = s
        <5>1. Rows(work[d].stage)' = Rows(s)'
          BY <4>1, <4>3 DEF Rows
        <5> QED
          BY <2>b, <2>10, <2>11, <4>1, <4>2, <4>3, <5>1 DEF CallOK
      <4>4. CASE work[d].stage # s
        BY <2>9, <2>11, <4>1, <4>4 DEF CallOK
      <4> QED
        BY <4>3, <4>4
    <3>2. CallOK(c)'
      BY <2>12 DEF CallOK
    <3> QED
      BY <3>1, <3>2 DEF CallsOK
  <2>16. NeverOlder'
    <3>1. x.revision >= work[c].floor
      <4>1. work[c].floor \in Nat /\ given[s] \in Nat
        BY <2>1 DEF RunnerTypes, Locals
      <4> QED
        BY <2>1, <2>3, <2>11, <4>1
    <3> QED
      BY <2>12, <3>1 DEF NeverOlder
  <2>17. RoomForRunning'
    <3> SUFFICES ASSUME NEW t \in Stages
                 PROVE  Cardinality(Rows(t)') + Cardinality(Running(t)') <= Cardinality(Workers)
      BY DEF RoomForRunning
    <3>1. CASE t = s
      <4>1. c \in Running(s)
        BY <2>1, <2>a DEF Running
      <4>2. Running(t)' = Running(s) \ {c}
        BY <2>12, <3>1 DEF Running
      <4>3. IsFiniteSet(Running(s)) /\ Cardinality(Running(s)) \in Nat
            /\ Cardinality(Workers) \in Nat
        BY FiniteParts
      <4>4. Cardinality(Running(t)') = Cardinality(Running(s)) - 1
        BY <4>1, <4>2, <4>3, FS_RemoveElement
      <4>5. n + Cardinality(Running(s)) <= Cardinality(Workers)
        BY <2>b DEF RoomForRunning
      <4> QED
        BY <2>10, <3>1, <4>3, <4>4, <4>5
    <3>2. CASE t # s
      <4>1. Running(t)' = Running(t)
        BY <2>12, <2>a, <3>2 DEF Running
      <4> QED
        BY <2>9, <3>2, <4>1 DEF RoomForRunning
    <3> QED
      BY <3>1, <3>2
  <2> QED
    BY <2>7, <2>13, <2>14, <2>15, <2>16, <2>17
<1>6. ASSUME NEW c \in Workers, Conflict(c)
      PROVE  IndInv'
  <2>1. /\ RunnerTypes'
        /\ work'[c] = [work[c] EXCEPT !.pc = "done"]
        /\ work[c].pc = "inserting"
    BY <1>6 DEF Conflict, RunnerTypes, Locals
  <2>2. CallOK(c)' /\ work'[c].answer = NoState
    BY <1>6, <2>1 DEF Conflict, CallsOK, CallOK, RunnerTypes, Locals
  <2> QED
    BY <1>6, <2>1, <2>2, QuietStep DEF Conflict, Running, RunnerTypes, Locals
<1>7. ASSUME NEW c \in Workers, Abandon(c)
      PROVE  IndInv'
  <2>1. /\ RunnerTypes'
        /\ work'[c].pc = "idle" /\ work'[c].answer = NoState
    BY <1>7 DEF Abandon, RunnerTypes, Locals, NoStage
  <2>2. CallOK(c)'
    BY <2>1 DEF CallOK
  <2> QED
    BY <1>7, <2>1, <2>2, QuietStep DEF Abandon, Running, RunnerTypes, Locals
<1>8. CASE UNCHANGED stageVars
  <2>1. \A s : Rows(s)' = Rows(s) /\ Running(s)' = Running(s)
    BY <1>8 DEF stageVars, Rows, Running
  <2> QED
    BY <1>8, <2>1 DEF stageVars, RunnerTypes, RevisionsInOrder, GivenIsStored, CallsOK, CallOK,
                      NeverOlder, RoomForRunning
<1> QED
  BY <1>1, <1>2, <1>3, <1>4, <1>5, <1>6, <1>7, <1>8 DEF RunnerNext, RunnerStep

\* The invariant holds in every reachable state.
LEMMA Invariance ==
    ASSUME IsFiniteSet(Workers)
    PROVE  RunnerSpec => []IndInv
<1>1. RunnerInit => IndInv
  BY InitInd
<1> QED
  BY <1>1, NextInd, PTL DEF RunnerSpec
-----------------------------------------------------------------------------
\* The invariant is as strong as the properties.
LEMMA Implied == IndInv => RevisionsInOrder /\ NeverOlder /\ StageNotRepeated
<1> SUFFICES ASSUME IndInv, NEW s \in Stages
             PROVE  Cardinality(Rows(s)) <= Cardinality(Workers)
  BY DEF IndInv, StageNotRepeated
<1> QED
  BY FiniteParts DEF IndInv, RoomForRunning

\* The revisions of a stage are numbered from 1 without gaps, however the reads
\* and inserts of save_checkpoint interleave.
THEOREM RevisionsAreNumbered ==
    ASSUME IsFiniteSet(Workers)
    PROVE  RunnerSpec => []RevisionsInOrder
<1> QED
  BY Implied, Invariance, PTL

\* A later call of run_once never returns an older checkpoint than one that was
\* returned before it began.
THEOREM ResumeNeverGoesBack ==
    ASSUME IsFiniteSet(Workers)
    PROVE  RunnerSpec => []NeverOlder
<1> QED
  BY Implied, Invariance, PTL

\* A stage is stored at most once per worker, however often it is resumed:
\* run_once looks for a checkpoint first.
THEOREM StageIsNotRepeated ==
    ASSUME IsFiniteSet(Workers)
    PROVE  RunnerSpec => []StageNotRepeated
<1> QED
  BY Implied, Invariance, PTL
=============================================================================
