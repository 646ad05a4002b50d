-------------------------- MODULE SubmissionProofs --------------------------
(***************************************************************************)
(* Proofs about Submission: its inductive invariant, the safety properties *)
(* that follow from it, and that it implements SubmissionLog, for any      *)
(* number of operators, problems and candidates.                           *)
(***************************************************************************)
EXTENDS Submission, TLAPS

-----------------------------------------------------------------------------
(* Typing. *)

\* An unused document and an idle process have their types.
LEMMA EmptyTyped ==
    EmptyDoc \in Documents /\ Idle \in OpStates
<1>1. EmptyDoc \in Documents
    BY DEF EmptyDoc, Documents, ProblemStatuses, CandidateStatuses
<1>2. QED
    BY <1>1 DEF Idle, OpStates, Pcs

\* _updated_document, field by field.
LEMMA UpdatedFields ==
    ASSUME NEW d \in Documents, NEW o \in Operators, NEW t \in Times
    PROVE  /\ Updated(d, o, t).active = d.active
           /\ Updated(d, o, t).problems =
                [d.problems EXCEPT ![ProblemOf[op[o].candidate]] = "submitted"]
           /\ Updated(d, o, t).candidates =
                [d.candidates EXCEPT ![op[o].candidate] = "submitted"]
           /\ Updated(d, o, t).submissions = d.submissions \cup {SubmissionRow(o, t)}
           /\ Updated(d, o, t).events = d.events \cup {EventRow(o, t)}
BY DEF Updated

\* The rows a process writes have their types.
LEMMA RowsTyped ==
    ASSUME TypeOK, NEW o \in Operators, NEW t \in Times, op[o].pc # "idle"
    PROVE  SubmissionRow(o, t) \in SubmissionRows /\ EventRow(o, t) \in EventRows
BY DEF TypeOK, SubmissionRow, EventRow, SubmissionRows, EventRows

\* The updated document is a document.
LEMMA UpdatedTyped ==
    ASSUME TypeOK, NEW d \in Documents, NEW o \in Operators, NEW t \in Times, op[o].pc # "idle"
    PROVE  Updated(d, o, t) \in Documents
<1>1. SubmissionRow(o, t) \in SubmissionRows /\ EventRow(o, t) \in EventRows
    BY RowsTyped
<1>2. /\ d.active \in BOOLEAN
      /\ d.problems \in [Problems -> ProblemStatuses]
      /\ d.candidates \in [Candidates -> CandidateStatuses]
      /\ d.submissions \subseteq SubmissionRows /\ d.events \subseteq EventRows
    BY DEF Documents
<1>3. [d.problems EXCEPT ![ProblemOf[op[o].candidate]] = "submitted"]
            \in [Problems -> ProblemStatuses]
    BY <1>2 DEF ProblemStatuses
<1>4. [d.candidates EXCEPT ![op[o].candidate] = "submitted"]
            \in [Candidates -> CandidateStatuses]
    BY <1>2 DEF CandidateStatuses
<1>5. QED
    BY <1>1, <1>2, <1>3, <1>4 DEF Documents, Updated

\* What the stored tables look like to a process that applies its submission.
LEMMA StoredFields ==
    ASSUME TypeOK
    PROVE  /\ Stored \in Documents
           /\ Stored.active = active /\ Stored.problems = problems
           /\ Stored.candidates = candidates
           /\ Stored.submissions = submissions /\ Stored.events = events
BY DEF TypeOK, Stored

\* The effect of Write on each table.
LEMMA WriteEffect ==
    ASSUME TypeOK, NEW o \in Operators, op[o].time \in Times, Write(o)
    PROVE  /\ problems' = [problems EXCEPT ![ProblemOf[op[o].candidate]] = "submitted"]
           /\ candidates' = [candidates EXCEPT ![op[o].candidate] = "submitted"]
           /\ submissions' = submissions \cup {SubmissionRow(o, op[o].time)}
           /\ events' = events \cup {EventRow(o, op[o].time)}
           /\ saved' = saved /\ active' = active
BY StoredFields, UpdatedFields DEF Write

\* Every step of Next keeps the types.
LEMMA TypeStep ==
    ASSUME TypeOK, [Next]_vars
    PROVE  TypeOK'
<1> USE DEF OpStates
<1>0. /\ saved \in BOOLEAN /\ active \in BOOLEAN
      /\ problems \in [Problems -> ProblemStatuses]
      /\ candidates \in [Candidates -> CandidateStatuses]
      /\ submissions \subseteq SubmissionRows /\ events \subseteq EventRows
      /\ op \in [Operators -> OpStates]
    BY DEF TypeOK, Stored, Documents
<1>1. CASE \E d \in Bundles : SaveDocument(d)
    <2>1. PICK d \in Bundles : SaveDocument(d)
        BY <1>1
    <2>2. /\ d.active \in BOOLEAN
          /\ d.problems \in [Problems -> ProblemStatuses]
          /\ d.candidates \in [Candidates -> CandidateStatuses]
        BY SubmissionAssumption
    <2>3. Stored' \in Documents
        BY <1>0, <2>1, <2>2 DEF SaveDocument, Stored, Documents
    <2>4. QED
        BY <2>1, <2>3 DEF SaveDocument, TypeOK
<1>2. CASE \E n \in Notes, t \in Times : AppendEvent(n, t)
    <2>1. PICK n \in Notes, t \in Times : AppendEvent(n, t)
        BY <1>2
    <2>2. [entity |-> n, response |-> None, actor |-> None, time |-> t] \in EventRows
        BY DEF EventRows
    <2>3. Stored' \in Documents
        BY <1>0, <2>1, <2>2 DEF AppendEvent, Stored, Documents
    <2>4. QED
        BY <2>1, <2>3 DEF AppendEvent, TypeOK
<1>3. ASSUME NEW o \in Operators, NEW st \in OpStates, UNCHANGED database,
             op' = [op EXCEPT ![o] = st],
             st.pc # "idle" => st.candidate \in Candidates /\ st.response \in Responses,
             st.pc \in {"prepared", "stored"} => st.time \in Times
      PROVE  TypeOK'
    <2>1. Stored' = Stored
        BY <1>3 DEF Stored, database
    <2>2. op' \in [Operators -> OpStates]
        BY <1>0, <1>3
    <2>3. \A p \in Operators : op'[p] = IF p = o THEN st ELSE op[p]
        BY <1>0, <1>3
    <2>4. QED
        BY <1>3, <2>1, <2>2, <2>3 DEF TypeOK, database
<1>4. ASSUME NEW o \in Operators, Refuse(o), UNCHANGED database
      PROVE  TypeOK'
    <2>1. Idle \in OpStates /\ Idle.pc = "idle"
        BY EmptyTyped DEF Idle
    <2>2. QED
        BY <1>3, <1>4, <2>1 DEF Refuse
<1>5. ASSUME NEW o \in Operators, NEW c \in Candidates, NEW r \in Responses, ReadManifest(o, c, r)
      PROVE  TypeOK'
    <2> DEFINE st == [Idle EXCEPT !.pc = "problems", !.candidate = c, !.response = r,
                                  !.doc.active = active]
    <2>1. EmptyDoc \in Documents /\ Idle \in OpStates
        BY EmptyTyped
    <2>2. st \in OpStates /\ st.pc = "problems" /\ st.candidate = c /\ st.response = r
        BY <1>0, <2>1 DEF Idle, Documents, Pcs
    <2>3. QED
        BY <1>3, <1>5, <2>2 DEF ReadManifest
<1>6. ASSUME NEW o \in Operators, op[o].pc # "idle", NEW st \in OpStates,
             UNCHANGED database, op' = [op EXCEPT ![o] = st],
             st.candidate = op[o].candidate, st.response = op[o].response,
             st.pc \notin {"prepared", "stored"}
      PROVE  TypeOK'
    BY <1>3, <1>6 DEF TypeOK
<1>7. ASSUME NEW o \in Operators, ReadProblems(o)
      PROVE  TypeOK'
    <2> DEFINE st == [op[o] EXCEPT !.pc = "candidates", !.doc.problems = problems]
    <2>1. op[o].doc \in Documents /\ op[o] \in OpStates
        BY <1>0
    <2>2. /\ st \in OpStates /\ st.pc = "candidates"
          /\ st.candidate = op[o].candidate /\ st.response = op[o].response
        BY <1>0, <2>1 DEF Documents, Pcs
    <2>3. op' = [op EXCEPT ![o] = st]
        BY <1>0, <1>7 DEF ReadProblems
    <2>4. QED
        BY <1>6, <1>7, <2>2, <2>3 DEF ReadProblems
<1>8. ASSUME NEW o \in Operators, ReadCandidates(o)
      PROVE  TypeOK'
    <2> DEFINE st == [op[o] EXCEPT !.pc = "submissions", !.doc.candidates = candidates]
    <2>1. op[o].doc \in Documents /\ op[o] \in OpStates
        BY <1>0
    <2>2. /\ st \in OpStates /\ st.pc = "submissions"
          /\ st.candidate = op[o].candidate /\ st.response = op[o].response
        BY <1>0, <2>1 DEF Documents, Pcs
    <2>3. op' = [op EXCEPT ![o] = st]
        BY <1>0, <1>8 DEF ReadCandidates
    <2>4. QED
        BY <1>6, <1>8, <2>2, <2>3 DEF ReadCandidates
<1>9. ASSUME NEW o \in Operators, ReadSubmissions(o)
      PROVE  TypeOK'
    <2> DEFINE st == [op[o] EXCEPT !.pc = "events", !.doc.submissions = submissions]
    <2>1. op[o].doc \in Documents /\ op[o] \in OpStates
        BY <1>0
    <2>2. /\ st \in OpStates /\ st.pc = "events"
          /\ st.candidate = op[o].candidate /\ st.response = op[o].response
        BY <1>0, <2>1 DEF Documents, Pcs
    <2>3. op' = [op EXCEPT ![o] = st]
        BY <1>0, <1>9 DEF ReadSubmissions
    <2>4. QED
        BY <1>6, <1>9, <2>2, <2>3 DEF ReadSubmissions
<1>10. ASSUME NEW o \in Operators, ReadEvents(o)
      PROVE  TypeOK'
    <2>1. CASE Valid(op[o].doc)
        <3> DEFINE st == [op[o] EXCEPT !.pc = "loaded", !.doc.events = events]
        <3>1. op[o].doc \in Documents /\ op[o] \in OpStates
            BY <1>0
        <3>2. /\ st \in OpStates /\ st.pc = "loaded"
              /\ st.candidate = op[o].candidate /\ st.response = op[o].response
            BY <1>0, <3>1 DEF Documents, Pcs
        <3>3. op' = [op EXCEPT ![o] = st]
            BY <1>0, <1>10, <2>1 DEF ReadEvents
        <3>4. QED
            BY <1>6, <1>10, <3>2, <3>3 DEF ReadEvents
    <2>2. CASE ~Valid(op[o].doc)
        BY <1>4, <1>10, <2>2 DEF ReadEvents
    <2>3. QED
        BY <2>1, <2>2
<1>11. ASSUME NEW o \in Operators, NEW t \in Times, Record(o, t)
      PROVE  TypeOK'
    <2>1. CASE Recordable(op[o].doc, op[o].candidate) /\ t >= Created
        <3> DEFINE st == [op[o] EXCEPT !.pc = "prepared", !.time = t,
                                       !.doc = Updated(op[o].doc, o, t)]
        <3>1. op[o].doc \in Documents /\ op[o] \in OpStates /\ op[o].pc = "loaded"
            BY <1>0, <1>11 DEF Record
        <3>2. Updated(op[o].doc, o, t) \in Documents
            BY <3>1, UpdatedTyped
        <3>3. /\ st \in OpStates /\ st.time = t
              /\ st.candidate = op[o].candidate /\ st.response = op[o].response
            BY <3>1, <3>2 DEF Pcs
        <3>4. op' = [op EXCEPT ![o] = st]
            BY <1>0, <1>11, <2>1 DEF Record
        <3>5. st.candidate \in Candidates /\ st.response \in Responses
            BY <3>1, <3>3 DEF TypeOK
        <3>6. QED
            BY <1>3, <1>11, <3>3, <3>4, <3>5 DEF Record
    <2>2. CASE ~(Recordable(op[o].doc, op[o].candidate) /\ t >= Created)
        BY <1>4, <1>11, <2>2 DEF Record
    <2>3. QED
        BY <2>1, <2>2
<1>12. ASSUME NEW o \in Operators, NEW tie \in BOOLEAN, Apply(o, tie)
      PROVE  TypeOK'
    <2>1. /\ op[o].pc = "prepared" /\ op[o].time \in Times
          /\ op[o].candidate \in Candidates /\ op[o].response \in Responses
          /\ Write(o) /\ op' = [op EXCEPT ![o].pc = "stored", ![o].doc = EmptyDoc]
        BY <1>12 DEF Apply, TypeOK
    <2>2. Updated(Stored, o, op[o].time) \in Documents
        BY <2>1, UpdatedTyped, StoredFields
    <2>3. Stored' = Updated(Stored, o, op[o].time) /\ saved' = saved
        BY <2>1, StoredFields DEF Write, Stored, Updated
    <2>4. EmptyDoc \in Documents
        BY EmptyTyped
    <2>5. /\ op' \in [Operators -> OpStates]
          /\ \A p \in Operators \ {o} : op'[p] = op[p]
          /\ op'[o].candidate = op[o].candidate /\ op'[o].response = op[o].response
          /\ op'[o].time = op[o].time
        BY <1>0, <2>1, <2>4 DEF Pcs
    <2>6. QED
        BY <2>1, <2>2, <2>3, <2>5 DEF TypeOK
<1>13. ASSUME NEW o \in Operators, \/ \E tie \in BOOLEAN : Reject(o, tie)
                                  \/ Tell(o)
                                  \/ Crash(o)
      PROVE  TypeOK'
    BY <1>4, <1>13 DEF Reject, Tell, Crash
<1>14. CASE UNCHANGED vars
    BY <1>14 DEF vars, database, TypeOK, Stored
<1>15. QED
    BY <1>1, <1>2, <1>5, <1>7, <1>8, <1>9, <1>10, <1>11, <1>12, <1>13, <1>14 DEF Next

-----------------------------------------------------------------------------
(* The inductive invariant. *)

\* Steps that leave the tables alone leave the facts about them alone; the
\* process that moves is not about to report.
LEMMA LocalStep ==
    ASSUME IndInv, NEW o \in Operators, UNCHANGED database,
           \A p \in Operators \ {o} : op'[p] = op[p],
           op'[o].pc # "stored"
    PROVE  TablesAgree' /\ RowsAreSubmitted' /\ ToldIsStored'
<1>1. TablesAgree' /\ RowsAreSubmitted'
    BY DEF IndInv, database, TablesAgree, RowsAreSubmitted
<1>2. ToldIsStored'
    BY DEF IndInv, database, ToldIsStored, SubmissionRow
<1>3. QED
    BY <1>1, <1>2

\* apply_submission keeps the tables in agreement: nothing is stored yet for
\* the candidate or its problem, because both are submission_ready.
LEMMA ApplyStep ==
    ASSUME IndInv, NEW o \in Operators, NEW tie \in BOOLEAN, Apply(o, tie)
    PROVE  TablesAgree' /\ RowsAreSubmitted' /\ ToldIsStored'
<1> DEFINE c == op[o].candidate
           row == SubmissionRow(o, op[o].time)
           evt == EventRow(o, op[o].time)
<1>0. /\ problems \in [Problems -> ProblemStatuses]
      /\ candidates \in [Candidates -> CandidateStatuses]
      /\ submissions \subseteq SubmissionRows /\ events \subseteq EventRows
      /\ op \in [Operators -> OpStates] /\ ProblemOf \in [Candidates -> Problems]
    BY SubmissionAssumption DEF IndInv, TypeOK, Stored, Documents
<1>1. /\ c \in Candidates /\ op[o].time \in Times
      /\ candidates[c] = "submission_ready" /\ problems[ProblemOf[c]] = "submission_ready"
      /\ Write(o)
      /\ op' = [op EXCEPT ![o].pc = "stored", ![o].doc = EmptyDoc]
    BY DEF Apply, Accepts, Precondition, IndInv, TypeOK
<1>2. /\ problems' = [problems EXCEPT ![ProblemOf[c]] = "submitted"]
      /\ candidates' = [candidates EXCEPT ![c] = "submitted"]
      /\ submissions' = submissions \cup {row} /\ events' = events \cup {evt}
      /\ saved' = saved
    BY <1>1, WriteEffect DEF IndInv
<1>3. /\ row.candidate = c /\ evt.entity = c
      /\ evt.response = row.response /\ evt.time = row.time
    BY DEF SubmissionRow, EventRow
<1>4. \A s \in submissions : s.candidate \in Candidates /\ ProblemOf[s.candidate] # ProblemOf[c]
    BY <1>0, <1>1 DEF IndInv, RowsAreSubmitted, SubmissionRows
<1>5. \A e \in events : e.entity # c
    BY <1>0, <1>1 DEF IndInv, RowsAreSubmitted, EventRows
<1>6. saved
    BY <1>1 DEF IndInv, RowsAreSubmitted
<1>7. RowsAreSubmitted'
    BY <1>0, <1>1, <1>2, <1>3, <1>4, <1>6 DEF IndInv, RowsAreSubmitted
<1>8. TablesAgree'
    <2>1. ASSUME NEW x \in Candidates, candidates'[x] = "submitted"
          PROVE  \E s \in submissions', e \in events' :
                    /\ s.candidate = x /\ e.entity = x /\ e.response = s.response /\ e.time = s.time
                    /\ problems'[ProblemOf[x]] = "submitted"
        BY <1>0, <1>1, <1>2, <1>3, <2>1 DEF IndInv, TablesAgree
    <2>2. \A s1, s2 \in submissions' :
              ProblemOf[s1.candidate] = ProblemOf[s2.candidate] => s1 = s2
        BY <1>2, <1>3, <1>4 DEF IndInv, TablesAgree
    <2>3. \A e1, e2 \in events' : e1.entity = e2.entity => e1 = e2
        BY <1>2, <1>3, <1>5 DEF IndInv, TablesAgree
    <2>4. ASSUME NEW q \in Problems, problems'[q] = "submitted"
          PROVE  \E s \in submissions' : ProblemOf[s.candidate] = q
        BY <1>0, <1>2, <1>3, <2>4 DEF IndInv, TablesAgree
    <2>5. QED
        BY <2>1, <2>2, <2>3, <2>4 DEF TablesAgree
<1>9. ToldIsStored'
    <2>1. \A p \in Operators : /\ op'[p].candidate = op[p].candidate
                               /\ op'[p].response = op[p].response /\ op'[p].time = op[p].time
                               /\ p # o => op'[p].pc = op[p].pc
        BY <1>0, <1>1 DEF OpStates
    <2>2. QED
        BY <1>2, <2>1 DEF IndInv, ToldIsStored, SubmissionRow
<1>10. QED
    BY <1>7, <1>8, <1>9

\* The initial state satisfies the invariant.
LEMMA InitIndInv ==
    ASSUME Init
    PROVE  IndInv
<1>1. EmptyDoc \in Documents /\ Idle \in OpStates
    BY EmptyTyped
<1>2. /\ \A q \in Problems : problems[q] = "captured"
      /\ \A c \in Candidates : candidates[c] = "draft"
      /\ Stored = EmptyDoc
    BY DEF Init, EmptyDoc, Stored
<1>3. \A o \in Operators : op[o] = Idle /\ op[o].pc = "idle"
    BY DEF Init, Idle
<1>4. TypeOK
    BY <1>1, <1>2, <1>3 DEF Init, TypeOK
<1>5. TablesAgree /\ RowsAreSubmitted /\ ToldIsStored
    BY <1>2, <1>3 DEF Init, TablesAgree, RowsAreSubmitted, ToldIsStored
<1>6. QED
    BY <1>4, <1>5 DEF IndInv

\* Every step keeps the invariant.
LEMMA StepIndInv ==
    ASSUME IndInv, [Next]_vars
    PROVE  IndInv'
<1>0. TypeOK'
    BY TypeStep DEF IndInv
<1>1. op \in [Operators -> OpStates]
    BY DEF IndInv, TypeOK
<1>2. ASSUME NEW d \in Bundles, SaveDocument(d)
      PROVE  TablesAgree' /\ RowsAreSubmitted' /\ ToldIsStored'
    <2>1. /\ submissions = {} /\ events = {} /\ UNCHANGED <<submissions, events, op>>
          /\ problems' = d.problems /\ candidates' = d.candidates /\ saved' = TRUE
        BY <1>2 DEF SaveDocument, IndInv, RowsAreSubmitted
    <2>2. /\ \A q \in Problems : d.problems[q] # "submitted"
          /\ \A c \in Candidates : d.candidates[c] # "submitted"
        BY SubmissionAssumption
    <2>3. ToldIsStored'
        BY <2>1 DEF IndInv, ToldIsStored, SubmissionRow
    <2>4. QED
        BY <2>1, <2>2, <2>3 DEF TablesAgree, RowsAreSubmitted
<1>3. ASSUME NEW n \in Notes, NEW t \in Times, AppendEvent(n, t)
      PROVE  TablesAgree' /\ RowsAreSubmitted' /\ ToldIsStored'
    <2> DEFINE evt == [entity |-> n, response |-> None, actor |-> None, time |-> t]
    <2>1. /\ events' = events \cup {evt} /\ evt.entity = n /\ n \notin Candidates
          /\ UNCHANGED <<saved, active, problems, candidates, submissions, op>>
          /\ saved /\ \A e \in events : e.entity # n
        BY <1>3, SubmissionAssumption DEF AppendEvent
    <2>2. TablesAgree'
        BY <2>1 DEF IndInv, TablesAgree
    <2>3. RowsAreSubmitted'
        BY <2>1 DEF IndInv, RowsAreSubmitted
    <2>4. ToldIsStored'
        BY <2>1 DEF IndInv, ToldIsStored, SubmissionRow
    <2>5. QED
        BY <2>2, <2>3, <2>4
<1>4. ASSUME NEW o \in Operators, Refuse(o), UNCHANGED database
      PROVE  TablesAgree' /\ RowsAreSubmitted' /\ ToldIsStored'
    <2>1. (\A p \in Operators \ {o} : op'[p] = op[p]) /\ op'[o].pc # "stored"
        BY <1>1, <1>4 DEF Refuse, Idle
    <2>2. QED
        BY <1>4, <2>1, LocalStep
<1>5. ASSUME NEW o \in Operators,
             \/ \E c \in Candidates, r \in Responses : ReadManifest(o, c, r)
             \/ ReadProblems(o) \/ ReadCandidates(o) \/ ReadSubmissions(o)
      PROVE  TablesAgree' /\ RowsAreSubmitted' /\ ToldIsStored'
    <2>1. /\ \A p \in Operators \ {o} : op'[p] = op[p]
          /\ op'[o].pc # "stored" /\ UNCHANGED database
        <3>1. CASE \E c \in Candidates, r \in Responses : ReadManifest(o, c, r)
            BY <1>1, <3>1 DEF ReadManifest, Idle
        <3>2. CASE ReadProblems(o)
            BY <1>1, <3>2 DEF ReadProblems, OpStates
        <3>3. CASE ReadCandidates(o)
            BY <1>1, <3>3 DEF ReadCandidates, OpStates
        <3>4. CASE ReadSubmissions(o)
            BY <1>1, <3>4 DEF ReadSubmissions, OpStates
        <3>5. QED
            BY <1>5, <3>1, <3>2, <3>3, <3>4
    <2>2. QED
        BY <2>1, LocalStep
<1>6. ASSUME NEW o \in Operators, ReadEvents(o) \/ \E t \in Times : Record(o, t)
      PROVE  TablesAgree' /\ RowsAreSubmitted' /\ ToldIsStored'
    <2>1. CASE Refuse(o)
        BY <1>4, <1>6, <2>1 DEF ReadEvents, Record
    <2>2. CASE ~Refuse(o)
        <3>1. /\ \A p \in Operators \ {o} : op'[p] = op[p]
              /\ op'[o].pc # "stored" /\ UNCHANGED database
            BY <1>1, <1>6, <2>2 DEF ReadEvents, Record, OpStates
        <3>2. QED
            BY <3>1, LocalStep
    <2>3. QED
        BY <2>1, <2>2
<1>7. ASSUME NEW o \in Operators, \/ \E tie \in BOOLEAN : Reject(o, tie)
                                 \/ Tell(o)
                                 \/ Crash(o)
      PROVE  TablesAgree' /\ RowsAreSubmitted' /\ ToldIsStored'
    BY <1>4, <1>7 DEF Reject, Tell, Crash
<1>8. ASSUME UNCHANGED vars
      PROVE  TablesAgree' /\ RowsAreSubmitted' /\ ToldIsStored'
    BY <1>8 DEF vars, database, IndInv, TablesAgree, RowsAreSubmitted, ToldIsStored, SubmissionRow
<1>9. TablesAgree' /\ RowsAreSubmitted' /\ ToldIsStored'
    BY <1>2, <1>3, <1>5, <1>6, <1>7, <1>8, ApplyStep DEF Next
<1>10. QED
    BY <1>0, <1>9 DEF IndInv

\* Submission.IndInv holds in every reachable state.
THEOREM Inductive == Spec => []IndInv
<1>1. Init => IndInv
    BY InitIndInv
<1>2. IndInv /\ [Next]_vars => IndInv'
    BY StepIndInv
<1>3. QED
    BY <1>1, <1>2, PTL DEF Spec

\* The tables and the processes have their types (load_document,
\* mark_submitted).
THEOREM TypeCorrect == Spec => []TypeOK
<1>1. IndInv => TypeOK
    BY DEF IndInv
<1>2. QED
    BY <1>1, Inductive, PTL

\* One submission and one event per submitted candidate, one submission per
\* problem (apply_submission), with any number of concurrent operators.
THEOREM Agreement == Spec => []TablesAgree
<1>1. IndInv => TablesAgree
    BY DEF IndInv
<1>2. QED
    BY <1>1, Inductive, PTL

\* No sequence of commands leaves a database that load_document refuses.
THEOREM AlwaysLoads == Spec => []DatabaseLoads
<1>1. ASSUME IndInv PROVE DatabaseLoads
    <2>1. Stored.submissions = submissions /\ Stored.candidates = candidates
        BY DEF Stored
    <2>2. QED
        BY <1>1, <2>1 DEF IndInv, RowsAreSubmitted, DatabaseLoads, Valid
<1>2. QED
    BY <1>1, Inductive, PTL

\* Who is told RECORDED has the submission stored.
THEOREM Durable == Spec => []ToldIsStored
<1>1. IndInv => ToldIsStored
    BY DEF IndInv
<1>2. QED
    BY <1>1, Inductive, PTL

-----------------------------------------------------------------------------
(* Submission implements SubmissionLog. *)

\* A step that writes no submission is a stutter of the log.
LEMMA SameLog ==
    ASSUME submissions' = submissions
    PROVE  [q \in Problems |-> RecordOf(q)]' = [q \in Problems |-> RecordOf(q)]
BY DEF RecordOf

\* The first submission of a problem is a step of the log.
LEMMA ApplyRecords ==
    ASSUME IndInv, NEW o \in Operators, NEW tie \in BOOLEAN, Apply(o, tie)
    PROVE  Log!Record(op[o].candidate, op[o].response)
<1> DEFINE log == [q \in Problems |-> RecordOf(q)]
<1>0. PICK c, r, row : /\ c = op[o].candidate /\ r = op[o].response
                       /\ row = SubmissionRow(o, op[o].time)
    OBVIOUS
<1>1. /\ c \in Candidates /\ r \in Responses /\ op[o].time \in Times
      /\ problems[ProblemOf[c]] = "submission_ready" /\ ProblemOf[c] \in Problems
      /\ Write(o)
    BY <1>0, SubmissionAssumption DEF Apply, Accepts, Precondition, IndInv, TypeOK
<1>2. submissions' = submissions \cup {row}
    BY <1>0, <1>1, WriteEffect DEF IndInv
<1>3. row.candidate = c /\ row.response = r
    BY <1>0 DEF SubmissionRow
<1>4. \A s \in submissions : ProblemOf[s.candidate] # ProblemOf[c]
    BY <1>1 DEF IndInv, RowsAreSubmitted
<1>5. RecordOf(ProblemOf[c]) = None
    BY <1>4 DEF RecordOf
<1>6. RecordOf(ProblemOf[c])' = [candidate |-> c, response |-> r]
    <2>1. {s \in submissions' : ProblemOf[s.candidate] = ProblemOf[c]} = {row}
        BY <1>2, <1>3, <1>4
    <2>2. (CHOOSE s \in {row} : TRUE) = row
        OBVIOUS
    <2>3. QED
        BY <1>3, <2>1, <2>2 DEF RecordOf
<1>7. ASSUME NEW q \in Problems, q # ProblemOf[c]
      PROVE  RecordOf(q)' = RecordOf(q)
    <2>1. {s \in submissions' : ProblemOf[s.candidate] = q}
            = {s \in submissions : ProblemOf[s.candidate] = q}
        BY <1>2, <1>3, <1>7
    <2>2. QED
        BY <2>1 DEF RecordOf
<1>8. log' = [log EXCEPT ![ProblemOf[c]] = [candidate |-> c, response |-> r]]
    BY <1>1, <1>6, <1>7
<1>9. log[ProblemOf[c]] = None
    BY <1>1, <1>5
<1>10. QED
    BY <1>0, <1>8, <1>9 DEF Log!Record

\* The submission code implements the log: Log!Spec under the mapping of
\* recorded to the submissions table.
THEOREM Implements == Spec => ImplementsLog
<1>1. Init => Log!Init
    BY DEF Init, Log!Init, RecordOf
<1>2. ASSUME IndInv, [Next]_vars
      PROVE  [Log!Next]_([q \in Problems |-> RecordOf(q)])
    <2>1. CASE submissions' = submissions
        BY <2>1, SameLog
    <2>2. CASE \E o \in Operators, tie \in BOOLEAN : Apply(o, tie)
        <3>1. PICK o \in Operators, tie \in BOOLEAN : Apply(o, tie)
            BY <2>2
        <3>2. op[o].candidate \in Candidates /\ op[o].response \in Responses
            BY <1>2, <3>1 DEF IndInv, TypeOK, Apply
        <3>3. QED
            BY <1>2, <3>1, <3>2, ApplyRecords DEF Log!Next
    <2>3. CASE ~(\E o \in Operators, tie \in BOOLEAN : Apply(o, tie))
        <3>1. submissions' = submissions
            BY <1>2, <2>3
            DEF Next, vars, database, SaveDocument, AppendEvent, ReadManifest, ReadProblems,
                ReadCandidates, ReadSubmissions, ReadEvents, Record, Reject, Tell, Crash
        <3>2. QED
            BY <2>1, <3>1
    <2>4. QED
        BY <2>2, <2>3
<1>3. QED
    BY <1>1, <1>2, Inductive, PTL DEF Spec, ImplementsLog, Log!Spec
=============================================================================
