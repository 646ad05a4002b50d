----------------------------- MODULE Submission -----------------------------
(***************************************************************************)
(* Recording manual submissions: `scan mark-submitted` processes (cli.py)  *)
(* of several operators on one operations database                         *)
(* (application/submission.py, adapters/sqlite_operations.py).             *)
(*                                                                         *)
(* load_document reads one table after the other, each read in a           *)
(* transaction of its own: other processes may write in between.           *)
(* apply_submission is one transaction, committed or rolled back.  Tables  *)
(* no command changes after save_document (modes, plans, jobs,             *)
(* verifications, errors) are left out.  Times are small numbers; the clock*)
(* may be set back between two commands.                                   *)
(***************************************************************************)
EXTENDS Naturals, FiniteSets

CONSTANTS
    Operators,      \* processes that run mark-submitted
    Problems,
    Candidates,
    ProblemOf,      \* the problem a candidate answers
    Responses,      \* what the competition answered
    Notes,          \* events other components append
    Times,          \* readings of the clock
    Created,        \* when the saved records were created
    Bundles,        \* documents that are saved, before any submission
    None

ProblemStatuses == {"captured", "triaged", "queued", "running", "partial", "verifying",
                    "review_required", "submission_ready", "submitted"}
CandidateStatuses == {"draft", "review_required", "submission_ready", "submitted", "rejected"}

ASSUME SubmissionAssumption ==
    /\ ProblemOf \in [Candidates -> Problems]
    /\ Times \subseteq Nat /\ Created \in Nat
    /\ None \notin Responses \cup Candidates \cup Operators
    /\ Notes \cap Candidates = {}
    /\ Bundles \subseteq [active: BOOLEAN,
                         problems: [Problems -> ProblemStatuses \ {"submitted"}],
                         candidates: [Candidates -> CandidateStatuses \ {"submitted"}]]

VARIABLES
    saved,          \* the competition is in the database
    active,         \* competitions.status is active
    problems,       \* problems.status
    candidates,     \* candidates.status
    submissions,    \* rows of submissions
    events,         \* rows of operation_events
    op              \* local state of each mark-submitted process

database == <<saved, active, problems, candidates, submissions, events>>
vars == <<database, op>>

SubmissionRows == [candidate: Candidates, response: Responses, time: Times]
EventRows == [entity: Candidates \cup Notes, response: Responses \cup {None},
              actor: Operators \cup {None}, time: Times]

\* A document: what load_document reads of the tables modelled here.
Documents == [active: BOOLEAN,
              problems: [Problems -> ProblemStatuses],
              candidates: [Candidates -> CandidateStatuses],
              submissions: SUBSET SubmissionRows,
              events: SUBSET EventRows]

Stored == [active |-> active, problems |-> problems, candidates |-> candidates,
           submissions |-> submissions, events |-> events]

\* references_are_valid, as far as these tables go: a submission record
\* requires a submitted candidate.
Valid(d) == \A s \in d.submissions : d.candidates[s.candidate] = "submitted"

EmptyDoc == [active |-> FALSE, problems |-> [q \in Problems |-> "captured"],
             candidates |-> [c \in Candidates |-> "draft"],
             submissions |-> {}, events |-> {}]

Pcs == {"idle", "problems", "candidates", "submissions", "events", "loaded", "prepared", "stored"}
OpStates == [pc: Pcs, candidate: Candidates \cup {None}, response: Responses \cup {None},
             time: Times \cup {Created}, doc: Documents]

Idle == [pc |-> "idle", candidate |-> None, response |-> None, time |-> Created, doc |-> EmptyDoc]

Init ==
    /\ saved = FALSE /\ active = FALSE
    /\ problems = EmptyDoc.problems /\ candidates = EmptyDoc.candidates
    /\ submissions = {} /\ events = {}
    /\ op = [o \in Operators |-> Idle]

Refuse(o) == op' = [op EXCEPT ![o] = Idle]

-----------------------------------------------------------------------------
(* Other users of the database. *)

\* save_document: a competition is inserted once, in one transaction; saving
\* it again fails on its primary key.
SaveDocument(d) ==
    /\ ~saved
    /\ saved' = TRUE /\ active' = d.active
    /\ problems' = d.problems /\ candidates' = d.candidates
    /\ UNCHANGED <<submissions, events, op>>

\* append_event: an event id that exists is refused.
AppendEvent(n, t) ==
    /\ saved
    /\ \A e \in events : e.entity # n
    /\ events' = events \cup {[entity |-> n, response |-> None, actor |-> None, time |-> t]}
    /\ UNCHANGED <<saved, active, problems, candidates, submissions, op>>

-----------------------------------------------------------------------------
(* load_document: the tables in the order they are read. *)

\* The command starts with --confirm given and reads the manifest.
ReadManifest(o, c, r) ==
    /\ op[o].pc = "idle" /\ saved
    /\ op' = [op EXCEPT ![o] = [Idle EXCEPT !.pc = "problems", !.candidate = c, !.response = r,
                                            !.doc.active = active]]
    /\ UNCHANGED database

ReadProblems(o) ==
    /\ op[o].pc = "problems"
    /\ op' = [op EXCEPT ![o].pc = "candidates", ![o].doc.problems = problems]
    /\ UNCHANGED database

ReadCandidates(o) ==
    /\ op[o].pc = "candidates"
    /\ op' = [op EXCEPT ![o].pc = "submissions", ![o].doc.candidates = candidates]
    /\ UNCHANGED database

ReadSubmissions(o) ==
    /\ op[o].pc = "submissions"
    /\ op' = [op EXCEPT ![o].pc = "events", ![o].doc.submissions = submissions]
    /\ UNCHANGED database

\* The last table; the document is validated as a whole.
ReadEvents(o) ==
    /\ op[o].pc = "events"
    /\ IF Valid(op[o].doc)
       THEN op' = [op EXCEPT ![o].pc = "loaded", ![o].doc.events = events]
       ELSE Refuse(o)
    /\ UNCHANGED database

-----------------------------------------------------------------------------
(* SubmissionRecorder.record: the transition is prepared on the document. *)

Recordable(d, c) ==
    /\ d.active
    /\ \A s \in d.submissions : s.candidate # c
    /\ d.candidates[c] = "submission_ready"
    /\ d.problems[ProblemOf[c]] = "submission_ready"

SubmissionRow(o, t) == [candidate |-> op[o].candidate, response |-> op[o].response, time |-> t]
EventRow(o, t) ==
    [entity |-> op[o].candidate, response |-> op[o].response, actor |-> o, time |-> t]

\* _updated_document.
Updated(d, o, t) ==
    LET c == op[o].candidate
    IN  [active |-> d.active,
         problems |-> [d.problems EXCEPT ![ProblemOf[c]] = "submitted"],
         candidates |-> [d.candidates EXCEPT ![c] = "submitted"],
         submissions |-> d.submissions \cup {SubmissionRow(o, t)},
         events |-> d.events \cup {EventRow(o, t)}]

\* A clock behind the creation of the records makes the document invalid.
Record(o, t) ==
    /\ op[o].pc = "loaded"
    /\ IF Recordable(op[o].doc, op[o].candidate) /\ t >= Created
       THEN op' = [op EXCEPT ![o].pc = "prepared", ![o].time = t,
                             ![o].doc = Updated(op[o].doc, o, t)]
       ELSE Refuse(o)
    /\ UNCHANGED database

-----------------------------------------------------------------------------
(* apply_submission. *)

\* The three conditional UPDATEs change one row each.
Precondition(c) ==
    /\ candidates[c] = "submission_ready"
    /\ problems[ProblemOf[c]] = "submission_ready"
    /\ active

\* The new row is the last of its table by time and id; rows of one time are
\* in the order of their hashed ids, which may be either.
SortsLast(rows, t, tie) == \A r \in rows : r.time < t \/ (r.time = t /\ tie)

\* The tables after the writes, loaded again, equal the prepared document,
\* in which the new rows are at the end.
ReloadsAs(o, tie) ==
    /\ Updated(Stored, o, op[o].time) = op[o].doc
    /\ SortsLast(submissions, op[o].time, tie)
    /\ SortsLast(events, op[o].time, tie)

\* Mutant: the validated document is trusted, the stored statuses are not
\* looked at again.
MutAccepts(o, tie) == SortsLast(submissions, op[o].time, tie)

Accepts(o, tie) == Precondition(op[o].candidate) /\ ReloadsAs(o, tie)

\* Mutant: the candidate's status is not updated with the rest.
MutWrite(o) ==
    LET d == Updated(Stored, o, op[o].time)
    IN  /\ problems' = d.problems /\ candidates' = candidates
        /\ submissions' = d.submissions /\ events' = d.events
        /\ UNCHANGED <<saved, active>>

\* The writes of the transaction.
Write(o) ==
    LET d == Updated(Stored, o, op[o].time)
    IN  /\ problems' = d.problems /\ candidates' = d.candidates
        /\ submissions' = d.submissions /\ events' = d.events
        /\ UNCHANGED <<saved, active>>

Apply(o, tie) ==
    /\ op[o].pc = "prepared" /\ Accepts(o, tie)
    /\ Write(o)
    /\ op' = [op EXCEPT ![o].pc = "stored", ![o].doc = EmptyDoc]

\* Mutant: the error of the transaction is swallowed.
MutReject(o, tie) ==
    /\ op[o].pc = "prepared" /\ ~Accepts(o, tie)
    /\ op' = [op EXCEPT ![o].pc = "stored"]
    /\ UNCHANGED database

\* The transaction is rolled back.
Reject(o, tie) ==
    /\ op[o].pc = "prepared" /\ ~Accepts(o, tie)
    /\ Refuse(o)
    /\ UNCHANGED database

\* RECORDED is printed.
Tell(o) == op[o].pc = "stored" /\ Refuse(o) /\ UNCHANGED database

\* The process is killed, or the database stays locked for too long.
Crash(o) == op[o].pc # "idle" /\ Refuse(o) /\ UNCHANGED database

Next ==
    \/ \E d \in Bundles : SaveDocument(d)
    \/ \E n \in Notes, t \in Times : AppendEvent(n, t)
    \/ \E o \in Operators :
        \/ \E c \in Candidates, r \in Responses : ReadManifest(o, c, r)
        \/ ReadProblems(o) \/ ReadCandidates(o) \/ ReadSubmissions(o) \/ ReadEvents(o)
        \/ \E t \in Times : Record(o, t)
        \/ \E tie \in BOOLEAN : Apply(o, tie) \/ Reject(o, tie)
        \/ Tell(o) \/ Crash(o)

Spec == Init /\ [][Next]_vars
-----------------------------------------------------------------------------
(* Properties. *)

\* Types of the tables and of the processes.
TypeOK ==
    /\ saved \in BOOLEAN /\ Stored \in Documents
    /\ op \in [Operators -> OpStates]
    /\ \A o \in Operators :
        /\ op[o].pc # "idle" => op[o].candidate \in Candidates /\ op[o].response \in Responses
        /\ op[o].pc \in {"prepared", "stored"} => op[o].time \in Times

\* The tables tell one story: a submitted candidate has exactly one
\* submission and one event with the same response and time, and a problem is
\* submitted by exactly one of its candidates.
TablesAgree ==
    /\ \A c \in Candidates : candidates[c] = "submitted" =>
        \E s \in submissions, e \in events :
            /\ s.candidate = c /\ e.entity = c /\ e.response = s.response /\ e.time = s.time
            /\ problems[ProblemOf[c]] = "submitted"
    /\ \A s1, s2 \in submissions :
        ProblemOf[s1.candidate] = ProblemOf[s2.candidate] => s1 = s2
    /\ \A e1, e2 \in events : e1.entity = e2.entity => e1 = e2
    /\ \A q \in Problems : problems[q] = "submitted" =>
        \E s \in submissions : ProblemOf[s.candidate] = q

\* The database can always be loaded: no accepted submission leaves a
\* document that fails validation.
DatabaseLoads == Valid(Stored)

\* An operator who is about to be told RECORDED has the submission in the
\* database, with the response given, whatever the others do meanwhile.
ToldIsStored ==
    \A o \in Operators : op[o].pc = "stored" => SubmissionRow(o, op[o].time) \in submissions

\* What the properties above rest on: the rows of a submission belong to
\* records that are submitted, and there are none before the competition is
\* saved.
RowsAreSubmitted ==
    /\ \A s \in submissions : /\ candidates[s.candidate] = "submitted"
                              /\ problems[ProblemOf[s.candidate]] = "submitted"
    /\ \A e \in events : e.entity \in Candidates => candidates[e.entity] = "submitted"
    /\ ~saved => submissions = {} /\ events = {} /\ \A c \in Candidates : candidates[c] = "draft"

IndInv == TypeOK /\ TablesAgree /\ RowsAreSubmitted /\ ToldIsStored

\* The record of each problem, as SubmissionLog sees it.
RecordOf(q) ==
    LET own == {s \in submissions : ProblemOf[s.candidate] = q}
    IN  IF own = {} THEN None
        ELSE LET s == CHOOSE s \in own : TRUE
             IN  [candidate |-> s.candidate, response |-> s.response]

Log == INSTANCE SubmissionLog WITH
    recorded <- [q \in Problems |-> RecordOf(q)], NoRecord <- None

\* However commands interleave, crash and read torn documents, they record at
\* most one submission per problem and never change one.
ImplementsLog == Log!Spec
=============================================================================
