--------------------------- MODULE SubmissionLog ---------------------------
(***************************************************************************)
(* What recording submissions promises: a problem gets at most one         *)
(* submission, of one of its candidates with one response, and what was    *)
(* recorded is never changed or lost.                                      *)
(***************************************************************************)
CONSTANTS Problems, Candidates, ProblemOf, Responses, NoRecord

VARIABLE recorded

Init == recorded = [q \in Problems |-> NoRecord]

Record(c, r) ==
    /\ recorded[ProblemOf[c]] = NoRecord
    /\ recorded' = [recorded EXCEPT ![ProblemOf[c]] = [candidate |-> c, response |-> r]]

Next == \E c \in Candidates, r \in Responses : Record(c, r)

Spec == Init /\ [][Next]_recorded
=============================================================================
