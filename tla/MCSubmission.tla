---------------------------- MODULE MCSubmission ----------------------------
(* Two operators, one problem with two candidates and one with one.         *)
EXTENDS Submission, TLC

CONSTANTS c1, c2, c3, q1, q2

MCProblemOf == (c1 :> q1) @@ (c2 :> q1) @@ (c3 :> q2)

\* Everything ready in an active and in a closed competition, and one with a
\* draft candidate and a problem under review.
MCBundles ==
    LET Ready == [active |-> TRUE,
                  problems |-> [q \in Problems |-> "submission_ready"],
                  candidates |-> [c \in Candidates |-> "submission_ready"]]
    IN  {Ready, [Ready EXCEPT !.active = FALSE],
         [Ready EXCEPT !.candidates[c3] = "draft", !.problems[q1] = "review_required"]}

MCSymmetry == Permutations(Operators) \cup Permutations({c1, c2}) \cup Permutations(Responses)
=============================================================================
