--------------------------- MODULE MCAnalysisRun ---------------------------
(* Two runs of one analysis type, a run of a type that needs sibling files, *)
(* and a restricted one.  Replays of every kind: two that lead to rows, one *)
(* that decodes to a failed result without rows, one that breaks its        *)
(* contract.                                                                *)
EXTENDS AnalysisRun, TLC

CONSTANTS DexRuns, Mixer, Sealed

MCTypeOf == [a \in Runs |-> IF a = Mixer THEN "mixer_flow" ELSE "dex_swap"]
MCOutcome == [r \in Replays |->
    CASE r = "good" -> [valid |-> TRUE, rows |-> TRUE, status |-> "complete"]
      [] r = "gap" -> [valid |-> TRUE, rows |-> TRUE, status |-> "partial"]
      [] r = "unbound" -> [valid |-> TRUE, rows |-> FALSE, status |-> "failed"]
      [] OTHER -> [valid |-> FALSE, rows |-> FALSE, status |-> "failed"]]

\* Processes differ in nothing, and neither do the runs of one type.
MCSymmetry == Permutations(Procs) \cup Permutations(DexRuns)
=============================================================================
