--------------------------- MODULE ResultContract ---------------------------
(***************************************************************************)
(* The result envelope every replay analyzer returns and the contract that *)
(* it is validated against before it leaves the analyzer                   *)
(* (src/scan_tool/domain/analysis_result.py).  An analyzer is a function   *)
(* of a request and a reviewed replay; it either refuses with one named    *)
(* error or builds a result out of evidence items, and a result that       *)
(* breaks the contract raises ContractViolation, a ValueError.             *)
(*                                                                         *)
(* Data that no decision looks at (messages, hosts, times, URIs) is left   *)
(* out; identifiers are strings or tuples that are equal exactly when the  *)
(* code's strings are.                                                     *)
(***************************************************************************)
EXTENDS Integers, Sequences, FiniteSets, SequencesExt, FiniteSetsExt

CONSTANT UINT256_MAX     \* the largest raw value the contract accepts

ASSUME UIntAssumption == UINT256_MAX \in Nat \ {0}

\* The sentinel of a request filter that was left out: it matches anything.
Anything == "missing"

-----------------------------------------------------------------------------
(* Refusals.  An analyzer's early returns and raised failures are a        *)
(* sequence of <<condition, code, stage>>, tried in the code's order.      *)

NoRefusal == <<>>

FirstRefusal(checks) ==
    LET hit == {i \in DOMAIN checks : checks[i][1]}
    IN  IF hit = {} THEN NoRefusal ELSE <<checks[Min(hit)][2], checks[Min(hit)][3]>>

-----------------------------------------------------------------------------
(* Envelopes.                                                              *)

\* Evidence drawn from the k-th source of the replay (the last one when there
\* are fewer): which record it cites and which source that record is of.
Evidence(sources, id, k) ==
    LET i == Min({k, Len(sources)})
    IN  [id |-> id, rec |-> i, src |-> sources[i]]

\* Every source record of a replay, whether or not evidence cites it.
AllSources(sources) == [i \in DOMAIN sources |-> [id |-> i, src |-> sources[i]]]

\* The source records of the evidence that is cited, in source order.
SourceRecords(sources, evidence) ==
    LET cited == {evidence[i].rec : i \in DOMAIN evidence}
    IN  SelectSeq(AllSources(sources), LAMBDA s : s.id \in cited)

Ids(s) == {s[i].id : i \in DOMAIN s}

AllIds(evidence) == [i \in DOMAIN evidence |-> evidence[i].id]

Error(code, stage, refs) == [id |-> code, stage |-> stage, refs |-> refs]

\* A failed result: no results, no evidence, one error.
Failed(refusal) ==
    [status |-> "failed", results |-> <<>>, evidence |-> <<>>, sources |-> <<>>,
     errors |-> <<Error(refusal[1], refusal[2], <<>>)>>, raws |-> {}, value |-> <<>>]

\* An exception no handler of the analyzer catches: the caller gets no result.
Raised(what) == [Failed(<<what, "raised">>) EXCEPT !.status = "raised"]

Refused(refusal) ==
    IF refusal[1] \in {"IndexError", "DecodingError"}
    THEN Raised(refusal[1]) ELSE Failed(refusal)

\* One result that cites all its evidence, complete or with one error.
OneResult(sources, value, raws, evidence, status, code, stage) ==
    [status |-> status,
     results |-> <<[id |-> value.type, refs |-> AllIds(evidence)]>>,
     evidence |-> evidence,
     sources |-> SourceRecords(sources, evidence),
     errors |-> IF status = "complete" THEN <<>>
                ELSE <<Error(code, stage, AllIds(evidence))>>,
     raws |-> raws, value |-> value]

-----------------------------------------------------------------------------
(* The contract: the shape of each status and the references between the   *)
(* parts of one document.                                                  *)

ShapeOfStatus(r) ==
    /\ r.status \in {"complete", "partial"} =>
           r.results # <<>> /\ r.evidence # <<>> /\ r.sources # <<>>
    /\ r.status = "complete" <=> r.errors = <<>>

Unique(s) == Cardinality(Ids(s)) = Len(s)

KnownRefs(refs, known) == ToSet(refs) \subseteq known /\ IsInjective(refs)

ReferencesValid(r) ==
    LET evidenceIds == Ids(r.evidence)
        cited == UNION {ToSet(r.results[i].refs) : i \in DOMAIN r.results}
                   \cup UNION {ToSet(r.errors[i].refs) : i \in DOMAIN r.errors}
    IN  /\ Unique(r.results) /\ Unique(r.evidence) /\ Unique(r.sources) /\ Unique(r.errors)
        /\ \A i \in DOMAIN r.results :
               r.results[i].refs # <<>> /\ KnownRefs(r.results[i].refs, evidenceIds)
        /\ \A i \in DOMAIN r.errors : KnownRefs(r.errors[i].refs, evidenceIds)
        /\ evidenceIds \subseteq cited
        /\ \A e \in ToSet(r.evidence) :
               \E s \in ToSet(r.sources) : s.id = e.rec /\ s.src = e.src
        /\ Ids(r.sources) \subseteq {e.rec : e \in ToSet(r.evidence)}

\* Every field whose name ends in _raw is a canonical uint256.
RawValuesValid(r) == \A n \in r.raws : n \in 0 .. UINT256_MAX

ValidResult(r) == ShapeOfStatus(r) /\ ReferencesValid(r) /\ RawValuesValid(r)

\* What the analyzer returns for the result it built: a ContractViolation is
\* caught by the handler around the query and becomes a decode_failed result.
Checked(r, stage) == IF ValidResult(r) THEN r ELSE Failed(<<"decode_failed", stage>>)

\* The same where no handler surrounds the call.
CheckedOrRaised(r) == IF ValidResult(r) THEN r ELSE Raised("ContractViolation")

-----------------------------------------------------------------------------
(* The entries of a sequence at the given positions, in order: a list      *)
(* comprehension with a condition.                                         *)

Kept(s, positions) ==
    LET kept[n \in 0 .. Len(s)] ==
            IF n = 0 THEN <<>>
            ELSE IF n \in positions THEN Append(kept[n - 1], s[n]) ELSE kept[n - 1]
    IN  kept[Len(s)]
=============================================================================
