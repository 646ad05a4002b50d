-------------------------- MODULE CaseReconciliation -------------------------
(***************************************************************************)
(* The case_reconciliation analyzer                                        *)
(* (src/scan_tool/slices/case_reconciliation.py and                        *)
(* src/scan_tool/domain/case_reconciliation.py): one case composed of      *)
(* confirmed fixtures, each read through the two digests it is pinned by.  *)
(*                                                                         *)
(* A pin is [fixture, expected, evidence]; files[f] is [expected,          *)
(* evidence], each a document [sha, fixture, status], with Missing for a   *)
(* file that cannot be read.  The confirmed path is a sequence of edges    *)
(* [block, index, hash, amount] (index stands for the transaction index    *)
(* and the edge id) and the confirmed merge has branches and a residual;   *)
(* both are what the pinned files say.                                     *)
(***************************************************************************)
EXTENDS ReplayPackage

PathFixture == "FX-FLOW-PATH-001"
RemergeFixture == "FX-FLOW-REMERGE-001"
CaseFixture == "FX-CASE-EULER-EXIT-001"
\* The registry: the digests of expected.json and evidence.json of each fixture.
Approved == [f \in {PathFixture, RemergeFixture} |-> <<<<f, "expected">>, <<f, "evidence">>>>]
RequiredOrder == <<"DS-EVM-RPC-PUBLIC", "DS-EXPLORER-EVM", "DS-OSINT-WEB">>

-----------------------------------------------------------------------------
PinsMatchSourceRefs(replay) ==
    LET pinned == [i \in DOMAIN replay.pins |-> replay.pins[i].fixture]
    IN  /\ IsInjective(pinned)
        /\ ToSet(pinned) = replay.refs
        /\ ToSet(pinned) = DOMAIN Approved
        /\ \A p \in ToSet(replay.pins) : Approved[p.fixture] = <<p.expected, p.evidence>>

ReadPinnedObject(document, sha) ==
    Invalid(document = Missing) && Invalid(document.sha # sha)

LoadPin(files, pin) ==
    LET expected == files[pin.fixture].expected
        evidence == files[pin.fixture].evidence
    IN  ReadPinnedObject(expected, pin.expected)
        && ReadPinnedObject(evidence, pin.evidence)
        && Invalid(expected.fixture # pin.fixture \/ evidence.fixture # pin.fixture)
        && Incomplete(expected.status # "confirmed" \/ evidence.status # "confirmed")

CaseBefore(a, b) == a.block < b.block \/ (a.block = b.block /\ a.index <= b.index)

ReconstructCaseFacts(package, replay) ==
    LET edges == package.path
    IN  Incomplete(replay.category # "exploit")
        && FirstRaised(LAMBDA p : LoadPin(package.files, p), replay.pins)
        && Incomplete({PathFixture, RemergeFixture} \ {p.fixture : p \in ToSet(replay.pins)} # {})
        && Invalid(edges = <<>>)
        && Invalid(edges[1].hash # replay.seed)
        && Invalid(\E i \in 2 .. Len(edges) : ~CaseBefore(edges[i - 1], edges[i]))

CaseTimeline(edges, limit) == SubSeq(edges, 1, Min({limit, Len(edges)}))

CaseFacts(package, replay, limit) ==
    [type |-> "case_reconciliation", seed |-> replay.seed,
     timeline |-> CaseTimeline(package.path, limit),
     hops |-> Len(CaseTimeline(package.path, limit)), branches |-> Len(package.branches),
     residual |-> package.residual, refs |-> replay.refs]

-----------------------------------------------------------------------------
CaseBindingError(request, replay) ==
    << <<~(replay.fixture = CaseFixture /\ PinsMatchSourceRefs(replay)),
         "decode_failed", "decode_replay">>,
       <<~request.offline, "rule_restricted", "rule_check">>,
       <<request.fixture # replay.fixture, "reconciliation_failed", "fixture">>,
       <<request.category # replay.category, "reconciliation_failed", "category">>,
       <<request.seed # replay.seed, "reconciliation_failed", "seed">>,
       <<request.refs # replay.refs, "reconciliation_failed", "source_fixture_binding">>,
       <<~(request.allowed = ToSet(RequiredOrder) /\ request.order = RequiredOrder),
         "rule_restricted", "source_binding">> >>

CaseOnChain(id) == Item(id, "SRC-CASE-ONCHAIN", "DS-EVM-RPC-PUBLIC")
CaseExplorer(id) == Item(id, "SRC-CASE-EXPLORER", "DS-EXPLORER-EVM")
Context == Item(<<"EV-CASE-CONTEXT">>, "SRC-CASE-CONTEXT", "DS-OSINT-WEB")

\* Two items for each fixture, in fixture order.
CaseEvidence(replay) ==
    LET sorted == <<PathFixture, RemergeFixture>>
        items(i) == <<CaseOnChain(<<"EV-CASE-EXPECTED", i>>),
                      IF sorted[i] = PathFixture THEN CaseExplorer(<<"EV-CASE-EVIDENCE", i>>)
                      ELSE CaseOnChain(<<"EV-CASE-EVIDENCE", i>>)>>
    IN  FlattenSeq([i \in DOMAIN sorted |-> items(i)]) \o <<Context>>

\* Never complete: the selected transactions do not prove the whole case.
CaseResult(request, package, replay) ==
    LET evidence == CaseEvidence(replay)
    IN  [status |-> "partial",
         results |-> <<[id |-> "RES-CASE-TECHNICAL", refs |-> AllIds(evidence)],
                       [id |-> "RES-CASE-CONTEXT", refs |-> <<Context.id>>]>>,
         evidence |-> evidence,
         sources |-> <<[id |-> "SRC-CASE-ONCHAIN", src |-> "DS-EVM-RPC-PUBLIC"],
                       [id |-> "SRC-CASE-CONTEXT", src |-> "DS-OSINT-WEB"],
                       [id |-> "SRC-CASE-EXPLORER", src |-> "DS-EXPLORER-EVM"]>>,
         errors |-> <<Error("evidence_incomplete", "case_scope", <<>>)>>,
         raws |-> {package.residual} \cup
                     {e.amount : e \in ToSet(CaseTimeline(package.path, request.maxEntries))},
         value |-> CaseFacts(package, replay, request.maxEntries)]

AnalyzeCaseReconciliationReplay(request, package, replay) ==
    LET refusal == FirstRefusal(CaseBindingError(request, replay))
        raised == ReconstructCaseFacts(package, replay)
    IN  IF refusal # NoRefusal THEN Failed(refusal)
        ELSE IF raised = "incomplete" THEN Failed(<<"source_unavailable", "case_scope">>)
        ELSE IF raised # Quiet THEN Failed(<<"reconciliation_failed", "source_reconciliation">>)
        ELSE CheckedOrRaised(CaseResult(request, package, replay))
=============================================================================
