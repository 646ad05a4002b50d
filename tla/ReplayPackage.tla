---------------------------- MODULE ReplayPackage ----------------------------
(***************************************************************************)
(* What the case-package analyzers share (cex_cluster, bridge_transfer,    *)
(* mixer_flow, defi_lending, under src/scan_tool/domain and .../slices): a *)
(* package is a reviewed replay, the pins of the providers it was captured *)
(* from, and content-addressed artifacts.  Reconstruction reads them in a  *)
(* fixed order and stops at the first exception, which is either the       *)
(* analyzer's own Incomplete (a piece is missing: partial result) or any   *)
(* other ValueError, KeyError or TypeError (a contradiction: failed).      *)
(*                                                                         *)
(* An artifact is [uri, file]: the digest the replay refers to (Missing    *)
(* when it names none) and what reading that file finds: "ok", "missing",  *)
(* or "altered" (another content hash, or not a JSON object).  A provider  *)
(* pin is [id, role, endpoint, sha]; a pins file is [file, providers].     *)
(***************************************************************************)
EXTENDS ResultContract

CONSTANT Missing            \* the absent value of an optional field

Quiet == "quiet"            \* nothing was raised

Raise(cond, exception) == IF cond THEN exception ELSE Quiet

\* The statements of a before the statements of b.
a && b == IF a # Quiet THEN a ELSE b

\* The first exception of a loop over a sequence.
FirstRaised(Body(_), s) ==
    LET raising == {i \in DOMAIN s : Body(s[i]) # Quiet}
    IN  IF raising = {} THEN Quiet ELSE Body(s[Min(raising)])

Incomplete(cond) == Raise(cond, "incomplete")
Invalid(cond) == Raise(cond, "invalid")

-----------------------------------------------------------------------------
(* Pins and artifacts.                                                     *)

LoadProviderPins(pins) ==
    Incomplete(pins.file = "missing") && Invalid(pins.file = "malformed")

\* Every loader but the bridge's refuses two entries with one id.
LoadUniqueProviderPins(pins) == LoadProviderPins(pins) && Invalid(~Unique(pins.providers))

\* The pin the loaded dictionary holds under an id: the last entry wins.
ProviderPin(pins, id) ==
    pins.providers[SelectLastInSeq(pins.providers, LAMBDA p : p.id = id)]

IsPinned(pins, id) == \E p \in ToSet(pins.providers) : p.id = id

Roles(pins) == {p.role : p \in ToSet(pins.providers)}
Endpoints(pins) == {p.endpoint : p \in ToSet(pins.providers)}

\* Mutant of LoadPinnedArtifact: what was read is not hashed.
LoadArtifactUnhashed(artifact, pin) ==
    Incomplete(artifact.uri = Missing)
    && Invalid(artifact.uri # pin)
    && Incomplete(artifact.file = "missing")

LoadPinnedArtifact(artifact, pin) ==
    Incomplete(artifact.uri = Missing)
    && Invalid(artifact.uri # pin)
    && Incomplete(artifact.file = "missing")
    && Invalid(artifact.file = "altered")

LoadPinnedArtifacts(artifacts, pins, capabilities) ==
    FirstRaised(LAMBDA c : LoadPinnedArtifact(artifacts[c], pins[c]), capabilities)

RpcCapabilities == <<"transaction", "receipt", "block">>

\* The stored answers of one provider about one transaction agree with the
\* replay's reference to it and with one another.
LegIsBound(body, hash, tag) ==
    /\ body.tx.hash = hash
    /\ body.tx.block = tag
    /\ body.receipt.tx = hash
    /\ body.receipt.block = tag
    /\ body.receipt.success
    /\ body.receipt.blockHash = body.tx.blockHash
    /\ body.block.number = tag
    /\ body.block.hash = body.tx.blockHash

-----------------------------------------------------------------------------
(* Replays with one observation per provider role and item (1 .. n).       *)

IndexedRoles(observations, role) ==
    {o.index : o \in {x \in ToSet(observations) : x.role = role}}

ObservationsMatch(observations, n) ==
    /\ \A o \in ToSet(observations) : o.index <= n
    /\ IsInjective([i \in DOMAIN observations |-> <<observations[i].role, observations[i].index>>])
    /\ IndexedRoles(observations, "PRIMARY") = 1 .. n

\* The first exception of a loop over the observations sorted by item;
\* observations of one item keep their order.
FirstRaisedByItem(Body(_), observations) ==
    LET raising == {i \in DOMAIN observations : Body(observations[i]) # Quiet}
        item == Min({observations[i].index : i \in raising})
    IN  IF raising = {} THEN Quiet
        ELSE Body(observations[Min({i \in raising : observations[i].index = item})])

ObservationOf(observations, role, i) ==
    CHOOSE o \in ToSet(observations) : o.role = role /\ o.index = i

RoleIsPinned(pins, o) ==
    IsPinned(pins, o.provider) /\ ProviderPin(pins, o.provider).role = o.role

-----------------------------------------------------------------------------
(* The analyzer around the reconstruction.                                 *)

ReplayBindingError(request, replay, parses, required) ==
    << <<~parses, "decode_failed", "decode_replay">>,
       <<~request.offline, "rule_restricted", "rule_check">>,
       <<request.fixture \notin {Missing, replay.fixture},
         "reconciliation_failed", "fixture_binding">>,
       <<~(required \subseteq request.allowed /\ required \subseteq request.order),
         "rule_restricted", "source_binding">> >>

\* An input the request may leave out.
Differs(asked, found) == asked \notin {Missing, found}

Item(id, rec, src) == [id |-> id, rec |-> rec, src |-> src]

PackageResult(value, evidence, status, code, stage, raws) ==
    LET records == {[id |-> e.rec, src |-> e.src] : e \in ToSet(evidence)}
    IN  [status |-> status,
         results |-> <<[id |-> value.type, refs |-> AllIds(evidence)]>>,
         evidence |-> evidence,
         sources |-> SetToSeq(records),
         errors |-> IF status = "complete" THEN <<>>
                    ELSE <<Error(code, stage, AllIds(evidence))>>,
         raws |-> raws, value |-> value]

PartialPackage(type, evidence, available, stage) ==
    PackageResult([type |-> type, available |-> available], evidence, "partial",
                  "evidence_incomplete", stage, {})

\* Binding to the request, reconstruction, and only then the request's inputs:
\* a partial result is returned before the inputs are compared.
AnalyzePackage(binding, raised, inputs, partial, complete, stage) ==
    LET refusal == FirstRefusal(binding)
    IN  IF refusal # NoRefusal THEN Failed(refusal)
        ELSE IF raised = "incomplete" THEN CheckedOrRaised(partial)
        ELSE IF raised # Quiet THEN Failed(<<"reconciliation_failed", stage>>)
        ELSE IF FirstRefusal(inputs) # NoRefusal THEN Failed(FirstRefusal(inputs))
        ELSE CheckedOrRaised(complete)
=============================================================================
