------------------------------ MODULE MixerFlow ------------------------------
(***************************************************************************)
(* The mixer_flow analyzer (src/scan_tool/slices/mixer_flow.py and         *)
(* src/scan_tool/domain/mixer_flow.py): one deposit into a pool and the    *)
(* withdrawals that are candidates for it, each event re-read from the     *)
(* artifacts of two fixed providers whose capture is recorded in           *)
(* capture-meta.json.                                                      *)
(*                                                                         *)
(* An event reference is [kind, hash, block, tag]; an observation is       *)
(* [index, role, provider, artifacts, body], and body.receipt.logs holds   *)
(* the pool's logs as [kind, who, note, fee]: note is the leaf index of a  *)
(* deposit and the nullifier of a withdrawal, who its recipient and        *)
(* relayer.  A provider pin also has order, the events in the order its    *)
(* sha lists them.  meta is [file, envelope, entries]: envelope says that  *)
(* the endpoints and the capture time match, entries is the set of the     *)
(* [role, provider, endpoint, capability, about, sha] that were recorded   *)
(* as captured in time by the right method.                                *)
(***************************************************************************)
EXTENDS ReplayPackage

MixerRequired == {"DS-EVM-RPC-ARCHIVE", "DS-SANCTIONS-PUBLIC"}

Denomination == 1           \* of a note of the pool, in units of 10^17 wei

RequiredProvider == [PRIMARY |-> "PUBLICNODE", VERIFY |-> "MERKLE"]
RequiredEndpoint == [PRIMARY |-> "publicnode", VERIFY |-> "merkle"]

-----------------------------------------------------------------------------
ParseMixerFlowReplay(replay) ==
    /\ replay.window[1] <= replay.window[2]
    /\ ObservationsMatch(replay.observations, Len(replay.events))
    /\ replay.events[1].kind = "deposit"

PinOfRole(pins, role) == CHOOSE p \in ToSet(pins.providers) : p.role = role

ProvidersAreFixed(pins) ==
    \A p \in ToSet(pins.providers) :
        p.id = RequiredProvider[p.role] /\ p.endpoint = RequiredEndpoint[p.role]

\* The pins of one event are known for both providers and differ.
PinsDiffer(primary, verify, i) ==
    Incomplete(i \notin DOMAIN verify)
    && Invalid(\E c \in ToSet(RpcCapabilities) : primary[i][c] = verify[i][c])

MixerValidateProviderDiversity(pins) ==
    LET primary == PinOfRole(pins, "PRIMARY")
        verify == PinOfRole(pins, "VERIFY")
    IN  Incomplete(Len(pins.providers) # 2)
        && Incomplete(Roles(pins) # {"PRIMARY", "VERIFY"})
        && Invalid(~ProvidersAreFixed(pins))
        && FirstRaised(LAMBDA i : PinsDiffer(primary.sha, verify.sha, i), primary.order)

RejectFutureCaptureTimestamps(replay, pins) ==
    Invalid(replay.late \/ \E p \in ToSet(pins.providers) : p.late)

\* What one capability of an observation must have been recorded as.
CaptureEntry(o, event, sha, capability) ==
    [role |-> o.role, provider |-> o.provider, endpoint |-> RequiredEndpoint[o.role],
     capability |-> capability,
     about |-> IF capability = "block" THEN [block |-> event.tag] ELSE [tx |-> event.hash],
     sha |-> sha[capability]]

BindObservation(o, pins, replay, meta) ==
    LET sha == ProviderPin(pins, o.provider).sha
    IN  Invalid(~IsPinned(pins, o.provider))
        && Invalid(o.provider # RequiredProvider[o.role])
        && Incomplete(o.index \notin DOMAIN sha)
        && FirstRaised(
               LAMBDA c : Incomplete(sha[o.index][c] = Missing)
                          && Invalid(CaptureEntry(o, replay.events[o.index], sha[o.index], c)
                                        \notin meta.entries),
               RpcCapabilities)

BindCaptureMeta(package, replay) ==
    Incomplete(package.meta.file = "missing")
    && Invalid(~package.meta.envelope)
    && FirstRaised(LAMBDA o : BindObservation(o, package.pins, replay, package.meta),
                   replay.observations)

-----------------------------------------------------------------------------
MixerInWindow(replay, event) == replay.window[1] <= event.block /\ event.block <= replay.window[2]

\* The position of the first log of the kind, 0 when there is none.
PoolLog(o, kind) == SelectInSeq(o.body.receipt.logs, LAMBDA l : l.kind = kind)

EventBound(o, event, replay) ==
    /\ LegIsBound(o.body, event.hash, event.tag)
    /\ MixerInWindow(replay, event)
    /\ PoolLog(o, event.kind) # 0
    /\ event.kind = "deposit" =>
           o.body.tx.from = replay.subject /\ o.body.tx.value = Denomination

DecodeMixerEvent(pins, o, replay) ==
    LET sha == ProviderPin(pins, o.provider).sha
    IN  Invalid(~RoleIsPinned(pins, o))
        && LoadPinnedArtifacts(o.artifacts, sha[o.index], RpcCapabilities)
        && Invalid(~EventBound(o, replay.events[o.index], replay))

\* What is kept of a log: the leaf of a deposit, all of a withdrawal.
Told(kind, log) ==
    IF kind = "deposit" THEN [leaf |-> log.note]
    ELSE [who |-> log.who, nullifier |-> log.note, fee |-> log.fee]

\* A withdrawal's amount is the denomination, whatever was paid out.
DecodedEvent(o, replay) ==
    LET event == replay.events[o.index]
    IN  [kind |-> event.kind, hash |-> event.hash, block |-> event.block,
         position |-> o.body.tx.index,
         router |-> IF event.kind = "deposit" THEN o.body.tx.to ELSE Missing,
         amount |-> Denomination,
         log |-> Told(event.kind, o.body.receipt.logs[PoolLog(o, event.kind)])]

MixerFact(replay, role, i) == DecodedEvent(ObservationOf(replay.observations, role, i), replay)

MixerLoadLabelAssertions(label, pool) ==
    Incomplete(label.file = "missing")
    && Invalid(label.file = "malformed")
    && Invalid(pool \notin label.listed)

Withdrawals(replay) == {i \in DOMAIN replay.events : replay.events[i].kind = "withdraw"}

ReconstructMixerFlowFacts(package, replay) ==
    LET n == Len(replay.events)
    IN  LoadUniqueProviderPins(package.pins)
        && MixerValidateProviderDiversity(package.pins)
        && RejectFutureCaptureTimestamps(replay, package.pins)
        && BindCaptureMeta(package, replay)
        && FirstRaisedByItem(LAMBDA o : DecodeMixerEvent(package.pins, o, replay),
                             replay.observations)
        && Incomplete(IndexedRoles(replay.observations, "VERIFY") # 1 .. n)
        && Invalid(\E i \in 1 .. n : MixerFact(replay, "PRIMARY", i) # MixerFact(replay, "VERIFY", i))
        && Incomplete(Withdrawals(replay) = {})
        && MixerLoadLabelAssertions(package.label, replay.pool)

\* The candidates in the order of their events: each under its event's number.
MixerFacts(replay) ==
    LET facts == [i \in DOMAIN replay.events |-> MixerFact(replay, "PRIMARY", i)]
    IN  [type |-> "mixer_flow", subject |-> replay.subject, pool |-> replay.pool,
         deposit |-> facts[1],
         candidates |-> [i \in Withdrawals(replay) |-> facts[i]]]

-----------------------------------------------------------------------------
MixerInputBindingError(request, replay) ==
    << <<request.subject # replay.subject, "reconciliation_failed", "subject_binding">>,
       <<request.pool # replay.pool, "reconciliation_failed", "pool_binding">>,
       <<request.window[1] # replay.window[1],
         "reconciliation_failed", "window_start_binding">>,
       <<request.window[2] # replay.window[2],
         "reconciliation_failed", "window_end_binding">> >>

MixerEthereum(id) == Item(id, "SRC-MIX-ETHEREUM", "DS-EVM-RPC-ARCHIVE")

MixerCompleteEvidence(replay) ==
    [i \in DOMAIN replay.events |-> MixerEthereum(<<"EV-MIX-EVT", i>>)]
    \o <<MixerEthereum(<<"EV-MIX-CANDIDATES">>),
         Item(<<"EV-MIX-LABEL">>, "SRC-MIX-SANCTIONS", "DS-SANCTIONS-PUBLIC")>>

MixerPartialEvidence(replay) ==
    [i \in DOMAIN replay.observations |-> MixerEthereum(<<"EV-MIX-PARTIAL", i>>)]

AnalyzeMixerFlowReplay(request, package, replay) ==
    AnalyzePackage(
        ReplayBindingError(request, replay, ParseMixerFlowReplay(replay), MixerRequired),
        ReconstructMixerFlowFacts(package, replay),
        MixerInputBindingError(request, replay),
        PartialPackage("mixer_flow", MixerPartialEvidence(replay), Len(replay.observations),
                       "mixer_event_availability"),
        PackageResult(MixerFacts(replay), MixerCompleteEvidence(replay), "complete", "", "", {}),
        "mixer_reconciliation")
=============================================================================
