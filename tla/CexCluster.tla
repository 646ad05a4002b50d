----------------------------- MODULE CexCluster ------------------------------
(***************************************************************************)
(* The cex_cluster analyzer (src/scan_tool/slices/cex_cluster.py and       *)
(* src/scan_tool/domain/cex_cluster.py): native transfers from deposit     *)
(* candidates to one hot wallet, each re-read from the artifacts of two    *)
(* providers, and a sanctions label for every source.                      *)
(*                                                                         *)
(* A transfer is [source, hash, block, tag]: block is the declared number  *)
(* and tag the one the artifacts are bound to.  An observation is [index,  *)
(* role, provider, artifacts, body]; body is what the three artifacts say  *)
(* when they can be read.                                                  *)
(***************************************************************************)
EXTENDS ReplayPackage

CexRequired == {"DS-EVM-RPC-ARCHIVE", "DS-SANCTIONS-PUBLIC"}

-----------------------------------------------------------------------------
ParseCexClusterReplay(replay) ==
    /\ replay.window[1] <= replay.window[2]
    /\ ObservationsMatch(replay.observations, Len(replay.transfers))

CexValidateProviderDiversity(pins) ==
    Incomplete(Len(pins.providers) # 2)
    && Incomplete(Roles(pins) # {"PRIMARY", "VERIFY"})
    && Invalid(Cardinality(Endpoints(pins)) # 2)

CexInWindow(replay, transfer) ==
    replay.window[1] <= transfer.block /\ transfer.block <= replay.window[2]

NativeTransferBound(o, transfer, replay) ==
    /\ LegIsBound(o.body, transfer.hash, transfer.tag)
    /\ o.body.tx.from = transfer.source
    /\ o.body.tx.to = replay.hotWallet
    /\ o.body.receipt.from = transfer.source
    /\ o.body.receipt.to = replay.hotWallet
    /\ CexInWindow(replay, transfer)

DecodeNativeTransfer(pins, o, replay) ==
    LET transfer == replay.transfers[o.index]
        sha == ProviderPin(pins, o.provider).sha
    IN  Invalid(~RoleIsPinned(pins, o))
        && Incomplete(o.index \notin DOMAIN sha)
        && LoadPinnedArtifacts(o.artifacts, sha[o.index], RpcCapabilities)
        && Invalid(~NativeTransferBound(o, transfer, replay))

\* The fact read from an observation; the rest of it is the transfer's own.
DecodedTransfer(o, replay) ==
    [source |-> replay.transfers[o.index].source, amount |-> o.body.tx.value,
     block |-> replay.transfers[o.index].block, hash |-> replay.transfers[o.index].hash,
     position |-> o.body.tx.index]

CexFact(replay, role, i) == DecodedTransfer(ObservationOf(replay.observations, role, i), replay)

Sources(replay) == {t.source : t \in ToSet(replay.transfers)}

CexLoadLabelAssertions(label, sources) ==
    Incomplete(label.file = "missing")
    && Invalid(label.file = "malformed")
    && Invalid(~(sources \subseteq label.listed))

\* Mutant of ReconstructCexClusterFacts: the two providers are not compared.
ReconstructFactsUnverified(package, replay) ==
    LET n == Len(replay.transfers)
    IN  LoadUniqueProviderPins(package.pins)
        && CexValidateProviderDiversity(package.pins)
        && FirstRaisedByItem(LAMBDA o : DecodeNativeTransfer(package.pins, o, replay),
                             replay.observations)
        && Incomplete(IndexedRoles(replay.observations, "VERIFY") # 1 .. n)
        && Invalid(Cardinality(Sources(replay)) < 2)
        && Invalid(~(Sources(replay) \subseteq replay.deposits))
        && CexLoadLabelAssertions(package.label, Sources(replay))

ReconstructCexClusterFacts(package, replay) ==
    LET n == Len(replay.transfers)
    IN  LoadUniqueProviderPins(package.pins)
        && CexValidateProviderDiversity(package.pins)
        && FirstRaisedByItem(LAMBDA o : DecodeNativeTransfer(package.pins, o, replay),
                             replay.observations)
        && Incomplete(IndexedRoles(replay.observations, "VERIFY") # 1 .. n)
        && Invalid(\E i \in 1 .. n : CexFact(replay, "PRIMARY", i) # CexFact(replay, "VERIFY", i))
        && Invalid(Cardinality(Sources(replay)) < 2)
        && Invalid(~(Sources(replay) \subseteq replay.deposits))
        && CexLoadLabelAssertions(package.label, Sources(replay))

CexFacts(replay) ==
    LET facts == [i \in DOMAIN replay.transfers |-> CexFact(replay, "PRIMARY", i)]
        blocks == {t.block : t \in ToSet(replay.transfers)}
    IN  [type |-> "cex_cluster", hotWallet |-> replay.hotWallet,
         sourceCount |-> Cardinality(Sources(replay)),
         total |-> SumFunction([i \in DOMAIN facts |-> facts[i].amount]), transfers |-> facts,
         span |-> Max(blocks) - Min(blocks)]

-----------------------------------------------------------------------------
CexInputBindingError(request, replay) ==
    << <<request.deposits # replay.deposits, "reconciliation_failed", "deposit_binding">>,
       <<request.window[1] # replay.window[1],
         "reconciliation_failed", "window_start_binding">>,
       <<request.window[2] # replay.window[2], "reconciliation_failed", "window_end_binding">>,
       <<Differs(request.hotWallet, replay.hotWallet),
         "reconciliation_failed", "hot_wallet_binding">> >>

CexEthereum(id) == Item(id, "SRC-CEX-ETHEREUM", "DS-EVM-RPC-ARCHIVE")

CexCompleteEvidence(replay) ==
    [i \in DOMAIN replay.transfers |-> CexEthereum(<<"EV-CEX-OUT", i>>)]
    \o <<CexEthereum(<<"EV-CEX-COMMON">>),
         Item(<<"EV-CEX-LABEL">>, "SRC-CEX-SANCTIONS", "DS-SANCTIONS-PUBLIC"),
         CexEthereum(<<"EV-CEX-PAT">>)>>

CexPartialEvidence(replay) ==
    [i \in DOMAIN replay.observations |-> CexEthereum(<<"EV-CEX-PARTIAL", i>>)]

AnalyzeCexClusterReplay(request, package, replay) ==
    AnalyzePackage(
        ReplayBindingError(request, replay, ParseCexClusterReplay(replay), CexRequired),
        ReconstructCexClusterFacts(package, replay),
        CexInputBindingError(request, replay),
        PartialPackage("cex_cluster", CexPartialEvidence(replay), Len(replay.observations),
                       "cex_transfer_availability"),
        PackageResult(CexFacts(replay), CexCompleteEvidence(replay), "complete", "", "", {}),
        "cex_reconciliation")
=============================================================================
