--------------------------- MODULE BridgeTransfer ----------------------------
(***************************************************************************)
(* The bridge_transfer analyzer (src/scan_tool/slices/bridge_transfer.py   *)
(* and src/scan_tool/domain/bridge_transfer.py): the deposit event on one  *)
(* chain and the fill event on the other, each re-read from the artifacts  *)
(* of one provider, matched field by field.                                *)
(*                                                                         *)
(* A chain is [id, hash, tag, pool].  An observation is [chain, provider,  *)
(* artifacts, body]; a log is [index, address, tx, block, blockHash,       *)
(* removed, topic0, event], and an event is [data, deposit, inputToken,    *)
(* inputAmount, outputToken, outputAmount, otherChain, depositor,          *)
(* recipient, terms]: data is "ok", "truncated" or "malformed", otherChain *)
(* the indexed chain id, and terms the two deadlines, the exclusive        *)
(* relayer and the message.                                                *)
(***************************************************************************)
EXTENDS ReplayPackage

BridgeRequired == {"DS-EVM-RPC-ARCHIVE", "DS-BRIDGE-META"}
Capabilities == RpcCapabilities \o <<"bridge_logs">>

BridgeZeroAddress == "zero"
DefaultOutputToken == [token \in {"baseWeth"} |-> "mainnetWeth"]

-----------------------------------------------------------------------------
ParseBridgeTransferReplay(replay) ==
    /\ Len(replay.observations) \in 1 .. 2
    /\ IsInjective([i \in DOMAIN replay.observations |-> replay.observations[i].chain])

ObservedChains(replay) == {o.chain : o \in ToSet(replay.observations)}
BridgeOnChain(replay, name) == CHOOSE o \in ToSet(replay.observations) : o.chain = name

\* The position of the first receipt log with the event's log index, or 0.
ReceiptLog(body) == SelectInSeq(body.receipt.logs, LAMBDA l : l.index = body.logs[1].index)

EventIsBound(body, chain, topic0) ==
    LET log == body.logs[1]
    IN  /\ Len(body.logs) = 1
        /\ log.address = chain.pool
        /\ log.tx = chain.hash
        /\ log.block = chain.tag
        /\ log.blockHash = body.tx.blockHash
        /\ ~log.removed
        /\ log.topic0 = topic0
        /\ ReceiptLog(body) # 0
        /\ body.receipt.logs[ReceiptLog(body)] = log

\* The transaction calls the pool at the destination, the depositor (a smart
\* account) at the source.
Target(event, chain, isDestination) == IF isDestination THEN chain.pool ELSE event.depositor

DecodeChainEvent(pins, o, chain, topic0, isDestination) ==
    LET event == o.body.logs[1].event
    IN  Invalid(~IsPinned(pins, o.provider))
        && LoadPinnedArtifacts(o.artifacts, ProviderPin(pins, o.provider).sha, Capabilities)
        && Invalid(~LegIsBound(o.body, chain.hash, chain.tag))
        && Incomplete(o.body.logs = <<>>)
        && Invalid(~EventIsBound(o.body, chain, topic0))
        && Invalid(event.data = "malformed")
        && Incomplete(event.data = "truncated")
        && Invalid(o.body.tx.to # Target(event, chain, isDestination))

SourceEvent(replay) == BridgeOnChain(replay, "base").body.logs[1].event
DestinationEvent(replay) == BridgeOnChain(replay, "ethereum").body.logs[1].event

CommonParameters(e) ==
    <<e.deposit, e.inputToken, e.inputAmount, e.outputAmount, e.depositor, e.recipient, e.terms>>

MatchLegs(source, destination, replay) ==
    LET default == source.outputToken = BridgeZeroAddress
    IN  Invalid(CommonParameters(source) # CommonParameters(destination))
        && Invalid(source.otherChain # replay.ethereum.id)
        && Invalid(destination.otherChain # replay.base.id)
        && Incomplete(default /\ source.inputToken \notin DOMAIN DefaultOutputToken)
        && Invalid(destination.outputToken
                     # IF default THEN DefaultOutputToken[source.inputToken]
                       ELSE source.outputToken)
        && Invalid(source.inputAmount < destination.outputAmount)

ReconstructBridgeTransferFacts(package, replay) ==
    Incomplete(ObservedChains(replay) # {"base", "ethereum"})
    && LoadProviderPins(package.pins)
    && DecodeChainEvent(package.pins, BridgeOnChain(replay, "base"), replay.base,
                        "V3FundsDeposited", FALSE)
    && DecodeChainEvent(package.pins, BridgeOnChain(replay, "ethereum"), replay.ethereum,
                        "FilledV3Relay", TRUE)
    && MatchLegs(SourceEvent(replay), DestinationEvent(replay), replay)

BridgeFacts(replay) ==
    LET source == SourceEvent(replay)
        destination == DestinationEvent(replay)
    IN  [type |-> "bridge_transfer", deposit |-> source.deposit,
         depositor |-> source.depositor, recipient |-> source.recipient,
         asset |-> destination.outputToken, sent |-> source.inputAmount,
         received |-> destination.outputAmount,
         fee |-> source.inputAmount - destination.outputAmount]

-----------------------------------------------------------------------------
BridgeInputBindingError(request, replay) ==
    << <<request.origin # replay.base.id, "reconciliation_failed", "origin_chain_binding">>,
       <<request.destination # replay.ethereum.id,
         "reconciliation_failed", "destination_chain_binding">>,
       <<request.subject # SourceEvent(replay).depositor,
         "reconciliation_failed", "source_subject_binding">>,
       <<Differs(request.recipient, SourceEvent(replay).recipient),
         "reconciliation_failed", "recipient_binding">>,
       <<Differs(request.sourceTx, replay.base.hash),
         "reconciliation_failed", "source_transaction_binding">>,
       <<Differs(request.destinationTx, replay.ethereum.hash),
         "reconciliation_failed", "destination_transaction_binding">> >>

LegRecord(chain) == IF chain = "base" THEN "SRC-BRIDGE-BASE" ELSE "SRC-BRIDGE-ETHEREUM"
Meta(id) == Item(id, "SRC-BRIDGE-META", "DS-BRIDGE-META")

BridgeCompleteEvidence ==
    <<Item(<<"EV-BRIDGE-SOURCE-EVENT">>, LegRecord("base"), "DS-EVM-RPC-ARCHIVE"),
      Item(<<"EV-BRIDGE-DESTINATION-EVENT">>, LegRecord("ethereum"), "DS-EVM-RPC-ARCHIVE"),
      Meta(<<"EV-BRIDGE-OFFICIAL-CONTRACTS">>), Meta(<<"EV-BRIDGE-MATCHING-RULE">>)>>

BridgePartialEvidence(replay) ==
    [i \in DOMAIN replay.observations |->
        Item(<<"EV-BRIDGE-PARTIAL", i>>, LegRecord(replay.observations[i].chain),
             "DS-EVM-RPC-ARCHIVE")]

AnalyzeBridgeTransferReplay(request, package, replay) ==
    AnalyzePackage(
        ReplayBindingError(request, replay, ParseBridgeTransferReplay(replay), BridgeRequired),
        ReconstructBridgeTransferFacts(package, replay),
        BridgeInputBindingError(request, replay),
        PartialPackage("bridge_transfer", BridgePartialEvidence(replay), ObservedChains(replay),
                       "bridge_leg_availability"),
        PackageResult(BridgeFacts(replay), BridgeCompleteEvidence, "complete", "", "",
                      {BridgeFacts(replay).sent, BridgeFacts(replay).received}),
        "bridge_reconciliation")
=============================================================================
