----------------------------- MODULE BitcoinUtxo -----------------------------
(***************************************************************************)
(* The bitcoin_utxo analyzer (src/scan_tool/slices/bitcoin_utxo.py and the *)
(* replay contract in src/scan_tool/domain/bitcoin_utxo.py): one           *)
(* transaction, the path of transactions that spend its outputs, and for   *)
(* each the stored answers of two or three providers.                      *)
(*                                                                         *)
(* An input is [txid, vout, value, address]; an output [vout, value,       *)
(* address, script].  A provider is [id, role, sha, body]: body is <<>>    *)
(* when the artifact is missing, altered or malformed, else <<b>> with b = *)
(* [txid, block, fee, vin, vout], where vout entries are [n, value,        *)
(* address, script]: address is None for an output without one, and script *)
(* "other" is a type the node's names are not mapped for.  block stands    *)
(* for height, hash and time together.  Values are in satoshis, but those  *)
(* of the node (role primary), which answers in BTC, are in SubSatoshi     *)
(* parts of one.  A value of the node that is no number, which raises what *)
(* the analyzer's handlers do not list, is outside the model.              *)
(***************************************************************************)
EXTENDS ResultContract

None == "none"

SubSatoshi == 10            \* the parts of a satoshi the node's values are told in

BitcoinRequired == {"DS-BTC-NODE", "DS-BTC-API"}

-----------------------------------------------------------------------------
(* The replay contract.                                                    *)

ProviderOfRole ==
    [primary |-> "publicnode.bitcoin", verify |-> "mempool.space",
     supporting |-> "blockstream.info"]

ValidateProviderObservations(providers) ==
    LET ofRole(role) == {i \in DOMAIN providers : providers[i].role = role}
    IN  /\ Cardinality({p.id : p \in ToSet(providers)}) = Len(providers)
        /\ Cardinality(ofRole("primary")) = 1
        /\ Cardinality(ofRole("verify")) = 1
        /\ Cardinality(ofRole("supporting")) <= 1
        /\ \A p \in ToSet(providers) : p.id = ProviderOfRole[p.role]
        /\ \A i \in ofRole("primary"), j \in ofRole("verify") :
               providers[i].sha # providers[j].sha

Values(s) == [i \in DOMAIN s |-> s[i].value]

Total(s) == SumFunction(Values(s))

TransactionIsReconciled(tx) ==
    /\ \A i \in DOMAIN tx.outputs : tx.outputs[i].vout = i - 1
    /\ IsInjective([i \in DOMAIN tx.inputs |-> <<tx.inputs[i].txid, tx.inputs[i].vout>>])
    /\ Total(tx.inputs) - Total(tx.outputs) = tx.fee
    /\ ValidateProviderObservations(tx.providers)

\* The transaction a hop spends from: the one before it on the path.
BitcoinBefore(replay, i) ==
    IF i = 1 THEN [txid |-> replay.tx.txid, outputs |-> replay.tx.outputs]
    ELSE [txid |-> replay.path[i - 1].spendingTx, outputs |-> replay.path[i - 1].created]

ReplayBindingsAreExact(replay) ==
    \A i \in DOMAIN replay.path :
        LET hop == replay.path[i]
            spent == {k \in DOMAIN BitcoinBefore(replay, i).outputs :
                        BitcoinBefore(replay, i).outputs[k].vout = hop.spentVout}
        IN  /\ hop.depth = i
            /\ hop.spentTx = BitcoinBefore(replay, i).txid
            /\ spent # {}
            /\ BitcoinBefore(replay, i).outputs[Min(spent)].value = hop.value
            /\ ValidateProviderObservations(hop.providers)

BitcoinParseReplay(replay) == TransactionIsReconciled(replay.tx) /\ ReplayBindingsAreExact(replay)

-----------------------------------------------------------------------------
BitcoinBindingError(request, replay) ==
    << <<~BitcoinParseReplay(replay), "decode_failed", "decode_replay">>,
       <<~request.offline, "rule_restricted", "rule_check">>,
       <<request.fixture \notin {Anything, replay.fixture}, "reconciliation_failed", "fixture">>,
       <<request.txid # replay.tx.txid, "reconciliation_failed", "txid">>,
       <<\A o \in ToSet(replay.tx.outputs) : o.vout # request.startVout,
         "invalid_input", "start_outpoint">>,
       <<~(BitcoinRequired \subseteq request.allowed), "rule_restricted", "source">>,
       <<ToSet(replay.sources) # request.allowed, "rule_restricted", "source_binding">> >>

-----------------------------------------------------------------------------
(* Artifacts: what each provider answered, projected to what the replay    *)
(* says, for the transaction and for every hop.                            *)

Body(providers, role) ==
    LET p == CHOOSE p \in ToSet(providers) : p.role = role IN p.body

HasRole(providers, role) == \E p \in ToSet(providers) : p.role = role

Readable(providers) ==
    \A p \in ToSet(providers) :
        p.body # <<>> /\ \A o \in ToSet(p.body[1].vout) : o.address # None

\* REST answers number their outputs by position, the node's by name.
RestOutputs(b) == [i \in DOMAIN b.vout |-> [vout |-> i - 1, value |-> b.vout[i].value,
                                            address |-> b.vout[i].address,
                                            script |-> b.vout[i].script]]

\* int(Decimal * 10^8): what is less than a satoshi is cut off.
Satoshis(amount) == amount \div SubSatoshi

NodeOutputs(b) == [i \in DOMAIN b.vout |-> [vout |-> b.vout[i].n,
                                            value |-> Satoshis(b.vout[i].value),
                                            address |-> b.vout[i].address,
                                            script |-> b.vout[i].script]]

RestTransactionProjection(b) ==
    [txid |-> b.txid, block |-> b.block, fee |-> b.fee, inputs |-> b.vin,
     outputs |-> RestOutputs(b)]

ReplayTransactionProjection(tx) ==
    [txid |-> tx.txid, block |-> tx.block, fee |-> tx.fee, inputs |-> tx.inputs,
     outputs |-> tx.outputs]

PublicnodeProjection(txid, block, inputs, outputs) ==
    [txid |-> txid, block |-> block,
     inputs |-> [i \in DOMAIN inputs |-> <<inputs[i].txid, inputs[i].vout>>],
     outputs |-> [i \in DOMAIN outputs |->
                    <<outputs[i].vout, outputs[i].value, outputs[i].address>>]]

\* Mutant of RootAgrees: the supporting answer is not looked at.
RootAgreesWithoutSupport(tx) ==
    LET node == Body(tx.providers, "primary")[1]
        rest == RestTransactionProjection(Body(tx.providers, "verify")[1])
    IN  /\ rest = ReplayTransactionProjection(tx)
        /\ PublicnodeProjection(node.txid, node.block, node.vin, NodeOutputs(node))
             = PublicnodeProjection(tx.txid, tx.block, tx.inputs, tx.outputs)

RootAgrees(tx) ==
    LET node == Body(tx.providers, "primary")[1]
        rest == RestTransactionProjection(Body(tx.providers, "verify")[1])
    IN  /\ HasRole(tx.providers, "supporting") =>
               rest = RestTransactionProjection(Body(tx.providers, "supporting")[1])
        /\ rest = ReplayTransactionProjection(tx)
        /\ PublicnodeProjection(node.txid, node.block, node.vin, NodeOutputs(node))
             = PublicnodeProjection(tx.txid, tx.block, tx.inputs, tx.outputs)

\* Where a body spends the hop's outpoint; the analysis needs exactly one.
Spends(b, hop) ==
    {i \in DOMAIN b.vin : b.vin[i].txid = hop.spentTx /\ b.vin[i].vout = hop.spentVout}

RestHopProjection(b, hop) ==
    LET at == CHOOSE i \in Spends(b, hop) : TRUE
    IN  [value |-> b.vin[at].value, spendingTx |-> b.txid, spendingVin |-> at - 1,
         block |-> b.block, fee |-> b.fee, created |-> RestOutputs(b)]

ReplayHopProjection(hop) ==
    [value |-> hop.value, spendingTx |-> hop.spendingTx, spendingVin |-> hop.spendingVin,
     block |-> hop.block, fee |-> hop.fee, created |-> hop.created]

\* The node does not give the value of what is spent: it is looked up among the
\* outputs of the root transaction, and the fee is that value less the outputs.
RootOutputs(replay, hop) ==
    {o \in ToSet(replay.tx.outputs) : replay.tx.txid = hop.spentTx /\ o.vout = hop.spentVout}

PublicnodeHopProjection(b, replay, hop) ==
    LET at == CHOOSE i \in Spends(b, hop) : TRUE
        value == (CHOOSE o \in RootOutputs(replay, hop) : TRUE).value
    IN  [value |-> value, spendingTx |-> b.txid, spendingVin |-> at - 1,
         fee |-> value - Total(NodeOutputs(b)), created |-> NodeOutputs(b)]

HopComparable(p) ==
    [value |-> p.value, spendingTx |-> p.spendingTx, spendingVin |-> p.spendingVin,
     fee |-> p.fee, created |-> p.created]

HopAgrees(replay, hop) ==
    LET node == Body(hop.providers, "primary")[1]
        verify == Body(hop.providers, "verify")[1]
        uniquely(b) == Cardinality(Spends(b, hop)) = 1
    IN  /\ uniquely(node)
        /\ RootOutputs(replay, hop) # {}
        /\ \A o \in ToSet(node.vout) : o.script # "other"
        /\ uniquely(verify)
        /\ HopComparable(PublicnodeHopProjection(node, replay, hop))
             = HopComparable(RestHopProjection(verify, hop))
        /\ HasRole(hop.providers, "supporting") =>
               LET supporting == Body(hop.providers, "supporting")[1]
               IN  /\ uniquely(supporting)
                   /\ RestHopProjection(verify, hop) = RestHopProjection(supporting, hop)
        /\ RestHopProjection(verify, hop) = ReplayHopProjection(hop)

\* The chain of the artifacts; they equal the replay, whose chain is checked.
ValidateArtifactPath(replay) ==
    \A i \in DOMAIN replay.path :
        LET hop == replay.path[i]
            spent == SelectSeq(BitcoinBefore(replay, i).outputs, LAMBDA o : o.vout = hop.spentVout)
        IN  hop.spentTx = BitcoinBefore(replay, i).txid /\ Len(spent) = 1 /\ spent[1].value = hop.value

ArtifactError(replay) ==
    ~ /\ Readable(replay.tx.providers)
      /\ RootAgrees(replay.tx)
      /\ \A hop \in ToSet(replay.path) : Readable(hop.providers) /\ HopAgrees(replay, hop)
      /\ ValidateArtifactPath(replay)

-----------------------------------------------------------------------------
(* Facts and heuristics.                                                   *)

SelectedHops(replay, startVout, maxHops) ==
    SelectSeq(replay.path,
              LAMBDA h : h.depth <= maxHops /\ (h.depth > 1 \/ h.spentVout = startVout))

ReconstructBitcoinFacts(replay, startVout, maxHops) ==
    LET path == SelectedHops(replay, startVout, maxHops)
    IN  [type |-> "bitcoin_utxo_summary", inputSum |-> Total(replay.tx.inputs),
         outputSum |-> Total(replay.tx.outputs),
         fee |-> Total(replay.tx.inputs) - Total(replay.tx.outputs), path |-> path,
         frontier |-> IF path = <<>> THEN {}
                      ELSE {<<path[Len(path)].spendingTx, o.vout, o.value>> :
                               o \in ToSet(path[Len(path)].created)}]

EqualGroup(outputs, value) == {i \in DOMAIN outputs : outputs[i].value = value}

AssessBitcoinHeuristics(tx) ==
    LET values == {o.value : o \in ToSet(tx.outputs)}
        groups == {v \in values : Cardinality(EqualGroup(tx.outputs, v)) >= 2}
    IN  [change |-> {o.vout : o \in {x \in ToSet(tx.outputs) :
                        \E i \in ToSet(tx.inputs) : i.address = x.address}},
         groups |-> groups,
         coinjoin |-> /\ Len(tx.inputs) >= 3
                      /\ \E v \in groups : Cardinality(EqualGroup(tx.outputs, v)) >= 3]

-----------------------------------------------------------------------------
(* Evidence and result: one item and one source record per provider.       *)

SourceOf(provider) == IF provider.role = "primary" THEN "DS-BTC-NODE" ELSE "DS-BTC-API"

UtxoEvidence(replay) ==
    LET item(id, p) == [id |-> id, rec |-> id, src |-> SourceOf(p)]
    IN  [i \in DOMAIN replay.tx.providers |-> item(<<"TX", i>>, replay.tx.providers[i])]
        \o FlattenSeq([h \in DOMAIN replay.path |->
             [i \in DOMAIN replay.path[h].providers |->
                item(<<"HOP", h, i>>, replay.path[h].providers[i])]])

UtxoResult(request, replay) ==
    LET evidence == UtxoEvidence(replay)
        partial == replay.path = <<>>
        result(id) == [id |-> id, refs |-> AllIds(evidence)]
        facts == ReconstructBitcoinFacts(replay, request.startVout, request.maxHops)
    IN  CheckedOrRaised(
            [status |-> IF partial THEN "partial" ELSE "complete",
             results |-> <<result("bitcoin_utxo_summary")>>
                         \o (IF request.query # "assess_heuristics" THEN <<>>
                             ELSE <<result("bitcoin_heuristic_assessment")>>),
             evidence |-> evidence,
             sources |-> [i \in DOMAIN evidence |-> [id |-> evidence[i].rec, src |-> evidence[i].src]],
             errors |-> IF partial THEN <<Error("evidence_incomplete", "spend_path", <<>>)>>
                        ELSE <<>>,
             raws |-> {},
             value |-> [facts |-> facts, heuristics |-> AssessBitcoinHeuristics(replay.tx)]])

AnalyzeBitcoinUtxoReplay(request, replay) ==
    LET refusal == FirstRefusal(BitcoinBindingError(request, replay))
    IN  IF refusal # NoRefusal THEN Failed(refusal)
        ELSE IF ArtifactError(replay)
        THEN Failed(<<"reconciliation_failed", "artifact_reconciliation">>)
        ELSE UtxoResult(request, replay)
=============================================================================
