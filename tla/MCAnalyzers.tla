----------------------------- MODULE MCAnalyzers -----------------------------
(***************************************************************************)
(* The thirteen analyzers over the inputs of MCPackageInputs,              *)
(* MCReplayInputs and MCContextInputs, which say what was wrong with them. *)
(***************************************************************************)
EXTENDS Analyzers, MCPackageInputs, MCReplayInputs, MCContextInputs

\* TLC joins small sets to large ones faster than the other way round.
MCInputs(kind) ==
    CASE kind = "flow_path" -> AggregateInputs \cup (RemergeInputs \cup PathInputs)
      [] kind = "auth" -> AuthInputs
      [] kind = "dex" -> DexInputs
      [] kind = "freeze" -> FreezeInputs
      [] kind = "evm_core" -> ObjectInputs \cup BalanceInputs \cup TransferInputs \cup InflowInputs
      [] kind = "evm_special" ->
             ProxyInputs \cup NftInputs("erc721", NftLists(Logs721, 3))
                         \cup NftInputs("erc1155", NftLists(Logs1155, 3))
      [] kind = "bitcoin_utxo" -> BtcInputs
      [] kind = "intel_context" -> IntelInputs
      [] kind = "cex_cluster" -> CexInputs
      [] kind = "mixer_flow" -> MixInputs
      [] kind = "defi_lending" -> LendInputs
      [] kind = "bridge_transfer" -> BridgeInputs
      [] kind = "case_reconciliation" -> CaseInputs

-----------------------------------------------------------------------------
AnyGap == Gaps \cup AuthGaps \cup DexGaps \cup FreezeGaps \cup ProxyGaps \cup BtcGaps

Enumerated == {<<"amounts", "-">>}

\* The best result there is: two analyzers never claim to be complete.
Best(i) ==
    IF \/ i.kind = "case_reconciliation"
       \/ i.kind = "intel_context" /\ i.replay.query = "find_common_funder"
    THEN "partial" ELSE "complete"

\* No fault is masked, also not by another one (every _reconcile, _binding_error
\* and _decode of the slices): a result is the best one exactly when nothing is
\* missing and nothing contradicts; what is only missing gives a partial result,
\* and a contradiction without a gap never gives one.  What the code does not look
\* at is no fault: a slot or a bridge pin that a later one of the same name
\* replaces, a liquidation log of another transaction, what is less than a satoshi.
FaultsShow ==
    /\ result # Pending
    /\ input.kind \notin {"flow_path", "evm_core"}
    /\ input.kind = "evm_special" => input.request.query = "proxy_history"
    /\ input.faults # Enumerated
    => /\ result.status = Best(input) <=> input.faults = {}
       /\ input.faults # {} /\ input.faults \subseteq AnyGap => result.status = "partial"
       /\ input.faults # {} /\ input.faults \cap AnyGap = {} =>
              result.status \in {"failed", "raised"}
=============================================================================
