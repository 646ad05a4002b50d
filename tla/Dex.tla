-------------------------------- MODULE Dex --------------------------------
(***************************************************************************)
(* The dex_swap analyzer (src/scan_tool/slices/dex.py): one single-hop     *)
(* swap whose token transfers, Swap event, WETH withdrawal and native call *)
(* must tell the same amounts.                                             *)
(*                                                                         *)
(* tx and receipt carry id for every field that the two repeat.  A log is  *)
(* [address, event, args, data, bound]: bound says it names the replayed   *)
(* transaction and block, data is the sequence of its decoded words, short *)
(* when the data bytes are.  A call is [from, to, value, bound].           *)
(***************************************************************************)
EXTENDS ResultContract

\* Positions of the three source records.
ReceiptSource == 1
MetadataSource == 2
CallSource == 3

-----------------------------------------------------------------------------
RequiredSources(replay) ==
    {replay.sources[ReceiptSource], replay.sources[MetadataSource]}
      \cup (IF replay.calls = <<>> THEN {} ELSE {replay.sources[CallSource]})

DexBindingError(request, replay) ==
    << <<~request.offline, "rule_restricted", "validate_replay">>,
       <<request.hash # replay.tx.hash, "reconciliation_failed", "validate_replay">>,
       <<request.fixture \notin {Anything, replay.fixture},
         "reconciliation_failed", "validate_replay">>,
       <<~(RequiredSources(replay) \subseteq request.allowed),
         "rule_restricted", "validate_replay">>,
       <<\/ replay.chain # request.chain
         \/ ~replay.receipt.ok
         \/ replay.tx.id # replay.receipt.id,
         "reconciliation_failed", "validate_replay">> >>

-----------------------------------------------------------------------------
(* Decoding.  A required log is named by its contract, its event and the   *)
(* addresses its first topics must hold; it must be found exactly once.    *)

Candidates(replay, event, address, topics) ==
    LET logs == replay.receipt.logs
    IN  Kept(logs, {i \in DOMAIN logs :
                      /\ logs[i].address = address /\ logs[i].event = event /\ logs[i].bound
                      /\ IsPrefix(topics, logs[i].args)})

OneLog(replay, event, address, topics) ==
    LET short(k) == \E log \in ToSet(Candidates(replay, event, address,
                                                SubSeq(topics, 1, k - 1))) :
                        Len(log.args) < k
    IN  << <<\E k \in DOMAIN topics : short(k), "IndexError", "decode_logs">>,
           <<Len(Candidates(replay, event, address, topics)) # 1,
             "decode_failed", "decode_logs">> >>

RequiredLog(replay, name) ==
    LET meta == replay.metadata
    IN  CASE name = "transfer_in" -> <<"Transfer", meta.assetIn, <<replay.tx.from, meta.pair>>>>
          [] name = "transfer_out" -> <<"Transfer", meta.poolOutput, <<meta.pair, meta.router>>>>
          [] name = "swap" -> <<"Swap", meta.pair, <<>>>>
          [] name = "withdrawal" -> <<"Withdrawal", meta.poolOutput, <<meta.router>>>>

LogNames == <<"transfer_in", "transfer_out", "swap", "withdrawal">>

LogsNamed(replay, name) ==
    LET l == RequiredLog(replay, name) IN Candidates(replay, l[1], l[2], l[3])

Words(replay, name) == LogsNamed(replay, name)[1].data

\* The four logs in turn, then the ABI words of each.
DexDecodeReplay(replay) ==
    FlattenSeq([i \in DOMAIN LogNames |->
                  LET l == RequiredLog(replay, LogNames[i]) IN OneLog(replay, l[1], l[2], l[3])])
    \o [i \in DOMAIN LogNames |->
          LET name == LogNames[i]
          IN  <</\ LogsNamed(replay, name) # <<>>
                /\ Len(Words(replay, name)) < (IF name = "swap" THEN 4 ELSE 1),
                "DecodingError", "decode_logs">>]

-----------------------------------------------------------------------------
(* Reconciliation.                                                         *)

MatchingInternalCalls(replay) ==
    LET calls == replay.calls
    IN  Kept(calls, {i \in DOMAIN calls : /\ calls[i].from = replay.metadata.router
                                          /\ calls[i].to = replay.tx.from /\ calls[i].bound})

ReconciliationMismatches(replay) ==
    LET swap == Words(replay, "swap")
        out == Words(replay, "transfer_out")[1]
    IN  {m \in {"asset_in_transfer_vs_swap", "pool_output_transfer_vs_swap",
                "pool_output_vs_withdrawal", "unexpected_swap_legs", "factory_pair_identity"} :
           CASE m = "asset_in_transfer_vs_swap" -> Words(replay, "transfer_in")[1] # swap[1]
             [] m = "pool_output_transfer_vs_swap" -> out # swap[4]
             [] m = "pool_output_vs_withdrawal" -> out # Words(replay, "withdrawal")[1]
             [] m = "unexpected_swap_legs" -> swap[2] # 0 \/ swap[3] # 0
             [] m = "factory_pair_identity" -> replay.metadata.historicalPair # replay.metadata.pair}

\* Mutant of CallMismatches: the call's value is not compared with the withdrawal.
CallMismatchesAmbiguityOnly(replay) ==
    {m \in {"ambiguous_internal_native_output"} : Len(MatchingInternalCalls(replay)) > 1}

CallMismatches(replay) ==
    LET calls == MatchingInternalCalls(replay)
    IN  {m \in {"ambiguous_internal_native_output", "internal_native_output"} :
           CASE m = "ambiguous_internal_native_output" -> Len(calls) > 1
             [] m = "internal_native_output" ->
                    Len(calls) = 1 /\ calls[1].value # Words(replay, "withdrawal")[1]}

-----------------------------------------------------------------------------
(* Evidence and results.                                                   *)

DexEvidence(replay) ==
    [i \in DOMAIN LogNames |-> Evidence(replay.sources, LogNames[i], ReceiptSource)]
    \o <<Evidence(replay.sources, "metadata", MetadataSource)>>
    \o (IF Len(MatchingInternalCalls(replay)) # 1 THEN <<>>
        ELSE <<Evidence(replay.sources, "internal_eth", CallSource)>>)

DexConfirmedResults(includeUserOutput) ==
    <<[id |-> "asset_in", refs |-> <<"transfer_in", "swap">>],
      [id |-> "pool_output", refs |-> <<"transfer_out", "swap", "metadata">>]>>
    \o (IF ~includeUserOutput THEN <<>>
        ELSE <<[id |-> "user_net_output", refs |-> <<"withdrawal", "internal_eth">>]>>)

DexResult(replay, status, results, errors) ==
    LET evidence == DexEvidence(replay)
        calls == MatchingInternalCalls(replay)
    IN  CheckedOrRaised(
            [status |-> status, results |-> results, evidence |-> evidence,
             sources |-> SourceRecords(replay.sources, evidence), errors |-> errors,
             raws |-> UNION {ToSet(Words(replay, LogNames[i])) : i \in DOMAIN LogNames}
                      \cup (IF Len(calls) = 1 THEN {calls[1].value} ELSE {}),
             value |-> [assetIn |-> Words(replay, "transfer_in")[1],
                        poolOutput |-> Words(replay, "transfer_out")[1],
                        userOutput |-> IF Len(calls) = 1 THEN <<calls[1].value>> ELSE <<>>]])

\* A historical pair too short to be an address is refused while it is compared.
DexAnalyzeValidReplay(replay) ==
    LET hasCall == Len(MatchingInternalCalls(replay)) = 1
    IN  IF replay.metadata.historicalPair = "short" THEN Raised("ValueError")
        ELSE IF ReconciliationMismatches(replay) \cup CallMismatches(replay) # {}
        THEN DexResult(replay, "failed", <<>>,
                       <<Error("reconciliation_failed", "reconcile_swap",
                               AllIds(DexEvidence(replay)))>>)
        ELSE DexResult(replay, IF hasCall THEN "complete" ELSE "partial",
                       DexConfirmedResults(hasCall),
                       IF hasCall THEN <<>>
                       ELSE <<Error("trace_unavailable", "collect_internal_calls",
                                    <<"withdrawal">>)>>)

AnalyzeDexReplay(request, replay) ==
    LET refusal == FirstRefusal(DexBindingError(request, replay) \o DexDecodeReplay(replay))
    IN  IF refusal # NoRefusal THEN Refused(refusal) ELSE DexAnalyzeValidReplay(replay)
=============================================================================
