------------------------------- MODULE EvmCore -------------------------------
(***************************************************************************)
(* The four evm_core queries (src/scan_tool/slices/evm_core.py): object    *)
(* summary, historical balance, first token transfer, native inflow.  A    *)
(* ValueError of a query, the contract's own included, is a decode_failed  *)
(* result.                                                                 *)
(*                                                                         *)
(* Hex words are <<n>>, or <<>> for "0x", which int(_, 16) refuses.  A     *)
(* value to classify is [form, v] with form number, address, badaddress    *)
(* (42 characters that are no address) or text.                            *)
(***************************************************************************)
EXTENDS ResultContract

Undecodable == <<"decode_failed", "decode_evm_core">>

CoreBindingError(request, replay) ==
    << <<~request.offline, "rule_restricted", "validate_replay">>,
       <<request.query # replay.query \/ request.chain # replay.chain,
         "reconciliation_failed", "validate_replay">>,
       <<request.fixture \notin {Anything, replay.fixture},
         "reconciliation_failed", "validate_replay">>,
       <<~(ToSet(replay.sources) \subseteq request.allowed),
         "rule_restricted", "validate_replay">> >>

\* The n-th evidence item of one base name gets the n-th identifier of it.
NextEvidenceId(bases, i) ==
    <<bases[i], Cardinality({j \in 1 .. i : bases[j] = bases[i]})>>

\* The last entry of a sequence that satisfies Test, as a dict comprehension keeps it.
LastOf(s, Test(_)) == s[Max({i \in DOMAIN s : Test(s[i])})]

CoreResult(replay, value, raws, evidence, missing, code, stage, related) ==
    Checked([OneResult(replay.sources, value, raws, evidence,
                       IF missing THEN "partial" ELSE "complete", code, stage)
             EXCEPT !.errors = IF missing THEN <<Error(code, stage, related)>> ELSE <<>>],
            "decode_evm_core")

-----------------------------------------------------------------------------
(* object_summary                                                          *)

ObjectsBound(request, replay) ==
    /\ replay.tx.id = replay.receipt.id
    /\ replay.block.hash = replay.tx.blockHash
    /\ replay.block.number = replay.tx.blockNumber
    /\ replay.block.number = request.block
    /\ \A c \in ToSet(replay.codes) : c.block = request.block
    /\ \A x \in ToSet(request.values) : x.form # "badaddress"

Classification(replay, x) ==
    LET known == \E c \in ToSet(replay.codes) : c.address = x.v
    IN  CASE x.form = "number" -> <<"block_number">>
          [] x.form = "address" ->
                 IF ~known THEN <<"address">>
                 ELSE <<"address", IF LastOf(replay.codes, LAMBDA c : c.address = x.v).code = <<>>
                                   THEN "eoa" ELSE "contract">>
          [] x.form = "text" ->
                 CASE x.v = replay.tx.hash -> <<"transaction_hash">>
                   [] x.v = replay.block.hash /\ x.v # replay.tx.hash -> <<"block_hash">>
                   [] OTHER -> <<"invalid">>

ObjectEvidence(replay) ==
    LET bases == [i \in DOMAIN replay.codes |->
                    IF replay.codes[i].code = <<>> THEN "EOA-CODE" ELSE "CONTRACT-CODE"]
    IN  <<Evidence(replay.sources, <<"TX", 1>>, 1), Evidence(replay.sources, <<"RECEIPT", 1>>, 1),
          Evidence(replay.sources, <<"BLOCK", 1>>, 1)>>
        \o [i \in DOMAIN bases |-> Evidence(replay.sources, NextEvidenceId(bases, i), i + 1)]

ObjectSummary(request, replay) ==
    LET evidence == ObjectEvidence(replay)
        objects == [i \in DOMAIN request.values |-> Classification(replay, request.values[i])]
    IN  IF ~ObjectsBound(request, replay) THEN Failed(Undecodable)
        ELSE CoreResult(replay,
                        [type |-> "object_summary", objects |-> objects,
                         fee |-> IF request.fee
                                 THEN <<replay.receipt.gasUsed * replay.receipt.gasPrice>>
                                 ELSE <<>>],
                        {}, evidence, <<"address">> \in ToSet(objects),
                        "source_unavailable", "historical_code", AllIds(evidence))

-----------------------------------------------------------------------------
(* historical_balance                                                      *)

Tokens(request) == SelectSeq(request.assets, LAMBDA a : a.type = "erc20")

\* The asset's state in the replay, <<>> when it was not captured.
StateOf(replay, asset) ==
    LET same(s) == s.token = asset.token
    IN  IF \E s \in ToSet(replay.states) : same(s) THEN <<LastOf(replay.states, same)>> ELSE <<>>

CoreCaptured(request, replay) ==
    SelectSeq(Tokens(request), LAMBDA a : StateOf(replay, a) # <<>>)

BalanceEvidence(request, replay, native) ==
    LET captured == CoreCaptured(request, replay)
        symbols == [i \in DOMAIN captured |-> captured[i].symbol]
        item(id) == Evidence(replay.sources, id, 1)
    IN  <<item(<<"BLOCK", 1>>)>>
        \o (IF native = <<>> THEN <<>> ELSE <<item(<<"ETH", 1>>)>>)
        \o FlattenSeq([i \in DOMAIN symbols |->
             LET id == NextEvidenceId(symbols, i)
             IN  <<item(<<id[1], "BALANCE", id[2]>>), item(<<id[1], "DECIMALS", id[2]>>)>>])

HistoricalBalance(request, replay) ==
    LET native == SelectSeq(request.assets, LAMBDA a : a.type = "native")
        captured == CoreCaptured(request, replay)
        states == [i \in DOMAIN captured |-> StateOf(replay, captured[i])[1]]
        evidence == BalanceEvidence(request, replay, native)
        balances == (IF native = <<>> THEN <<>> ELSE <<<<native[1].symbol, replay.native>>>>)
                    \o [i \in DOMAIN states |-> <<captured[i].symbol, states[i].balance[1]>>]
    IN  IF \/ replay.subject # request.subject
           \/ replay.block.number # request.block
           \/ replay.block.timestamp # request.timestamp
           \/ \E s \in ToSet(states) : s.balance = <<>> \/ s.decimals = <<>>
        THEN Failed(Undecodable)
        ELSE CoreResult(replay, [type |-> "historical_balance", balances |-> balances],
                        {balances[i][2] : i \in DOMAIN balances}, evidence,
                        Len(captured) < Len(Tokens(request)),
                        "archive_required", "historical_token_state", AllIds(evidence))

-----------------------------------------------------------------------------
(* first_token_transfer.  A log's at is <<block, transaction, log index>>.  *)

TransferCandidate(request, log) ==
    /\ log.address = request.token
    /\ log.event = "Transfer"
    /\ Len(log.args) >= 2
    /\ log.args[1] = request.subject
    /\ log.at[1] >= request.start

Earlier(a, b) ==
    \/ a[1] < b[1]
    \/ a[1] = b[1] /\ a[2] < b[2]
    \/ a[1] = b[1] /\ a[2] = b[2] /\ a[3] < b[3]

\* The sort is stable: of logs with the same key the first captured is first.
FirstMatch(request, replay) ==
    LET logs == replay.logs
        matches == {i \in DOMAIN logs : TransferCandidate(request, logs[i]) /\ logs[i].data[1] > 0}
        first == {i \in matches : \A j \in matches \ {i} :
                    Earlier(logs[i].at, logs[j].at) \/ (logs[i].at = logs[j].at /\ i < j)}
    IN  IF matches = {} THEN <<>> ELSE <<logs[CHOOSE i \in first : TRUE]>>

FirstTokenTransfer(request, replay) ==
    LET undecodable == \E log \in ToSet(replay.logs) :
                           TransferCandidate(request, log) /\ log.data = <<>>
        match == FirstMatch(request, replay)
        evidence == <<Evidence(replay.sources, <<"RANGE">>, 1),
                      Evidence(replay.sources, <<"TRANSFER">>, 1)>>
    IN  IF replay.start # request.start \/ replay.end < request.start \/ undecodable
        THEN Failed(Undecodable)
        ELSE IF match = <<>> THEN Failed(<<"source_unavailable", "transfer_log_scan">>)
        ELSE CoreResult(replay, [type |-> "first_token_transfer", log |-> match[1],
                                 rangeComplete |-> replay.complete],
                        {match[1].data[1]}, evidence, ~replay.complete,
                        "evidence_incomplete", "range_pagination", <<<<"TRANSFER">>>>)

-----------------------------------------------------------------------------
(* native_inflow                                                           *)

InflowCalls(request, replay) ==
    LET pays(c) == c.tx = request.hash /\ c.to = request.interest /\ c.value > 0
    IN  Kept(replay.calls, {i \in DOMAIN replay.calls : pays(replay.calls[i])})

NativeInflow(request, replay) ==
    LET calls == InflowCalls(request, replay)
        evidence == <<Evidence(replay.sources, <<"INTERNAL-TX">>, 1)>>
                    \o [i \in DOMAIN calls |-> Evidence(replay.sources, <<"INTERNAL-ETH", i>>, 1)]
    IN  IF replay.tx.hash # request.hash THEN Failed(Undecodable)
        ELSE CoreResult(replay, [type |-> "native_inflow", topLevel |-> replay.tx.value,
                                 inflow |-> SumFunction([i \in DOMAIN calls |-> calls[i].value]),
                                 count |-> Len(calls)],
                        {c.value : c \in ToSet(calls)}, evidence, ~replay.complete,
                        "trace_unavailable", "internal_call_trace", <<<<"INTERNAL-TX">>>>)

-----------------------------------------------------------------------------
AnalyzeEvmCoreReplay(request, replay) ==
    LET refusal == FirstRefusal(CoreBindingError(request, replay))
    IN  IF refusal # NoRefusal THEN Failed(refusal)
        ELSE CASE replay.query = "object_summary" -> ObjectSummary(request, replay)
               [] replay.query = "historical_balance" -> HistoricalBalance(request, replay)
               [] replay.query = "first_token_transfer" -> FirstTokenTransfer(request, replay)
               [] replay.query = "native_inflow" -> NativeInflow(request, replay)
=============================================================================
