-------------------------------- MODULE Auth --------------------------------
(***************************************************************************)
(* The auth_consumption analyzer (src/scan_tool/slices/auth.py): one       *)
(* approval, the allowance at four blocks, and the transferFrom that       *)
(* consumed it.                                                            *)
(*                                                                         *)
(* tx is [id, hash, from, to, nonce, call]: id stands for every field that *)
(* a receipt repeats, call is [selector, args], args being shorter than    *)
(* expected when the ABI data is truncated (eth_abi raises DecodingError,  *)
(* an Exception that no handler here lists).  A log is [address, event,    *)
(* args, data, index]; data and a snapshot's result are <<n>> or <<>>.     *)
(***************************************************************************)
EXTENDS ResultContract

AuthSnapshotLabels ==
    {"before_approval", "after_approval", "before_consumption", "after_consumption"}

ExcludedNonces == {327, 328, 329}

\* Positions of the four source records.
AuthPublic == 1
AuthArchive == 2
AuthExplorer == 3
Metadata == 4

-----------------------------------------------------------------------------
AuthBindingError(request, replay) ==
    << <<~request.offline, "rule_restricted", "validate_replay">>,
       <<\/ request.chain # replay.chain
         \/ request.subject # replay.subject
         \/ request.token # replay.token
         \/ request.spender # replay.spender
         \/ request.approval # replay.approval.tx.hash
         \/ request.consumption # replay.consumption.tx.hash,
         "reconciliation_failed", "validate_replay">>,
       <<request.fixture \notin {Anything, replay.fixture},
         "reconciliation_failed", "validate_replay">>,
       <<~(ToSet(replay.sources) \subseteq request.allowed),
         "rule_restricted", "validate_replay">> >>

-----------------------------------------------------------------------------
(* Decoding.                                                               *)

CandidateLogs(logs, event, address) ==
    SelectSeq(logs, LAMBDA log : log.address = address /\ log.event = event)

ApprovalLogs(replay) ==
    CandidateLogs(replay.approval.receipt.logs, "Approval", replay.token)

TransferLogs(replay) ==
    CandidateLogs(replay.consumption.receipt.logs, "Transfer", replay.token)

DecodeCall(call, selector, n) ==
    << <<call.selector # selector, "decode_failed", "decode_auth">>,
       <<Len(call.args) < n, "DecodingError", "decode_auth">> >>

\* An event's two indexed addresses and its amount.
DecodeLog(logs) ==
    << <<Len(logs) = 1 /\ Len(logs[1].args) < 2, "IndexError", "decode_auth">>,
       <<Len(logs) = 1 /\ logs[1].data = <<>>, "DecodingError", "decode_auth">> >>

AuthDecodeSnapshot(s) ==
    << <<s.tag # s.block, "decode_failed", "decode_auth">>,
       <<s.result = <<>>, "DecodingError", "decode_auth">> >>

AuthDecodeReplay(replay) ==
    LET snapshots == replay.query.snapshots
        trace == replay.consumption.trace
    IN  << <<Len(ApprovalLogs(replay)) # 1, "decode_failed", "decode_auth">>,
           <<Len(TransferLogs(replay)) # 1, "decode_failed", "decode_auth">> >>
        \o DecodeCall(replay.approval.tx.call, "approve", 2)
        \o DecodeCall(replay.query.call, "allowance", 2)
        \o (IF trace = <<>> THEN <<>> ELSE DecodeCall(trace[1].call, "transferFrom", 3))
        \o FlattenSeq([i \in DOMAIN snapshots |-> AuthDecodeSnapshot(snapshots[i])])
        \o << <<~IsInjective([i \in DOMAIN snapshots |-> snapshots[i].label]),
                "decode_failed", "decode_auth">> >>
        \o DecodeLog(ApprovalLogs(replay)) \o DecodeLog(TransferLogs(replay))

ApprovalAmount(replay) == ApprovalLogs(replay)[1].data[1]

TransferAmount(replay) == TransferLogs(replay)[1].data[1]

AuthLabels(replay) == {s.label : s \in ToSet(replay.query.snapshots)}

Allowance(replay, label) ==
    (CHOOSE s \in ToSet(replay.query.snapshots) : s.label = label).result[1]

-----------------------------------------------------------------------------
(* Reconciliation: every disagreement between two pieces of evidence.      *)

AuthTransactionReceiptMatch(part) == part.tx.id = part.receipt.id /\ part.receipt.ok

ApprovalMismatches(replay) ==
    LET log == ApprovalLogs(replay)[1]
        tx == replay.approval.tx
    IN  {m \in {"approval_transaction_receipt", "approval_event_vs_call",
                "approval_transaction_identity"} :
           CASE m = "approval_transaction_receipt" -> ~AuthTransactionReceiptMatch(replay.approval)
             [] m = "approval_event_vs_call" ->
                    \/ <<log.args[1], log.args[2]>> # <<replay.subject, replay.spender>>
                    \/ tx.call.args # <<replay.spender, log.data[1]>>
             [] m = "approval_transaction_identity" ->
                    tx.from # replay.subject \/ tx.to # replay.token}

ConsumptionMismatches(replay) ==
    LET tx == replay.consumption.tx
    IN  {m \in {"consumption_transaction_receipt", "consumption_outer_call_identity",
                "allowance_query_identity", "allowance_token"} :
           CASE m = "consumption_transaction_receipt" ->
                    ~AuthTransactionReceiptMatch(replay.consumption)
             [] m = "consumption_outer_call_identity" ->
                    tx.from # replay.subject \/ tx.to # replay.spender
                      \/ tx.call.selector # "multicall"
             [] m = "allowance_query_identity" ->
                    replay.query.call.args # <<replay.subject, replay.spender>>
             [] m = "allowance_token" -> replay.query.to # replay.token}

\* Mutant of StateMismatches: the allowance need only suffice for the transfer.
StateMismatchesSufficient(request, replay) ==
    LET a(label) == Allowance(replay, label)
    IN  {s.label : s \in {x \in ToSet(replay.query.snapshots) :
                             x.block # request.blocks[x.label]}}
        \cup {m \in {"allowance_before_approval", "allowance_after_approval",
                     "allowance_before_consumption", "allowance_delta_vs_transfer"} :
                /\ AuthSnapshotLabels \subseteq AuthLabels(replay)
                /\ CASE m = "allowance_before_approval" -> a("before_approval") # 0
                     [] m = "allowance_after_approval" ->
                            a("after_approval") # ApprovalAmount(replay)
                     [] m = "allowance_before_consumption" ->
                            a("before_consumption") # a("after_approval")
                     [] m = "allowance_delta_vs_transfer" ->
                            a("before_consumption") < TransferAmount(replay)}

StateMismatches(request, replay) ==
    LET a(label) == Allowance(replay, label)
        delta == a("before_consumption") - a("after_consumption")
    IN  {s.label : s \in {x \in ToSet(replay.query.snapshots) :
                             x.block # request.blocks[x.label]}}
        \cup {m \in {"allowance_before_approval", "allowance_after_approval",
                     "allowance_before_consumption", "allowance_delta_vs_transfer"} :
                /\ AuthSnapshotLabels \subseteq AuthLabels(replay)
                /\ CASE m = "allowance_before_approval" -> a("before_approval") # 0
                     [] m = "allowance_after_approval" ->
                            a("after_approval") # ApprovalAmount(replay)
                     [] m = "allowance_before_consumption" ->
                            a("before_consumption") # a("after_approval")
                     [] m = "allowance_delta_vs_transfer" ->
                            delta < 0 \/ TransferAmount(replay) # delta}

TraceMismatches(replay) ==
    LET log == TransferLogs(replay)[1]
        trace == replay.consumption.trace[1]
    IN  {m \in {"transfer_from_trace_identity", "transfer_from_vs_event"} :
           /\ replay.consumption.trace # <<>>
           /\ CASE m = "transfer_from_trace_identity" ->
                       \/ trace.tx # replay.consumption.tx.hash
                       \/ trace.from # replay.spender
                       \/ trace.to # replay.token
                       \/ ~trace.output
                [] m = "transfer_from_vs_event" ->
                       trace.call.args # <<log.args[1], log.args[2], log.data[1]>>}

ExcludedAndExplorerMismatches(request, replay) ==
    LET excluded == ToSet(replay.excluded)
        cross == replay.explorer
    IN  {m \in {"excluded_transaction_set", "excluded_transaction_status",
                "excluded_transaction_nonce_set", "explorer_cross_check"} :
           CASE m = "excluded_transaction_set" ->
                    {r.hash : r \in excluded} # request.excluded
             [] m = "excluded_transaction_status" ->
                    \E r \in excluded : r.ok \/ r.from # replay.subject \/ r.to # replay.spender
             [] m = "excluded_transaction_nonce_set" ->
                    {r.nonce : r \in excluded} # ExcludedNonces
             [] m = "explorer_cross_check" ->
                    cross # [approval |-> replay.approval.tx.hash,
                             approvalNonce |-> replay.approval.tx.nonce,
                             consumption |-> replay.consumption.tx.hash,
                             consumptionNonce |-> replay.consumption.tx.nonce,
                             index |-> TransferLogs(replay)[1].index,
                             amount |-> TransferAmount(replay)]}

Mismatches(request, replay) ==
    ApprovalMismatches(replay) \cup ConsumptionMismatches(replay)
      \cup StateMismatches(request, replay) \cup TraceMismatches(replay)
      \cup ExcludedAndExplorerMismatches(request, replay)

-----------------------------------------------------------------------------
(* Evidence and results.                                                   *)

AuthEvidence(replay) ==
    LET ev(id, rec) == Evidence(replay.sources, id, rec)
        snapshots == replay.query.snapshots
    IN  <<ev(<<"APPROVAL-EVENT">>, AuthPublic), ev(<<"APPROVE-CALL">>, AuthPublic),
          ev(<<"OUTER-CALL">>, AuthPublic), ev(<<"TRANSFER-EVENT">>, AuthPublic)>>
        \o (IF replay.consumption.trace = <<>> THEN <<>>
            ELSE <<ev(<<"TRANSFER-FROM">>, AuthArchive)>>)
        \o [i \in DOMAIN snapshots |-> ev(<<"STATE", snapshots[i].label>>, AuthArchive)]
        \o [i \in DOMAIN replay.excluded |-> ev(<<"EXCLUDED", i>>, AuthPublic)]
        \o <<ev(<<"EXPLORER-CROSS-CHECK">>, AuthExplorer), ev(<<"SPENDER-METADATA">>, Metadata)>>

\* The approval always; the allowance with all snapshots; the consumption with
\* the trace as well; the attribution, which cites everything, always.
AuthConfirmedResults(allowance, consumption, evidence) ==
    <<[id |-> "approval", refs |-> <<<<"APPROVAL-EVENT">>, <<"APPROVE-CALL">>>>]>>
    \o (IF ~allowance THEN <<>>
        ELSE <<[id |-> "allowance",
                refs |-> SetToSeq({<<"STATE", label>> : label \in AuthSnapshotLabels})]>>)
    \o (IF ~consumption THEN <<>>
        ELSE <<[id |-> "consumption",
                refs |-> <<<<"OUTER-CALL">>, <<"TRANSFER-FROM">>, <<"TRANSFER-EVENT">>>>]>>)
    \o <<[id |-> "attribution_scope", refs |-> AllIds(evidence)]>>

AuthResult(replay, status, results, errors) ==
    LET evidence == AuthEvidence(replay)
        snapshots == ToSet(replay.query.snapshots)
    IN  CheckedOrRaised(
            [status |-> status, results |-> results, evidence |-> evidence,
             sources |-> AllSources(replay.sources), errors |-> errors,
             raws |-> {ApprovalAmount(replay), replay.approval.tx.call.args[2],
                       TransferAmount(replay), replay.explorer.amount}
                      \cup {s.result[1] : s \in snapshots},
             value |-> [from |-> TransferLogs(replay)[1].args[1],
                        amount |-> TransferAmount(replay)]])

AuthAnalyzeValidReplay(request, replay) ==
    LET evidence == AuthEvidence(replay)
        missing == AuthSnapshotLabels \ AuthLabels(replay)
        noTrace == replay.consumption.trace = <<>>
        errors == (IF missing = {} THEN <<>>
                   ELSE <<Error("archive_required", "collect_allowance",
                                <<<<"APPROVAL-EVENT">>, <<"APPROVE-CALL">>>>)>>)
                  \o (IF ~noTrace THEN <<>>
                      ELSE <<Error("trace_unavailable", "collect_trace",
                                   <<<<"TRANSFER-EVENT">>>>)>>)
    IN  IF Mismatches(request, replay) # {}
        THEN AuthResult(replay, "failed", <<>>,
                        <<Error("reconciliation_failed", "reconcile_authorization",
                                AllIds(evidence))>>)
        ELSE AuthResult(replay, IF errors = <<>> THEN "complete" ELSE "partial",
                        AuthConfirmedResults(missing = {}, missing = {} /\ ~noTrace, evidence),
                        errors)

AnalyzeAuthReplay(request, replay) ==
    LET refusal == FirstRefusal(AuthBindingError(request, replay) \o AuthDecodeReplay(replay))
    IN  IF refusal # NoRefusal THEN Refused(refusal) ELSE AuthAnalyzeValidReplay(request, replay)
=============================================================================
