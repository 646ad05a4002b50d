----------------------------- MODULE EvmSpecial -----------------------------
(***************************************************************************)
(* The evm_special analyzer (src/scan_tool/slices/evm_special.py): NFT     *)
(* activity of one subject at one token contract, and the last upgrade of  *)
(* an EIP-1967 proxy.                                                      *)
(*                                                                         *)
(* A log is [address, event, args, data, at, hash]: event stands for       *)
(* topics[0], args for the topics after it, data for the words of the      *)
(* data, and at for <<block, transaction index, log index>>.  A receipt is *)
(* [hash, block].  A replay's two completeness flags are one, complete.    *)
(* Reading a topic that is not there is an IndexError, which the           *)
(* analyzer's handlers do not list.                                        *)
(***************************************************************************)
EXTENDS ResultContract

SpecialZeroAddress == "zero"

-----------------------------------------------------------------------------
(* Helpers.                                                                *)

SpecialBindingError(request, replay) ==
    << <<~request.offline, "rule_restricted", "validate_replay">>,
       <<request.chain # replay.chain, "reconciliation_failed", "validate_replay">>,
       <<request.fixture \notin {Anything, replay.fixture},
         "reconciliation_failed", "validate_replay">>,
       <<request.query # replay.query, "reconciliation_failed", "validate_replay">>,
       <<~(ToSet(replay.sources) \subseteq request.allowed),
         "rule_restricted", "validate_replay">> >>

FindLogs(logs, event) == SelectSeq(logs, LAMBDA log : log.event = event)

LogBefore(a, b) ==
    \/ a.at[1] < b.at[1]
    \/ a.at[1] = b.at[1] /\ a.at[2] < b.at[2]
    \/ a.at[1] = b.at[1] /\ a.at[2] = b.at[2] /\ a.at[3] < b.at[3]

\* Mutant of InChainOrder: the logs stay in the order of the capture.
InCaptureOrder(logs) == logs

InChainOrder(logs) == SortSeq(logs, LogBefore)

\* _next_evidence_id: the n-th use of a base gets the suffix n.
Numbered(bases) ==
    [i \in DOMAIN bases |->
        <<bases[i], Cardinality({j \in 1 .. i : bases[j] = bases[i]})>>]

\* The failures of a loop over logs, in the order the loop meets them.
EachLog(logs, Checks(_)) == FlattenSeq([i \in DOMAIN logs |-> Checks(logs[i])])

Decode(bad) == <<bad, "decode_failed", "decode_evm_special">>

Reconcile(bad) == <<bad, "reconciliation_failed", "decode_evm_special">>

TopicMissing(log, n) == <<Len(log.args) < n, "IndexError", "topics">>

-----------------------------------------------------------------------------
(* nft_activity: what every standard requires of the replay.               *)

RequireSingleContract(logs, token) == Decode({log.address : log \in ToSet(logs)} # {token})

RequireUniqueReceipts(receipts) ==
    Decode(~IsInjective([i \in DOMAIN receipts |-> receipts[i].hash]))

RequireMatchingReceipt(logs, receipts) ==
    Reconcile(\E log \in ToSet(logs) :
                  ~\E r \in ToSet(receipts) : r.hash = log.hash /\ r.block = log.at[1])

RequireExactBlockWindows(windows, receipts) ==
    Reconcile(\/ \E w \in ToSet(windows) : w[1] # w[2]
              \/ ~IsInjective(windows)
              \/ {w[1] : w \in ToSet(windows)} # {r.block : r \in ToSet(receipts)})

NftChecks(request, replay) ==
    << Decode(request.hint \notin {"auto", replay.hint}),
       RequireSingleContract(replay.logs, request.token),
       RequireUniqueReceipts(replay.receipts),
       RequireMatchingReceipt(replay.logs, replay.receipts),
       RequireExactBlockWindows(replay.windows, replay.receipts) >>

NftResult(replay, value, raws, bases, second, status, stage) ==
    LET ids == Numbered(bases)
        evidence == [i \in DOMAIN bases |->
                        Evidence(replay.sources, ids[i], IF bases[i] = second THEN 2 ELSE 1)]
    IN  OneResult(replay.sources, value, raws, evidence, status, "source_unavailable", stage)

-----------------------------------------------------------------------------
(* ERC-721: every transfer of the subject and, when asked for, the         *)
(* operator approvals it gave and the approvals of the tokens it moved.    *)

RequireErc721Event(log, topics, emptyData) ==
    Decode(Len(log.args) # topics - 1 \/ (emptyData /\ log.data # <<>>))

SubjectTransfers721(request, logs) ==
    InChainOrder(SelectSeq(FindLogs(logs, "Transfer"),
                           LAMBDA log : request.subject \in {log.args[1], log.args[2]}))

MovedTokens(request, logs) == {log.args[3] : log \in ToSet(SubjectTransfers721(request, logs))}

\* Reads the owner of every ApprovalForAll, then the count of the subject's.
OperatorChecks721(request, logs) ==
    EachLog(FindLogs(logs, "ApprovalForAll"), LAMBDA log :
        <<TopicMissing(log, 1),
          IF log.args # <<>> /\ log.args[1] = request.subject
          THEN RequireErc721Event(log, 3, FALSE) ELSE Decode(FALSE)>>)

\* Reads the owner and, of the subject's, the token of every Approval.
TokenChecks721(request, logs) ==
    LET mine(log) == log.args # <<>> /\ log.args[1] = request.subject
        moved(log) == Len(log.args) >= 3 /\ log.args[3] \in MovedTokens(request, logs)
    IN  EachLog(FindLogs(logs, "Approval"), LAMBDA log :
            <<TopicMissing(log, IF mine(log) THEN 3 ELSE 1),
              IF mine(log) /\ moved(log) THEN RequireErc721Event(log, 4, TRUE)
              ELSE Decode(FALSE)>>)

OperatorLogs721(request, logs) ==
    InChainOrder(SelectSeq(FindLogs(logs, "ApprovalForAll"),
                           LAMBDA log : log.args[1] = request.subject))

TokenLogs721(request, logs) ==
    InChainOrder(SelectSeq(FindLogs(logs, "Approval"),
                           LAMBDA log : /\ log.args[1] = request.subject
                                        /\ log.args[3] \in MovedTokens(request, logs)))

DataBool(log) == log.data[1] # 0

Erc721(request, replay) ==
    LET logs == replay.logs
        transferChecks == EachLog(FindLogs(logs, "Transfer"),
                                  LAMBDA log : <<RequireErc721Event(log, 4, TRUE)>>)
        approvalChecks == OperatorChecks721(request, logs) \o TokenChecks721(request, logs)
        transfers == SubjectTransfers721(request, logs)
        operators == IF request.approvals THEN OperatorLogs721(request, logs) ELSE <<>>
        tokens == IF request.approvals THEN TokenLogs721(request, logs) ELSE <<>>
        missing == request.approvals /\ (operators = <<>> \/ tokens = <<>>)
        approvals ==
            [i \in DOMAIN operators |-> [at |-> operators[i].at, kind |-> "approval_for_all",
                                         set |-> DataBool(operators[i])]]
            \o [i \in DOMAIN tokens |-> [at |-> tokens[i].at, kind |-> "token_approval",
                                         set |-> tokens[i].args[2] # SpecialZeroAddress]]
        value == [type |-> "nft_activity",
                  movements |-> [i \in DOMAIN transfers |->
                      [at |-> transfers[i].at, from |-> transfers[i].args[1],
                       to |-> transfers[i].args[2], token |-> transfers[i].args[3]]],
                  approvals |-> SortSeq(approvals, LAMBDA a, b :
                      \/ a.at[1] < b.at[1]
                      \/ a.at[1] = b.at[1] /\ a.at[3] < b.at[3])]
        bases == [i \in DOMAIN transfers |-> "TRANSFER"]
                 \o [i \in DOMAIN operators |-> "OPERATOR-APPROVAL"]
                 \o [i \in DOMAIN tokens |-> "TOKEN-APPROVAL-RESET"]
        status == IF ~replay.complete \/ missing THEN "partial" ELSE "complete"
    IN  IF FirstRefusal(transferChecks) # NoRefusal THEN Refused(FirstRefusal(transferChecks))
        ELSE IF transfers = <<>> THEN Failed(<<"source_unavailable", "erc721_transfer_scan">>)
        ELSE IF request.approvals /\ FirstRefusal(approvalChecks) # NoRefusal
             THEN Refused(FirstRefusal(approvalChecks))
        ELSE IF \E log \in ToSet(operators) : log.data = <<>>
             THEN Failed(<<"decode_failed", "decode_evm_special">>)
        ELSE NftResult(replay, value, MovedTokens(request, logs), bases,
                       "TOKEN-APPROVAL-RESET", status, "erc721_approval_scope")

-----------------------------------------------------------------------------
(* ERC-1155: the last single transfer of the subject, with its approvals,  *)
(* and the one batch.                                                      *)

Erc1155Checks(request, logs) ==
    EachLog(FindLogs(logs, "TransferSingle"), LAMBDA log : <<Decode(Len(log.args) # 3)>>)
    \o EachLog(FindLogs(logs, "ApprovalForAll"), LAMBDA log : <<TopicMissing(log, 1)>>)
    \o EachLog(FindLogs(logs, "TransferBatch"), LAMBDA log : <<Decode(Len(log.args) # 3)>>)

OfSubject1155(request, logs, event) ==
    SelectSeq(FindLogs(logs, event), LAMBDA log : request.subject \in {log.args[2], log.args[3]})

\* Words read of each selected log, and the batch's two arrays.
Erc1155DataChecks(request, singles, owned, batches) ==
    EachLog(singles, LAMBDA log : <<Decode(Len(log.data) < 2)>>)
    \o (IF request.approvals /\ singles # <<>>
        THEN EachLog(owned, LAMBDA log : <<Decode(Len(log.data) < 1)>>)
             \o EachLog(owned, LAMBDA log : <<TopicMissing(log, 2)>>)
        ELSE <<>>)
    \o EachLog(batches, LAMBDA log :
           <<Decode(Len(log.data) # 2 \/ Len(log.data[1]) # Len(log.data[2]))>>)

Erc1155(request, replay) ==
    LET logs == replay.logs
        refusal == FirstRefusal(Erc1155Checks(request, logs))
        singles == InChainOrder(OfSubject1155(request, logs, "TransferSingle"))
        owned == InChainOrder(SelectSeq(FindLogs(logs, "ApprovalForAll"),
                                        LAMBDA log : log.args[1] = request.subject))
        batches == OfSubject1155(request, logs, "TransferBatch")
        dataRefusal == FirstRefusal(Erc1155DataChecks(request, singles, owned, batches))
        shown == IF request.approvals /\ singles # <<>> THEN owned ELSE <<>>
        value == [type |-> "nft_activity",
                  single |-> IF singles = <<>> THEN <<>>
                             ELSE <<Last(singles).at, Last(singles).args[2],
                                    Last(singles).data>>,
                  transitions |-> [i \in DOMAIN shown |-> DataBool(shown[i])],
                  batch |-> IF batches = <<>> THEN <<>> ELSE batches[1].data]
        raws == UNION {ToSet(log.data) : log \in ToSet(singles)}
                \cup UNION {ToSet(log.data[1]) \cup ToSet(log.data[2]) : log \in ToSet(batches)}
        bases == [i \in DOMAIN singles |->
                     IF i = Len(singles) THEN "SINGLE-OUT" ELSE "SINGLE-IN"]
                 \o [i \in DOMAIN shown |->
                        IF DataBool(shown[i]) THEN "APPROVAL-TRUE" ELSE "APPROVAL-FALSE"]
                 \o [i \in DOMAIN batches |-> "BATCH"]
    IN  IF refusal # NoRefusal THEN Refused(refusal)
        ELSE IF Len(batches) > 1 THEN Failed(<<"decode_failed", "decode_evm_special">>)
        ELSE IF singles = <<>> /\ batches = <<>>
             THEN Failed(<<"source_unavailable", "erc1155_transfer_scan">>)
        ELSE IF dataRefusal # NoRefusal THEN Refused(dataRefusal)
        ELSE NftResult(replay, value, raws, bases, "BATCH",
                       IF replay.complete THEN "complete" ELSE "partial",
                       "erc1155_case_scope")

-----------------------------------------------------------------------------
(* proxy_history: the Upgraded event of the proxy against the storage      *)
(* slots just before and just after it.                                    *)

\* snapshots = {item.role: item}: of two snapshots of a role the last is kept.
Snapshot(replay, role) ==
    LET of == SelectSeq(replay.snapshots, LAMBDA s : s.role = role)
    IN  IF of = <<>> THEN <<>> ELSE <<Last(of)>>

UpgradedLogs(request, replay) ==
    SelectSeq(FindLogs(replay.logs, "Upgraded"), LAMBDA log : log.address = request.proxy)

AtSlot(s, slot, block) == s[1].slot = slot /\ s[1].block = block

ProxyChecks(request, replay, upgraded) ==
    LET block == upgraded.at[1]
        after == Snapshot(replay, "implementation_after")
        before == Snapshot(replay, "implementation_before")
        adminAfter == Snapshot(replay, "admin_after")
        adminBefore == Snapshot(replay, "admin_before")
    IN  << Decode(Len(upgraded.args) # 1),
           Reconcile(replay.receipt # [hash |-> upgraded.hash, block |-> block]),
           Reconcile(after # <<>> /\ ~AtSlot(after, "implementation", block)),
           Reconcile(after # <<>> /\ upgraded.args # <<>> /\ after[1].word # upgraded.args[1]),
           Reconcile(after # <<>> /\ before # <<>>
                       /\ ~AtSlot(before, "implementation", block - 1)),
           Reconcile(request.admin /\ adminAfter # <<>> /\ adminBefore # <<>>
                       /\ ~(/\ AtSlot(adminAfter, "admin", block)
                            /\ AtSlot(adminBefore, "admin", block - 1))) >>

ProxyHistory(request, replay) ==
    LET logs == UpgradedLogs(request, replay)
        upgraded == logs[1]
        after == Snapshot(replay, "implementation_after")
        before == Snapshot(replay, "implementation_before")
        adminAfter == Snapshot(replay, "admin_after")
        adminBefore == Snapshot(replay, "admin_before")
        refusal == FirstRefusal(ProxyChecks(request, replay, upgraded))
        hasAdmin == request.admin /\ adminAfter # <<>> /\ adminBefore # <<>>
        missing == after = <<>> \/ before = <<>>
        value == [type |-> "proxy_history", at |-> upgraded.at,
                  event |-> upgraded.args[1], after |-> after,
                  before |-> IF after = <<>> THEN <<>> ELSE before,
                  admin |-> IF hasAdmin THEN adminBefore \o adminAfter ELSE <<>>]
        evidence == <<Evidence(replay.sources, "UPGRADED", 1)>>
            \o (IF after = <<>> THEN <<>>
                ELSE <<Evidence(replay.sources, "IMPLEMENTATION-AFTER", 1)>>)
            \o (IF after = <<>> \/ before = <<>> THEN <<>>
                ELSE <<Evidence(replay.sources, "IMPLEMENTATION-BEFORE", 1)>>)
            \o (IF ~hasAdmin THEN <<>>
                ELSE <<Evidence(replay.sources, "ADMIN-BEFORE", 1),
                       Evidence(replay.sources, "ADMIN-AFTER", 2)>>)
        partial == ~replay.complete \/ missing \/ (request.admin /\ ~hasAdmin)
    IN  IF Len(logs) > 1 THEN Failed(<<"reconciliation_failed", "decode_evm_special">>)
        ELSE IF logs = <<>> THEN Failed(<<"source_unavailable", "proxy_event_scan">>)
        ELSE IF refusal # NoRefusal THEN Failed(refusal)
        ELSE OneResult(replay.sources, value, {}, evidence,
                       IF partial THEN "partial" ELSE "complete",
                       "archive_required", "proxy_historical_slot")

-----------------------------------------------------------------------------
AnalyzeEvmSpecialReplay(request, replay) ==
    LET binding == FirstRefusal(SpecialBindingError(request, replay))
        nft == FirstRefusal(NftChecks(request, replay))
    IN  IF binding # NoRefusal THEN Failed(binding)
        ELSE Checked(
            CASE request.query = "proxy_history" -> ProxyHistory(request, replay)
              [] request.query = "nft_activity" ->
                    IF nft # NoRefusal THEN Failed(nft)
                    ELSE IF replay.hint = "erc721" THEN Erc721(request, replay)
                    ELSE Erc1155(request, replay),
            "decode_evm_special")
=============================================================================
