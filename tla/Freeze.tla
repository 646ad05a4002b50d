------------------------------- MODULE Freeze -------------------------------
(***************************************************************************)
(* The freeze_lifecycle analyzer (src/scan_tool/slices/freeze.py): a       *)
(* blacklist transaction, the unBlacklist that may follow it, isBlacklisted*)
(* at four blocks, and the official context around them.                   *)
(*                                                                         *)
(* A part (blacklist or unblacklist) is [tx, receipt]; tx is [id, hash,    *)
(* from, to, call] with call = [selector, args], receipt [id, block, ok,   *)
(* logs]; a log is [address, event, args, index].  unblacklist is <<>> or  *)
(* <<part>>.  A context is [name, source, specific, listed].               *)
(***************************************************************************)
EXTENDS ResultContract

FreezeSnapshotLabels ==
    {"before_blacklist", "after_blacklist", "before_unblacklist", "after_unblacklist"}

CircleContexts == {"circle_response", "circle_terms", "circle_contract"}
OfacContexts == {"ofac_designation", "ofac_removal"}

\* Positions of the five source records.
FreezeArchive == 1
FreezeExplorer == 2
Issuer == 3
FreezeSanctions == 4
FreezePublic == 5

-----------------------------------------------------------------------------
\* The captured parts, the blacklist first.
Parts(replay) == <<replay.blacklist>> \o replay.unblacklist

PartHashes(replay) == [i \in DOMAIN Parts(replay) |-> Parts(replay)[i].tx.hash]

FreezeBindingError(request, replay) ==
    << <<request.restricted \/ ~request.offline, "rule_restricted", "validate_replay">>,
       <<\/ request.chain # replay.chain
         \/ request.token # replay.token
         \/ request.target # replay.target
         \/ ~IsPrefix(PartHashes(replay), request.hashes),
         "reconciliation_failed", "validate_replay">>,
       <<request.fixture \notin {Anything, replay.fixture},
         "reconciliation_failed", "validate_replay">>,
       <<~(ToSet(replay.sources) \subseteq request.allowed),
         "rule_restricted", "validate_replay">>,
       <<~(request.contexts \subseteq {c.url : c \in ToSet(replay.contexts)}),
         "reconciliation_failed", "validate_replay">> >>

-----------------------------------------------------------------------------
(* Decoding.                                                               *)

PartEvent == <<"Blacklisted", "UnBlacklisted">>
PartSelector == <<"blacklist", "unBlacklist">>

PartLogs(replay, i) ==
    SelectSeq(Parts(replay)[i].receipt.logs,
              LAMBDA log : log.address = replay.token /\ log.event = PartEvent[i])

DecodeTarget(call, selector) ==
    << <<call.selector # selector, "decode_failed", "decode_freeze">>,
       <<call.args = <<>>, "DecodingError", "decode_freeze">> >>

FreezeDecodeSnapshot(s) ==
    << <<s.tag # s.block, "decode_failed", "decode_freeze">>,
       <<s.result = <<>>, "DecodingError", "decode_freeze">> >>

FreezeDecodeReplay(replay) ==
    LET snapshots == replay.query.snapshots
    IN  FlattenSeq([i \in DOMAIN Parts(replay) |->
            << <<Len(PartLogs(replay, i)) # 1, "decode_failed", "decode_freeze">> >>
            \o DecodeTarget(Parts(replay)[i].tx.call, PartSelector[i])])
        \o DecodeTarget(replay.query.call, "isBlacklisted")
        \o FlattenSeq([i \in DOMAIN snapshots |-> FreezeDecodeSnapshot(snapshots[i])])
        \o << <<~IsInjective([i \in DOMAIN snapshots |-> snapshots[i].label]),
                "decode_failed", "decode_freeze">> >>
        \o [i \in DOMAIN Parts(replay) |->
              <<Len(PartLogs(replay, i)) = 1 /\ PartLogs(replay, i)[1].args = <<>>,
                "IndexError", "decode_freeze">>]

FreezeLabels(replay) == {s.label : s \in ToSet(replay.query.snapshots)}

-----------------------------------------------------------------------------
(* Reconciliation.                                                         *)

FreezeTransactionReceiptMatch(part) == part.tx.id = part.receipt.id

CallEventIdentity(replay, i) ==
    LET part == Parts(replay)[i]
    IN  /\ part.receipt.ok
        /\ part.tx.to = replay.token
        /\ part.tx.call.args[1] = replay.target
        /\ PartLogs(replay, i)[1].args[1] = replay.target

PartsReconcile(replay) ==
    \A i \in DOMAIN Parts(replay) :
        FreezeTransactionReceiptMatch(Parts(replay)[i]) /\ CallEventIdentity(replay, i)

QueryReconciles(replay) ==
    replay.query.call.args = <<replay.target>> /\ replay.query.to = replay.token

StatesReconcile(request, replay) ==
    \A s \in ToSet(replay.query.snapshots) :
        /\ s.block = request.blocks[s.label]
        /\ s.result[1] = (s.label \in {"after_blacklist", "before_unblacklist"})

\* The last context of a name is the one that is looked at.
ContextsReconcile(replay) ==
    LET all == replay.contexts
        Named(n) == all[Max({i \in DOMAIN all : all[i].name = n})]
    IN  /\ {c.name : c \in ToSet(all)} = CircleContexts \cup OfacContexts
        /\ \A n \in CircleContexts : ~Named(n).specific
        /\ \A n \in OfacContexts : Named(n).specific /\ Named(n).listed
        /\ replay.interface.pinned

ExplorerAgrees(replay) ==
    LET cross == ToSet(replay.explorer)
    IN  /\ {c.method : c \in cross} = {PartSelector[i] : i \in DOMAIN Parts(replay)}
        /\ \A c \in cross, i \in DOMAIN Parts(replay) :
               LET tx == Parts(replay)[i].tx
               IN  c.method = PartSelector[i] =>
                       c = [method |-> c.method, hash |-> tx.hash, from |-> tx.from,
                            to |-> tx.to, call |-> tx.call,
                            index |-> PartLogs(replay, i)[1].index]

\* A hash both parts share leads to the second one's receipt.
PublicRpcAgrees(replay) ==
    LET cross == replay.publicRpc
        hashes == PartHashes(replay)
        ReceiptOf(h) == Parts(replay)[Max({i \in DOMAIN hashes : hashes[i] = h})].receipt
    IN  /\ Len(cross) = Cardinality(ToSet(hashes))
        /\ {c.hash : c \in ToSet(cross)} = ToSet(hashes)
        /\ \A c \in ToSet(cross) :
               c.ok /\ c.ok = ReceiptOf(c.hash).ok /\ c.block = ReceiptOf(c.hash).block

Reconciles(request, replay) ==
    /\ PartsReconcile(replay)
    /\ QueryReconciles(replay)
    /\ StatesReconcile(request, replay)
    /\ ContextsReconcile(replay)
    /\ ExplorerAgrees(replay)
    /\ PublicRpcAgrees(replay)

-----------------------------------------------------------------------------
(* Evidence and results.                                                   *)

\* A context cites its own source, through the issuer's record when the two are
\* the same source and through the sanctions record otherwise.
ContextEvidence(replay, c) ==
    [id |-> <<"CONTEXT", c.name>>, src |-> c.source,
     rec |-> IF c.source = replay.sources[Issuer] THEN Issuer ELSE FreezeSanctions]

FreezeEvidence(replay) ==
    LET ev(id, rec) == Evidence(replay.sources, id, rec)
        snapshots == replay.query.snapshots
    IN  FlattenSeq([i \in DOMAIN Parts(replay) |->
            <<ev(<<PartSelector[i], "CALL">>, FreezeExplorer),
              ev(<<PartSelector[i], "EVENT">>, FreezeArchive)>>])
        \o [i \in DOMAIN snapshots |-> ev(<<"STATE", snapshots[i].label>>, FreezeArchive)]
        \o [i \in DOMAIN replay.contexts |-> ContextEvidence(replay, replay.contexts[i])]
        \o <<[id |-> <<"INTERFACE">>, src |-> replay.interface.source, rec |-> Issuer],
             ev(<<"PUBLIC-RPC">>, FreezePublic)>>

Transition(i) ==
    [id |-> PartSelector[i],
     refs |-> <<<<PartSelector[i], "CALL">>, <<PartSelector[i], "EVENT">>,
                <<"STATE", IF i = 1 THEN "before_blacklist" ELSE "before_unblacklist">>,
                <<"STATE", IF i = 1 THEN "after_blacklist" ELSE "after_unblacklist">>>>]

\* A transition is confirmed with its part and both snapshots around it.
Confirmed(replay, i) ==
    /\ i \in DOMAIN Parts(replay)
    /\ (IF i = 1 THEN {"before_blacklist", "after_blacklist"}
        ELSE {"before_unblacklist", "after_unblacklist"}) \subseteq FreezeLabels(replay)

FreezeResults(replay) ==
    (IF Confirmed(replay, 1) THEN <<Transition(1)>> ELSE <<>>)
    \o (IF Confirmed(replay, 2) THEN <<Transition(2)>> ELSE <<>>)
    \o <<[id |-> "official_context_scope", refs |-> AllIds(FreezeEvidence(replay))]>>

FreezeErrors(replay) ==
    LET states == SelectSeq(FreezeEvidence(replay), LAMBDA e : e.id[1] = "STATE")
    IN  (IF FreezeLabels(replay) = FreezeSnapshotLabels THEN <<>>
         ELSE <<Error("archive_required", "collect_freeze_state", AllIds(states))>>)
        \o (IF replay.unblacklist # <<>> THEN <<>>
            ELSE <<Error("evidence_incomplete", "collect_unblacklist",
                         <<<<"blacklist", "CALL">>, <<"blacklist", "EVENT">>>>)>>)

FreezeResult(replay, status, results, errors) ==
    CheckedOrRaised([status |-> status, results |-> results, errors |-> errors,
                     evidence |-> FreezeEvidence(replay),
                     sources |-> AllSources(replay.sources), raws |-> {},
                     value |-> {r.id : r \in ToSet(results)}])

FreezeAnalyzeValidReplay(request, replay) ==
    LET errors == FreezeErrors(replay)
    IN  IF ~Reconciles(request, replay)
        THEN FreezeResult(replay, "failed", <<>>,
                          <<Error("reconciliation_failed", "reconcile_freeze",
                                  AllIds(FreezeEvidence(replay)))>>)
        ELSE FreezeResult(replay, IF errors = <<>> THEN "complete" ELSE "partial",
                          FreezeResults(replay), errors)

AnalyzeFreezeReplay(request, replay) ==
    LET refusal == FirstRefusal(FreezeBindingError(request, replay) \o FreezeDecodeReplay(replay))
    IN  IF refusal # NoRefusal THEN Refused(refusal) ELSE FreezeAnalyzeValidReplay(request, replay)
=============================================================================
