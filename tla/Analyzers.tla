----------------------------- MODULE Analyzers -----------------------------
(***************************************************************************)
(* The thirteen replay analyzers side by side, over any set of inputs.  An *)
(* input is [kind, request, replay] or [kind, request, package, replay].   *)
(* An analyzer keeps no state: a behaviour is one call, which takes an     *)
(* input and leaves its result.                                            *)
(***************************************************************************)
EXTENDS FlowPath, Auth, Dex, Freeze, EvmCore, EvmSpecial, BitcoinUtxo, IntelContext,
        CexCluster, MixerFlow, DefiLending, BridgeTransfer, CaseReconciliation

CONSTANT Inputs(_)      \* what an analyzer may be called with, by its kind

VARIABLES input,     \* the input of the call; before it, only its kind
          result     \* what the analyzer returned

vars == <<input, result>>

-----------------------------------------------------------------------------
PackageKinds == {"cex_cluster", "mixer_flow", "defi_lending", "bridge_transfer"}

Kinds == {"flow_path", "auth", "dex", "freeze", "evm_core", "evm_special", "bitcoin_utxo",
          "intel_context", "case_reconciliation"} \cup PackageKinds

-----------------------------------------------------------------------------
(* What the replay models guarantee of an input before an analyzer sees it. *)

IsList(s) == Len(s) \in Nat /\ DOMAIN s = 1 .. Len(s)

Optional(x) == x = <<>> \/ x = <<x[1]>>

SnapshotsFormed(snapshots) ==
    IsList(snapshots) /\ \A s \in ToSet(snapshots) : Optional(s.result)

\* An observation names artifacts of known capabilities only.
ArtifactsFormed(o, capabilities) ==
    /\ DOMAIN o.artifacts \subseteq ToSet(capabilities)
    /\ \A c \in DOMAIN o.artifacts : o.artifacts[c].file \in {"ok", "missing", "altered"}

LogsFormed(logs) ==
    /\ IsList(logs)
    /\ \A l \in ToSet(logs) : l.kind = "transfer" => l.amount \in Nat /\ l.index \in Nat

PackageFormed(i) ==
    /\ IsList(i.package.pins.providers) /\ IsList(i.replay.observations)
    /\ \A o \in ToSet(i.replay.observations) :
           /\ ArtifactsFormed(o, IF i.kind = "bridge_transfer" THEN Capabilities
                                 ELSE RpcCapabilities)
           /\ i.kind = "defi_lending" => LogsFormed(o.body.receipt.logs)
           /\ i.kind # "defi_lending" => IsList(o.body.receipt.logs)
           /\ i.kind \in {"cex_cluster", "mixer_flow"} => o.index \in Nat \ {0}
           /\ i.kind = "cex_cluster" => o.body.tx.value \in Nat
           /\ i.kind = "bridge_transfer" => \A l \in ToSet(o.body.receipt.logs) :
                  {l.event.inputAmount, l.event.outputAmount} \subseteq Nat

\* Positions on the chain are numbers.
LogsPlaced(logs) ==
    IsList(logs) /\ \A l \in ToSet(logs) : l.at \in Nat \X Nat \X Nat

IntelQueries == {"collect_label_claims", "check_sanctions_exposure", "resolve_identity_clues",
                 "find_common_funder", "score_actor_relations"}

ProvidersFormed(providers) ==
    /\ IsList(providers)
    /\ \A p \in ToSet(providers) :
           /\ p.role \in DOMAIN ProviderOfRole
           /\ p.body # <<>> => IsList(p.body[1].vin)

\* Amounts are numbers.
Worth(s) == IsList(s) /\ \A x \in ToSet(s) : x.value \in Nat

\* The budgets of a request are positive.
FlowFormed(i) ==
    /\ Worth(i.replay.txs) /\ IsList(i.replay.internal)
    /\ \A bound \in {"hops", "nodes", "edges"} : i.request.budgets[bound] \in Nat \ {0}

Formed(i) ==
    /\ i.kind = "flow_path" => FlowFormed(i)
    /\ i.kind = "dex" =>
           /\ IsList(i.replay.receipt.logs) /\ IsList(i.replay.calls)
           /\ \A l \in ToSet(i.replay.receipt.logs) : IsList(l.args)
    /\ i.kind \in {"auth", "freeze"} => SnapshotsFormed(i.replay.query.snapshots)
    /\ i.kind = "freeze" => Optional(i.replay.unblacklist)
    /\ i.kind = "evm_core" /\ i.replay.query = "first_token_transfer" =>
           LogsPlaced(i.replay.logs)
    /\ i.kind = "evm_core" /\ i.replay.query = "native_inflow" => Worth(i.replay.calls)
    /\ i.kind = "intel_context" => i.request.query \in IntelQueries
    /\ i.kind = "bitcoin_utxo" =>
           /\ ProvidersFormed(i.replay.tx.providers)
           /\ \A hop \in ToSet(i.replay.path) : ProvidersFormed(hop.providers)
    /\ i.kind = "cex_cluster" => IsList(i.replay.transfers)
    /\ i.kind = "mixer_flow" => IsList(i.replay.events)
    /\ i.kind = "case_reconciliation" => IsList(i.replay.pins)
    /\ i.kind \in PackageKinds => PackageFormed(i)

ASSUME InputsAssumption ==
    \A kind \in Kinds : \A i \in Inputs(kind) : i.kind = kind /\ Formed(i)

-----------------------------------------------------------------------------
Pending == [status |-> "pending"]

Analyzed(i) ==
    CASE i.kind = "flow_path" -> AnalyzeFlowPathReplay(i.request, i.replay)
      [] i.kind = "auth" -> AnalyzeAuthReplay(i.request, i.replay)
      [] i.kind = "dex" -> AnalyzeDexReplay(i.request, i.replay)
      [] i.kind = "freeze" -> AnalyzeFreezeReplay(i.request, i.replay)
      [] i.kind = "evm_core" -> AnalyzeEvmCoreReplay(i.request, i.replay)
      [] i.kind = "evm_special" -> AnalyzeEvmSpecialReplay(i.request, i.replay)
      [] i.kind = "bitcoin_utxo" -> AnalyzeBitcoinUtxoReplay(i.request, i.replay)
      [] i.kind = "intel_context" -> AnalyzeIntelContextReplay(i.request, i.replay)
      [] i.kind = "cex_cluster" -> AnalyzeCexClusterReplay(i.request, i.package, i.replay)
      [] i.kind = "mixer_flow" -> AnalyzeMixerFlowReplay(i.request, i.package, i.replay)
      [] i.kind = "defi_lending" -> AnalyzeDefiLendingReplay(i.request, i.package, i.replay)
      [] i.kind = "bridge_transfer" ->
             AnalyzeBridgeTransferReplay(i.request, i.package, i.replay)
      [] i.kind = "case_reconciliation" ->
             AnalyzeCaseReconciliationReplay(i.request, i.package, i.replay)

Init == input \in [kind : Kinds] /\ result = Pending

\* One call of the analyzer of a kind with one of its inputs.
Analyze(kind) ==
    /\ result = Pending /\ input.kind = kind
    /\ \E i \in Inputs(kind) : input' = i /\ result' = Analyzed(i)

Next == \E kind \in Kinds : Analyze(kind)

Spec == Init /\ [][Next]_vars

Of(kind) == result # Pending /\ input.kind = kind

Completed(kind) == Of(kind) /\ result.status = "complete"

-----------------------------------------------------------------------------
\* The stages of what trace_path itself decides, once its input is accepted and its
\* result keeps the contract; a complete result has none.
PathStages == {"", "scope_incomplete", "budget_traversal", "internal_edge_trace",
               "frontier_resolution", "seed_resolution"}

StageOf(r) == IF r.errors = <<>> THEN "" ELSE r.errors[1].stage

PathIsDecided(i, r) ==
    LET routes == Routes(FlowEdges(i.replay), i.request.seed, i.request.terminal)
        near == {p \in routes : WithinBudget(p, i.request.budgets)}
    IN  /\ r.status = "complete" <=> near # {} /\ i.replay.complete
        /\ r.status = "complete" => near = {r.value.walk}
        /\ StageOf(r) = "budget_traversal" <=>
               near = {} /\ \E p \in routes : WithinBudget(p, Unbounded)
        /\ r.status = "partial" => WithinBudget(r.value.walk, i.request.budgets)

\* trace_path (slices/flow_path.py, _walk and _trace_path) decides what the graph
\* decides: the result is complete exactly when one forced, acyclic route leads
\* from the seed to the terminal within the budgets and the replay is complete,
\* and then it is that route; it blames the budget exactly when there is a route
\* (of fewer than the million hops the unbounded walk stops at) and none of them is
\* within it; and no partial path exceeds the budget.
PathDecided ==
    Of("flow_path") /\ input.request.query = "trace_path" /\ StageOf(result) \in PathStages =>
        PathIsDecided(input, result)

-----------------------------------------------------------------------------
ProviderRoles == {"PRIMARY", "VERIFY"}

\* Provider p made the observation: its artifacts exist, are what their digests
\* say, and the digests are the pinned ones.
MadeBy(p, o, sha) ==
    /\ p.id = o.provider
    /\ \A c \in DOMAIN o.artifacts :
           o.artifacts[c].file = "ok" /\ o.artifacts[c].uri = sha[c]

Authentic(o, pins) == \E p \in ToSet(pins.providers) : MadeBy(p, o, p.sha)

AuthenticItem(o, pins) == \E p \in ToSet(pins.providers) : MadeBy(p, o, p.sha[o.index])

EndpointsDiffer(pins) ==
    \A p, q \in ToSet(pins.providers) : p.endpoint = q.endpoint => p.id = q.id

\* The observation shows the reported transfer into the wallet that was asked for.
ShowsTransfer(o, t, hotWallet) ==
    /\ o.body.receipt.success
    /\ o.body.tx.hash = t.hash /\ o.body.tx.value = t.amount /\ o.body.tx.from = t.source
    /\ hotWallet \in {Missing, o.body.tx.to}

CexWitnessed(i, r) ==
    /\ EndpointsDiffer(i.package.pins)
    /\ \A k \in DOMAIN r.value.transfers : \A role \in ProviderRoles :
           \E o \in ToSet(i.replay.observations) :
               /\ o.role = role /\ o.index = k /\ AuthenticItem(o, i.package.pins)
               /\ ShowsTransfer(o, r.value.transfers[k], i.request.hotWallet)

ShowsEvent(o, fact) ==
    /\ o.body.receipt.success /\ o.body.tx.hash = fact.hash
    /\ \E log \in ToSet(o.body.receipt.logs) :
           /\ log.kind = fact.kind
           /\ fact.log = IF fact.kind = "deposit" THEN [leaf |-> log.note]
                         ELSE [who |-> log.who, nullifier |-> log.note, fee |-> log.fee]

MixerFactAt(v, k) == IF k = 1 THEN v.deposit ELSE v.candidates[k]

MixerWitnessed(i, r) ==
    /\ EndpointsDiffer(i.package.pins)
    /\ \A k \in {1} \cup DOMAIN r.value.candidates : \A role \in ProviderRoles :
           \E o \in ToSet(i.replay.observations) :
               /\ o.role = role /\ o.index = k /\ AuthenticItem(o, i.package.pins)
               /\ ShowsEvent(o, MixerFactAt(r.value, k))

ShowsLiquidation(o, v, hash) ==
    /\ o.body.receipt.success /\ o.body.tx.hash = hash /\ v.event.tx = hash
    /\ {v.event, v.debt, v.collateral, v.outflow} \subseteq ToSet(o.body.receipt.logs)

LendingWitnessed(i, r) ==
    LET v == r.value
    IN  /\ EndpointsDiffer(i.package.pins)
        /\ \A role \in ProviderRoles : \E o \in ToSet(i.replay.observations) :
               /\ o.role = role /\ Authentic(o, i.package.pins)
               /\ ShowsLiquidation(o, v, i.request.hash)
        /\ {v.debt.from, v.collateral.to, v.outflow.from} = {i.request.subject}
        /\ v.outflow.index > v.collateral.index

\* The event of one side of a bridge transfer announces what is reported.
Announces(event, v, subject) ==
    /\ event.deposit = v.deposit /\ event.depositor = subject
    /\ event.inputAmount = v.sent /\ event.outputAmount = v.received

BridgeWitnessed(i, r) ==
    \A chain \in {"base", "ethereum"} : \E o \in ToSet(i.replay.observations) :
        /\ o.chain = chain /\ o.body.receipt.success /\ Authentic(o, i.package.pins)
        /\ \E log \in ToSet(o.body.receipt.logs) :
               Announces(log.event, r.value, i.request.subject)

Confirms(document, f, part) ==
    /\ document # Missing /\ document.sha = <<f, part>>
    /\ document.fixture = f /\ document.status = "confirmed"

CaseWitnessed(i) ==
    \A f \in i.request.refs :
        /\ Confirms(i.package.files[f].expected, f, "expected")
        /\ Confirms(i.package.files[f].evidence, f, "evidence")

\* What a package analyzer reports (domain/cex_cluster.py, mixer_flow.py,
\* defi_lending.py, bridge_transfer.py: reconstruct_*_facts; and
\* case_reconciliation.py) stands in authentic, successful answers: of two
\* providers with different endpoints where the analyzer asks for two, of one for
\* each leg of a bridge transfer, in both pinned documents of every fixture of a
\* case.
ReportIsWitnessed ==
    /\ Completed("cex_cluster") => CexWitnessed(input, result)
    /\ Completed("mixer_flow") => MixerWitnessed(input, result)
    /\ Completed("defi_lending") => LendingWitnessed(input, result)
    /\ Completed("bridge_transfer") => BridgeWitnessed(input, result)
    /\ Of("case_reconciliation") /\ result.status = "partial" => CaseWitnessed(input)

-----------------------------------------------------------------------------
Paid(txs) == SumFunction([tx \in txs |-> tx.value])

RemergeAddsUp(i, r) ==
    LET txs == ToSet(i.replay.txs)
        splits == {tx \in txs : tx.from = i.request.seed}
        returns == {tx \in txs : /\ tx.to = i.request.merge
                                 /\ \E split \in splits : split.to = tx.from}
        once == \A a, b \in splits : a.to = b.to => a = b
    IN  /\ r.value.input = Paid(splits)
        /\ once => r.value.output = Paid(returns)
        /\ r.value.residual = r.value.input - r.value.output
        /\ r.value.residual >= 0

OriginsAddUp(i, r) ==
    LET paid == {tx \in ToSet(i.replay.txs) : tx.to = i.request.exit}
    IN  r.value.total = Paid(paid) /\ {tx.from : tx \in paid} = i.request.origins

\* The swap event of the replayed transaction.
IsSwap(log, replay) ==
    log.address = replay.metadata.pair /\ log.event = "Swap" /\ log.bound

SwapAddsUp(i, r) ==
    \E swap \in ToSet(i.replay.receipt.logs) :
        /\ {log \in ToSet(i.replay.receipt.logs) : IsSwap(log, i.replay)} = {swap}
        /\ r.value.assetIn = swap.data[1]
        /\ r.value.poolOutput = swap.data[4]
        /\ r.value.userOutput = <<r.value.poolOutput>>

InflowAddsUp(i, r) ==
    LET calls == i.replay.calls
        paying == {k \in DOMAIN calls : /\ calls[k].to = i.request.interest
                                        /\ calls[k].tx = i.request.hash}
    IN  r.value.inflow = SumFunction([k \in paying |-> calls[k].value])

BridgeAddsUp(v) == v.sent = v.received + v.fee /\ v.fee >= 0

ClusterAddsUp(i, r) ==
    \A role \in ProviderRoles :
        LET shown == {o \in ToSet(i.replay.observations) : o.role = role}
        IN  r.value.total = SumFunction([o \in shown |-> o.body.tx.value])

\* The amounts of a complete result are the amounts of the transactions, logs and
\* calls of the replay, each counted once: what left the seed and came back
\* (trace_remerge; what came back only when no branch was paid twice, for the
\* returns of such a branch are counted twice: see EdgeCountedOnce), what every
\* asked origin paid into the exit (aggregate_origins), what a swap took, its pool
\* paid and the user received, the calls that paid the address of interest, the two
\* sides of a bridge transfer and its fee, and what the hot wallet received.
AmountsAddUp ==
    /\ Completed("flow_path") /\ input.request.query = "trace_remerge" =>
           RemergeAddsUp(input, result)
    /\ Completed("flow_path") /\ input.request.query = "aggregate_origins" =>
           OriginsAddUp(input, result)
    /\ Completed("dex") => SwapAddsUp(input, result)
    /\ Completed("evm_core") /\ input.request.query = "native_inflow" =>
           InflowAddsUp(input, result)
    /\ Completed("bridge_transfer") => BridgeAddsUp(result.value)
    /\ Completed("cex_cluster") => ClusterAddsUp(input, result)

-----------------------------------------------------------------------------
\* What the outputs of an answer add up to in satoshis; the node's are cut off to
\* satoshis one by one.
PaidOut(p) ==
    LET vout == p.body[1].vout
    IN  SumFunction([k \in DOMAIN vout |-> IF p.role = "primary" THEN vout[k].value \div SubSatoshi
                                           ELSE vout[k].value])

\* The answer shows the transaction; the node's has neither the values of the inputs
\* nor the fee.
ShowsTransaction(p, txid, block, facts) ==
    LET b == p.body[1]
    IN  /\ b.txid = txid /\ b.block = block /\ PaidOut(p) = facts.outputSum
        /\ p.role # "primary" => Total(b.vin) - PaidOut(p) = facts.fee /\ b.fee = facts.fee

\* The answer shows the hop: it spends the hop's output once, and its outputs leave
\* the fee.
ShowsSpend(p, hop) ==
    LET b == p.body[1]
    IN  /\ b.txid = hop.spendingTx /\ hop.fee = hop.value - PaidOut(p)
        /\ \E k \in DOMAIN b.vin : \A j \in DOMAIN b.vin :
               b.vin[j].txid = hop.spentTx /\ b.vin[j].vout = hop.spentVout <=> j = k

BitcoinAgrees(i, r) ==
    /\ \A p \in ToSet(i.replay.tx.providers) :
           ShowsTransaction(p, i.request.txid, i.replay.tx.block, r.value.facts)
    /\ \A hop \in ToSet(i.replay.path) : \A p \in ToSet(hop.providers) : ShowsSpend(p, hop)

ProxyAgrees(i, r) ==
    LET v == r.value
        block == v.at[1]
    IN  /\ v.after # <<>> /\ v.before # <<>>
        /\ v.after[1].word = v.event
        /\ v.after[1].block = block /\ v.before[1].block = block - 1
        /\ i.request.admin => Len(v.admin) = 2 /\ v.admin[2].block = block

\* The log is a payment in the token by the subject, at or after the start.
Pays(log, request) ==
    /\ log.address = request.token /\ log.event = "Transfer" /\ Len(log.args) >= 2
    /\ log.args[1] = request.subject /\ log.data[1] > 0 /\ log.at[1] >= request.start

FirstIsFirst(i, r) ==
    /\ r.value.log \in ToSet(i.replay.logs) /\ Pays(r.value.log, i.request)
    /\ \A log \in ToSet(i.replay.logs) :
           Pays(log, i.request) => ~Earlier(log.at, r.value.log.at)

\* A complete result is what every answer behind it says, by the arithmetic of
\* the chain and not only by comparison: each provider's Bitcoin transaction pays
\* the reported fee and spends the outpoint of the path once, the slots around an
\* upgrade belong to its block and to the one before and hold what its event
\* announces, the first transfer has no earlier one, and intelligence is about
\* the subjects that were asked for.
AnswersAgree ==
    /\ Completed("bitcoin_utxo") => BitcoinAgrees(input, result)
    /\ Completed("evm_special") /\ input.request.query = "proxy_history" =>
           ProxyAgrees(input, result)
    /\ Completed("evm_core") /\ input.request.query = "first_token_transfer" =>
           FirstIsFirst(input, result)
    /\ Completed("intel_context") => result.value.subjects \subseteq input.request.subjects

-----------------------------------------------------------------------------
\* The state the snapshot of a label found at the block the request names.
StateAt(label) ==
    LET s == CHOOSE x \in ToSet(input.replay.query.snapshots) : x.label = label
    IN  IF s.block = input.request.blocks[label] THEN s.result ELSE <<>>

AllowanceConsumed ==
    LET moved == result.value.amount
        approved == input.replay.approval.tx.call.args[2]
        trace == input.replay.consumption.trace[1]
    IN  /\ StateAt("before_approval") = <<0>>
        /\ StateAt("before_consumption") = <<approved>>
        /\ StateAt("after_consumption") = <<approved - moved>>
        /\ moved \in 0 .. approved
        /\ trace.from = input.request.spender
        /\ trace.call.args[1] = result.value.from /\ trace.call.args[3] = moved

\* A confirmed transition of the blacklist changed the state of the target.
TransitionChanged(method, before, after) ==
    method \in result.value =>
        /\ StateAt(before) = <<method = "unBlacklist">>
        /\ StateAt(after) = <<method = "blacklist">>
        /\ \E c \in ToSet(input.replay.explorer) :
               c.method = method /\ c.call.args[1] = input.request.target

\* Authority (slices/auth.py, freeze.py): a complete consumption spent what one
\* approval had granted and no more, as the allowance before and after it shows at
\* the blocks that were asked for; and a transition of the blacklist is confirmed,
\* in a partial result too, only when the state of the target did change.
AuthorityIsBacked ==
    /\ Completed("auth") => AllowanceConsumed
    /\ Of("freeze") /\ result.status \in {"complete", "partial"} =>
           /\ TransitionChanged("blacklist", "before_blacklist", "after_blacklist")
           /\ TransitionChanged("unBlacklist", "before_unblacklist", "after_unblacklist")

-----------------------------------------------------------------------------
(* The order of a capture.                                                 *)

CapturedFields ==
    [k \in Kinds |->
        CASE k = "flow_path" -> {"txs", "internal"}
          [] k = "auth" -> {"excluded"}
          [] k = "dex" -> {"calls"}
          [] k = "freeze" -> {"explorer", "publicRpc", "contexts"}
          [] k = "evm_core" -> {"logs", "calls", "codes", "states"}
          [] k = "evm_special" -> {"logs", "snapshots", "receipts", "windows"}
          [] k = "intel_context" -> {"relations", "actions"}
          [] k = "case_reconciliation" -> {"pins"}
          [] k \in PackageKinds -> {"observations"}
          [] OTHER -> {}]

\* The last of the answers to each question.
Latest(s, Question(_)) ==
    Kept(s, {k \in DOMAIN s : \A j \in DOMAIN s : j > k => Question(s[j]) # Question(s[k])})

\* The captures an analyzer keeps in a dictionary, each question answered once.
Answers(field, s) ==
    CASE field = "codes" -> Latest(s, LAMBDA c : <<c.address, c.block>>)
      [] field = "states" -> Latest(s, LAMBDA c : c.token)
      [] field = "snapshots" -> Latest(s, LAMBDA c : c.role)
      [] OTHER -> s

\* The same answers captured in the opposite order, and each of them once.
Recaptured(i) ==
    LET replay == [f \in DOMAIN i.replay |->
                     IF f \in CapturedFields[i.kind] THEN Reverse(Answers(f, i.replay[f]))
                     ELSE i.replay[f]]
        j == [i EXCEPT !.replay = replay]
    IN  CASE i.kind \in {"auth", "freeze"} -> [j EXCEPT !.replay.query.snapshots = Reverse(@)]
          [] i.kind = "dex" -> [j EXCEPT !.replay.receipt.logs = Reverse(@)]
          [] i.kind = "bitcoin_utxo" ->
                 [j EXCEPT !.replay.tx.providers = Reverse(@),
                           !.replay.path = [h \in DOMAIN @ |->
                               [@[h] EXCEPT !.providers = Reverse(@)]]]
          [] i.kind = "bridge_transfer" ->
                 [j EXCEPT !.package.pins.providers = Reverse(Latest(@, LAMBDA p : p.id))]
          [] i.kind \in PackageKinds \ {"bridge_transfer"} ->
                 [j EXCEPT !.package.pins.providers = Reverse(@)]
          [] OTHER -> j

\* As on the chain, no two logs are at one place: a block and a position in it.
PlacesDiffer(logs) == IsInjective([k \in DOMAIN logs |-> <<logs[k].at[1], logs[k].at[3]>>])

\* The logs that an analyzer sorts by their place.
SortedLogs(i) ==
    IF i.kind = "evm_special" \/ (i.kind = "evm_core" /\ i.replay.query = "first_token_transfer")
    THEN i.replay.logs ELSE <<>>

\* The value of a result without the order in which it lists what it adds up, and
\* without that of the sanctions actions of one date.
Unordered(v) ==
    CASE input.kind = "flow_path" /\ input.request.query = "aggregate_origins" ->
             <<v.total, ToSet(v.contributions)>>
      [] input.kind = "flow_path" /\ input.request.query = "trace_remerge" ->
             <<v.input, v.output, ToSet(v.branches)>>
      [] input.kind = "intel_context" /\ input.request.query = "score_actor_relations" ->
             <<v.subjects, ToSet(v.relations)>>
      [] input.kind = "intel_context" /\ input.request.query = "check_sanctions_exposure" ->
             <<v.subjects, v.currentMatches, ToSet(v.timeline),
               [k \in DOMAIN v.timeline |-> v.timeline[k][1]]>>
      [] input.kind = "bitcoin_utxo" ->
             [v EXCEPT !.facts.path = [h \in DOMAIN @ |->
                 [@[h] EXCEPT !.providers = ToSet(@)]]]
      [] OTHER -> v

\* The order of a capture only breaks ties.  Of repeated answers to one question the
\* last one counts (the dictionaries of slices/evm_core.py:124 and 282, of
\* slices/evm_special.py:566 and of domain/bridge_transfer.py:200-203); sanctions
\* actions of one date are listed as captured (slices/intel_context.py:256-259); and
\* two logs that claim one place keep their order, which this leaves out.  Apart
\* from these, the order of the transactions, logs, calls, snapshots, observations,
\* contexts, providers or pins decides neither whether a result is complete nor what
\* it says (the sorts by place and date, and the item order of the package
\* analyzers).
OrderOnlyBreaksTies ==
    result # Pending /\ PlacesDiffer(SortedLogs(input)) =>
        LET other == Analyzed(Recaptured(input))
        IN  /\ result.status = "complete" <=> other.status = "complete"
            /\ result.status = "complete" => Unordered(result.value) = Unordered(other.value)

-----------------------------------------------------------------------------
\* A remerge counts every original edge once (the branch loop of trace_remerge in
\* slices/flow_path.py looks the return up once for each split).
EdgeCountedOnce ==
    Of("flow_path") /\ result.status \in {"complete", "partial"}
                    /\ input.request.query = "trace_remerge" =>
        IsInjective([i \in DOMAIN result.value.branches |-> result.value.branches[i].merge])
=============================================================================
