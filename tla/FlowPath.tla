------------------------------ MODULE FlowPath ------------------------------
(***************************************************************************)
(* The flow_path analyzer (src/scan_tool/slices/flow_path.py): native ETH  *)
(* transfers of a reviewed replay as a graph, and three queries over it.   *)
(*                                                                         *)
(* A replay is [chain, fixture, txs, internal, sources, complete]:         *)
(*   txs       a sequence of [label, hash, receipt, block, from, to,       *)
(*             value], receipt being the hash its receipt names,           *)
(*   internal  a sequence of [path, from, to, hex, raw],                   *)
(*   sources   a sequence of source identifiers,                           *)
(*   complete  the replay's selected_transactions_complete.                *)
(* A request is [offline, chain, fixture, allowed, query, ...] with the    *)
(* fields of its query.  Equal block hash, number and index of transaction *)
(* and receipt are part of "receipt".                                      *)
(***************************************************************************)
EXTENDS ResultContract

-----------------------------------------------------------------------------
(* The replay contract (domain/flow_path.py).                              *)

TransactionAndReceiptAgree(tx) == tx.hash = tx.receipt

HexMatchesDecimal(e) == e.hex = e.raw

LabelsUnique(txs) == IsInjective([i \in DOMAIN txs |-> txs[i].label])

ParseFlowPathReplay(replay) ==
    /\ replay.txs # <<>> /\ replay.sources # <<>>
    /\ \A tx \in ToSet(replay.txs) : TransactionAndReceiptAgree(tx)
    /\ \A e \in ToSet(replay.internal) : HexMatchesDecimal(e)
    /\ LabelsUnique(replay.txs)

FlowBindingError(request, replay) ==
    << <<~request.offline, "rule_restricted", "rule_check">>,
       <<request.chain # replay.chain, "reconciliation_failed", "chain_binding">>,
       <<request.fixture \notin {Anything, replay.fixture},
         "reconciliation_failed", "fixture_binding">>,
       <<~(ToSet(replay.sources) \subseteq request.allowed),
         "rule_restricted", "source_binding">> >>

Hashes(replay) == {tx.hash : tx \in ToSet(replay.txs)}

Blocks(replay) == {tx.block : tx \in ToSet(replay.txs)}

RequireUniqueTransactionHashes(replay) ==
    <<Cardinality(Hashes(replay)) # Len(replay.txs), "reconciliation_failed", "edge_dedup">>

RequireUniqueInternalEdges(replay) ==
    LET identity(e) == <<e.path, e.from, e.to, e.raw>>
    IN  <<~IsInjective([i \in DOMAIN replay.internal |-> identity(replay.internal[i])]),
          "reconciliation_failed", "edge_dedup">>

-----------------------------------------------------------------------------
(* Edges.  A zero-value transaction is no edge; an internal edge belongs   *)
(* to the one selected transaction that calls its sender.                  *)

TopLevelEdges(replay) ==
    LET moving == Kept(replay.txs, {i \in DOMAIN replay.txs : replay.txs[i].value # 0})
    IN  [i \in DOMAIN moving |->
            [from |-> moving[i].from, to |-> moving[i].to, amount |-> moving[i].value,
             hash |-> moving[i].hash, kind |-> "native_top_level"]]

InternalParent(e, txs) == {i \in DOMAIN txs : txs[i].to = e.from}

InternalBound(replay) ==
    <<\E e \in ToSet(replay.internal) : Cardinality(InternalParent(e, replay.txs)) # 1,
      "reconciliation_failed", "internal_edge_binding">>

InternalEdges(replay) ==
    [i \in DOMAIN replay.internal |->
        LET e == replay.internal[i]
            parent == replay.txs[CHOOSE j \in InternalParent(e, replay.txs) : TRUE]
        IN  [from |-> e.from, to |-> e.to, amount |-> e.raw,
             hash |-> parent.hash, kind |-> "native_internal"]]

-----------------------------------------------------------------------------
(* Traversal.                                                              *)

\* adjacency.get(node, []): the edges that leave the node, in order.
Adjacency(edges, node) == Kept(edges, {i \in DOMAIN edges : edges[i].from = node})

Ends(path, start) == IF path = <<>> THEN start ELSE Last(path).to

Visited(path, start) == {start} \cup {e.to : e \in ToSet(path)}

\* Mutant of WalkStep: the hop budget is tested after the hop.
WalkStepPastBudget(edges, start, terminal, budget, path) ==
    LET here == Ends(path, start)
        outgoing == Adjacency(edges, here)
    IN  IF /\ here # terminal
           /\ Len(path) <= budget.hops /\ Len(path) < budget.edges
           /\ Cardinality(Visited(path, start)) < budget.nodes
           /\ Len(outgoing) = 1
           /\ outgoing[1].to \notin Visited(path, start)
        THEN Append(path, outgoing[1])
        ELSE path

\* One round of _walk's loop, or no change once the loop has ended: it goes on
\* only along the single edge that leaves the node, to a node not yet visited.
WalkStep(edges, start, terminal, budget, path) ==
    LET here == Ends(path, start)
        outgoing == Adjacency(edges, here)
    IN  IF /\ here # terminal
           /\ Len(path) < budget.hops /\ Len(path) < budget.edges
           /\ Cardinality(Visited(path, start)) < budget.nodes
           /\ Len(outgoing) = 1
           /\ outgoing[1].to \notin Visited(path, start)
        THEN Append(path, outgoing[1])
        ELSE path

\* A node is visited once, so the loop runs at most once per edge.
Walk(edges, start, terminal, budget) ==
    FoldLeft(LAMBDA path, e : WalkStep(edges, start, terminal, budget, path), <<>>, edges)

Unbounded == [hops |-> 1000000, nodes |-> 1000000, edges |-> 1000000]

\* The longest walk that reaches the terminal from a node nothing pays into,
\* the first of the longest.
ConfirmedChainToTerminal(edges, terminal, budget) ==
    LET destinations == {e.to : e \in ToSet(edges)}
        better(best, e) ==
            LET walk == Walk(edges, e.from, terminal, budget)
            IN  IF /\ e.from \notin destinations
                   /\ Ends(walk, e.from) = terminal
                   /\ Len(walk) > Len(best)
                THEN walk ELSE best
    IN  FoldLeft(better, <<>>, edges)

IsInternalSource(seed, replay) == \E tx \in ToSet(replay.txs) : tx.to = seed

-----------------------------------------------------------------------------
(* Envelopes of this analyzer.                                             *)

FlowResult(replay, value, raws, evidence, status, code, stage) ==
    OneResult(replay.sources, value, raws, evidence, status, code, stage)

PathEdgeEvidenceId(index, edge) ==
    IF edge.kind = "native_internal" THEN <<"INTERNAL">> ELSE <<"HOP", index>>

ScopeEvidence(replay) == Evidence(replay.sources, <<"SCOPE">>, 1)

BuildPathGraph(replay, walk) ==
    [i \in DOMAIN walk |->
        Evidence(replay.sources, PathEdgeEvidenceId(i, walk[i]),
                 IF walk[i].kind = "native_top_level" THEN 2 ELSE 1)]

PathResult(replay, walk, frontier, status, code, stage) ==
    FlowResult(replay, [type |-> "trace_path", walk |-> walk, frontier |-> frontier],
               {e.amount : e \in ToSet(walk)},
               Append(BuildPathGraph(replay, walk), ScopeEvidence(replay)),
               status, code, stage)

CompleteTracePath(replay, walk) == PathResult(replay, walk, <<>>, "complete", "", "")

PartialTracePath(request, replay, walk, code, stage) ==
    LET from == IF walk # <<>> /\ walk[1].from = request.seed
                THEN Last(walk).to ELSE request.seed
    IN  PathResult(replay, walk, <<from, request.terminal>>, "partial", code, stage)

-----------------------------------------------------------------------------
(* trace_path.                                                             *)

RequireBlockWindows(request, replay) ==
    <<\/ \E w \in request.windows : w[1] # w[2]
      \/ {w[1] : w \in request.windows} # Blocks(replay),
      "reconciliation_failed", "scope_validation">>

FlowEdges(replay) == InternalEdges(replay) \o TopLevelEdges(replay)

TracePath(request, replay) ==
    LET edges == FlowEdges(replay)
        walkIn(budget) == Walk(edges, request.seed, request.terminal, budget)
        walk == walkIn(request.budgets)
        reaches(w) == Ends(w, request.seed) = request.terminal
        fallback == ConfirmedChainToTerminal(edges, request.terminal, request.budgets)
        partial(w, code, stage) == PartialTracePath(request, replay, w, code, stage)
        missing == replay.internal = <<>> /\ IsInternalSource(request.seed, replay)
    IN  IF reaches(walk)
        THEN IF replay.complete THEN CompleteTracePath(replay, walk)
             ELSE partial(walk, "source_unavailable", "scope_incomplete")
        ELSE CASE reaches(walkIn(Unbounded)) ->
                      partial(walk, "evidence_incomplete", "budget_traversal")
               [] ~reaches(walkIn(Unbounded)) /\ fallback # <<>> ->
                      IF missing THEN partial(fallback, "trace_unavailable", "internal_edge_trace")
                      ELSE partial(fallback, "evidence_incomplete", "frontier_resolution")
               [] ~reaches(walkIn(Unbounded)) /\ fallback = <<>> /\ walk # <<>> ->
                      partial(walk, "evidence_incomplete", "frontier_resolution")
               [] OTHER -> Failed(<<"source_unavailable", "seed_resolution">>)

-----------------------------------------------------------------------------
(* trace_remerge: seed -> branch -> merge, one branch per seed split.      *)

Splits(request, replay) ==
    Kept(replay.txs, {i \in DOMAIN replay.txs : replay.txs[i].from = request.seed})

MergesOf(request, replay, branch) ==
    {tx \in ToSet(replay.txs) : tx.to = request.merge /\ tx.from = branch}

RemergeChecks(request, replay) ==
    << <<request.selected \cup request.excluded # Hashes(replay),
         "reconciliation_failed", "scope_validation">>,
       <<\E b \in Blocks(replay) : b \notin request.range[1] .. request.range[2],
         "reconciliation_failed", "scope_validation">>,
       <<Splits(request, replay) = <<>>, "source_unavailable", "seed_resolution">>,
       <<\E tx \in ToSet(replay.txs) : Cardinality(MergesOf(request, replay, tx.from)) > 1,
         "reconciliation_failed", "edge_dedup">> >>

RemergeBranchBudget(b) ==
    IF b.hops < 2 \/ b.nodes < 3 \/ b.edges < 2 THEN 0
    ELSE Min({b.nodes - 2, b.edges \div 2})

\* The loop over the splits: it stops at the branch budget, skips a split with
\* no return, and fails on a return larger than its split.
RemergeBranches(request, replay) ==
    LET budget == RemergeBranchBudget(request.budgets)
        take(acc, split) ==
            LET merges == MergesOf(request, replay, split.to)
                merge == CHOOSE tx \in merges : TRUE
            IN  CASE acc.stopped \/ acc.negative -> acc
                  [] ~acc.stopped /\ ~acc.negative /\ Len(acc.branches) >= budget ->
                         [acc EXCEPT !.stopped = TRUE]
                  [] OTHER ->
                         IF merges = {} THEN [acc EXCEPT !.available = FALSE]
                         ELSE IF split.value < merge.value THEN [acc EXCEPT !.negative = TRUE]
                         ELSE [acc EXCEPT !.branches = Append(@,
                                 [node |-> split.to, input |-> split.value,
                                  output |-> merge.value, split |-> split.hash,
                                  merge |-> merge.hash])]
    IN  FoldLeft(take, [branches |-> <<>>, available |-> TRUE, stopped |-> FALSE,
                        negative |-> FALSE], Splits(request, replay))

ExternalInflows(request, replay, nodes) ==
    Kept(replay.txs, {i \in DOMAIN replay.txs :
                         replay.txs[i].to \in nodes /\ replay.txs[i].from # request.seed})

RemergeEvidence(replay, excluded) ==
    <<Evidence(replay.sources, "EV-FLOW-SPLIT-4", 1),
      Evidence(replay.sources, "EV-FLOW-REMERGE-4", 2),
      Evidence(replay.sources, "EV-FLOW-REMERGE-LEDGER", 1)>>
    \o (IF excluded = <<>> THEN <<>>
        ELSE <<Evidence(replay.sources, "EV-FLOW-UNRELATED-INFLOW", 2)>>)

TraceRemerge(request, replay) ==
    LET loop == RemergeBranches(request, replay)
        branches == loop.branches
        excluded == ExternalInflows(request, replay, {b.node : b \in ToSet(branches)})
        input == SumFunction([i \in DOMAIN branches |-> branches[i].input])
        output == SumFunction([i \in DOMAIN branches |-> branches[i].output])
        value == [type |-> "trace_remerge", branches |-> branches, excluded |-> excluded,
                  input |-> input, output |-> output, residual |-> input - output]
        raws == {input, output, input - output}
                  \cup UNION {{b.input, b.output} : b \in ToSet(branches)}
                  \cup {tx.value : tx \in ToSet(excluded)}
        result(status, code, stage) ==
            FlowResult(replay, value, raws, RemergeEvidence(replay, excluded),
                       status, code, stage)
    IN  CASE loop.negative -> Failed(<<"reconciliation_failed", "ledger_reconciliation">>)
          [] loop.stopped -> result("partial", "evidence_incomplete", "budget_traversal")
          [] ~loop.stopped /\ ~loop.negative /\ ~(loop.available /\ replay.complete) ->
                 result("partial", "source_unavailable", "branch_return_binding")
          [] OTHER -> result("complete", "", "")

-----------------------------------------------------------------------------
(* aggregate_origins: what the requested origins paid into one exit.       *)

Eligible(request, replay) ==
    Kept(replay.txs, {i \in DOMAIN replay.txs : replay.txs[i].to = request.exit})

AggregateChecks(request, replay) ==
    << <<request.selected # Hashes(replay), "reconciliation_failed", "scope_validation">>,
       <<\E tx \in ToSet(Eligible(request, replay)) : tx.from \notin request.origins,
         "reconciliation_failed", "origin_scope">> >>

AggregateContributionBudget(b) ==
    IF b.hops < 1 \/ b.nodes < 2 \/ b.edges < 1 THEN 0 ELSE Min({b.nodes - 1, b.edges})

MultiEvidence(replay) ==
    <<Evidence(replay.sources, "EV-FLOW-MULTI-ORIGINS", 1),
      Evidence(replay.sources, "EV-FLOW-MULTI-TOTAL", 2)>>

AggregateOrigins(request, replay) ==
    LET eligible == Eligible(request, replay)
        bounded == SubSeq(eligible, 1, Min({Len(eligible),
                                            AggregateContributionBudget(request.budgets)}))
        exhausted == Len(eligible) > Len(bounded)
        seen == {tx.from : tx \in ToSet(bounded)}
        total == SumFunction([i \in DOMAIN bounded |-> bounded[i].value])
        value == [type |-> "aggregate_origins", contributions |-> bounded, total |-> total]
        result(status, code, stage) ==
            FlowResult(replay, value, {total} \cup {tx.value : tx \in ToSet(bounded)},
                       MultiEvidence(replay), status, code, stage)
    IN  CASE bounded = <<>> /\ ~exhausted -> Failed(<<"source_unavailable", "origin_binding">>)
          [] exhausted -> result("partial", "evidence_incomplete", "budget_traversal")
          [] bounded # <<>> /\ ~exhausted /\ ~(seen = request.origins /\ replay.complete) ->
                 result("partial", "source_unavailable", "origin_binding")
          [] OTHER -> result("complete", "", "")

-----------------------------------------------------------------------------
(* The analyzer.                                                           *)

QueryChecks(request, replay) ==
    CASE request.query = "trace_path" ->
             <<RequireBlockWindows(request, replay), InternalBound(replay)>>
      [] request.query = "trace_remerge" -> RemergeChecks(request, replay)
      [] request.query = "aggregate_origins" -> AggregateChecks(request, replay)

AnalyzeFlowPathReplay(request, replay) ==
    LET refusal == FirstRefusal(
            << <<~ParseFlowPathReplay(replay), "decode_failed", "decode_replay">> >>
            \o FlowBindingError(request, replay)
            \o <<RequireUniqueTransactionHashes(replay), RequireUniqueInternalEdges(replay)>>
            \o QueryChecks(request, replay))
    IN  IF refusal # NoRefusal THEN Failed(refusal)
        ELSE Checked(CASE request.query = "trace_path" -> TracePath(request, replay)
                       [] request.query = "trace_remerge" -> TraceRemerge(request, replay)
                       [] request.query = "aggregate_origins" ->
                              AggregateOrigins(request, replay),
                     "decode_flow_path")

-----------------------------------------------------------------------------
(* What the queries are for, said without their loops.                     *)

\* A route: a sequence of edges that leads from start to terminal, visits no
\* node twice, and at each of its nodes takes the only edge there is.
IsRoute(edges, start, terminal, p) ==
    /\ Ends(p, start) = terminal
    /\ \A i \in DOMAIN p : p[i].from = IF i = 1 THEN start ELSE p[i - 1].to
    /\ Cardinality(Visited(p, start)) = Len(p) + 1
    /\ \A i \in DOMAIN p : Len(Adjacency(edges, p[i].from)) = 1

Routes(edges, start, terminal) ==
    {p \in SeqOf(ToSet(edges), Len(edges)) : IsRoute(edges, start, terminal, p)}

WithinBudget(p, b) == Len(p) <= b.hops /\ Len(p) <= b.edges /\ Len(p) < b.nodes
=============================================================================
