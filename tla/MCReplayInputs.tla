--------------------------- MODULE MCReplayInputs ---------------------------
(***************************************************************************)
(* Inputs of the eight replay analyzers for model checking: flow graphs    *)
(* and amounts enumerated over small ranges, and intact replays with up to *)
(* two faults.  An input is [kind, faults, request, replay].               *)
(***************************************************************************)
EXTENDS ResultContract, MCFaults, TLC

Asked == [offline |-> TRUE, chain |-> 1, fixture |-> "F"]
Captured == [chain |-> 1, fixture |-> "F"]

-----------------------------------------------------------------------------
(* flow_path: every list of one to three transfers between four nodes.     *)

FlowTx(i, from, to, value) ==
    [label |-> i, hash |-> i, receipt |-> i, block |-> i, from |-> from, to |-> to,
     value |-> value]

FlowReplay(txs, internal, complete) ==
    Captured @@ [txs |-> txs, internal |-> internal, sources |-> <<"p", "q">>,
                 complete |-> complete]

FlowInput(request, txs, internal, complete) ==
    [kind |-> "flow_path", faults |-> {}, request |-> Asked @@ [allowed |-> {"p", "q"}] @@ request,
     replay |-> FlowReplay(txs, internal, complete)]

Budgets == {[hops |-> 3, nodes |-> 4, edges |-> 3], [hops |-> 1, nodes |-> 4, edges |-> 3],
            [hops |-> 3, nodes |-> 2, edges |-> 3], [hops |-> 3, nodes |-> 3, edges |-> 2]}

Internal == [path |-> 1, from |-> "a", to |-> "b", hex |-> 1, raw |-> 1]

PathLists == UNION {[1 .. n -> {"s", "a", "b"} \X {"s", "a", "b", "t"}] : n \in 1 .. 3}

PathInputs ==
    {FlowInput([query |-> "trace_path", seed |-> "s", terminal |-> "t", budgets |-> b,
                windows |-> {<<i, i>> : i \in DOMAIN ps}],
               [i \in DOMAIN ps |-> FlowTx(i, ps[i][1], ps[i][2], 1)], int, c) :
        ps \in PathLists, int \in {<<>>, <<Internal>>}, b \in Budgets, c \in BOOLEAN}

\* Splits of one or two units from the seed and returns of one to three.
RemergeLists == [1 .. 4 -> {<<"s", "a", 1>>, <<"s", "b", 2>>, <<"a", "m", 1>>, <<"b", "m", 1>>,
                            <<"b", "m", 3>>, <<"x", "a", 1>>}]

RemergeInputs ==
    {FlowInput([query |-> "trace_remerge", seed |-> "s", merge |-> "m", budgets |-> b,
                selected |-> DOMAIN ps, excluded |-> {}, range |-> <<1, 4>>],
               [i \in DOMAIN ps |-> FlowTx(i, ps[i][1], ps[i][2], ps[i][3])], <<>>, c) :
        ps \in RemergeLists,
        b \in {[hops |-> 2, nodes |-> 4, edges |-> 4], [hops |-> 2, nodes |-> 3, edges |-> 4]},
        c \in BOOLEAN}

AggregateLists == [1 .. 3 -> {"a", "b", "x"} \X {"e", "x"} \X {1, 4}]

AggregateInputs ==
    {FlowInput([query |-> "aggregate_origins", exit |-> "e", origins |-> {"a", "b"},
                selected |-> DOMAIN ps, budgets |-> b],
               [i \in DOMAIN ps |-> FlowTx(i, ps[i][1], ps[i][2], ps[i][3])], <<>>, c) :
        ps \in AggregateLists,
        b \in {[hops |-> 1, nodes |-> 4, edges |-> 4], [hops |-> 1, nodes |-> 3, edges |-> 4]},
        c \in BOOLEAN}

-----------------------------------------------------------------------------
(* auth: an approval of 3, of which 2 are consumed.                        *)

AuthSnapshotNames == <<"before_approval", "after_approval", "before_consumption", "after_consumption">>

\* The approved and the moved amount, whose it was, and the allowance at the four
\* blocks.
AuthAmounts(approved, moved, owner, allowances) ==
    [kind |-> "auth", faults |-> {},
     request |-> Asked @@ [allowed |-> {"p", "a", "e", "m"}, subject |-> "s", token |-> "t",
                           spender |-> "x", approval |-> "h1", consumption |-> "h2",
                           blocks |-> [l \in ToSet(AuthSnapshotNames) |-> CHOOSE k \in 1 .. 4 : AuthSnapshotNames[k] = l],
                           excluded |-> {"n1", "n2", "n3"}],
     replay |-> Captured @@ [
        subject |-> "s", token |-> "t", spender |-> "x", sources |-> <<"p", "a", "e", "m">>,
        approval |-> [
            tx |-> [id |-> 1, hash |-> "h1", from |-> "s", to |-> "t", nonce |-> 1,
                    call |-> [selector |-> "approve", args |-> <<"x", approved>>]],
            receipt |-> [id |-> 1, ok |-> TRUE, logs |-> <<
                [address |-> "t", event |-> "Approval", args |-> <<"s", "x">>,
                 data |-> <<approved>>, index |-> 1]>>]],
        consumption |-> [
            tx |-> [id |-> 2, hash |-> "h2", from |-> "s", to |-> "x", nonce |-> 2,
                    call |-> [selector |-> "multicall", args |-> <<>>]],
            receipt |-> [id |-> 2, ok |-> TRUE, logs |-> <<
                [address |-> "t", event |-> "Transfer", args |-> <<owner, "y">>,
                 data |-> <<moved>>, index |-> 2]>>],
            trace |-> <<[tx |-> "h2", from |-> "x", to |-> "t", output |-> TRUE,
                         call |-> [selector |-> "transferFrom", args |-> <<owner, "y", moved>>]]>>],
        query |-> [to |-> "t", call |-> [selector |-> "allowance", args |-> <<"s", "x">>],
                   snapshots |-> [k \in 1 .. 4 |->
                       [label |-> AuthSnapshotNames[k], tag |-> k, block |-> k, result |-> <<allowances[k]>>]]],
        excluded |-> [k \in 1 .. 3 |-> [hash |-> <<"n1", "n2", "n3">>[k], ok |-> FALSE,
                                        from |-> "s", to |-> "x", nonce |-> 326 + k]],
        explorer |-> [approval |-> "h1", approvalNonce |-> 1, consumption |-> "h2",
                      consumptionNonce |-> 2, index |-> 2, amount |-> moved]]]

AuthIntact == AuthAmounts(3, 2, "s", <<0, 3, 3, 1>>)

AuthGaps == {"trace_gone"} \X {"-"} \cup {"snapshot_gone"} \X ToSet(AuthSnapshotNames)

AuthFaults ==
    AuthGaps
    \cup {"state_differs", "other_block", "other_tag", "state_empty"}
            \X {"after_approval", "after_consumption"}
    \cup {"receipt_differs", "receipt_failed", "log_differs", "log_twice", "log_short"}
            \X {"approval", "consumption"}
    \cup {"approved_other", "outer_call", "trace_differs", "trace_elsewhere", "excluded_ok",
          "excluded_gone", "explorer_differs", "other_request", "not_allowed"} \X {"-"}

EditAuth(f, i) ==
    LET snapshots == i.replay.query.snapshots
        at(Change(_)) == [i EXCEPT !.replay.query.snapshots =
            [k \in DOMAIN @ |-> IF @[k].label = f[2] THEN Change(@[k]) ELSE @[k]]]
        trace(Change(_)) == [i EXCEPT !.replay.consumption.trace = [k \in DOMAIN @ |-> Change(@[k])]]
    IN  CASE f = NoFault -> i
          [] f[1] = "trace_gone" -> [i EXCEPT !.replay.consumption.trace = <<>>]
          [] f[1] = "snapshot_gone" ->
                 [i EXCEPT !.replay.query.snapshots = SelectSeq(@, LAMBDA s : s.label # f[2])]
          [] f[1] = "state_differs" -> at(LAMBDA s : [s EXCEPT !.result = <<5>>])
          [] f[1] = "state_empty" -> at(LAMBDA s : [s EXCEPT !.result = <<>>])
          [] f[1] = "other_block" -> at(LAMBDA s : [s EXCEPT !.block = 9, !.tag = 9])
          [] f[1] = "other_tag" -> at(LAMBDA s : [s EXCEPT !.tag = 8])
          [] f[1] = "receipt_differs" -> [i EXCEPT !.replay[f[2]].receipt.id = 9]
          [] f[1] = "receipt_failed" -> [i EXCEPT !.replay[f[2]].receipt.ok = FALSE]
          [] f[1] = "log_differs" -> [i EXCEPT !.replay[f[2]].receipt.logs[1].data = <<6>>]
          [] f[1] = "log_twice" -> [i EXCEPT !.replay[f[2]].receipt.logs = @ \o @]
          [] f[1] = "log_short" -> [i EXCEPT !.replay[f[2]].receipt.logs[1].args = <<"s">>]
          [] f[1] = "approved_other" -> [i EXCEPT !.replay.approval.tx.call.args = <<"z", 3>>]
          [] f[1] = "outer_call" -> [i EXCEPT !.replay.consumption.tx.call.selector = "other"]
          [] f[1] = "trace_differs" -> trace(LAMBDA t : [t EXCEPT !.call.args = <<"s", "z", 2>>])
          [] f[1] = "trace_elsewhere" -> trace(LAMBDA t : [t EXCEPT !.tx = "h1"])
          [] f[1] = "excluded_ok" -> [i EXCEPT !.replay.excluded[1].ok = TRUE]
          [] f[1] = "excluded_gone" -> [i EXCEPT !.replay.excluded = <<@[1], @[2]>>]
          [] f[1] = "explorer_differs" -> [i EXCEPT !.replay.explorer.amount = 1]
          [] f[1] = "other_request" -> [i EXCEPT !.request.spender = "other"]
          [] f[1] = "not_allowed" -> [i EXCEPT !.request.allowed = {"p"}]

AuthInputs ==
    Damaged({AuthIntact}, AuthFaults, EditAuth)
    \cup {[AuthAmounts(approved, moved, owner, a) EXCEPT !.faults = {<<"amounts", "-">>}] :
            approved \in 1 .. 2, moved \in 0 .. 2, owner \in {"s", "o"},
            a \in [1 .. 4 -> 0 .. 2]}

-----------------------------------------------------------------------------
(* dex: 5 in, 4 out of the pool, 4 to the user.                            *)

DexLog(address, event, args, data) ==
    [address |-> address, event |-> event, args |-> args, data |-> data, bound |-> TRUE]

\* The amounts the logs and the call tell.
DexAmounts(in, out, swap, withdrawn, paid) ==
    [kind |-> "dex", faults |-> {},
     request |-> Asked @@ [allowed |-> {"r", "m", "c"}, hash |-> "h"],
     replay |-> Captured @@ [
        sources |-> <<"r", "m", "c">>, tx |-> [id |-> 1, hash |-> "h", from |-> "u"],
        metadata |-> [assetIn |-> "A", poolOutput |-> "W", pair |-> "pair", router |-> "router",
                      historicalPair |-> "pair"],
        receipt |-> [id |-> 1, ok |-> TRUE, logs |-> <<
            DexLog("A", "Transfer", <<"u", "pair">>, <<in>>),
            DexLog("W", "Transfer", <<"pair", "router">>, <<out>>),
            DexLog("pair", "Swap", <<"router", "router">>, swap),
            DexLog("W", "Withdrawal", <<"router">>, <<withdrawn>>)>>],
        calls |-> <<[from |-> "router", to |-> "u", value |-> paid, bound |-> TRUE]>>]]

DexIntact == DexAmounts(5, 4, <<5, 0, 0, 4>>, 4, 4)
DexOther == DexAmounts(6, 6, <<6, 0, 0, 6>>, 6, 6)

DexGaps == {<<"call_gone", "-">>, <<"call_unbound", "-">>}

DexFaults ==
    DexGaps \cup {"log_gone", "log_twice", "log_unbound", "log_short"} \X (1 .. 4)
    \cup {"second_call", "call_differs", "receipt_failed", "receipt_differs", "other_pair",
          "pair_short", "second_leg", "other_request", "not_allowed"} \X {"-"}

EditDex(f, i) ==
    LET at(log, k) == IF f[1] = "log_short" THEN [log EXCEPT !.data = <<>>]
                      ELSE [log EXCEPT !.bound = FALSE]
    IN  CASE f = NoFault -> i
          [] f[1] = "call_gone" -> [i EXCEPT !.replay.calls = <<>>]
          [] f[1] = "call_unbound" ->
                 [i EXCEPT !.replay.calls = [k \in DOMAIN @ |-> [@[k] EXCEPT !.bound = FALSE]]]
          [] f[1] = "second_call" -> [i EXCEPT !.replay.calls = @ \o @]
          [] f[1] = "call_differs" ->
                 [i EXCEPT !.replay.calls = [k \in DOMAIN @ |-> [@[k] EXCEPT !.value = 3]]]
          [] f[1] = "log_gone" ->
                 [i EXCEPT !.replay.receipt.logs =
                    SelectSeq(@, LAMBDA l : l # DexIntact.replay.receipt.logs[f[2]])]
          [] f[1] = "log_twice" ->
                 [i EXCEPT !.replay.receipt.logs = @ \o <<DexOther.replay.receipt.logs[f[2]]>>]
          [] f[1] \in {"log_unbound", "log_short"} ->
                 [i EXCEPT !.replay.receipt.logs =
                    [k \in DOMAIN @ |-> IF k = f[2] THEN at(@[k], k) ELSE @[k]]]
          [] f[1] = "receipt_failed" -> [i EXCEPT !.replay.receipt.ok = FALSE]
          [] f[1] = "receipt_differs" -> [i EXCEPT !.replay.receipt.id = 2]
          [] f[1] = "other_pair" -> [i EXCEPT !.replay.metadata.historicalPair = "other"]
          [] f[1] = "pair_short" -> [i EXCEPT !.replay.metadata.historicalPair = "short"]
          [] f[1] = "second_leg" ->
                 [i EXCEPT !.replay.receipt.logs =
                    [k \in DOMAIN @ |-> IF @[k].event = "Swap" /\ Len(@[k].data) = 4
                                        THEN [@[k] EXCEPT !.data[2] = 1] ELSE @[k]]]
          [] f[1] = "other_request" -> [i EXCEPT !.request.hash = "other"]
          [] f[1] = "not_allowed" -> [i EXCEPT !.request.allowed = {"r"}]

DexInputs ==
    Damaged({DexIntact}, DexFaults, EditDex)
    \cup {[DexAmounts(in, out, <<x, 0, 0, y>>, w, p) EXCEPT !.faults = {<<"amounts", "-">>}] :
            in, out, x, y, w, p \in 1 .. 3}

-----------------------------------------------------------------------------
(* freeze: a blacklisting and its reversal.                                *)

FreezeSnapshotNames == <<"before_blacklist", "after_blacklist", "before_unblacklist", "after_unblacklist">>
FreezeParts == <<"blacklist", "unBlacklist">>
FreezeHashes == <<"h1", "h2">>
ContextNames == <<"circle_response", "circle_terms", "circle_contract", "ofac_designation",
                  "ofac_removal">>

FreezePart(k) ==
    [tx |-> [id |-> k, hash |-> FreezeHashes[k], from |-> "b", to |-> "t",
             call |-> [selector |-> FreezeParts[k], args |-> <<"x">>]],
     receipt |-> [id |-> k, block |-> k, ok |-> TRUE, logs |-> <<
         [address |-> "t", event |-> <<"Blacklisted", "UnBlacklisted">>[k], args |-> <<"x">>,
          index |-> k]>>]]

FreezeIntact ==
    [kind |-> "freeze", faults |-> {},
     request |-> Asked @@ [restricted |-> FALSE, allowed |-> {"a", "e", "i", "s", "p"},
                           token |-> "t", target |-> "x", hashes |-> FreezeHashes,
                           contexts |-> {"ofac_removal"},
                           blocks |-> [l \in ToSet(FreezeSnapshotNames) |->
                                         CHOOSE k \in 1 .. 4 : FreezeSnapshotNames[k] = l]],
     replay |-> Captured @@ [
        token |-> "t", target |-> "x", sources |-> <<"a", "e", "i", "s", "p">>,
        blacklist |-> FreezePart(1), unblacklist |-> <<FreezePart(2)>>,
        query |-> [to |-> "t", call |-> [selector |-> "isBlacklisted", args |-> <<"x">>],
                   snapshots |-> [k \in 1 .. 4 |->
                       [label |-> FreezeSnapshotNames[k], tag |-> k, block |-> k,
                        result |-> <<k \in {2, 3}>>]]],
        contexts |-> [k \in 1 .. 5 |->
            [name |-> ContextNames[k], url |-> ContextNames[k], source |-> IF k <= 3 THEN "i" ELSE "s",
             specific |-> k > 3, listed |-> k > 3]],
        interface |-> [pinned |-> TRUE, source |-> "i"],
        explorer |-> [k \in 1 .. 2 |->
            [method |-> FreezeParts[k], hash |-> FreezeHashes[k], from |-> "b", to |-> "t",
             call |-> FreezePart(k).tx.call, index |-> k]],
        publicRpc |-> [k \in 1 .. 2 |-> [hash |-> FreezeHashes[k], ok |-> TRUE, block |-> k]]]]

FreezeGaps == {"snapshot_gone"} \X ToSet(FreezeSnapshotNames) \cup {<<"release_gone", "-">>}

FreezeFaults ==
    FreezeGaps
    \cup {"state_flipped", "other_block", "state_empty"} \X ToSet(FreezeSnapshotNames)
    \cup {"receipt_failed", "receipt_differs", "other_target", "event_elsewhere", "log_twice",
          "log_short"} \X {"blacklist"}
    \cup {"other_query", "context_gone", "context_twice", "claim_about_target", "unlisted", "not_pinned",
          "explorer_differs", "public_differs", "public_gone", "other_request",
          "not_allowed", "restricted"} \X {"-"}

EditFreeze(f, i) ==
    LET at(Change(_)) == [i EXCEPT !.replay.query.snapshots =
            [k \in DOMAIN @ |-> IF @[k].label = f[2] THEN Change(@[k]) ELSE @[k]]]
        part(Change(_)) == [i EXCEPT !.replay.blacklist = Change(@)]
    IN  CASE f = NoFault -> i
          [] f[1] = "snapshot_gone" ->
                 [i EXCEPT !.replay.query.snapshots = SelectSeq(@, LAMBDA s : s.label # f[2])]
          [] f[1] = "release_gone" ->
                 [i EXCEPT !.replay.unblacklist = <<>>,
                           !.replay.explorer = SelectSeq(@, LAMBDA c : c.method = "blacklist"),
                           !.replay.publicRpc = SelectSeq(@, LAMBDA c : c.hash = "h1")]
          [] f[1] = "state_flipped" -> at(LAMBDA s : [s EXCEPT !.result = IF s.result = <<>> THEN @ ELSE <<s.label \notin {"after_blacklist", "before_unblacklist"}>>])
          [] f[1] = "state_empty" -> at(LAMBDA s : [s EXCEPT !.result = <<>>])
          [] f[1] = "other_block" -> at(LAMBDA s : [s EXCEPT !.block = 9, !.tag = 9])
          [] f[1] = "receipt_failed" -> part(LAMBDA p : [p EXCEPT !.receipt.ok = FALSE])
          [] f[1] = "receipt_differs" -> part(LAMBDA p : [p EXCEPT !.receipt.id = 9])
          [] f[1] = "other_target" -> part(LAMBDA p : [p EXCEPT !.tx.call.args = <<"y">>])
          [] f[1] = "event_elsewhere" ->
                 part(LAMBDA p : [p EXCEPT !.receipt.logs[1].args = <<"y">>])
          [] f[1] = "log_short" -> part(LAMBDA p : [p EXCEPT !.receipt.logs[1].args = <<>>])
          [] f[1] = "log_twice" -> part(LAMBDA p : [p EXCEPT !.receipt.logs = @ \o @])
          [] f[1] = "other_query" -> [i EXCEPT !.replay.query.call.args = <<"y">>]
          [] f[1] = "context_gone" ->
                 [i EXCEPT !.replay.contexts = SelectSeq(@, LAMBDA c : c.name # "circle_terms")]
          [] f[1] = "context_twice" ->
                 [i EXCEPT !.replay.contexts = @ \o <<[@[1] EXCEPT !.specific = FALSE]>>]
          [] f[1] = "claim_about_target" -> [i EXCEPT !.replay.contexts[1].specific = TRUE]
          [] f[1] = "unlisted" ->
                 [i EXCEPT !.replay.contexts =
                    [k \in DOMAIN @ |-> IF @[k].name = "ofac_removal"
                                        THEN [@[k] EXCEPT !.listed = FALSE] ELSE @[k]]]
          [] f[1] = "not_pinned" -> [i EXCEPT !.replay.interface.pinned = FALSE]
          [] f[1] = "explorer_differs" -> [i EXCEPT !.replay.explorer[1].index = 9]
          [] f[1] = "public_differs" -> [i EXCEPT !.replay.publicRpc[1].block = 9]
          [] f[1] = "public_gone" -> [i EXCEPT !.replay.publicRpc = <<@[1]>>]
          [] f[1] = "other_request" -> [i EXCEPT !.request.target = "other"]
          [] f[1] = "not_allowed" -> [i EXCEPT !.request.allowed = {"a"}]
          [] f[1] = "restricted" -> [i EXCEPT !.request.restricted = TRUE]

FreezeInputs == Damaged({FreezeIntact}, FreezeFaults, EditFreeze)

-----------------------------------------------------------------------------
(* evm_core: the four queries.                                             *)

CoreInput(faults, request, replay) ==
    [kind |-> "evm_core", faults |-> faults,
     request |-> Asked @@ [allowed |-> {"p", "q"}] @@ request,
     replay |-> Captured @@ [query |-> request.query, sources |-> <<"p", "q">>] @@ replay]

\* Two address codes, one of which may not have been captured; either may be
\* captured twice, and the last answer is the one that counts.
ObjectInputs ==
    {CoreInput({}, [query |-> "object_summary", block |-> b, values |-> values, fee |-> fee],
               [tx |-> [id |-> 1, hash |-> "h", blockHash |-> "bh", blockNumber |-> 4],
                receipt |-> [id |-> r, gasUsed |-> 2, gasPrice |-> 3],
                block |-> [hash |-> "bh", number |-> 4], codes |-> codes]) :
        b \in {4, 5}, r \in {1, 2}, fee \in BOOLEAN,
        values \in {<<[form |-> "text", v |-> "h"], [form |-> "address", v |-> "A"]>>,
                    <<[form |-> "address", v |-> "B"], [form |-> "address", v |-> "A"]>>,
                    <<[form |-> "badaddress", v |-> "Z"]>>,
                    <<[form |-> "text", v |-> "bh"], [form |-> "number", v |-> "4"],
                      [form |-> "text", v |-> "zz"]>>},
        codes \in UNION {[1 .. n -> [address : {"A", "B"}, block : {4, 5}, code : {<<>>, <<1>>}]] :
                           n \in 1 .. 2}}

BalanceInputs ==
    {CoreInput({}, [query |-> "historical_balance", subject |-> "s", block |-> 4,
                    timestamp |-> ts,
                    assets |-> <<[type |-> "native", symbol |-> "ETH", token |-> "-"],
                                 [type |-> "erc20", symbol |-> "X", token |-> "t"],
                                 [type |-> "erc20", symbol |-> "X", token |-> "u"]>>],
               [subject |-> "s", block |-> [number |-> 4, timestamp |-> 40], native |-> n,
                states |-> states]) :
        ts \in {40, 41}, n \in {1, 8},
        states \in UNION {[1 .. k -> [token : {"t", "u"}, balance : {<<>>, <<2>>}, decimals : {<<6>>}]] :
                            k \in 0 .. 3}}

TransferLists ==
    UNION {[1 .. n -> [address : {"t"}, event : {"Transfer"}, args : {<<"s", "y">>, <<"z", "y">>},
                       at : {<<1, 1, 1>>, <<2, 1, 3>>, <<2, 2, 1>>, <<5, 1, 1>>},
                       data : {<<0>>, <<1>>, <<2>>}]] : n \in 0 .. 2}

TransferInputs ==
    {CoreInput({}, [query |-> "first_token_transfer", subject |-> "s", token |-> "t",
                    start |-> st],
               [start |-> 2, end |-> 4, complete |-> c, logs |-> logs]) :
        logs \in TransferLists, c \in BOOLEAN, st \in {2, 3}}

InflowInputs ==
    {CoreInput({}, [query |-> "native_inflow", hash |-> h, interest |-> "s"],
               [tx |-> [hash |-> "h", value |-> 0], complete |-> c, calls |-> calls]) :
        h \in {"h", "k"}, c \in BOOLEAN,
        calls \in UNION {[1 .. n -> [tx : {"h", "k"}, to : {"s", "y"}, value : {0, 1, 5}]] :
                           n \in 0 .. 2}}
=============================================================================
