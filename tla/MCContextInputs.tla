--------------------------- MODULE MCContextInputs ---------------------------
(***************************************************************************)
(* Inputs of the evm_special, bitcoin_utxo and intel_context analyzers for *)
(* model checking, as in MCReplayInputs.                                   *)
(***************************************************************************)
EXTENDS ResultContract, MCFaults, TLC

Query(name) == [offline |-> TRUE, chain |-> 1, fixture |-> "F", query |-> name]
Replayed(name) == [chain |-> 1, fixture |-> "F", query |-> name]

-----------------------------------------------------------------------------
(* evm_special, NFT activity: lists of two or three logs in any order.     *)

NftLog(event, args, data, at) ==
    [address |-> "t", event |-> event, args |-> args, data |-> data, at |-> at,
     hash |-> <<"h", at[1]>>]

\* A transfer in and one out, an operator approval given and withdrawn, an
\* approval of a moved token and of another, and a log with too few topics.
Logs721 ==
    {NftLog("Transfer", <<"y", "s", 1>>, <<>>, <<1, 1, 2>>),
     NftLog("Transfer", <<"s", "y", 1>>, <<>>, <<2, 1, 1>>),
     NftLog("Transfer", <<"s", "y">>, <<>>, <<2, 1, 3>>),
     NftLog("ApprovalForAll", <<"s", "o">>, <<1>>, <<1, 1, 3>>),
     NftLog("ApprovalForAll", <<"s", "o">>, <<0>>, <<2, 1, 2>>),
     NftLog("Approval", <<"s", "zero", 1>>, <<>>, <<1, 1, 1>>),
     NftLog("Approval", <<"s">>, <<>>, <<2, 2, 4>>)}

Logs1155 ==
    {NftLog("TransferSingle", <<"o", "y", "s">>, <<1, 2>>, <<1, 1, 2>>),
     NftLog("TransferSingle", <<"o", "s", "y">>, <<1, 2>>, <<2, 1, 1>>),
     NftLog("TransferSingle", <<"o", "s", "y">>, <<1>>, <<2, 1, 4>>),
     NftLog("ApprovalForAll", <<"s", "o">>, <<1>>, <<1, 1, 3>>),
     NftLog("ApprovalForAll", <<"s", "o">>, <<0>>, <<2, 1, 2>>),
     NftLog("TransferBatch", <<"o", "s", "y">>, <<<<1, 2>>, <<1, 1>>>>, <<2, 1, 3>>),
     NftLog("TransferBatch", <<"o", "s", "y">>, <<<<1, 2>>, <<1>>>>, <<2, 2, 5>>)}

NftLists(logs, n) == {l \in UNION {[1 .. k -> logs] : k \in 1 .. n} : IsInjective(l)}

NftInputs(hint, lists) ==
    {[kind |-> "evm_special", faults |-> {},
      request |-> Query("nft_activity")
                    @@ [allowed |-> {"p", "q"}, hint |-> "auto", token |-> "t", subject |-> "s",
                        approvals |-> approvals],
      replay |-> Replayed("nft_activity")
                    @@ [sources |-> <<"p", "q">>, hint |-> hint, logs |-> logs,
                        complete |-> complete,
                        receipts |-> [k \in 1 .. 2 |-> [hash |-> <<"h", k>>, block |-> k]],
                        windows |-> <<<<1, 1>>, <<2, 2>>>>]] :
        logs \in lists, approvals \in BOOLEAN, complete \in BOOLEAN}

-----------------------------------------------------------------------------
(* evm_special, proxy history: an upgrade at block 5 and four slots.       *)

Slot(role, slot, block, word) == [role |-> role, slot |-> slot, block |-> block, word |-> word]

ProxyIntact ==
    [kind |-> "evm_special", faults |-> {},
     request |-> Query("proxy_history")
                   @@ [allowed |-> {"p", "q"}, proxy |-> "x", admin |-> TRUE],
     replay |-> Replayed("proxy_history")
                   @@ [sources |-> <<"p", "q">>, complete |-> TRUE,
                       logs |-> <<[NftLog("Upgraded", <<"new">>, <<>>, <<5, 1, 1>>)
                                     EXCEPT !.address = "x"]>>,
                       receipt |-> [hash |-> <<"h", 5>>, block |-> 5],
                       snapshots |-> <<Slot("implementation_before", "implementation", 4, "old"),
                                       Slot("implementation_after", "implementation", 5, "new"),
                                       Slot("admin_before", "admin", 4, "adm"),
                                       Slot("admin_after", "admin", 5, "adm")>>]]

ProxyRoles == {"implementation_before", "implementation_after", "admin_before", "admin_after"}

ProxyGaps == {"slot_gone"} \X ProxyRoles \cup {<<"scan_open", "-">>}

ProxyFaults ==
    ProxyGaps \cup {"slot_block", "slot_other"} \X ProxyRoles
    \cup {"word_differs", "second_upgrade", "event_short", "receipt_differs", "other_query",
          "not_allowed"} \X {"-"}

EditProxy(f, i) ==
    LET at(Change(_)) == [i EXCEPT !.replay.snapshots =
            [k \in DOMAIN @ |-> IF @[k].role = f[2] THEN Change(@[k]) ELSE @[k]]]
    IN  CASE f = NoFault -> i
          [] f[1] = "slot_gone" ->
                 [i EXCEPT !.replay.snapshots = SelectSeq(@, LAMBDA s : s.role # f[2])]
          [] f[1] = "scan_open" -> [i EXCEPT !.replay.complete = FALSE]
          [] f[1] = "slot_block" -> at(LAMBDA s : [s EXCEPT !.block = 9])
          [] f[1] = "slot_other" -> at(LAMBDA s : [s EXCEPT !.slot = "other"])
          [] f[1] = "word_differs" -> [i EXCEPT !.replay.logs[1].args = <<"third">>]
          [] f[1] = "event_short" -> [i EXCEPT !.replay.logs[1].args = <<>>]
          [] f[1] = "second_upgrade" -> [i EXCEPT !.replay.logs = @ \o @]
          [] f[1] = "receipt_differs" -> [i EXCEPT !.replay.receipt.block = 6]
          [] f[1] = "other_query" -> [i EXCEPT !.replay.query = "nft_activity"]
          [] f[1] = "not_allowed" -> [i EXCEPT !.request.allowed = {"p"}]

\* The slots captured twice: the second answers count.
ProxyTwice(first, second) ==
    [second EXCEPT !.replay.snapshots = first.replay.snapshots \o @]

ProxyRepeated ==
    LET word(role) == [ProxyIntact EXCEPT !.replay.snapshots =
            [k \in DOMAIN @ |-> IF @[k].role = role THEN [@[k] EXCEPT !.word = "else"] ELSE @[k]]]
        bad(f) == [EditProxy(f, ProxyIntact) EXCEPT !.faults = {f}]
        others == {bad(f) : f \in {"slot_block", "slot_other"} \X ProxyRoles}
                    \cup {word(role) : role \in ProxyRoles \ {"implementation_after"}}
    IN  {ProxyTwice(i, ProxyIntact) : i \in others} \cup {ProxyTwice(ProxyIntact, i) : i \in others}

ProxyInputs == Damaged({ProxyIntact}, ProxyFaults, EditProxy) \cup ProxyRepeated

-----------------------------------------------------------------------------
(* bitcoin_utxo: a transaction of 6 in and 2 + 3 out, and the one that     *)
(* spends its first or second output.                                      *)

BtcRoles == <<"primary", "verify", "supporting">>
BtcIds == <<"publicnode.bitcoin", "mempool.space", "blockstream.info">>

BtcInput(txid, vout, value) == [txid |-> txid, vout |-> vout, value |-> value, address |-> "A"]
BtcOutput(n, value, address) ==
    [vout |-> n, value |-> value, address |-> address, script |-> "key"]

BtcAnswer(txid, block, fee, inputs, outputs) ==
    [txid |-> txid, block |-> block, fee |-> fee, vin |-> inputs,
     vout |-> [k \in DOMAIN outputs |->
                 [n |-> outputs[k].vout, value |-> outputs[k].value,
                  address |-> outputs[k].address, script |-> outputs[k].script]]]

\* The node answers in tenths of a satoshi.
BtcNodeAnswer(answer) ==
    [answer EXCEPT !.vout = [k \in DOMAIN @ |-> [@[k] EXCEPT !.value = 10 * @]]]

BtcProviders(n, txid, answer) ==
    [k \in 1 .. n |-> [id |-> BtcIds[k], role |-> BtcRoles[k], sha |-> <<txid, k>>,
                       body |-> <<IF k = 1 THEN BtcNodeAnswer(answer) ELSE answer>>]]

BtcIntact(providers, vout) ==
    LET inputs == <<BtcInput("i1", 0, 4), BtcInput("i2", 0, 2)>>
        outputs == <<BtcOutput(0, 2, "B"), BtcOutput(1, 3, "A")>>
        spent == outputs[vout + 1]
        created == <<BtcOutput(0, spent.value - 1, "C")>>
    IN  [kind |-> "bitcoin_utxo", faults |-> {},
         request |-> Query("assess_heuristics")
                       @@ [allowed |-> {"DS-BTC-NODE", "DS-BTC-API"}, txid |-> "t1",
                           startVout |-> vout, maxHops |-> 2],
         replay |-> [fixture |-> "F", sources |-> <<"DS-BTC-NODE", "DS-BTC-API">>,
             tx |-> [txid |-> "t1", block |-> 1, fee |-> 1, inputs |-> inputs,
                     outputs |-> outputs,
                     providers |-> BtcProviders(providers, "t1", BtcAnswer("t1", 1, 1, inputs, outputs))],
             path |-> <<[depth |-> 1, spentTx |-> "t1", spentVout |-> vout,
                         value |-> spent.value, spendingTx |-> "t2", spendingVin |-> 0,
                         block |-> 2, fee |-> 1, created |-> created,
                         providers |-> BtcProviders(providers, "t2",
                             BtcAnswer("t2", 2, 1, <<BtcInput("t1", vout, spent.value)>>,
                                       created))]>>]]

BtcGaps == {<<"path_gone", "-">>}

\* What one provider answers otherwise about the transaction or the spend.
BtcFaults ==
    BtcGaps
    \cup {"root_block", "root_value", "hop_value", "hop_spends", "hop_gone", "hop_no_address",
          "hop_script"} \X (1 .. 2)
    \cup {"root_supporting", "hop_supporting", "hop_fee", "replay_fee", "replay_hop", "same_sha",
          "other_txid", "other_start", "not_allowed"} \X {"-"}

EditBtc(f, i) ==
    LET root(k, Change(_)) ==
            [i EXCEPT !.replay.tx.providers[k].body = [b \in DOMAIN @ |-> Change(@[b])]]
        hop(k, Change(_)) ==
            [i EXCEPT !.replay.path = [h \in DOMAIN @ |->
                [@[h] EXCEPT !.providers[k].body = [b \in DOMAIN @ |-> Change(@[b])]]]]
        third == Len(i.replay.tx.providers)
    IN  CASE f = NoFault -> i
          [] f[1] = "path_gone" -> [i EXCEPT !.replay.path = <<>>]
          [] f[1] = "root_block" -> root(f[2], LAMBDA b : [b EXCEPT !.block = 9])
          [] f[1] = "root_value" ->
                 root(f[2], LAMBDA b : [b EXCEPT !.vout[1].value = IF f[2] = 1 THEN 70 ELSE 7])
          [] f[1] = "hop_value" ->
                 hop(f[2], LAMBDA b : [b EXCEPT !.vout[1].value = IF f[2] = 1 THEN 70 ELSE 8])
          [] f[1] = "hop_spends" -> hop(f[2], LAMBDA b : [b EXCEPT !.vin[1].vout = 5])
          [] f[1] = "hop_no_address" ->
                 hop(f[2], LAMBDA b : [b EXCEPT !.vout[1].address = "none"])
          [] f[1] = "hop_script" -> hop(f[2], LAMBDA b : [b EXCEPT !.vout[1].script = "other"])
          [] f[1] = "hop_gone" ->
                 [i EXCEPT !.replay.path =
                    [h \in DOMAIN @ |-> [@[h] EXCEPT !.providers[f[2]].body = <<>>]]]
          [] f[1] = "root_supporting" -> root(third, LAMBDA b : [b EXCEPT !.fee = 9])
          [] f[1] = "hop_supporting" -> hop(third, LAMBDA b : [b EXCEPT !.block = 9])
          [] f[1] = "hop_fee" -> hop(2, LAMBDA b : [b EXCEPT !.fee = 8])
          [] f[1] = "replay_fee" -> [i EXCEPT !.replay.tx.fee = 2]
          [] f[1] = "replay_hop" ->
                 [i EXCEPT !.replay.path = [h \in DOMAIN @ |-> [@[h] EXCEPT !.value = 1]]]
          [] f[1] = "same_sha" ->
                 [i EXCEPT !.replay.tx.providers = [k \in DOMAIN @ |-> [@[k] EXCEPT !.sha = <<>>]]]
          [] f[1] = "other_txid" -> [i EXCEPT !.request.txid = "other"]
          [] f[1] = "other_start" -> [i EXCEPT !.request.startVout = 9]
          [] f[1] = "not_allowed" -> [i EXCEPT !.request.allowed = {"DS-BTC-API"}]

\* The node tells a part of a satoshi more, of the transaction and of the spend.
BtcPartly(i) ==
    LET more(b) == [b EXCEPT !.vout = [k \in DOMAIN @ |-> [@[k] EXCEPT !.value = @ + 9]]]
    IN  [i EXCEPT !.replay.tx.providers[1].body[1] = more(@),
                  !.replay.path[1].providers[1].body[1] = more(@)]

BtcInputs ==
    LET intact == {BtcIntact(n, vout) : n \in 2 .. 3, vout \in 0 .. 1}
    IN  Damaged(intact, BtcFaults, EditBtc) \cup {BtcPartly(i) : i \in intact}

-----------------------------------------------------------------------------
(* intel_context: the five queries.                                        *)

IntelRecords == <<[name |-> "n1", source |-> "p", ref |-> "r1"],
                  [name |-> "n2", source |-> "q", ref |-> "r2"]>>

IntelInput(query, request, replay) ==
    [kind |-> "intel_context", faults |-> {},
     request |-> Query(query) @@ [allowed |-> {"p", "q"}] @@ request,
     replay |-> Replayed(query) @@ [sources |-> IntelRecords] @@ replay]

Relation(subject) == [subject |-> subject, amount |-> 2, fixture |-> "X", relation |-> subject]

\* The two actions are of two dates or of one.
SanctionsIntact ==
    {IntelInput("check_sanctions_exposure",
                [subjects |-> {"s"}, snapshotRef |-> "r1", actions |-> <<<<d, "off">>, <<1, "on">>>>],
                [subject |-> "s", snapshot |-> [subject |-> "s", matches |-> 0],
                 actions |-> <<[date |-> d, action |-> "off", matches |-> 1],
                               [date |-> 1, action |-> "on", matches |-> 1]>>]) : d \in 1 .. 2}

IntelIntact ==
    SanctionsIntact \cup
    {IntelInput("collect_label_claims",
                [subjects |-> {"s"}, block |-> 4, refs |-> {"r1", "r2"}, maxSources |-> 2],
                [subject |-> "s", ens |-> [address |-> "s", block |-> 4], categories |-> {"c"},
                 role |-> "r"]),
     IntelInput("resolve_identity_clues",
                [subjects |-> {"s"}, names |-> {"n"}, block |-> 4, replayRef |-> "r2"],
                [forward |-> [name |-> "n", address |-> "s"], block |-> 4,
                 reverse |-> [name |-> "n", address |-> "s"]]),
     IntelInput("find_common_funder",
                [subjects |-> {"a", "b"}, sourceFixture |-> "X", range |-> <<1, 4>>],
                [relations |-> <<Relation("a"), Relation("b")>>, sourceFixture |-> "X",
                 range |-> <<1, 4>>]),
     IntelInput("score_actor_relations",
                [hub |-> "h", subjects |-> {"a", "b"}, fixtures |-> {"X"}, weights |-> <<"b", "a">>],
                [hub |-> "h", relations |-> <<Relation("a"), Relation("b")>>])}

IntelFaults == {"other_fixture", "other_query", "not_allowed", "record_twice", "ref_twice",
                "not_asked", "answer_differs", "too_late", "relation_twice"} \X {"-"}

EditIntel(f, i) ==
    LET has(field) == field \in DOMAIN i.replay
        query == i.replay.query
        other == IF query = "find_common_funder" THEN "score_actor_relations"
                 ELSE "find_common_funder"
    IN  CASE f = NoFault -> i
          [] f[1] = "other_fixture" -> [i EXCEPT !.request.fixture = "other"]
          [] f[1] = "other_query" -> [i EXCEPT !.request.query = other]
          [] f[1] = "not_allowed" -> [i EXCEPT !.request.allowed = {"p"}]
          [] f[1] = "record_twice" -> [i EXCEPT !.replay.sources[2].name = "n1"]
          [] f[1] = "ref_twice" -> [i EXCEPT !.replay.sources[2].ref = "r1"]
          [] f[1] = "not_asked" -> [i EXCEPT !.request.subjects = {"z"}]
          [] f[1] = "answer_differs" ->
                (CASE query = "collect_label_claims" -> [i EXCEPT !.replay.ens.address = "z"]
                   [] query = "check_sanctions_exposure" -> [i EXCEPT !.replay.snapshot.subject = "z"]
                   [] query = "resolve_identity_clues" -> [i EXCEPT !.replay.reverse.address = "z"]
                   [] query = "find_common_funder" -> [i EXCEPT !.replay.sourceFixture = "z"]
                   [] query = "score_actor_relations" -> [i EXCEPT !.replay.hub = "z"])
          [] f[1] = "too_late" ->
                (CASE query = "collect_label_claims" -> [i EXCEPT !.replay.ens.block = 5]
                   [] query = "check_sanctions_exposure" -> [i EXCEPT !.replay.actions[1].date = 3]
                   [] query = "resolve_identity_clues" -> [i EXCEPT !.replay.block = 5]
                   [] query = "find_common_funder" -> [i EXCEPT !.replay.range = <<1, 5>>]
                   [] query = "score_actor_relations" -> [i EXCEPT !.request.weights = <<"a", "a">>])
          [] f[1] = "relation_twice" ->
                 IF has("relations") THEN [i EXCEPT !.replay.relations = @ \o @]
                 ELSE IF has("actions") THEN [i EXCEPT !.replay.actions = @ \o @]
                 ELSE [i EXCEPT !.request.query = other]

IntelInputs == Damaged(IntelIntact, IntelFaults, EditIntel)
=============================================================================
