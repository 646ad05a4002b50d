--------------------------- MODULE MCPackageInputs ---------------------------
(***************************************************************************)
(* Inputs of the five package analyzers for model checking: a package that *)
(* is intact, and what is left of it after up to two faults.  A fault is   *)
(* <<what, where>>, an input [kind, faults, request, package, replay].     *)
(* Gaps are the faults that only take something away; every other fault    *)
(* makes two pieces of the package, or the package and the request, say    *)
(* different things.                                                       *)
(***************************************************************************)
EXTENDS ReplayPackage, MCFaults, TLC

Request == [offline |-> TRUE, fixture |-> "F"]

\* The three stored answers about one transaction, and its logs.
Leg(hash, tag, from, to, value, logs) ==
    [tx |-> [hash |-> hash, block |-> tag, blockHash |-> <<"B", tag>>, from |-> from,
             to |-> to, value |-> value, index |-> 1],
     receipt |-> [tx |-> hash, block |-> tag, success |-> TRUE, blockHash |-> <<"B", tag>>,
                  from |-> from, to |-> to, index |-> 1, logs |-> logs],
     block |-> [number |-> tag, hash |-> <<"B", tag>>, transactions |-> <<hash>>],
     logs |-> logs]

Digests(provider, i, capabilities) == [c \in capabilities |-> <<provider, i, c>>]
Artifacts(digests) == [c \in DOMAIN digests |-> [uri |-> digests[c], file |-> "ok"]]

-----------------------------------------------------------------------------
(* Faults of one observation, the same for four analyzers: "A" and "B" are *)
(* two observations of the package.                                        *)

ArtifactGaps == {"artifact_gone", "artifact_unnamed"}
ArtifactConflicts == {"artifact_altered", "artifact_unpinned", "receipt_failed",
                      "block_differs", "hash_differs"}
ArtifactFaults == (ArtifactGaps \cup ArtifactConflicts) \X {"A", "B"}

EditObservation(what, o) ==
    CASE what = "artifact_gone" -> [o EXCEPT !.artifacts.receipt.file = "missing"]
      [] what = "artifact_unnamed" -> [o EXCEPT !.artifacts.transaction.uri = Missing]
      [] what = "artifact_altered" -> [o EXCEPT !.artifacts.block.file = "altered"]
      [] what = "artifact_unpinned" -> [o EXCEPT !.artifacts.transaction.uri = <<"other">>]
      [] what = "receipt_failed" -> [o EXCEPT !.body.receipt.success = FALSE]
      [] what = "block_differs" -> [o EXCEPT !.body.block.hash = <<"other">>]
      [] what = "hash_differs" -> [o EXCEPT !.body.tx.hash = "other"]
      [] what = "value_differs" -> [o EXCEPT !.body.tx.value = @ + 1]
      [] what = "position_differs" -> [o EXCEPT !.body.tx.index = @ + 1]
      [] what = "role_swapped" -> [o EXCEPT !.provider = "other"]

AtObservations(i, Chosen(_), Change(_)) ==
    [i EXCEPT !.replay.observations =
        [k \in DOMAIN @ |-> IF Chosen(@[k]) THEN Change(@[k]) ELSE @[k]]]

AtProviders(i, Change(_)) ==
    [i EXCEPT !.package.pins.providers = [k \in DOMAIN @ |-> Change(@[k])]]

\* Faults of the package around the observations, where the analyzer has the part.
PackageGaps == {<<"pins_gone", "-">>, <<"provider_gone", "-">>, <<"observation_gone", "-">>,
                <<"label_gone", "-">>, <<"meta_gone", "-">>}

EditPackage(f, i) ==
    CASE f = NoFault -> i
      [] f[1] = "pins_gone" -> [i EXCEPT !.package.pins.file = "missing"]
      [] f[1] = "pins_malformed" -> [i EXCEPT !.package.pins.file = "malformed"]
      [] f[1] = "pin_repeated" ->
             [i EXCEPT !.package.pins.providers = @ \o <<@[1]>>]
      [] f[1] = "provider_gone" -> [i EXCEPT !.package.pins.providers = <<@[1]>>]
      [] f[1] = "same_endpoint" -> AtProviders(i, LAMBDA p : [p EXCEPT !.endpoint = "same"])
      [] f[1] = "label_gone" -> [i EXCEPT !.package.label.file = "missing"]
      [] f[1] = "label_malformed" -> [i EXCEPT !.package.label.file = "malformed"]
      [] f[1] = "meta_gone" -> [i EXCEPT !.package.meta.file = "missing"]
      [] f[1] = "meta_other" -> [i EXCEPT !.package.meta.envelope = FALSE]
      [] f[1] = "capture_other" ->
             [i EXCEPT !.package.meta.entries = {[e EXCEPT !.sha = <<"other">>] : e \in @}]
      [] f[1] = "observation_gone" ->
             [i EXCEPT !.replay.observations = SelectSeq(@, LAMBDA o : ~(o.role = "VERIFY" /\ o.index = 2))]
      [] f[1] = "other_request" -> [i EXCEPT !.request.fixture = "other"]
      [] f[1] = "not_allowed" -> [i EXCEPT !.request.allowed = {}]
      [] f[1] = "other_window" -> [i EXCEPT !.request.window = <<0, 0>>]

-----------------------------------------------------------------------------
(* cex_cluster: two transfers, each observed by two providers.             *)

CexPair(role) == CASE role = "PRIMARY" -> "P" [] role = "VERIFY" -> "V"

CexTransfers == <<[source |-> "a", hash |-> "h1", block |-> 1, tag |-> 1],
                  [source |-> "b", hash |-> "h2", block |-> 3, tag |-> 3]>>
CexAmounts == <<2, 3>>

Caps == ToSet(RpcCapabilities)

CexObservation(role, i) ==
    [index |-> i, role |-> role, provider |-> CexPair(role),
     artifacts |-> Artifacts(Digests(CexPair(role), i, Caps)),
     body |-> Leg(CexTransfers[i].hash, CexTransfers[i].tag, CexTransfers[i].source, "w",
                  CexAmounts[i], <<>>)]

CexIntact ==
    [kind |-> "cex_cluster", faults |-> {},
     request |-> Request @@ [allowed |-> {"DS-EVM-RPC-ARCHIVE", "DS-SANCTIONS-PUBLIC"},
                             order |-> {"DS-EVM-RPC-ARCHIVE", "DS-SANCTIONS-PUBLIC"},
                             deposits |-> {"a", "b"}, window |-> <<1, 3>>, hotWallet |-> "w"],
     package |-> [pins |-> [file |-> "ok", providers |->
                     <<[id |-> "P", role |-> "PRIMARY", endpoint |-> "p",
                        sha |-> [i \in 1 .. 2 |-> Digests("P", i, Caps)]],
                       [id |-> "V", role |-> "VERIFY", endpoint |-> "v",
                        sha |-> [i \in 1 .. 2 |-> Digests("V", i, Caps)]]>>],
                  label |-> [file |-> "ok", listed |-> {"a", "b"}]],
     replay |-> [fixture |-> "F", window |-> <<1, 3>>, hotWallet |-> "w", deposits |-> {"a", "b"},
                 transfers |-> CexTransfers,
                 observations |-> <<CexObservation("PRIMARY", 1), CexObservation("PRIMARY", 2),
                                    CexObservation("VERIFY", 1), CexObservation("VERIFY", 2)>>]]

CexFaults ==
    ArtifactFaults
    \cup {"value_differs", "position_differs", "role_swapped"} \X {"A"}
    \cup {"pins_gone", "pins_malformed", "pin_repeated", "provider_gone", "same_endpoint",
          "label_gone", "label_malformed", "observation_gone", "other_request", "not_allowed",
          "other_window", "outside_window", "not_deposit", "one_source"} \X {"-"}

\* "A" is the verifier's view of the second transfer, "B" the primary's of the first.
At(where, o) ==
    IF where = "A" THEN o.role = "VERIFY" /\ o.index = 2 ELSE o.role = "PRIMARY" /\ o.index = 1

EditCex(f, i) ==
    CASE f[2] \in {"A", "B"} ->
             AtObservations(i, LAMBDA o : At(f[2], o), LAMBDA o : EditObservation(f[1], o))
      [] f[1] = "outside_window" -> [i EXCEPT !.replay.transfers[1].block = 0]
      [] f[1] = "not_deposit" -> [i EXCEPT !.replay.deposits = {"a"}, !.request.deposits = {"a"}]
      [] f[1] = "one_source" -> [i EXCEPT !.replay.transfers[2].source = "a"]
      [] OTHER -> EditPackage(f, i)

\* A request may leave the hot wallet out.
CexInputs ==
    Damaged({CexIntact}, CexFaults, EditCex) \cup {[CexIntact EXCEPT !.request.hotWallet = Missing]}

-----------------------------------------------------------------------------
(* mixer_flow: a deposit and one or two withdrawals.                       *)

MixEvents(n) ==
    <<[kind |-> "deposit", hash |-> "h1", block |-> 1, tag |-> 1],
      [kind |-> "withdraw", hash |-> "h2", block |-> 2, tag |-> 2],
      [kind |-> "withdraw", hash |-> "h3", block |-> 3, tag |-> 3]>>[n]

MixProvider(role) == IF role = "PRIMARY" THEN "PUBLICNODE" ELSE "MERKLE"
MixEndpoint(role) == IF role = "PRIMARY" THEN "publicnode" ELSE "merkle"

MixObservation(role, i) ==
    LET e == MixEvents(i)
    IN  [index |-> i, role |-> role, provider |-> MixProvider(role),
         artifacts |-> Artifacts(Digests(MixProvider(role), i, Caps)),
         body |-> Leg(e.hash, e.tag, "s", "pool", 1,
                      <<[kind |-> e.kind, who |-> "s", note |-> <<"note", i>>, fee |-> 0]>>)]

MixIntact(n) ==
    LET roles == <<"PRIMARY", "VERIFY">>
    IN  [kind |-> "mixer_flow", faults |-> {},
         request |-> Request @@ [allowed |-> {"DS-EVM-RPC-ARCHIVE", "DS-SANCTIONS-PUBLIC"},
                                 order |-> {"DS-EVM-RPC-ARCHIVE", "DS-SANCTIONS-PUBLIC"},
                                 subject |-> "s", pool |-> "pool", window |-> <<1, 3>>],
         package |-> [pins |-> [file |-> "ok", providers |-> [k \in 1 .. 2 |->
                         [id |-> MixProvider(roles[k]), role |-> roles[k],
                          endpoint |-> MixEndpoint(roles[k]), late |-> FALSE,
                          order |-> [i \in 1 .. n |-> n + 1 - i],
                          sha |-> [i \in 1 .. n |-> Digests(MixProvider(roles[k]), i, Caps)]]]],
                      label |-> [file |-> "ok", listed |-> {"pool"}],
                      meta |-> [file |-> "ok", envelope |-> TRUE, entries |->
                         {[role |-> r, provider |-> MixProvider(r), endpoint |-> MixEndpoint(r),
                           capability |-> c,
                           about |-> IF c = "block" THEN [block |-> MixEvents(i).tag]
                                     ELSE [tx |-> MixEvents(i).hash],
                           sha |-> <<MixProvider(r), i, c>>] :
                            r \in {"PRIMARY", "VERIFY"}, c \in Caps, i \in 1 .. n}]],
         replay |-> [fixture |-> "F", window |-> <<1, 3>>, subject |-> "s", pool |-> "pool",
                     late |-> FALSE, events |-> [i \in 1 .. n |-> MixEvents(i)],
                     observations |-> [k \in 1 .. 2 * n |->
                         MixObservation(roles[((k - 1) \div n) + 1], ((k - 1) % n) + 1)]]]

MixFaults ==
    ArtifactFaults
    \cup {"value_differs"} \X {"B"}
    \cup {"note_differs", "position_differs", "role_swapped"} \X {"A"}
    \cup {"pins_gone", "pins_malformed", "pin_repeated", "provider_gone", "same_endpoint",
          "label_gone", "label_malformed", "meta_gone", "meta_other", "capture_other",
          "observation_gone", "other_request", "not_allowed", "other_window",
          "outside_window", "late", "same_digest", "other_subject"} \X {"-"}

EditMix(f, i) ==
    CASE f[1] = "note_differs" ->
             AtObservations(i, LAMBDA o : At(f[2], o),
                            LAMBDA o : [o EXCEPT !.body.receipt.logs[1].note = <<"other">>])
      [] f[2] \in {"A", "B"} /\ f[1] # "note_differs" ->
             AtObservations(i, LAMBDA o : At(f[2], o), LAMBDA o : EditObservation(f[1], o))
      [] f[1] = "outside_window" -> [i EXCEPT !.replay.events[1].block = 0]
      [] f[1] = "late" -> [i EXCEPT !.replay.late = TRUE]
      [] f[1] = "other_subject" -> [i EXCEPT !.request.subject = "other"]
      [] f[1] = "same_digest" ->
             AtProviders(i, LAMBDA p : [p EXCEPT !.sha[1]["block"] = <<"same">>])
      [] OTHER -> EditPackage(f, i)

\* A replay may hold a second deposit, which is checked and not reported.
MixTwoDeposits ==
    LET second(l) == [l EXCEPT !.kind = "deposit"]
    IN  AtObservations([MixIntact(3) EXCEPT !.replay.events[2] = second(@)],
                       LAMBDA o : o.index = 2,
                       LAMBDA o : [o EXCEPT !.body.receipt.logs[1] = second(@)])

\* Of a deposit's log only the leaf is looked at.
MixOtherDepositor ==
    AtObservations(MixIntact(2), LAMBDA o : o.index = 1 /\ o.role = "VERIFY",
                   LAMBDA o : [o EXCEPT !.body.receipt.logs[1].who = "other"])

MixInputs ==
    Damaged({MixIntact(n) : n \in 2 .. 3}, MixFaults, EditMix)
    \cup {MixTwoDeposits, MixOtherDepositor}

-----------------------------------------------------------------------------
(* defi_lending: one liquidation, its three Transfers and a smaller one.   *)

Transfer(address, index, from, to, amount) ==
    [kind |-> "transfer", address |-> address, index |-> index, bound |-> TRUE,
     valid |-> TRUE, from |-> from, to |-> to, amount |-> amount]

LendingLogs ==
    <<[kind |-> "liquidation", address |-> "pool", tx |-> "h", index |-> 1, bound |-> TRUE,
       valid |-> TRUE, padded |-> TRUE, collateral |-> "C", debt |-> "D", user |-> "u", liquidator |-> "s", debtRaw |-> 2,
       collateralRaw |-> 3, aToken |-> FALSE],
      Transfer("D", 2, "s", "debtAToken", 2), Transfer("C", 3, "collateralAToken", "s", 3),
      Transfer("C", 4, "s", "x", 3), Transfer("C", 5, "s", "y", 1)>>

LendProvider(role) == IF role = "PRIMARY" THEN "PUBLICNODE" ELSE "THIRDWEB"
LendEndpoint(role) == IF role = "PRIMARY" THEN "publicnode" ELSE "thirdweb"

LendIntact ==
    LET roles == <<"PRIMARY", "VERIFY">>
    IN  [kind |-> "defi_lending", faults |-> {},
         request |-> Request @@ [allowed |-> {"DS-EVM-RPC-ARCHIVE"},
                                 order |-> {"DS-EVM-RPC-ARCHIVE"}, subject |-> "s",
                                 roles |-> {"liquidator"}, window |-> <<1, 3>>, hash |-> "h"],
         package |-> [pins |-> [file |-> "ok", providers |-> [k \in 1 .. 2 |->
                         [id |-> LendProvider(roles[k]), role |-> roles[k],
                          endpoint |-> LendEndpoint(roles[k]),
                          sha |-> Digests(LendProvider(roles[k]), 1, Caps)]]],
                      meta |-> [file |-> "ok", envelope |-> TRUE, entries |->
                         {[provider |-> LendProvider(r), role |-> r, endpoint |-> LendEndpoint(r),
                           capability |-> c, about |-> IF c = "block" THEN [block |-> 2]
                                                      ELSE [tx |-> "h"],
                           sha |-> <<LendProvider(r), 1, c>>] :
                            r \in {"PRIMARY", "VERIFY"}, c \in Caps}]],
         replay |-> [fixture |-> "F", window |-> <<1, 3>>, late |-> FALSE, hash |-> "h",
                     tag |-> 2, pool |-> "pool", subject |-> "s", roles |-> {"liquidator"},
                     observations |-> [k \in 1 .. 2 |->
                         [role |-> roles[k], provider |-> LendProvider(roles[k]),
                          artifacts |-> Artifacts(Digests(LendProvider(roles[k]), 1, Caps)),
                          body |-> Leg("h", 2, "s", "pool", 0, LendingLogs)]]]]

LendFaults ==
    ArtifactFaults
    \cup {"outflow_differs", "role_swapped", "log_unbound", "second_liquidation", "log_invalid",
          "log_unpadded"} \X {"A"}
    \cup {"pins_gone", "pins_malformed", "pin_repeated", "provider_gone", "same_endpoint",
          "meta_gone", "meta_other", "capture_other", "other_request", "not_allowed",
          "other_window", "late", "same_digest", "other_subject", "debt_gone",
          "collateral_gone", "outflow_gone", "as_a_token", "other_role"} \X {"-"}

LendGaps == {<<"debt_gone", "-">>, <<"collateral_gone", "-">>, <<"outflow_gone", "-">>,
             <<"as_a_token", "-">>}

AtLogs(i, Chosen(_), Change(_)) ==
    AtObservations(i, Chosen, LAMBDA o :
        [o EXCEPT !.body.receipt.logs = FlattenSeq([k \in DOMAIN @ |-> Change(@[k])])])

Without(i, Gone(_)) == AtLogs(i, LAMBDA o : TRUE, LAMBDA l : IF Gone(l) THEN <<>> ELSE <<l>>)

EditLend(f, i) ==
    LET at(o) == o.role = IF f[2] = "A" THEN "VERIFY" ELSE "PRIMARY"
    IN  CASE f[1] = "outflow_differs" ->
                 AtLogs(i, at, LAMBDA l : IF l.index = 4 THEN <<[l EXCEPT !.to = "z"]>> ELSE <<l>>)
          [] f[1] = "log_unbound" ->
                 AtLogs(i, at, LAMBDA l : <<[l EXCEPT !.bound = (l.index # 5)]>>)
          [] f[1] = "second_liquidation" ->
                 AtLogs(i, at, LAMBDA l : IF l.index = 1 THEN <<l, l>> ELSE <<l>>)
          [] f[1] = "log_invalid" ->
                 AtLogs(i, at, LAMBDA l : <<[l EXCEPT !.valid = (l.index \notin {1, 5})]>>)
          [] f[1] = "log_unpadded" ->
                 AtLogs(i, at, LAMBDA l : IF l.index = 1 THEN <<[l EXCEPT !.padded = FALSE]>>
                                          ELSE <<l>>)
          [] f[1] = "debt_gone" -> Without(i, LAMBDA l : l.index = 2)
          [] f[1] = "collateral_gone" -> Without(i, LAMBDA l : l.index = 3)
          [] f[1] = "outflow_gone" -> Without(i, LAMBDA l : l.index \in {4, 5})
          [] f[1] = "as_a_token" ->
                 AtLogs(i, LAMBDA o : TRUE, LAMBDA l :
                        IF l.index = 1 THEN <<[l EXCEPT !.aToken = TRUE]>> ELSE <<l>>)
          [] f[1] = "late" -> [i EXCEPT !.replay.late = TRUE]
          [] f[1] = "other_subject" -> [i EXCEPT !.request.subject = "other"]
          [] f[1] = "other_role" -> [i EXCEPT !.replay.roles = {"borrower"},
                                              !.request.roles = {"borrower"}]
          [] f[1] = "same_digest" ->
                 AtProviders(i, LAMBDA p : [p EXCEPT !.sha["block"] = <<"same">>])
          [] f \in ArtifactFaults \cup {<<"role_swapped", "A">>} ->
                 AtObservations(i, at, LAMBDA o : EditObservation(f[1], o))
          [] OTHER -> EditPackage(f, i)

\* A receipt may also hold a liquidation log that names another transaction.
LendForeignLog ==
    AtLogs(LendIntact, LAMBDA o : TRUE, LAMBDA l :
           IF l.index = 1 THEN <<[l EXCEPT !.tx = "k", !.bound = FALSE, !.index = 9], l>> ELSE <<l>>)

LendInputs == Damaged({LendIntact}, LendFaults, EditLend) \cup {LendForeignLog}

-----------------------------------------------------------------------------
(* bridge_transfer: a deposit on base and its fill on ethereum.            *)

BridgeCaps == Caps \cup {"bridge_logs"}

BridgeEvent(other, output) ==
    [data |-> "ok", deposit |-> 7, inputToken |-> "baseWeth", inputAmount |-> 5,
     outputToken |-> output, outputAmount |-> 4, otherChain |-> other, depositor |-> "d",
     recipient |-> "r", terms |-> "t"]

BridgeLog(topic0, hash, tag, event) ==
    [index |-> 1, address |-> "pool", tx |-> hash, block |-> tag, blockHash |-> <<"B", tag>>,
     removed |-> FALSE, topic0 |-> topic0, event |-> event]

BridgeObservation(chain, provider, leg) ==
    [chain |-> chain, provider |-> provider,
     artifacts |-> Artifacts(Digests(provider, 1, BridgeCaps)), body |-> leg]

BridgeIntact(output) ==
    LET source == BridgeLog("V3FundsDeposited", "h1", 1, BridgeEvent(1, output))
        fill == BridgeLog("FilledV3Relay", "h2", 2, BridgeEvent(8453, "mainnetWeth"))
    IN  [kind |-> "bridge_transfer", faults |-> {},
         request |-> Request @@ [allowed |-> {"DS-EVM-RPC-ARCHIVE", "DS-BRIDGE-META"},
                                 order |-> {"DS-EVM-RPC-ARCHIVE", "DS-BRIDGE-META"},
                                 origin |-> 8453, destination |-> 1, subject |-> "d",
                                 recipient |-> "r", sourceTx |-> "h1", destinationTx |-> Missing],
         package |-> [pins |-> [file |-> "ok", providers |-> <<
                         [id |-> "P", role |-> "PRIMARY", endpoint |-> "p",
                          sha |-> Digests("P", 1, BridgeCaps)],
                         [id |-> "Q", role |-> "PRIMARY", endpoint |-> "q",
                          sha |-> Digests("Q", 1, BridgeCaps)]>>]],
         replay |-> [fixture |-> "F",
                     base |-> [id |-> 8453, hash |-> "h1", tag |-> 1, pool |-> "pool"],
                     ethereum |-> [id |-> 1, hash |-> "h2", tag |-> 2, pool |-> "pool"],
                     observations |-> <<
                         BridgeObservation("base", "P", Leg("h1", 1, "d", "d", 0, <<source>>)),
                         BridgeObservation("ethereum", "Q",
                                           Leg("h2", 2, "x", "pool", 0, <<fill>>))>>]]

\* Parameters of the event that one leg tells otherwise.
EventConflicts == {"deposit", "inputAmount", "outputAmount", "outputToken", "otherChain", "terms"}

BridgeFaults ==
    ArtifactFaults
    \cup EventConflicts \X {"A"}
    \cup {"event_gone", "event_truncated", "event_malformed", "event_removed",
          "not_in_receipt"} \X {"A", "B"}
    \cup {"pins_gone", "pins_malformed", "pin_other", "unknown_token", "leg_gone", "other_request",
          "not_allowed", "other_subject", "other_source"} \X {"-"}

BridgeGaps == {"event_gone", "event_truncated"} \X {"A", "B"}
                \cup {<<"leg_gone", "-">>, <<"unknown_token", "-">>}

AtEvents(i, Chosen(_), Change(_)) ==
    AtObservations(i, Chosen, LAMBDA o :
        LET edited == [k \in DOMAIN o.body.logs |-> Change(o.body.logs[k])]
        IN  [o EXCEPT !.body.logs = edited, !.body.receipt.logs = edited])

EditBridge(f, i) ==
    LET at(o) == o.chain = IF f[2] = "A" THEN "ethereum" ELSE "base"
        both(o) == TRUE
    IN  CASE f[1] \in {"outputToken", "terms"} ->
                 AtEvents(i, at, LAMBDA l : [l EXCEPT !.event[f[1]] = "other"])
          [] f[1] \in {"deposit", "inputAmount", "outputAmount", "otherChain"} ->
                 AtEvents(i, at, LAMBDA l : [l EXCEPT !.event[f[1]] = @ + 1])
          [] f[1] = "event_gone" -> AtObservations(i, at, LAMBDA o : [o EXCEPT !.body.logs = <<>>])
          [] f[1] = "event_truncated" ->
                 AtEvents(i, at, LAMBDA l : [l EXCEPT !.event.data = "truncated"])
          [] f[1] = "event_malformed" ->
                 AtEvents(i, at, LAMBDA l : [l EXCEPT !.event.data = "malformed"])
          [] f[1] = "event_removed" -> AtEvents(i, at, LAMBDA l : [l EXCEPT !.removed = TRUE])
          [] f[1] = "not_in_receipt" ->
                 AtObservations(i, at, LAMBDA o : [o EXCEPT !.body.receipt.logs = <<>>])
          [] f[1] = "unknown_token" ->
                 AtEvents(i, both, LAMBDA l : [l EXCEPT !.event.inputToken = "other",
                     !.event.outputToken = IF l.topic0 = "FilledV3Relay" THEN @ ELSE "zero"])
          [] f[1] = "pin_other" ->
                 AtProviders(i, LAMBDA p : [p EXCEPT !.sha["block"] = <<"other">>])
          [] f[1] = "leg_gone" -> [i EXCEPT !.replay.observations = <<@[1]>>]
          [] f[1] = "other_subject" -> [i EXCEPT !.request.subject = "other"]
          [] f[1] = "other_source" -> [i EXCEPT !.request.sourceTx = "other"]
          [] f \in ArtifactFaults -> AtObservations(i, at, LAMBDA o : EditObservation(f[1], o))
          [] OTHER -> EditPackage(f, i)

\* The providers pinned twice: the second pins count.
PinnedTwice(first, second) ==
    [second EXCEPT !.package.pins.providers = first.package.pins.providers \o @]

BridgeRepeated ==
    LET intact == BridgeIntact("zero")
        other == <<"pin_other", "-">>
        bad == [EditBridge(other, intact) EXCEPT !.faults = {other}]
    IN  {PinnedTwice(bad, intact), PinnedTwice(intact, bad)}

BridgeInputs ==
    Damaged({BridgeIntact(t) : t \in {"zero", "mainnetWeth"}}, BridgeFaults, EditBridge)
    \cup BridgeRepeated

-----------------------------------------------------------------------------
(* case_reconciliation: two confirmed fixtures.                            *)

CaseEdge(b, k) == [block |-> b, index |-> k, hash |-> <<b, k>>, amount |-> k]

CaseIntact(n) ==
    LET fixtures == <<"FX-FLOW-PATH-001", "FX-FLOW-REMERGE-001">>
        file(f, part) == [sha |-> <<f, part>>, fixture |-> f, status |-> "confirmed"]
        sources == <<"DS-EVM-RPC-PUBLIC", "DS-EXPLORER-EVM", "DS-OSINT-WEB">>
    IN  [kind |-> "case_reconciliation", faults |-> {},
         request |-> [offline |-> TRUE, fixture |-> "FX-CASE-EULER-EXIT-001",
                      category |-> "exploit", seed |-> <<1, 1>>, refs |-> ToSet(fixtures),
                      allowed |-> ToSet(sources), order |-> sources, maxEntries |-> n],
         package |-> [files |-> [f \in ToSet(fixtures) |->
                                   [expected |-> file(f, "expected"),
                                    evidence |-> file(f, "evidence")]],
                      path |-> <<CaseEdge(1, 1), CaseEdge(1, 2), CaseEdge(2, 1)>>,
                      branches |-> <<"b1", "b2">>, residual |-> 1],
         replay |-> [fixture |-> "FX-CASE-EULER-EXIT-001", category |-> "exploit",
                     seed |-> <<1, 1>>, refs |-> ToSet(fixtures),
                     pins |-> [k \in 1 .. 2 |-> [fixture |-> fixtures[k],
                                  expected |-> <<fixtures[k], "expected">>,
                                  evidence |-> <<fixtures[k], "evidence">>]]]]

CaseFaults ==
    {"file_gone", "file_altered", "unconfirmed", "other_fixture"}
      \X {"FX-FLOW-PATH-001", "FX-FLOW-REMERGE-001"}
    \cup {"other_request", "not_allowed", "other_seed", "other_category", "unordered",
          "path_empty", "pin_gone", "pin_other"} \X {"-"}

EditCase(f, i) ==
    CASE f = NoFault -> i
      [] f[1] = "file_gone" -> [i EXCEPT !.package.files[f[2]].evidence = Missing]
      [] f[1] = "file_altered" -> [i EXCEPT !.package.files[f[2]].expected.sha = <<"other">>]
      [] f[1] = "unconfirmed" -> [i EXCEPT !.package.files[f[2]].expected.status = "draft"]
      [] f[1] = "other_fixture" -> [i EXCEPT !.package.files[f[2]].expected.fixture = "other"]
      [] f[1] = "other_request" -> [i EXCEPT !.request.fixture = "other"]
      [] f[1] = "not_allowed" -> [i EXCEPT !.request.allowed = {}]
      [] f[1] = "other_seed" -> [i EXCEPT !.request.seed = <<9, 9>>]
      [] f[1] = "other_category" -> [i EXCEPT !.request.category = "other", !.replay.category = "other"]
      [] f[1] = "unordered" -> [i EXCEPT !.package.path = @ \o <<CaseEdge(0, 1)>>]
      [] f[1] = "path_empty" -> [i EXCEPT !.package.path = <<>>]
      [] f[1] = "pin_gone" -> [i EXCEPT !.replay.pins = <<@[1]>>]
      [] f[1] = "pin_other" -> [i EXCEPT !.replay.pins[1].expected = <<"other">>]

CaseInputs == Damaged({CaseIntact(n) : n \in {1, 5}}, CaseFaults, EditCase)

\* The faults that take something away and change nothing else.
Gaps == ArtifactGaps \X {"A", "B"} \cup PackageGaps \cup LendGaps \cup BridgeGaps
=============================================================================
