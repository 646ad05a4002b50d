----------------------------- MODULE DefiLending -----------------------------
(***************************************************************************)
(* The defi_lending analyzer (src/scan_tool/slices/defi_lending.py and     *)
(* src/scan_tool/domain/defi_lending.py): one liquidation, the Transfers   *)
(* that pay the debt and hand over the collateral, and where the           *)
(* collateral went, each read from the receipts of two fixed providers.    *)
(*                                                                         *)
(* body.receipt.logs holds logs [kind, address, index, bound, valid, ...]: *)
(* bound says that the log is not removed and names this transaction and   *)
(* block, valid that its words are well formed.  A "liquidation" log       *)
(* also has tx, the transaction it names, padded, which says that its      *)
(* topics are padded addresses and its indices are there, collateral,      *)
(* debt, user, liquidator, debtRaw, collateralRaw and aToken; a "transfer" *)
(* log has from, to and amount, and its valid covers the padding.          *)
(***************************************************************************)
EXTENDS ReplayPackage

LendingRequired == {"DS-EVM-RPC-ARCHIVE"}

PreferredTo == "debtAToken"             \* where the debt is expected to be paid to
PreferredFrom == "collateralAToken"     \* where the collateral is expected to come from

ExpectedRole == [PUBLICNODE |-> "PRIMARY", THIRDWEB |-> "VERIFY"]
ExpectedEndpoint == [PUBLICNODE |-> "publicnode", THIRDWEB |-> "thirdweb"]

-----------------------------------------------------------------------------
ParseDefiLendingReplay(replay) ==
    /\ replay.window[1] <= replay.window[2]
    /\ ~replay.late
    /\ Len(replay.observations) = 2
    /\ {o.role : o \in ToSet(replay.observations)} = {"PRIMARY", "VERIFY"}

LendingValidateProviderDiversity(pins) ==
    Incomplete(Len(pins.providers) # 2)
    && Invalid(Ids(pins.providers) # DOMAIN ExpectedRole)
    && Incomplete(Roles(pins) # {"PRIMARY", "VERIFY"})
    && Invalid(\E p \in ToSet(pins.providers) :
                  p.role # ExpectedRole[p.id] \/ p.endpoint # ExpectedEndpoint[p.id])
    && Invalid(\E c \in ToSet(RpcCapabilities), p, q \in ToSet(pins.providers) :
                  p # q /\ p.sha[c] = q.sha[c])

\* One capture of every capability at every provider, each as pinned.
ExpectedCaptures(pins, replay) ==
    {[provider |-> p.id, role |-> p.role, endpoint |-> p.endpoint, capability |-> c,
      about |-> IF c = "block" THEN [block |-> replay.tag] ELSE [tx |-> replay.hash], sha |-> p.sha[c]] :
        p \in ToSet(pins.providers), c \in ToSet(RpcCapabilities)}

ValidateCaptureMeta(meta, pins, replay) ==
    Incomplete(meta.file = "missing")
    && Invalid(~meta.envelope)
    && Invalid(meta.entries # ExpectedCaptures(pins, replay))

-----------------------------------------------------------------------------
(* One receipt.                                                            *)

TransactionIsBound(o, replay) ==
    /\ LegIsBound(o.body, replay.hash, replay.tag)
    /\ o.body.tx.index = o.body.receipt.index
    /\ o.body.tx.index \in DOMAIN o.body.block.transactions
    /\ o.body.block.transactions[o.body.tx.index] = replay.hash
    /\ replay.window[1] <= replay.tag /\ replay.tag <= replay.window[2]

Logs(o) == o.body.receipt.logs

\* Positions of logs in the receipt; a log of another transaction is passed over.
Liquidations(o, replay) ==
    {i \in DOMAIN Logs(o) : /\ Logs(o)[i].kind = "liquidation"
                            /\ Logs(o)[i].address = replay.pool
                            /\ Logs(o)[i].tx = replay.hash}

Liquidation(o, replay) == Logs(o)[Min(Liquidations(o, replay))]

Transfers(o) == {i \in DOMAIN Logs(o) : Logs(o)[i].kind = "transfer"}

\* The first preferred candidate, or else the first candidate.
Preferring(o, candidates, IsPreferred(_)) ==
    LET preferred == {i \in candidates : IsPreferred(Logs(o)[i])}
    IN  Logs(o)[Min(IF preferred # {} THEN preferred ELSE candidates)]

DebtCandidates(o, replay) ==
    {i \in Transfers(o) : /\ Logs(o)[i].address = Liquidation(o, replay).debt
                          /\ Logs(o)[i].amount = Liquidation(o, replay).debtRaw
                          /\ Logs(o)[i].from = replay.subject}

CollateralCandidates(o, replay) ==
    {i \in Transfers(o) : /\ Logs(o)[i].address = Liquidation(o, replay).collateral
                          /\ Logs(o)[i].amount = Liquidation(o, replay).collateralRaw
                          /\ Logs(o)[i].to = replay.subject}

DebtLeg(o, replay) ==
    Preferring(o, DebtCandidates(o, replay), LAMBDA t : t.to = PreferredTo)

CollateralLeg(o, replay) ==
    Preferring(o, CollateralCandidates(o, replay), LAMBDA t : t.from = PreferredFrom)

OutflowCandidates(o, replay) ==
    {t \in {Logs(o)[i] : i \in Transfers(o)} :
        /\ t.address = Liquidation(o, replay).collateral
        /\ t.from = replay.subject
        /\ t.to # replay.subject
        /\ t.index > CollateralLeg(o, replay).index}

\* The largest one, and of equally large ones the last.
SubsequentOutflow(o, replay) ==
    LET all == OutflowCandidates(o, replay)
    IN  CHOOSE t \in all : \A u \in all :
            u.amount < t.amount \/ (u.amount = t.amount /\ u.index <= t.index)

ObservedRoles(o, replay) ==
    {role \in {"liquidator", "borrower"} :
        replay.subject = IF role = "liquidator" THEN Liquidation(o, replay).liquidator
                         ELSE Liquidation(o, replay).user}

DecodeLendingObservation(pins, o, replay) ==
    LET found == Liquidations(o, replay)
        sha == ProviderPin(pins, o.provider).sha
    IN  Invalid(~RoleIsPinned(pins, o))
        && LoadPinnedArtifacts(o.artifacts, sha, RpcCapabilities)
        && Invalid(~TransactionIsBound(o, replay))
        && Invalid(Cardinality(found) # 1 \/ \E i \in found : ~Logs(o)[i].bound)
        && Invalid(~Liquidation(o, replay).valid)
        && Incomplete(Liquidation(o, replay).aToken)
        && Invalid(~Liquidation(o, replay).padded)
        && Invalid(\E i \in Transfers(o) : ~Logs(o)[i].bound \/ ~Logs(o)[i].valid)
        && Incomplete(DebtCandidates(o, replay) = {})
        && Incomplete(CollateralCandidates(o, replay) = {})
        && Incomplete(OutflowCandidates(o, replay) = {})
        && Invalid(ObservedRoles(o, replay) # replay.roles)

LendingFacts(o, replay) ==
    [type |-> "defi_lending", event |-> Liquidation(o, replay),
     debt |-> DebtLeg(o, replay), collateral |-> CollateralLeg(o, replay),
     outflow |-> SubsequentOutflow(o, replay)]

ByRole(replay, role) == CHOOSE o \in ToSet(replay.observations) : o.role = role

ReconstructLendingFlowFacts(package, replay) ==
    LoadUniqueProviderPins(package.pins)
    && LendingValidateProviderDiversity(package.pins)
    && ValidateCaptureMeta(package.meta, package.pins, replay)
    && FirstRaised(LAMBDA o : DecodeLendingObservation(package.pins, o, replay),
                   replay.observations)
    && Invalid(LendingFacts(ByRole(replay, "PRIMARY"), replay)
                 # LendingFacts(ByRole(replay, "VERIFY"), replay))

-----------------------------------------------------------------------------
LendingInputBindingError(request, replay) ==
    << <<request.subject # replay.subject, "reconciliation_failed", "subject_binding">>,
       <<request.roles # replay.roles, "reconciliation_failed", "subject_roles_binding">>,
       <<request.window[1] # replay.window[1],
         "reconciliation_failed", "window_start_binding">>,
       <<request.window[2] # replay.window[2], "reconciliation_failed", "window_end_binding">>,
       <<request.hash # replay.hash, "reconciliation_failed", "seed_tx_binding">> >>

LendingCompleteEvidence ==
    LET item(id) == Item(id, "SRC-LEND-ETHEREUM", "DS-EVM-RPC-ARCHIVE")
    IN  <<item("EV-LEND-LIQUIDATION-EVENT"), item("EV-LEND-DEBT-TRANSFER"),
          item("EV-LEND-COLLATERAL-TRANSFER"), item("EV-LEND-SUBSEQUENT-OUTFLOW")>>

LendingPartialEvidence == <<Item("EV-LEND-PARTIAL", "SRC-LEND-ETHEREUM", "DS-EVM-RPC-ARCHIVE")>>

AnalyzeDefiLendingReplay(request, package, replay) ==
    LET facts == LendingFacts(ByRole(replay, "PRIMARY"), replay)
    IN  AnalyzePackage(
            ReplayBindingError(request, replay, ParseDefiLendingReplay(replay), LendingRequired),
            ReconstructLendingFlowFacts(package, replay),
            LendingInputBindingError(request, replay),
            PartialPackage("defi_lending", LendingPartialEvidence, 0, "lending_transfer_availability"),
            PackageResult(facts, LendingCompleteEvidence, "complete", "", "",
                          {facts.event.debtRaw, facts.event.collateralRaw}),
            "lending_reconciliation")
=============================================================================
