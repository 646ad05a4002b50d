---------------------------- MODULE IntelContext ----------------------------
(***************************************************************************)
(* The five intel_context queries (src/scan_tool/slices/intel_context.py   *)
(* and the replay contract in src/scan_tool/domain/intel_context.py):      *)
(* label claims, sanctions exposure, identity clues, common funder, actor  *)
(* relations.  Each query is a sequence of bindings between the request    *)
(* and a reviewed replay, then a result whose evidence cites the first two *)
(* source records.                                                         *)
(*                                                                         *)
(* A source record is [name, source, ref].  An action reference is         *)
(* [date, action], or <<>> when its text carries none.                     *)
(***************************************************************************)
EXTENDS ResultContract

Unbound(cond) == <<cond, "reconciliation_failed", "source_reconciliation">>

Refs(replay) == {s.ref : s \in ToSet(replay.sources)}

Field(s, F(_)) == [i \in DOMAIN s |-> F(s[i])]

\* Two sequences hold the same elements equally often: they sort the same.
SameBag(s, t) ==
    \A x \in ToSet(s) \cup ToSet(t) :
        Len(SelectSeq(s, LAMBDA y : y = x)) = Len(SelectSeq(t, LAMBDA y : y = x))

-----------------------------------------------------------------------------
(* The replay contract: unique records, unique relation subjects.          *)

IntelParseReplay(replay) ==
    /\ IsInjective(Field(replay.sources, LAMBDA s : s.name))
    /\ IsInjective(Field(replay.sources, LAMBDA s : s.ref))
    /\ replay.query \in {"find_common_funder", "score_actor_relations"} =>
           IsInjective(Field(replay.relations, LAMBDA r : r.subject))
    /\ replay.query = "find_common_funder" => replay.range[1] <= replay.range[2]

IntelBindingError(request, replay) ==
    << <<~IntelParseReplay(replay), "decode_failed", "decode_replay">>,
       <<~request.offline, "rule_restricted", "source_policy">>,
       Unbound(request.fixture \notin {Anything, replay.fixture}),
       Unbound(request.query # replay.query),
       <<~({s.source : s \in ToSet(replay.sources)} \subseteq request.allowed),
         "rule_restricted", "source_policy">> >>

-----------------------------------------------------------------------------
(* What each query requires of its replay, in the code's order.            *)

LabelBindings(request, replay) ==
    <<Unbound(replay.subject \notin request.subjects),
      Unbound(replay.ens.address # replay.subject),
      Unbound(replay.ens.block # request.block),
      Unbound(Refs(replay) # request.refs),
      Unbound(Len(replay.sources) > request.maxSources)>>

SanctionsBindings(request, replay) ==
    <<Unbound(replay.subject \notin request.subjects),
      Unbound(replay.snapshot.subject # replay.subject),
      Unbound(request.snapshotRef \notin Refs(replay)),
      Unbound(\E a \in ToSet(replay.actions) : a.matches # 1),
      <<<<>> \in ToSet(request.actions), "invalid_input", "intel_input">>,
      Unbound(~SameBag(request.actions,
                       Field(replay.actions, LAMBDA a : <<a.date, a.action>>)))>>

IdentityBindings(request, replay) ==
    <<Unbound(replay.forward.name \notin request.names),
      Unbound(replay.forward.address \notin request.subjects),
      Unbound(replay.block # request.block),
      Unbound(replay.reverse.address # replay.forward.address),
      Unbound(request.replayRef \notin Refs(replay))>>

CommonFunderBindings(request, replay) ==
    <<Unbound({r.subject : r \in ToSet(replay.relations)} # request.subjects),
      Unbound(replay.sourceFixture # request.sourceFixture),
      Unbound(replay.range # request.range)>>

ActorBindings(request, replay) ==
    <<Unbound(replay.hub # request.hub),
      Unbound({r.subject : r \in ToSet(replay.relations)} # request.subjects),
      Unbound({r.fixture : r \in ToSet(replay.relations)} # request.fixtures),
      Unbound(~SameBag(Field(replay.relations, LAMBDA r : r.relation), request.weights))>>

QueryBindings(request, replay) ==
    CASE request.query = "collect_label_claims" -> LabelBindings(request, replay)
      [] request.query = "check_sanctions_exposure" -> SanctionsBindings(request, replay)
      [] request.query = "resolve_identity_clues" -> IdentityBindings(request, replay)
      [] request.query = "find_common_funder" -> CommonFunderBindings(request, replay)
      [] request.query = "score_actor_relations" -> ActorBindings(request, replay)

-----------------------------------------------------------------------------
(* Results.                                                                *)

\* The actions by date; actions of one date keep the replay's order.
IntelTimeline(actions) ==
    LET before(i, j) == actions[i].date < actions[j].date
                          \/ (actions[i].date = actions[j].date /\ i < j)
        order == SortSeq([i \in DOMAIN actions |-> i], before)
    IN  [k \in DOMAIN order |-> <<actions[order[k]].date, actions[order[k]].action>>]

IntelEvidence(replay) ==
    LET item(id, k) ==
            LET s == replay.sources[Min({k, Len(replay.sources)})]
            IN  [id |-> id, rec |-> s.name, src |-> s.source]
    IN  <<item("first", 1), item("second", 2)>>

IntelSources(replay) ==
    LET cited == {e.rec : e \in ToSet(IntelEvidence(replay))}
    IN  Field(SelectSeq(replay.sources, LAMBDA s : s.name \in cited),
              LAMBDA s : [id |-> s.name, src |-> s.source])

IntelResult(replay, status, results, errors, raws, value) ==
    Checked([status |-> status, results |-> results, evidence |-> IntelEvidence(replay),
             sources |-> IntelSources(replay), errors |-> errors, raws |-> raws,
             value |-> value], "decode_intel_context")

\* Label, sanctions, identity and actor results are complete once they are bound.
CompleteResult(replay, value) ==
    IntelResult(replay, "complete",
                <<[id |-> replay.query, refs |-> <<"first", "second">>]>>, <<>>, {}, value)

Label(replay) ==
    CompleteResult(replay, [subjects |-> {replay.subject},
                            autoMerge |-> replay.categories = {} \/ replay.role = ""])

IntelSanctions(replay) ==
    CompleteResult(replay, [subjects |-> {replay.subject},
                            timeline |-> IntelTimeline(replay.actions),
                            currentMatches |-> replay.snapshot.matches])

Identity(replay) ==
    CompleteResult(replay, [subjects |-> {replay.forward.address},
                            match |-> replay.reverse.name = replay.forward.name])

\* A common funder is a candidate only: whatever the replay claims about its
\* own completeness, the result is partial.
CommonFunder(replay) ==
    IntelResult(replay, "partial",
                <<[id |-> "relations", refs |-> <<"first">>],
                  [id |-> "assessment", refs |-> <<"second">>]>>,
                <<Error("evidence_incomplete", "intel_coverage", <<"first", "second">>)>>,
                {r.amount : r \in ToSet(replay.relations)},
                [subjects |-> {r.subject : r \in ToSet(replay.relations)},
                 complete |-> FALSE])

ActorRelations(replay) ==
    CompleteResult(replay, [subjects |-> {r.subject : r \in ToSet(replay.relations)},
                            relations |-> replay.relations])

AnalyzeIntelContextReplay(request, replay) ==
    LET binding == FirstRefusal(IntelBindingError(request, replay))
        refusal == FirstRefusal(QueryBindings(request, replay))
    IN  CASE binding # NoRefusal -> Failed(binding)
          [] binding = NoRefusal /\ refusal # NoRefusal -> Failed(refusal)
          [] binding = NoRefusal /\ refusal = NoRefusal ->
                 CASE request.query = "collect_label_claims" -> Label(replay)
                   [] request.query = "check_sanctions_exposure" -> IntelSanctions(replay)
                   [] request.query = "resolve_identity_clues" -> Identity(replay)
                   [] request.query = "find_common_funder" -> CommonFunder(replay)
                   [] request.query = "score_actor_relations" -> ActorRelations(replay)
=============================================================================
