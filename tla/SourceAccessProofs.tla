------------------------- MODULE SourceAccessProofs -------------------------
(***************************************************************************)
(* Proofs about SourceAccess, for any callers, sources, policies, replies  *)
(* and number of calls: the cache is immutable and backed by what a hit    *)
(* needs, no source is used against the policy, retries are disciplined    *)
(* and the table of attempts is complete.                                  *)
(***************************************************************************)
EXTENDS SourceAccess, FiniteSetTheorems, SequenceTheorems, TLAPS

Attempted == [source : Sources, number : Nat, reply : AllReplies \cup {"unsupported"},
              kind : {"success", "permanent", "unavailable", "invalid_response"}
                     \cup RetryableFailures]

\* The local state of a caller is a record with these fields, whatever their
\* values, and its attempts are a sequence.
CallRecords(U) == [pc : U, run : U, request : U, policy : U, todo : U, tried : U, body : U,
                   offset : U, answer : U]
IsCall(s) == (\E U : s \in CallRecords(U)) /\ s.tried \in Seq(Attempted)

\* The attempts of a call are permitted by its policy.
Legal(s) ==
    /\ s.request \in Requests /\ s.policy \in Policies
    /\ \A i \in DOMAIN s.tried :
        /\ s.policy.rule = "allowed" /\ ~s.policy.offline
        /\ s.tried[i].source \in s.policy.allowed
        /\ ~s.policy.fallback => s.tried[i].source = s.policy.order[1]

\* So is what it still may do, and its answer.
Permitted(s) ==
    /\ s.pc # "idle" => Legal(s)
    /\ s.pc = "calling" =>
        /\ s.policy.rule = "allowed" /\ ~s.policy.offline
        /\ s.todo \in Seq(s.policy.allowed)
        /\ ~s.policy.fallback => s.todo \in {<<>>, <<s.policy.order[1]>>}
    /\ s.pc = "done" => s.answer.source \in s.policy.allowed \cup {None}

\* The last attempt brought the body.
Answered(s) == Len(s.tried) > 0 /\ s.tried[Len(s.tried)].kind = "success"

\* The attempt that brought the body is in the table.
Logged(s) ==
    \E x \in attempts : /\ x.request = s.request /\ x.kind = "success"
                        /\ x.source = s.tried[Len(s.tried)].source /\ x.body = s.body

\* How much of an answer is stored at each step of its call.
Stored(s) ==
    /\ s.pc = "calling" => s.body = None
    /\ s.pc \in {"writing", "recording"} => Answered(s)
    /\ s.pc = "recording" => s.body \in files
    /\ s.pc \in {"offsets", "saving"} /\ s.body # None =>
            Answered(s) /\ s.body \in files \cap artifacts
    /\ s.pc = "caching" =>
            Answered(s) /\ s.body \in files \cap artifacts /\ s.request \in Fixed /\ Logged(s)

CallOK(s) == IsCall(s) /\ Permitted(s) /\ Stored(s)

IndInv ==
    /\ call = [c \in Callers |-> call[c]] /\ cache = [r \in Requests |-> cache[r]]
    /\ \A c \in Callers : CallOK(call[c])
    /\ CacheBacked

-----------------------------------------------------------------------------
\* The empty sequence, and a sequence of one element.
LEMMA ShortSeqs == \A S : <<>> \in Seq(S) /\ \A x \in S : <<x>> \in Seq(S)
OBVIOUS

\* The updates that the actions make of a local state.
LEMMA Updates ==
    ASSUME NEW s, IsCall(s), NEW pc, NEW x, NEW tried \in Seq(Attempted)
    PROVE  /\ IsCall([s EXCEPT !.pc = pc])
           /\ IsCall([s EXCEPT !.pc = pc, !.answer = x])
           /\ IsCall([s EXCEPT !.pc = pc, !.offset = x])
           /\ IsCall([s EXCEPT !.todo = x])
           /\ IsCall([s EXCEPT !.pc = pc, !.todo = x])
           /\ IsCall([s EXCEPT !.tried = tried, !.todo = x])
           /\ IsCall([s EXCEPT !.tried = tried, !.body = x, !.pc = pc])
<1>1. PICK U : s \in CallRecords(U)
    BY DEF IsCall
<1>2. PICK V : V = U \cup {pc, x, tried}
    OBVIOUS
<1>3. /\ [s EXCEPT !.pc = pc] \in CallRecords(V)
      /\ [s EXCEPT !.pc = pc, !.answer = x] \in CallRecords(V)
      /\ [s EXCEPT !.pc = pc, !.offset = x] \in CallRecords(V)
      /\ [s EXCEPT !.todo = x] \in CallRecords(V)
      /\ [s EXCEPT !.pc = pc, !.todo = x] \in CallRecords(V)
      /\ [s EXCEPT !.tried = tried, !.todo = x] \in CallRecords(V)
      /\ [s EXCEPT !.tried = tried, !.body = x, !.pc = pc] \in CallRecords(V)
    BY <1>1, <1>2 DEF CallRecords
<1>4. /\ [s EXCEPT !.pc = pc].tried = s.tried
      /\ [s EXCEPT !.pc = pc, !.answer = x].tried = s.tried
      /\ [s EXCEPT !.pc = pc, !.offset = x].tried = s.tried
      /\ [s EXCEPT !.todo = x].tried = s.tried
      /\ [s EXCEPT !.pc = pc, !.todo = x].tried = s.tried
      /\ [s EXCEPT !.tried = tried, !.todo = x].tried = tried
      /\ [s EXCEPT !.tried = tried, !.body = x, !.pc = pc].tried = tried
    BY <1>1 DEF CallRecords
<1>5. QED
    BY <1>3, <1>4 DEF IsCall

\* A caller without a call.
LEMMA IdleOK == CallOK(Idle)
<1>1. IsCall(Idle)
  <2>1. PICK U : U = {"idle", None, <<>>, Idle.offset}
      OBVIOUS
  <2>2. Idle \in CallRecords(U)
      BY <2>1 DEF Idle, CallRecords
  <2>3. Idle.tried = <<>>
      BY DEF Idle
  <2>4. QED
      BY <2>2, <2>3 DEF IsCall
<1>2. Permitted(Idle) /\ Stored(Idle)
    BY DEF Permitted, Stored, Idle
<1>3. QED
    BY <1>1, <1>2 DEF CallOK

\* Nothing is cached and nobody calls.
LEMMA InitHolds == Init => IndInv
<1> SUFFICES ASSUME Init PROVE IndInv
    OBVIOUS
<1>1. \A c \in Callers : CallOK(call[c])
    BY IdleOK DEF Init
<1>2. CacheBacked
    BY DEF Init, CacheBacked
<1>3. QED
    BY <1>1, <1>2 DEF Init, IndInv

\* The tables and files only grow, so what one call has stored stays.
LEMMA GrowStep ==
    ASSUME IndInv, NEW c \in Callers, call' = [call EXCEPT ![c] = call'[c]],
           files \subseteq files', artifacts \subseteq artifacts', attempts \subseteq attempts',
           CallOK(call[c])', cache' = [r \in Requests |-> cache'[r]], CacheBacked'
    PROVE  IndInv'
<1>1. call' = [d \in Callers |-> call'[d]]
    BY DEF IndInv
<1>2. ASSUME NEW d \in Callers, d # c PROVE CallOK(call[d])'
  <2>1. call'[d] = call[d]
      BY <1>2 DEF IndInv
  <2>2. CallOK(call[d])
      BY DEF IndInv
  <2>3. IsCall(call[d])' /\ Permitted(call[d])'
      BY <2>1, <2>2 DEF CallOK, IsCall, Permitted, Legal
  <2>4. Logged(call[d]) => Logged(call[d])'
      BY <2>1 DEF Logged
  <2>5. Answered(call[d]) <=> Answered(call[d])'
      BY <2>1 DEF Answered
  <2>6. Stored(call[d])'
      BY <2>1, <2>2, <2>4, <2>5 DEF CallOK, Stored
  <2>7. QED
      BY <2>3, <2>6 DEF CallOK
<1>3. QED
    BY <1>1, <1>2 DEF IndInv

\* A step that stores nothing.
LEMMA LocalStep ==
    ASSUME IndInv, NEW c \in Callers, call' = [call EXCEPT ![c] = call'[c]],
           UNCHANGED storage, CallOK(call[c])'
    PROVE  IndInv'
<1>1. UNCHANGED <<files, artifacts, cache, attempts>>
    BY DEF storage
<1>2. cache' = [r \in Requests |-> cache'[r]] /\ CacheBacked'
    BY <1>1 DEF IndInv, CacheBacked
<1>3. QED
    BY <1>1, <1>2, GrowStep

\* A call ends: what it stored no longer matters.
LEMMA DoneOK ==
    ASSUME NEW s, NEW answer, IsCall(s), Legal(s),
           answer.source \in s.policy.allowed \cup {None}
    PROVE  CallOK([s EXCEPT !.pc = "done", !.answer = answer])
<1> DEFINE n == [s EXCEPT !.pc = "done", !.answer = answer]
<1>1. /\ n.pc = "done" /\ n.answer = answer /\ n.policy = s.policy
      /\ n.request = s.request /\ n.tried = s.tried
    BY DEF IsCall, CallRecords
<1>2. s.tried \in Seq(Attempted)
    BY DEF IsCall
<1>3. IsCall(n)
    BY <1>2, Updates
<1> HIDE DEF n
<1>4. Permitted(n)
    BY <1>1 DEF Permitted, Legal
<1>5. Stored(n)
    BY <1>1 DEF Stored
<1>6. QED
    BY <1>3, <1>4, <1>5 DEF CallOK, n

\* Finish, for a caller whose answer its policy allows; the caller may have
\* stored something on the way.
LEMMA FinishOK ==
    ASSUME IndInv, NEW c \in Callers, NEW answer, call[c].pc # "idle", Finish(c, answer),
           answer.source \in call[c].policy.allowed \cup {None}
    PROVE  call' = [call EXCEPT ![c] = call'[c]] /\ CallOK(call[c])'
<1>1. /\ call'[c] = [call[c] EXCEPT !.pc = "done", !.answer = answer]
      /\ call' = [call EXCEPT ![c] = call'[c]]
    BY DEF Finish, IndInv
<1>2. IsCall(call[c]) /\ Legal(call[c])
    BY DEF IndInv, CallOK, Permitted
<1>3. CallOK([call[c] EXCEPT !.pc = "done", !.answer = answer])
    BY <1>2, DoneOK
<1>4. call'[c].pc = "done"
    BY <1>1, <1>2 DEF IsCall, CallRecords
<1>5. CallOK(call[c])'
    BY <1>1, <1>3, <1>4 DEF CallOK, IsCall, Permitted, Legal, Stored
<1>6. QED
    BY <1>1, <1>5

\* An error names no source.
LEMMA FailureAllowed == \A kind, S : Failure(kind).source \in S \cup {None}
BY DEF Failure, Response

\* The local state with which a call starts.
NewCall(a, r, p) == [Idle EXCEPT !.run = a, !.request = r, !.policy = p]

\* It has no attempts, so none against its policy.
LEMMA StartOK ==
    ASSUME NEW a \in Runs, NEW r \in Requests, NEW p \in Policies
    PROVE  LET new == NewCall(a, r, p)
           IN  /\ IsCall(new) /\ Legal(new) /\ new.policy = p /\ new.request = r
               /\ new.tried = <<>> /\ new.body = None
<1> DEFINE new == NewCall(a, r, p)
<1>1. PICK U : U = {"idle", None, <<>>, Idle.offset, a, r, p}
    OBVIOUS
<1>2. new \in CallRecords(U)
    BY <1>1 DEF NewCall, Idle, CallRecords
<1>3. new.policy = p /\ new.request = r /\ new.tried = <<>> /\ new.body = None
    BY DEF NewCall, Idle
<1> HIDE DEF new
<1>4. Legal(new)
    BY <1>3 DEF Legal
<1>5. IsCall(new)
  <2>1. new.tried \in Seq(Attempted)
      BY <1>3, ShortSeqs
  <2>2. QED
      BY <1>2, <2>1, Zenon DEF IsCall
<1>6. QED
    BY <1>3, <1>4, <1>5 DEF new

\* The sources to try are allowed, and one only without fallback.
LEMMA TodoOK ==
    ASSUME NEW p \in Policies
    PROVE  /\ SourcesToTry(p) \in Seq(p.allowed)
           /\ ~p.fallback => SourcesToTry(p) \in {<<>>, <<p.order[1]>>}
<1>1. p.order \in Seq(p.allowed) /\ p.order # <<>>
    BY AccessAssumption
<1>2. p.order[1] \in p.allowed
    BY <1>1
<1>3. <<p.order[1]>> \in Seq(p.allowed)
    BY <1>2, ShortSeqs
<1>4. QED
    BY <1>1, <1>3, Zenon DEF SourcesToTry

\* CachedSourceExecutor.execute up to the first source.
LEMMA ExecuteStep ==
    ASSUME IndInv, NEW c \in Callers, NEW a \in Runs, NEW r \in Requests, NEW p \in Policies,
           Execute(c, a, r, p)
    PROVE  IndInv'
<1>1. PICK new : new = NewCall(a, r, p)
    OBVIOUS
<1>2. /\ IsCall(new) /\ Legal(new) /\ new.policy = p /\ new.request = r
      /\ new.tried = <<>> /\ new.body = None
    BY <1>1, StartOK
<1>3. /\ call' = [call EXCEPT ![c] =
             IF Usable(r, p)
             THEN [new EXCEPT !.pc = "done",
                    !.answer = IF cache[r].body \in artifacts \cap files
                               THEN Response("hit", cache[r].source, cache[r].body)
                               ELSE Failure("raised")]
             ELSE IF PolicyError(p) # "none"
             THEN [new EXCEPT !.pc = "done", !.answer = Failure(PolicyError(p))]
             ELSE [new EXCEPT !.pc = "calling", !.todo = SourcesToTry(p)]]
      /\ UNCHANGED storage
    BY <1>1 DEF Execute, NewCall
<1>4. call' = [call EXCEPT ![c] = call'[c]]
    BY <1>3 DEF IndInv
<1>5. UNCHANGED <<files, artifacts, cache, attempts>>
    BY <1>3 DEF storage
<1>6. CASE Usable(r, p)
  <2> DEFINE x == IF cache[r].body \in artifacts \cap files
                  THEN Response("hit", cache[r].source, cache[r].body) ELSE Failure("raised")
  <2>1. call'[c] = [new EXCEPT !.pc = "done", !.answer = x]
      BY <1>3, <1>6 DEF IndInv
  <2>2. x.source \in p.allowed \cup {None}
      BY <1>6 DEF Usable, Response, Failure
  <2> HIDE DEF x
  <2>3. CallOK([new EXCEPT !.pc = "done", !.answer = x])
      BY <1>2, <2>2, DoneOK
  <2>4. CallOK(call'[c])
      BY <2>1, <2>3
  <2>5. CallOK(call[c])'
      BY <1>5, <2>4 DEF CallOK, IsCall, Permitted, Legal, Stored, Answered, Logged
  <2>6. QED
      BY <1>3, <1>4, <2>5, LocalStep
<1>7. CASE ~Usable(r, p) /\ PolicyError(p) # "none"
  <2>1. call'[c] = [new EXCEPT !.pc = "done", !.answer = Failure(PolicyError(p))]
      BY <1>3, <1>7 DEF IndInv
  <2>2. Failure(PolicyError(p)).source \in new.policy.allowed \cup {None}
      BY <1>2, FailureAllowed, Zenon
  <2>3. CallOK([new EXCEPT !.pc = "done", !.answer = Failure(PolicyError(p))])
      BY <1>2, <2>2, DoneOK, Zenon
  <2>4. CallOK(call'[c])
      BY <2>1, <2>3
  <2>5. CallOK(call[c])'
      BY <1>5, <2>4 DEF CallOK, IsCall, Permitted, Legal, Stored, Answered, Logged
  <2>6. QED
      BY <1>3, <1>4, <2>5, LocalStep
<1>8. CASE ~Usable(r, p) /\ PolicyError(p) = "none"
  <2>1. call'[c] = [new EXCEPT !.pc = "calling", !.todo = SourcesToTry(p)]
      BY <1>3, <1>8 DEF IndInv
  <2>2. p.rule = "allowed" /\ ~p.offline
      BY <1>8, AccessAssumption DEF PolicyError
  <2>3. /\ call'[c].pc = "calling" /\ call'[c].todo = SourcesToTry(p) /\ call'[c].policy = p
        /\ call'[c].request = r /\ call'[c].tried = <<>> /\ call'[c].body = None
      BY <1>2, <2>1 DEF IsCall, CallRecords
  <2>4. IsCall(call[c])'
    <3>1. new.tried \in Seq(Attempted)
        BY <1>2 DEF IsCall
    <3>2. IsCall([new EXCEPT !.pc = "calling", !.todo = SourcesToTry(p)])
        BY <1>2, <3>1, Updates, Zenon
    <3>3. QED
        BY <2>1, <3>2 DEF IsCall
  <2>5. Permitted(call[c])'
      BY <2>2, <2>3, TodoOK DEF Permitted, Legal
  <2>6. Stored(call[c])'
      BY <2>3 DEF Stored
  <2>7. QED
      BY <1>3, <1>4, <2>4, <2>5, <2>6, LocalStep DEF CallOK
<1>9. QED
    BY <1>6, <1>7, <1>8
-----------------------------------------------------------------------------
(* A call on its way from the first source to the cache. *)

\* A step that moves a started call on to one of these points leaves its policy
\* and its attempts as they are.
LEMMA MoveOK ==
    ASSUME IndInv, NEW c \in Callers, call[c].pc # "idle",
           NEW pc \in {"writing", "recording", "offsets", "saving", "caching"},
           call' = [call EXCEPT ![c].pc = pc]
    PROVE  /\ call' = [call EXCEPT ![c] = call'[c]]
           /\ IsCall(call[c])' /\ Permitted(call[c])'
           /\ call'[c].pc = pc /\ call'[c].body = call[c].body
           /\ call'[c].request = call[c].request /\ call'[c].tried = call[c].tried
<1>1. /\ call'[c] = [call[c] EXCEPT !.pc = pc]
      /\ call' = [call EXCEPT ![c] = call'[c]]
    BY DEF IndInv
<1>2. IsCall(call[c]) /\ Legal(call[c])
    BY DEF IndInv, CallOK, Permitted
<1>3. /\ call'[c].pc = pc /\ call'[c].body = call[c].body /\ call'[c].policy = call[c].policy
      /\ call'[c].request = call[c].request /\ call'[c].tried = call[c].tried
    BY <1>1, <1>2 DEF IsCall, CallRecords
<1>4. IsCall(call[c])'
  <2>1. call[c].tried \in Seq(Attempted)
      BY <1>2 DEF IsCall
  <2>2. IsCall([call[c] EXCEPT !.pc = pc])
      BY <1>2, <2>1, Updates, Zenon
  <2>3. QED
      BY <1>1, <2>2 DEF IsCall
<1>5. Permitted(call[c])'
    BY <1>2, <1>3 DEF Permitted, Legal
<1>6. QED
    BY <1>1, <1>3, <1>4, <1>5

\* No source is left; there is no body to store.
LEMMA GiveUpStep ==
    ASSUME IndInv, NEW c \in Callers, GiveUp(c) PROVE IndInv'
<1>1. /\ call[c].pc = "calling" /\ call' = [call EXCEPT ![c].pc = "offsets"]
      /\ UNCHANGED storage
    BY DEF GiveUp
<1>2. call[c].body = None
    BY <1>1 DEF IndInv, CallOK, Stored
<1>3. Stored(call[c])'
    BY <1>1, <1>2, MoveOK DEF Stored
<1>4. QED
    BY <1>1, <1>3, MoveOK, LocalStep DEF CallOK

\* _persist_success writes the file.
LEMMA WriteArtifactStep ==
    ASSUME IndInv, NEW c \in Callers, WriteArtifact(c) PROVE IndInv'
<1>1. /\ call[c].pc = "writing" /\ call' = [call EXCEPT ![c].pc = "recording"]
      /\ files' = files \cup {call[c].body} /\ UNCHANGED <<artifacts, cache, attempts>>
    BY DEF WriteArtifact
<1>2. Answered(call[c])
    BY <1>1 DEF IndInv, CallOK, Stored
<1>3. Stored(call[c])'
    BY <1>1, <1>2, MoveOK DEF Stored, Answered
<1>4. cache' = [r \in Requests |-> cache'[r]] /\ CacheBacked'
    BY <1>1 DEF IndInv, CacheBacked
<1>5. QED
    BY <1>1, <1>3, <1>4, MoveOK, GrowStep DEF CallOK

\* _persist_success records the artifact.
LEMMA RecordArtifactStep ==
    ASSUME IndInv, NEW c \in Callers, RecordArtifact(c) PROVE IndInv'
<1>1. /\ call[c].pc = "recording" /\ call' = [call EXCEPT ![c].pc = "offsets"]
      /\ artifacts' = artifacts \cup {call[c].body} /\ UNCHANGED <<files, cache, attempts>>
    BY DEF RecordArtifact
<1>2. Answered(call[c]) /\ call[c].body \in files
    BY <1>1 DEF IndInv, CallOK, Stored
<1>3. Stored(call[c])'
    BY <1>1, <1>2, MoveOK DEF Stored, Answered
<1>4. cache' = [r \in Requests |-> cache'[r]] /\ CacheBacked'
    BY <1>1 DEF IndInv, CacheBacked
<1>5. QED
    BY <1>1, <1>3, <1>4, MoveOK, GrowStep DEF CallOK

\* save_attempts reads the numbers; nothing is written.
LEMMA ReadOffsetsStep ==
    ASSUME IndInv, NEW c \in Callers, ReadOffsets(c) PROVE IndInv'
<1>1. PICK x : call' = [call EXCEPT ![c].pc = "saving", ![c].offset = x]
    BY DEF ReadOffsets
<1>2. /\ call[c].pc = "offsets" /\ UNCHANGED storage
      /\ call'[c] = [call[c] EXCEPT !.pc = "saving", !.offset = x]
      /\ call' = [call EXCEPT ![c] = call'[c]]
    BY <1>1 DEF ReadOffsets, IndInv
<1>3. UNCHANGED <<files, artifacts>>
    BY <1>2 DEF storage
<1>4. IsCall(call[c]) /\ Legal(call[c]) /\ Stored(call[c])
    BY <1>2 DEF IndInv, CallOK, Permitted
<1>5. /\ call'[c].pc = "saving" /\ call'[c].body = call[c].body
      /\ call'[c].policy = call[c].policy
      /\ call'[c].request = call[c].request /\ call'[c].tried = call[c].tried
    BY <1>2, <1>4 DEF IsCall, CallRecords
<1>6. IsCall(call[c])'
  <2>1. call[c].tried \in Seq(Attempted)
      BY <1>4 DEF IsCall
  <2>2. IsCall([call[c] EXCEPT !.pc = "saving", !.offset = x])
      BY <1>4, <2>1, Updates, Zenon
  <2>3. QED
      BY <1>2, <2>2 DEF IsCall
<1>7. Permitted(call[c])'
    BY <1>4, <1>5 DEF Permitted, Legal
<1>8. Stored(call[c])'
    BY <1>2, <1>3, <1>4, <1>5 DEF Stored, Answered
<1>9. QED
    BY <1>2, <1>6, <1>7, <1>8, LocalStep DEF CallOK

\* A call ends without storing anything.
LEMMA RaiseStep ==
    ASSUME IndInv, NEW c \in Callers, NEW kind, call[c].pc # "idle", Finish(c, Failure(kind)),
           UNCHANGED storage
    PROVE  IndInv'
<1>1. Failure(kind).source \in call[c].policy.allowed \cup {None}
    BY FailureAllowed, Zenon
<1>2. call' = [call EXCEPT ![c] = call'[c]] /\ CallOK(call[c])'
    BY <1>1, FinishOK
<1>3. QED
    BY <1>2, LocalStep

\* A killed call leaves what it has stored.
LEMMA CrashStep ==
    ASSUME IndInv, NEW c \in Callers, Crash(c) PROVE IndInv'
<1>1. call'[c] = Idle /\ call' = [call EXCEPT ![c] = call'[c]] /\ UNCHANGED storage
    BY DEF Crash, IndInv
<1>2. CallOK(call[c])'
    BY <1>1, IdleOK DEF CallOK, IsCall, Permitted, Legal, Stored, Idle
<1>3. QED
    BY <1>1, <1>2, LocalStep

\* Going on to the next source stays within the policy's order.
LEMMA TailOK ==
    ASSUME NEW S, NEW todo \in Seq(S), todo # <<>> PROVE Tail(todo) \in Seq(S)
OBVIOUS

\* After the only source there is none.
LEMMA OneSource == \A x : Tail(<<x>>) = <<>> /\ Head(<<x>>) = x
<1> SUFFICES ASSUME NEW x PROVE Tail(<<x>>) = <<>> /\ Head(<<x>>) = x
    OBVIOUS
<1>1. <<x>> \in Seq({x}) /\ <<x>> # <<>> /\ Len(<<x>>) = 1 /\ Head(<<x>>) = x
    OBVIOUS
<1>2. Tail(<<x>>) \in Seq({x}) /\ Len(Tail(<<x>>)) = 0
    BY <1>1
<1>3. QED
    BY <1>1, <1>2, EmptySeq

\* A source without an adapter is passed over.
LEMMA SkipSourceStep ==
    ASSUME IndInv, NEW c \in Callers, SkipSource(c) PROVE IndInv'
<1>1. /\ call[c].pc = "calling" /\ call[c].todo # <<>> /\ UNCHANGED storage
      /\ call'[c] = [call[c] EXCEPT !.todo = Tail(call[c].todo)]
      /\ call' = [call EXCEPT ![c] = call'[c]]
    BY DEF SkipSource, IndInv
<1>2. IsCall(call[c]) /\ Permitted(call[c]) /\ Stored(call[c])
    BY DEF IndInv, CallOK
<1>3. /\ call'[c].pc = "calling" /\ call'[c].body = call[c].body
      /\ call'[c].policy = call[c].policy /\ call'[c].todo = Tail(call[c].todo)
      /\ call'[c].request = call[c].request /\ call'[c].tried = call[c].tried
    BY <1>1, <1>2 DEF IsCall, CallRecords
<1>4. IsCall(call[c])'
  <2>1. call[c].tried \in Seq(Attempted)
      BY <1>2 DEF IsCall
  <2>2. IsCall([call[c] EXCEPT !.todo = Tail(call[c].todo)])
      BY <1>2, <2>1, Updates, Zenon
  <2>3. QED
      BY <1>1, <2>2 DEF IsCall
<1>5. Permitted(call[c])'
  <2>1. call[c].todo \in Seq(call[c].policy.allowed)
      BY <1>1, <1>2 DEF Permitted
  <2>2. Tail(call[c].todo) \in Seq(call[c].policy.allowed)
      BY <1>1, <2>1, TailOK
  <2>3. ~call[c].policy.fallback => Tail(call[c].todo) = <<>>
    <3>1. ~call[c].policy.fallback => call[c].todo = <<call[c].policy.order[1]>>
        BY <1>1, <1>2 DEF Permitted
    <3>2. QED
        BY <3>1, OneSource
  <2>4. QED
      BY <1>1, <1>2, <1>3, <2>2, <2>3 DEF Permitted, Legal
<1>6. Stored(call[c])'
    BY <1>1, <1>2, <1>3 DEF Stored
<1>7. QED
    BY <1>1, <1>4, <1>5, <1>6, LocalStep DEF CallOK

\* The record of an attempt.
LEMMA AttemptOK ==
    ASSUME IndInv, NEW c \in Callers, NEW reply \in AllReplies \cup {"unsupported"},
           Head(call[c].todo) \in Sources
    PROVE  Attempt(c, reply) \in Attempted /\ Attempt(c, reply).source = Head(call[c].todo)
<1> DEFINE s == Head(call[c].todo)
           M == {i \in DOMAIN call[c].tried : call[c].tried[i].source = s}
<1>1. call[c].tried \in Seq(Attempted)
    BY DEF IndInv, CallOK, IsCall
<1>2. DOMAIN call[c].tried = 1..Len(call[c].tried) /\ Len(call[c].tried) \in Nat
    BY <1>1
<1>3. IsFiniteSet(1..Len(call[c].tried))
    BY <1>2, FS_Interval
<1>4. IsFiniteSet(M)
    BY <1>2, <1>3, FS_Subset
<1>5. AttemptsAt(c, s) + 1 \in Nat
  <2>1. Cardinality(M) \in Nat
      BY <1>4, FS_CardinalityType
  <2>2. QED
      BY <2>1 DEF AttemptsAt
<1>6. KindOf(s, reply) \in {"success", "permanent", "unavailable", "invalid_response"}
                          \cup RetryableFailures
    BY DEF KindOf, RetryableFailures
<1>7. QED
    BY <1>5, <1>6 DEF Attempt, Attempted

\* The attempts with a new one at their end.
LEMMA AppendOK ==
    ASSUME NEW tried \in Seq(Attempted), NEW t \in Attempted
    PROVE  /\ Append(tried, t) \in Seq(Attempted) /\ Len(Append(tried, t)) > 0
           /\ Append(tried, t)[Len(Append(tried, t))] = t
           /\ \A i \in DOMAIN Append(tried, t) :
                Append(tried, t)[i] = t \/ (i \in DOMAIN tried /\ Append(tried, t)[i] = tried[i])
OBVIOUS

\* One attempt at the next source of the order.
LEMMA CallStep ==
    ASSUME IndInv, NEW c \in Callers, NEW reply \in Replies \cup {"unsupported"},
           NEW body \in Bodies, Call(c, reply, body)
    PROVE  IndInv'
<1>1. PICK t : t = Attempt(c, reply)
    OBVIOUS
<1>2. PICK tried : tried = Append(call[c].tried, t)
    OBVIOUS
<1>3. PICK todo : todo = IF Retries(t) THEN call[c].todo ELSE Tail(call[c].todo)
    OBVIOUS
<1>4. /\ call[c].pc = "calling" /\ call[c].todo # <<>> /\ Reachable(c) /\ UNCHANGED storage
      /\ call' = [call EXCEPT ![c] =
             IF t.kind = "success"
             THEN [@ EXCEPT !.tried = tried, !.body = body, !.pc = "writing"]
             ELSE [@ EXCEPT !.tried = tried, !.todo = todo]]
    BY <1>1, <1>2, <1>3 DEF Call
<1>5. IsCall(call[c]) /\ Permitted(call[c]) /\ Stored(call[c])
    BY DEF IndInv, CallOK
<1>6. call' = [call EXCEPT ![c] = call'[c]]
    BY <1>4 DEF IndInv
<1>7. /\ t \in Attempted /\ t.source = Head(call[c].todo)
      /\ t.source \in call[c].policy.allowed
    BY <1>1, <1>4, AttemptOK, AccessAssumption DEF Reachable
<1>8. /\ tried \in Seq(Attempted) /\ Len(tried) > 0 /\ tried[Len(tried)] = t
      /\ \A i \in DOMAIN tried :
            tried[i] = t \/ (i \in DOMAIN call[c].tried /\ tried[i] = call[c].tried[i])
    BY <1>2, <1>5, <1>7, AppendOK DEF IsCall
<1>9. call[c].todo \in Seq(call[c].policy.allowed)
    BY <1>4, <1>5 DEF Permitted
<1>10. /\ todo \in Seq(call[c].policy.allowed)
       /\ ~call[c].policy.fallback =>
            /\ t.source = call[c].policy.order[1]
            /\ todo \in {<<>>, <<call[c].policy.order[1]>>}
  <2>1. ~call[c].policy.fallback => call[c].todo = <<call[c].policy.order[1]>>
      BY <1>4, <1>5 DEF Permitted
  <2>2. Tail(call[c].todo) \in Seq(call[c].policy.allowed)
      BY <1>4, <1>9, TailOK, Zenon
  <2>3. ~call[c].policy.fallback =>
            Tail(call[c].todo) = <<>> /\ Head(call[c].todo) = call[c].policy.order[1]
      BY <2>1, OneSource
  <2>4. QED
      BY <1>3, <1>7, <1>9, <2>1, <2>2, <2>3, Zenon
<1>11. \A i \in DOMAIN tried :
        /\ call[c].policy.rule = "allowed" /\ ~call[c].policy.offline
        /\ tried[i].source \in call[c].policy.allowed
        /\ ~call[c].policy.fallback => tried[i].source = call[c].policy.order[1]
    BY <1>4, <1>5, <1>7, <1>8, <1>10 DEF Permitted, Legal
<1>12. CASE t.kind = "success"
  <2>1. call'[c] = [call[c] EXCEPT !.tried = tried, !.body = body, !.pc = "writing"]
      BY <1>4, <1>12 DEF IndInv
  <2>2. /\ call'[c].pc = "writing" /\ call'[c].policy = call[c].policy
        /\ call'[c].request = call[c].request /\ call'[c].tried = tried
      BY <1>5, <2>1 DEF IsCall, CallRecords
  <2>3. IsCall(call[c])'
    <3>1. IsCall([call[c] EXCEPT !.tried = tried, !.body = body, !.pc = "writing"])
        BY <1>5, <1>8, Updates, Zenon
    <3>2. QED
        BY <2>1, <3>1 DEF IsCall
  <2>4. Permitted(call[c])'
      BY <1>4, <1>5, <1>11, <2>2 DEF Permitted, Legal
  <2>5. Stored(call[c])'
      BY <1>8, <1>12, <2>2 DEF Stored, Answered
  <2>6. QED
      BY <1>4, <1>6, <2>3, <2>4, <2>5, LocalStep DEF CallOK
<1>13. CASE t.kind # "success"
  <2>1. call'[c] = [call[c] EXCEPT !.tried = tried, !.todo = todo]
      BY <1>4, <1>13 DEF IndInv
  <2>2. /\ call'[c].pc = "calling" /\ call'[c].policy = call[c].policy
        /\ call'[c].request = call[c].request /\ call'[c].tried = tried
        /\ call'[c].todo = todo /\ call'[c].body = call[c].body
    <3>1. call[c].pc = "calling" /\ \E U : call[c] \in CallRecords(U)
        BY <1>4, <1>5 DEF IsCall
    <3>2. QED
        BY <2>1, <3>1 DEF CallRecords
  <2>3. IsCall(call[c])'
    <3>1. IsCall([call[c] EXCEPT !.tried = tried, !.todo = todo])
        BY <1>5, <1>8, Updates, Zenon
    <3>2. QED
        BY <2>1, <3>1 DEF IsCall
  <2>4. Permitted(call[c])'
      BY <1>4, <1>5, <1>10, <1>11, <2>2 DEF Permitted, Legal
  <2>5. Stored(call[c])'
      BY <1>4, <1>5, <2>2 DEF Stored
  <2>6. QED
      BY <1>4, <1>6, <2>3, <2>4, <2>5, LocalStep DEF CallOK
<1>14. QED
    BY <1>12, <1>13

\* A call with a body has an allowed source to name in its answer.
LEMMA LastAllowed ==
    ASSUME IndInv, NEW c \in Callers, call[c].pc # "idle", Answered(call[c])
    PROVE  /\ Len(call[c].tried) \in DOMAIN call[c].tried
           /\ \A kind, body :
                Response(kind, LastTried(c).source, body).source \in call[c].policy.allowed \cup {None}
<1>1. call[c].tried \in Seq(Attempted) /\ Legal(call[c])
    BY DEF IndInv, CallOK, IsCall, Permitted
<1>2. Len(call[c].tried) \in DOMAIN call[c].tried
    BY <1>1 DEF Answered
<1>3. LastTried(c).source \in call[c].policy.allowed
    BY <1>1, <1>2 DEF LastTried, Legal
<1>4. QED
    BY <1>2, <1>3 DEF Response

\* save_attempts logs the attempt that brought the body.
LEMMA SaveAttemptsStep ==
    ASSUME IndInv, NEW c \in Callers, SaveAttempts(c) PROVE IndInv'
<1>1. /\ call[c].pc = "saving" /\ attempts' = attempts \cup NewRows(c)
      /\ UNCHANGED <<files, artifacts, cache>>
    BY DEF SaveAttempts
<1>2. call[c].body # None => Answered(call[c]) /\ call[c].body \in files \cap artifacts
    BY <1>1 DEF IndInv, CallOK, Stored
<1>3. cache' = [r \in Requests |-> cache'[r]] /\ CacheBacked'
    BY <1>1 DEF IndInv, CacheBacked
<1>4. CASE call[c].body = None
  <2>1. Finish(c, Failure(FinalError(c)))
      BY <1>4 DEF SaveAttempts
  <2>2. Failure(FinalError(c)).source \in call[c].policy.allowed \cup {None}
      BY FailureAllowed, Zenon
  <2>3. call' = [call EXCEPT ![c] = call'[c]] /\ CallOK(call[c])'
      BY <1>1, <2>1, <2>2, FinishOK
  <2>4. QED
      BY <1>1, <1>3, <2>3, GrowStep
<1>5. CASE call[c].body # None /\ call[c].request \in Fixed
  <2>1. call' = [call EXCEPT ![c].pc = "caching"]
      BY <1>5 DEF SaveAttempts
  <2>2. Answered(call[c]) /\ call[c].body \in files \cap artifacts
      BY <1>2, <1>5
  <2> DEFINE x == Row(c, call[c].tried[Len(call[c].tried)])
  <2>3. x \in NewRows(c)
      BY <1>1, <2>2, LastAllowed DEF NewRows
  <2>4. /\ x.request = call[c].request /\ x.kind = "success" /\ x.body = call[c].body
        /\ x.source = call[c].tried[Len(call[c].tried)].source
      BY <2>2 DEF Row, Answered
  <2> HIDE DEF x
  <2>5. Logged(call[c])'
      BY <1>1, <2>1, <2>3, <2>4, MoveOK DEF Logged
  <2>6. Stored(call[c])'
      BY <1>1, <1>5, <2>1, <2>2, <2>5, MoveOK DEF Stored, Answered
  <2>7. QED
      BY <1>1, <1>3, <2>1, <2>6, MoveOK, GrowStep DEF CallOK
<1>6. CASE call[c].body # None /\ call[c].request \notin Fixed
  <2>1. Finish(c, Response("miss", LastTried(c).source, call[c].body))
      BY <1>6 DEF SaveAttempts
  <2>2. Response("miss", LastTried(c).source, call[c].body).source
            \in call[c].policy.allowed \cup {None}
      BY <1>1, <1>2, <1>6, LastAllowed
  <2>3. call' = [call EXCEPT ![c] = call'[c]] /\ CallOK(call[c])'
      BY <1>1, <2>1, <2>2, FinishOK
  <2>4. QED
      BY <1>1, <1>3, <2>3, GrowStep
<1>7. QED
    BY <1>4, <1>5, <1>6

\* put_cache adds an entry that is backed, or the one that is there.
LEMMA PutCacheStep ==
    ASSUME IndInv, NEW c \in Callers, PutCache(c) PROVE IndInv'
<1>1. /\ call[c].pc = "caching" /\ cache' = [cache EXCEPT ![call[c].request] = Entry(c)]
      /\ Finish(c, Response("miss", LastTried(c).source, call[c].body))
      /\ UNCHANGED <<files, artifacts, attempts>>
    BY DEF PutCache
<1>2. /\ Answered(call[c]) /\ call[c].body \in files \cap artifacts
      /\ call[c].request \in Fixed /\ Logged(call[c])
    BY <1>1 DEF IndInv, CallOK, Stored
<1>3. Response("miss", LastTried(c).source, call[c].body).source
            \in call[c].policy.allowed \cup {None}
    BY <1>1, <1>2, LastAllowed
<1>4. call' = [call EXCEPT ![c] = call'[c]] /\ CallOK(call[c])'
    BY <1>1, <1>3, FinishOK
<1>5. cache' = [r \in Requests |-> cache'[r]]
    BY <1>1 DEF IndInv
<1>6. Entry(c).source = call[c].tried[Len(call[c].tried)].source /\ Entry(c).body = call[c].body
    BY DEF Entry, LastTried
<1>7. CacheBacked'
  <2> SUFFICES ASSUME NEW r \in Requests, cache'[r] # None
               PROVE  /\ r \in Fixed /\ cache'[r].body \in files \cap artifacts
                      /\ \E x \in attempts :
                            /\ x.request = r /\ x.kind = "success"
                            /\ x.source = cache'[r].source /\ x.body = cache'[r].body
      BY <1>1 DEF CacheBacked
  <2>1. CASE r = call[c].request
    <3>1. cache'[r] = Entry(c)
        BY <1>1, <2>1 DEF IndInv
    <3>2. QED
        BY <1>2, <1>6, <2>1, <3>1 DEF Logged
  <2>2. CASE r # call[c].request
    <3>1. cache'[r] = cache[r]
        BY <1>1, <2>2 DEF IndInv
    <3>2. QED
        BY <3>1 DEF IndInv, CacheBacked
  <2>3. QED
      BY <2>1, <2>2
<1>8. QED
    BY <1>1, <1>4, <1>5, <1>7, GrowStep

-----------------------------------------------------------------------------
(* The cache and the policies. *)

\* Every step keeps the invariant.
LEMMA NextHolds == IndInv /\ [Next]_vars => IndInv'
<1> SUFFICES ASSUME IndInv, [Next]_vars PROVE IndInv'
    OBVIOUS
<1>1. ASSUME NEW c \in Callers, Step(c) PROVE IndInv'
  <2>1. CASE \E reply \in Replies \cup {"unsupported"}, body \in Bodies : Call(c, reply, body)
      BY <2>1, CallStep
  <2>2. CASE AttemptConflict(c) \/ CacheConflict(c)
      BY <2>2, RaiseStep DEF AttemptConflict, CacheConflict
  <2>3. QED
      BY <1>1, <2>1, <2>2, SkipSourceStep, GiveUpStep, WriteArtifactStep, RecordArtifactStep,
         ReadOffsetsStep, SaveAttemptsStep, PutCacheStep DEF Step
<1>2. CASE UNCHANGED vars
    BY <1>2 DEF vars, IndInv, CallOK, IsCall, Permitted, Legal, Stored, Answered, Logged, CacheBacked
<1>3. QED
    BY <1>1, <1>2, ExecuteStep, CrashStep DEF Next

\* The induction for the theorems below.
LEMMA Inductive == Spec => []IndInv
BY InitHolds, NextHolds, PTL DEF Spec

\* _persist_success, killed anywhere: a cache entry is of a fixed block and has
\* its file, its artifact row and the attempt that fetched it.
THEOREM CacheIsBacked == Spec => []CacheBacked
<1>1. IndInv => CacheBacked
    BY DEF IndInv
<1>2. QED
    BY <1>1, Inductive, PTL

\* _policy_error, execute and get_cache: no source is called or answers, also
\* from the cache, that the policy of the call does not allow.
THEOREM PolicyIsObeyed == Spec => []PolicyObeyed
<1>1. IndInv => PolicyObeyed
    BY DEF IndInv, CallOK, Permitted, Legal, PolicyObeyed, Started
<1>2. QED
    BY <1>1, Inductive, PTL

\* put_cache: an entry is never replaced.
THEOREM CacheNeverReplaced == Spec => CacheIsImmutable
<1>1. IndInv /\ [Next]_vars => [\A r \in Requests : cache[r] # None => cache'[r] = cache[r]]_vars
  <2> SUFFICES ASSUME IndInv, Next PROVE \A r \in Requests : cache[r] # None => cache'[r] = cache[r]
      OBVIOUS
  <2>1. ASSUME NEW c \in Callers, PutCache(c)
        PROVE  \A r \in Requests : cache[r] # None => cache'[r] = cache[r]
      BY <2>1 DEF PutCache, MayCache, IndInv
  <2>2. ASSUME NEW c \in Callers, Step(c), ~PutCache(c) PROVE UNCHANGED cache
      BY <2>2 DEF Step, Call, SkipSource, GiveUp, WriteArtifact, RecordArtifact, ReadOffsets,
                  SaveAttempts, AttemptConflict, CacheConflict, storage
  <2>3. ASSUME NEW c \in Callers, Crash(c) PROVE UNCHANGED cache
      BY <2>3 DEF Crash, storage
  <2>4. ASSUME NEW c \in Callers, NEW a \in Runs, NEW r \in Requests, NEW p \in Policies,
               Execute(c, a, r, p)
        PROVE  UNCHANGED cache
      BY <2>4 DEF Execute, storage
  <2>5. QED
      BY <2>1, <2>2, <2>3, <2>4 DEF Next
<1>2. QED
    BY <1>1, Inductive, PTL DEF Spec, CacheIsImmutable
-----------------------------------------------------------------------------
(* Retries, and the numbers of the attempts.                               *)

\* The positions of the attempts at source x.
At(tried, x) == {i \in DOMAIN tried : tried[i].source = x}

\* The attempts at each source are numbered from 1, each number once.
Numbered(tried) ==
    \A x \in Sources :
        /\ {tried[i].number : i \in At(tried, x)} = 1..Cardinality(At(tried, x))
        /\ \A i, j \in At(tried, x) : tried[i].number = tried[j].number => i = j

\* Each attempt but the last has failed, and the next is at the same source
\* when that one is tried again, and only then.
InTurn(tried) ==
    \A i \in DOMAIN tried :
        /\ tried[i].kind = KindOf(tried[i].source, tried[i].reply)
        /\ tried[i].number <= MaxAttempts
        /\ i < Len(tried) =>
            /\ tried[i].kind # "success"
            /\ tried[i + 1].source = tried[i].source <=> Retries(tried[i])

\* The last attempt failed and has a next one.
Again(tried) == tried # <<>> /\ Retries(tried[Len(tried)])

\* The sources still to try: first the one to try again, then new ones.
Ahead(tried, todo) ==
    /\ \A i, j \in DOMAIN todo : todo[i] = todo[j] => i = j
    /\ tried # <<>> =>
        LET last == tried[Len(tried)]
        IN  last.kind # "success" /\ last.number = Cardinality(At(tried, last.source))
    /\ Again(tried) => todo # <<>> /\ todo[1] = tried[Len(tried)].source
    /\ \A i \in DOMAIN todo, j \in DOMAIN tried :
        todo[i] = tried[j].source => i = 1 /\ Again(tried)

Orderly(s) ==
    Numbered(s.tried) /\ InTurn(s.tried) /\ (s.pc = "calling" => Ahead(s.tried, s.todo))

RetryInv == \A c \in Callers : Orderly(call[c])

\* The attempts with a new one at their end, position by position.
LEMMA Appended ==
    ASSUME NEW tried \in Seq(Attempted), NEW t \in Attempted, NEW new, new = Append(tried, t)
    PROVE  /\ new \in Seq(Attempted) /\ new # <<>> /\ Len(new) = Len(tried) + 1
           /\ Len(tried) \in Nat
           /\ DOMAIN tried = 1..Len(tried) /\ DOMAIN new = 1..(Len(tried) + 1)
           /\ new[Len(tried) + 1] = t /\ \A i \in 1..Len(tried) : new[i] = tried[i]
OBVIOUS

\* The positions of a source's attempts are finitely many.
LEMMA AtFinite ==
    ASSUME NEW tried \in Seq(Attempted), NEW x
    PROVE  IsFiniteSet(At(tried, x)) /\ Cardinality(At(tried, x)) \in Nat
<1>1. DOMAIN tried = 1..Len(tried) /\ Len(tried) \in Nat
    OBVIOUS
<1>2. IsFiniteSet(1..Len(tried))
    BY <1>1, FS_Interval
<1>3. IsFiniteSet(At(tried, x))
    BY <1>1, <1>2, FS_Subset DEF At
<1>4. QED
    BY <1>3, FS_CardinalityType

\* A new attempt has the next number at its source, so the numbers there stay
\* an interval from 1.
LEMMA NumberNext ==
    ASSUME NEW tried \in Seq(Attempted), Numbered(tried), NEW t \in Attempted,
           t.number = Cardinality(At(tried, t.source)) + 1, NEW new, new = Append(tried, t)
    PROVE  Numbered(new) /\ Cardinality(At(new, t.source)) = t.number
<1>1. PICK n : n = Len(tried) /\ n \in Nat
    BY Appended
<1>2. /\ DOMAIN tried = 1..n /\ DOMAIN new = 1..(n + 1)
      /\ new[n + 1] = t /\ \A i \in 1..n : new[i] = tried[i]
    BY <1>1, Appended
<1>3. \A x : x # t.source => At(new, x) = At(tried, x)
    BY <1>1, <1>2 DEF At
<1>4. At(new, t.source) = At(tried, t.source) \cup {n + 1} /\ n + 1 \notin At(tried, t.source)
    BY <1>1, <1>2 DEF At
<1>5. PICK k : k = Cardinality(At(tried, t.source)) /\ k \in Nat
    BY AtFinite
<1>6. Cardinality(At(new, t.source)) = k + 1
    BY <1>4, <1>5, AtFinite, FS_AddElement
<1>7. ASSUME NEW x \in Sources, x # t.source
      PROVE  /\ {new[i].number : i \in At(new, x)} = 1..Cardinality(At(new, x))
             /\ \A i, j \in At(new, x) : new[i].number = new[j].number => i = j
  <2>1. At(new, x) = At(tried, x) /\ \A i \in At(tried, x) : new[i] = tried[i]
      BY <1>2, <1>3, <1>7 DEF At
  <2>2. /\ {tried[i].number : i \in At(tried, x)} = 1..Cardinality(At(tried, x))
        /\ \A i, j \in At(tried, x) : tried[i].number = tried[j].number => i = j
      BY DEF Numbered
  <2>3. {new[i].number : i \in At(new, x)} = {tried[i].number : i \in At(tried, x)}
      BY <2>1
  <2>4. QED
      BY <2>1, <2>2, <2>3
<1>8. /\ {new[i].number : i \in At(new, t.source)} = 1..Cardinality(At(new, t.source))
      /\ \A i, j \in At(new, t.source) : new[i].number = new[j].number => i = j
  <2>1. PICK A : A = At(tried, t.source)
      OBVIOUS
  <2>2. /\ t.source \in Sources /\ t.number = k + 1
        /\ At(new, t.source) = A \cup {n + 1} /\ n + 1 \notin A
        /\ \A i \in A : new[i] = tried[i]
      BY <1>2, <1>4, <1>5, <2>1 DEF At, Attempted
  <2>3. /\ {tried[i].number : i \in A} = 1..k
        /\ \A i, j \in A : tried[i].number = tried[j].number => i = j
      BY <1>5, <2>1, <2>2 DEF Numbered
  <2>4. \A i \in A : new[i].number \in 1..k
      BY <2>2, <2>3
  <2>5. {new[i].number : i \in A} = 1..k
    <3>1. {new[i].number : i \in A} = {tried[i].number : i \in A}
        BY <2>2
    <3>2. QED
        BY <2>3, <3>1
  <2>6. {new[i].number : i \in A \cup {n + 1}} = {new[i].number : i \in A} \cup {k + 1}
    <3>1. new[n + 1].number = k + 1
        BY <1>2, <2>2
    <3>2. QED
        BY <3>1
  <2>7. (1..k) \cup {k + 1} = 1..(k + 1)
      BY <1>5
  <2>8. \A i, j \in A \cup {n + 1} : new[i].number = new[j].number => i = j
    <3> SUFFICES ASSUME NEW i \in A \cup {n + 1}, NEW j \in A \cup {n + 1},
                        new[i].number = new[j].number
                 PROVE  i = j
        OBVIOUS
    <3>1. new[n + 1].number = k + 1 /\ k + 1 \notin 1..k
        BY <1>2, <1>5, <2>2
    <3>2. CASE i \in A /\ j \in A
        BY <2>2, <2>3, <3>2
    <3>3. CASE i = n + 1 \/ j = n + 1
        BY <2>4, <3>1, <3>3
    <3>4. QED
        BY <3>2, <3>3
  <2>9. QED
      BY <1>6, <2>2, <2>5, <2>6, <2>7, <2>8
<1>9. QED
    BY <1>5, <1>6, <1>7, <1>8 DEF Numbered

\* The sources after the first.
LEMMA TailElements ==
    ASSUME NEW S, NEW todo \in Seq(S), todo # <<>>
    PROVE  /\ 1 \in DOMAIN todo /\ Head(todo) = todo[1] /\ DOMAIN todo \subseteq Nat
           /\ \A i \in DOMAIN Tail(todo) :
                /\ i \in Nat /\ i + 1 \in DOMAIN todo /\ i + 1 # 1
                /\ Tail(todo)[i] = todo[i + 1]
OBVIOUS

\* The first attempt at a source has number 1, the next ones the next numbers up
\* to max_attempts; a new source only has its turn when the last is used up.
LEMMA TurnNext ==
    ASSUME NEW tried \in Seq(Attempted), InTurn(tried), NEW S, NEW todo \in Seq(S), todo # <<>>,
           Ahead(tried, todo), NEW t \in Attempted, t.source = todo[1],
           t.number = Cardinality(At(tried, t.source)) + 1,
           t.kind = KindOf(t.source, t.reply), NEW new, new = Append(tried, t)
    PROVE  InTurn(new)
<1>1. PICK n : n = Len(tried) /\ n \in Nat
    BY Appended
<1>2. /\ DOMAIN tried = 1..n /\ DOMAIN new = 1..(n + 1) /\ Len(new) = n + 1
      /\ new[n + 1] = t /\ \A i \in 1..n : new[i] = tried[i]
    BY <1>1, Appended
<1>3. 1 \in DOMAIN todo
    BY TailElements
<1>4. tried = <<>> <=> n = 0
    BY <1>1
<1>5. MaxAttempts \in Nat \ {0}
    BY AccessAssumption
<1>6. ~Again(tried) => t.number = 1
  <2> SUFFICES ASSUME ~Again(tried) PROVE t.number = 1
      OBVIOUS
  <2>1. \A j \in DOMAIN tried : tried[j].source # t.source
      BY <1>3 DEF Ahead
  <2>2. At(tried, t.source) = {}
      BY <2>1 DEF At
  <2>3. QED
      BY <2>2, FS_EmptySet
<1>7. Again(tried) => /\ n > 0 /\ tried[n].source = t.source /\ tried[n].number < MaxAttempts
                      /\ t.number = tried[n].number + 1
    BY <1>1, <1>4 DEF Again, Ahead, Retries
<1>8. t.number <= MaxAttempts
  <2>1. n > 0 => tried[n] \in Attempted
      BY <1>1, <1>2
  <2>2. n > 0 => tried[n].number \in Nat
      BY <2>1 DEF Attempted
  <2>3. QED
      BY <1>5, <1>6, <1>7, <2>2
<1>9. n > 0 => /\ tried[n].kind # "success"
               /\ t.source = tried[n].source <=> Retries(tried[n])
  <2> SUFFICES ASSUME n > 0
               PROVE  /\ tried[n].kind # "success"
                      /\ t.source = tried[n].source <=> Retries(tried[n])
      OBVIOUS
  <2>1. tried # <<>> /\ n \in DOMAIN tried
      BY <1>1, <1>2, <1>4
  <2>2. tried[n].kind # "success" /\ (Again(tried) <=> Retries(tried[n]))
      BY <1>1, <2>1 DEF Ahead, Again
  <2>3. t.source = tried[n].source => Again(tried)
      BY <1>3, <2>1 DEF Ahead
  <2>4. QED
      BY <1>7, <2>2, <2>3
<1>10. ASSUME NEW i \in DOMAIN new
       PROVE  /\ new[i].kind = KindOf(new[i].source, new[i].reply)
              /\ new[i].number <= MaxAttempts
              /\ i < Len(new) =>
                    /\ new[i].kind # "success"
                    /\ new[i + 1].source = new[i].source <=> Retries(new[i])
  <2>1. CASE i = n + 1
      BY <1>1, <1>2, <1>8, <2>1
  <2>2. CASE i = n
    <3>1. n > 0 /\ n \in DOMAIN tried /\ new[n] = tried[n]
        BY <1>1, <1>2, <2>2
    <3>2. /\ tried[n].kind = KindOf(tried[n].source, tried[n].reply)
          /\ tried[n].number <= MaxAttempts
        BY <3>1 DEF InTurn
    <3>3. QED
        BY <1>2, <1>9, <2>2, <3>1, <3>2
  <2>3. CASE i < n
    <3>1. /\ i \in DOMAIN tried /\ i < Len(tried) /\ new[i] = tried[i] /\ new[i + 1] = tried[i + 1]
        BY <1>1, <1>2, <2>3
    <3>2. QED
        BY <3>1 DEF InTurn
  <2>4. QED
      BY <1>1, <1>2, <2>1, <2>2, <2>3
<1>11. QED
    BY <1>10, Zenon DEF InTurn

\* After a failed attempt the sources to try are in turn again.
LEMMA AheadNext ==
    ASSUME NEW tried \in Seq(Attempted), NEW S, NEW todo \in Seq(S), todo # <<>>,
           Ahead(tried, todo), NEW t \in Attempted, t.source = todo[1], t.kind # "success",
           NEW new, new = Append(tried, t), Cardinality(At(new, t.source)) = t.number
    PROVE  Ahead(new, IF Retries(t) THEN todo ELSE Tail(todo))
<1>1. PICK n : n = Len(tried) /\ n \in Nat
    BY Appended
<1>2. /\ DOMAIN tried = 1..n /\ DOMAIN new = 1..(n + 1) /\ Len(new) = n + 1 /\ new # <<>>
      /\ new[n + 1] = t /\ \A i \in 1..n : new[i] = tried[i]
    BY <1>1, Appended
<1>3. PICK rest : rest = Tail(todo)
    OBVIOUS
<1>4. /\ 1 \in DOMAIN todo /\ DOMAIN todo \subseteq Nat
      /\ \A i \in DOMAIN rest :
                i \in Nat /\ i + 1 \in DOMAIN todo /\ i + 1 # 1 /\ rest[i] = todo[i + 1]
    BY <1>3, TailElements
<1>5. \A i, j \in DOMAIN todo : todo[i] = todo[j] => i = j
    BY DEF Ahead
<1>6. \A i \in DOMAIN todo, j \in DOMAIN new : todo[i] = new[j].source => i = 1
  <2> SUFFICES ASSUME NEW i \in DOMAIN todo, NEW j \in DOMAIN new, todo[i] = new[j].source
               PROVE  i = 1
      OBVIOUS
  <2>1. CASE j = n + 1
      BY <1>2, <1>4, <1>5, <2>1
  <2>2. CASE j # n + 1
    <3>1. j \in DOMAIN tried /\ new[j] = tried[j]
        BY <1>1, <1>2, <2>2
    <3>2. QED
        BY <3>1 DEF Ahead
  <2>3. QED
      BY <2>1, <2>2
<1>7. Again(new) <=> Retries(t)
    BY <1>1, <1>2 DEF Again
<1>8. new[Len(new)] = t
    BY <1>2
<1>9. CASE Retries(t)
    BY <1>5, <1>6, <1>7, <1>8, <1>9 DEF Ahead
<1>10. CASE ~Retries(t)
  <2>1. \A i, j \in DOMAIN rest : rest[i] = rest[j] => i = j
    <3> SUFFICES ASSUME NEW i \in DOMAIN rest, NEW j \in DOMAIN rest, rest[i] = rest[j]
                 PROVE  i = j
        OBVIOUS
    <3>1. i + 1 = j + 1 /\ i \in Nat /\ j \in Nat
        BY <1>4, <1>5
    <3>2. QED
        BY <3>1
  <2>2. \A i \in DOMAIN rest, j \in DOMAIN new : rest[i] # new[j].source
      BY <1>4, <1>6
  <2>3. QED
      BY <1>3, <1>7, <1>8, <1>10, <2>1, <2>2 DEF Ahead
<1>11. QED
    BY <1>9, <1>10

\* A caller's step changes its own local state only.
OwnStep(c) == call' = [call EXCEPT ![c] = call'[c]]

\* The steps after the sources were tried.
StoreStep(c) ==
    \/ GiveUp(c) \/ WriteArtifact(c) \/ RecordArtifact(c) \/ ReadOffsets(c)
    \/ SaveAttempts(c) \/ AttemptConflict(c) \/ PutCache(c) \/ CacheConflict(c)

\* They leave the call, its attempts and its body as they are, and all but one
\* the numbers it has read.
LEMMA StoreStepKeeps ==
    ASSUME IndInv, NEW c \in Callers, StoreStep(c)
    PROVE  /\ OwnStep(c) /\ call[c].pc \notin {"idle", "done"}
           /\ call'[c].pc \in {"recording", "offsets", "saving", "caching", "done"}
           /\ call'[c].tried = call[c].tried /\ call'[c].run = call[c].run
           /\ call'[c].request = call[c].request /\ call'[c].body = call[c].body
           /\ ~ReadOffsets(c) => call'[c].offset = call[c].offset
<1>1. PICK U : call[c] \in CallRecords(U)
    BY DEF IndInv, CallOK, IsCall
<1>2. call = [d \in Callers |-> call[d]]
    BY DEF IndInv
<1>3. ASSUME NEW pc \in {"recording", "offsets", "saving", "caching", "done"},
             NEW x, \/ call' = [call EXCEPT ![c].pc = pc]
                    \/ call' = [call EXCEPT ![c].pc = pc, ![c].answer = x]
      PROVE  /\ OwnStep(c) /\ call'[c].pc = pc
             /\ call'[c].tried = call[c].tried /\ call'[c].run = call[c].run
             /\ call'[c].request = call[c].request /\ call'[c].body = call[c].body
             /\ call'[c].offset = call[c].offset
  <2>1. OwnStep(c)
      BY <1>2, <1>3 DEF OwnStep
  <2>2. \/ call'[c] = [call[c] EXCEPT !.pc = pc]
        \/ call'[c] = [call[c] EXCEPT !.pc = pc, !.answer = x]
      BY <1>2, <1>3
  <2>3. QED
      BY <1>1, <2>1, <2>2 DEF CallRecords
<1>4. CASE ReadOffsets(c)
  <2>1. PICK x : call' = [call EXCEPT ![c].pc = "saving", ![c].offset = x]
      BY <1>4 DEF ReadOffsets
  <2>2. OwnStep(c) /\ call'[c] = [call[c] EXCEPT !.pc = "saving", !.offset = x]
      BY <1>2, <2>1 DEF OwnStep
  <2>3. /\ call'[c].pc = "saving"
        /\ call'[c].tried = call[c].tried /\ call'[c].run = call[c].run
        /\ call'[c].request = call[c].request /\ call'[c].body = call[c].body
      BY <1>1, <2>2 DEF CallRecords
  <2>4. QED
      BY <1>4, <2>2, <2>3 DEF ReadOffsets
<1>5. CASE GiveUp(c) \/ WriteArtifact(c) \/ RecordArtifact(c)
  <2>1. /\ call[c].pc \notin {"idle", "done"}
        /\ \E pc \in {"recording", "offsets"} : call' = [call EXCEPT ![c].pc = pc]
      BY <1>5 DEF GiveUp, WriteArtifact, RecordArtifact
  <2>2. QED
      BY <1>3, <2>1
<1>6. CASE SaveAttempts(c) \/ AttemptConflict(c) \/ PutCache(c) \/ CacheConflict(c)
  <2>1. /\ call[c].pc \notin {"idle", "done"}
        /\ \E pc \in {"caching", "done"} : \E x :
            \/ call' = [call EXCEPT ![c].pc = pc]
            \/ call' = [call EXCEPT ![c].pc = pc, ![c].answer = x]
    <3>1. call[c].pc \notin {"idle", "done"}
        BY <1>6 DEF SaveAttempts, AttemptConflict, PutCache, CacheConflict
    <3>2. (\E x : Finish(c, x)) \/ call' = [call EXCEPT ![c].pc = "caching"]
        BY <1>6 DEF SaveAttempts, AttemptConflict, PutCache, CacheConflict
    <3>3. QED
        BY <3>1, <3>2 DEF Finish
  <2>2. QED
      BY <1>3, <2>1
<1>7. QED
    BY <1>4, <1>5, <1>6 DEF StoreStep

\* Execute starts with no attempts and the sources of the policy's order, or
\* ends at once.
LEMMA ExecuteStarts ==
    ASSUME IndInv, NEW c \in Callers, NEW a \in Runs, NEW r \in Requests, NEW p \in Policies,
           Execute(c, a, r, p)
    PROVE  /\ OwnStep(c) /\ UNCHANGED attempts
           /\ call'[c].tried = <<>> /\ call'[c].run = a
           /\ call'[c].pc \in {"calling", "done"}
           /\ call'[c].pc = "calling" => call'[c].todo = SourcesToTry(p)
<1>1. PICK new : new = NewCall(a, r, p)
    OBVIOUS
<1>2. IsCall(new) /\ new.tried = <<>>
    BY <1>1, StartOK
<1>3. new.run = a
    BY <1>1 DEF NewCall, Idle
<1>4. PICK U : new \in CallRecords(U)
    BY <1>2 DEF IsCall
<1>5. UNCHANGED attempts
    BY DEF Execute, storage
<1>6. PICK x, y : call' = [call EXCEPT ![c] =
             IF Usable(r, p) THEN [new EXCEPT !.pc = "done", !.answer = x]
             ELSE IF PolicyError(p) # "none" THEN [new EXCEPT !.pc = "done", !.answer = y]
             ELSE [new EXCEPT !.pc = "calling", !.todo = SourcesToTry(p)]]
    BY <1>1, Zenon DEF Execute, NewCall
<1>7. PICK todo : todo = SourcesToTry(p)
    OBVIOUS
<1>8. /\ OwnStep(c)
      /\ \/ call'[c] = [new EXCEPT !.pc = "done", !.answer = x]
         \/ call'[c] = [new EXCEPT !.pc = "done", !.answer = y]
         \/ call'[c] = [new EXCEPT !.pc = "calling", !.todo = todo]
    BY <1>6, <1>7 DEF IndInv, OwnStep
<1>9. QED
    BY <1>2, <1>3, <1>4, <1>5, <1>7, <1>8 DEF CallRecords

\* Call appends one attempt; it ends the search or goes on with what is left.
LEMMA CallAppends ==
    ASSUME IndInv, NEW c \in Callers, NEW reply \in Replies \cup {"unsupported"},
           NEW body \in Bodies, Call(c, reply, body)
    PROVE  /\ OwnStep(c) /\ UNCHANGED attempts
           /\ call[c].pc = "calling" /\ call[c].todo # <<>>
           /\ call'[c].run = call[c].run
           /\ Attempt(c, reply) \in Attempted
           /\ call'[c].tried = Append(call[c].tried, Attempt(c, reply))
           /\ call'[c].pc \in {"calling", "writing"}
           /\ call'[c].pc = "calling" =>
                /\ Attempt(c, reply).kind # "success"
                /\ call'[c].todo = IF Retries(Attempt(c, reply)) THEN call[c].todo
                                   ELSE Tail(call[c].todo)
<1>1. PICK t : t = Attempt(c, reply)
    OBVIOUS
<1>2. PICK tried : tried = Append(call[c].tried, t)
    OBVIOUS
<1>3. PICK todo : todo = IF Retries(t) THEN call[c].todo ELSE Tail(call[c].todo)
    OBVIOUS
<1>4. /\ call[c].pc = "calling" /\ call[c].todo # <<>> /\ Reachable(c) /\ UNCHANGED attempts
      /\ call' = [call EXCEPT ![c] =
             IF t.kind = "success"
             THEN [@ EXCEPT !.tried = tried, !.body = body, !.pc = "writing"]
             ELSE [@ EXCEPT !.tried = tried, !.todo = todo]]
    BY <1>1, <1>2, <1>3 DEF Call, storage
<1>5. OwnStep(c)
    BY <1>4 DEF IndInv, OwnStep
<1>6. /\ t.kind = "success" =>
            call'[c] = [call[c] EXCEPT !.tried = tried, !.body = body, !.pc = "writing"]
      /\ t.kind # "success" => call'[c] = [call[c] EXCEPT !.tried = tried, !.todo = todo]
    BY <1>4 DEF IndInv
<1>7. PICK U : call[c] \in CallRecords(U)
    BY DEF IndInv, CallOK, IsCall
<1>8. t \in Attempted
    BY <1>1, <1>4, AttemptOK, AccessAssumption DEF Reachable
<1>9. /\ call'[c].run = call[c].run /\ call'[c].tried = tried
      /\ t.kind = "success" => call'[c].pc = "writing"
      /\ t.kind # "success" => call'[c].pc = call[c].pc /\ call'[c].todo = todo
    BY <1>6, <1>7 DEF CallRecords
<1>10. QED
    BY <1>1, <1>2, <1>3, <1>4, <1>5, <1>8, <1>9

\* A source without an adapter is passed over; nothing else changes.
LEMMA SkipSourceKeeps ==
    ASSUME IndInv, NEW c \in Callers, SkipSource(c)
    PROVE  /\ OwnStep(c) /\ UNCHANGED attempts
           /\ call[c].pc = "calling" /\ call[c].todo # <<>> /\ ~Reachable(c)
           /\ call'[c].pc = "calling" /\ call'[c].tried = call[c].tried
           /\ call'[c].todo = Tail(call[c].todo) /\ call'[c].run = call[c].run
<1>1. /\ OwnStep(c) /\ call'[c] = [call[c] EXCEPT !.todo = Tail(call[c].todo)]
    BY DEF SkipSource, IndInv, OwnStep
<1>2. UNCHANGED attempts /\ call[c].pc = "calling" /\ call[c].todo # <<>> /\ ~Reachable(c)
    BY DEF SkipSource, storage
<1>3. PICK U : call[c] \in CallRecords(U)
    BY DEF IndInv, CallOK, IsCall
<1>4. PICK todo : todo = Tail(call[c].todo)
    OBVIOUS
<1>5. call'[c] = [call[c] EXCEPT !.todo = todo]
    BY <1>1, <1>4
<1>6. /\ call'[c].pc = call[c].pc /\ call'[c].tried = call[c].tried
      /\ call'[c].todo = todo /\ call'[c].run = call[c].run
    BY <1>3, <1>5 DEF CallRecords
<1>7. QED
    BY <1>1, <1>2, <1>4, <1>6

\* A call without attempts.
LEMMA NoAttempts == Numbered(<<>>) /\ InTurn(<<>>)
<1>1. \A x : At(<<>>, x) = {}
    BY DEF At
<1>2. Cardinality({}) = 0
    BY FS_EmptySet
<1>3. Numbered(<<>>)
    BY <1>1, <1>2 DEF Numbered
<1>4. QED
    BY <1>3 DEF InTurn

\* The order of a policy names no source twice.
LEMMA StartAhead == ASSUME NEW p \in Policies PROVE Ahead(<<>>, SourcesToTry(p))
<1>1. \A i, j \in DOMAIN p.order : p.order[i] = p.order[j] => i = j
    BY AccessAssumption
<1>2. \A x : \A i, j \in DOMAIN <<x>> : i = j
    OBVIOUS
<1>3. \A i, j \in DOMAIN SourcesToTry(p) : SourcesToTry(p)[i] = SourcesToTry(p)[j] => i = j
    BY <1>1, <1>2 DEF SourcesToTry
<1>4. QED
    BY <1>3 DEF Ahead, Again

\* Every step of a caller keeps its attempts in order.
LEMMA OrderlyStep ==
    ASSUME IndInv, NEW c \in Callers, Orderly(call[c]), Step(c)
    PROVE  OwnStep(c) /\ Orderly(call'[c])
<1>1. call[c].tried \in Seq(Attempted)
    BY DEF IndInv, CallOK, IsCall
<1>2. CASE StoreStep(c)
  <2>1. OwnStep(c) /\ call'[c].pc # "calling" /\ call'[c].tried = call[c].tried
      BY <1>2, StoreStepKeeps
  <2>2. QED
      BY <2>1 DEF Orderly
<1>3. CASE SkipSource(c)
  <2>1. /\ OwnStep(c) /\ call[c].pc = "calling" /\ call[c].todo # <<>> /\ ~Reachable(c)
        /\ call'[c].pc = "calling" /\ call'[c].tried = call[c].tried
        /\ call'[c].todo = Tail(call[c].todo)
      BY <1>3, SkipSourceKeeps
  <2>2. PICK tried, todo, rest : tried = call[c].tried /\ todo = call[c].todo /\ rest = Tail(todo)
      OBVIOUS
  <2>3. todo \in Seq(call[c].policy.allowed) /\ todo # <<>>
      BY <2>1, <2>2 DEF IndInv, CallOK, Permitted
  <2>4. Ahead(tried, todo)
      BY <2>1, <2>2 DEF Orderly
  <2>5. ~Again(tried)
    <3> SUFFICES ASSUME Again(tried) PROVE FALSE
        OBVIOUS
    <3>1. tried # <<>> /\ todo[1] = tried[Len(tried)].source
        BY <2>4 DEF Ahead, Again
    <3>2. Len(tried) \in DOMAIN tried /\ tried[Len(tried)] \in Attempted
        BY <1>1, <2>2, <3>1
    <3>3. todo[1] \in Sources \cap call[c].policy.allowed
        BY <2>1, <2>2, <3>1, <3>2 DEF IndInv, CallOK, Permitted, Legal, Attempted
    <3>4. QED
        BY <2>1, <2>2, <2>3, <3>3, TailElements DEF Reachable
  <2>6. Ahead(tried, rest)
    <3>1. \A i \in DOMAIN rest :
                i \in Nat /\ i + 1 \in DOMAIN todo /\ rest[i] = todo[i + 1]
        BY <2>2, <2>3, TailElements
    <3>2. \A i, j \in DOMAIN rest : rest[i] = rest[j] => i = j
      <4> SUFFICES ASSUME NEW i \in DOMAIN rest, NEW j \in DOMAIN rest, rest[i] = rest[j]
                   PROVE  i = j
          OBVIOUS
      <4>1. i + 1 = j + 1 /\ i \in Nat /\ j \in Nat
          BY <2>4, <3>1 DEF Ahead
      <4>2. QED
          BY <4>1
    <3>3. \A i \in DOMAIN rest, j \in DOMAIN tried : rest[i] # tried[j].source
        BY <2>4, <2>5, <3>1 DEF Ahead
    <3>4. QED
        BY <2>4, <2>5, <3>2, <3>3 DEF Ahead
  <2>7. QED
      BY <2>1, <2>2, <2>6 DEF Orderly
<1>4. ASSUME NEW reply \in Replies \cup {"unsupported"}, NEW body \in Bodies, Call(c, reply, body)
      PROVE  OwnStep(c) /\ Orderly(call'[c])
  <2>1. PICK t : t = Attempt(c, reply)
      OBVIOUS
  <2>2. PICK tried, todo : tried = call[c].tried /\ todo = call[c].todo
      OBVIOUS
  <2>3. PICK new : new = Append(tried, t)
      OBVIOUS
  <2>4. /\ OwnStep(c) /\ call[c].pc = "calling" /\ todo # <<>> /\ t \in Attempted
        /\ call'[c].tried = new
        /\ call'[c].pc = "calling" =>
            t.kind # "success" /\ call'[c].todo = IF Retries(t) THEN todo ELSE Tail(todo)
      BY <1>4, <2>1, <2>2, <2>3, CallAppends
  <2>5. todo \in Seq(call[c].policy.allowed)
      BY <2>2, <2>4 DEF IndInv, CallOK, Permitted
  <2>6. Numbered(tried) /\ InTurn(tried) /\ Ahead(tried, todo)
      BY <2>2, <2>4 DEF Orderly
  <2>7. todo[1] = Head(todo)
      BY <2>4, <2>5, TailElements
  <2>8. /\ t.source = todo[1] /\ t.number = Cardinality(At(tried, t.source)) + 1
        /\ t.kind = KindOf(t.source, t.reply)
      BY <2>1, <2>2, <2>7 DEF Attempt, AttemptsAt, At
  <2>9. Numbered(new) /\ Cardinality(At(new, t.source)) = t.number
      BY <1>1, <2>2, <2>3, <2>4, <2>6, <2>8, NumberNext
  <2>10. InTurn(new)
      BY <1>1, <2>2, <2>3, <2>4, <2>5, <2>6, <2>8, TurnNext
  <2>11. t.kind # "success" => Ahead(new, IF Retries(t) THEN todo ELSE Tail(todo))
      BY <1>1, <2>2, <2>3, <2>4, <2>5, <2>6, <2>8, <2>9, AheadNext
  <2>12. QED
      BY <2>4, <2>9, <2>10, <2>11 DEF Orderly
<1>5. QED
    BY <1>2, <1>3, <1>4 DEF Step, StoreStep

\* Initially, and whatever the callers do, the attempts of every call are in
\* order.
LEMMA RetryInductive == Spec => []RetryInv
<1>1. Init => RetryInv
  <2>1. Idle.tried = <<>> /\ Idle.pc # "calling"
      BY DEF Idle
  <2>2. QED
      BY <2>1, NoAttempts DEF Init, RetryInv, Orderly
<1>2. IndInv /\ RetryInv /\ [Next]_vars => RetryInv'
  <2> SUFFICES ASSUME IndInv, RetryInv, [Next]_vars PROVE RetryInv'
      OBVIOUS
  <2>1. ASSUME NEW c \in Callers, OwnStep(c), Orderly(call'[c]) PROVE RetryInv'
      BY <2>1 DEF OwnStep, RetryInv, IndInv
  <2>2. ASSUME NEW c \in Callers, Step(c) PROVE RetryInv'
      BY <2>1, <2>2, OrderlyStep DEF RetryInv
  <2>3. ASSUME NEW c \in Callers, Crash(c) PROVE RetryInv'
    <3>1. OwnStep(c) /\ call'[c] = Idle
        BY <2>3 DEF Crash, IndInv, OwnStep
    <3>2. Orderly(Idle)
        BY NoAttempts DEF Orderly, Idle
    <3>3. QED
        BY <2>1, <3>1, <3>2
  <2>4. ASSUME NEW c \in Callers, NEW a \in Runs, NEW r \in Requests, NEW p \in Policies,
               Execute(c, a, r, p)
        PROVE  RetryInv'
    <3>1. /\ OwnStep(c) /\ call'[c].tried = <<>>
          /\ call'[c].pc = "calling" => call'[c].todo = SourcesToTry(p)
        BY <2>4, ExecuteStarts
    <3>2. Orderly(call'[c])
        BY <3>1, NoAttempts, StartAhead DEF Orderly
    <3>3. QED
        BY <2>1, <3>1, <3>2
  <2>5. CASE UNCHANGED vars
      BY <2>5 DEF vars, RetryInv
  <2>6. QED
      BY <2>2, <2>3, <2>4, <2>5 DEF Next
<1>3. QED
    BY <1>1, <1>2, Inductive, PTL DEF Spec

\* _execute_source and execute: a source is called again only after a temporary
\* failure and at most max_attempts times, another only after that, and nothing
\* is called after an answer.
THEOREM RetriesAreDisciplined == Spec => []RetryDiscipline
<1>1. IndInv /\ RetryInv => RetryDiscipline
  <2> SUFFICES ASSUME IndInv, RetryInv, NEW c \in Callers, NEW i \in DOMAIN call[c].tried
               PROVE  LET tried == call[c].tried
                          Temporary(t) == t.reply \in {"timeout", "http_429", "http_5xx"}
                      IN  /\ tried[i].number <= MaxAttempts
                          /\ i < Len(tried) =>
                                /\ tried[i].reply # "ok"
                                /\ (tried[i + 1].source = tried[i].source)
                                    <=> (Temporary(tried[i]) /\ tried[i].number < MaxAttempts)
      BY Zenon DEF RetryDiscipline
  <2>1. PICK tried : tried = call[c].tried
      OBVIOUS
  <2>2. /\ tried[i].kind = KindOf(tried[i].source, tried[i].reply)
        /\ tried[i].number <= MaxAttempts
        /\ i < Len(tried) =>
            /\ tried[i].kind # "success"
            /\ tried[i + 1].source = tried[i].source <=> Retries(tried[i])
      BY <2>1 DEF RetryInv, Orderly, InTurn
  <2>3. tried[i].kind \in RetryableFailures
            <=> tried[i].reply \in {"timeout", "http_429", "http_5xx"}
      BY <2>2 DEF KindOf, RetryableFailures
  <2>4. tried[i].reply = "ok" => tried[i].kind = "success"
      BY <2>2 DEF KindOf
  <2>5. QED
      BY <2>1, <2>2, <2>3, <2>4 DEF Retries
<1>2. QED
    BY <1>1, Inductive, RetryInductive, PTL
-----------------------------------------------------------------------------
(* The table of attempts.                                                  *)

Numbers(a, r, p) == {x.number : x \in RowsOf(a, r, p)}

\* The row that save_attempts stores for an attempt of the call s.
RowFor(s, t) ==
    [run |-> s.run, request |-> s.request, provider |-> ProviderOf[t.source],
     number |-> s.offset[ProviderOf[t.source]] + t.number, source |-> t.source,
     kind |-> t.kind, body |-> IF t.kind = "success" THEN s.body ELSE None]

RowsFor(s) == {RowFor(s, s.tried[i]) : i \in DOMAIN s.tried}
NumbersAt(rows, p) == {x.number : x \in {y \in rows : y.provider = p}}

\* The rows that a call still relies on: those it counted, those it stored.
Relies(s) ==
    /\ s.pc # "idle" => s.run \in Runs
    /\ s.pc = "saving" => \A p \in Providers :
        s.offset[p] \in Nat /\ 1..s.offset[p] \subseteq Numbers(s.run, s.request, p)
    /\ s.pc = "caching" \/ (s.pc = "done" /\ s.answer.kind # "raised") =>
        \A i \in DOMAIN s.tried : RowFor(s, s.tried[i]) \in attempts

KeysDiffer == \A x, y \in attempts : SameKey(x, y) => x = y

NoGaps == \A a \in Runs, r \in Requests, p \in Providers :
            \E m \in Nat : Numbers(a, r, p) = 1..m

LogInv == KeysDiffer /\ NoGaps /\ \A c \in Callers : Relies(call[c])

\* Row, of the caller's local state.
LEMMA RowIs == \A c, t : Row(c, t) = RowFor(call[c], t)
BY DEF Row, RowFor

\* The fields of a row.
LEMMA RowFields ==
    ASSUME NEW s, NEW t
    PROVE  LET x == RowFor(s, t)
           IN  /\ x.run = s.run /\ x.request = s.request /\ x.provider = ProviderOf[t.source]
               /\ x.number = s.offset[ProviderOf[t.source]] + t.number /\ x.source = t.source
BY DEF RowFor

\* SELECT MAX(attempt_number), where the numbers are 1 to m.
LEMMA MaxOfInterval ==
    ASSUME NEW rows, NEW m \in Nat, {x.number : x \in rows} = 1..m
    PROVE  MaxNumber(rows) = m
<1>1. CASE rows = {}
  <2>1. 1..m = {}
      BY <1>1
  <2>2. m = 0
      BY <2>1
  <2>3. QED
      BY <1>1, <2>2 DEF MaxNumber
<1>2. CASE rows # {}
  <2>1. PICK y \in rows : TRUE
      BY <1>2
  <2>2. y.number \in 1..m
      BY <2>1
  <2>3. m \in 1..m
      BY <2>2
  <2>4. \A x \in rows : x.number <= m
      BY SMT
  <2>5. \A n \in 1..m : (\A x \in rows : x.number <= n) => n = m
    <3> SUFFICES ASSUME NEW n \in 1..m, \A x \in rows : x.number <= n PROVE n = m
        OBVIOUS
    <3>1. PICK z \in rows : z.number = m
        BY <2>3
    <3>2. QED
        BY <3>1
  <2>6. MaxNumber(rows) = CHOOSE n \in 1..m : \A x \in rows : x.number <= n
      BY <1>2 DEF MaxNumber
  <2>7. QED
      BY <2>3, <2>4, <2>5, <2>6
<1>3. QED
    BY <1>1, <1>2

\* Rows with different numbers are as many as their numbers.
LEMMA CountByNumber ==
    ASSUME NEW rows, NEW m \in Nat, {x.number : x \in rows} = 1..m,
           \A x, y \in rows : x.number = y.number => x = y
    PROVE  Cardinality(rows) = m
<1>1. PICK f : f = [x \in rows |-> x.number]
    OBVIOUS
<1>2. f \in [rows -> 1..m]
    BY <1>1
<1>3. \A x, y \in rows : f[x] = f[y] => x = y
    BY <1>1
<1>4. \A n \in 1..m : \E x \in rows : f[x] = n
    BY <1>1
<1>5. f \in Bijection(rows, 1..m)
    BY <1>2, <1>3, <1>4 DEF Bijection, Injection, Surjection, IsInjective
<1>6. IsFiniteSet(1..m) /\ Cardinality(1..m) = m
    BY FS_Interval
<1>7. IsFiniteSet(rows)
    BY <1>5, <1>6, FS_Injection DEF Bijection
<1>8. ExistsBijection(rows, 1..m)
    BY <1>5 DEF ExistsBijection
<1>9. QED
    BY <1>6, <1>7, <1>8, FS_Bijection

\* The numbers of the new rows of a run, a request and a provider, when the
\* insert succeeds.  Two sources of one provider would both have a row with the
\* first number, so the attempts at it are of one source; and a number that was
\* taken since the offset was read would be the first to collide.
LEMMA RowsFollow ==
    ASSUME NEW s, s.tried \in Seq(Attempted), Numbered(s.tried), Insertable(RowsFor(s)),
           NEW p \in Providers, NEW m \in Nat, Numbers(s.run, s.request, p) = 1..m,
           s.offset[p] \in 0..m
    PROVE  \E k \in Nat : NumbersAt(RowsFor(s), p) = (m + 1)..(m + k)
<1>0. PICK rows, off : rows = RowsFor(s) /\ off = s.offset[p] /\ off \in 0..m
    OBVIOUS
<1>1. PICK tried : tried = s.tried
    OBVIOUS
<1>2. \A i \in DOMAIN tried : tried[i].source \in Sources
  <2>1. \A i \in DOMAIN tried : tried[i] \in Attempted
      BY <1>1
  <2>2. QED
      BY <2>1 DEF Attempted
<1>3. PICK D : D = {i \in DOMAIN tried : ProviderOf[tried[i].source] = p}
    OBVIOUS
<1>4. PICK R : R = {y \in rows : y.provider = p}
    OBVIOUS
<1>5. R = {RowFor(s, tried[i]) : i \in D}
    BY <1>1, <1>0, <1>3, <1>4, RowFields DEF RowsFor
<1>6. {x.number : x \in R} = {off + tried[i].number : i \in D}
    BY <1>0, <1>3, <1>5, RowFields
<1>7. CASE D = {}
  <2>1. {x.number : x \in R} = {}
      BY <1>6, <1>7
  <2>2. (m + 1)..(m + 0) = {}
      OBVIOUS
  <2>3. QED
      BY <1>0, <1>4, <2>1, <2>2 DEF NumbersAt
<1>8. CASE D # {}
  <2>1. PICK d \in D : TRUE
      BY <1>8
  <2>2. PICK src : src = tried[d].source /\ src \in Sources
      BY <1>2, <1>3, <2>1
  <2>3. PICK k : k = Cardinality(At(tried, src)) /\ k \in Nat
      BY <1>1, AtFinite
  <2>4. ASSUME NEW x \in Sources, NEW i \in At(tried, x)
        PROVE  \E j \in At(tried, x) : tried[j].number = 1
    <3>1. PICK n : n = Cardinality(At(tried, x)) /\ n \in Nat
        BY <1>1, AtFinite
    <3>2. {tried[j].number : j \in At(tried, x)} = 1..n
        BY <1>1, <3>1 DEF Numbered
    <3>3. tried[i].number \in 1..n
        BY <2>4, <3>2
    <3>4. 1 \in 1..n
        BY <3>1, <3>3
    <3>5. QED
        BY <3>2, <3>4
  <2>5. PICK d1 \in At(tried, src) : tried[d1].number = 1
    <3>1. d \in At(tried, src)
        BY <1>3, <2>1, <2>2 DEF At
    <3>2. QED
        BY <2>2, <2>4, <3>1
  <2>6. d1 \in D /\ tried[d1].source = src /\ ProviderOf[src] = p
      BY <1>3, <2>1, <2>2, <2>5 DEF At
  <2>7. ASSUME NEW i \in D PROVE tried[i].source = src
    <3>1. tried[i].source \in Sources /\ i \in At(tried, tried[i].source)
        BY <1>2, <1>3 DEF At
    <3>2. PICK j \in At(tried, tried[i].source) : tried[j].number = 1
        BY <2>4, <3>1
    <3>3. j \in DOMAIN tried /\ tried[j].source = tried[i].source
        BY <3>2 DEF At
    <3>4. PICK x, y : x = RowFor(s, tried[j]) /\ y = RowFor(s, tried[d1])
        OBVIOUS
    <3>5. x \in rows /\ y \in rows
        BY <1>0, <1>1, <1>3, <2>6, <3>3, <3>4 DEF RowsFor
    <3>6. SameKey(x, y)
        BY <1>0, <1>3, <2>5, <2>6, <3>2, <3>3, <3>4, RowFields DEF SameKey
    <3>7. x = y
        BY <1>0, <3>5, <3>6 DEF Insertable
    <3>8. QED
      <4>1. x.source = tried[j].source /\ y.source = tried[d1].source
          BY <3>4, RowFields
      <4>2. QED
          BY <2>6, <3>3, <3>7, <4>1
  <2>8. D = At(tried, src)
      BY <1>3, <2>6, <2>7 DEF At
  <2>9. {tried[i].number : i \in D} = 1..k
      BY <1>1, <2>2, <2>3, <2>8 DEF Numbered
  <2>10. off = m
    <3> SUFFICES ASSUME off + 1 \in 1..m PROVE FALSE
        BY <1>0
    <3>1. PICK y \in RowsOf(s.run, s.request, p) : y.number = off + 1
        BY DEF Numbers
    <3>2. PICK x : x = RowFor(s, tried[d1])
        OBVIOUS
    <3>3. x \in rows
        BY <1>0, <1>1, <1>3, <2>6, <3>2 DEF RowsFor
    <3>4. y \in attempts /\ SameKey(x, y)
        BY <1>0, <2>5, <2>6, <3>1, <3>2, RowFields DEF SameKey, RowsOf
    <3>5. QED
        BY <1>0, <3>3, <3>4 DEF Insertable
  <2>11. {off + tried[i].number : i \in D} = (m + 1)..(m + k)
    <3>1. \A i \in D : tried[i].number \in 1..k
        BY <2>9
    <3>2. \A n \in 1..k : \E i \in D : tried[i].number = n
        BY <2>9
    <3>3. ASSUME NEW n \in (m + 1)..(m + k) PROVE n \in {off + tried[i].number : i \in D}
      <4>1. n - m \in 1..k
          BY <2>3
      <4>2. PICK i \in D : tried[i].number = n - m
          BY <3>2, <4>1
      <4>3. n = off + tried[i].number
          BY <1>0, <2>10, <4>2
      <4>4. QED
          BY <4>3
    <3>4. \A i \in D : off + tried[i].number \in (m + 1)..(m + k)
        BY <2>3, <2>10, <3>1
    <3>5. QED
        BY <3>3, <3>4
  <2>12. QED
      BY <1>0, <1>4, <1>6, <2>3, <2>11 DEF NumbersAt
<1>9. QED
    BY <1>7, <1>8

\* Rows are only added, so a call can go on relying on those it has seen.
LEMMA ReliesGrow ==
    ASSUME NEW c \in Callers, call'[c] = call[c], Relies(call[c]), attempts \subseteq attempts'
    PROVE  Relies(call[c])'
<1>1. \A a, r, p : Numbers(a, r, p) \subseteq Numbers(a, r, p)'
    BY DEF Numbers, RowsOf
<1>2. QED
    BY <1>1 DEF Relies, RowFor

\* A step that adds no row.
LEMMA NoRowAdded ==
    ASSUME LogInv, IndInv, NEW c \in Callers, OwnStep(c), UNCHANGED attempts, Relies(call[c])'
    PROVE  LogInv'
<1>1. KeysDiffer'
    BY DEF LogInv, KeysDiffer, SameKey
<1>2. NoGaps'
    BY DEF LogInv, NoGaps, Numbers, RowsOf
<1>3. ASSUME NEW d \in Callers, d # c PROVE Relies(call[d])'
  <2>1. call'[d] = call[d]
      BY <1>3 DEF OwnStep, IndInv
  <2>2. QED
      BY <2>1, ReliesGrow DEF LogInv
<1>4. QED
    BY <1>1, <1>2, <1>3 DEF LogInv

\* The steps before save_attempts: the run of a call is known from its start.
LEMMA BeforeSaving ==
    ASSUME NEW c \in Callers, call'[c].run \in Runs,
           call'[c].pc \in {"calling", "writing", "recording", "offsets"}
    PROVE  Relies(call[c])'
BY DEF Relies

\* save_attempts reads, for each provider, the number up to which rows exist.
LEMMA OffsetsReliable ==
    ASSUME IndInv, LogInv, NEW c \in Callers, ReadOffsets(c) PROVE Relies(call[c])'
<1>1. /\ call[c].pc = "offsets" /\ UNCHANGED attempts
      /\ call' = [call EXCEPT ![c].pc = "saving",
            ![c].offset = [p \in Providers |-> MaxNumber(RowsOf(call[c].run, call[c].request, p))]]
    BY DEF ReadOffsets, storage
<1>2. PICK off : off = [p \in Providers |-> MaxNumber(RowsOf(call[c].run, call[c].request, p))]
    OBVIOUS
<1>3. call'[c] = [call[c] EXCEPT !.pc = "saving", !.offset = off]
    BY <1>1, <1>2 DEF IndInv
<1>4. PICK U : call[c] \in CallRecords(U)
    BY DEF IndInv, CallOK, IsCall
<1>5. /\ call'[c].pc = "saving" /\ call'[c].offset = off
      /\ call'[c].run = call[c].run /\ call'[c].request = call[c].request
    BY <1>3, <1>4 DEF CallRecords
<1>6. call[c].run \in Runs /\ call[c].request \in Requests
    BY <1>1 DEF LogInv, Relies, IndInv, CallOK, Permitted, Legal
<1>7. ASSUME NEW p \in Providers
      PROVE  off[p] \in Nat /\ 1..off[p] \subseteq Numbers(call[c].run, call[c].request, p)
  <2>1. PICK m \in Nat : Numbers(call[c].run, call[c].request, p) = 1..m
      BY <1>6 DEF LogInv, NoGaps
  <2>2. MaxNumber(RowsOf(call[c].run, call[c].request, p)) = m
      BY <2>1, MaxOfInterval DEF Numbers
  <2>3. off[p] = m
      BY <1>2, <2>2
  <2>4. QED
      BY <2>1, <2>3
<1>8. \A p \in Providers : Numbers(call[c].run, call[c].request, p)'
                            = Numbers(call[c].run, call[c].request, p)
    BY <1>1, <1>5 DEF Numbers, RowsOf
<1>9. QED
    BY <1>5, <1>6, <1>7, <1>8 DEF Relies

\* The rows of a call depend on nothing that a later step of it changes.
LEMMA RowsKept ==
    ASSUME NEW c \in Callers, NEW t, call'[c].run = call[c].run,
           call'[c].request = call[c].request, call'[c].body = call[c].body,
           call'[c].offset = call[c].offset
    PROVE  RowFor(call'[c], t) = RowFor(call[c], t)
BY DEF RowFor

\* The insert of save_attempts: the key stays unique, the numbers stay without
\* gaps, and the rows of the call are there.
LEMMA SavingKeepsLog ==
    ASSUME IndInv, RetryInv, LogInv, NEW c \in Callers, SaveAttempts(c) PROVE LogInv'
<1>1. /\ call[c].pc = "saving" /\ Insertable(NewRows(c)) /\ attempts' = attempts \cup NewRows(c)
      /\ StoreStep(c) /\ ~ReadOffsets(c)
    BY DEF SaveAttempts, StoreStep, ReadOffsets
<1>2. PICK s, rows : s = call[c] /\ rows = NewRows(c)
    OBVIOUS
<1>3. /\ OwnStep(c) /\ call'[c].pc \in {"recording", "offsets", "saving", "caching", "done"}
      /\ call'[c].tried = s.tried /\ call'[c].run = s.run /\ call'[c].request = s.request
      /\ call'[c].body = s.body /\ call'[c].offset = s.offset
    BY <1>1, <1>2, StoreStepKeeps
<1>4. rows = RowsFor(s)
    BY <1>2, RowIs DEF NewRows, RowsFor
<1>5. /\ s.run \in Runs /\ s.request \in Requests /\ s.tried \in Seq(Attempted)
      /\ Numbered(s.tried)
    BY <1>1, <1>2 DEF LogInv, Relies, IndInv, CallOK, IsCall, Permitted, Legal, RetryInv, Orderly
<1>6. \A p \in Providers :
        s.offset[p] \in Nat /\ 1..s.offset[p] \subseteq Numbers(s.run, s.request, p)
    BY <1>1, <1>2 DEF LogInv, Relies
<1>7. attempts' = attempts \cup rows /\ Insertable(rows)
    BY <1>1, <1>2
<1>8. KeysDiffer'
  <2>1. \A x \in rows : \A y \in rows \cup attempts : SameKey(x, y) => x = y
      BY <1>7 DEF Insertable
  <2>2. \A x, y : SameKey(x, y) <=> SameKey(y, x)
      BY DEF SameKey
  <2>3. \A x, y \in attempts : SameKey(x, y) => x = y
      BY DEF LogInv, KeysDiffer
  <2>4. \A x, y \in attempts \cup rows : SameKey(x, y) => x = y
    <3> SUFFICES ASSUME NEW x \in attempts \cup rows, NEW y \in attempts \cup rows, SameKey(x, y)
                 PROVE  x = y
        OBVIOUS
    <3>1. SameKey(y, x)
        BY <2>2
    <3>2. QED
        BY <2>1, <2>3, <3>1
  <2>5. QED
      BY <1>7, <2>4 DEF KeysDiffer, SameKey
<1>9. NoGaps'
  <2> SUFFICES ASSUME NEW a \in Runs, NEW r \in Requests, NEW p \in Providers
               PROVE  \E m \in Nat : Numbers(a, r, p)' = 1..m
      BY DEF NoGaps
  <2>1. PICK m \in Nat : Numbers(a, r, p) = 1..m
      BY DEF LogInv, NoGaps
  <2>2. PICK own : own = {y \in rows : y.run = a /\ y.request = r /\ y.provider = p}
      OBVIOUS
  <2>3. RowsOf(a, r, p)' = RowsOf(a, r, p) \cup own
      BY <1>7, <2>2 DEF RowsOf
  <2>4. Numbers(a, r, p)' = (1..m) \cup {x.number : x \in own}
    <3>1. Numbers(a, r, p)' = {x.number : x \in RowsOf(a, r, p) \cup own}
        BY <2>3 DEF Numbers
    <3>2. QED
        BY <2>1, <3>1 DEF Numbers
  <2>5. \A x \in rows : x.run = s.run /\ x.request = s.request
      BY <1>4, RowFields DEF RowsFor
  <2>6. CASE a = s.run /\ r = s.request
    <3>1. own = {y \in rows : y.provider = p}
        BY <2>2, <2>5, <2>6
    <3>2. PICK off \in Nat : off = s.offset[p] /\ 1..off \subseteq 1..m
        BY <1>6, <2>1, <2>6
    <3>3. off <= m
        BY <3>2
    <3>4. PICK k \in Nat : {x.number : x \in own} = (m + 1)..(m + k)
      <4>1. Numbers(s.run, s.request, p) = 1..m /\ s.offset[p] \in 0..m
          BY <2>1, <2>6, <3>2, <3>3
      <4>2. \E k \in Nat : NumbersAt(RowsFor(s), p) = (m + 1)..(m + k)
        <5>1. Insertable(RowsFor(s))
            BY <1>4, <1>7
        <5>2. QED
            BY <1>5, <4>1, <5>1, RowsFollow, Zenon
      <4>3. QED
          BY <1>4, <3>1, <4>2 DEF NumbersAt
    <3>5. (1..m) \cup ((m + 1)..(m + k)) = 1..(m + k) /\ m + k \in Nat
        OBVIOUS
    <3>6. QED
        BY <2>4, <3>4, <3>5
  <2>7. CASE ~(a = s.run /\ r = s.request)
    <3>1. own = {}
        BY <2>2, <2>5, <2>7
    <3>2. QED
        BY <2>1, <2>4, <3>1
  <2>8. QED
      BY <2>6, <2>7
<1>10. Relies(call[c])'
  <2>1. \A i \in DOMAIN s.tried : RowFor(s, s.tried[i]) \in attempts'
      BY <1>4, <1>7 DEF RowsFor
  <2>2. \A t : RowFor(call'[c], t) = RowFor(s, t)
      BY <1>3 DEF RowFor
  <2>3. call'[c].pc # "saving"
    <3>1. (\E x : Finish(c, x)) \/ call' = [call EXCEPT ![c].pc = "caching"]
        BY DEF SaveAttempts
    <3>2. PICK U : call[c] \in CallRecords(U)
        BY DEF IndInv, CallOK, IsCall
    <3>3. (\E x : call'[c] = [call[c] EXCEPT !.pc = "done", !.answer = x])
          \/ call'[c] = [call[c] EXCEPT !.pc = "caching"]
        BY <3>1 DEF IndInv, Finish
    <3>4. QED
        BY <3>2, <3>3 DEF CallRecords
  <2>4. QED
      BY <1>3, <1>5, <2>1, <2>2, <2>3 DEF Relies, RowFor
<1>11. ASSUME NEW d \in Callers, d # c PROVE Relies(call[d])'
  <2>1. call'[d] = call[d]
      BY <1>3, <1>11 DEF OwnStep, IndInv
  <2>2. QED
      BY <1>7, <2>1, ReliesGrow DEF LogInv
<1>12. QED
    BY <1>8, <1>9, <1>10, <1>11 DEF LogInv

\* Every other step of a call leaves the table as it is.
LEMMA StepKeepsLog ==
    ASSUME IndInv, RetryInv, LogInv, NEW c \in Callers, Step(c) PROVE LogInv'
<1>1. ASSUME call[c].pc # "idle" PROVE call[c].run \in Runs
    BY <1>1 DEF LogInv, Relies
<1>2. CASE SaveAttempts(c)
    BY <1>2, SavingKeepsLog
<1>3. CASE ReadOffsets(c)
  <2>1. OwnStep(c) /\ UNCHANGED attempts
      BY <1>3, StoreStepKeeps DEF StoreStep, ReadOffsets, storage
  <2>2. QED
      BY <1>3, <2>1, OffsetsReliable, NoRowAdded
<1>4. CASE GiveUp(c) \/ WriteArtifact(c) \/ RecordArtifact(c)
  <2>1. StoreStep(c) /\ UNCHANGED attempts
      BY <1>4 DEF StoreStep, GiveUp, WriteArtifact, RecordArtifact, storage
  <2>2. call'[c].pc \in {"recording", "offsets"}
    <3>1. \E pc \in {"recording", "offsets"} : call' = [call EXCEPT ![c].pc = pc]
        BY <1>4 DEF GiveUp, WriteArtifact, RecordArtifact
    <3>2. PICK pc \in {"recording", "offsets"} : call'[c] = [call[c] EXCEPT !.pc = pc]
        BY <3>1 DEF IndInv
    <3>3. PICK U : call[c] \in CallRecords(U)
        BY DEF IndInv, CallOK, IsCall
    <3>4. QED
        BY <3>2, <3>3 DEF CallRecords
  <2>3. QED
      BY <1>1, <2>1, <2>2, StoreStepKeeps, BeforeSaving, NoRowAdded
<1>5. CASE AttemptConflict(c) \/ CacheConflict(c) \/ PutCache(c)
  <2>1. StoreStep(c) /\ UNCHANGED attempts /\ ~ReadOffsets(c)
      BY <1>5 DEF StoreStep, AttemptConflict, CacheConflict, PutCache, ReadOffsets, storage
  <2>2. PICK x : Finish(c, x) /\ (x.kind = "raised" \/ call[c].pc = "caching")
    <3>1. Failure("raised").kind = "raised"
        BY DEF Failure, Response
    <3>2. QED
        BY <1>5, <3>1 DEF AttemptConflict, CacheConflict, PutCache
  <2>3. call'[c].pc = "done" /\ call'[c].answer = x
    <3>1. call'[c] = [call[c] EXCEPT !.pc = "done", !.answer = x]
        BY <2>2 DEF IndInv, Finish
    <3>2. PICK U : call[c] \in CallRecords(U)
        BY DEF IndInv, CallOK, IsCall
    <3>3. QED
        BY <3>1, <3>2 DEF CallRecords
  <2>4. /\ OwnStep(c) /\ call[c].pc \notin {"idle", "done"} /\ call'[c].tried = call[c].tried
        /\ call'[c].run = call[c].run /\ \A t : RowFor(call'[c], t) = RowFor(call[c], t)
      BY <2>1, StoreStepKeeps, RowsKept
  <2>5. call[c].pc = "caching" =>
            \A i \in DOMAIN call[c].tried : RowFor(call[c], call[c].tried[i]) \in attempts
      BY DEF LogInv, Relies
  <2>6. call'[c].answer.kind # "raised" =>
            \A i \in DOMAIN call'[c].tried : RowFor(call'[c], call'[c].tried[i]) \in attempts
      BY <2>2, <2>3, <2>4, <2>5
  <2>7. Relies(call[c])'
      BY <1>1, <2>1, <2>3, <2>4, <2>6 DEF Relies, RowFor
  <2>8. QED
      BY <2>1, <2>4, <2>7, NoRowAdded
<1>6. CASE SkipSource(c)
    BY <1>1, <1>6, SkipSourceKeeps, BeforeSaving, NoRowAdded
<1>7. CASE \E reply \in Replies \cup {"unsupported"}, body \in Bodies : Call(c, reply, body)
    BY <1>1, <1>7, CallAppends, BeforeSaving, NoRowAdded
<1>8. QED
    BY <1>2, <1>3, <1>4, <1>5, <1>6, <1>7 DEF Step

\* The table of attempts, with what each call relies on.
LEMMA LogInductive == Spec => []LogInv
<1>1. Init => LogInv
  <2> SUFFICES ASSUME Init PROVE LogInv
      OBVIOUS
  <2>1. \A a, r, p : Numbers(a, r, p) = 1..0
      BY DEF Init, Numbers, RowsOf
  <2>2. \A c \in Callers : Relies(call[c])
      BY DEF Init, Idle, Relies
  <2>3. QED
      BY <2>1, <2>2 DEF Init, LogInv, KeysDiffer, NoGaps
<1>2. IndInv /\ RetryInv /\ LogInv /\ [Next]_vars => LogInv'
  <2> SUFFICES ASSUME IndInv, RetryInv, LogInv, [Next]_vars PROVE LogInv'
      OBVIOUS
  <2>1. ASSUME NEW c \in Callers, Crash(c) PROVE LogInv'
    <3>1. OwnStep(c) /\ call'[c] = Idle /\ UNCHANGED attempts
        BY <2>1 DEF Crash, IndInv, OwnStep, storage
    <3>2. Relies(call[c])'
        BY <3>1 DEF Relies, Idle
    <3>3. QED
        BY <3>1, <3>2, NoRowAdded
  <2>2. ASSUME NEW c \in Callers, NEW a \in Runs, NEW r \in Requests, NEW p \in Policies,
               Execute(c, a, r, p)
        PROVE  LogInv'
    <3>1. /\ OwnStep(c) /\ UNCHANGED attempts /\ call'[c].tried = <<>> /\ call'[c].run = a
          /\ call'[c].pc \in {"calling", "done"}
        BY <2>2, ExecuteStarts
    <3>2. Relies(call[c])'
        BY <3>1 DEF Relies
    <3>3. QED
        BY <3>1, <3>2, NoRowAdded
  <2>3. CASE UNCHANGED vars
    <3>1. KeysDiffer' /\ NoGaps'
        BY <2>3 DEF vars, LogInv, KeysDiffer, SameKey, NoGaps, Numbers, RowsOf
    <3>2. \A c \in Callers : Relies(call[c])'
        BY <2>3, ReliesGrow DEF vars, LogInv
    <3>3. QED
        BY <3>1, <3>2 DEF LogInv
  <2>4. QED
      BY <2>1, <2>2, <2>3, StepKeepsLog DEF Next
<1>3. QED
    BY <1>1, <1>2, Inductive, RetryInductive, PTL DEF Spec

\* save_attempts, with callers racing for the numbers and killed anywhere: the
\* attempts of a run at a provider are numbered from 1 without gaps, and a call
\* that answered has left all of its own.
THEOREM AttemptsAreLogged == Spec => []AttemptLog
<1>1. LogInv => AttemptLog
  <2> SUFFICES ASSUME LogInv PROVE AttemptLog
      OBVIOUS
  <2>1. ASSUME NEW a \in Runs, NEW r \in Requests, NEW p \in Providers
        PROVE  LET rows == {x \in attempts : x.run = a /\ x.request = r /\ x.provider = p}
               IN  {x.number : x \in rows} = 1..Cardinality(rows)
    <3>1. PICK rows : rows = {x \in attempts : x.run = a /\ x.request = r /\ x.provider = p}
        OBVIOUS
    <3>2. PICK m \in Nat : {x.number : x \in rows} = 1..m
        BY <3>1 DEF LogInv, NoGaps, Numbers, RowsOf
    <3>3. \A x, y \in rows : x.number = y.number => x = y
        BY <3>1 DEF LogInv, KeysDiffer, SameKey
    <3>4. Cardinality(rows) = m
        BY <3>2, <3>3, CountByNumber
    <3>5. QED
        BY <3>1, <3>2, <3>4
  <2>2. ASSUME NEW c \in Callers, call[c].pc = "done", call[c].answer.kind # "raised",
               NEW i \in DOMAIN call[c].tried
        PROVE  Row(c, call[c].tried[i]) \in attempts
      BY <2>2, RowIs DEF LogInv, Relies
  <2>3. QED
      BY <2>1, <2>2, Zenon DEF AttemptLog
<1>2. QED
    BY <1>1, LogInductive, PTL
=============================================================================
