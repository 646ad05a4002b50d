--------------------------- MODULE AnalyzerProofs ---------------------------
(***************************************************************************)
(* Proofs about the replay analyzers, for every set of inputs the replay   *)
(* models admit (InputsAssumption) and every limit of a raw value.         *)
(***************************************************************************)
EXTENDS Analyzers, FiniteSetTheorems, WellFoundedInduction, TLAPS

-----------------------------------------------------------------------------
(* Least elements and flattened sequences.                                 *)

\* A set of natural numbers that is not empty has a least element.
LEMMA Smallest ==
    ASSUME NEW T \in SUBSET Nat, T # {}
    PROVE  \E n \in T : \A m \in T : n <= m
<1>1. PICK R : R = OpToRel(<, Nat)
    OBVIOUS
<1>2. IsWellFoundedOn(R, Nat)
    BY <1>1, NatLessThanWellFounded
<1>3. PICK n \in T : \A m \in T : ~(<<m, n>> \in R)
    BY <1>2, WFMin
<1>4. \A m \in T : m < n => <<m, n>> \in R
    BY <1>1 DEF OpToRel
<1>5. \A m \in T : ~(m < n)
    BY <1>3, <1>4
<1>6. \A m \in T : m \in Int /\ n \in Int
    OBVIOUS
<1>7. \A m \in T : n <= m
    BY <1>5, <1>6
<1>8. QED
    BY <1>7

\* Min finds that element.
LEMMA MinOf ==
    ASSUME NEW T \in SUBSET Nat, T # {}
    PROVE  Min(T) \in T /\ \A m \in T : Min(T) <= m
BY Smallest DEF Min

\* f builds the concatenation of the sequences ss, one of them at a time.
Flattens(f, ss) ==
    f = [i \in 1 .. Len(ss) |-> IF i = 1 THEN ss[i] ELSE f[i - 1] \o ss[i]]

\* Such an f exists.
LEMMA FlattensExists ==
    ASSUME NEW ss, Len(ss) \in Nat
    PROVE  \E f : Flattens(f, ss)
<1> DEFINE upto(n, f) == f = [i \in 1 .. n |-> IF i = 1 THEN ss[i] ELSE f[i - 1] \o ss[i]]
           bad == {n \in Nat : ~\E f : upto(n, f)}
<1>1. SUFFICES bad = {}
    BY <1>1 DEF Flattens
<1>2. SUFFICES ASSUME bad # {}
               PROVE  FALSE
    OBVIOUS
<1>3. PICK n \in bad : \A m \in bad : n <= m
    BY <1>2, Smallest
<1>4. n # 0
  <2>1. upto(0, <<>>)
    OBVIOUS
  <2>2. QED
    BY <2>1, <1>3
<1>5. n \in Nat /\ n - 1 \in Nat /\ n - 1 \notin bad
  <2>1. n \in Nat
    OBVIOUS
  <2>2. n - 1 \in Nat /\ ~(n <= n - 1)
    BY <2>1, <1>4
  <2>3. QED
    BY <2>1, <2>2, <1>3
<1>6. PICK f : upto(n - 1, f)
    BY <1>5
<1>7. \E g : upto(n, g)
  <2> HIDE DEF bad
  <2>1. PICK last : last = IF n = 1 THEN ss[n] ELSE f[n - 1] \o ss[n]
    OBVIOUS
  <2>2. PICK g : g = [i \in 1 .. n |-> IF i = n THEN last ELSE f[i]]
    OBVIOUS
  <2>3. ASSUME NEW i \in 1 .. n - 1
        PROVE  /\ g[i] = f[i]
               /\ i # 1 => i - 1 \in 1 .. n - 1 /\ g[i - 1] = f[i - 1]
               /\ f[i] = IF i = 1 THEN ss[i] ELSE f[i - 1] \o ss[i]
    <3>1. i \in Int /\ n \in Int /\ 1 <= i /\ i <= n - 1
      BY <1>5
    <3>2. i \in 1 .. n /\ i # n /\ (i # 1 => i - 1 \in 1 .. n - 1 /\ i - 1 \in 1 .. n /\ i - 1 # n)
      BY <3>1
    <3>3. g[i] = f[i] /\ (i # 1 => g[i - 1] = f[i - 1])
      BY <3>2, <2>2
    <3>4. f[i] = IF i = 1 THEN ss[i] ELSE f[i - 1] \o ss[i]
      BY <1>6
    <3>5. QED
      BY <3>2, <3>3, <3>4
  <2>4. g[n] = last /\ (n # 1 => n - 1 \in 1 .. n - 1)
    BY <1>4, <1>5, <2>2
  <2>5. g[n] = IF n = 1 THEN ss[n] ELSE g[n - 1] \o ss[n]
    BY <2>1, <2>3, <2>4
  <2>6. ASSUME NEW i \in 1 .. n
        PROVE  g[i] = IF i = 1 THEN ss[i] ELSE g[i - 1] \o ss[i]
    <3>1. CASE i = n
      BY <3>1, <2>5
    <3>2. CASE i # n
      <4>1. i \in 1 .. n - 1
        BY <3>2, <1>5
      <4>2. QED
        BY <4>1, <2>3
    <3>3. QED
      BY <3>1, <3>2
  <2>7. g = [i \in 1 .. n |-> g[i]]
    BY <2>2
  <2>8. upto(n, g)
    BY <2>6, <2>7
  <2>9. QED
    BY <2>8
<1>8. QED
    BY <1>7, <1>3

\* What a flattened sequence of sequences over S holds: elements of S, and among
\* them everything its parts hold.
LEMMA FlattenHolds ==
    ASSUME NEW S, NEW ss \in Seq(Seq(S))
    PROVE  /\ FlattenSeq(ss) \in Seq(S)
           /\ \A i \in 1 .. Len(ss) : \A k \in 1 .. Len(ss[i]) :
                  \E j \in 1 .. Len(FlattenSeq(ss)) : FlattenSeq(ss)[j] = ss[i][k]
<1>1. CASE Len(ss) = 0
  <2>1. ss = <<>> /\ FlattenSeq(ss) = ss
    BY <1>1 DEF FlattenSeq
  <2>2. <<>> \in Seq(S) /\ \A i \in 1 .. Len(ss) : FALSE
    BY <1>1
  <2>3. QED
    BY <2>1, <2>2, Zenon
<1>2. CASE Len(ss) # 0
  <2>1. PICK f : Flattens(f, ss) /\ FlattenSeq(ss) = f[Len(ss)]
    <3>1. FlattenSeq(ss) = (CHOOSE f : f = [i \in 1 .. Len(ss) |->
                                IF i = 1 THEN ss[i] ELSE f[i - 1] \o ss[i]])[Len(ss)]
      BY <1>2 DEF FlattenSeq
    <3>2. \E f : f = [i \in 1 .. Len(ss) |-> IF i = 1 THEN ss[i] ELSE f[i - 1] \o ss[i]]
      <4>1. Len(ss) \in Nat
        OBVIOUS
      <4>2. QED
        BY <4>1, FlattensExists, Zenon DEF Flattens
    <3>3. QED
      BY <3>1, <3>2, Zenon DEF Flattens
  <2>2. PICK N : N = Len(ss) /\ N \in Nat /\ N # 0
    BY <1>2
  <2>3. \A i \in 1 .. N : ss[i] \in Seq(S)
    BY <2>2
  <2>4. f[1] = ss[1] /\ \A n \in 1 .. N : n # 1 => f[n] = f[n - 1] \o ss[n]
    <3>1. f = [i \in 1 .. N |-> IF i = 1 THEN ss[i] ELSE f[i - 1] \o ss[i]]
      BY <2>1, <2>2, Zenon DEF Flattens
    <3>2. \A n \in 1 .. N : f[n] = IF n = 1 THEN ss[n] ELSE f[n - 1] \o ss[n]
      BY <3>1, Zenon
    <3>3. 1 \in 1 .. N
      BY <2>2
    <3>4. QED
      BY <3>2, <3>3, Zenon
  <2> DEFINE good(n) == /\ f[n] \in Seq(S)
                        /\ \A i \in 1 .. n : \A k \in 1 .. Len(ss[i]) :
                               \E j \in 1 .. Len(f[n]) : f[n][j] = ss[i][k]
             bad == {n \in 1 .. N : ~good(n)}
  <2>5. good(1)
    <3>1. \A i \in 1 .. 1 : i = 1
      OBVIOUS
    <3>2. 1 \in 1 .. N
      BY <2>2
    <3>3. QED
      BY <3>1, <3>2, <2>3, <2>4
  <2>6. ASSUME NEW n \in 1 .. N, n # 1, good(n - 1)
        PROVE  good(n)
    <3>1. f[n] = f[n - 1] \o ss[n] /\ f[n - 1] \in Seq(S) /\ ss[n] \in Seq(S)
      BY <2>3, <2>4, <2>6
    <3>2. PICK a : a = f[n - 1]
      OBVIOUS
    <3>3. PICK b : b = ss[n]
      OBVIOUS
    <3>4. a \in Seq(S) /\ b \in Seq(S) /\ f[n] = a \o b
      BY <3>1, <3>2, <3>3
    <3>5. /\ a \o b \in Seq(S) /\ Len(a \o b) = Len(a) + Len(b)
          /\ Len(a) \in Nat /\ Len(b) \in Nat
          /\ \A j \in 1 .. Len(a) : (a \o b)[j] = a[j]
          /\ \A j \in 1 .. Len(b) : (a \o b)[Len(a) + j] = b[j]
      BY <3>4
    <3>6. ASSUME NEW i \in 1 .. n, NEW k \in 1 .. Len(ss[i])
          PROVE  \E j \in 1 .. Len(f[n]) : f[n][j] = ss[i][k]
      <4>1. CASE i = n
        <5>1. k \in 1 .. Len(b) /\ b[k] = ss[i][k]
          BY <4>1, <3>3
        <5>2. Len(a) + k \in 1 .. Len(a \o b)
          BY <5>1, <3>5
        <5>3. QED
          BY <5>1, <5>2, <3>4, <3>5
      <4>2. CASE i # n
        <5>1. i \in 1 .. n - 1
          BY <4>2
        <5>2. PICK j \in 1 .. Len(a) : a[j] = ss[i][k]
          BY <5>1, <2>6, <3>2
        <5>3. j \in 1 .. Len(a \o b)
          BY <3>5
        <5>4. QED
          BY <5>2, <5>3, <3>4, <3>5
      <4>3. QED
        BY <4>1, <4>2
    <3>7. QED
      BY <3>4, <3>5, <3>6
  <2>7. bad = {}
    <3> HIDE DEF good
    <3>1. SUFFICES ASSUME bad # {}
                   PROVE  FALSE
      OBVIOUS
    <3>2. bad \in SUBSET Nat
      BY <2>2
    <3>3. PICK n \in bad : \A m \in bad : n <= m
      BY <3>1, <3>2, Smallest
    <3>4. n \in 1 .. N /\ ~good(n) /\ n # 1
      BY <2>5
    <3>5. n - 1 \in 1 .. N /\ ~(n <= n - 1)
      BY <3>4, <2>2
    <3>6. good(n - 1)
      BY <3>3, <3>5
    <3>7. QED
      BY <3>4, <3>6, <2>6
  <2>8. good(N)
    <3> HIDE DEF good
    <3>1. QED
      BY <2>2, <2>7
  <2>9. QED
    BY <2>1, <2>2, <2>8
<1>3. QED
    BY <1>1, <1>2
-----------------------------------------------------------------------------
(* Refusals.                                                               *)

\* None of an analyzer's early returns applies.
NoneHolds(checks) == \A i \in DOMAIN checks : ~checks[i][1]

\* A list of checks, whatever they are.
IsChecks(a) == \E S : a \in Seq(S)

\* None of the checks of two joined lists applies.
LEMMA NoneHoldsParts ==
    ASSUME NEW a, IsChecks(a), NEW b, IsChecks(b)
    PROVE  /\ IsChecks(a \o b)
           /\ NoneHolds(a \o b) => NoneHolds(a) /\ NoneHolds(b)
<1>1. PICK S : a \in Seq(S)
    BY DEF IsChecks
<1>2. PICK T : b \in Seq(T)
    BY DEF IsChecks
<1>3. PICK U : U = S \cup T
    OBVIOUS
<1>4. a \in Seq(U) /\ b \in Seq(U)
    BY <1>1, <1>2, <1>3
<1>5. a \o b \in Seq(U)
    BY <1>4
<1>6. ASSUME NoneHolds(a \o b), NEW i \in DOMAIN a
      PROVE  ~a[i][1]
  <2>1. i \in DOMAIN (a \o b) /\ (a \o b)[i] = a[i]
    BY <1>4
  <2>2. QED
    BY <2>1, <1>6 DEF NoneHolds
<1>7. ASSUME NoneHolds(a \o b), NEW i \in DOMAIN b
      PROVE  ~b[i][1]
  <2>1. Len(a) + i \in DOMAIN (a \o b) /\ (a \o b)[Len(a) + i] = b[i]
    BY <1>4
  <2>2. QED
    BY <2>1, <1>7 DEF NoneHolds
<1>8. QED
    BY <1>5, <1>6, <1>7, Zenon DEF NoneHolds, IsChecks

\* The same of the five lists that decoding joins.
LEMMA NoneHoldsFive ==
    ASSUME NEW a, NEW b, NEW c, NEW d, NEW e,
           IsChecks(a), IsChecks(b), IsChecks(c), IsChecks(d), IsChecks(e)
    PROVE  /\ IsChecks(a \o b \o c \o d \o e)
           /\ NoneHolds(a \o b \o c \o d \o e) =>
                  NoneHolds(a) /\ NoneHolds(b) /\ NoneHolds(c) /\ NoneHolds(d) /\ NoneHolds(e)
<1>1. IsChecks(a \o b) /\ (NoneHolds(a \o b) => NoneHolds(a) /\ NoneHolds(b))
    BY NoneHoldsParts, Zenon
<1>2. /\ IsChecks(a \o b \o c)
      /\ NoneHolds(a \o b \o c) => NoneHolds(a \o b) /\ NoneHolds(c)
    BY <1>1, NoneHoldsParts, Zenon
<1>3. /\ IsChecks(a \o b \o c \o d)
      /\ NoneHolds(a \o b \o c \o d) => NoneHolds(a \o b \o c) /\ NoneHolds(d)
    BY <1>2, NoneHoldsParts, Zenon
<1>4. /\ IsChecks(a \o b \o c \o d \o e)
      /\ NoneHolds(a \o b \o c \o d \o e) => NoneHolds(a \o b \o c \o d) /\ NoneHolds(e)
    BY <1>3, NoneHoldsParts, Zenon
<1>5. QED
    BY <1>1, <1>2, <1>3, <1>4, Zenon

\* What it means that a check does not apply.
LEMMA OneCheck ==
    ASSUME NEW c, NEW code, NEW stage
    PROVE  /\ IsChecks(<< <<c, code, stage>> >>)
           /\ NoneHolds(<< <<c, code, stage>> >>) => ~c
<1>1. PICK list : list = << <<c, code, stage>> >>
    OBVIOUS
<1>2. list \in Seq({<<c, code, stage>>}) /\ 1 \in DOMAIN list /\ list[1][1] = c
    BY <1>1
<1>3. NoneHolds(list) => ~list[1][1]
    BY <1>2, Zenon DEF NoneHolds
<1>4. QED
    BY <1>1, <1>2, <1>3, Zenon DEF IsChecks

\* The same of two.
LEMMA TwoChecks ==
    ASSUME NEW c, NEW code, NEW stage, NEW d, NEW code2, NEW stage2
    PROVE  /\ IsChecks(<< <<c, code, stage>>, <<d, code2, stage2>> >>)
           /\ NoneHolds(<< <<c, code, stage>>, <<d, code2, stage2>> >>) => ~c /\ ~d
<1>1. PICK list : list = << <<c, code, stage>>, <<d, code2, stage2>> >>
    OBVIOUS
<1>2. /\ list \in Seq({<<c, code, stage>>, <<d, code2, stage2>>})
      /\ 1 \in DOMAIN list /\ list[1][1] = c
      /\ 2 \in DOMAIN list /\ list[2][1] = d
    BY <1>1
<1>3. NoneHolds(list) => ~list[1][1] /\ ~list[2][1]
    BY <1>2, Zenon DEF NoneHolds
<1>4. QED
    BY <1>1, <1>2, <1>3, Zenon DEF IsChecks

\* The second of the four or five checks of a binding does not apply.
LEMMA BindingChecks ==
    ASSUME NEW a, NEW b, NEW c, NEW d, NEW e
    PROVE  /\ IsChecks(<<a, b, c, d>>) /\ (NoneHolds(<<a, b, c, d>>) => ~b[1])
           /\ IsChecks(<<a, b, c, d, e>>) /\ (NoneHolds(<<a, b, c, d, e>>) => ~b[1])
<1>1. PICK four : four = <<a, b, c, d>>
    OBVIOUS
<1>2. PICK five : five = <<a, b, c, d, e>>
    OBVIOUS
<1>3. four \in Seq({a, b, c, d}) /\ 2 \in DOMAIN four /\ four[2] = b
    BY <1>1
<1>4. five \in Seq({a, b, c, d, e}) /\ 2 \in DOMAIN five /\ five[2] = b
    BY <1>2
<1>5. (NoneHolds(four) => ~b[1]) /\ (NoneHolds(five) => ~b[1])
    BY <1>3, <1>4, Zenon DEF NoneHolds
<1>6. QED
    BY <1>1, <1>2, <1>3, <1>4, <1>5, Zenon DEF IsChecks

\* An analyzer that refuses nothing has met none of its conditions.
LEMMA NotRefused ==
    ASSUME NEW checks, FirstRefusal(checks) = NoRefusal
    PROVE  NoneHolds(checks)
<1>1. PICK hit : hit = {i \in DOMAIN checks : checks[i][1]}
    OBVIOUS
<1>2. FirstRefusal(checks) = IF hit = {} THEN <<>>
                             ELSE <<checks[Min(hit)][2], checks[Min(hit)][3]>>
    BY <1>1, Zenon DEF FirstRefusal, NoRefusal
<1>3. hit = {}
    BY <1>2 DEF NoRefusal
<1>4. QED
    BY <1>1, <1>3 DEF NoneHolds

\* A refusal has its own status.
LEMMA RefusedStatus ==
    ASSUME NEW x
    PROVE  /\ Failed(x).status = "failed" /\ Raised(x).status = "raised"
           /\ Refused(x).status \in {"failed", "raised"}
BY DEF Refused, Raised, Failed

\* The contract lets a result through as it was built.
LEMMA CheckedBuilt ==
    ASSUME NEW built, CheckedOrRaised(built).status # "raised"
    PROVE  CheckedOrRaised(built) = built /\ RawValuesValid(built)
BY RefusedStatus, Zenon DEF CheckedOrRaised, ValidResult

\* None of the flattened checks of the elements of a list applies, when every
\* element gives a list of checks.
LEMMA EveryElement ==
    ASSUME NEW list, IsList(list), NEW ss,
           ss = [i \in DOMAIN list |-> ss[i]],
           \A i \in DOMAIN list : IsChecks(ss[i])
    PROVE  /\ IsChecks(FlattenSeq(ss))
           /\ NoneHolds(FlattenSeq(ss)) => \A i \in DOMAIN list : NoneHolds(ss[i])
<1>1. PICK S : S = UNION {{ss[i][k] : k \in DOMAIN ss[i]} : i \in DOMAIN list}
    OBVIOUS
<1>2. ASSUME NEW i \in DOMAIN list
      PROVE  ss[i] \in Seq(S)
  <2>1. PICK T : ss[i] \in Seq(T)
    BY DEF IsChecks
  <2>2. \A k \in DOMAIN ss[i] : ss[i][k] \in S
    BY <1>1
  <2>3. QED
    BY <2>1, <2>2
<1>3. ss \in Seq(Seq(S)) /\ Len(ss) = Len(list) /\ DOMAIN list = 1 .. Len(ss)
    BY <1>2 DEF IsList
<1>4. PICK flat : flat = FlattenSeq(ss)
    OBVIOUS
<1>5. /\ flat \in Seq(S)
      /\ \A i \in 1 .. Len(ss) : \A k \in 1 .. Len(ss[i]) :
             \E j \in 1 .. Len(flat) : flat[j] = ss[i][k]
    BY <1>3, <1>4, FlattenHolds, Zenon
<1>6. ASSUME NoneHolds(flat), NEW i \in DOMAIN list, NEW k \in DOMAIN ss[i]
      PROVE  ~ss[i][k][1]
  <2>1. i \in 1 .. Len(ss) /\ k \in 1 .. Len(ss[i])
    BY <1>2, <1>3
  <2>2. PICK j \in 1 .. Len(flat) : flat[j] = ss[i][k]
    BY <2>1, <1>5, Zenon
  <2>3. j \in DOMAIN flat
    BY <1>5
  <2>4. QED
    BY <2>2, <2>3, <1>6 DEF NoneHolds
<1>7. QED
    BY <1>4, <1>5, <1>6, Zenon DEF NoneHolds, IsChecks

\* One check for each element of a list.
LEMMA CheckForEach ==
    ASSUME NEW list, IsList(list), NEW f, f = [i \in DOMAIN list |-> f[i]]
    PROVE  IsChecks(f)
<1>1. PICK S : S = {f[i] : i \in DOMAIN list}
    OBVIOUS
<1>2. f \in Seq(S)
    BY <1>1 DEF IsList
<1>3. QED
    BY <1>2 DEF IsChecks

-----------------------------------------------------------------------------
(* The consumption of an allowance.                                        *)

\* What a result of auth_consumption that is not a refusal comes from.
LEMMA AuthAccepted ==
    ASSUME NEW request, NEW replay, AnalyzeAuthReplay(request, replay).status = "complete"
    PROVE  /\ AnalyzeAuthReplay(request, replay) = AuthAnalyzeValidReplay(request, replay)
           /\ NoneHolds(AuthBindingError(request, replay) \o AuthDecodeReplay(replay))
<1>1. PICK checks : checks = AuthBindingError(request, replay) \o AuthDecodeReplay(replay)
    OBVIOUS
<1>2. AnalyzeAuthReplay(request, replay) =
          IF FirstRefusal(checks) # NoRefusal THEN Refused(FirstRefusal(checks))
          ELSE AuthAnalyzeValidReplay(request, replay)
    BY <1>1, Zenon DEF AnalyzeAuthReplay
<1>3. FirstRefusal(checks) = NoRefusal
    BY <1>2, RefusedStatus
<1>4. QED
    BY <1>1, <1>2, <1>3, NotRefused, Zenon

\* Then the replay is bound to the request and every snapshot has a value.
LEMMA AuthDecoded ==
    ASSUME NEW request, NEW replay, SnapshotsFormed(replay.query.snapshots),
           NoneHolds(AuthBindingError(request, replay) \o AuthDecodeReplay(replay))
    PROVE  /\ request.spender = replay.spender
           /\ \A s \in ToSet(replay.query.snapshots) : s.result = <<s.result[1]>>
<1>1. PICK snapshots : snapshots = replay.query.snapshots
    OBVIOUS
<1>2. PICK binding : binding = AuthBindingError(request, replay)
    OBVIOUS
<1>3. IsChecks(binding) /\ (NoneHolds(binding) => request.spender = replay.spender)
  <2>1. PICK a, b, c, d : /\ binding = <<a, b, c, d>>
                          /\ b = <<\/ request.chain # replay.chain
                                   \/ request.subject # replay.subject
                                   \/ request.token # replay.token
                                   \/ request.spender # replay.spender
                                   \/ request.approval # replay.approval.tx.hash
                                   \/ request.consumption # replay.consumption.tx.hash,
                                   "reconciliation_failed", "validate_replay">>
    BY <1>2, Zenon DEF AuthBindingError
  <2>2. IsChecks(binding) /\ (NoneHolds(binding) => ~b[1])
    BY <2>1, BindingChecks, Zenon
  <2>3. ~b[1] => request.spender = replay.spender
    BY <2>1
  <2>4. QED
    BY <2>2, <2>3, Zenon
<1>4. PICK ss : ss = [i \in DOMAIN snapshots |-> AuthDecodeSnapshot(snapshots[i])]
    OBVIOUS
<1>5. \A i \in DOMAIN snapshots : ss[i] = AuthDecodeSnapshot(snapshots[i])
    BY <1>4, Zenon
<1>6. ASSUME NEW s
      PROVE  /\ IsChecks(AuthDecodeSnapshot(s))
             /\ NoneHolds(AuthDecodeSnapshot(s)) => s.result # <<>>
    BY TwoChecks, Zenon DEF AuthDecodeSnapshot
<1>7. /\ IsChecks(FlattenSeq(ss))
      /\ NoneHolds(FlattenSeq(ss)) => \A i \in DOMAIN snapshots : NoneHolds(ss[i])
  <2>1. IsList(snapshots)
    BY <1>1, Zenon DEF SnapshotsFormed
  <2>2. ss = [i \in DOMAIN snapshots |-> ss[i]]
    BY <1>4
  <2>3. \A i \in DOMAIN snapshots : IsChecks(ss[i])
    BY <1>5, <1>6, Zenon
  <2>4. QED
    BY <2>1, <2>2, <2>3, EveryElement, Zenon
<1>8. PICK trace : trace = replay.consumption.trace
    OBVIOUS
<1>9. PICK counts : counts =
          << <<Len(ApprovalLogs(replay)) # 1, "decode_failed", "decode_auth">>,
             <<Len(TransferLogs(replay)) # 1, "decode_failed", "decode_auth">> >>
    OBVIOUS
<1>10. PICK traced : traced =
          IF trace = <<>> THEN <<>> ELSE DecodeCall(trace[1].call, "transferFrom", 3)
    OBVIOUS
<1>11. PICK calls : calls =
          counts \o DecodeCall(replay.approval.tx.call, "approve", 2)
          \o DecodeCall(replay.query.call, "allowance", 2) \o traced
    OBVIOUS
<1>12. PICK labels : labels =
          << <<~IsInjective([i \in DOMAIN snapshots |-> snapshots[i].label]),
               "decode_failed", "decode_auth">> >>
    OBVIOUS
<1>13. AuthDecodeReplay(replay) = calls \o FlattenSeq(ss) \o labels
           \o DecodeLog(ApprovalLogs(replay)) \o DecodeLog(TransferLogs(replay))
    BY <1>1, <1>4, <1>8, <1>9, <1>10, <1>11, <1>12, Zenon DEF AuthDecodeReplay
<1>14. IsChecks(calls)
  <2>1. \A call, selector, n : IsChecks(DecodeCall(call, selector, n))
    BY TwoChecks, Zenon DEF DecodeCall
  <2>2. IsChecks(<<>>)
    BY DEF IsChecks
  <2>3. IsChecks(counts) /\ IsChecks(traced)
    BY <1>9, <1>10, <2>1, <2>2, TwoChecks, Zenon
  <2>4. IsChecks(counts \o DecodeCall(replay.approval.tx.call, "approve", 2))
    BY <2>1, <2>3, NoneHoldsParts, Zenon
  <2>5. IsChecks(counts \o DecodeCall(replay.approval.tx.call, "approve", 2)
                        \o DecodeCall(replay.query.call, "allowance", 2))
    BY <2>1, <2>4, NoneHoldsParts, Zenon
  <2>6. QED
    BY <1>11, <2>3, <2>5, NoneHoldsParts, Zenon
<1>15. IsChecks(labels) /\ \A logs : IsChecks(DecodeLog(logs))
    BY <1>12, OneCheck, TwoChecks, Zenon DEF DecodeLog
<1>16. /\ IsChecks(AuthDecodeReplay(replay))
       /\ NoneHolds(AuthDecodeReplay(replay)) => NoneHolds(FlattenSeq(ss))
  <2>1. PICK flat : flat = FlattenSeq(ss)
    OBVIOUS
  <2>2. PICK approval : approval = DecodeLog(ApprovalLogs(replay))
    OBVIOUS
  <2>3. PICK transfer : transfer = DecodeLog(TransferLogs(replay))
    OBVIOUS
  <2>4. IsChecks(flat) /\ IsChecks(approval) /\ IsChecks(transfer)
    BY <2>1, <2>2, <2>3, <1>7, <1>15, Zenon
  <2>5. /\ IsChecks(calls \o flat \o labels \o approval \o transfer)
        /\ NoneHolds(calls \o flat \o labels \o approval \o transfer) => NoneHolds(flat)
    BY <2>4, <1>14, <1>15, NoneHoldsFive, Zenon
  <2>6. AuthDecodeReplay(replay) = calls \o flat \o labels \o approval \o transfer
    BY <2>1, <2>2, <2>3, <1>13, Zenon
  <2>7. QED
    BY <2>1, <2>5, <2>6, Zenon
<1>17. NoneHolds(binding) /\ NoneHolds(FlattenSeq(ss))
    BY <1>2, <1>3, <1>16, NoneHoldsParts, Zenon
<1>18. ASSUME NEW s \in ToSet(snapshots)
       PROVE  s.result = <<s.result[1]>>
  <2>1. PICK i \in DOMAIN snapshots : s = snapshots[i]
    BY DEF ToSet
  <2>2. s.result # <<>>
    BY <2>1, <1>5, <1>6, <1>7, <1>17, Zenon
  <2>3. Optional(s.result)
    BY <1>1, Zenon DEF SnapshotsFormed
  <2>4. QED
    BY <2>2, <2>3, Zenon DEF Optional
<1>19. QED
    BY <1>1, <1>3, <1>17, <1>18, Zenon

\* A result has the status it was built with, unless the contract refuses it.
LEMMA AuthResultStatus ==
    ASSUME NEW replay, NEW status, NEW results, NEW errors
    PROVE  AuthResult(replay, status, results, errors).status \in {status, "raised"}
BY RefusedStatus DEF AuthResult, CheckedOrRaised

\* A complete result is one the analyzer built as complete, with raw values in range.
LEMMA AuthResultBuilt ==
    ASSUME NEW replay, NEW status, NEW results, NEW errors,
           AuthResult(replay, status, results, errors).status = "complete"
    PROVE  /\ status = "complete"
           /\ AuthResult(replay, status, results, errors).value =
                  [from |-> TransferLogs(replay)[1].args[1], amount |-> TransferAmount(replay)]
           /\ TransferAmount(replay) \in 0 .. UINT256_MAX
           /\ \A s \in ToSet(replay.query.snapshots) : s.result[1] \in 0 .. UINT256_MAX
<1>1. PICK raws : raws = {ApprovalAmount(replay), replay.approval.tx.call.args[2],
                          TransferAmount(replay), replay.explorer.amount}
                         \cup {s.result[1] : s \in ToSet(replay.query.snapshots)}
    OBVIOUS
<1>2. PICK value : value = [from |-> TransferLogs(replay)[1].args[1],
                            amount |-> TransferAmount(replay)]
    OBVIOUS
<1>3. PICK built : built =
          [status |-> status, results |-> results, evidence |-> AuthEvidence(replay),
           sources |-> AllSources(replay.sources), errors |-> errors,
           raws |-> raws, value |-> value]
    OBVIOUS
<1>4. AuthResult(replay, status, results, errors) = CheckedOrRaised(built)
    BY <1>1, <1>2, <1>3, Zenon DEF AuthResult
<1>5. CheckedOrRaised(built) = built /\ RawValuesValid(built)
    BY <1>4, CheckedBuilt
<1>6. built.status = status /\ built.value = value /\ built.raws = raws
    BY <1>3
<1>7. \A n \in raws : n \in 0 .. UINT256_MAX
    BY <1>5, <1>6, Zenon DEF RawValuesValid
<1>8. /\ TransferAmount(replay) \in raws
      /\ \A s \in ToSet(replay.query.snapshots) : s.result[1] \in raws
    BY <1>1
<1>9. QED
    BY <1>2, <1>4, <1>5, <1>6, <1>7, <1>8, Zenon

\* A complete result has every snapshot and the trace, and nothing disagrees.
LEMMA AuthComplete ==
    ASSUME NEW request, NEW replay, AuthAnalyzeValidReplay(request, replay).status = "complete"
    PROVE  /\ Mismatches(request, replay) = {}
           /\ AuthSnapshotLabels \subseteq AuthLabels(replay)
           /\ replay.consumption.trace # <<>>
           /\ AuthAnalyzeValidReplay(request, replay).value =
                  [from |-> TransferLogs(replay)[1].args[1], amount |-> TransferAmount(replay)]
           /\ TransferAmount(replay) \in 0 .. UINT256_MAX
           /\ \A s \in ToSet(replay.query.snapshots) : s.result[1] \in 0 .. UINT256_MAX
<1>1. PICK evidence : evidence = AuthEvidence(replay)
    OBVIOUS
<1>2. PICK missing : missing = AuthSnapshotLabels \ AuthLabels(replay)
    OBVIOUS
<1>3. PICK trace : trace = replay.consumption.trace
    OBVIOUS
<1>4. PICK first : first = Error("archive_required", "collect_allowance",
                                 <<<<"APPROVAL-EVENT">>, <<"APPROVE-CALL">>>>)
    OBVIOUS
<1>5. PICK second : second = Error("trace_unavailable", "collect_trace",
                                   <<<<"TRANSFER-EVENT">>>>)
    OBVIOUS
<1>6. PICK errors : errors = (IF missing = {} THEN <<>> ELSE <<first>>)
                             \o (IF ~(trace = <<>>) THEN <<>> ELSE <<second>>)
    OBVIOUS
<1>7. errors = <<>> => missing = {} /\ trace # <<>>
    BY <1>6
<1>8. PICK failure : failure = <<Error("reconciliation_failed", "reconcile_authorization",
                                       AllIds(evidence))>>
    OBVIOUS
<1>9. PICK results : results =
          AuthConfirmedResults(missing = {}, missing = {} /\ ~(trace = <<>>), evidence)
    OBVIOUS
<1>10. PICK status : status = IF errors = <<>> THEN "complete" ELSE "partial"
    OBVIOUS
<1>11. AuthAnalyzeValidReplay(request, replay) =
           IF Mismatches(request, replay) # {} THEN AuthResult(replay, "failed", <<>>, failure)
           ELSE AuthResult(replay, status, results, errors)
  <2>1. CASE errors = <<>>
    BY <2>1, <1>1, <1>2, <1>3, <1>4, <1>5, <1>6, <1>8, <1>9, <1>10 DEF AuthAnalyzeValidReplay
  <2>2. CASE errors # <<>>
    BY <2>2, <1>1, <1>2, <1>3, <1>4, <1>5, <1>6, <1>8, <1>9, <1>10 DEF AuthAnalyzeValidReplay
  <2>3. QED
    BY <2>1, <2>2
<1>12. Mismatches(request, replay) = {}
  <2>1. AuthResult(replay, "failed", <<>>, failure).status \in {"failed", "raised"}
    BY AuthResultStatus
  <2>2. QED
    BY <2>1, <1>11
<1>13. AuthAnalyzeValidReplay(request, replay) = AuthResult(replay, status, results, errors)
    BY <1>11, <1>12, Zenon
<1>14. /\ status = "complete"
       /\ AuthResult(replay, status, results, errors).value =
              [from |-> TransferLogs(replay)[1].args[1], amount |-> TransferAmount(replay)]
       /\ TransferAmount(replay) \in 0 .. UINT256_MAX
       /\ \A s \in ToSet(replay.query.snapshots) : s.result[1] \in 0 .. UINT256_MAX
    BY <1>13, AuthResultBuilt, Zenon
<1>15. missing = {} /\ trace # <<>>
    BY <1>7, <1>10, <1>14
<1>16. AuthSnapshotLabels \subseteq AuthLabels(replay) /\ replay.consumption.trace # <<>>
    BY <1>2, <1>3, <1>15
<1>17. QED
    BY <1>12, <1>13, <1>14, <1>16, Zenon

\* What it means that nothing disagrees.
LEMMA AuthReconciled ==
    ASSUME NEW request, NEW replay, Mismatches(request, replay) = {},
           AuthSnapshotLabels \subseteq AuthLabels(replay), replay.consumption.trace # <<>>
    PROVE  /\ replay.approval.tx.call.args[2] = ApprovalAmount(replay)
           /\ \A s \in ToSet(replay.query.snapshots) : s.block = request.blocks[s.label]
           /\ Allowance(replay, "before_approval") = 0
           /\ Allowance(replay, "after_approval") = ApprovalAmount(replay)
           /\ Allowance(replay, "before_consumption") = Allowance(replay, "after_approval")
           /\ LET delta == Allowance(replay, "before_consumption")
                             - Allowance(replay, "after_consumption")
              IN  ~(delta < 0) /\ TransferAmount(replay) = delta
           /\ replay.consumption.trace[1].from = replay.spender
           /\ replay.consumption.trace[1].call.args[1] = TransferLogs(replay)[1].args[1]
           /\ replay.consumption.trace[1].call.args[3] = TransferAmount(replay)
<1>1. /\ ApprovalMismatches(replay) = {}
      /\ StateMismatches(request, replay) = {}
      /\ TraceMismatches(replay) = {}
    BY DEF Mismatches
<1>2. replay.approval.tx.call.args[2] = ApprovalAmount(replay)
  <2>1. PICK log : log = ApprovalLogs(replay)[1]
    OBVIOUS
  <2>2. PICK args : args = replay.approval.tx.call.args
    OBVIOUS
  <2>3. "approval_event_vs_call" \notin ApprovalMismatches(replay)
    BY <1>1
  <2>4. args = <<replay.spender, log.data[1]>>
    BY <2>1, <2>2, <2>3 DEF ApprovalMismatches
  <2>5. QED
    BY <2>1, <2>2, <2>4 DEF ApprovalAmount
<1>3. ASSUME NEW s \in ToSet(replay.query.snapshots)
      PROVE  s.block = request.blocks[s.label]
  <2>1. s.label \notin StateMismatches(request, replay)
    BY <1>1
  <2>2. QED
    BY <2>1 DEF StateMismatches
<1>4. /\ Allowance(replay, "before_approval") = 0
      /\ Allowance(replay, "after_approval") = ApprovalAmount(replay)
      /\ Allowance(replay, "before_consumption") = Allowance(replay, "after_approval")
  <2>1. /\ "allowance_before_approval" \notin StateMismatches(request, replay)
        /\ "allowance_after_approval" \notin StateMismatches(request, replay)
        /\ "allowance_before_consumption" \notin StateMismatches(request, replay)
    BY <1>1
  <2>2. QED
    BY <2>1 DEF StateMismatches
<1>5. LET delta == Allowance(replay, "before_consumption")
                     - Allowance(replay, "after_consumption")
      IN  ~(delta < 0) /\ TransferAmount(replay) = delta
  <2>1. "allowance_delta_vs_transfer" \notin StateMismatches(request, replay)
    BY <1>1
  <2>2. QED
    BY <2>1 DEF StateMismatches
<1>6. PICK trace : trace = replay.consumption.trace[1]
    OBVIOUS
<1>7. PICK log : log = TransferLogs(replay)[1]
    OBVIOUS
<1>8. trace.from = replay.spender
  <2>1. "transfer_from_trace_identity" \notin TraceMismatches(replay)
    BY <1>1
  <2>2. QED
    BY <2>1, <1>6 DEF TraceMismatches
<1>9. trace.call.args = <<log.args[1], log.args[2], log.data[1]>>
  <2>1. "transfer_from_vs_event" \notin TraceMismatches(replay)
    BY <1>1
  <2>2. QED
    BY <2>1, <1>6, <1>7 DEF TraceMismatches
<1>10. trace.call.args[1] = log.args[1] /\ trace.call.args[3] = TransferAmount(replay)
    BY <1>7, <1>9 DEF TransferAmount
<1>11. QED
    BY <1>2, <1>3, <1>4, <1>5, <1>6, <1>7, <1>8, <1>10, Zenon

\* Its snapshots show what was granted and what was left.
LEMMA AuthBacked ==
    ASSUME Formed(input), input.kind = "auth", result = Analyzed(input),
           result.status = "complete"
    PROVE  AllowanceConsumed
<1>1. PICK request, replay : request = input.request /\ replay = input.replay
    OBVIOUS
<1>2. result = AnalyzeAuthReplay(request, replay)
    BY <1>1 DEF Analyzed
<1>3. /\ result = AuthAnalyzeValidReplay(request, replay)
      /\ NoneHolds(AuthBindingError(request, replay) \o AuthDecodeReplay(replay))
    BY <1>2, AuthAccepted, Zenon
<1>4. SnapshotsFormed(replay.query.snapshots)
    BY <1>1 DEF Formed
<1>5. PICK snapshots : snapshots = ToSet(replay.query.snapshots)
    OBVIOUS
<1>6. /\ request.spender = replay.spender
      /\ \A s \in snapshots : s.result = <<s.result[1]>>
    BY <1>3, <1>4, <1>5, AuthDecoded, Zenon
<1>7. /\ Mismatches(request, replay) = {}
      /\ AuthSnapshotLabels \subseteq AuthLabels(replay)
      /\ replay.consumption.trace # <<>>
      /\ result.value =
             [from |-> TransferLogs(replay)[1].args[1], amount |-> TransferAmount(replay)]
      /\ TransferAmount(replay) \in 0 .. UINT256_MAX
      /\ \A s \in snapshots : s.result[1] \in 0 .. UINT256_MAX
    BY <1>3, <1>5, AuthComplete, Zenon
<1>8. PICK trace : trace = replay.consumption.trace[1]
    OBVIOUS
<1>9. PICK moved, approved, payer :
          /\ moved = TransferAmount(replay)
          /\ approved = ApprovalAmount(replay)
          /\ payer = TransferLogs(replay)[1].args[1]
    OBVIOUS
<1>10. PICK before, granted, ready, left :
          /\ before = Allowance(replay, "before_approval")
          /\ granted = Allowance(replay, "after_approval")
          /\ ready = Allowance(replay, "before_consumption")
          /\ left = Allowance(replay, "after_consumption")
    OBVIOUS
<1>11. /\ replay.approval.tx.call.args[2] = approved
       /\ \A s \in snapshots : s.block = request.blocks[s.label]
       /\ before = 0 /\ granted = approved /\ ready = granted
       /\ ~(ready - left < 0) /\ moved = ready - left
       /\ trace.from = replay.spender
       /\ trace.call.args[1] = payer /\ trace.call.args[3] = moved
    BY <1>5, <1>7, <1>8, <1>9, <1>10, AuthReconciled
<1>12. ASSUME NEW label \in AuthSnapshotLabels
       PROVE  /\ StateAt(label) = <<Allowance(replay, label)>>
              /\ Allowance(replay, label) \in 0 .. UINT256_MAX
  <2>1. \E s \in snapshots : s.label = label
    BY <1>5, <1>7 DEF AuthLabels
  <2>2. PICK s : s = CHOOSE x \in snapshots : x.label = label
    OBVIOUS
  <2>3. s \in snapshots /\ s.label = label
    BY <2>1, <2>2, Zenon
  <2>4. Allowance(replay, label) = s.result[1]
    BY <2>2, <1>5, Zenon DEF Allowance
  <2>5. StateAt(label) = s.result
    <3>1. s.block = input.request.blocks[label]
      BY <2>3, <1>1, <1>11, Zenon
    <3>2. s = CHOOSE x \in ToSet(input.replay.query.snapshots) : x.label = label
      BY <2>2, <1>1, <1>5, Zenon
    <3>3. QED
      BY <3>1, <3>2, Zenon DEF StateAt
  <2>6. QED
    BY <2>3, <2>4, <2>5, <1>6, <1>7, Zenon
<1>13. /\ StateAt("before_approval") = <<before>>
       /\ StateAt("before_consumption") = <<ready>> /\ ready \in 0 .. UINT256_MAX
       /\ StateAt("after_consumption") = <<left>> /\ left \in 0 .. UINT256_MAX
    BY <1>10, <1>12 DEF AuthSnapshotLabels
<1>14. UINT256_MAX \in Nat /\ ready \in Int /\ left \in Int /\ moved \in Int /\ approved \in Int
    BY <1>7, <1>9, <1>11, <1>13, UIntAssumption
<1>15. left = approved - moved /\ moved \in 0 .. approved
    BY <1>11, <1>13, <1>14
<1>16. result.value.amount = moved /\ result.value.from = payer
    BY <1>7, <1>9
<1>17. /\ StateAt("before_approval") = <<0>>
       /\ StateAt("before_consumption") = <<approved>>
       /\ StateAt("after_consumption") = <<approved - moved>>
    BY <1>11, <1>13, <1>15
<1>18. QED
    BY <1>1, <1>6, <1>8, <1>11, <1>15, <1>16, <1>17 DEF AllowanceConsumed

-----------------------------------------------------------------------------
(* The transitions of a blacklist.                                         *)

\* What a result of freeze_lifecycle that is not a refusal comes from.
LEMMA FreezeAccepted ==
    ASSUME NEW request, NEW replay,
           AnalyzeFreezeReplay(request, replay).status \in {"complete", "partial"}
    PROVE  /\ AnalyzeFreezeReplay(request, replay) = FreezeAnalyzeValidReplay(request, replay)
           /\ NoneHolds(FreezeBindingError(request, replay) \o FreezeDecodeReplay(replay))
<1>1. PICK checks : checks = FreezeBindingError(request, replay) \o FreezeDecodeReplay(replay)
    OBVIOUS
<1>2. AnalyzeFreezeReplay(request, replay) =
          IF FirstRefusal(checks) # NoRefusal THEN Refused(FirstRefusal(checks))
          ELSE FreezeAnalyzeValidReplay(request, replay)
    BY <1>1, Zenon DEF AnalyzeFreezeReplay
<1>3. FirstRefusal(checks) = NoRefusal
    BY <1>2, RefusedStatus
<1>4. QED
    BY <1>1, <1>2, <1>3, NotRefused, Zenon

\* The captured parts are a list.
LEMMA PartsListed ==
    ASSUME NEW replay, Optional(replay.unblacklist)
    PROVE  IsList(Parts(replay))
<1>1. PICK first, rest : first = replay.blacklist /\ rest = replay.unblacklist
    OBVIOUS
<1>2. PICK second : second = rest[1]
    OBVIOUS
<1>3. rest = <<>> \/ rest = <<second>>
    BY <1>1, <1>2 DEF Optional
<1>4. PICK T : T = {first, second}
    OBVIOUS
<1>5. <<first>> \in Seq(T)
    BY <1>4
<1>6. rest \in Seq(T)
  <2>1. CASE rest = <<>>
    BY <2>1
  <2>2. CASE rest = <<second>>
    <3>1. <<second>> \in Seq(T)
      BY <1>4
    <3>2. QED
      BY <2>2, <3>1
  <2>3. QED
    BY <2>1, <2>2, <1>3
<1>7. PICK parts : parts = <<first>> \o rest
    OBVIOUS
<1>8. parts \in Seq(T)
    BY <1>5, <1>6, <1>7
<1>9. IsList(parts)
    BY <1>8 DEF IsList
<1>10. QED
    BY <1>1, <1>7, <1>9 DEF Parts

\* Then the replay is bound to the request and every snapshot has a value.
LEMMA FreezeDecoded ==
    ASSUME NEW request, NEW replay, SnapshotsFormed(replay.query.snapshots),
           Optional(replay.unblacklist),
           NoneHolds(FreezeBindingError(request, replay) \o FreezeDecodeReplay(replay))
    PROVE  /\ request.target = replay.target
           /\ \A s \in ToSet(replay.query.snapshots) : s.result = <<s.result[1]>>
<1>1. PICK snapshots : snapshots = replay.query.snapshots
    OBVIOUS
<1>2. PICK binding : binding = FreezeBindingError(request, replay)
    OBVIOUS
<1>3. IsChecks(binding) /\ (NoneHolds(binding) => request.target = replay.target)
  <2>1. PICK a, b, c, d, e : /\ binding = <<a, b, c, d, e>>
                             /\ b = <<\/ request.chain # replay.chain
                                      \/ request.token # replay.token
                                      \/ request.target # replay.target
                                      \/ ~IsPrefix(PartHashes(replay), request.hashes),
                                      "reconciliation_failed", "validate_replay">>
    BY <1>2, Zenon DEF FreezeBindingError
  <2>2. IsChecks(binding) /\ (NoneHolds(binding) => ~b[1])
    BY <2>1, BindingChecks, Zenon
  <2>3. ~b[1] => request.target = replay.target
    BY <2>1
  <2>4. QED
    BY <2>2, <2>3, Zenon
<1>4. PICK ss : ss = [i \in DOMAIN snapshots |-> FreezeDecodeSnapshot(snapshots[i])]
    OBVIOUS
<1>5. \A i \in DOMAIN snapshots : ss[i] = FreezeDecodeSnapshot(snapshots[i])
    BY <1>4, Zenon
<1>6. ASSUME NEW s
      PROVE  /\ IsChecks(FreezeDecodeSnapshot(s))
             /\ NoneHolds(FreezeDecodeSnapshot(s)) => s.result # <<>>
    BY TwoChecks, Zenon DEF FreezeDecodeSnapshot
<1>7. /\ IsChecks(FlattenSeq(ss))
      /\ NoneHolds(FlattenSeq(ss)) => \A i \in DOMAIN snapshots : NoneHolds(ss[i])
  <2>1. IsList(snapshots)
    BY <1>1, Zenon DEF SnapshotsFormed
  <2>2. ss = [i \in DOMAIN snapshots |-> ss[i]]
    BY <1>4
  <2>3. \A i \in DOMAIN snapshots : IsChecks(ss[i])
    BY <1>5, <1>6, Zenon
  <2>4. QED
    BY <2>1, <2>2, <2>3, EveryElement, Zenon
<1>8. PICK pp : pp = [i \in DOMAIN Parts(replay) |->
          << <<Len(PartLogs(replay, i)) # 1, "decode_failed", "decode_freeze">> >>
          \o DecodeTarget(Parts(replay)[i].tx.call, PartSelector[i])]
    OBVIOUS
<1>9. \A call, selector : IsChecks(DecodeTarget(call, selector))
    BY TwoChecks, Zenon DEF DecodeTarget
<1>10. IsChecks(FlattenSeq(pp))
  <2>1. ASSUME NEW i \in DOMAIN Parts(replay)
        PROVE  IsChecks(pp[i])
    <3>1. pp[i] = << <<Len(PartLogs(replay, i)) # 1, "decode_failed", "decode_freeze">> >>
                  \o DecodeTarget(Parts(replay)[i].tx.call, PartSelector[i])
      BY <1>8, Zenon
    <3>2. IsChecks(<< <<Len(PartLogs(replay, i)) # 1, "decode_failed", "decode_freeze">> >>)
      BY OneCheck, Zenon
    <3>3. QED
      BY <3>1, <3>2, <1>9, NoneHoldsParts, Zenon
  <2>2. pp = [i \in DOMAIN Parts(replay) |-> pp[i]]
    BY <1>8
  <2>3. IsList(Parts(replay))
    BY PartsListed, Zenon
  <2>4. QED
    BY <2>1, <2>2, <2>3, EveryElement, Zenon
<1>11. PICK labels : labels =
          << <<~IsInjective([i \in DOMAIN snapshots |-> snapshots[i].label]),
               "decode_failed", "decode_freeze">> >>
    OBVIOUS
<1>12. PICK named : named = [i \in DOMAIN Parts(replay) |->
              <<Len(PartLogs(replay, i)) = 1 /\ PartLogs(replay, i)[1].args = <<>>,
                "IndexError", "decode_freeze">>]
    OBVIOUS
<1>13. IsChecks(labels) /\ IsChecks(named)
  <2>1. IsChecks(labels)
    BY <1>11, OneCheck, Zenon
  <2>2. named = [i \in DOMAIN Parts(replay) |-> named[i]]
    BY <1>12, Zenon
  <2>3. QED
    BY <2>1, <2>2, PartsListed, CheckForEach, Zenon
<1>14. PICK query : query = DecodeTarget(replay.query.call, "isBlacklisted")
    OBVIOUS
<1>15. PICK flat, parts : flat = FlattenSeq(ss) /\ parts = FlattenSeq(pp)
    OBVIOUS
<1>16. FreezeDecodeReplay(replay) = parts \o query \o flat \o labels \o named
    BY <1>1, <1>4, <1>8, <1>11, <1>12, <1>14, <1>15, Zenon DEF FreezeDecodeReplay
<1>17. IsChecks(parts) /\ IsChecks(query) /\ IsChecks(flat)
    BY <1>7, <1>9, <1>10, <1>14, <1>15, Zenon
<1>18. /\ IsChecks(parts \o query \o flat \o labels \o named)
       /\ NoneHolds(parts \o query \o flat \o labels \o named) => NoneHolds(flat)
    BY <1>13, <1>17, NoneHoldsFive, Zenon
<1>19. NoneHolds(binding) /\ NoneHolds(FlattenSeq(ss))
    BY <1>2, <1>3, <1>15, <1>16, <1>18, NoneHoldsParts, Zenon
<1>20. ASSUME NEW s \in ToSet(snapshots)
       PROVE  s.result = <<s.result[1]>>
  <2>1. PICK i \in DOMAIN snapshots : s = snapshots[i]
    BY DEF ToSet
  <2>2. s.result # <<>>
    BY <2>1, <1>5, <1>6, <1>7, <1>19, Zenon
  <2>3. Optional(s.result)
    BY <1>1, Zenon DEF SnapshotsFormed
  <2>4. QED
    BY <2>2, <2>3, Zenon DEF Optional
<1>21. QED
    BY <1>1, <1>3, <1>19, <1>20, Zenon

\* A result has the status it was built with, unless the contract refuses it.
LEMMA FreezeResultStatus ==
    ASSUME NEW replay, NEW status, NEW results, NEW errors
    PROVE  /\ FreezeResult(replay, status, results, errors).status \in {status, "raised"}
           /\ FreezeResult(replay, status, results, errors).status # "raised" =>
                  FreezeResult(replay, status, results, errors).value =
                      {r.id : r \in ToSet(results)}
<1>1. PICK value : value = {r.id : r \in ToSet(results)}
    OBVIOUS
<1>2. PICK built : built =
          [status |-> status, results |-> results, errors |-> errors,
           evidence |-> FreezeEvidence(replay), sources |-> AllSources(replay.sources),
           raws |-> {}, value |-> value]
    OBVIOUS
<1>3. FreezeResult(replay, status, results, errors) = CheckedOrRaised(built)
    BY <1>1, <1>2, Zenon DEF FreezeResult
<1>4. built.status = status /\ built.value = value
    BY <1>2
<1>5. CheckedOrRaised(built).status # "raised" => CheckedOrRaised(built) = built
    BY CheckedBuilt, Zenon
<1>6. QED
    BY <1>1, <1>3, <1>4, <1>5

\* A result that is no failure reconciles, and names the confirmed transitions.
LEMMA FreezeComplete ==
    ASSUME NEW request, NEW replay,
           FreezeAnalyzeValidReplay(request, replay).status \in {"complete", "partial"}
    PROVE  /\ Reconciles(request, replay)
           /\ FreezeAnalyzeValidReplay(request, replay).value =
                  {r.id : r \in ToSet(FreezeResults(replay))}
<1>1. PICK errors, results, failure :
          /\ errors = FreezeErrors(replay)
          /\ results = FreezeResults(replay)
          /\ failure = <<Error("reconciliation_failed", "reconcile_freeze",
                               AllIds(FreezeEvidence(replay)))>>
    OBVIOUS
<1>2. PICK status : status = IF errors = <<>> THEN "complete" ELSE "partial"
    OBVIOUS
<1>3. FreezeAnalyzeValidReplay(request, replay) =
          IF ~Reconciles(request, replay) THEN FreezeResult(replay, "failed", <<>>, failure)
          ELSE FreezeResult(replay, status, results, errors)
    BY <1>1, <1>2 DEF FreezeAnalyzeValidReplay
<1>4. Reconciles(request, replay)
  <2>1. FreezeResult(replay, "failed", <<>>, failure).status \in {"failed", "raised"}
    BY FreezeResultStatus
  <2>2. QED
    BY <2>1, <1>3
<1>5. FreezeAnalyzeValidReplay(request, replay) = FreezeResult(replay, status, results, errors)
    BY <1>3, <1>4, Zenon
<1>6. FreezeResult(replay, status, results, errors).value = {r.id : r \in ToSet(results)}
    BY <1>5, FreezeResultStatus
<1>7. QED
    BY <1>1, <1>4, <1>5, <1>6, Zenon

\* The confirmed transitions are the ones with a part and both snapshots.
LEMMA FreezeConfirms ==
    ASSUME NEW replay, NEW ids, ids = {r.id : r \in ToSet(FreezeResults(replay))}
    PROVE  /\ "blacklist" \in ids => Confirmed(replay, 1)
           /\ "unBlacklist" \in ids => Confirmed(replay, 2)
<1>1. PICK one, two, scope :
          /\ one = Transition(1) /\ two = Transition(2)
          /\ scope = [id |-> "official_context_scope", refs |-> AllIds(FreezeEvidence(replay))]
    OBVIOUS
<1>2. one.id = "blacklist" /\ two.id = "unBlacklist" /\ scope.id = "official_context_scope"
    BY <1>1 DEF Transition, PartSelector
<1>3. PICK a, b : /\ a = IF Confirmed(replay, 1) THEN <<one>> ELSE <<>>
                  /\ b = IF Confirmed(replay, 2) THEN <<two>> ELSE <<>>
    OBVIOUS
<1>4. PICK S, T : /\ S = {x \in {one} : Confirmed(replay, 1)}
                  /\ T = {x \in {two} : Confirmed(replay, 2)}
    OBVIOUS
<1>5. a \in Seq(S) /\ b \in Seq(T)
  <2>1. a \in Seq(S)
    <3>1. CASE Confirmed(replay, 1)
      BY <3>1, <1>3, <1>4
    <3>2. CASE ~Confirmed(replay, 1)
      BY <3>2, <1>3
    <3>3. QED
      BY <3>1, <3>2
  <2>2. b \in Seq(T)
    <3>1. CASE Confirmed(replay, 2)
      BY <3>1, <1>3, <1>4
    <3>2. CASE ~Confirmed(replay, 2)
      BY <3>2, <1>3
    <3>3. QED
      BY <3>1, <3>2
  <2>3. QED
    BY <2>1, <2>2
<1>6. PICK U : U = S \cup T \cup {scope}
    OBVIOUS
<1>7. a \in Seq(U) /\ b \in Seq(U) /\ <<scope>> \in Seq(U)
    BY <1>5, <1>6
<1>8. a \o b \o <<scope>> \in Seq(U)
    BY <1>7
<1>9. FreezeResults(replay) \in Seq(U)
    BY <1>1, <1>3, <1>8, Zenon DEF FreezeResults
<1>10. ToSet(FreezeResults(replay)) \subseteq U
    BY <1>9 DEF ToSet
<1>11. \A x \in ids : \E r \in U : r.id = x
    BY <1>10
<1>12. QED
    BY <1>2, <1>4, <1>6, <1>11

\* What the snapshot of a label found, when the replay reconciles.
LEMMA FreezeState ==
    ASSUME NEW label, NEW snapshots, snapshots = ToSet(input.replay.query.snapshots),
           \E s \in snapshots : s.label = label,
           \A s \in snapshots : s.result = <<s.result[1]>>,
           StatesReconcile(input.request, input.replay)
    PROVE  StateAt(label) = <<label \in {"after_blacklist", "before_unblacklist"}>>
<1>1. PICK s : s = CHOOSE x \in snapshots : x.label = label
    OBVIOUS
<1>2. s \in snapshots /\ s.label = label
    BY <1>1, Zenon
<1>3. /\ s.block = input.request.blocks[label]
      /\ s.result[1] = (label \in {"after_blacklist", "before_unblacklist"})
    BY <1>2, Zenon DEF StatesReconcile
<1>4. s.result = <<label \in {"after_blacklist", "before_unblacklist"}>>
    BY <1>2, <1>3, Zenon
<1>5. StateAt(label) = s.result
    BY <1>1, <1>3, Zenon DEF StateAt
<1>6. QED
    BY <1>4, <1>5, Zenon

\* The explorer's call of a captured part is about the target.
LEMMA FreezeExplored ==
    ASSUME NEW replay, PartsReconcile(replay), ExplorerAgrees(replay),
           NEW i \in DOMAIN Parts(replay)
    PROVE  \E c \in ToSet(replay.explorer) :
               c.method = PartSelector[i] /\ c.call.args[1] = replay.target
<1>1. PICK cross : cross = ToSet(replay.explorer)
    OBVIOUS
<1>2. PICK tx, index : /\ tx = Parts(replay)[i].tx
                       /\ index = PartLogs(replay, i)[1].index
    OBVIOUS
<1>3. {c.method : c \in cross} = {PartSelector[k] : k \in DOMAIN Parts(replay)}
    BY <1>1, Zenon DEF ExplorerAgrees
<1>4. PICK c \in cross : c.method = PartSelector[i]
    BY <1>3
<1>5. c = [method |-> c.method, hash |-> tx.hash, from |-> tx.from, to |-> tx.to,
           call |-> tx.call, index |-> index]
    BY <1>1, <1>2, <1>4, Zenon DEF ExplorerAgrees
<1>6. c.call = tx.call
    BY <1>5
<1>7. tx.call.args[1] = replay.target
    BY <1>2, Zenon DEF PartsReconcile, CallEventIdentity
<1>8. QED
    BY <1>1, <1>4, <1>6, <1>7, Zenon

\* A confirmed transition changed the state of the target.
LEMMA FreezeBacked ==
    ASSUME Formed(input), input.kind = "freeze", result = Analyzed(input),
           result.status \in {"complete", "partial"}
    PROVE  /\ TransitionChanged("blacklist", "before_blacklist", "after_blacklist")
           /\ TransitionChanged("unBlacklist", "before_unblacklist", "after_unblacklist")
<1>1. PICK request, replay : request = input.request /\ replay = input.replay
    OBVIOUS
<1>2. result = AnalyzeFreezeReplay(request, replay)
    BY <1>1 DEF Analyzed
<1>3. /\ result = FreezeAnalyzeValidReplay(request, replay)
      /\ NoneHolds(FreezeBindingError(request, replay) \o FreezeDecodeReplay(replay))
  <2>1. AnalyzeFreezeReplay(request, replay).status \in {"complete", "partial"}
    BY <1>2
  <2>2. /\ AnalyzeFreezeReplay(request, replay) = FreezeAnalyzeValidReplay(request, replay)
        /\ NoneHolds(FreezeBindingError(request, replay) \o FreezeDecodeReplay(replay))
    BY <2>1, FreezeAccepted
  <2>3. QED
    BY <2>2, <1>2, Zenon
<1>4. SnapshotsFormed(replay.query.snapshots) /\ Optional(replay.unblacklist)
    BY <1>1 DEF Formed
<1>5. PICK snapshots : snapshots = ToSet(replay.query.snapshots)
    OBVIOUS
<1>6. /\ request.target = replay.target
      /\ \A s \in snapshots : s.result = <<s.result[1]>>
    BY <1>3, <1>4, <1>5, FreezeDecoded, Zenon
<1>7. /\ Reconciles(request, replay)
      /\ result.value = {r.id : r \in ToSet(FreezeResults(replay))}
  <2>1. FreezeAnalyzeValidReplay(request, replay).status \in {"complete", "partial"}
    BY <1>3
  <2>2. /\ Reconciles(request, replay)
        /\ FreezeAnalyzeValidReplay(request, replay).value =
               {r.id : r \in ToSet(FreezeResults(replay))}
    BY <2>1, FreezeComplete
  <2>3. QED
    BY <2>2, <1>3, Zenon
<1>8. /\ PartsReconcile(replay) /\ ExplorerAgrees(replay)
      /\ StatesReconcile(input.request, input.replay)
    BY <1>1, <1>7, Zenon DEF Reconciles
<1>9. ASSUME NEW label \in FreezeLabels(replay)
      PROVE  StateAt(label) = <<label \in {"after_blacklist", "before_unblacklist"}>>
  <2>1. \E s \in snapshots : s.label = label
    BY <1>5 DEF FreezeLabels
  <2>2. snapshots = ToSet(input.replay.query.snapshots)
    BY <1>1, <1>5, Zenon
  <2>3. QED
    BY <2>1, <2>2, <1>6, <1>8, FreezeState, Zenon
<1>10. TransitionChanged("blacklist", "before_blacklist", "after_blacklist")
  <2>1. SUFFICES ASSUME "blacklist" \in result.value
                 PROVE  /\ StateAt("before_blacklist") = <<"blacklist" = "unBlacklist">>
                        /\ StateAt("after_blacklist") = <<"blacklist" = "blacklist">>
                        /\ \E c \in ToSet(input.replay.explorer) :
                               /\ c.method = "blacklist"
                               /\ c.call.args[1] = input.request.target
    BY DEF TransitionChanged
  <2>2. Confirmed(replay, 1)
    BY <2>1, <1>7, FreezeConfirms, Zenon
  <2>3. /\ 1 \in DOMAIN Parts(replay)
        /\ "before_blacklist" \in FreezeLabels(replay)
        /\ "after_blacklist" \in FreezeLabels(replay)
    BY <2>2 DEF Confirmed
  <2>4. PICK no, yes :
            /\ no = ("before_blacklist" \in {"after_blacklist", "before_unblacklist"})
            /\ yes = ("after_blacklist" \in {"after_blacklist", "before_unblacklist"})
    OBVIOUS
  <2>5. StateAt("before_blacklist") = <<no>> /\ StateAt("after_blacklist") = <<yes>>
    BY <2>3, <2>4, <1>9, Zenon
  <2>6. no = ("blacklist" = "unBlacklist") /\ yes = ("blacklist" = "blacklist")
    BY <2>4
  <2>7. \E c \in ToSet(replay.explorer) :
            c.method = PartSelector[1] /\ c.call.args[1] = replay.target
    BY <2>3, <1>8, FreezeExplored, Zenon
  <2>8. PartSelector[1] = "blacklist"
    BY DEF PartSelector
  <2>9. QED
    BY <2>5, <2>6, <2>7, <2>8, <1>1, <1>6, Zenon
<1>11. TransitionChanged("unBlacklist", "before_unblacklist", "after_unblacklist")
  <2>1. SUFFICES ASSUME "unBlacklist" \in result.value
                 PROVE  /\ StateAt("before_unblacklist") = <<"unBlacklist" = "unBlacklist">>
                        /\ StateAt("after_unblacklist") = <<"unBlacklist" = "blacklist">>
                        /\ \E c \in ToSet(input.replay.explorer) :
                               /\ c.method = "unBlacklist"
                               /\ c.call.args[1] = input.request.target
    BY DEF TransitionChanged
  <2>2. Confirmed(replay, 2)
    BY <2>1, <1>7, FreezeConfirms, Zenon
  <2>3. /\ 2 \in DOMAIN Parts(replay)
        /\ "before_unblacklist" \in FreezeLabels(replay)
        /\ "after_unblacklist" \in FreezeLabels(replay)
    BY <2>2 DEF Confirmed
  <2>4. PICK no, yes :
            /\ no = ("after_unblacklist" \in {"after_blacklist", "before_unblacklist"})
            /\ yes = ("before_unblacklist" \in {"after_blacklist", "before_unblacklist"})
    OBVIOUS
  <2>5. StateAt("after_unblacklist") = <<no>> /\ StateAt("before_unblacklist") = <<yes>>
    BY <2>3, <2>4, <1>9, Zenon
  <2>6. no = ("unBlacklist" = "blacklist") /\ yes = ("unBlacklist" = "unBlacklist")
    BY <2>4
  <2>7. \E c \in ToSet(replay.explorer) :
            c.method = PartSelector[2] /\ c.call.args[1] = replay.target
    BY <2>3, <1>8, FreezeExplored, Zenon
  <2>8. PartSelector[2] = "unBlacklist"
    BY DEF PartSelector
  <2>9. QED
    BY <2>5, <2>6, <2>7, <2>8, <1>1, <1>6, Zenon
<1>12. QED
    BY <1>10, <1>11

-----------------------------------------------------------------------------
(* Packages: exceptions, pins and artifacts.                               *)

\* A condition that raises nothing does not hold.
LEMMA QuietCondition ==
    ASSUME NEW c
    PROVE  (Invalid(c) = Quiet => ~c) /\ (Incomplete(c) = Quiet => ~c)
BY DEF Invalid, Incomplete, Raise, Quiet

\* A complete result of a package analyzer: nothing refuses the request, nothing
\* was raised, and it is the result that was built.
LEMMA PackageCompleted ==
    ASSUME NEW binding, NEW raised, NEW inputs, NEW partial, NEW complete, NEW stage,
           NEW r, r = AnalyzePackage(binding, raised, inputs, partial, complete, stage),
           partial.status = "partial", r.status = "complete"
    PROVE  NoneHolds(binding) /\ raised = Quiet /\ NoneHolds(inputs) /\ r = complete
<1>1. r = AnalyzePackage(binding, raised, inputs, partial, complete, stage)
    OBVIOUS
<1>2. PICK refusal, last : refusal = FirstRefusal(binding) /\ last = FirstRefusal(inputs)
    OBVIOUS
<1>3. r = IF refusal # NoRefusal THEN Failed(refusal)
          ELSE IF raised = "incomplete" THEN CheckedOrRaised(partial)
          ELSE IF raised # Quiet THEN Failed(<<"reconciliation_failed", stage>>)
          ELSE IF last # NoRefusal THEN Failed(last)
          ELSE CheckedOrRaised(complete)
    BY <1>1, <1>2, Zenon DEF AnalyzePackage
<1>4. r.status = "complete"
    OBVIOUS
<1>5. \A x : Failed(x).status = "failed"
    BY RefusedStatus
<1>6. CheckedOrRaised(partial).status \in {"partial", "raised"}
    BY RefusedStatus DEF CheckedOrRaised
<1>7. /\ refusal = NoRefusal /\ raised = Quiet /\ last = NoRefusal
      /\ r = CheckedOrRaised(complete)
    BY <1>3, <1>4, <1>5, <1>6
<1>8. r = complete
    BY <1>4, <1>7, CheckedBuilt
<1>9. QED
    BY <1>1, <1>2, <1>7, <1>8, NotRefused, Zenon

\* Max finds the largest of some positions.
LEMMA MaxOf ==
    ASSUME NEW n \in Nat, NEW T \in SUBSET (1 .. n), T # {}
    PROVE  Max(T) \in T
<1>1. PICK U : U = {n - i : i \in T}
    OBVIOUS
<1>2. U \in SUBSET Nat /\ U # {}
  <2>1. ASSUME NEW i \in T
        PROVE  n - i \in Nat
    <3>1. i \in Int /\ 1 <= i /\ i <= n
      OBVIOUS
    <3>2. QED
      BY <3>1
  <2>2. QED
    BY <2>1, <1>1
<1>3. PICK u \in U : \A v \in U : u <= v
    BY <1>2, Smallest
<1>4. PICK i \in T : u = n - i
    BY <1>1
<1>5. ASSUME NEW k \in T
      PROVE  i >= k
  <2>1. n - k \in U
    BY <1>1
  <2>2. n - i <= n - k /\ i \in Int /\ k \in Int
    BY <2>1, <1>3, <1>4
  <2>3. QED
    BY <2>2
<1>6. \E x \in T : \A y \in T : x >= y
    BY <1>5
<1>7. QED
    BY <1>6 DEF Max

\* The pin found under an id is one of the pins, and has that id.
LEMMA PinFound ==
    ASSUME NEW pins, NEW id, IsList(pins.providers), IsPinned(pins, id)
    PROVE  ProviderPin(pins, id) \in ToSet(pins.providers) /\ ProviderPin(pins, id).id = id
<1>1. PICK list : list = pins.providers
    OBVIOUS
<1>2. PICK T : T = {i \in 1 .. Len(list) : list[i].id = id}
    OBVIOUS
<1>3. Len(list) \in Nat /\ DOMAIN list = 1 .. Len(list)
    BY <1>1 DEF IsList
<1>4. T # {}
  <2>1. PICK p \in ToSet(list) : p.id = id
    BY <1>1, Zenon DEF IsPinned
  <2>2. PICK i \in DOMAIN list : p = list[i]
    BY DEF ToSet
  <2>3. QED
    BY <2>1, <2>2, <1>2, <1>3
<1>5. SelectLastInSeq(list, LAMBDA p : p.id = id) = Max(T)
    BY <1>2, <1>4, Zenon DEF SelectLastInSeq
<1>6. Max(T) \in T
  <2>1. T \in SUBSET (1 .. Len(list))
    BY <1>2
  <2>2. QED
    BY <2>1, <1>3, <1>4, MaxOf
<1>7. ProviderPin(pins, id) = list[Max(T)]
    BY <1>1, <1>5, Zenon DEF ProviderPin
<1>8. Max(T) \in DOMAIN list /\ list[Max(T)].id = id
    BY <1>2, <1>3, <1>6
<1>9. list[Max(T)] \in ToSet(list)
    BY <1>8, Zenon DEF ToSet
<1>10. QED
    BY <1>1, <1>7, <1>8, <1>9, Zenon

\* An artifact that loads is the pinned one, and neither missing nor altered.
LEMMA ArtifactLoaded ==
    ASSUME NEW artifact, NEW pin, LoadPinnedArtifact(artifact, pin) = Quiet
    PROVE  artifact.uri = pin /\ artifact.file \notin {"missing", "altered"}
<1>1. PICK a, b, c, d : /\ a = Incomplete(artifact.uri = Missing)
                        /\ b = Invalid(artifact.uri # pin)
                        /\ c = Incomplete(artifact.file = "missing")
                        /\ d = Invalid(artifact.file = "altered")
    OBVIOUS
<1>2. a && b && c && d = Quiet
    BY <1>1, Zenon DEF LoadPinnedArtifact
<1>3. b = Quiet /\ c = Quiet /\ d = Quiet
    BY <1>2 DEF &&
<1>4. QED
    BY <1>1, <1>3 DEF Invalid, Incomplete, Raise, Quiet

\* The same of every artifact of an observation.
LEMMA ArtifactsLoaded ==
    ASSUME NEW artifacts, NEW pins, NEW capabilities, IsList(capabilities),
           LoadPinnedArtifacts(artifacts, pins, capabilities) = Quiet,
           NEW c \in ToSet(capabilities)
    PROVE  artifacts[c].uri = pins[c] /\ artifacts[c].file \notin {"missing", "altered"}
<1>1. PICK raising : raising =
          {i \in DOMAIN capabilities :
              LoadPinnedArtifact(artifacts[capabilities[i]], pins[capabilities[i]]) # Quiet}
    OBVIOUS
<1>2. LoadPinnedArtifacts(artifacts, pins, capabilities) =
          IF raising = {} THEN Quiet
          ELSE LoadPinnedArtifact(artifacts[capabilities[Min(raising)]],
                                  pins[capabilities[Min(raising)]])
    BY <1>1, Zenon DEF LoadPinnedArtifacts, FirstRaised
<1>3. raising = {}
  <2>1. SUFFICES ASSUME raising # {}
                 PROVE  FALSE
    OBVIOUS
  <2>2. raising \in SUBSET Nat
    BY <1>1 DEF IsList
  <2>3. Min(raising) \in raising
    BY <2>1, <2>2, MinOf
  <2>4. QED
    BY <2>1, <2>3, <1>1, <1>2
<1>4. PICK i \in DOMAIN capabilities : c = capabilities[i]
    BY DEF ToSet
<1>5. LoadPinnedArtifact(artifacts[c], pins[c]) = Quiet
    BY <1>1, <1>3, <1>4
<1>6. QED
    BY <1>5, ArtifactLoaded, Zenon

\* An observation whose artifacts load is authentic: each artifact it names is
\* there, unaltered, and the one its pin names.
LEMMA ObservationLoaded ==
    ASSUME NEW o, NEW sha, NEW capabilities, IsList(capabilities),
           ArtifactsFormed(o, capabilities),
           LoadPinnedArtifacts(o.artifacts, sha, capabilities) = Quiet,
           NEW c \in DOMAIN o.artifacts
    PROVE  o.artifacts[c].file = "ok" /\ o.artifacts[c].uri = sha[c]
<1>1. c \in ToSet(capabilities) /\ o.artifacts[c].file \in {"ok", "missing", "altered"}
    BY DEF ArtifactsFormed
<1>2. o.artifacts[c].uri = sha[c] /\ o.artifacts[c].file \notin {"missing", "altered"}
    BY <1>1, ArtifactsLoaded, Zenon
<1>3. QED
    BY <1>1, <1>2

\* The provider that is pinned under the observation's id made an observation whose
\* artifacts load.
LEMMA LoadedIsMade ==
    ASSUME NEW pins, NEW o, NEW capabilities, NEW sha, IsList(pins.providers),
           IsPinned(pins, o.provider), IsList(capabilities), ArtifactsFormed(o, capabilities),
           LoadPinnedArtifacts(o.artifacts, sha, capabilities) = Quiet,
           NEW p, p = ProviderPin(pins, o.provider)
    PROVE  p \in ToSet(pins.providers) /\ MadeBy(p, o, sha)
<1>1. p \in ToSet(pins.providers) /\ p.id = o.provider
    BY PinFound, Zenon
<1>2. \A c \in DOMAIN o.artifacts : o.artifacts[c].file = "ok" /\ o.artifacts[c].uri = sha[c]
    BY ObservationLoaded, Zenon
<1>3. QED
    BY <1>1, <1>2, Zenon DEF MadeBy

-----------------------------------------------------------------------------
(* Observations.                                                           *)

\* RpcCapabilities is a list.
LEMMA RpcList == IsList(RpcCapabilities)
BY DEF IsList, RpcCapabilities

\* Of observations that raise, one of the first item does.
LEMMA FirstItemRaises ==
    ASSUME NEW observations, IsList(observations),
           \A o \in ToSet(observations) : o.index \in Nat,
           NEW raising \in SUBSET DOMAIN observations, raising # {},
           NEW item, item = Min({observations[i].index : i \in raising})
    PROVE  Min({i \in raising : observations[i].index = item}) \in raising
<1>1. \A i \in raising : observations[i].index \in Nat
    BY DEF ToSet
<1>2. PICK items : items = {observations[i].index : i \in raising}
    OBVIOUS
<1>3. items \in SUBSET Nat /\ items # {}
    BY <1>1, <1>2
<1>4. Min(items) \in items
    BY <1>3, MinOf
<1>5. PICK first : first = {i \in raising : observations[i].index = Min(items)}
    OBVIOUS
<1>6. first \in SUBSET Nat /\ first # {}
  <2>1. first # {}
    BY <1>2, <1>4, <1>5
  <2>2. raising \in SUBSET Nat
    BY DEF IsList
  <2>3. QED
    BY <2>1, <2>2, <1>5
<1>7. Min(first) \in first
    BY <1>6, MinOf
<1>8. Min(first) \in raising
    BY <1>5, <1>7
<1>9. QED
    BY <1>2, <1>5, <1>8, Zenon

\* The observation of a role and an item is one of the observations.
LEMMA ObservationFound ==
    ASSUME NEW observations, NEW role, NEW i \in IndexedRoles(observations, role), NEW o,
           o = ObservationOf(observations, role, i)
    PROVE  o \in ToSet(observations) /\ o.role = role /\ o.index = i
<1>1. \E x \in ToSet(observations) : x.role = role /\ x.index = i
    BY DEF IndexedRoles
<1>2. QED
    BY <1>1, Zenon DEF ObservationOf

\* Two providers with two endpoints: one endpoint is one provider's.
LEMMA EndpointsTold ==
    ASSUME NEW pins, IsList(pins.providers), Len(pins.providers) = 2,
           Cardinality(Endpoints(pins)) = 2
    PROVE  EndpointsDiffer(pins)
<1>1. SUFFICES ASSUME NEW p \in ToSet(pins.providers), NEW q \in ToSet(pins.providers),
                      p.endpoint = q.endpoint, p # q
               PROVE  FALSE
    BY DEF EndpointsDiffer
<1>2. PICK list : list = pins.providers
    OBVIOUS
<1>3. DOMAIN list = 1 .. 2
    BY <1>2 DEF IsList
<1>4. PICK i \in 1 .. 2 : p = list[i]
    BY <1>2, <1>3 DEF ToSet
<1>5. PICK k \in 1 .. 2 : q = list[k]
    BY <1>2, <1>3 DEF ToSet
<1>6. \A j \in 1 .. 2 : j = i \/ j = k
  <2>1. i # k
    BY <1>1, <1>4, <1>5
  <2>2. QED
    BY <2>1
<1>7. \A x \in ToSet(list) : x.endpoint = p.endpoint
    BY <1>1, <1>3, <1>4, <1>5, <1>6 DEF ToSet
<1>8. Endpoints(pins) = {p.endpoint}
    BY <1>2, <1>7 DEF Endpoints
<1>9. Cardinality({p.endpoint}) = 1
    BY FS_Singleton
<1>10. QED
    BY <1>8, <1>9

-----------------------------------------------------------------------------
(* Transfers into an exchange's wallet.                                    *)

\* An observation that decodes is authentic and about its transfer.
LEMMA CexDecoded ==
    ASSUME NEW pins, NEW o, NEW replay, DecodeNativeTransfer(pins, o, replay) = Quiet,
           IsList(pins.providers), ArtifactsFormed(o, RpcCapabilities)
    PROVE  /\ AuthenticItem(o, pins)
           /\ NativeTransferBound(o, replay.transfers[o.index], replay)
<1>1. PICK p, transfer : p = ProviderPin(pins, o.provider) /\ transfer = replay.transfers[o.index]
    OBVIOUS
<1>2. PICK a, b, c, d :
          /\ a = Invalid(~RoleIsPinned(pins, o))
          /\ b = Incomplete(o.index \notin DOMAIN p.sha)
          /\ c = LoadPinnedArtifacts(o.artifacts, p.sha[o.index], RpcCapabilities)
          /\ d = Invalid(~NativeTransferBound(o, transfer, replay))
    OBVIOUS
<1>3. a && b && c && d = Quiet
    BY <1>1, <1>2, Zenon DEF DecodeNativeTransfer
<1>4. a = Quiet /\ c = Quiet /\ d = Quiet
    BY <1>3 DEF &&
<1>5. RoleIsPinned(pins, o) /\ NativeTransferBound(o, transfer, replay)
    BY <1>2, <1>4, QuietCondition, Zenon
<1>6. p \in ToSet(pins.providers) /\ MadeBy(p, o, p.sha[o.index])
  <2>1. PICK sha : sha = p.sha[o.index]
    OBVIOUS
  <2>2. LoadPinnedArtifacts(o.artifacts, sha, RpcCapabilities) = Quiet
    BY <2>1, <1>2, <1>4, Zenon
  <2>3. IsPinned(pins, o.provider)
    BY <1>5, Zenon DEF RoleIsPinned
  <2>4. QED
    BY <2>1, <2>2, <2>3, <1>1, RpcList, LoadedIsMade, Zenon
<1>7. QED
    BY <1>1, <1>5, <1>6, Zenon DEF AuthenticItem

\* What the reconstruction has established when nothing was raised.
LEMMA CexReconstructed ==
    ASSUME NEW package, NEW replay, ReconstructCexClusterFacts(package, replay) = Quiet,
           IsList(replay.observations), \A o \in ToSet(replay.observations) : o.index \in Nat
    PROVE  /\ Len(package.pins.providers) = 2
           /\ Cardinality(Endpoints(package.pins)) = 2
           /\ \A o \in ToSet(replay.observations) :
                  DecodeNativeTransfer(package.pins, o, replay) = Quiet
           /\ IndexedRoles(replay.observations, "VERIFY") = 1 .. Len(replay.transfers)
           /\ \A i \in 1 .. Len(replay.transfers) :
                  CexFact(replay, "PRIMARY", i) = CexFact(replay, "VERIFY", i)
<1>1. PICK n : n = Len(replay.transfers)
    OBVIOUS
<1>2. PICK a, b, c, d, e, f, g, h :
          /\ a = LoadUniqueProviderPins(package.pins)
          /\ b = CexValidateProviderDiversity(package.pins)
          /\ c = FirstRaisedByItem(LAMBDA o : DecodeNativeTransfer(package.pins, o, replay),
                                   replay.observations)
          /\ d = Incomplete(IndexedRoles(replay.observations, "VERIFY") # 1 .. n)
          /\ e = Invalid(\E i \in 1 .. n :
                             CexFact(replay, "PRIMARY", i) # CexFact(replay, "VERIFY", i))
          /\ f = Invalid(Cardinality(Sources(replay)) < 2)
          /\ g = Invalid(~(Sources(replay) \subseteq replay.deposits))
          /\ h = CexLoadLabelAssertions(package.label, Sources(replay))
    OBVIOUS
<1>3. a && b && c && d && e && f && g && h = Quiet
    BY <1>1, <1>2, Zenon DEF ReconstructCexClusterFacts
<1>4. b = Quiet /\ c = Quiet /\ d = Quiet /\ e = Quiet
    BY <1>3 DEF &&
<1>5. Len(package.pins.providers) = 2 /\ Cardinality(Endpoints(package.pins)) = 2
  <2>1. PICK x, y, z : /\ x = Incomplete(Len(package.pins.providers) # 2)
                       /\ y = Incomplete(Roles(package.pins) # {"PRIMARY", "VERIFY"})
                       /\ z = Invalid(Cardinality(Endpoints(package.pins)) # 2)
    OBVIOUS
  <2>2. x && y && z = Quiet
    BY <2>1, <1>2, <1>4, Zenon DEF CexValidateProviderDiversity
  <2>3. x = Quiet /\ z = Quiet
    BY <2>2 DEF &&
  <2>4. QED
    BY <2>1, <2>3, QuietCondition, Zenon
<1>6. ASSUME NEW o \in ToSet(replay.observations)
      PROVE  DecodeNativeTransfer(package.pins, o, replay) = Quiet
  <2>1. PICK raising : raising = {i \in DOMAIN replay.observations :
                            DecodeNativeTransfer(package.pins, replay.observations[i], replay) # Quiet}
    OBVIOUS
  <2>2. PICK item, first :
            /\ item = Min({replay.observations[i].index : i \in raising})
            /\ first = Min({i \in raising : replay.observations[i].index = item})
    OBVIOUS
  <2>3. c = IF raising = {} THEN Quiet
            ELSE DecodeNativeTransfer(package.pins, replay.observations[first], replay)
    <3>1. c = IF raising = {} THEN Quiet
              ELSE DecodeNativeTransfer(package.pins, replay.observations[
                       Min({i \in raising : replay.observations[i].index =
                                Min({replay.observations[k].index : k \in raising})})], replay)
      BY <2>1, <1>2, Zenon DEF FirstRaisedByItem
    <3>2. QED
      BY <3>1, <2>2
  <2>4. ASSUME raising # {}
        PROVE  first \in raising
    <3>1. raising \in SUBSET DOMAIN replay.observations
      BY <2>1
    <3>2. IsList(replay.observations) /\ \A x \in ToSet(replay.observations) : x.index \in Nat
      BY <1>1, Zenon
    <3>3. Min({i \in raising : replay.observations[i].index = item}) \in raising
      BY <3>1, <3>2, <2>2, <2>4, FirstItemRaises
    <3>4. QED
      BY <3>3, <2>2
  <2>5. raising = {}
    BY <2>1, <2>3, <2>4, <1>4
  <2>6. PICK i \in DOMAIN replay.observations : o = replay.observations[i]
    BY DEF ToSet
  <2>7. QED
    BY <2>1, <2>5, <2>6
<1>7. IndexedRoles(replay.observations, "VERIFY") = 1 .. n
    BY <1>2, <1>4, QuietCondition, Zenon
<1>8. \A i \in 1 .. n : CexFact(replay, "PRIMARY", i) = CexFact(replay, "VERIFY", i)
    BY <1>2, <1>4, QuietCondition, Zenon
<1>9. QED
    BY <1>1, <1>5, <1>6, <1>7, <1>8, Zenon

\* The replay of a package that is bound to its request has been parsed.
LEMMA PackageBound ==
    ASSUME NEW request, NEW replay, NEW parses, NEW required,
           NoneHolds(ReplayBindingError(request, replay, parses, required))
    PROVE  parses
<1>1. PICK a, b, c, list :
          /\ list = ReplayBindingError(request, replay, parses, required)
          /\ list = << <<~parses, "decode_failed", "decode_replay">>, a, b, c>>
    BY Zenon DEF ReplayBindingError
<1>2. PICK first : first = <<~parses, "decode_failed", "decode_replay">>
    OBVIOUS
<1>3. list = <<first, a, b, c>>
    BY <1>1, <1>2, Zenon
<1>4. 1 \in DOMAIN list /\ list[1] = first
    BY <1>3
<1>5. ~first[1]
    BY <1>1, <1>4, Zenon DEF NoneHolds
<1>6. QED
    BY <1>2, <1>5

\* The wallet that was asked for is the replay's.
LEMMA CexInputsBound ==
    ASSUME NEW request, NEW replay, NoneHolds(CexInputBindingError(request, replay))
    PROVE  request.hotWallet \in {Missing, replay.hotWallet}
<1>1. PICK a, b, c, list :
          /\ list = CexInputBindingError(request, replay)
          /\ list = <<a, b, c, <<Differs(request.hotWallet, replay.hotWallet),
                                 "reconciliation_failed", "hot_wallet_binding">> >>
    BY Zenon DEF CexInputBindingError
<1>2. PICK last : last = <<Differs(request.hotWallet, replay.hotWallet),
                           "reconciliation_failed", "hot_wallet_binding">>
    OBVIOUS
<1>3. list = <<a, b, c, last>>
    BY <1>1, <1>2, Zenon
<1>4. 4 \in DOMAIN list /\ list[4] = last
    BY <1>3
<1>5. ~last[1]
    BY <1>1, <1>4, Zenon DEF NoneHolds
<1>6. QED
    BY <1>2, <1>5 DEF Differs

\* What is established of a complete cluster.
LEMMA CexCompleted ==
    ASSUME NEW request, NEW package, NEW replay, IsList(replay.observations),
           \A o \in ToSet(replay.observations) : o.index \in Nat,
           NEW r, r = AnalyzeCexClusterReplay(request, package, replay), r.status = "complete"
    PROVE  /\ ReconstructCexClusterFacts(package, replay) = Quiet /\ r.value = CexFacts(replay)
           /\ ParseCexClusterReplay(replay)
           /\ request.hotWallet \in {Missing, replay.hotWallet}
<1>1. PICK binding, raised, inputs, value :
          /\ binding = ReplayBindingError(request, replay, ParseCexClusterReplay(replay),
                                          CexRequired)
          /\ raised = ReconstructCexClusterFacts(package, replay)
          /\ inputs = CexInputBindingError(request, replay) /\ value = CexFacts(replay)
    OBVIOUS
<1>2. PICK partial, complete :
          /\ r = AnalyzePackage(binding, raised, inputs, partial, complete, "cex_reconciliation")
          /\ partial.status = "partial" /\ complete.value = value
  <2>1. PICK partial : partial = PartialPackage("cex_cluster", CexPartialEvidence(replay),
                                     Len(replay.observations), "cex_transfer_availability")
    OBVIOUS
  <2>2. PICK complete : complete = PackageResult(value, CexCompleteEvidence(replay),
                                                 "complete", "", "", {})
    OBVIOUS
  <2>3. r = AnalyzePackage(binding, raised, inputs, partial, complete, "cex_reconciliation")
    BY <2>1, <2>2, <1>1, Zenon DEF AnalyzeCexClusterReplay
  <2>4. partial.status = "partial"
    BY <2>1 DEF PartialPackage, PackageResult
  <2>5. complete.value = value
    BY <2>2 DEF PackageResult
  <2>6. QED
    BY <2>3, <2>4, <2>5, Zenon
<1>3. NoneHolds(binding) /\ raised = Quiet /\ NoneHolds(inputs) /\ r.value = value
  <2>1. NoneHolds(binding) /\ raised = Quiet /\ NoneHolds(inputs) /\ r = complete
    BY <1>2, PackageCompleted
  <2>2. QED
    BY <2>1, <1>2
<1>4. ParseCexClusterReplay(replay)
    BY <1>1, <1>3, PackageBound
<1>5. request.hotWallet \in {Missing, replay.hotWallet}
    BY <1>1, <1>3, CexInputsBound
<1>6. QED
    BY <1>1, <1>3, <1>4, <1>5

\* Every transfer a complete cluster reports stands in two authentic answers.
LEMMA CexBacked ==
    ASSUME NEW request, NEW package, NEW replay, IsList(package.pins.providers),
           IsList(replay.observations), IsList(replay.transfers),
           \A o \in ToSet(replay.observations) :
               ArtifactsFormed(o, RpcCapabilities) /\ o.index \in Nat,
           NEW r, r = AnalyzeCexClusterReplay(request, package, replay), r.status = "complete"
    PROVE  /\ EndpointsDiffer(package.pins)
           /\ \A i \in DOMAIN r.value.transfers : \A role \in ProviderRoles :
                  \E o \in ToSet(replay.observations) :
                      /\ o.role = role /\ o.index = i /\ AuthenticItem(o, package.pins)
                      /\ ShowsTransfer(o, r.value.transfers[i], request.hotWallet)
<1>1. PICK raised : raised = ReconstructCexClusterFacts(package, replay)
    OBVIOUS
<1>2. /\ raised = Quiet /\ r.value = CexFacts(replay)
      /\ request.hotWallet \in {Missing, replay.hotWallet}
    BY <1>1, CexCompleted
<1>3. ParseCexClusterReplay(replay)
    BY CexCompleted
<1>6. PICK pins, n : pins = package.pins /\ n = Len(replay.transfers)
    OBVIOUS
<1>7. /\ Len(pins.providers) = 2
      /\ Cardinality(Endpoints(pins)) = 2
      /\ \A o \in ToSet(replay.observations) : DecodeNativeTransfer(pins, o, replay) = Quiet
      /\ IndexedRoles(replay.observations, "VERIFY") = 1 .. n
      /\ \A i \in 1 .. n : CexFact(replay, "PRIMARY", i) = CexFact(replay, "VERIFY", i)
    BY <1>1, <1>2, <1>6, CexReconstructed
<1>8. IndexedRoles(replay.observations, "PRIMARY") = 1 .. n
    BY <1>3, <1>6, Zenon DEF ParseCexClusterReplay, ObservationsMatch
<1>9. EndpointsDiffer(package.pins)
    BY <1>6, <1>7, EndpointsTold, Zenon
<1>10. PICK facts : facts = [i \in DOMAIN replay.transfers |-> CexFact(replay, "PRIMARY", i)]
    OBVIOUS
<1>11. r.value.transfers = facts /\ DOMAIN facts = 1 .. n
  <2>1. CexFacts(replay).transfers = facts
    BY <1>10 DEF CexFacts
  <2>2. QED
    BY <2>1, <1>2, <1>6, <1>10 DEF IsList
<1>12. ASSUME NEW i \in 1 .. n, NEW role \in ProviderRoles
       PROVE  \E o \in ToSet(replay.observations) :
                  /\ o.role = role /\ o.index = i /\ AuthenticItem(o, package.pins)
                  /\ ShowsTransfer(o, facts[i], request.hotWallet)
  <2>1. PICK o : o = ObservationOf(replay.observations, role, i)
    OBVIOUS
  <2>2. o \in ToSet(replay.observations) /\ o.role = role /\ o.index = i
    <3>1. i \in IndexedRoles(replay.observations, role)
      <4>1. role = "PRIMARY" \/ role = "VERIFY"
        BY DEF ProviderRoles
      <4>2. QED
        BY <4>1, <1>7, <1>8
    <3>2. QED
      BY <3>1, <2>1, ObservationFound
  <2>3. facts[i] = DecodedTransfer(o, replay)
    <3>1. facts[i] = CexFact(replay, role, i)
      <4>1. role = "PRIMARY" \/ role = "VERIFY"
        BY DEF ProviderRoles
      <4>2. facts[i] = CexFact(replay, "PRIMARY", i)
        BY <1>10, <1>11
      <4>3. QED
        BY <4>1, <4>2, <1>7
    <3>2. QED
      BY <3>1, <2>1, Zenon DEF CexFact
  <2>4. AuthenticItem(o, pins) /\ NativeTransferBound(o, replay.transfers[o.index], replay)
    <3>1. /\ DecodeNativeTransfer(pins, o, replay) = Quiet
          /\ IsList(pins.providers) /\ ArtifactsFormed(o, RpcCapabilities)
      BY <2>2, <1>6, <1>7
    <3>2. QED
      BY <3>1, CexDecoded, Zenon
  <2>5. PICK transfer : transfer = replay.transfers[i]
    OBVIOUS
  <2>6. /\ o.body.receipt.success /\ o.body.tx.hash = transfer.hash
        /\ o.body.tx.from = transfer.source /\ o.body.tx.to = replay.hotWallet
    BY <2>2, <2>4, <2>5, Zenon DEF NativeTransferBound, LegIsBound
  <2>7. /\ facts[i].hash = transfer.hash /\ facts[i].source = transfer.source
        /\ facts[i].amount = o.body.tx.value
    BY <2>2, <2>3, <2>5 DEF DecodedTransfer
  <2>8. ShowsTransfer(o, facts[i], request.hotWallet)
    BY <2>6, <2>7, <1>2 DEF ShowsTransfer
  <2>9. QED
    BY <2>2, <2>4, <2>8, <1>6, Zenon
<1>13. QED
    BY <1>9, <1>11, <1>12, Zenon

\* The same of an input and its result.
LEMMA CexHolds ==
    ASSUME NEW i, Formed(i), i.kind = "cex_cluster", NEW r, r = Analyzed(i),
           r.status = "complete"
    PROVE  CexWitnessed(i, r)
<1>1. PICK request, package, replay :
          request = i.request /\ package = i.package /\ replay = i.replay
    OBVIOUS
<1>2. r = AnalyzeCexClusterReplay(request, package, replay) /\ r.status = "complete"
    BY <1>1 DEF Analyzed
<1>3. /\ IsList(package.pins.providers)
      /\ IsList(replay.observations) /\ IsList(replay.transfers)
      /\ \A o \in ToSet(replay.observations) :
             ArtifactsFormed(o, RpcCapabilities) /\ o.index \in Nat
    BY <1>1 DEF Formed, PackageFormed, PackageKinds
<1>4. /\ EndpointsDiffer(package.pins)
      /\ \A k \in DOMAIN r.value.transfers : \A role \in ProviderRoles :
             \E o \in ToSet(replay.observations) :
                 /\ o.role = role /\ o.index = k /\ AuthenticItem(o, package.pins)
                 /\ ShowsTransfer(o, r.value.transfers[k], request.hotWallet)
    BY <1>2, <1>3, CexBacked
<1>5. QED
    BY <1>1, <1>4 DEF CexWitnessed

-----------------------------------------------------------------------------
(* Deposits into a mixer and withdrawals from it.                          *)

\* The pool log that was found is one of the receipt's, of the kind looked for.
LEMMA PoolLogFound ==
    ASSUME NEW o, NEW kind, NEW logs, logs = o.body.receipt.logs, IsList(logs),
           PoolLog(o, kind) # 0
    PROVE  logs[PoolLog(o, kind)] \in ToSet(logs) /\ logs[PoolLog(o, kind)].kind = kind
<1>1. PICK T : T = {i \in 1 .. Len(logs) : logs[i].kind = kind}
    OBVIOUS
<1>2. PoolLog(o, kind) = IF T # {} THEN Min(T) ELSE 0
    BY <1>1, Zenon DEF PoolLog, SelectInSeq
<1>3. T # {} /\ PoolLog(o, kind) = Min(T)
    BY <1>2
<1>4. T \in SUBSET Nat
    BY <1>1 DEF IsList
<1>5. Min(T) \in T
    BY <1>3, <1>4, MinOf
<1>6. PoolLog(o, kind) \in DOMAIN logs
    BY <1>1, <1>3, <1>5 DEF IsList
<1>7. logs[PoolLog(o, kind)].kind = kind
    BY <1>1, <1>3, <1>5
<1>8. QED
    BY <1>6, <1>7 DEF ToSet

\* An observation that decodes is authentic and about its event.
LEMMA MixerDecoded ==
    ASSUME NEW pins, NEW o, NEW replay, DecodeMixerEvent(pins, o, replay) = Quiet,
           IsList(pins.providers), ArtifactsFormed(o, RpcCapabilities)
    PROVE  AuthenticItem(o, pins) /\ EventBound(o, replay.events[o.index], replay)
<1>1. PICK p, event : p = ProviderPin(pins, o.provider) /\ event = replay.events[o.index]
    OBVIOUS
<1>2. PICK a, c, d :
          /\ a = Invalid(~RoleIsPinned(pins, o))
          /\ c = LoadPinnedArtifacts(o.artifacts, p.sha[o.index], RpcCapabilities)
          /\ d = Invalid(~EventBound(o, event, replay))
    OBVIOUS
<1>3. a && c && d = Quiet
    BY <1>1, <1>2, Zenon DEF DecodeMixerEvent
<1>4. a = Quiet /\ c = Quiet /\ d = Quiet
    BY <1>3 DEF &&
<1>5. RoleIsPinned(pins, o) /\ EventBound(o, event, replay)
    BY <1>2, <1>4, QuietCondition, Zenon
<1>6. p \in ToSet(pins.providers) /\ MadeBy(p, o, p.sha[o.index])
  <2>1. PICK sha : sha = p.sha[o.index]
    OBVIOUS
  <2>2. LoadPinnedArtifacts(o.artifacts, sha, RpcCapabilities) = Quiet
    BY <2>1, <1>2, <1>4, Zenon
  <2>3. IsPinned(pins, o.provider)
    BY <1>5, Zenon DEF RoleIsPinned
  <2>4. QED
    BY <2>1, <2>2, <2>3, <1>1, RpcList, LoadedIsMade, Zenon
<1>7. QED
    BY <1>1, <1>5, <1>6, Zenon DEF AuthenticItem

\* The two fixed providers of a mixer capture have two endpoints.
LEMMA FixedEndpoints ==
    ASSUME NEW pins, Roles(pins) = {"PRIMARY", "VERIFY"}, ProvidersAreFixed(pins)
    PROVE  EndpointsDiffer(pins)
<1>1. SUFFICES ASSUME NEW p \in ToSet(pins.providers), NEW q \in ToSet(pins.providers),
                      p.endpoint = q.endpoint
               PROVE  p.id = q.id
    BY DEF EndpointsDiffer
<1>2. p.role \in {"PRIMARY", "VERIFY"} /\ q.role \in {"PRIMARY", "VERIFY"}
    BY DEF Roles
<1>3. /\ p.id = RequiredProvider[p.role] /\ p.endpoint = RequiredEndpoint[p.role]
      /\ q.id = RequiredProvider[q.role] /\ q.endpoint = RequiredEndpoint[q.role]
    BY DEF ProvidersAreFixed
<1>4. RequiredEndpoint["PRIMARY"] # RequiredEndpoint["VERIFY"]
    BY DEF RequiredEndpoint
<1>5. p.role = q.role
    BY <1>1, <1>2, <1>3, <1>4
<1>6. QED
    BY <1>3, <1>5

\* What the reconstruction has established when nothing was raised.
LEMMA MixerReconstructed ==
    ASSUME NEW package, NEW replay, ReconstructMixerFlowFacts(package, replay) = Quiet,
           IsList(replay.observations), \A o \in ToSet(replay.observations) : o.index \in Nat
    PROVE  /\ EndpointsDiffer(package.pins)
           /\ \A o \in ToSet(replay.observations) :
                  DecodeMixerEvent(package.pins, o, replay) = Quiet
           /\ IndexedRoles(replay.observations, "VERIFY") = 1 .. Len(replay.events)
           /\ \A i \in 1 .. Len(replay.events) :
                  MixerFact(replay, "PRIMARY", i) = MixerFact(replay, "VERIFY", i)
           /\ Withdrawals(replay) # {}
<1>1. PICK n : n = Len(replay.events)
    OBVIOUS
<1>2. PICK a, b, c, d, e, f, g, h, l :
          /\ a = LoadUniqueProviderPins(package.pins)
          /\ b = MixerValidateProviderDiversity(package.pins)
          /\ c = RejectFutureCaptureTimestamps(replay, package.pins)
          /\ d = BindCaptureMeta(package, replay)
          /\ e = FirstRaisedByItem(LAMBDA o : DecodeMixerEvent(package.pins, o, replay),
                                   replay.observations)
          /\ f = Incomplete(IndexedRoles(replay.observations, "VERIFY") # 1 .. n)
          /\ g = Invalid(\E i \in 1 .. n :
                             MixerFact(replay, "PRIMARY", i) # MixerFact(replay, "VERIFY", i))
          /\ h = Incomplete(Withdrawals(replay) = {})
          /\ l = MixerLoadLabelAssertions(package.label, replay.pool)
    OBVIOUS
<1>3. a && b && c && d && e && f && g && h && l = Quiet
    BY <1>1, <1>2, Zenon DEF ReconstructMixerFlowFacts
<1>4. b = Quiet /\ e = Quiet /\ f = Quiet /\ g = Quiet /\ h = Quiet
    BY <1>3 DEF &&
<1>5. EndpointsDiffer(package.pins)
  <2>1. PICK w, x, y, z :
            /\ w = Incomplete(Len(package.pins.providers) # 2)
            /\ x = Incomplete(Roles(package.pins) # {"PRIMARY", "VERIFY"})
            /\ y = Invalid(~ProvidersAreFixed(package.pins))
            /\ z = FirstRaised(LAMBDA i : PinsDiffer(PinOfRole(package.pins, "PRIMARY").sha,
                                                     PinOfRole(package.pins, "VERIFY").sha, i),
                               PinOfRole(package.pins, "PRIMARY").order)
    OBVIOUS
  <2>2. w && x && y && z = Quiet
    BY <2>1, <1>2, <1>4, Zenon DEF MixerValidateProviderDiversity
  <2>3. x = Quiet /\ y = Quiet
    BY <2>2 DEF &&
  <2>4. Roles(package.pins) = {"PRIMARY", "VERIFY"} /\ ProvidersAreFixed(package.pins)
    BY <2>1, <2>3, QuietCondition, Zenon
  <2>5. QED
    BY <2>4, FixedEndpoints
<1>6. ASSUME NEW o \in ToSet(replay.observations)
      PROVE  DecodeMixerEvent(package.pins, o, replay) = Quiet
  <2>1. PICK raising : raising = {i \in DOMAIN replay.observations :
                            DecodeMixerEvent(package.pins, replay.observations[i], replay) # Quiet}
    OBVIOUS
  <2>2. PICK item, first :
            /\ item = Min({replay.observations[i].index : i \in raising})
            /\ first = Min({i \in raising : replay.observations[i].index = item})
    OBVIOUS
  <2>3. e = IF raising = {} THEN Quiet
            ELSE DecodeMixerEvent(package.pins, replay.observations[first], replay)
    <3>1. e = IF raising = {} THEN Quiet
              ELSE DecodeMixerEvent(package.pins, replay.observations[
                       Min({i \in raising : replay.observations[i].index =
                                Min({replay.observations[k].index : k \in raising})})], replay)
      BY <2>1, <1>2, Zenon DEF FirstRaisedByItem
    <3>2. QED
      BY <3>1, <2>2
  <2>4. ASSUME raising # {}
        PROVE  first \in raising
    <3>1. raising \in SUBSET DOMAIN replay.observations
      BY <2>1
    <3>2. IsList(replay.observations) /\ \A x \in ToSet(replay.observations) : x.index \in Nat
      BY <1>1, Zenon
    <3>3. Min({i \in raising : replay.observations[i].index = item}) \in raising
      BY <3>1, <3>2, <2>2, <2>4, FirstItemRaises
    <3>4. QED
      BY <3>3, <2>2
  <2>5. raising = {}
    BY <2>1, <2>3, <2>4, <1>4
  <2>6. PICK i \in DOMAIN replay.observations : o = replay.observations[i]
    BY DEF ToSet
  <2>7. QED
    BY <2>1, <2>5, <2>6
<1>7. IndexedRoles(replay.observations, "VERIFY") = 1 .. n
    BY <1>2, <1>4, QuietCondition, Zenon
<1>8. \A i \in 1 .. n : MixerFact(replay, "PRIMARY", i) = MixerFact(replay, "VERIFY", i)
    BY <1>2, <1>4, QuietCondition, Zenon
<1>9. Withdrawals(replay) # {}
    BY <1>2, <1>4, QuietCondition, Zenon
<1>10. QED
    BY <1>1, <1>5, <1>6, <1>7, <1>8, <1>9, Zenon

\* The deposit and every withdrawal of a complete report stand in two authentic
\* answers.
LEMMA MixerBacked ==
    ASSUME NEW request, NEW package, NEW replay, IsList(package.pins.providers),
           IsList(replay.observations), IsList(replay.events),
           \A o \in ToSet(replay.observations) :
               /\ ArtifactsFormed(o, RpcCapabilities) /\ o.index \in Nat
               /\ IsList(o.body.receipt.logs),
           NEW r, r = AnalyzeMixerFlowReplay(request, package, replay), r.status = "complete"
    PROVE  /\ EndpointsDiffer(package.pins)
           /\ \A i \in {1} \cup DOMAIN r.value.candidates : \A role \in ProviderRoles :
                  \E o \in ToSet(replay.observations) :
                      /\ o.role = role /\ o.index = i /\ AuthenticItem(o, package.pins)
                      /\ ShowsEvent(o, MixerFactAt(r.value, i))
<1>1. PICK binding, raised, inputs, value :
          /\ binding = ReplayBindingError(request, replay, ParseMixerFlowReplay(replay),
                                          MixerRequired)
          /\ raised = ReconstructMixerFlowFacts(package, replay)
          /\ inputs = MixerInputBindingError(request, replay) /\ value = MixerFacts(replay)
    OBVIOUS
<1>2. PICK partial, complete :
          /\ r = AnalyzePackage(binding, raised, inputs, partial, complete, "mixer_reconciliation")
          /\ partial.status = "partial" /\ complete.value = value
  <2>1. PICK partial : partial = PartialPackage("mixer_flow", MixerPartialEvidence(replay),
                                     Len(replay.observations), "mixer_event_availability")
    OBVIOUS
  <2>2. PICK complete : complete = PackageResult(value, MixerCompleteEvidence(replay),
                                                 "complete", "", "", {})
    OBVIOUS
  <2>3. r = AnalyzePackage(binding, raised, inputs, partial, complete, "mixer_reconciliation")
    BY <2>1, <2>2, <1>1, Zenon DEF AnalyzeMixerFlowReplay
  <2>4. partial.status = "partial"
    BY <2>1 DEF PartialPackage, PackageResult
  <2>5. complete.value = value
    BY <2>2 DEF PackageResult
  <2>6. QED
    BY <2>3, <2>4, <2>5, Zenon
<1>3. NoneHolds(binding) /\ raised = Quiet /\ NoneHolds(inputs) /\ r.value = value
  <2>1. NoneHolds(binding) /\ raised = Quiet /\ NoneHolds(inputs) /\ r = complete
    BY <1>2, PackageCompleted
  <2>2. QED
    BY <2>1, <1>2
<1>4. ParseMixerFlowReplay(replay)
    BY <1>1, <1>3, PackageBound
<1>5. PICK pins, n : pins = package.pins /\ n = Len(replay.events)
    OBVIOUS
<1>6. /\ EndpointsDiffer(pins)
      /\ \A o \in ToSet(replay.observations) : DecodeMixerEvent(pins, o, replay) = Quiet
      /\ IndexedRoles(replay.observations, "VERIFY") = 1 .. n
      /\ \A i \in 1 .. n : MixerFact(replay, "PRIMARY", i) = MixerFact(replay, "VERIFY", i)
      /\ Withdrawals(replay) # {}
    BY <1>1, <1>3, <1>5, MixerReconstructed
<1>7. IndexedRoles(replay.observations, "PRIMARY") = 1 .. n
    BY <1>4, <1>5, Zenon DEF ParseMixerFlowReplay, ObservationsMatch
<1>8. PICK facts : facts = [i \in DOMAIN replay.events |-> MixerFact(replay, "PRIMARY", i)]
    OBVIOUS
<1>9. ASSUME NEW i \in {1} \cup DOMAIN r.value.candidates
      PROVE  i \in 1 .. n /\ MixerFactAt(r.value, i) = facts[i]
  <2>1. PICK all : all = Withdrawals(replay)
    OBVIOUS
  <2>2. r.value.deposit = facts[1] /\ r.value.candidates = [k \in all |-> facts[k]]
    BY <2>1, <1>1, <1>3, <1>8 DEF MixerFacts
  <2>3. all \subseteq 1 .. n /\ all # {} /\ n \in Nat
    BY <2>1, <1>5, <1>6 DEF Withdrawals, IsList
  <2>4. 1 \in 1 .. n
    <3>1. PICK k : k \in 1 .. n
      BY <2>3
    <3>2. QED
      BY <3>1, <2>3
  <2>5. i \in 1 .. n /\ (i # 1 => i \in all)
    BY <2>2, <2>3, <2>4
  <2>6. QED
    BY <2>2, <2>5 DEF MixerFactAt
<1>10. ASSUME NEW i \in 1 .. n, NEW role \in ProviderRoles
       PROVE  \E o \in ToSet(replay.observations) :
                  /\ o.role = role /\ o.index = i /\ AuthenticItem(o, package.pins)
                  /\ ShowsEvent(o, facts[i])
  <2>1. PICK o : o = ObservationOf(replay.observations, role, i)
    OBVIOUS
  <2>2. o \in ToSet(replay.observations) /\ o.role = role /\ o.index = i
    <3>1. i \in IndexedRoles(replay.observations, role)
      BY <1>6, <1>7 DEF ProviderRoles
    <3>2. QED
      BY <3>1, <2>1, ObservationFound
  <2>3. facts[i] = DecodedEvent(o, replay)
    <3>1. facts[i] = MixerFact(replay, "PRIMARY", i)
      BY <1>5, <1>8 DEF IsList
    <3>2. facts[i] = MixerFact(replay, role, i)
      BY <3>1, <1>6 DEF ProviderRoles
    <3>3. QED
      BY <3>2, <2>1, Zenon DEF MixerFact
  <2>4. AuthenticItem(o, pins) /\ EventBound(o, replay.events[o.index], replay)
    <3>1. /\ DecodeMixerEvent(pins, o, replay) = Quiet
          /\ IsList(pins.providers) /\ ArtifactsFormed(o, RpcCapabilities)
      BY <2>2, <1>5, <1>6
    <3>2. QED
      BY <3>1, MixerDecoded, Zenon
  <2>5. PICK event, logs : event = replay.events[i] /\ logs = o.body.receipt.logs
    OBVIOUS
  <2>6. /\ o.body.receipt.success /\ o.body.tx.hash = event.hash
        /\ PoolLog(o, event.kind) # 0
    BY <2>2, <2>4, <2>5, Zenon DEF EventBound, LegIsBound
  <2>7. PICK log : log = logs[PoolLog(o, event.kind)]
    OBVIOUS
  <2>8. log \in ToSet(logs) /\ log.kind = event.kind
    BY <2>2, <2>5, <2>6, <2>7, PoolLogFound
  <2>9. ShowsEvent(o, facts[i])
    <3>1. /\ facts[i].kind = event.kind /\ facts[i].hash = event.hash
          /\ facts[i].log = Told(event.kind, log)
      BY <2>2, <2>3, <2>5, <2>7 DEF DecodedEvent
    <3>2. PICK told : told = facts[i].log
      OBVIOUS
    <3>3. told = IF event.kind = "deposit" THEN [leaf |-> log.note]
                 ELSE [who |-> log.who, nullifier |-> log.note, fee |-> log.fee]
      BY <3>1, <3>2, Zenon DEF Told
    <3>4. QED
      BY <2>5, <2>6, <2>8, <3>1, <3>2, <3>3 DEF ShowsEvent
  <2>10. QED
    BY <2>2, <2>4, <2>9, <1>5, Zenon
<1>11. ASSUME NEW i \in {1} \cup DOMAIN r.value.candidates, NEW role \in ProviderRoles
       PROVE  \E o \in ToSet(replay.observations) :
                  /\ o.role = role /\ o.index = i /\ AuthenticItem(o, package.pins)
                  /\ ShowsEvent(o, MixerFactAt(r.value, i))
  <2>1. i \in 1 .. n /\ MixerFactAt(r.value, i) = facts[i]
    BY <1>9
  <2>2. QED
    BY <2>1, <1>10
<1>12. QED
    BY <1>5, <1>6, <1>11

\* The same of an input and its result.
LEMMA MixerHolds ==
    ASSUME NEW i, Formed(i), i.kind = "mixer_flow", NEW r, r = Analyzed(i),
           r.status = "complete"
    PROVE  MixerWitnessed(i, r)
<1>1. PICK request, package, replay :
          request = i.request /\ package = i.package /\ replay = i.replay
    OBVIOUS
<1>2. r = AnalyzeMixerFlowReplay(request, package, replay) /\ r.status = "complete"
    BY <1>1 DEF Analyzed
<1>3. /\ IsList(package.pins.providers)
      /\ IsList(replay.observations) /\ IsList(replay.events)
      /\ \A o \in ToSet(replay.observations) :
             /\ ArtifactsFormed(o, RpcCapabilities) /\ o.index \in Nat
             /\ IsList(o.body.receipt.logs)
    BY <1>1 DEF Formed, PackageFormed, PackageKinds
<1>4. /\ EndpointsDiffer(package.pins)
      /\ \A k \in {1} \cup DOMAIN r.value.candidates : \A role \in ProviderRoles :
             \E o \in ToSet(replay.observations) :
                 /\ o.role = role /\ o.index = k /\ AuthenticItem(o, package.pins)
                 /\ ShowsEvent(o, MixerFactAt(r.value, k))
    BY <1>2, <1>3, MixerBacked
<1>5. QED
    BY <1>1, <1>4 DEF MixerWitnessed

-----------------------------------------------------------------------------
(* The two sides of a bridge transfer.                                     *)

\* Capabilities is a list.
LEMMA CapabilityList == IsList(Capabilities)
<1>1. PICK a, b, S : /\ a = RpcCapabilities /\ b = <<"bridge_logs">>
                     /\ S = {"transaction", "receipt", "block", "bridge_logs"}
    OBVIOUS
<1>2. a \in Seq(S) /\ b \in Seq(S)
    BY <1>1 DEF RpcCapabilities
<1>3. a \o b \in Seq(S)
    BY <1>2
<1>4. Capabilities = a \o b
    BY <1>1, Zenon DEF Capabilities
<1>5. QED
    BY <1>3, <1>4 DEF IsList

\* The receipt log that was found is one of the receipt's.
LEMMA ReceiptLogFound ==
    ASSUME NEW body, NEW logs, logs = body.receipt.logs, IsList(logs), ReceiptLog(body) # 0
    PROVE  logs[ReceiptLog(body)] \in ToSet(logs)
<1>1. PICK T : T = {i \in 1 .. Len(logs) : logs[i].index = body.logs[1].index}
    OBVIOUS
<1>2. ReceiptLog(body) = IF T # {} THEN Min(T) ELSE 0
    BY <1>1, Zenon DEF ReceiptLog, SelectInSeq
<1>3. T # {} /\ ReceiptLog(body) = Min(T)
    BY <1>2
<1>4. T \in SUBSET Nat
    BY <1>1 DEF IsList
<1>5. Min(T) \in T
    BY <1>3, <1>4, MinOf
<1>6. ReceiptLog(body) \in DOMAIN logs
    BY <1>1, <1>3, <1>5 DEF IsList
<1>7. QED
    BY <1>6 DEF ToSet

\* An observation of a chain that decodes is authentic, its transaction succeeded,
\* and the event read from it is a log of the receipt.
LEMMA ChainEventDecoded ==
    ASSUME NEW pins, NEW o, NEW chain, NEW topic0, NEW isDestination,
           DecodeChainEvent(pins, o, chain, topic0, isDestination) = Quiet,
           IsList(pins.providers), ArtifactsFormed(o, Capabilities),
           IsList(o.body.receipt.logs)
    PROVE  /\ Authentic(o, pins) /\ o.body.receipt.success
           /\ o.body.logs[1] \in ToSet(o.body.receipt.logs)
<1>1. PICK p, event : p = ProviderPin(pins, o.provider) /\ event = o.body.logs[1].event
    OBVIOUS
<1>2. PICK a, b, c, d, e, f, g, h :
          /\ a = Invalid(~IsPinned(pins, o.provider))
          /\ b = LoadPinnedArtifacts(o.artifacts, p.sha, Capabilities)
          /\ c = Invalid(~LegIsBound(o.body, chain.hash, chain.tag))
          /\ d = Incomplete(o.body.logs = <<>>)
          /\ e = Invalid(~EventIsBound(o.body, chain, topic0))
          /\ f = Invalid(event.data = "malformed")
          /\ g = Incomplete(event.data = "truncated")
          /\ h = Invalid(o.body.tx.to # Target(event, chain, isDestination))
    OBVIOUS
<1>3. a && b && c && d && e && f && g && h = Quiet
    BY <1>1, <1>2, Zenon DEF DecodeChainEvent
<1>4. a = Quiet /\ b = Quiet /\ c = Quiet /\ e = Quiet
    BY <1>3 DEF &&
<1>5. /\ IsPinned(pins, o.provider) /\ LegIsBound(o.body, chain.hash, chain.tag)
      /\ EventIsBound(o.body, chain, topic0)
    BY <1>2, <1>4, QuietCondition, Zenon
<1>6. p \in ToSet(pins.providers) /\ MadeBy(p, o, p.sha)
  <2>1. PICK sha : sha = p.sha
    OBVIOUS
  <2>2. LoadPinnedArtifacts(o.artifacts, sha, Capabilities) = Quiet
    BY <2>1, <1>2, <1>4, Zenon
  <2>3. QED
    BY <2>1, <2>2, <1>1, <1>5, CapabilityList, LoadedIsMade, Zenon
<1>7. Authentic(o, pins)
    BY <1>6, Zenon DEF Authentic
<1>8. o.body.receipt.success
    BY <1>5, Zenon DEF LegIsBound
<1>9. PICK body, logs : body = o.body /\ logs = body.receipt.logs
    OBVIOUS
<1>10. ReceiptLog(body) # 0 /\ logs[ReceiptLog(body)] = body.logs[1]
    BY <1>5, <1>9, Zenon DEF EventIsBound
<1>11. logs[ReceiptLog(body)] \in ToSet(logs)
    BY <1>9, <1>10, ReceiptLogFound
<1>12. QED
    BY <1>7, <1>8, <1>9, <1>10, <1>11

\* What the reconstruction has established when nothing was raised.
LEMMA BridgeReconstructed ==
    ASSUME NEW package, NEW replay, ReconstructBridgeTransferFacts(package, replay) = Quiet
    PROVE  /\ ObservedChains(replay) = {"base", "ethereum"}
           /\ DecodeChainEvent(package.pins, BridgeOnChain(replay, "base"), replay.base,
                               "V3FundsDeposited", FALSE) = Quiet
           /\ DecodeChainEvent(package.pins, BridgeOnChain(replay, "ethereum"),
                               replay.ethereum, "FilledV3Relay", TRUE) = Quiet
           /\ CommonParameters(SourceEvent(replay)) = CommonParameters(DestinationEvent(replay))
           /\ ~(SourceEvent(replay).inputAmount < DestinationEvent(replay).outputAmount)
<1>1. PICK a, b, c, d, e :
          /\ a = Incomplete(ObservedChains(replay) # {"base", "ethereum"})
          /\ b = LoadProviderPins(package.pins)
          /\ c = DecodeChainEvent(package.pins, BridgeOnChain(replay, "base"), replay.base,
                                  "V3FundsDeposited", FALSE)
          /\ d = DecodeChainEvent(package.pins, BridgeOnChain(replay, "ethereum"),
                                  replay.ethereum, "FilledV3Relay", TRUE)
          /\ e = MatchLegs(SourceEvent(replay), DestinationEvent(replay), replay)
    OBVIOUS
<1>2. a && b && c && d && e = Quiet
    BY <1>1, Zenon DEF ReconstructBridgeTransferFacts
<1>3. a = Quiet /\ c = Quiet /\ d = Quiet /\ e = Quiet
    BY <1>2 DEF &&
<1>4. ObservedChains(replay) = {"base", "ethereum"}
    BY <1>1, <1>3, QuietCondition, Zenon
<1>5. PICK source, destination :
          source = SourceEvent(replay) /\ destination = DestinationEvent(replay)
    OBVIOUS
<1>6. MatchLegs(source, destination, replay) = Quiet
    BY <1>1, <1>3, <1>5, Zenon
<1>7. /\ CommonParameters(source) = CommonParameters(destination)
      /\ ~(source.inputAmount < destination.outputAmount)
  <2>1. PICK t, u, v, w, x, default :
            /\ default = (source.outputToken = BridgeZeroAddress)
            /\ t = Invalid(source.otherChain # replay.ethereum.id)
            /\ u = Invalid(destination.otherChain # replay.base.id)
            /\ v = Incomplete(default /\ source.inputToken \notin DOMAIN DefaultOutputToken)
            /\ w = Invalid(destination.outputToken
                             # IF default THEN DefaultOutputToken[source.inputToken]
                               ELSE source.outputToken)
            /\ x = Invalid(source.inputAmount < destination.outputAmount)
    OBVIOUS
  <2>2. Invalid(CommonParameters(source) # CommonParameters(destination))
            && t && u && v && w && x = Quiet
    BY <2>1, <1>6, Zenon DEF MatchLegs
  <2>3. PICK s : s = Invalid(CommonParameters(source) # CommonParameters(destination))
    OBVIOUS
  <2>4. s && t && u && v && w && x = Quiet
    BY <2>2, <2>3, Zenon
  <2>5. s = Quiet /\ x = Quiet
    BY <2>4 DEF &&
  <2>6. QED
    BY <2>1, <2>3, <2>5, QuietCondition, Zenon
<1>8. QED
    BY <1>1, <1>3, <1>4, <1>5, <1>7, Zenon

\* The subject that was asked for is the depositor.
LEMMA BridgeInputsBound ==
    ASSUME NEW request, NEW replay, NoneHolds(BridgeInputBindingError(request, replay))
    PROVE  request.subject = SourceEvent(replay).depositor
<1>1. PICK third : third = <<request.subject # SourceEvent(replay).depositor,
                             "reconciliation_failed", "source_subject_binding">>
    OBVIOUS
<1>2. PICK a, b, d, e, f, list :
          /\ list = BridgeInputBindingError(request, replay)
          /\ list = <<a, b, third, d, e, f>>
    BY <1>1, Zenon DEF BridgeInputBindingError
<1>3. 3 \in DOMAIN list /\ list[3] = third
    BY <1>2
<1>4. ~third[1]
    BY <1>2, <1>3, Zenon DEF NoneHolds
<1>5. QED
    BY <1>1, <1>4

\* What is established of a complete transfer.
LEMMA BridgeCompleted ==
    ASSUME NEW request, NEW package, NEW replay,
           NEW r, r = AnalyzeBridgeTransferReplay(request, package, replay),
           r.status = "complete"
    PROVE  /\ ReconstructBridgeTransferFacts(package, replay) = Quiet
           /\ NoneHolds(BridgeInputBindingError(request, replay))
           /\ r.value = BridgeFacts(replay)
<1>1. PICK binding, raised, inputs, value :
          /\ binding = ReplayBindingError(request, replay, ParseBridgeTransferReplay(replay),
                                          BridgeRequired)
          /\ raised = ReconstructBridgeTransferFacts(package, replay)
          /\ inputs = BridgeInputBindingError(request, replay) /\ value = BridgeFacts(replay)
    OBVIOUS
<1>2. PICK partial, complete :
          /\ r = AnalyzePackage(binding, raised, inputs, partial, complete,
                                "bridge_reconciliation")
          /\ partial.status = "partial" /\ complete.value = value
  <2>1. PICK partial : partial = PartialPackage("bridge_transfer", BridgePartialEvidence(replay),
                                     ObservedChains(replay), "bridge_leg_availability")
    OBVIOUS
  <2>2. PICK raws : raws = {BridgeFacts(replay).sent, BridgeFacts(replay).received}
    OBVIOUS
  <2>3. PICK complete : complete = PackageResult(value, BridgeCompleteEvidence,
                                                 "complete", "", "", raws)
    OBVIOUS
  <2>4. r = AnalyzePackage(binding, raised, inputs, partial, complete, "bridge_reconciliation")
    BY <2>1, <2>2, <2>3, <1>1, Zenon DEF AnalyzeBridgeTransferReplay
  <2>5. partial.status = "partial"
    BY <2>1 DEF PartialPackage, PackageResult
  <2>6. complete.value = value
    BY <2>3 DEF PackageResult
  <2>7. QED
    BY <2>4, <2>5, <2>6, Zenon
<1>3. NoneHolds(binding) /\ raised = Quiet /\ NoneHolds(inputs) /\ r.value = value
  <2>1. NoneHolds(binding) /\ raised = Quiet /\ NoneHolds(inputs) /\ r = complete
    BY <1>2, PackageCompleted
  <2>2. QED
    BY <2>1, <1>2
<1>4. QED
    BY <1>1, <1>3

\* Each side of a complete report stands in an authentic answer of its chain.
LEMMA BridgeBacked ==
    ASSUME NEW request, NEW package, NEW replay, IsList(package.pins.providers),
           \A o \in ToSet(replay.observations) :
               ArtifactsFormed(o, Capabilities) /\ IsList(o.body.receipt.logs),
           NEW r, r = AnalyzeBridgeTransferReplay(request, package, replay),
           r.status = "complete"
    PROVE  \A chain \in {"base", "ethereum"} : \E o \in ToSet(replay.observations) :
               /\ o.chain = chain /\ o.body.receipt.success /\ Authentic(o, package.pins)
               /\ \E log \in ToSet(o.body.receipt.logs) :
                      Announces(log.event, r.value, request.subject)
<1>1. PICK value : value = BridgeFacts(replay)
    OBVIOUS
<1>2. /\ ReconstructBridgeTransferFacts(package, replay) = Quiet
      /\ NoneHolds(BridgeInputBindingError(request, replay))
    BY BridgeCompleted
<1>3. r.value = value
    BY <1>1, BridgeCompleted
<1>4. /\ ObservedChains(replay) = {"base", "ethereum"}
      /\ DecodeChainEvent(package.pins, BridgeOnChain(replay, "base"), replay.base,
                          "V3FundsDeposited", FALSE) = Quiet
      /\ DecodeChainEvent(package.pins, BridgeOnChain(replay, "ethereum"),
                          replay.ethereum, "FilledV3Relay", TRUE) = Quiet
      /\ CommonParameters(SourceEvent(replay)) = CommonParameters(DestinationEvent(replay))
    BY <1>2, BridgeReconstructed
<1>5. PICK source, destination :
          source = SourceEvent(replay) /\ destination = DestinationEvent(replay)
    OBVIOUS
<1>6. request.subject = source.depositor
    BY <1>2, <1>5, BridgeInputsBound
<1>7. /\ value.deposit = source.deposit /\ value.sent = source.inputAmount
      /\ value.received = destination.outputAmount
    BY <1>1, <1>5 DEF BridgeFacts
<1>8. /\ source.deposit = destination.deposit /\ source.depositor = destination.depositor
      /\ source.inputAmount = destination.inputAmount
      /\ source.outputAmount = destination.outputAmount
    BY <1>4, <1>5 DEF CommonParameters
<1>9. /\ Announces(source, r.value, request.subject)
      /\ Announces(destination, r.value, request.subject)
    BY <1>3, <1>6, <1>7, <1>8 DEF Announces
<1>10. ASSUME NEW chain \in {"base", "ethereum"}, NEW side, NEW topic0, NEW far, NEW event,
              DecodeChainEvent(package.pins, BridgeOnChain(replay, chain), side, topic0, far)
                = Quiet,
              event = BridgeOnChain(replay, chain).body.logs[1].event,
              Announces(event, r.value, request.subject)
       PROVE  \E o \in ToSet(replay.observations) :
                  /\ o.chain = chain /\ o.body.receipt.success /\ Authentic(o, package.pins)
                  /\ \E log \in ToSet(o.body.receipt.logs) :
                         Announces(log.event, r.value, request.subject)
  <2>1. PICK o : o = BridgeOnChain(replay, chain)
    OBVIOUS
  <2>2. o \in ToSet(replay.observations) /\ o.chain = chain
    <3>1. \E x \in ToSet(replay.observations) : x.chain = chain
      BY <1>4 DEF ObservedChains
    <3>2. QED
      BY <2>1, <3>1, Zenon DEF BridgeOnChain
  <2>3. /\ DecodeChainEvent(package.pins, o, side, topic0, far) = Quiet
        /\ IsList(package.pins.providers) /\ ArtifactsFormed(o, Capabilities)
        /\ IsList(o.body.receipt.logs)
    BY <1>10, <2>1, <2>2
  <2>4. /\ Authentic(o, package.pins) /\ o.body.receipt.success
        /\ o.body.logs[1] \in ToSet(o.body.receipt.logs)
    BY <2>3, ChainEventDecoded, Zenon
  <2>5. Announces(o.body.logs[1].event, r.value, request.subject)
    BY <1>10, <2>1
  <2>6. QED
    BY <2>2, <2>4, <2>5, Zenon
<1>11. \E o \in ToSet(replay.observations) :
           /\ o.chain = "base" /\ o.body.receipt.success /\ Authentic(o, package.pins)
           /\ \E log \in ToSet(o.body.receipt.logs) :
                  Announces(log.event, r.value, request.subject)
    BY <1>4, <1>5, <1>9, <1>10 DEF SourceEvent
<1>12. \E o \in ToSet(replay.observations) :
           /\ o.chain = "ethereum" /\ o.body.receipt.success /\ Authentic(o, package.pins)
           /\ \E log \in ToSet(o.body.receipt.logs) :
                  Announces(log.event, r.value, request.subject)
    BY <1>4, <1>5, <1>9, <1>10 DEF DestinationEvent
<1>13. QED
    BY <1>11, <1>12

\* The same of an input and its result.
LEMMA BridgeHolds ==
    ASSUME NEW i, Formed(i), i.kind = "bridge_transfer", NEW r, r = Analyzed(i),
           r.status = "complete"
    PROVE  BridgeWitnessed(i, r)
<1>1. PICK request, package, replay :
          request = i.request /\ package = i.package /\ replay = i.replay
    OBVIOUS
<1>2. r = AnalyzeBridgeTransferReplay(request, package, replay) /\ r.status = "complete"
    BY <1>1 DEF Analyzed
<1>3. /\ IsList(package.pins.providers)
      /\ \A o \in ToSet(replay.observations) :
             ArtifactsFormed(o, Capabilities) /\ IsList(o.body.receipt.logs)
    BY <1>1 DEF Formed, PackageFormed, PackageKinds
<1>4. \A chain \in {"base", "ethereum"} : \E o \in ToSet(replay.observations) :
          /\ o.chain = chain /\ o.body.receipt.success /\ Authentic(o, package.pins)
          /\ \E log \in ToSet(o.body.receipt.logs) :
                 Announces(log.event, r.value, request.subject)
    BY <1>2, <1>3, BridgeBacked
<1>5. QED
    BY <1>1, <1>4 DEF BridgeWitnessed

-----------------------------------------------------------------------------
(* A liquidation.                                                          *)

\* Of the amounts a and the indices x of the logs T, none exceeds those of i.
IsLargest(a, x, T, i) == \A k \in T : a[k] < a[i] \/ (a[k] = a[i] /\ x[k] <= x[i])

\* Some logs have a largest one.
LEMMA LargestExists ==
    ASSUME NEW n \in Nat, NEW T \in SUBSET (1 .. n), T # {}, NEW a, NEW x,
           \A i \in T : a[i] \in Nat /\ x[i] \in Nat
    PROVE  \E i \in T : IsLargest(a, x, T, i)
<1> DEFINE upto(m) == {i \in T : i <= m}
           top(S, i) == \A k \in S : a[k] < a[i] \/ (a[k] = a[i] /\ x[k] <= x[i])
           bad == {m \in Nat : upto(m) # {} /\ ~\E i \in upto(m) : top(upto(m), i)}
<1>1. bad = {}
  <2>1. SUFFICES ASSUME bad # {}
                 PROVE  FALSE
    OBVIOUS
  <2>2. PICK m \in bad : \A k \in bad : m <= k
    BY <2>1, Smallest
  <2>3. m \in Nat /\ upto(m) # {} /\ ~\E i \in upto(m) : top(upto(m), i)
    OBVIOUS
  <2>4. m - 1 \in Nat /\ m - 1 \notin bad
    <3>1. PICK i \in T : i <= m
      BY <2>3
    <3>2. i \in Int /\ 1 <= i
      OBVIOUS
    <3>3. m - 1 \in Nat /\ ~(m <= m - 1)
      BY <2>3, <3>1, <3>2
    <3>4. QED
      BY <2>2, <3>3
  <2>5. \A i \in T : i <= m <=> i = m \/ i <= m - 1
    BY <2>3
  <2>6. CASE upto(m - 1) = {}
    <3>1. \A i \in upto(m) : i = m
      BY <2>5, <2>6
    <3>2. m \in upto(m)
      <4>1. PICK i : i \in upto(m)
        BY <2>3
      <4>2. QED
        BY <4>1, <3>1
    <3>3. m \in T /\ x[m] <= x[m]
      BY <3>2
    <3>4. top(upto(m), m)
      BY <3>1, <3>3
    <3>5. QED
      BY <3>2, <3>4, <2>3
  <2>7. CASE upto(m - 1) # {}
    <3>1. PICK i \in upto(m - 1) : top(upto(m - 1), i)
      BY <2>4, <2>7
    <3>2. i \in T /\ i \in upto(m)
      BY <2>5
    <3>3. CASE m \notin T
      <4>1. upto(m) = upto(m - 1)
        BY <3>3, <2>5
      <4>2. QED
        BY <4>1, <3>1, <2>3
    <3>4. CASE m \in T
      <4>1. m \in upto(m) /\ \A k \in upto(m) : k = m \/ k \in upto(m - 1)
        BY <3>4, <2>3, <2>5
      <4>2. a[m] \in Nat /\ x[m] \in Nat /\ a[i] \in Nat /\ x[i] \in Nat
        BY <3>2, <3>4
      <4>3. CASE a[m] < a[i] \/ (a[m] = a[i] /\ x[m] <= x[i])
        <5>1. top(upto(m), i)
          BY <4>1, <4>3, <3>1
        <5>2. QED
          BY <5>1, <3>2, <2>3
      <4>4. CASE ~(a[m] < a[i] \/ (a[m] = a[i] /\ x[m] <= x[i]))
        <5>1. a[i] < a[m] \/ (a[i] = a[m] /\ x[i] <= x[m])
          BY <4>2, <4>4
        <5>2. ASSUME NEW k \in upto(m)
              PROVE  a[k] < a[m] \/ (a[k] = a[m] /\ x[k] <= x[m])
          <6>1. CASE k = m
            BY <6>1, <4>2
          <6>2. CASE k # m
            <7>1. a[k] < a[i] \/ (a[k] = a[i] /\ x[k] <= x[i])
              BY <6>2, <4>1, <3>1
            <7>2. k \in T /\ a[k] \in Nat /\ x[k] \in Nat
              OBVIOUS
            <7>3. QED
              BY <7>1, <7>2, <5>1, <4>2
          <6>3. QED
            BY <6>1, <6>2
        <5>3. QED
          BY <5>2, <4>1, <2>3
      <4>5. QED
        BY <4>3, <4>4
    <3>5. QED
      BY <3>3, <3>4
  <2>8. QED
    BY <2>6, <2>7
<1>2. upto(n) = T
  <2>1. \A i \in T : i <= n
    OBVIOUS
  <2>2. QED
    BY <2>1
<1>3. n \notin bad /\ upto(n) # {}
    BY <1>1, <1>2
<1>4. \E i \in upto(n) : top(upto(n), i)
    BY <1>3
<1>5. QED
    BY <1>2, <1>4 DEF IsLargest

\* The first preferred position, or else the first, is one of the positions.
LEMMA FirstPreferred ==
    ASSUME NEW logs, IsList(logs), NEW D \in SUBSET DOMAIN logs, D # {}, NEW P \in SUBSET D,
           NEW S, S = IF P # {} THEN P ELSE D
    PROVE  Min(S) \in D
<1>1. S \in SUBSET Nat /\ S # {} /\ S \subseteq D
    BY DEF IsList
<1>2. Min(S) \in S
    BY <1>1, MinOf
<1>3. QED
    BY <1>1, <1>2

\* The Transfer that pays the debt is a log of the receipt and comes from the subject.
LEMMA DebtLegFound ==
    ASSUME NEW o, NEW replay, IsList(Logs(o)), DebtCandidates(o, replay) # {}
    PROVE  /\ DebtLeg(o, replay) \in ToSet(Logs(o))
           /\ DebtLeg(o, replay).from = replay.subject
<1>1. PICK logs, D : logs = Logs(o) /\ D = DebtCandidates(o, replay)
    OBVIOUS
<1>2. D \in SUBSET DOMAIN logs /\ \A i \in D : logs[i].from = replay.subject
    BY <1>1 DEF DebtCandidates, Transfers
<1>3. PICK P : P = {i \in D : logs[i].to = PreferredTo}
    OBVIOUS
<1>4. PICK S : S = IF P # {} THEN P ELSE D
    OBVIOUS
<1>5. DebtLeg(o, replay) = logs[Min(S)]
    BY <1>1, <1>3, <1>4, Zenon DEF DebtLeg, Preferring
<1>6. Min(S) \in D
    BY <1>1, <1>2, <1>3, <1>4, FirstPreferred
<1>7. QED
    BY <1>1, <1>2, <1>5, <1>6 DEF ToSet

\* The Transfer that hands over the collateral is a log of the receipt and goes to
\* the subject.
LEMMA CollateralLegFound ==
    ASSUME NEW o, NEW replay, IsList(Logs(o)), CollateralCandidates(o, replay) # {}
    PROVE  /\ CollateralLeg(o, replay) \in ToSet(Logs(o))
           /\ CollateralLeg(o, replay).to = replay.subject
<1>1. PICK logs, D : logs = Logs(o) /\ D = CollateralCandidates(o, replay)
    OBVIOUS
<1>2. D \in SUBSET DOMAIN logs /\ \A i \in D : logs[i].to = replay.subject
    BY <1>1 DEF CollateralCandidates, Transfers
<1>3. PICK P : P = {i \in D : logs[i].from = PreferredFrom}
    OBVIOUS
<1>4. PICK S : S = IF P # {} THEN P ELSE D
    OBVIOUS
<1>5. CollateralLeg(o, replay) = logs[Min(S)]
    BY <1>1, <1>3, <1>4, Zenon DEF CollateralLeg, Preferring
<1>6. Min(S) \in D
    BY <1>1, <1>2, <1>3, <1>4, FirstPreferred
<1>7. QED
    BY <1>1, <1>2, <1>5, <1>6 DEF ToSet

\* The outflow is a log of the receipt, comes from the subject and follows the
\* collateral.
LEMMA OutflowFound ==
    ASSUME NEW o, NEW replay, LogsFormed(Logs(o)), OutflowCandidates(o, replay) # {}
    PROVE  /\ SubsequentOutflow(o, replay) \in ToSet(Logs(o))
           /\ SubsequentOutflow(o, replay).from = replay.subject
           /\ SubsequentOutflow(o, replay).index > CollateralLeg(o, replay).index
<1>1. PICK logs, all, floor : /\ logs = Logs(o) /\ all = OutflowCandidates(o, replay)
                              /\ floor = CollateralLeg(o, replay).index
    OBVIOUS
<1>2. PICK T : T = {i \in DOMAIN logs : logs[i].kind = "transfer" /\ logs[i] \in all}
    OBVIOUS
<1>3. all = {logs[i] : i \in T}
    BY <1>1, <1>2 DEF OutflowCandidates, Transfers
<1>4. \A t \in all : t \in ToSet(logs) /\ t.from = replay.subject /\ t.index > floor
    BY <1>1 DEF OutflowCandidates, Transfers, ToSet
<1>5. PICK n, a, x : n = Len(logs) /\ a = [i \in T |-> logs[i].amount] /\ x = [i \in T |-> logs[i].index]
    OBVIOUS
<1>6. n \in Nat /\ T \in SUBSET (1 .. n) /\ T # {}
    BY <1>1, <1>2, <1>3, <1>5 DEF LogsFormed, IsList
<1>7. \A i \in T : a[i] \in Nat /\ x[i] \in Nat
    BY <1>1, <1>2, <1>5 DEF LogsFormed, ToSet
<1>8. PICK i \in T : IsLargest(a, x, T, i)
    BY <1>6, <1>7, LargestExists
<1>9. PICK t : t = logs[i]
    OBVIOUS
<1>10. t \in all /\ \A u \in all : u.amount < t.amount \/ (u.amount = t.amount /\ u.index <= t.index)
    BY <1>3, <1>5, <1>8, <1>9 DEF IsLargest
<1>11. SubsequentOutflow(o, replay) =
           CHOOSE s \in all : \A u \in all :
               u.amount < s.amount \/ (u.amount = s.amount /\ u.index <= s.index)
    BY <1>1, Zenon DEF SubsequentOutflow
<1>12. SubsequentOutflow(o, replay) \in all
    BY <1>10, <1>11, Zenon
<1>13. QED
    BY <1>1, <1>4, <1>12

\* An observation that decodes is authentic and about the liquidation, and so is
\* everything that is read from it.
LEMMA LendingDecoded ==
    ASSUME NEW pins, NEW o, NEW replay, DecodeLendingObservation(pins, o, replay) = Quiet,
           IsList(pins.providers), ArtifactsFormed(o, RpcCapabilities), LogsFormed(Logs(o)),
           NEW v, v = LendingFacts(o, replay)
    PROVE  /\ Authentic(o, pins) /\ ShowsLiquidation(o, v, replay.hash)
           /\ v.debt.from = replay.subject /\ v.collateral.to = replay.subject
           /\ v.outflow.from = replay.subject /\ v.outflow.index > v.collateral.index
<1>1. PICK p, found : p = ProviderPin(pins, o.provider) /\ found = Liquidations(o, replay)
    OBVIOUS
<1>2. PICK a, b, c, d :
          /\ a = Invalid(~RoleIsPinned(pins, o))
          /\ b = LoadPinnedArtifacts(o.artifacts, p.sha, RpcCapabilities)
          /\ c = Invalid(~TransactionIsBound(o, replay))
          /\ d = Invalid(Cardinality(found) # 1 \/ \E i \in found : ~Logs(o)[i].bound)
    OBVIOUS
<1>2a. PICK e, f, m, g :
          /\ e = Invalid(~Liquidation(o, replay).valid)
          /\ f = Incomplete(Liquidation(o, replay).aToken)
          /\ m = Invalid(~Liquidation(o, replay).padded)
          /\ g = Invalid(\E i \in Transfers(o) : ~Logs(o)[i].bound \/ ~Logs(o)[i].valid)
    OBVIOUS
<1>3. PICK h, j, k, l :
          /\ h = Incomplete(DebtCandidates(o, replay) = {})
          /\ j = Incomplete(CollateralCandidates(o, replay) = {})
          /\ k = Incomplete(OutflowCandidates(o, replay) = {})
          /\ l = Invalid(ObservedRoles(o, replay) # replay.roles)
    OBVIOUS
<1>4. a && b && c && d && e && f && m && g && h && j && k && l = Quiet
    BY <1>1, <1>2, <1>2a, <1>3, ZenonT(90) DEF DecodeLendingObservation
<1>5. /\ a = Quiet /\ b = Quiet /\ c = Quiet /\ d = Quiet
      /\ h = Quiet /\ j = Quiet /\ k = Quiet
    BY <1>4 DEF &&
<1>6. RoleIsPinned(pins, o) /\ TransactionIsBound(o, replay)
    BY <1>2, <1>3, <1>5, QuietCondition, Zenon
<1>7. Cardinality(found) = 1
    BY <1>2, <1>3, <1>5, QuietCondition, Zenon
<1>8. DebtCandidates(o, replay) # {} /\ CollateralCandidates(o, replay) # {}
    BY <1>2, <1>3, <1>5, QuietCondition, Zenon
<1>9. OutflowCandidates(o, replay) # {}
    BY <1>2, <1>3, <1>5, QuietCondition, Zenon
<1>10. Authentic(o, pins)
  <2>1. PICK sha : sha = p.sha
    OBVIOUS
  <2>2. LoadPinnedArtifacts(o.artifacts, sha, RpcCapabilities) = Quiet
    BY <2>1, <1>2, <1>5, Zenon
  <2>3. IsPinned(pins, o.provider)
    BY <1>6, Zenon DEF RoleIsPinned
  <2>4. p \in ToSet(pins.providers) /\ MadeBy(p, o, p.sha)
    BY <2>1, <2>2, <2>3, <1>1, RpcList, LoadedIsMade, Zenon
  <2>5. QED
    BY <2>4, Zenon DEF Authentic
<1>11. o.body.receipt.success /\ o.body.tx.hash = replay.hash
    BY <1>6, Zenon DEF TransactionIsBound, LegIsBound
<1>12. IsList(Logs(o))
    BY DEF LogsFormed
<1>13. Liquidation(o, replay) \in ToSet(Logs(o)) /\ Liquidation(o, replay).tx = replay.hash
  <2>1. found # {}
    BY <1>7, FS_EmptySet
  <2>2. found \in SUBSET Nat /\ found \subseteq DOMAIN Logs(o)
    BY <1>1, <1>12 DEF Liquidations, IsList
  <2>3. Min(found) \in found
    BY <2>1, <2>2, MinOf
  <2>4. Liquidation(o, replay) = Logs(o)[Min(found)]
    BY <1>1, Zenon DEF Liquidation
  <2>5. Logs(o)[Min(found)].tx = replay.hash
    BY <1>1, <2>3 DEF Liquidations
  <2>6. QED
    BY <2>2, <2>3, <2>4, <2>5 DEF ToSet
<1>14. /\ v.event = Liquidation(o, replay) /\ v.debt = DebtLeg(o, replay)
       /\ v.collateral = CollateralLeg(o, replay) /\ v.outflow = SubsequentOutflow(o, replay)
    BY DEF LendingFacts
<1>15. v.debt \in ToSet(Logs(o)) /\ v.debt.from = replay.subject
    BY <1>8, <1>12, <1>14, DebtLegFound
<1>16. v.collateral \in ToSet(Logs(o)) /\ v.collateral.to = replay.subject
    BY <1>8, <1>12, <1>14, CollateralLegFound
<1>17. /\ v.outflow \in ToSet(Logs(o)) /\ v.outflow.from = replay.subject
       /\ v.outflow.index > v.collateral.index
    BY <1>9, <1>14, OutflowFound
<1>18. v.event \in ToSet(Logs(o)) /\ v.event.tx = replay.hash
    BY <1>13, <1>14
<1>19. Logs(o) = o.body.receipt.logs
    BY Zenon DEF Logs
<1>20. {v.event, v.debt, v.collateral, v.outflow} \subseteq ToSet(o.body.receipt.logs)
    BY <1>15, <1>16, <1>17, <1>18, <1>19
<1>21. ShowsLiquidation(o, v, replay.hash)
    BY <1>11, <1>18, <1>20, Zenon DEF ShowsLiquidation
<1>22. QED
    BY <1>10, <1>15, <1>16, <1>17, <1>21, Zenon

\* The two expected providers of a liquidation have two endpoints.
LEMMA ExpectedEndpoints ==
    ASSUME NEW pins, Ids(pins.providers) = DOMAIN ExpectedRole,
           \A p \in ToSet(pins.providers) : p.endpoint = ExpectedEndpoint[p.id]
    PROVE  EndpointsDiffer(pins)
<1>1. SUFFICES ASSUME NEW p \in ToSet(pins.providers), NEW q \in ToSet(pins.providers),
                      p.endpoint = q.endpoint
               PROVE  p.id = q.id
    BY DEF EndpointsDiffer
<1>2. DOMAIN ExpectedRole = {"PUBLICNODE", "THIRDWEB"}
    BY DEF ExpectedRole
<1>3. p.id \in {"PUBLICNODE", "THIRDWEB"} /\ q.id \in {"PUBLICNODE", "THIRDWEB"}
    BY <1>2 DEF Ids, ToSet
<1>4. ExpectedEndpoint["PUBLICNODE"] # ExpectedEndpoint["THIRDWEB"]
    BY DEF ExpectedEndpoint
<1>5. ExpectedEndpoint[p.id] = ExpectedEndpoint[q.id]
    BY <1>1
<1>6. QED
    BY <1>3, <1>4, <1>5

\* What the reconstruction has established when nothing was raised.
LEMMA LendingReconstructed ==
    ASSUME NEW package, NEW replay, ReconstructLendingFlowFacts(package, replay) = Quiet,
           IsList(replay.observations)
    PROVE  /\ EndpointsDiffer(package.pins)
           /\ \A o \in ToSet(replay.observations) :
                  DecodeLendingObservation(package.pins, o, replay) = Quiet
           /\ LendingFacts(ByRole(replay, "PRIMARY"), replay)
                = LendingFacts(ByRole(replay, "VERIFY"), replay)
<1>1. PICK a, b, c, d, e :
          /\ a = LoadUniqueProviderPins(package.pins)
          /\ b = LendingValidateProviderDiversity(package.pins)
          /\ c = ValidateCaptureMeta(package.meta, package.pins, replay)
          /\ d = FirstRaised(LAMBDA o : DecodeLendingObservation(package.pins, o, replay),
                             replay.observations)
          /\ e = Invalid(LendingFacts(ByRole(replay, "PRIMARY"), replay)
                           # LendingFacts(ByRole(replay, "VERIFY"), replay))
    OBVIOUS
<1>2. a && b && c && d && e = Quiet
    BY <1>1, Zenon DEF ReconstructLendingFlowFacts
<1>3. b = Quiet /\ d = Quiet /\ e = Quiet
    BY <1>2 DEF &&
<1>4. EndpointsDiffer(package.pins)
  <2>1. PICK pins : pins = package.pins
    OBVIOUS
  <2>2. PICK v, w, x, y, z :
            /\ v = Incomplete(Len(pins.providers) # 2)
            /\ w = Invalid(Ids(pins.providers) # DOMAIN ExpectedRole)
            /\ x = Incomplete(Roles(pins) # {"PRIMARY", "VERIFY"})
            /\ y = Invalid(\E p \in ToSet(pins.providers) :
                              p.role # ExpectedRole[p.id] \/ p.endpoint # ExpectedEndpoint[p.id])
            /\ z = Invalid(\E c1 \in ToSet(RpcCapabilities), p, q \in ToSet(pins.providers) :
                              p # q /\ p.sha[c1] = q.sha[c1])
    OBVIOUS
  <2>3. v && w && x && y && z = Quiet
    BY <2>1, <2>2, <1>1, <1>3, Zenon DEF LendingValidateProviderDiversity
  <2>4. w = Quiet /\ y = Quiet
    BY <2>3 DEF &&
  <2>5. Ids(pins.providers) = DOMAIN ExpectedRole
    BY <2>2, <2>4, QuietCondition, Zenon
  <2>6. \A p \in ToSet(pins.providers) : p.endpoint = ExpectedEndpoint[p.id]
    BY <2>2, <2>4, QuietCondition, Zenon
  <2>7. QED
    BY <2>1, <2>5, <2>6, ExpectedEndpoints
<1>5. ASSUME NEW o \in ToSet(replay.observations)
      PROVE  DecodeLendingObservation(package.pins, o, replay) = Quiet
  <2>1. PICK raising :
            raising = {i \in DOMAIN replay.observations :
                DecodeLendingObservation(package.pins, replay.observations[i], replay) # Quiet}
    OBVIOUS
  <2>2. d = IF raising = {} THEN Quiet
            ELSE DecodeLendingObservation(package.pins, replay.observations[Min(raising)], replay)
    BY <2>1, <1>1, Zenon DEF FirstRaised
  <2>3. raising = {}
    <3>1. SUFFICES ASSUME raising # {}
                   PROVE  FALSE
      OBVIOUS
    <3>2. raising \in SUBSET Nat
      BY <2>1 DEF IsList
    <3>3. Min(raising) \in raising
      BY <3>1, <3>2, MinOf
    <3>4. QED
      BY <3>1, <3>3, <2>1, <2>2, <1>3
  <2>4. PICK i \in DOMAIN replay.observations : o = replay.observations[i]
    BY DEF ToSet
  <2>5. QED
    BY <2>1, <2>3, <2>4
<1>6. LendingFacts(ByRole(replay, "PRIMARY"), replay)
        = LendingFacts(ByRole(replay, "VERIFY"), replay)
    BY <1>1, <1>3, QuietCondition, Zenon
<1>7. QED
    BY <1>4, <1>5, <1>6, Zenon

\* The request asks for the subject and the transaction of the replay.
LEMMA LendingInputsBound ==
    ASSUME NEW request, NEW replay, NoneHolds(LendingInputBindingError(request, replay))
    PROVE  request.subject = replay.subject /\ request.hash = replay.hash
<1>1. PICK first, fifth :
          /\ first = <<request.subject # replay.subject, "reconciliation_failed",
                       "subject_binding">>
          /\ fifth = <<request.hash # replay.hash, "reconciliation_failed", "seed_tx_binding">>
    OBVIOUS
<1>2. PICK b, c, d, list :
          /\ list = LendingInputBindingError(request, replay)
          /\ list = <<first, b, c, d, fifth>>
    BY <1>1, Zenon DEF LendingInputBindingError
<1>3. 1 \in DOMAIN list /\ list[1] = first /\ 5 \in DOMAIN list /\ list[5] = fifth
    BY <1>2
<1>4. ~first[1] /\ ~fifth[1]
    BY <1>2, <1>3, Zenon DEF NoneHolds
<1>5. QED
    BY <1>1, <1>4

\* The liquidation of a complete report, its two legs and the later outflow stand
\* in two authentic answers.
LEMMA LendingBacked ==
    ASSUME NEW request, NEW package, NEW replay, IsList(package.pins.providers),
           IsList(replay.observations),
           \A o \in ToSet(replay.observations) :
               ArtifactsFormed(o, RpcCapabilities) /\ LogsFormed(Logs(o)),
           NEW r, r = AnalyzeDefiLendingReplay(request, package, replay),
           r.status = "complete"
    PROVE  /\ EndpointsDiffer(package.pins)
           /\ \A role \in ProviderRoles : \E o \in ToSet(replay.observations) :
                  /\ o.role = role /\ Authentic(o, package.pins)
                  /\ ShowsLiquidation(o, r.value, request.hash)
           /\ {r.value.debt.from, r.value.collateral.to, r.value.outflow.from}
                = {request.subject}
           /\ r.value.outflow.index > r.value.collateral.index
<1>1. PICK binding, raised, inputs, value :
          /\ binding = ReplayBindingError(request, replay, ParseDefiLendingReplay(replay),
                                          LendingRequired)
          /\ raised = ReconstructLendingFlowFacts(package, replay)
          /\ inputs = LendingInputBindingError(request, replay)
          /\ value = LendingFacts(ByRole(replay, "PRIMARY"), replay)
    OBVIOUS
<1>2. PICK partial, complete :
          /\ r = AnalyzePackage(binding, raised, inputs, partial, complete,
                                "lending_reconciliation")
          /\ partial.status = "partial" /\ complete.value = value
  <2>1. PICK partial : partial = PartialPackage("defi_lending", LendingPartialEvidence, 0,
                                                "lending_transfer_availability")
    OBVIOUS
  <2>2. PICK raws : raws = {value.event.debtRaw, value.event.collateralRaw}
    OBVIOUS
  <2>3. PICK complete : complete = PackageResult(value, LendingCompleteEvidence,
                                                 "complete", "", "", raws)
    OBVIOUS
  <2>4. r = AnalyzePackage(binding, raised, inputs, partial, complete,
                           "lending_reconciliation")
    BY <2>1, <2>2, <2>3, <1>1, Zenon DEF AnalyzeDefiLendingReplay
  <2>5. partial.status = "partial"
    BY <2>1 DEF PartialPackage, PackageResult
  <2>6. complete.value = value
    BY <2>3 DEF PackageResult
  <2>7. QED
    BY <2>4, <2>5, <2>6, Zenon
<1>3. NoneHolds(binding) /\ raised = Quiet /\ NoneHolds(inputs) /\ r.value = value
  <2>1. NoneHolds(binding) /\ raised = Quiet /\ NoneHolds(inputs) /\ r = complete
    BY <1>2, PackageCompleted
  <2>2. QED
    BY <2>1, <1>2
<1>4. {o.role : o \in ToSet(replay.observations)} = {"PRIMARY", "VERIFY"}
  <2>1. ParseDefiLendingReplay(replay)
    BY <1>1, <1>3, PackageBound
  <2>2. QED
    BY <2>1, Zenon DEF ParseDefiLendingReplay
<1>5. /\ EndpointsDiffer(package.pins)
      /\ \A o \in ToSet(replay.observations) :
             DecodeLendingObservation(package.pins, o, replay) = Quiet
      /\ LendingFacts(ByRole(replay, "PRIMARY"), replay)
           = LendingFacts(ByRole(replay, "VERIFY"), replay)
    BY <1>1, <1>3, LendingReconstructed
<1>6. request.subject = replay.subject /\ request.hash = replay.hash
    BY <1>1, <1>3, LendingInputsBound
<1>7. ASSUME NEW role \in ProviderRoles
      PROVE  \E o \in ToSet(replay.observations) :
                 /\ o.role = role /\ Authentic(o, package.pins)
                 /\ ShowsLiquidation(o, r.value, request.hash)
                 /\ r.value.debt.from = request.subject
                 /\ r.value.collateral.to = request.subject
                 /\ r.value.outflow.from = request.subject
                 /\ r.value.outflow.index > r.value.collateral.index
  <2>1. PICK o : o = ByRole(replay, role)
    OBVIOUS
  <2>2. o \in ToSet(replay.observations) /\ o.role = role
    <3>1. \E x \in ToSet(replay.observations) : x.role = role
      BY <1>4 DEF ProviderRoles
    <3>2. QED
      BY <2>1, <3>1, Zenon DEF ByRole
  <2>3. r.value = LendingFacts(o, replay)
    BY <2>1, <1>1, <1>3, <1>5 DEF ProviderRoles
  <2>4. /\ DecodeLendingObservation(package.pins, o, replay) = Quiet
        /\ ArtifactsFormed(o, RpcCapabilities) /\ LogsFormed(Logs(o))
    BY <2>2, <1>5
  <2>5. PICK v : v = r.value
    OBVIOUS
  <2>6. /\ Authentic(o, package.pins) /\ ShowsLiquidation(o, v, replay.hash)
        /\ v.debt.from = replay.subject /\ v.collateral.to = replay.subject
        /\ v.outflow.from = replay.subject /\ v.outflow.index > v.collateral.index
    BY <2>3, <2>4, <2>5, LendingDecoded
  <2>7. QED
    BY <2>2, <2>5, <2>6, <1>6
<1>8. /\ r.value.debt.from = request.subject /\ r.value.collateral.to = request.subject
      /\ r.value.outflow.from = request.subject
      /\ r.value.outflow.index > r.value.collateral.index
    BY <1>7 DEF ProviderRoles
<1>9. {r.value.debt.from, r.value.collateral.to, r.value.outflow.from} = {request.subject}
    BY <1>8
<1>10. QED
    BY <1>5, <1>7, <1>8, <1>9

\* The same of an input and its result.
LEMMA LendingHolds ==
    ASSUME NEW i, Formed(i), i.kind = "defi_lending", NEW r, r = Analyzed(i),
           r.status = "complete"
    PROVE  LendingWitnessed(i, r)
<1>1. PICK request, package, replay :
          request = i.request /\ package = i.package /\ replay = i.replay
    OBVIOUS
<1>2. r = AnalyzeDefiLendingReplay(request, package, replay) /\ r.status = "complete"
    BY <1>1 DEF Analyzed
<1>3. /\ IsList(package.pins.providers) /\ IsList(replay.observations)
      /\ \A o \in ToSet(replay.observations) :
             ArtifactsFormed(o, RpcCapabilities) /\ LogsFormed(Logs(o))
    BY <1>1 DEF Formed, PackageFormed, PackageKinds, Logs
<1>4. /\ EndpointsDiffer(package.pins)
      /\ \A role \in ProviderRoles : \E o \in ToSet(replay.observations) :
             /\ o.role = role /\ Authentic(o, package.pins)
             /\ ShowsLiquidation(o, r.value, request.hash)
      /\ {r.value.debt.from, r.value.collateral.to, r.value.outflow.from} = {request.subject}
      /\ r.value.outflow.index > r.value.collateral.index
    BY <1>2, <1>3, LendingBacked
<1>5. QED
    BY <1>1, <1>4 DEF LendingWitnessed

-----------------------------------------------------------------------------
(* The documents of a case.                                                *)

\* A pin that loads: both documents are there, have the pinned digest, are about
\* the pin's fixture and confirmed.
LEMMA PinLoaded ==
    ASSUME NEW files, NEW pin, LoadPin(files, pin) = Quiet, NEW expected, NEW evidence,
           expected = files[pin.fixture].expected, evidence = files[pin.fixture].evidence
    PROVE  /\ expected # Missing /\ expected.sha = pin.expected
           /\ expected.fixture = pin.fixture /\ expected.status = "confirmed"
           /\ evidence # Missing /\ evidence.sha = pin.evidence
           /\ evidence.fixture = pin.fixture /\ evidence.status = "confirmed"
<1>1. PICK a, b, c, d, e, f :
          /\ a = Invalid(expected = Missing) /\ b = Invalid(expected.sha # pin.expected)
          /\ c = Invalid(evidence = Missing) /\ d = Invalid(evidence.sha # pin.evidence)
          /\ e = Invalid(expected.fixture # pin.fixture \/ evidence.fixture # pin.fixture)
          /\ f = Incomplete(expected.status # "confirmed" \/ evidence.status # "confirmed")
    OBVIOUS
<1>2. (a && b) && (c && d) && e && f = Quiet
    BY <1>1, Zenon DEF LoadPin, ReadPinnedObject
<1>3. a = Quiet /\ b = Quiet /\ c = Quiet /\ d = Quiet /\ e = Quiet /\ f = Quiet
    BY <1>2 DEF &&
<1>4. expected # Missing /\ expected.sha = pin.expected
    BY <1>1, <1>3, QuietCondition, Zenon
<1>5. evidence # Missing /\ evidence.sha = pin.evidence
    BY <1>1, <1>3, QuietCondition, Zenon
<1>6. expected.fixture = pin.fixture /\ evidence.fixture = pin.fixture
    BY <1>1, <1>3, QuietCondition, Zenon
<1>7. expected.status = "confirmed" /\ evidence.status = "confirmed"
    BY <1>1, <1>3, QuietCondition, Zenon
<1>8. QED
    BY <1>4, <1>5, <1>6, <1>7

\* Every pin of a case that reconstructs loads.
LEMMA CaseReconstructed ==
    ASSUME NEW package, NEW replay, ReconstructCaseFacts(package, replay) = Quiet,
           IsList(replay.pins), NEW pin \in ToSet(replay.pins)
    PROVE  LoadPin(package.files, pin) = Quiet
<1>1. PICK edges : edges = package.path
    OBVIOUS
<1>2. PICK a, b, c, d, e, f :
          /\ a = Incomplete(replay.category # "exploit")
          /\ b = FirstRaised(LAMBDA p : LoadPin(package.files, p), replay.pins)
          /\ c = Incomplete({PathFixture, RemergeFixture}
                              \ {p.fixture : p \in ToSet(replay.pins)} # {})
          /\ d = Invalid(edges = <<>>)
          /\ e = Invalid(edges[1].hash # replay.seed)
          /\ f = Invalid(\E i \in 2 .. Len(edges) : ~CaseBefore(edges[i - 1], edges[i]))
    OBVIOUS
<1>3. a && b && c && d && e && f = Quiet
    BY <1>1, <1>2, Zenon DEF ReconstructCaseFacts
<1>4. b = Quiet
    BY <1>3 DEF &&
<1>5. PICK raising :
          raising = {i \in DOMAIN replay.pins : LoadPin(package.files, replay.pins[i]) # Quiet}
    OBVIOUS
<1>6. b = IF raising = {} THEN Quiet ELSE LoadPin(package.files, replay.pins[Min(raising)])
    BY <1>2, <1>5, Zenon DEF FirstRaised
<1>7. raising = {}
  <2>1. SUFFICES ASSUME raising # {}
                 PROVE  FALSE
    OBVIOUS
  <2>2. raising \in SUBSET Nat
    BY <1>5 DEF IsList
  <2>3. Min(raising) \in raising
    BY <2>1, <2>2, MinOf
  <2>4. QED
    BY <2>1, <2>3, <1>4, <1>5, <1>6
<1>8. PICK i \in DOMAIN replay.pins : pin = replay.pins[i]
    BY DEF ToSet
<1>9. QED
    BY <1>5, <1>7, <1>8

\* A case that binds to its request has the request's fixtures, pinned by the
\* approved digests.
LEMMA CaseBound ==
    ASSUME NEW request, NEW replay, NoneHolds(CaseBindingError(request, replay))
    PROVE  PinsMatchSourceRefs(replay) /\ request.refs = replay.refs
<1>1. PICK first, sixth :
          /\ first = <<~(replay.fixture = CaseFixture /\ PinsMatchSourceRefs(replay)),
                       "decode_failed", "decode_replay">>
          /\ sixth = <<request.refs # replay.refs, "reconciliation_failed",
                       "source_fixture_binding">>
    OBVIOUS
<1>2. PICK b, c, d, e, g, list :
          list = CaseBindingError(request, replay) /\ list = <<first, b, c, d, e, sixth, g>>
  <2>1. PICK b, c, d, e, g :
            /\ b = <<~request.offline, "rule_restricted", "rule_check">>
            /\ c = <<request.fixture # replay.fixture, "reconciliation_failed", "fixture">>
            /\ d = <<request.category # replay.category, "reconciliation_failed", "category">>
            /\ e = <<request.seed # replay.seed, "reconciliation_failed", "seed">>
            /\ g = <<~(request.allowed = ToSet(RequiredOrder) /\ request.order = RequiredOrder),
                     "rule_restricted", "source_binding">>
    OBVIOUS
  <2>2. CaseBindingError(request, replay) = <<first, b, c, d, e, sixth, g>>
    BY <2>1, <1>1, Zenon DEF CaseBindingError
  <2>3. QED
    BY <2>2, Zenon
<1>3. 1 \in DOMAIN list /\ list[1] = first /\ 6 \in DOMAIN list /\ list[6] = sixth
    BY <1>2
<1>4. ~first[1] /\ ~sixth[1]
    BY <1>2, <1>3, Zenon DEF NoneHolds
<1>5. QED
    BY <1>1, <1>4

\* Both documents of every fixture of a case that was composed confirm it.
LEMMA CaseBacked ==
    ASSUME NEW request, NEW package, NEW replay, IsList(replay.pins),
           NEW r, r = AnalyzeCaseReconciliationReplay(request, package, replay),
           r.status = "partial", NEW f \in request.refs
    PROVE  /\ Confirms(package.files[f].expected, f, "expected")
           /\ Confirms(package.files[f].evidence, f, "evidence")
<1>1. PICK refusal, raised, built :
          /\ refusal = FirstRefusal(CaseBindingError(request, replay))
          /\ raised = ReconstructCaseFacts(package, replay)
          /\ built = CaseResult(request, package, replay)
    OBVIOUS
<1>2. r = IF refusal # NoRefusal THEN Failed(refusal)
          ELSE IF raised = "incomplete" THEN Failed(<<"source_unavailable", "case_scope">>)
          ELSE IF raised # Quiet THEN Failed(<<"reconciliation_failed", "source_reconciliation">>)
          ELSE CheckedOrRaised(built)
    BY <1>1, Zenon DEF AnalyzeCaseReconciliationReplay
<1>3. \A x : Failed(x).status = "failed"
    BY RefusedStatus
<1>4. refusal = NoRefusal /\ raised = Quiet
    BY <1>2, <1>3
<1>5. PinsMatchSourceRefs(replay) /\ request.refs = replay.refs
    BY <1>1, <1>4, NotRefused, CaseBound
<1>6. PICK pinned : pinned = [i \in DOMAIN replay.pins |-> replay.pins[i].fixture]
    OBVIOUS
<1>7. /\ ToSet(pinned) = replay.refs /\ ToSet(pinned) = DOMAIN Approved
      /\ \A p \in ToSet(replay.pins) : Approved[p.fixture] = <<p.expected, p.evidence>>
    BY <1>5, <1>6, Zenon DEF PinsMatchSourceRefs
<1>8. PICK i \in DOMAIN replay.pins : f = replay.pins[i].fixture
    BY <1>5, <1>6, <1>7 DEF ToSet
<1>9. PICK pin : pin = replay.pins[i]
    OBVIOUS
<1>10. pin \in ToSet(replay.pins) /\ pin.fixture = f
    BY <1>8, <1>9 DEF ToSet
<1>11. Approved[f] = <<pin.expected, pin.evidence>> /\ f \in DOMAIN Approved
    BY <1>5, <1>7, <1>10
<1>12. Approved[f] = << <<f, "expected">>, <<f, "evidence">> >>
    BY <1>11 DEF Approved
<1>13. pin.expected = <<f, "expected">> /\ pin.evidence = <<f, "evidence">>
    BY <1>11, <1>12
<1>14. LoadPin(package.files, pin) = Quiet
    BY <1>1, <1>4, <1>10, CaseReconstructed
<1>15. PICK expected, evidence :
           /\ expected = package.files[pin.fixture].expected
           /\ evidence = package.files[pin.fixture].evidence
    OBVIOUS
<1>16. /\ expected # Missing /\ expected.sha = pin.expected
       /\ expected.fixture = pin.fixture /\ expected.status = "confirmed"
       /\ evidence # Missing /\ evidence.sha = pin.evidence
       /\ evidence.fixture = pin.fixture /\ evidence.status = "confirmed"
    BY <1>14, <1>15, PinLoaded
<1>17. QED
    BY <1>10, <1>13, <1>15, <1>16 DEF Confirms

\* The same of an input and its result.
LEMMA CaseHolds ==
    ASSUME NEW i, Formed(i), i.kind = "case_reconciliation", NEW r, r = Analyzed(i),
           r.status = "partial"
    PROVE  CaseWitnessed(i)
<1>1. PICK request, package, replay :
          request = i.request /\ package = i.package /\ replay = i.replay
    OBVIOUS
<1>2. r = AnalyzeCaseReconciliationReplay(request, package, replay) /\ r.status = "partial"
    BY <1>1 DEF Analyzed
<1>3. IsList(replay.pins)
    BY <1>1 DEF Formed
<1>4. \A f \in request.refs :
          /\ Confirms(package.files[f].expected, f, "expected")
          /\ Confirms(package.files[f].evidence, f, "evidence")
    BY <1>2, <1>3, CaseBacked
<1>5. QED
    BY <1>1, <1>4 DEF CaseWitnessed

-----------------------------------------------------------------------------
(* Answers that agree: intelligence, the first transfer, the last upgrade. *)

\* A complete result that the contract was applied to is the result that was built.
LEMMA CheckedComplete ==
    ASSUME NEW built, NEW stage, Checked(built, stage).status = "complete"
    PROVE  Checked(built, stage) = built
BY RefusedStatus, Zenon DEF Checked

\* A list of four, five or six checks of which none applies.
LEMMA FirstTwoChecks ==
    ASSUME NEW a, NEW b, NEW c, NEW d, NEW e, NEW f, NEW list, NoneHolds(list),
           \/ list = <<a, b, c, d>>
           \/ list = <<a, b, c, d, e>>
           \/ list = <<a, b, c, d, e, f>>
    PROVE  ~a[1] /\ ~b[1]
<1>1. 1 \in DOMAIN list /\ list[1] = a /\ 2 \in DOMAIN list /\ list[2] = b
    OBVIOUS
<1>2. QED
    BY <1>1 DEF NoneHolds

\* What the bindings of a query say of the subjects.
LEMMA IntelBound ==
    ASSUME NEW request, NEW replay
    PROVE  /\ NoneHolds(LabelBindings(request, replay)) => replay.subject \in request.subjects
           /\ NoneHolds(SanctionsBindings(request, replay)) =>
                  replay.subject \in request.subjects
           /\ NoneHolds(IdentityBindings(request, replay)) =>
                  replay.forward.address \in request.subjects
           /\ NoneHolds(ActorBindings(request, replay)) =>
                  {x.subject : x \in ToSet(replay.relations)} = request.subjects
<1>1. ASSUME NEW c
      PROVE  Unbound(c)[1] = c
    BY DEF Unbound
<1>2. PICK subject, address, subjects :
          /\ subject = (replay.subject \notin request.subjects)
          /\ address = (replay.forward.address \notin request.subjects)
          /\ subjects = ({x.subject : x \in ToSet(replay.relations)} # request.subjects)
    OBVIOUS
<1>3. PICK list, b, c, d, e :
          list = LabelBindings(request, replay) /\ list = <<Unbound(subject), b, c, d, e>>
  <2>1. PICK b, c, d, e :
            /\ b = Unbound(replay.ens.address # replay.subject)
            /\ c = Unbound(replay.ens.block # request.block)
            /\ d = Unbound(Refs(replay) # request.refs)
            /\ e = Unbound(Len(replay.sources) > request.maxSources)
    OBVIOUS
  <2>2. LabelBindings(request, replay) = <<Unbound(subject), b, c, d, e>>
    BY <2>1, <1>2, Zenon DEF LabelBindings
  <2>3. QED
    BY <2>2, Zenon
<1>4. NoneHolds(list) => ~subject
    BY <1>1, <1>3, FirstTwoChecks
<1>5. PICK list6, b6, c6, d6, e6, f6 :
          /\ list6 = SanctionsBindings(request, replay)
          /\ list6 = <<Unbound(subject), b6, c6, d6, e6, f6>>
  <2>1. PICK b6, c6, d6, e6, f6 :
            /\ b6 = Unbound(replay.snapshot.subject # replay.subject)
            /\ c6 = Unbound(request.snapshotRef \notin Refs(replay))
            /\ d6 = Unbound(\E a \in ToSet(replay.actions) : a.matches # 1)
            /\ e6 = <<<<>> \in ToSet(request.actions), "invalid_input", "intel_input">>
            /\ f6 = Unbound(~SameBag(request.actions,
                                     Field(replay.actions, LAMBDA a : <<a.date, a.action>>)))
    OBVIOUS
  <2>2. SanctionsBindings(request, replay) = <<Unbound(subject), b6, c6, d6, e6, f6>>
    BY <2>1, <1>2, Zenon DEF SanctionsBindings
  <2>3. QED
    BY <2>2, Zenon
<1>6. NoneHolds(list6) => ~subject
    BY <1>1, <1>5, FirstTwoChecks
<1>7. PICK list5, a5, c5, d5, e5 :
          /\ list5 = IdentityBindings(request, replay)
          /\ list5 = <<a5, Unbound(address), c5, d5, e5>>
  <2>1. PICK a5, c5, d5, e5 :
            /\ a5 = Unbound(replay.forward.name \notin request.names)
            /\ c5 = Unbound(replay.block # request.block)
            /\ d5 = Unbound(replay.reverse.address # replay.forward.address)
            /\ e5 = Unbound(request.replayRef \notin Refs(replay))
    OBVIOUS
  <2>2. IdentityBindings(request, replay) = <<a5, Unbound(address), c5, d5, e5>>
    BY <2>1, <1>2, Zenon DEF IdentityBindings
  <2>3. QED
    BY <2>2, Zenon
<1>8. NoneHolds(list5) => ~address
    BY <1>1, <1>7, FirstTwoChecks
<1>9. PICK list4, a4, c4, d4 :
          list4 = ActorBindings(request, replay) /\ list4 = <<a4, Unbound(subjects), c4, d4>>
  <2>1. PICK a4, c4, d4 :
            /\ a4 = Unbound(replay.hub # request.hub)
            /\ c4 = Unbound({r.fixture : r \in ToSet(replay.relations)} # request.fixtures)
            /\ d4 = Unbound(~SameBag(Field(replay.relations, LAMBDA r : r.relation),
                                     request.weights))
    OBVIOUS
  <2>2. ActorBindings(request, replay) = <<a4, Unbound(subjects), c4, d4>>
    BY <2>1, <1>2, Zenon DEF ActorBindings
  <2>3. QED
    BY <2>2, Zenon
<1>10. NoneHolds(list4) => ~subjects
    BY <1>1, <1>9, FirstTwoChecks
<1>11. QED
    BY <1>2, <1>3, <1>4, <1>5, <1>6, <1>7, <1>8, <1>9, <1>10, Zenon

\* The value of a complete result, and that a common funder has none.
LEMMA IntelBuilt ==
    ASSUME NEW replay, NEW value, NEW r, r.status = "complete"
    PROVE  /\ r = CompleteResult(replay, value) => r.value = value
           /\ r # CommonFunder(replay)
<1>1. ASSUME NEW results, NEW errors, NEW raws, NEW status, NEW v,
             r = IntelResult(replay, status, results, errors, raws, v)
      PROVE  r.value = v /\ status = "complete"
  <2>1. PICK evidence, sources, built :
            /\ evidence = IntelEvidence(replay) /\ sources = IntelSources(replay)
            /\ built = [status |-> status, results |-> results, evidence |-> evidence,
                        sources |-> sources, errors |-> errors, raws |-> raws, value |-> v]
    OBVIOUS
  <2>2. r = Checked(built, "decode_intel_context")
    BY <2>1, <1>1, Zenon DEF IntelResult
  <2>3. r = built
    BY <2>2, CheckedComplete, Zenon
  <2>4. QED
    BY <2>1, <2>3
<1>2. ASSUME r = CompleteResult(replay, value)
      PROVE  r.value = value
  <2>1. PICK results, errors, raws :
            r = IntelResult(replay, "complete", results, errors, raws, value)
    BY <1>2, Zenon DEF CompleteResult
  <2>2. QED
    BY <2>1, <1>1
<1>3. ASSUME r = CommonFunder(replay)
      PROVE  FALSE
  <2>1. PICK results, errors, raws, v :
            r = IntelResult(replay, "partial", results, errors, raws, v)
    <3>1. PICK results, errors, raws, v :
              /\ results = <<[id |-> "relations", refs |-> <<"first">>],
                             [id |-> "assessment", refs |-> <<"second">>]>>
              /\ errors = <<Error("evidence_incomplete", "intel_coverage",
                                  <<"first", "second">>)>>
              /\ raws = {x.amount : x \in ToSet(replay.relations)}
              /\ v = [subjects |-> {x.subject : x \in ToSet(replay.relations)},
                      complete |-> FALSE]
      OBVIOUS
    <3>2. r = IntelResult(replay, "partial", results, errors, raws, v)
      BY <3>1, <1>3, Zenon DEF CommonFunder
    <3>3. QED
      BY <3>2, Zenon
  <2>2. "partial" = "complete"
    BY <2>1, <1>1, Zenon
  <2>3. QED
    BY <2>2
<1>4. QED
    BY <1>2, <1>3

\* Intelligence is about subjects of the request.
LEMMA IntelBacked ==
    ASSUME NEW request, NEW replay, request.query \in IntelQueries,
           NEW r, r = AnalyzeIntelContextReplay(request, replay), r.status = "complete"
    PROVE  r.value.subjects \subseteq request.subjects
<1>1. PICK binding, bindings, refusal, query :
          /\ binding = FirstRefusal(IntelBindingError(request, replay))
          /\ bindings = QueryBindings(request, replay) /\ refusal = FirstRefusal(bindings)
          /\ query = request.query
    OBVIOUS
<1>2. PICK built :
          built = CASE query = "collect_label_claims" -> Label(replay)
                    [] query = "check_sanctions_exposure" -> IntelSanctions(replay)
                    [] query = "resolve_identity_clues" -> Identity(replay)
                    [] query = "find_common_funder" -> CommonFunder(replay)
                    [] query = "score_actor_relations" -> ActorRelations(replay)
    OBVIOUS
<1>3. r = CASE binding # NoRefusal -> Failed(binding)
            [] binding = NoRefusal /\ refusal # NoRefusal -> Failed(refusal)
            [] binding = NoRefusal /\ refusal = NoRefusal -> built
    BY <1>1, <1>2, Zenon DEF AnalyzeIntelContextReplay
<1>4. r = built /\ refusal = NoRefusal
    BY <1>3, RefusedStatus
<1>5. NoneHolds(QueryBindings(request, replay))
    BY <1>1, <1>4, NotRefused
<1>6. CASE query = "collect_label_claims"
  <2>1. PICK value : r = CompleteResult(replay, value) /\ value.subjects = {replay.subject}
    <3>1. PICK value : value = [subjects |-> {replay.subject},
                                autoMerge |-> replay.categories = {} \/ replay.role = ""]
      OBVIOUS
    <3>2. Label(replay) = CompleteResult(replay, value)
      BY <3>1, Zenon DEF Label
    <3>3. r = Label(replay)
      BY <1>2, <1>4, <1>6
    <3>4. value.subjects = {replay.subject}
      BY <3>1
    <3>5. QED
      BY <3>2, <3>3, <3>4, Zenon
  <2>2. NoneHolds(LabelBindings(request, replay))
    BY <1>1, <1>5, <1>6 DEF QueryBindings
  <2>3. QED
    BY <2>1, <2>2, IntelBuilt, IntelBound
<1>7. CASE query = "check_sanctions_exposure"
  <2>1. PICK value : r = CompleteResult(replay, value) /\ value.subjects = {replay.subject}
    BY <1>2, <1>4, <1>7 DEF IntelSanctions
  <2>2. NoneHolds(SanctionsBindings(request, replay))
    BY <1>1, <1>5, <1>7 DEF QueryBindings
  <2>3. QED
    BY <2>1, <2>2, IntelBuilt, IntelBound
<1>8. CASE query = "resolve_identity_clues"
  <2>1. PICK value :
            r = CompleteResult(replay, value) /\ value.subjects = {replay.forward.address}
    BY <1>2, <1>4, <1>8 DEF Identity
  <2>2. NoneHolds(IdentityBindings(request, replay))
    BY <1>1, <1>5, <1>8 DEF QueryBindings
  <2>3. QED
    BY <2>1, <2>2, IntelBuilt, IntelBound
<1>9. CASE query = "find_common_funder"
    BY <1>2, <1>4, <1>9, IntelBuilt
<1>10. CASE query = "score_actor_relations"
  <2>1. PICK value : /\ r = CompleteResult(replay, value)
                     /\ value.subjects = {x.subject : x \in ToSet(replay.relations)}
    <3>1. PICK value : value = [subjects |-> {x.subject : x \in ToSet(replay.relations)},
                                relations |-> replay.relations]
      OBVIOUS
    <3>2. ActorRelations(replay) = CompleteResult(replay, value)
      BY <3>1, Zenon DEF ActorRelations
    <3>3. r = ActorRelations(replay)
      BY <1>2, <1>4, <1>10
    <3>4. value.subjects = {x.subject : x \in ToSet(replay.relations)}
      BY <3>1
    <3>5. QED
      BY <3>2, <3>3, <3>4, Zenon
  <2>2. NoneHolds(ActorBindings(request, replay))
    BY <1>1, <1>5, <1>10 DEF QueryBindings
  <2>3. QED
    BY <2>1, <2>2, IntelBuilt, IntelBound
<1>11. QED
    BY <1>1, <1>6, <1>7, <1>8, <1>9, <1>10 DEF IntelQueries

\* Of the logs at some positions one is first.
LEMMA FirstPlaced ==
    ASSUME NEW matches \in SUBSET Nat, matches # {}, NEW at,
           \A i \in matches : at[i] \in Nat \X Nat \X Nat
    PROVE  \E i \in matches : \A j \in matches \ {i} :
               Earlier(at[i], at[j]) \/ (at[i] = at[j] /\ i < j)
<1>1. \A i \in matches : /\ at[i][1] \in Nat /\ at[i][2] \in Nat /\ at[i][3] \in Nat
                         /\ at[i] = <<at[i][1], at[i][2], at[i][3]>>
    OBVIOUS
<1>2. PICK a \in matches : \A i \in matches : at[a][1] <= at[i][1]
  <2>1. PICK T : T = {at[i][1] : i \in matches}
    OBVIOUS
  <2>2. T \in SUBSET Nat /\ T # {}
    BY <2>1, <1>1
  <2>3. PICK n \in T : \A m \in T : n <= m
    BY <2>2, Smallest
  <2>4. QED
    BY <2>1, <2>3
<1>3. PICK A : A = {i \in matches : at[i][1] = at[a][1]}
    OBVIOUS
<1>4. PICK b \in A : \A i \in A : at[b][2] <= at[i][2]
  <2>1. PICK T : T = {at[i][2] : i \in A}
    OBVIOUS
  <2>2. T \in SUBSET Nat /\ T # {}
    BY <2>1, <1>1, <1>3
  <2>3. PICK n \in T : \A m \in T : n <= m
    BY <2>2, Smallest
  <2>4. QED
    BY <2>1, <2>3
<1>5. PICK B : B = {i \in A : at[i][2] = at[b][2]}
    OBVIOUS
<1>6. PICK c \in B : \A i \in B : at[c][3] <= at[i][3]
  <2>1. PICK T : T = {at[i][3] : i \in B}
    OBVIOUS
  <2>2. T \in SUBSET Nat /\ T # {}
    <3>1. B \subseteq matches /\ b \in B
      BY <1>3, <1>4, <1>5
    <3>2. QED
      BY <3>1, <2>1, <1>1
  <2>3. PICK n \in T : \A m \in T : n <= m
    BY <2>2, Smallest
  <2>4. QED
    BY <2>1, <2>3
<1>7. PICK C : C = {i \in B : at[i][3] = at[c][3]}
    OBVIOUS
<1>8. PICK d \in C : \A i \in C : d <= i
  <2>1. C \in SUBSET Nat /\ C # {}
    BY <1>3, <1>5, <1>7
  <2>2. QED
    BY <2>1, Smallest
<1>9. /\ d \in matches /\ at[d][1] = at[a][1] /\ at[d][2] = at[b][2] /\ at[d][3] = at[c][3]
    BY <1>3, <1>5, <1>7
<1>10. ASSUME NEW j \in matches \ {d}
       PROVE  Earlier(at[d], at[j]) \/ (at[d] = at[j] /\ d < j)
  <2>1. CASE j \notin A
    BY <2>1, <1>1, <1>2, <1>3, <1>9 DEF Earlier
  <2>2. CASE j \in A \ B
    BY <2>2, <1>1, <1>3, <1>4, <1>5, <1>9 DEF Earlier
  <2>3. CASE j \in B \ C
    BY <2>3, <1>1, <1>3, <1>5, <1>6, <1>7, <1>9 DEF Earlier
  <2>4. CASE j \in C
    <3>1. at[d] = at[j]
      BY <2>4, <1>1, <1>3, <1>5, <1>7, <1>9
    <3>2. d < j
      BY <2>4, <1>8, <1>9, <1>10
    <3>3. QED
      BY <3>1, <3>2
  <2>5. QED
    BY <2>1, <2>2, <2>3, <2>4
<1>11. QED
    BY <1>9, <1>10

\* The log first_token_transfer reports: one that pays, and none that pays is earlier.
LEMMA FirstMatched ==
    ASSUME NEW request, NEW replay, LogsPlaced(replay.logs),
           NEW match, match = FirstMatch(request, replay), match # <<>>
    PROVE  /\ match[1] \in ToSet(replay.logs) /\ Pays(match[1], request)
           /\ \A log \in ToSet(replay.logs) :
                  Pays(log, request) => ~Earlier(log.at, match[1].at)
<1> DEFINE logs == replay.logs
<1>1. LogsPlaced(logs)
    OBVIOUS
<1>2. PICK at : at = [i \in DOMAIN logs |-> logs[i].at]
    OBVIOUS
<1>3. PICK matches : matches = {i \in DOMAIN logs : TransferCandidate(request, logs[i])
                                                      /\ logs[i].data[1] > 0}
    OBVIOUS
<1>4. PICK first : first = {i \in matches : \A j \in matches \ {i} :
                       Earlier(logs[i].at, logs[j].at) \/ (logs[i].at = logs[j].at /\ i < j)}
    OBVIOUS
<1>5. match = IF matches = {} THEN <<>> ELSE <<logs[CHOOSE i \in first : TRUE]>>
    BY <1>1, <1>3, <1>4 DEF FirstMatch
<1>6. matches # {}
    BY <1>5
<1>7. DOMAIN logs \subseteq Nat /\ \A i \in DOMAIN logs : logs[i] \in ToSet(logs)
    BY <1>1 DEF LogsPlaced, IsList, ToSet
<1>8. \A i \in DOMAIN logs : logs[i].at \in Nat \X Nat \X Nat /\ at[i] = logs[i].at
    BY <1>1, <1>2, <1>7 DEF LogsPlaced
<1>9. \A i \in matches : i \in DOMAIN logs /\ at[i] = logs[i].at
    BY <1>3, <1>8
<1>10. PICK i \in matches : \A j \in matches \ {i} :
           Earlier(at[i], at[j]) \/ (at[i] = at[j] /\ i < j)
  <2>1. matches \in SUBSET Nat /\ \A i \in matches : at[i] \in Nat \X Nat \X Nat
    BY <1>7, <1>8, <1>9
  <2>2. QED
    BY <2>1, <1>6, FirstPlaced
<1>11. i \in first
  <2>1. ASSUME NEW j \in matches \ {i}
        PROVE  Earlier(logs[i].at, logs[j].at) \/ (logs[i].at = logs[j].at /\ i < j)
    BY <1>9, <1>10
  <2>2. QED
    BY <2>1, <1>4
<1>12. PICK k : k = CHOOSE x \in first : TRUE
    OBVIOUS
<1>13. k \in first
    BY <1>11, <1>12
<1>14. match[1] = logs[k]
    BY <1>5, <1>6, <1>12
<1>15. k \in matches /\ k \in DOMAIN logs
    BY <1>4, <1>9, <1>13
<1>16. ASSUME NEW j \in DOMAIN logs
       PROVE  Pays(logs[j], request) <=> j \in matches
    BY <1>3 DEF Pays, TransferCandidate
<1>17. ASSUME NEW j \in matches
       PROVE  ~Earlier(logs[j].at, logs[k].at)
  <2>1. PICK a : a = logs[j].at
    OBVIOUS
  <2>2. PICK b : b = logs[k].at
    OBVIOUS
  <2>3. a \in Nat \X Nat \X Nat /\ b \in Nat \X Nat \X Nat
    BY <2>1, <2>2, <1>8, <1>9, <1>15
  <2>4. /\ a[1] \in Nat /\ a[2] \in Nat /\ a[3] \in Nat
        /\ b[1] \in Nat /\ b[2] \in Nat /\ b[3] \in Nat
    BY <2>3
  <2>5. j = k \/ Earlier(b, a) \/ b = a
    BY <2>1, <2>2, <1>4, <1>13
  <2>6. j = k => a = b
    BY <2>1, <2>2
  <2>7. ~Earlier(a, b)
    BY <2>4, <2>5, <2>6 DEF Earlier
  <2>8. QED
    BY <2>7, <2>1, <2>2
<1>18. Pays(logs[k], request) /\ logs[k] \in ToSet(logs)
    BY <1>7, <1>15, <1>16
<1>19. ASSUME NEW log \in ToSet(logs), Pays(log, request)
       PROVE  ~Earlier(log.at, logs[k].at)
  <2>1. PICK j \in DOMAIN logs : log = logs[j]
    BY DEF ToSet
  <2>2. QED
    BY <2>1, <1>16, <1>17, <1>19
<1>20. QED
    BY <1>1, <1>14, <1>18, <1>19

\* The first transfer has no earlier one.
LEMMA FirstHolds ==
    ASSUME NEW i, Formed(i), i.kind = "evm_core", i.request.query = "first_token_transfer",
           NEW r, r = AnalyzeEvmCoreReplay(i.request, i.replay), r.status = "complete"
    PROVE  FirstIsFirst(i, r)
<1>1. PICK request, replay : request = i.request /\ replay = i.replay
    OBVIOUS
<1>2. PICK refusal, core : /\ refusal = FirstRefusal(CoreBindingError(request, replay))
                           /\ core = FirstTokenTransfer(request, replay)
    OBVIOUS
<1>3. PICK q, other1, other2, other3 :
          /\ q = replay.query /\ other1 = ObjectSummary(request, replay)
          /\ other2 = HistoricalBalance(request, replay) /\ other3 = NativeInflow(request, replay)
    OBVIOUS
<1>4. r = IF refusal # NoRefusal THEN Failed(refusal)
          ELSE CASE q = "object_summary" -> other1
                 [] q = "historical_balance" -> other2
                 [] q = "first_token_transfer" -> core
                 [] q = "native_inflow" -> other3
  <2>1. r = AnalyzeEvmCoreReplay(request, replay)
    BY <1>1
  <2>2. QED
    BY <2>1, <1>2, <1>3, Zenon DEF AnalyzeEvmCoreReplay
<1>5. refusal = NoRefusal
    BY <1>4, RefusedStatus
<1>6. q = "first_token_transfer"
  <2>1. PICK a, b, c, d :
            /\ a = <<~request.offline, "rule_restricted", "validate_replay">>
            /\ b = <<request.query # replay.query \/ request.chain # replay.chain,
                     "reconciliation_failed", "validate_replay">>
            /\ c = <<request.fixture \notin {Anything, replay.fixture},
                     "reconciliation_failed", "validate_replay">>
            /\ d = <<~(ToSet(replay.sources) \subseteq request.allowed),
                     "rule_restricted", "validate_replay">>
    OBVIOUS
  <2>2. CoreBindingError(request, replay) = <<a, b, c, d>>
    BY <2>1, Zenon DEF CoreBindingError
  <2>3. ~b[1]
    BY <2>2, <1>2, <1>5, NotRefused, BindingChecks
  <2>4. QED
    BY <2>1, <2>3, <1>1, <1>3
<1>7. r = core
    BY <1>4, <1>5, <1>6
<1>8. LogsPlaced(replay.logs)
    BY <1>1, <1>3, <1>6 DEF Formed
<1>9. PICK match : match = FirstMatch(request, replay)
    OBVIOUS
<1>10. match # <<>> /\ r.value.log = match[1]
  <2>1. PICK wrong, undecodable, evidence, value, raws :
            /\ undecodable = (\E log \in ToSet(replay.logs) :
                                  TransferCandidate(request, log) /\ log.data = <<>>)
            /\ wrong = (replay.start # request.start \/ replay.end < request.start \/ undecodable)
            /\ evidence = <<Evidence(replay.sources, <<"RANGE">>, 1),
                            Evidence(replay.sources, <<"TRANSFER">>, 1)>>
            /\ value = [type |-> "first_token_transfer", log |-> match[1],
                        rangeComplete |-> replay.complete]
            /\ raws = {match[1].data[1]}
    OBVIOUS
  <2>2. PICK built, incomplete :
            /\ incomplete = ~replay.complete
            /\ built = CoreResult(replay, value, raws, evidence, incomplete,
                                  "evidence_incomplete", "range_pagination", <<<<"TRANSFER">>>>)
    OBVIOUS
  <2>3. core = IF wrong THEN Failed(Undecodable)
               ELSE IF match = <<>> THEN Failed(<<"source_unavailable", "transfer_log_scan">>)
               ELSE built
    BY <1>2, <1>9, <2>1, <2>2, Zenon DEF FirstTokenTransfer
  <2>4. match # <<>> /\ r = built
    BY <2>3, <1>7, RefusedStatus
  <2>5. PICK one, errors : 
            /\ one = OneResult(replay.sources, value, raws, evidence,
                               IF incomplete THEN "partial" ELSE "complete",
                               "evidence_incomplete", "range_pagination")
            /\ errors = IF incomplete THEN <<Error("evidence_incomplete", "range_pagination",
                                                   <<<<"TRANSFER">>>>)>> ELSE <<>>
    OBVIOUS
  <2>6. r = Checked([one EXCEPT !.errors = errors], "decode_evm_core")
    BY <2>2, <2>4, <2>5, Zenon DEF CoreResult
  <2>7. r = [one EXCEPT !.errors = errors]
    BY <2>6, CheckedComplete, Zenon
  <2>8. one.value = value /\ r.value = one.value
    <3>1. "value" \in DOMAIN one /\ one.value = value
      BY <2>5 DEF OneResult
    <3>2. QED
      BY <3>1, <2>7
  <2>9. QED
    BY <2>1, <2>4, <2>8
<1>11. QED
    BY <1>1, <1>8, <1>9, <1>10, FirstMatched DEF FirstIsFirst

\* What a list of six checks says when none applies.
LEMMA SixChecks ==
    ASSUME NEW a, NEW b, NEW c, NEW d, NEW e, NEW f, NoneHolds(<<a, b, c, d, e, f>>)
    PROVE  ~a[1] /\ ~b[1] /\ ~c[1] /\ ~d[1] /\ ~e[1] /\ ~f[1]
<1>1. PICK list : list = <<a, b, c, d, e, f>>
    OBVIOUS
<1>2. /\ 1 \in DOMAIN list /\ list[1] = a /\ 2 \in DOMAIN list /\ list[2] = b
      /\ 3 \in DOMAIN list /\ list[3] = c /\ 4 \in DOMAIN list /\ list[4] = d
      /\ 5 \in DOMAIN list /\ list[5] = e /\ 6 \in DOMAIN list /\ list[6] = f
    BY <1>1
<1>3. QED
    BY <1>1, <1>2 DEF NoneHolds

\* What the checks around an upgrade leave of the snapshots.
LEMMA ProxyChecked ==
    ASSUME NEW request, NEW replay, NEW upgraded,
           NoneHolds(ProxyChecks(request, replay, upgraded)),
           NEW after, after = Snapshot(replay, "implementation_after"), after # <<>>,
           NEW before, before = Snapshot(replay, "implementation_before"), before # <<>>,
           NEW adminAfter, adminAfter = Snapshot(replay, "admin_after"),
           NEW adminBefore, adminBefore = Snapshot(replay, "admin_before")
    PROVE  /\ after[1].block = upgraded.at[1] /\ after[1].word = upgraded.args[1]
           /\ before[1].block = upgraded.at[1] - 1
           /\ request.admin /\ adminAfter # <<>> /\ adminBefore # <<>> =>
                  adminAfter[1].block = upgraded.at[1]
<1>1. PICK block : block = upgraded.at[1]
    OBVIOUS
<1>2. PICK a, b, c : /\ a = Decode(Len(upgraded.args) # 1)
                     /\ b = Reconcile(replay.receipt # [hash |-> upgraded.hash, block |-> block])
                     /\ c = Reconcile(after # <<>> /\ ~AtSlot(after, "implementation", block))
    OBVIOUS
<1>3. PICK d, e, f : /\ d = Reconcile(after # <<>> /\ upgraded.args # <<>>
                                        /\ after[1].word # upgraded.args[1])
                     /\ e = Reconcile(after # <<>> /\ before # <<>>
                                        /\ ~AtSlot(before, "implementation", block - 1))
                     /\ f = Reconcile(request.admin /\ adminAfter # <<>> /\ adminBefore # <<>>
                                        /\ ~(/\ AtSlot(adminAfter, "admin", block)
                                             /\ AtSlot(adminBefore, "admin", block - 1)))
    OBVIOUS
<1>4. ProxyChecks(request, replay, upgraded) = <<a, b, c, d, e, f>>
    BY <1>1, <1>2, <1>3, Zenon DEF ProxyChecks
<1>5. ~a[1] /\ ~c[1] /\ ~d[1] /\ ~e[1] /\ ~f[1]
    BY <1>4, SixChecks
<1>6. ASSUME NEW bad
      PROVE  Decode(bad)[1] = bad /\ Reconcile(bad)[1] = bad
    BY DEF Decode, Reconcile
<1>7. Len(upgraded.args) = 1
    BY <1>2, <1>5, <1>6, Zenon
<1>8. upgraded.args # <<>>
    BY <1>7
<1>9. AtSlot(after, "implementation", block)
    BY <1>2, <1>5, <1>6
<1>10. after[1].word = upgraded.args[1]
    BY <1>3, <1>5, <1>6, <1>8
<1>11. AtSlot(before, "implementation", block - 1)
    BY <1>3, <1>5, <1>6
<1>12. request.admin /\ adminAfter # <<>> /\ adminBefore # <<>> =>
           AtSlot(adminAfter, "admin", block)
    BY <1>3, <1>5, <1>6
<1>13. QED
    BY <1>1, <1>9, <1>10, <1>11, <1>12 DEF AtSlot

\* A role has at most one snapshot.
LEMMA SnapshotOptional ==
    ASSUME NEW replay, NEW role, NEW s, s = Snapshot(replay, role), s # <<>>
    PROVE  s = <<s[1]>> /\ Len(s) = 1
<1>1. PICK of : of = SelectSeq(replay.snapshots, LAMBDA x : x.role = role)
    OBVIOUS
<1>2. PICK last : last = Last(of)
    OBVIOUS
<1>3. s = IF of = <<>> THEN <<>> ELSE <<last>>
    BY <1>1, <1>2, Zenon DEF Snapshot
<1>4. s = <<last>>
    BY <1>3
<1>5. QED
    BY <1>4

\* The slots around an upgrade belong to its block and to the one before, and hold
\* what its event announces.
LEMMA ProxyHolds ==
    ASSUME NEW i, i.kind = "evm_special", i.request.query = "proxy_history",
           NEW r, r = AnalyzeEvmSpecialReplay(i.request, i.replay), r.status = "complete"
    PROVE  ProxyAgrees(i, r)
<1>1. PICK request, replay : request = i.request /\ replay = i.replay
    OBVIOUS
<1>2. PICK binding, proxy, nft : /\ binding = FirstRefusal(SpecialBindingError(request, replay))
                                 /\ proxy = ProxyHistory(request, replay)
                                 /\ nft = FirstRefusal(NftChecks(request, replay))
    OBVIOUS
<1>3. PICK q, other, built :
          /\ q = request.query
          /\ other = IF nft # NoRefusal THEN Failed(nft)
                     ELSE IF replay.hint = "erc721" THEN Erc721(request, replay)
                     ELSE Erc1155(request, replay)
          /\ built = CASE q = "proxy_history" -> proxy [] q = "nft_activity" -> other
    OBVIOUS
<1>4. r = IF binding # NoRefusal THEN Failed(binding) ELSE Checked(built, "decode_evm_special")
  <2>1. r = AnalyzeEvmSpecialReplay(request, replay)
    BY <1>1
  <2>2. QED
    BY <2>1, <1>2, <1>3, Zenon DEF AnalyzeEvmSpecialReplay
<1>5. r = Checked(built, "decode_evm_special")
    BY <1>4, RefusedStatus
<1>6. r = built
    BY <1>5, CheckedComplete, Zenon
<1>7. r = proxy
    BY <1>1, <1>3, <1>6
<1>8. PICK logs, upgraded, after, before :
          /\ logs = UpgradedLogs(request, replay) /\ upgraded = logs[1]
          /\ after = Snapshot(replay, "implementation_after")
          /\ before = Snapshot(replay, "implementation_before")
    OBVIOUS
<1>9. PICK adminAfter, adminBefore, refusal, hasAdmin :
          /\ adminAfter = Snapshot(replay, "admin_after")
          /\ adminBefore = Snapshot(replay, "admin_before")
          /\ refusal = FirstRefusal(ProxyChecks(request, replay, upgraded))
          /\ hasAdmin = (request.admin /\ adminAfter # <<>> /\ adminBefore # <<>>)
    OBVIOUS
<1>10. PICK missing, value, partial :
          /\ missing = (after = <<>> \/ before = <<>>)
          /\ value = [type |-> "proxy_history", at |-> upgraded.at,
                      event |-> upgraded.args[1], after |-> after,
                      before |-> IF after = <<>> THEN <<>> ELSE before,
                      admin |-> IF hasAdmin THEN adminBefore \o adminAfter ELSE <<>>]
          /\ partial = (~replay.complete \/ missing \/ (request.admin /\ ~hasAdmin))
    OBVIOUS
<1>11. PICK evidence :
          evidence = <<Evidence(replay.sources, "UPGRADED", 1)>>
            \o (IF after = <<>> THEN <<>>
                ELSE <<Evidence(replay.sources, "IMPLEMENTATION-AFTER", 1)>>)
            \o (IF after = <<>> \/ before = <<>> THEN <<>>
                ELSE <<Evidence(replay.sources, "IMPLEMENTATION-BEFORE", 1)>>)
            \o (IF ~hasAdmin THEN <<>>
                ELSE <<Evidence(replay.sources, "ADMIN-BEFORE", 1),
                       Evidence(replay.sources, "ADMIN-AFTER", 2)>>)
    OBVIOUS
<1>12. PICK status, one :
          /\ status = IF partial THEN "partial" ELSE "complete"
          /\ one = OneResult(replay.sources, value, {}, evidence, status,
                             "archive_required", "proxy_historical_slot")
    OBVIOUS
<1>13. proxy = IF Len(logs) > 1 THEN Failed(<<"reconciliation_failed", "decode_evm_special">>)
               ELSE IF logs = <<>> THEN Failed(<<"source_unavailable", "proxy_event_scan">>)
               ELSE IF refusal # NoRefusal THEN Failed(refusal)
               ELSE one
    BY <1>2, <1>8, <1>9, <1>10, <1>11, <1>12, Zenon DEF ProxyHistory
<1>14. r = one /\ refusal = NoRefusal
    BY <1>7, <1>13, RefusedStatus
<1>15. r.value = value /\ r.status = status
    BY <1>12, <1>14 DEF OneResult
<1>16. ~partial
    BY <1>12, <1>15
<1>17. after # <<>> /\ before # <<>> /\ (request.admin => hasAdmin)
    BY <1>10, <1>16
<1>18. NoneHolds(ProxyChecks(request, replay, upgraded))
    BY <1>9, <1>14, NotRefused
<1>19. /\ after[1].block = upgraded.at[1] /\ after[1].word = upgraded.args[1]
       /\ before[1].block = upgraded.at[1] - 1
       /\ hasAdmin => adminAfter[1].block = upgraded.at[1]
  <2>1. /\ adminAfter = Snapshot(replay, "admin_after")
        /\ adminBefore = Snapshot(replay, "admin_before")
        /\ after = Snapshot(replay, "implementation_after")
        /\ before = Snapshot(replay, "implementation_before")
    BY <1>8, <1>9, Zenon
  <2>2. /\ after[1].block = upgraded.at[1] /\ after[1].word = upgraded.args[1]
        /\ before[1].block = upgraded.at[1] - 1
        /\ request.admin /\ adminAfter # <<>> /\ adminBefore # <<>> =>
               adminAfter[1].block = upgraded.at[1]
    BY <2>1, <1>17, <1>18, ProxyChecked
  <2>3. hasAdmin => request.admin /\ adminAfter # <<>> /\ adminBefore # <<>>
    BY <1>9
  <2>4. QED
    BY <2>2, <2>3
<1>20. /\ value.at = upgraded.at /\ value.event = upgraded.args[1] /\ value.after = after
       /\ value.before = before /\ (hasAdmin => value.admin = adminBefore \o adminAfter)
    BY <1>10, <1>17
<1>21. hasAdmin => Len(value.admin) = 2 /\ value.admin[2] = adminAfter[1]
  <2>1. SUFFICES ASSUME hasAdmin
                 PROVE  Len(value.admin) = 2 /\ value.admin[2] = adminAfter[1]
    OBVIOUS
  <2>2. PICK x, y : adminBefore = <<x>> /\ adminAfter = <<y>> /\ y = adminAfter[1]
    <3>1. adminAfter # <<>> /\ adminBefore # <<>>
      BY <2>1, <1>9
    <3>2. adminBefore = <<adminBefore[1]>>
      BY <3>1, <1>9, SnapshotOptional, Zenon
    <3>3. adminAfter = <<adminAfter[1]>>
      BY <3>1, <1>9, SnapshotOptional, Zenon
    <3>4. QED
      BY <3>2, <3>3, Zenon
  <2>3. value.admin = <<x>> \o <<y>>
    BY <2>1, <2>2, <1>20
  <2>4. QED
    BY <2>2, <2>3
<1>22. QED
    BY <1>1, <1>15, <1>17, <1>19, <1>20, <1>21 DEF ProxyAgrees

-----------------------------------------------------------------------------
(* Answers that agree: the providers of a Bitcoin transaction.             *)

\* A set of positions of a list is finite; one of cardinality one is a singleton, one
\* of cardinality at most one has no two members.
LEMMA Positions ==
    ASSUME NEW list, IsList(list), NEW S, S \subseteq DOMAIN list
    PROVE  /\ IsFiniteSet(S)
           /\ Cardinality(S) = 1 => \E k : S = {k}
           /\ Cardinality(S) <= 1 => \A a, b \in S : a = b
<1>1. Len(list) \in Nat /\ S \subseteq 1 .. Len(list)
    BY DEF IsList
<1>2. IsFiniteSet(S)
  <2>1. IsFiniteSet(1 .. Len(list))
    BY <1>1, FS_Interval
  <2>2. QED
    BY <1>1, <2>1, FS_Subset
<1>3. Cardinality(S) \in Nat
    BY <1>2, FS_CardinalityType
<1>4. Cardinality(S) = 1 => \E k : S = {k}
    BY <1>2, FS_Singleton
<1>5. Cardinality(S) = 0 => S = {}
    BY <1>2, FS_EmptySet
<1>6. Cardinality(S) <= 1 => Cardinality(S) = 0 \/ Cardinality(S) = 1
    BY <1>3
<1>7. QED
    BY <1>2, <1>4, <1>5, <1>6

\* Providers are of three roles, at most one of each, and the answer of a role is
\* the answer of the provider that has it.
LEMMA RoleAnswers ==
    ASSUME NEW providers, ProvidersFormed(providers), ValidateProviderObservations(providers)
    PROVE  /\ \A p \in ToSet(providers) : /\ p.role \in {"primary", "verify", "supporting"}
                                          /\ Body(providers, p.role) = p.body
                                          /\ HasRole(providers, p.role)
           /\ HasRole(providers, "primary") /\ HasRole(providers, "verify")
<1> DEFINE ofRole(role) == {i \in DOMAIN providers : providers[i].role = role}
<1>1. /\ Cardinality(ofRole("primary")) = 1 /\ Cardinality(ofRole("verify")) = 1
      /\ Cardinality(ofRole("supporting")) <= 1
    BY DEF ValidateProviderObservations
<1>2. IsList(providers) /\ \A p \in ToSet(providers) : p.role \in {"primary", "verify", "supporting"}
    BY DEF ProvidersFormed, ProviderOfRole
<1>3. ASSUME NEW role \in {"primary", "verify", "supporting"}
      PROVE  \A a, b \in ofRole(role) : a = b
  <2>1. PICK S : S = ofRole(role)
    OBVIOUS
  <2>2. S \subseteq DOMAIN providers
    BY <2>1
  <2>3. Cardinality(S) <= 1
    <3>1. S = ofRole("primary") \/ S = ofRole("verify") \/ S = ofRole("supporting")
      BY <2>1
    <3>2. Cardinality(S) = 1 \/ Cardinality(S) <= 1
      BY <3>1, <1>1, Zenon
    <3>3. QED
      BY <3>2
  <2>4. \A a, b \in S : a = b
    BY <2>2, <2>3, <1>2, Positions
  <2>5. QED
    BY <2>1, <2>4
<1>4. ASSUME NEW p \in ToSet(providers)
      PROVE  HasRole(providers, p.role) /\ Body(providers, p.role) = p.body
  <2>1. HasRole(providers, p.role)
    BY DEF HasRole
  <2>2. PICK role : role = p.role
    OBVIOUS
  <2>3. PICK q : q = CHOOSE x \in ToSet(providers) : x.role = role
    OBVIOUS
  <2>4. q \in ToSet(providers) /\ q.role = role
    BY <2>2, <2>3
  <2>5. PICK a \in DOMAIN providers, b \in DOMAIN providers : p = providers[a] /\ q = providers[b]
    BY <2>4 DEF ToSet
  <2>6. a \in ofRole(role) /\ b \in ofRole(role)
    BY <2>2, <2>4, <2>5
  <2>7. role \in {"primary", "verify", "supporting"}
    BY <1>2, <2>2
  <2>8. a = b
    BY <1>3, <2>6, <2>7
  <2>9. q = p
    BY <2>5, <2>8
  <2>10. Body(providers, role) = q.body
    BY <2>3 DEF Body
  <2>11. QED
    BY <2>1, <2>2, <2>9, <2>10
<1>5. ASSUME NEW role, Cardinality(ofRole(role)) = 1
      PROVE  HasRole(providers, role)
  <2>1. PICK S : S = ofRole(role)
    OBVIOUS
  <2>2. S \subseteq DOMAIN providers /\ Cardinality(S) = 1
    BY <2>1, <1>5
  <2>3. PICK k : S = {k}
    BY <2>2, <1>2, Positions
  <2>4. k \in DOMAIN providers /\ providers[k].role = role
    BY <2>1, <2>3
  <2>5. QED
    BY <2>4 DEF HasRole, ToSet
<1>6. QED
    BY <1>1, <1>2, <1>4, <1>5

\* Outputs of equal values add up to the same.
LEMMA SameTotal ==
    ASSUME NEW s, NEW t, DOMAIN s = DOMAIN t, \A i \in DOMAIN s : s[i].value = t[i].value
    PROVE  Total(s) = Total(t)
<1>1. Values(s) = Values(t)
    BY DEF Values
<1>2. QED
    BY <1>1 DEF Total

\* What an answer pays out is the total of the outputs its projection has, the node's
\* cut off to satoshis.
LEMMA OutputTotals ==
    ASSUME NEW b
    PROVE  Total(RestOutputs(b)) = Total(b.vout)
<1>1. /\ DOMAIN RestOutputs(b) = DOMAIN b.vout
      /\ \A i \in DOMAIN b.vout : RestOutputs(b)[i].value = b.vout[i].value
    BY DEF RestOutputs
<1>2. QED
    BY <1>1, SameTotal

LEMMA PaidOutTotals ==
    ASSUME NEW p
    PROVE  PaidOut(p) = Total(IF p.role = "primary" THEN NodeOutputs(p.body[1])
                              ELSE p.body[1].vout)
<1>1. PICK b, vout : b = p.body[1] /\ vout = b.vout
    OBVIOUS
<1>2. PICK told : told = [k \in DOMAIN vout |->
                             IF p.role = "primary" THEN vout[k].value \div SubSatoshi
                             ELSE vout[k].value]
    OBVIOUS
<1>3. PaidOut(p) = SumFunction(told)
    BY <1>1, <1>2, Zenon DEF PaidOut
<1>4. CASE p.role = "primary"
  <2>1. /\ DOMAIN NodeOutputs(b) = DOMAIN vout
        /\ \A i \in DOMAIN vout : NodeOutputs(b)[i].value = vout[i].value \div SubSatoshi
    BY <1>1 DEF NodeOutputs, Satoshis
  <2>2. Values(NodeOutputs(b)) = told
    BY <2>1, <1>2, <1>4 DEF Values
  <2>3. QED
    BY <2>2, <1>1, <1>3, <1>4 DEF Total
<1>5. CASE p.role # "primary"
  <2>1. Values(vout) = told
    BY <1>2, <1>5 DEF Values
  <2>2. QED
    BY <2>1, <1>1, <1>3, <1>5 DEF Total
<1>6. QED
    BY <1>4, <1>5

\* Every answer about the transaction shows it.
LEMMA RootShown ==
    ASSUME NEW tx, ProvidersFormed(tx.providers), TransactionIsReconciled(tx), RootAgrees(tx),
           NEW p \in ToSet(tx.providers), NEW facts,
           facts.outputSum = Total(tx.outputs), facts.fee = Total(tx.inputs) - Total(tx.outputs)
    PROVE  ShowsTransaction(p, tx.txid, tx.block, facts)
<1>1. ValidateProviderObservations(tx.providers) /\ facts.fee = tx.fee
    BY DEF TransactionIsReconciled
<1>2. /\ p.role \in {"primary", "verify", "supporting"} /\ Body(tx.providers, p.role) = p.body
      /\ HasRole(tx.providers, p.role)
    BY <1>1, RoleAnswers
<1>3. PICK b : b = p.body[1]
    OBVIOUS
<1>4. PICK node, verify, support : /\ node = Body(tx.providers, "primary")[1]
                                   /\ verify = Body(tx.providers, "verify")[1]
                                   /\ support = Body(tx.providers, "supporting")[1]
    OBVIOUS
<1>5. /\ HasRole(tx.providers, "supporting") =>
             RestTransactionProjection(verify) = RestTransactionProjection(support)
      /\ RestTransactionProjection(verify) = ReplayTransactionProjection(tx)
      /\ PublicnodeProjection(node.txid, node.block, node.vin, NodeOutputs(node))
           = PublicnodeProjection(tx.txid, tx.block, tx.inputs, tx.outputs)
    BY <1>4, Zenon DEF RootAgrees
<1>6. CASE p.role = "primary"
  <2>1. b = node
    BY <1>2, <1>3, <1>4, <1>6
  <2>2. PICK outs : outs = NodeOutputs(b)
    OBVIOUS
  <2>3. /\ b.txid = tx.txid /\ b.block = tx.block
        /\ [i \in DOMAIN outs |-> <<outs[i].vout, outs[i].value, outs[i].address>>]
             = [i \in DOMAIN tx.outputs |->
                   <<tx.outputs[i].vout, tx.outputs[i].value, tx.outputs[i].address>>]
    BY <2>1, <2>2, <1>5 DEF PublicnodeProjection
  <2>4. DOMAIN outs = DOMAIN tx.outputs
    BY <2>3
  <2>5. ASSUME NEW i \in DOMAIN outs
        PROVE  outs[i].value = tx.outputs[i].value
    <3>1. <<outs[i].vout, outs[i].value, outs[i].address>>
            = <<tx.outputs[i].vout, tx.outputs[i].value, tx.outputs[i].address>>
      BY <2>3, <2>4
    <3>2. QED
      BY <3>1
  <2>6. Total(outs) = Total(tx.outputs)
    BY <2>4, <2>5, SameTotal
  <2>7. PaidOut(p) = Total(tx.outputs)
    BY <1>3, <1>6, <2>2, <2>6, PaidOutTotals
  <2>8. QED
    BY <1>3, <1>6, <2>3, <2>7 DEF ShowsTransaction
<1>7. ASSUME NEW a, RestTransactionProjection(a) = ReplayTransactionProjection(tx)
      PROVE  /\ a.txid = tx.txid /\ a.block = tx.block /\ a.fee = facts.fee
             /\ Total(a.vout) = facts.outputSum /\ Total(a.vin) - Total(a.vout) = facts.fee
  <2>1. /\ a.txid = tx.txid /\ a.block = tx.block /\ a.fee = tx.fee /\ a.vin = tx.inputs
        /\ RestOutputs(a) = tx.outputs
    BY <1>7 DEF RestTransactionProjection, ReplayTransactionProjection
  <2>2. Total(a.vout) = Total(tx.outputs) /\ Total(a.vin) = Total(tx.inputs)
    BY <2>1, OutputTotals
  <2>3. QED
    BY <2>1, <2>2, <1>1
<1>8. CASE p.role # "primary"
  <2>1. b = verify \/ (b = support /\ HasRole(tx.providers, "supporting"))
    BY <1>2, <1>3, <1>4, <1>8
  <2>2. RestTransactionProjection(b) = ReplayTransactionProjection(tx)
    BY <2>1, <1>5
  <2>3. PaidOut(p) = Total(b.vout)
    BY <1>3, <1>8, PaidOutTotals
  <2>4. QED
    BY <2>2, <2>3, <1>3, <1>7 DEF ShowsTransaction
<1>9. QED
    BY <1>6, <1>8

\* Every answer about a hop shows it.
LEMMA HopShown ==
    ASSUME NEW replay, NEW hop, ProvidersFormed(hop.providers),
           ValidateProviderObservations(hop.providers), Readable(hop.providers),
           HopAgrees(replay, hop), NEW p \in ToSet(hop.providers)
    PROVE  ShowsSpend(p, hop)
<1>1. /\ p.role \in {"primary", "verify", "supporting"} /\ Body(hop.providers, p.role) = p.body
      /\ HasRole(hop.providers, p.role)
    BY RoleAnswers
<1>2. PICK b : b = p.body[1]
    OBVIOUS
<1>3. IsList(b.vin)
    BY <1>2 DEF ProvidersFormed, Readable
<1>4. PICK node, verify, support : /\ node = Body(hop.providers, "primary")[1]
                                   /\ verify = Body(hop.providers, "verify")[1]
                                   /\ support = Body(hop.providers, "supporting")[1]
    OBVIOUS
<1>5. /\ Cardinality(Spends(node, hop)) = 1 /\ Cardinality(Spends(verify, hop)) = 1
      /\ HopComparable(PublicnodeHopProjection(node, replay, hop))
           = HopComparable(RestHopProjection(verify, hop))
      /\ HasRole(hop.providers, "supporting") =>
             /\ Cardinality(Spends(support, hop)) = 1
             /\ RestHopProjection(verify, hop) = RestHopProjection(support, hop)
      /\ RestHopProjection(verify, hop) = ReplayHopProjection(hop)
    BY <1>4, Zenon DEF HopAgrees
<1>6. ASSUME NEW a, RestHopProjection(a, hop) = ReplayHopProjection(hop)
      PROVE  a.txid = hop.spendingTx /\ RestOutputs(a) = hop.created
    BY <1>6 DEF RestHopProjection, ReplayHopProjection
<1>7. /\ node.txid = hop.spendingTx /\ NodeOutputs(node) = hop.created
      /\ hop.fee = hop.value - Total(NodeOutputs(node))
  <2>1. PICK n, value : /\ n = PublicnodeHopProjection(node, replay, hop)
                        /\ value = (CHOOSE o \in RootOutputs(replay, hop) : TRUE).value
    OBVIOUS
  <2>2. /\ n.value = value /\ n.spendingTx = node.txid /\ n.fee = value - Total(NodeOutputs(node))
        /\ n.created = NodeOutputs(node)
    BY <2>1 DEF PublicnodeHopProjection
  <2>3. PICK h : h = ReplayHopProjection(hop)
    OBVIOUS
  <2>4. /\ h.value = hop.value /\ h.spendingTx = hop.spendingTx /\ h.fee = hop.fee
        /\ h.created = hop.created
    BY <2>3 DEF ReplayHopProjection
  <2>5. HopComparable(n) = HopComparable(h)
    BY <2>1, <2>3, <1>5
  <2>6. /\ n.value = h.value /\ n.spendingTx = h.spendingTx /\ n.fee = h.fee
        /\ n.created = h.created
    BY <2>5 DEF HopComparable
  <2>7. QED
    BY <2>2, <2>4, <2>6
<1>8. hop.fee = hop.value - Total(hop.created)
    BY <1>7
<1>9. /\ Cardinality(Spends(b, hop)) = 1 /\ b.txid = hop.spendingTx
      /\ PaidOut(p) = Total(hop.created)
  <2>1. CASE p.role = "primary"
    <3>1. b = node
      BY <1>1, <1>2, <1>4, <2>1
    <3>2. PaidOut(p) = Total(NodeOutputs(node))
      BY <3>1, <2>1, <1>2, PaidOutTotals
    <3>3. QED
      BY <3>1, <3>2, <1>5, <1>7
  <2>2. CASE p.role # "primary"
    <3>1. b = verify \/ (b = support /\ HasRole(hop.providers, "supporting"))
      BY <1>1, <1>2, <1>4, <2>2
    <3>2. Cardinality(Spends(b, hop)) = 1 /\ RestHopProjection(b, hop) = ReplayHopProjection(hop)
      BY <3>1, <1>5
    <3>3. b.txid = hop.spendingTx /\ RestOutputs(b) = hop.created
      BY <3>2, <1>6
    <3>4. PaidOut(p) = Total(b.vout)
      BY <1>2, <2>2, PaidOutTotals
    <3>5. QED
      BY <3>2, <3>3, <3>4, OutputTotals
  <2>3. QED
    BY <2>1, <2>2
<1>10. PICK k : Spends(b, hop) = {k}
  <2>1. Spends(b, hop) \subseteq DOMAIN b.vin
    BY DEF Spends
  <2>2. QED
    BY <2>1, <1>3, <1>9, Positions
<1>11. k \in DOMAIN b.vin
    BY <1>10 DEF Spends
<1>12. \A j \in DOMAIN b.vin :
           b.vin[j].txid = hop.spentTx /\ b.vin[j].vout = hop.spentVout <=> j = k
    BY <1>10 DEF Spends
<1>13. hop.fee = hop.value - PaidOut(p)
    BY <1>8, <1>9
<1>14. QED
    BY <1>2, <1>9, <1>11, <1>12, <1>13 DEF ShowsSpend

\* What the bindings of a request say of the replay and of the transaction.
LEMMA BitcoinBound ==
    ASSUME NEW request, NEW replay, NoneHolds(BitcoinBindingError(request, replay))
    PROVE  BitcoinParseReplay(replay) /\ request.txid = replay.tx.txid
<1>1. PICK a, b, c, d :
          /\ a = <<~BitcoinParseReplay(replay), "decode_failed", "decode_replay">>
          /\ b = <<~request.offline, "rule_restricted", "rule_check">>
          /\ c = <<request.fixture \notin {Anything, replay.fixture},
                   "reconciliation_failed", "fixture">>
          /\ d = <<request.txid # replay.tx.txid, "reconciliation_failed", "txid">>
    OBVIOUS
<1>2. PICK e, f, g :
          /\ e = <<\A o \in ToSet(replay.tx.outputs) : o.vout # request.startVout,
                   "invalid_input", "start_outpoint">>
          /\ f = <<~(BitcoinRequired \subseteq request.allowed), "rule_restricted", "source">>
          /\ g = <<ToSet(replay.sources) # request.allowed, "rule_restricted", "source_binding">>
    OBVIOUS
<1>3. PICK list : list = <<a, b, c, d, e, f, g>>
    OBVIOUS
<1>4. BitcoinBindingError(request, replay) = list
    BY <1>1, <1>2, <1>3, Zenon DEF BitcoinBindingError
<1>5. 1 \in DOMAIN list /\ list[1] = a /\ 4 \in DOMAIN list /\ list[4] = d
    BY <1>3
<1>6. ~a[1] /\ ~d[1]
    BY <1>4, <1>5 DEF NoneHolds
<1>7. QED
    BY <1>1, <1>6

\* The facts of a complete result: the transaction's own arithmetic.
LEMMA BitcoinBuilt ==
    ASSUME NEW request, NEW replay, NEW r, r = UtxoResult(request, replay),
           r.status = "complete"
    PROVE  /\ r.value.facts.outputSum = Total(replay.tx.outputs)
           /\ r.value.facts.fee = Total(replay.tx.inputs) - Total(replay.tx.outputs)
<1>1. PICK evidence, facts, heuristics :
          /\ evidence = UtxoEvidence(replay)
          /\ facts = ReconstructBitcoinFacts(replay, request.startVout, request.maxHops)
          /\ heuristics = AssessBitcoinHeuristics(replay.tx)
    OBVIOUS
<1>2. PICK status, results, sources, errors, value :
          /\ status = IF replay.path = <<>> THEN "partial" ELSE "complete"
          /\ results = <<[id |-> "bitcoin_utxo_summary", refs |-> AllIds(evidence)]>>
                       \o (IF request.query # "assess_heuristics" THEN <<>>
                           ELSE <<[id |-> "bitcoin_heuristic_assessment",
                                   refs |-> AllIds(evidence)]>>)
          /\ sources = [i \in DOMAIN evidence |->
                           [id |-> evidence[i].rec, src |-> evidence[i].src]]
          /\ errors = IF replay.path = <<>>
                      THEN <<Error("evidence_incomplete", "spend_path", <<>>)>> ELSE <<>>
          /\ value = [facts |-> facts, heuristics |-> heuristics]
    OBVIOUS
<1>3. PICK built : built = [status |-> status, results |-> results, evidence |-> evidence,
                            sources |-> sources, errors |-> errors, raws |-> {},
                            value |-> value]
    OBVIOUS
<1>4. r = CheckedOrRaised(built)
    BY <1>1, <1>2, <1>3, Zenon DEF UtxoResult
<1>5. r = built
  <2>1. "complete" # "raised"
    OBVIOUS
  <2>2. QED
    BY <2>1, <1>4, CheckedBuilt
<1>6. r.value.facts = facts
    BY <1>2, <1>3, <1>5
<1>7. PICK path, frontier :
          facts = [type |-> "bitcoin_utxo_summary", inputSum |-> Total(replay.tx.inputs),
                   outputSum |-> Total(replay.tx.outputs),
                   fee |-> Total(replay.tx.inputs) - Total(replay.tx.outputs), path |-> path,
                   frontier |-> frontier]
  <2>1. PICK path, frontier :
            /\ path = SelectedHops(replay, request.startVout, request.maxHops)
            /\ frontier = IF path = <<>> THEN {}
                          ELSE {<<path[Len(path)].spendingTx, o.vout, o.value>> :
                                   o \in ToSet(path[Len(path)].created)}
    OBVIOUS
  <2>2. facts = [type |-> "bitcoin_utxo_summary", inputSum |-> Total(replay.tx.inputs),
                 outputSum |-> Total(replay.tx.outputs),
                 fee |-> Total(replay.tx.inputs) - Total(replay.tx.outputs), path |-> path,
                 frontier |-> frontier]
    BY <2>1, <1>1, Zenon DEF ReconstructBitcoinFacts
  <2>3. QED
    BY <2>2, Zenon
<1>8. QED
    BY <1>6, <1>7

\* Every provider's answer shows the transaction and the hops of its path.
LEMMA BitcoinHolds ==
    ASSUME NEW i, Formed(i), i.kind = "bitcoin_utxo",
           NEW r, r = AnalyzeBitcoinUtxoReplay(i.request, i.replay), r.status = "complete"
    PROVE  BitcoinAgrees(i, r)
<1>1. PICK request, replay : request = i.request /\ replay = i.replay
    OBVIOUS
<1>2. PICK refusal, failed, built :
          /\ refusal = FirstRefusal(BitcoinBindingError(request, replay))
          /\ failed = Failed(<<"reconciliation_failed", "artifact_reconciliation">>)
          /\ built = UtxoResult(request, replay)
    OBVIOUS
<1>3. r = IF refusal # NoRefusal THEN Failed(refusal)
          ELSE IF ArtifactError(replay) THEN failed ELSE built
  <2>1. r = AnalyzeBitcoinUtxoReplay(request, replay)
    BY <1>1
  <2>2. QED
    BY <2>1, <1>2, Zenon DEF AnalyzeBitcoinUtxoReplay
<1>4. refusal = NoRefusal /\ ~ArtifactError(replay) /\ r = built
    BY <1>2, <1>3, RefusedStatus
<1>5. BitcoinParseReplay(replay) /\ request.txid = replay.tx.txid
    BY <1>2, <1>4, NotRefused, BitcoinBound
<1>6. PICK facts : /\ facts = r.value.facts /\ facts.outputSum = Total(replay.tx.outputs)
                   /\ facts.fee = Total(replay.tx.inputs) - Total(replay.tx.outputs)
    BY <1>2, <1>4, BitcoinBuilt
<1>7. /\ RootAgrees(replay.tx)
      /\ \A hop \in ToSet(replay.path) : Readable(hop.providers) /\ HopAgrees(replay, hop)
    BY <1>4, Zenon DEF ArtifactError
<1>8. /\ ProvidersFormed(replay.tx.providers)
      /\ \A hop \in ToSet(replay.path) : ProvidersFormed(hop.providers)
    BY <1>1, Zenon DEF Formed
<1>9. ASSUME NEW p \in ToSet(replay.tx.providers)
      PROVE  ShowsTransaction(p, request.txid, replay.tx.block, facts)
  <2>1. TransactionIsReconciled(replay.tx)
    BY <1>5 DEF BitcoinParseReplay
  <2>2. ShowsTransaction(p, replay.tx.txid, replay.tx.block, facts)
    BY <2>1, <1>6, <1>7, <1>8, RootShown
  <2>3. QED
    BY <2>2, <1>5
<1>10. ASSUME NEW hop \in ToSet(replay.path), NEW p \in ToSet(hop.providers)
       PROVE  ShowsSpend(p, hop)
  <2>1. PICK n \in DOMAIN replay.path : hop = replay.path[n]
    BY DEF ToSet
  <2>2. ValidateProviderObservations(hop.providers)
    BY <2>1, <1>5, Zenon DEF BitcoinParseReplay, ReplayBindingsAreExact
  <2>3. QED
    BY <2>2, <1>7, <1>8, HopShown
<1>11. QED
    BY <1>1, <1>6, <1>9, <1>10 DEF BitcoinAgrees

-----------------------------------------------------------------------------
(* Loops and folds.                                                        *)

\* Induction up to N, for sets.
LEMMA UpTo ==
    ASSUME NEW N \in Nat, NEW P, 0 \in P,
           \A n \in 1 .. N : n - 1 \in P => n \in P
    PROVE  \A n \in 0 .. N : n \in P
<1> DEFINE bad == {n \in 0 .. N : n \notin P}
<1>1. SUFFICES ASSUME bad # {}
               PROVE  FALSE
    OBVIOUS
<1>2. PICK n \in bad : \A m \in bad : n <= m
  <2>1. bad \in SUBSET Nat
    OBVIOUS
  <2>2. QED
    BY <2>1, <1>1, Smallest
<1>3. n \in 1 .. N /\ n \notin P /\ n - 1 \in 0 .. N /\ ~(n <= n - 1)
    OBVIOUS
<1>4. n - 1 \in P
    BY <1>2, <1>3
<1>5. QED
    BY <1>3, <1>4

\* f is the history of a loop over 1 .. N: the value after each round.
Runs(f, N, V, base, F) ==
    /\ f \in [0 .. N -> V] /\ f[0] = base
    /\ \A n \in 1 .. N : f[n] = F[<<n, f[n - 1]>>]

\* it folds F over the subsets of D, taking the element c chooses.
FoldsTo(it, D, V, c, base, F) ==
    /\ it \in [SUBSET D -> V] /\ it[{}] = base
    /\ \A s \in SUBSET D : s # {} => it[s] = F[<<c[s], it[s \ {c[s]}]>>]

\* A loop over 1 .. N that keeps its value in V has a history.
LEMMA LoopExists ==
    ASSUME NEW N \in Nat, NEW V, NEW base \in V, NEW F \in [(1 .. N) \X V -> V]
    PROVE  \E f : Runs(f, N, V, base, F)
<1> DEFINE good(n, f) == /\ f \in [0 .. n -> V] /\ f[0] = base
                         /\ \A m \in 1 .. n : f[m] = F[<<m, f[m - 1]>>]
           P == {n \in 0 .. N : \E f : good(n, f)}
<1>1. 0 \in P
  <2>1. PICK f : f = [n \in 0 .. 0 |-> base]
    OBVIOUS
  <2>2. good(0, f)
    BY <2>1
  <2>3. QED
    BY <2>2
<1>2. ASSUME NEW n \in 1 .. N, n - 1 \in P
      PROVE  n \in P
  <2>1. PICK f : good(n - 1, f)
    BY <1>2
  <2>2. PICK v : v = F[<<n, f[n - 1]>>]
    OBVIOUS
  <2>3. n - 1 \in 0 .. n - 1 /\ n \in Int /\ n \in 0 .. N
    OBVIOUS
  <2>4. v \in V
    BY <2>1, <2>2, <2>3
  <2>5. PICK g : g = [m \in 0 .. n |-> IF m = n THEN v ELSE f[m]]
    OBVIOUS
  <2>6. g \in [0 .. n -> V]
    <3>1. \A m \in 0 .. n : m # n => m \in 0 .. n - 1
      BY <2>3
    <3>2. QED
      BY <3>1, <2>1, <2>4, <2>5
  <2>7. g[n] = v /\ \A m \in 0 .. n - 1 : g[m] = f[m]
    BY <2>3, <2>5
  <2>8. ASSUME NEW m \in 1 .. n
        PROVE  g[m] = F[<<m, g[m - 1]>>]
    <3>1. m - 1 \in 0 .. n - 1 /\ (m # n => m \in 0 .. n - 1 /\ m \in 1 .. n - 1)
      BY <2>3
    <3>2. QED
      BY <3>1, <2>1, <2>2, <2>7
  <2>9. g[0] = base
    BY <2>1, <2>3, <2>7
  <2>10. good(n, g)
    BY <2>6, <2>8, <2>9
  <2>11. QED
    BY <2>3, <2>10
<1>3. PICK f : good(N, f)
  <2>1. \A n \in 1 .. N : n - 1 \in P => n \in P
    BY <1>2
  <2>2. N \in P
    <3> HIDE DEF P
    <3>1. \A n \in 0 .. N : n \in P
      BY <1>1, <2>1, UpTo
    <3>2. QED
      BY <3>1
  <2>3. QED
    BY <2>2
<1>4. Runs(f, N, V, base, F)
    BY <1>3 DEF Runs
<1>5. QED
    BY <1>4

\* Induction over the subsets of a finite set, an element at a time.
LEMMA SubsetInduction ==
    ASSUME NEW D, IsFiniteSet(D), NEW P, {} \in P,
           \A s \in SUBSET D : s # {} /\ (\A x \in s : s \ {x} \in P) => s \in P
    PROVE  \A s \in SUBSET D : s \in P
<1> DEFINE bad == {s \in SUBSET D : s \notin P}
           sizes == {Cardinality(s) : s \in bad}
<1>1. \A s \in SUBSET D : IsFiniteSet(s) /\ Cardinality(s) \in Nat
    BY FS_Subset, FS_CardinalityType
<1>2. SUFFICES ASSUME bad # {}
               PROVE  FALSE
    OBVIOUS
<1>3. PICK n \in sizes : \A m \in sizes : n <= m
  <2>1. sizes # {} /\ sizes \in SUBSET Nat
    BY <1>1, <1>2
  <2>2. QED
    BY <2>1, Smallest
<1>4. PICK s \in bad : n = Cardinality(s)
    OBVIOUS
<1>5. s \in SUBSET D /\ s # {} /\ s \notin P
    OBVIOUS
<1>6. ASSUME NEW x \in s
      PROVE  s \ {x} \in P
  <2>1. s \ {x} \in SUBSET D /\ Cardinality(s \ {x}) = Cardinality(s) - 1
    BY <1>1, <1>5, FS_RemoveElement
  <2>2. ~(n <= Cardinality(s \ {x}))
    BY <1>1, <1>4, <1>5, <2>1
  <2>3. s \ {x} \notin bad
    BY <1>3, <2>2
  <2>4. QED
    BY <2>1, <2>3
<1>7. QED
    BY <1>5, <1>6

\* A fold over a finite set that keeps its value in V is well defined.
LEMMA FoldExists ==
    ASSUME NEW D, IsFiniteSet(D), NEW c, \A s \in SUBSET D : s # {} => c[s] \in s,
           NEW V, NEW base \in V, NEW F \in [D \X V -> V]
    PROVE  \E it : FoldsTo(it, D, V, c, base, F)
<1> DEFINE dom(n) == {s \in SUBSET D : Cardinality(s) <= n}
           good(n, it) == /\ it \in [dom(n) -> V]
                          /\ \A s \in dom(n) : it[s] = IF s = {} THEN base
                                                       ELSE F[<<c[s], it[s \ {c[s]}]>>]
           P == {n \in 0 .. Cardinality(D) : \E it : good(n, it)}
<1>1. \A s \in SUBSET D : /\ IsFiniteSet(s) /\ Cardinality(s) \in Nat
                          /\ Cardinality(s) <= Cardinality(D)
                          /\ Cardinality(s) = 0 <=> s = {}
    BY FS_Subset, FS_CardinalityType, FS_EmptySet
<1>2. Cardinality(D) \in Nat
    BY FS_CardinalityType
<1>3. \A s \in SUBSET D : s # {} => /\ s \ {c[s]} \in SUBSET D
                                    /\ Cardinality(s \ {c[s]}) = Cardinality(s) - 1
    BY <1>1, FS_RemoveElement
<1>4. 0 \in P
  <2>1. PICK it : it = [s \in dom(0) |-> base]
    OBVIOUS
  <2>2. \A s \in dom(0) : s = {}
    BY <1>1
  <2>3. good(0, it)
    BY <2>1, <2>2
  <2>4. 0 \in 0 .. Cardinality(D)
    BY <1>2
  <2>5. QED
    BY <2>3, <2>4
<1>5. ASSUME NEW n \in 1 .. Cardinality(D), n - 1 \in P
      PROVE  n \in P
  <2>1. PICK it : good(n - 1, it)
    BY <1>5
  <2>2. PICK g : g = [s \in dom(n) |-> IF s = {} THEN base ELSE F[<<c[s], it[s \ {c[s]}]>>]]
    OBVIOUS
  <2>3. \A s \in dom(n) : s # {} => s \ {c[s]} \in dom(n - 1) /\ c[s] \in D
    BY <1>1, <1>2, <1>3
  <2>4. dom(n - 1) \subseteq dom(n)
    BY <1>1, <1>2
  <2>5. \A s \in dom(n - 1) : g[s] = it[s]
    BY <2>1, <2>2, <2>4
  <2>6. g \in [dom(n) -> V]
    <3>1. ASSUME NEW s \in dom(n), s # {}
          PROVE  F[<<c[s], it[s \ {c[s]}]>>] \in V
      <4>1. it[s \ {c[s]}] \in V /\ c[s] \in D
        BY <2>1, <2>3, <3>1
      <4>2. QED
        BY <4>1
    <3>2. QED
      BY <2>2, <3>1
  <2>7. \A s \in dom(n) : g[s] = IF s = {} THEN base ELSE F[<<c[s], g[s \ {c[s]}]>>]
    BY <2>2, <2>3, <2>5
  <2>8. good(n, g)
    BY <2>6, <2>7
  <2>9. n \in 0 .. Cardinality(D)
    BY <1>2
  <2>10. QED
    BY <2>8, <2>9
<1>6. PICK it : good(Cardinality(D), it)
  <2>1. \A n \in 1 .. Cardinality(D) : n - 1 \in P => n \in P
    BY <1>5
  <2>2. Cardinality(D) \in P
    <3> HIDE DEF P
    <3>1. \A n \in 0 .. Cardinality(D) : n \in P
      BY <1>2, <1>4, <2>1, UpTo
    <3>2. QED
      BY <1>2, <3>1
  <2>3. QED
    BY <2>2
<1>7. dom(Cardinality(D)) = SUBSET D
    BY <1>1
<1>8. /\ it \in [SUBSET D -> V]
      /\ \A s \in SUBSET D : it[s] = IF s = {} THEN base ELSE F[<<c[s], it[s \ {c[s]}]>>]
    BY <1>6, <1>7
<1>9. FoldsTo(it, D, V, c, base, F)
    BY <1>8 DEF FoldsTo
<1>10. QED
    BY <1>9

\* h numbers the positions I of s: the k-th entry of list is the one of s at h[k].
Numbers(h, list, s, I) ==
    /\ h \in [1 .. Len(list) -> I]
    /\ \A k \in 1 .. Len(list) : list[k] = s[h[k]]
    /\ \A i \in I : \E k \in 1 .. Len(list) : h[k] = i
    /\ \A j, k \in 1 .. Len(list) : h[j] = h[k] => j = k

\* One more position, after the others, is one more entry.
LEMMA NumbersOneMore ==
    ASSUME NEW S, NEW list \in Seq(S), NEW s, NEW I, NEW n, n \notin I, s[n] \in S,
           NEW h, Numbers(h, list, s, I)
    PROVE  \E g : Numbers(g, Append(list, s[n]), s, I \cup {n})
<1>1. PICK N : N = Len(list) /\ N \in Nat
    OBVIOUS
<1>2. PICK more : more = Append(list, s[n])
    OBVIOUS
<1>3. /\ more \in Seq(S) /\ Len(more) = N + 1 /\ more[N + 1] = s[n]
      /\ \A k \in 1 .. N : more[k] = list[k]
    BY <1>1, <1>2
<1>4. /\ h \in [1 .. N -> I]
      /\ \A k \in 1 .. N : list[k] = s[h[k]]
      /\ \A i \in I : \E k \in 1 .. N : h[k] = i
      /\ \A j, k \in 1 .. N : h[j] = h[k] => j = k
    BY <1>1 DEF Numbers
<1>5. PICK g : g = [k \in 1 .. N + 1 |-> IF k = N + 1 THEN n ELSE h[k]]
    OBVIOUS
<1>6. \A k \in 1 .. N + 1 : k # N + 1 => k \in 1 .. N
    BY <1>1
<1>7. 1 .. N \subseteq 1 .. N + 1 /\ N + 1 \in 1 .. N + 1 /\ N + 1 \notin 1 .. N
    BY <1>1
<1>8. g[N + 1] = n /\ \A k \in 1 .. N : g[k] = h[k] /\ g[k] # n
    BY <1>4, <1>5, <1>7
<1>9. g \in [1 .. N + 1 -> I \cup {n}]
    BY <1>4, <1>5, <1>6
<1>10. \A k \in 1 .. N + 1 : more[k] = s[g[k]]
    BY <1>3, <1>4, <1>6, <1>8
<1>11. \A i \in I \cup {n} : \E k \in 1 .. N + 1 : g[k] = i
    BY <1>4, <1>7, <1>8
<1>12. \A j, k \in 1 .. N + 1 : g[j] = g[k] => j = k
    BY <1>4, <1>6, <1>8
<1>13. Numbers(g, more, s, I \cup {n})
    BY <1>3, <1>9, <1>10, <1>11, <1>12 DEF Numbers
<1>14. QED
    BY <1>2, <1>13

\* The loop that keeps the entries of s at the positions I.
LEMMA KeptLoop ==
    ASSUME NEW s, IsList(s), NEW I
    PROVE  \E kept : /\ Kept(s, I) = kept[Len(s)] /\ kept[0] = <<>>
                     /\ \A n \in 1 .. Len(s) :
                            kept[n] = IF n \in I THEN Append(kept[n - 1], s[n])
                                      ELSE kept[n - 1]
<1> DEFINE V == Seq(ToSet(s))
           loop(kept) == kept = [n \in 0 .. Len(s) |->
                            IF n = 0 THEN <<>>
                            ELSE IF n \in I THEN Append(kept[n - 1], s[n]) ELSE kept[n - 1]]
<1>1. Len(s) \in Nat /\ DOMAIN s = 1 .. Len(s) /\ \A n \in 1 .. Len(s) : s[n] \in ToSet(s)
    BY DEF IsList, ToSet
<1>2. PICK F : F = [p \in (1 .. Len(s)) \X V |->
                      IF p[1] \in I THEN Append(p[2], s[p[1]]) ELSE p[2]]
    OBVIOUS
<1>3. \A n \in 1 .. Len(s), l \in V :
          /\ F[<<n, l>>] = IF n \in I THEN Append(l, s[n]) ELSE l
          /\ F[<<n, l>>] \in V
    BY <1>1, <1>2
<1>4. F \in [(1 .. Len(s)) \X V -> V]
    BY <1>1, <1>2
<1>5. PICK f : Runs(f, Len(s), V, <<>>, F)
  <2>1. <<>> \in V /\ Len(s) \in Nat
    BY <1>1
  <2> HIDE DEF V
  <2>2. QED
    BY <2>1, <1>4, LoopExists
<1>6. loop(f)
  <2>1. ASSUME NEW n \in 0 .. Len(s)
        PROVE  f[n] = IF n = 0 THEN <<>>
                      ELSE IF n \in I THEN Append(f[n - 1], s[n]) ELSE f[n - 1]
    <3>1. n # 0 => n \in 1 .. Len(s) /\ n - 1 \in 0 .. Len(s)
      BY <1>1
    <3> HIDE DEF V
    <3>2. n # 0 => f[n - 1] \in V
      BY <3>1, <1>5 DEF Runs
    <3>3. f[n] = IF n = 0 THEN <<>> ELSE F[<<n, f[n - 1]>>]
      BY <3>1, <1>5 DEF Runs
    <3>4. QED
      BY <3>1, <3>2, <3>3, <1>3
  <2>2. f = [n \in 0 .. Len(s) |-> f[n]]
    BY <1>5 DEF Runs
  <2>3. QED
    BY <2>1, <2>2, Zenon
<1>7. Kept(s, I) = (CHOOSE kept : loop(kept))[Len(s)]
    BY Zenon DEF Kept
<1>8. PICK kept : loop(kept) /\ Kept(s, I) = kept[Len(s)]
    BY <1>6, <1>7, Zenon
<1>9. \A n \in 0 .. Len(s) :
          kept[n] = IF n = 0 THEN <<>>
                    ELSE IF n \in I THEN Append(kept[n - 1], s[n]) ELSE kept[n - 1]
    BY <1>8, Zenon
<1>10. QED
  <2>1. 0 \in 0 .. Len(s) /\ \A n \in 1 .. Len(s) : n \in 0 .. Len(s) /\ n # 0
    BY <1>1
  <2>2. QED
    BY <1>8, <1>9, <2>1, Zenon

\* Kept lists exactly the entries at the positions, each of them once.
LEMMA KeptEach ==
    ASSUME NEW s, IsList(s), NEW I \in SUBSET DOMAIN s
    PROVE  /\ Kept(s, I) \in Seq(ToSet(s))
           /\ \E h : Numbers(h, Kept(s, I), s, I)
<1>1. Len(s) \in Nat /\ DOMAIN s = 1 .. Len(s) /\ \A n \in 1 .. Len(s) : s[n] \in ToSet(s)
    BY DEF IsList, ToSet
<1>2. PICK kept : /\ Kept(s, I) = kept[Len(s)] /\ kept[0] = <<>>
                  /\ \A n \in 1 .. Len(s) :
                         kept[n] = IF n \in I THEN Append(kept[n - 1], s[n])
                                   ELSE kept[n - 1]
    BY KeptLoop
<1> DEFINE upto(n) == {i \in I : i <= n}
           good(n) == kept[n] \in Seq(ToSet(s)) /\ \E h : Numbers(h, kept[n], s, upto(n))
           P == {n \in 0 .. Len(s) : good(n)}
<1>3. good(0)
  <2>1. upto(0) = {}
    BY <1>1
  <2>2. PICK h : h = [k \in 1 .. 0 |-> 0]
    OBVIOUS
  <2>3. Numbers(h, <<>>, s, {})
    BY <2>2 DEF Numbers
  <2>4. kept[0] \in Seq(ToSet(s)) /\ Numbers(h, kept[0], s, upto(0))
    <3>1. <<>> \in Seq(ToSet(s))
      OBVIOUS
    <3>2. QED
      BY <1>2, <2>1, <2>3, <3>1, Zenon
  <2>5. QED
    BY <2>4
<1>4. ASSUME NEW n \in 1 .. Len(s), good(n - 1)
      PROVE  good(n)
  <2>1. PICK h : Numbers(h, kept[n - 1], s, upto(n - 1))
    BY <1>4
  <2>2. s[n] \in ToSet(s) /\ kept[n - 1] \in Seq(ToSet(s)) /\ n \notin upto(n - 1)
    BY <1>1, <1>4
  <2>3. CASE n \in I
    <3>1. kept[n] = Append(kept[n - 1], s[n])
      BY <1>2, <2>3
    <3>2. upto(n) = upto(n - 1) \cup {n}
      BY <1>1, <2>3
    <3>3. kept[n] \in Seq(ToSet(s))
      BY <2>2, <3>1
    <3> HIDE DEF upto
    <3>4. \E g : Numbers(g, Append(kept[n - 1], s[n]), s, upto(n - 1) \cup {n})
      BY <2>1, <2>2, NumbersOneMore
    <3>5. QED
      BY <3>1, <3>2, <3>3, <3>4
  <2>4. CASE n \notin I
    <3>1. kept[n] = kept[n - 1] /\ upto(n) = upto(n - 1)
      BY <1>1, <1>2, <2>4
    <3>2. QED
      BY <3>1, <1>4
  <2>5. QED
    BY <2>3, <2>4
<1>5. good(Len(s))
  <2> HIDE DEF good
  <2>1. 0 \in P /\ \A n \in 1 .. Len(s) : n - 1 \in P => n \in P
    BY <1>1, <1>3, <1>4
  <2>2. Len(s) \in P
    <3> HIDE DEF P
    <3>1. \A n \in 0 .. Len(s) : n \in P
      BY <1>1, <2>1, UpTo
    <3>2. QED
      BY <1>1, <3>1
  <2>3. QED
    BY <2>2
<1>6. upto(Len(s)) = I
    BY <1>1
<1>7. QED
    BY <1>2, <1>5, <1>6

\* So its entries are those of s at the positions.
LEMMA KeptSet ==
    ASSUME NEW s, IsList(s), NEW I \in SUBSET DOMAIN s
    PROVE  /\ Kept(s, I) \in Seq(ToSet(s))
           /\ ToSet(Kept(s, I)) = {s[i] : i \in I}
<1>1. PICK h : Numbers(h, Kept(s, I), s, I)
    BY KeptEach
<1>2. PICK list : list = Kept(s, I) /\ list \in Seq(ToSet(s))
    BY KeptEach
<1>3. ToSet(list) = {list[k] : k \in 1 .. Len(list)}
    BY <1>2 DEF ToSet
<1>4. /\ \A k \in 1 .. Len(list) : list[k] = s[h[k]] /\ h[k] \in I
      /\ \A i \in I : \E k \in 1 .. Len(list) : h[k] = i
    BY <1>1, <1>2 DEF Numbers
<1>5. {list[k] : k \in 1 .. Len(list)} = {s[i] : i \in I}
    BY <1>4
<1>6. QED
    BY <1>2, <1>3, <1>5

-----------------------------------------------------------------------------
(* Loops written as folds over a sequence take the last position first.     *)

LastOfSet(N) == [s \in SUBSET (1 .. N) |-> Max(s)]

LEMMA FoldByPosition ==
    ASSUME NEW N \in Nat, NEW V, NEW base \in V, NEW F \in [(1 .. N) \X V -> V]
    PROVE  \E it : FoldsTo(it, 1 .. N, V, LastOfSet(N), base, F)
<1>1. IsFiniteSet(1 .. N)
    BY FS_Interval
<1>2. \A s \in SUBSET (1 .. N) : s # {} => LastOfSet(N)[s] \in s
    BY MaxOf DEF LastOfSet
<1>3. QED
    BY <1>1, <1>2, FoldExists

LEMMA LastPosition ==
    ASSUME NEW N \in Nat, NEW n \in 1 .. N
    PROVE  /\ Max(1 .. n) = n /\ (1 .. n) \ {Max(1 .. n)} = 1 .. n - 1
           /\ 1 .. n \in SUBSET (1 .. N) /\ 1 .. n # {}
<1>1. n \in 1 .. n /\ \A y \in 1 .. n : n >= y
    OBVIOUS
<1>2. \A x \in 1 .. n : (\A y \in 1 .. n : x >= y) => x = n
    OBVIOUS
<1>3. Max(1 .. n) = n
    BY <1>1, <1>2 DEF Max
<1>4. (1 .. n) \ {n} = 1 .. n - 1
    OBVIOUS
<1>5. QED
    BY <1>1, <1>3, <1>4

-----------------------------------------------------------------------------
(* Walks and routes of flow_path.                                          *)

\* The edges that leave a node.
LEMMA Leaving ==
    ASSUME NEW edges, IsList(edges), NEW node
    PROVE  /\ Adjacency(edges, node) \in Seq(ToSet(edges))
           /\ \A e : e \in ToSet(Adjacency(edges, node))
                     <=> e \in ToSet(edges) /\ e.from = node
<1>1. PICK I : I = {i \in DOMAIN edges : edges[i].from = node}
    OBVIOUS
<1>2. PICK list : list = Kept(edges, I)
    OBVIOUS
<1>3. list \in Seq(ToSet(edges)) /\ ToSet(list) = {edges[i] : i \in I}
    BY <1>1, <1>2, KeptSet
<1>4. \A e : e \in {edges[i] : i \in I} <=> e \in ToSet(edges) /\ e.from = node
    BY <1>1 DEF ToSet
<1>5. Adjacency(edges, node) = list
    BY <1>1, <1>2, Zenon DEF Adjacency
<1>6. QED
    BY <1>3, <1>4, <1>5

\* Where only one does.
LEMMA OnlyEdge ==
    ASSUME NEW edges, IsList(edges), NEW node, Len(Adjacency(edges, node)) = 1
    PROVE  /\ Adjacency(edges, node)[1] \in ToSet(edges)
           /\ Adjacency(edges, node)[1].from = node
           /\ \A e \in ToSet(edges) : e.from = node => e = Adjacency(edges, node)[1]
<1>1. PICK list : list = Adjacency(edges, node)
    OBVIOUS
<1>2. /\ list \in Seq(ToSet(edges)) /\ Len(list) = 1
      /\ \A e : e \in ToSet(list) <=> e \in ToSet(edges) /\ e.from = node
    BY <1>1, Leaving
<1>3. \A e : e \in ToSet(list) <=> e = list[1]
    BY <1>2 DEF ToSet
<1>4. QED
    BY <1>1, <1>2, <1>3

\* One round of the walk stays on a sequence of edges.
LEMMA WalkStepType ==
    ASSUME NEW edges, IsList(edges), NEW start, NEW terminal, NEW budget,
           NEW path \in Seq(ToSet(edges))
    PROVE  WalkStep(edges, start, terminal, budget, path) \in Seq(ToSet(edges))
<1>1. PICK outgoing, goes :
          /\ outgoing = Adjacency(edges, Ends(path, start))
          /\ goes = (/\ Ends(path, start) # terminal
                     /\ Len(path) < budget.hops /\ Len(path) < budget.edges
                     /\ Cardinality(Visited(path, start)) < budget.nodes
                     /\ Len(outgoing) = 1
                     /\ outgoing[1].to \notin Visited(path, start))
    OBVIOUS
<1>2. WalkStep(edges, start, terminal, budget, path) =
          IF goes THEN Append(path, outgoing[1]) ELSE path
    BY <1>1, Zenon DEF WalkStep
<1>3. goes => outgoing[1] \in ToSet(edges)
    BY <1>1, OnlyEdge
<1>4. QED
    BY <1>2, <1>3

\* w is the history of a walk.
Walks(w, edges, start, terminal, budget) ==
    /\ w[0] = <<>>
    /\ \A n \in 1 .. Len(edges) : w[n] = WalkStep(edges, start, terminal, budget, w[n - 1])
    /\ \A n \in 0 .. Len(edges) : w[n] \in Seq(ToSet(edges))

LEMMA WalkLoop ==
    ASSUME NEW edges, IsList(edges), NEW start, NEW terminal, NEW budget
    PROVE  \E w : /\ Walks(w, edges, start, terminal, budget)
                  /\ Walk(edges, start, terminal, budget) = w[Len(edges)]
<1> DEFINE step(path) == WalkStep(edges, start, terminal, budget, path)
           fold(it) == it = [S \in SUBSET DOMAIN edges |->
                               IF S = {} THEN <<>> ELSE step(it[S \ {Max(S)}])]
<1>1. PICK N, V : N = Len(edges) /\ V = Seq(ToSet(edges))
    OBVIOUS
<1>2. N \in Nat /\ DOMAIN edges = 1 .. N /\ <<>> \in V
    BY <1>1 DEF IsList
<1>3. \A path \in V : step(path) \in V
    BY <1>1, WalkStepType
<1> HIDE DEF step
<1>4. PICK F : F = [p \in (1 .. N) \X V |-> step(p[2])]
    OBVIOUS
<1>5. F \in [(1 .. N) \X V -> V] /\ \A n \in 1 .. N, l \in V : F[<<n, l>>] = step(l)
    BY <1>3, <1>4
<1>6. PICK it : FoldsTo(it, 1 .. N, V, LastOfSet(N), <<>>, F)
    BY <1>2, <1>5, FoldByPosition
<1>7. fold(it)
  <2>1. it \in [SUBSET (1 .. N) -> V] /\ it[{}] = <<>>
    BY <1>6 DEF FoldsTo
  <2>2. ASSUME NEW S \in SUBSET (1 .. N), S # {}
        PROVE  it[S] = step(it[S \ {Max(S)}])
    <3>1. LastOfSet(N)[S] = Max(S) /\ Max(S) \in 1 .. N
      BY <1>2, <2>2, MaxOf DEF LastOfSet
    <3>2. it[S] = F[<<LastOfSet(N)[S], it[S \ {LastOfSet(N)[S]}]>>]
      BY <1>6, <2>2 DEF FoldsTo
    <3>3. S \ {Max(S)} \in SUBSET (1 .. N)
      OBVIOUS
    <3>4. it[S \ {Max(S)}] \in V
      BY <2>1, <3>3
    <3>5. QED
      BY <1>5, <3>1, <3>2, <3>4
  <2>3. \A S \in SUBSET (1 .. N) :
            it[S] = IF S = {} THEN <<>> ELSE step(it[S \ {Max(S)}])
    BY <2>1, <2>2
  <2>4. it = [S \in SUBSET (1 .. N) |-> it[S]]
    BY <2>1
  <2>5. it = [S \in SUBSET (1 .. N) |-> IF S = {} THEN <<>> ELSE step(it[S \ {Max(S)}])]
    BY <2>3, <2>4, Zenon
  <2>6. QED
    BY <1>2, <2>5, Zenon
<1>8. Walk(edges, start, terminal, budget) = (CHOOSE f : fold(f))[DOMAIN edges]
    BY Zenon DEF Walk, FoldLeft, MapThenFoldSet, step
<1>9. PICK f : fold(f) /\ Walk(edges, start, terminal, budget) = f[DOMAIN edges]
    BY <1>7, <1>8, Zenon
<1>10. \A S \in SUBSET (1 .. N) : f[S] = IF S = {} THEN <<>> ELSE step(f[S \ {Max(S)}])
    BY <1>2, <1>9, Zenon
<1>11. PICK w : w = [n \in 0 .. N |-> f[1 .. n]]
    OBVIOUS
<1>12. w[0] = <<>>
  <2>1. 1 .. 0 = {} /\ {} \in SUBSET (1 .. N) /\ 0 \in 0 .. N
    BY <1>2
  <2>2. w[0] = f[1 .. 0]
    BY <1>11, <2>1
  <2>3. QED
    BY <2>1, <2>2, <1>10
<1>13. ASSUME NEW n \in 1 .. N
       PROVE  w[n] = step(w[n - 1])
  <2>1. /\ (1 .. n) \ {Max(1 .. n)} = 1 .. n - 1
        /\ 1 .. n \in SUBSET (1 .. N) /\ 1 .. n # {}
    BY <1>2, LastPosition
  <2>2. n \in 0 .. N /\ n - 1 \in 0 .. N
    BY <1>2
  <2>3. w[n] = f[1 .. n] /\ w[n - 1] = f[1 .. n - 1]
    BY <1>11, <2>2
  <2>4. f[1 .. n] = step(f[(1 .. n) \ {Max(1 .. n)}])
    BY <2>1, <1>10
  <2>5. QED
    BY <2>1, <2>3, <2>4, Zenon
<1>14. \A n \in 0 .. N : w[n] \in V
  <2>1. PICK P : P = {n \in 0 .. N : w[n] \in V}
    OBVIOUS
  <2>2. 0 \in P /\ \A n \in 1 .. N : n - 1 \in P => n \in P
    BY <1>2, <1>3, <1>12, <1>13, <2>1
  <2>3. \A n \in 0 .. N : n \in P
    BY <1>2, <2>2, UpTo
  <2>4. QED
    BY <2>1, <2>3
<1>15. w[N] = f[DOMAIN edges]
    BY <1>2, <1>11
<1>16. Walks(w, edges, start, terminal, budget)
    BY <1>1, <1>12, <1>13, <1>14 DEF Walks, step
<1>17. QED
    BY <1>1, <1>9, <1>15, <1>16

\* p leads from start along the only edges there are and visits no node twice.
Chain(edges, start, p) ==
    /\ p \in Seq(ToSet(edges))
    /\ \A i \in 1 .. Len(p) : p[i].from = IF i = 1 THEN start ELSE p[i - 1].to
    /\ \A i \in 1 .. Len(p) : Len(Adjacency(edges, p[i].from)) = 1
    /\ IsFiniteSet(Visited(p, start)) /\ Cardinality(Visited(p, start)) = Len(p) + 1

Positive(budget) ==
    /\ budget.hops \in Nat \ {0} /\ budget.nodes \in Nat \ {0} /\ budget.edges \in Nat \ {0}

LEMMA ChainStart ==
    ASSUME NEW edges, NEW start
    PROVE  Chain(edges, start, <<>>)
<1>1. Visited(<<>>, start) = {start}
  <2>1. ToSet(<<>>) = {}
    BY DEF ToSet
  <2>2. QED
    BY <2>1 DEF Visited
<1>2. IsFiniteSet({start}) /\ Cardinality({start}) = 1
    BY FS_Singleton
<1>3. <<>> \in Seq(ToSet(edges)) /\ Len(<<>>) = 0
    OBVIOUS
<1>4. QED
    BY <1>1, <1>2, <1>3 DEF Chain

\* What one more edge adds to a path.
LEMMA OneMoreEdge ==
    ASSUME NEW S, NEW p \in Seq(S), NEW e \in S, NEW start
    PROVE  /\ Visited(Append(p, e), start) = Visited(p, start) \cup {e.to}
           /\ Ends(Append(p, e), start) = e.to
<1>1. PICK q : q = Append(p, e)
    OBVIOUS
<1>2. /\ q \in Seq(S) /\ Len(q) = Len(p) + 1 /\ q[Len(p) + 1] = e /\ Len(p) \in Nat
      /\ \A k \in 1 .. Len(p) : q[k] = p[k]
    BY <1>1
<1>3. ToSet(q) = ToSet(p) \cup {e}
  <2>1. ToSet(q) = {q[k] : k \in 1 .. Len(p) + 1} /\ ToSet(p) = {p[k] : k \in 1 .. Len(p)}
    BY <1>2 DEF ToSet
  <2>2. \A k \in 1 .. Len(p) + 1 : k \in 1 .. Len(p) \/ k = Len(p) + 1
    BY <1>2
  <2>3. 1 .. Len(p) \subseteq 1 .. Len(p) + 1 /\ Len(p) + 1 \in 1 .. Len(p) + 1
    BY <1>2
  <2>4. QED
    BY <1>2, <2>1, <2>2, <2>3
<1>4. Visited(q, start) = Visited(p, start) \cup {e.to}
    BY <1>3 DEF Visited
<1>5. q # <<>> /\ Last(q) = e
    BY <1>2 DEF Last
<1>6. Ends(q, start) = e.to
    BY <1>5, Zenon DEF Ends
<1>7. QED
    BY <1>1, <1>4, <1>6

\* The only edge that leaves the end of a chain, to a node not yet visited, makes
\* it longer.
LEMMA ChainStep ==
    ASSUME NEW edges, IsList(edges), NEW start, NEW p, Chain(edges, start, p),
           NEW e, Len(Adjacency(edges, Ends(p, start))) = 1,
           e = Adjacency(edges, Ends(p, start))[1], e.to \notin Visited(p, start)
    PROVE  Chain(edges, start, Append(p, e)) /\ Len(Append(p, e)) = Len(p) + 1
<1>1. p \in Seq(ToSet(edges)) /\ Len(p) \in Nat
    BY DEF Chain
<1>2. e \in ToSet(edges) /\ e.from = Ends(p, start)
    BY OnlyEdge
<1>3. PICK q : q = Append(p, e)
    OBVIOUS
<1>4. /\ q \in Seq(ToSet(edges)) /\ Len(q) = Len(p) + 1 /\ q[Len(p) + 1] = e
      /\ \A k \in 1 .. Len(p) : q[k] = p[k]
    BY <1>1, <1>2, <1>3
<1>5. Visited(q, start) = Visited(p, start) \cup {e.to}
    BY <1>1, <1>2, <1>3, OneMoreEdge
<1>6. IsFiniteSet(Visited(q, start)) /\ Cardinality(Visited(q, start)) = Len(q) + 1
  <2>1. IsFiniteSet(Visited(p, start)) /\ Cardinality(Visited(p, start)) = Len(p) + 1
    BY DEF Chain
  <2>2. QED
    BY <2>1, <1>4, <1>5, FS_AddElement
<1>7. ASSUME NEW i \in 1 .. Len(q)
      PROVE  /\ q[i].from = IF i = 1 THEN start ELSE q[i - 1].to
             /\ Len(Adjacency(edges, q[i].from)) = 1
  <2>1. CASE i = Len(p) + 1
    <3>1. q[i] = e
      BY <2>1, <1>4
    <3>2. e.from = IF i = 1 THEN start ELSE q[i - 1].to
      <4>1. CASE i = 1
        <5>1. p = <<>>
          BY <4>1, <2>1, <1>1
        <5>2. QED
          BY <4>1, <5>1, <1>2 DEF Ends
      <4>2. CASE i # 1
        <5>1. p # <<>> /\ i - 1 = Len(p) /\ Len(p) \in 1 .. Len(p)
          BY <4>2, <2>1, <1>1
        <5>2. e.from = p[Len(p)].to
          BY <5>1, <1>2 DEF Ends, Last
        <5>3. q[i - 1] = p[Len(p)]
          BY <5>1, <1>4
        <5>4. QED
          BY <4>2, <5>2, <5>3
      <4>3. QED
        BY <4>1, <4>2
    <3>3. QED
      BY <3>1, <3>2, <1>2
  <2>2. CASE i # Len(p) + 1
    <3>1. i \in 1 .. Len(p) /\ (i # 1 => i - 1 \in 1 .. Len(p))
      BY <2>2, <1>1, <1>4
    <3>2. q[i] = p[i] /\ (i # 1 => q[i - 1] = p[i - 1])
      BY <3>1, <1>4
    <3>3. QED
      BY <3>1, <3>2 DEF Chain
  <2>3. QED
    BY <2>1, <2>2
<1>8. Chain(edges, start, q)
    BY <1>4, <1>6, <1>7 DEF Chain
<1>9. QED
    BY <1>3, <1>4, <1>8

\* Every prefix of a walk is a chain within the budget.
LEMMA WalkIsChain ==
    ASSUME NEW edges, IsList(edges), NEW start, NEW terminal,
           NEW budget, Positive(budget),
           NEW w, Walks(w, edges, start, terminal, budget)
    PROVE  \A n \in 0 .. Len(edges) : /\ Chain(edges, start, w[n]) /\ Len(w[n]) <= n
                                      /\ WithinBudget(w[n], budget)
<1> DEFINE good(n) == /\ Chain(edges, start, w[n]) /\ Len(w[n]) <= n
                      /\ WithinBudget(w[n], budget)
<1>1. PICK N : N = Len(edges) /\ N \in Nat
    BY DEF IsList
<1>2. good(0)
  <2>1. w[0] = <<>> /\ Len(<<>>) = 0
    BY DEF Walks
  <2>2. WithinBudget(<<>>, budget)
    BY <2>1 DEF WithinBudget, Positive
  <2>3. QED
    BY <2>1, <2>2, ChainStart
<1>3. ASSUME NEW n \in 1 .. N, good(n - 1)
      PROVE  good(n)
  <2>1. PICK path : path = w[n - 1]
    OBVIOUS
  <2>2. PICK here, outgoing : here = Ends(path, start) /\ outgoing = Adjacency(edges, here)
    OBVIOUS
  <2>3. PICK goes :
            goes = (/\ here # terminal
                    /\ Len(path) < budget.hops /\ Len(path) < budget.edges
                    /\ Cardinality(Visited(path, start)) < budget.nodes
                    /\ Len(outgoing) = 1
                    /\ outgoing[1].to \notin Visited(path, start))
    OBVIOUS
  <2>4. w[n] = IF goes THEN Append(path, outgoing[1]) ELSE path
    <3>1. w[n] = WalkStep(edges, start, terminal, budget, path)
      BY <1>1, <2>1 DEF Walks
    <3>2. QED
      BY <3>1, <2>2, <2>3, Zenon DEF WalkStep
  <2>5. /\ Chain(edges, start, path) /\ Len(path) <= n - 1 /\ WithinBudget(path, budget)
        /\ Len(path) \in Nat /\ n \in Int
    BY <1>3, <2>1 DEF Chain
  <2>6. CASE goes
    <3> DEFINE q == Append(path, outgoing[1])
    <3>1. /\ Len(path) < budget.hops /\ Len(path) < budget.edges
          /\ Cardinality(Visited(path, start)) < budget.nodes
          /\ Len(outgoing) = 1 /\ outgoing[1].to \notin Visited(path, start)
      BY <2>3, <2>6, Zenon
    <3>2. Chain(edges, start, q) /\ Len(q) = Len(path) + 1
      BY <2>2, <2>5, <3>1, ChainStep
    <3> HIDE DEF q
    <3>3. Cardinality(Visited(path, start)) = Len(path) + 1
      BY <2>5 DEF Chain
    <3>4. WithinBudget(q, budget)
      BY <2>5, <3>1, <3>2, <3>3 DEF WithinBudget, Positive
    <3>5. Len(q) <= n
      BY <2>5, <3>2
    <3>6. QED
      BY <2>4, <2>6, <3>2, <3>4, <3>5 DEF q
  <2>7. CASE ~goes
    <3>1. w[n] = path
      BY <2>4, <2>7
    <3>2. QED
      BY <2>5, <3>1
  <2>8. QED
    BY <2>6, <2>7, <2>3
<1>4. PICK P : P = {n \in 0 .. N : good(n)}
    OBVIOUS
<1> HIDE DEF good
<1>5. 0 \in P /\ \A n \in 1 .. N : n - 1 \in P => n \in P
    BY <1>1, <1>2, <1>3, <1>4
<1>6. \A n \in 0 .. N : n \in P
    BY <1>1, <1>5, UpTo
<1>7. \A n \in 0 .. N : good(n)
    BY <1>4, <1>6
<1>8. QED
    BY <1>1, <1>7 DEF good

\* The nodes of a path, its start first.
NodesOf(p, start) == [i \in 0 .. Len(p) |-> IF i = 0 THEN start ELSE p[i].to]

\* A path that visits as many nodes as it has ends visits none twice.
LEMMA NodesDistinct ==
    ASSUME NEW S, NEW p \in Seq(S), NEW start,
           Cardinality(Visited(p, start)) = Len(p) + 1
    PROVE  \A i, j \in 0 .. Len(p) : NodesOf(p, start)[i] = NodesOf(p, start)[j] => i = j
<1>1. PICK L, T, f : L = Len(p) /\ T = Visited(p, start) /\ f = NodesOf(p, start)
    OBVIOUS
<1>2. L \in Nat /\ f = [i \in 0 .. L |-> IF i = 0 THEN start ELSE p[i].to]
    BY <1>1 DEF NodesOf
<1>3. T = {start} \cup {p[k].to : k \in 1 .. L}
  <2>1. ToSet(p) = {p[k] : k \in 1 .. L}
    BY <1>1 DEF ToSet
  <2>2. QED
    BY <2>1, <1>1 DEF Visited
<1>4. /\ \A i \in 0 .. L : i # 0 => i \in 1 .. L
      /\ 1 .. L \subseteq 0 .. L /\ 0 \in 0 .. L /\ 0 \notin 1 .. L
    BY <1>2
<1>5. f \in [0 .. L -> T]
    BY <1>2, <1>3, <1>4
<1>6. \A t \in T : \E i \in 0 .. L : f[i] = t
    BY <1>2, <1>3, <1>4
<1>7. f \in Surjection(0 .. L, T)
    BY <1>5, <1>6 DEF Surjection
<1>8. IsFiniteSet(0 .. L) /\ Cardinality(0 .. L) = L + 1
    BY <1>2, FS_Interval
<1>9. f \in Injection(0 .. L, T)
    BY <1>1, <1>7, <1>8, FS_SurjSameCardinalityImpliesInj
<1>10. QED
    BY <1>1, <1>9 DEF Injection

\* Sequences of the same length with the same entries are equal.
LEMMA SameEntries ==
    ASSUME NEW S, NEW p \in Seq(S), NEW q \in Seq(S), Len(p) = Len(q),
           \A i \in 1 .. Len(p) : p[i] = q[i]
    PROVE  p = q
<1>1. p = [i \in 1 .. Len(p) |-> p[i]] /\ q = [i \in 1 .. Len(q) |-> q[i]]
    OBVIOUS
<1>2. QED
    BY <1>1

\* A route is a sequence of edges, no longer than their list, whose ends and edges
\* are given by its nodes.
LEMMA RouteParts ==
    ASSUME NEW edges, IsList(edges), NEW start, NEW terminal,
           NEW p \in Routes(edges, start, terminal)
    PROVE  /\ p \in Seq(ToSet(edges)) /\ Len(p) \in 0 .. Len(edges)
           /\ NodesOf(p, start)[Len(p)] = terminal
           /\ \A i \in 1 .. Len(p) : /\ p[i] \in ToSet(edges)
                                     /\ p[i].from = NodesOf(p, start)[i - 1]
                                     /\ p[i].to = NodesOf(p, start)[i]
                                     /\ Len(Adjacency(edges, p[i].from)) = 1
           /\ \A i, j \in 0 .. Len(p) : NodesOf(p, start)[i] = NodesOf(p, start)[j] => i = j
<1>1. /\ p \in SeqOf(ToSet(edges), Len(edges)) /\ Ends(p, start) = terminal
      /\ \A i \in DOMAIN p : p[i].from = IF i = 1 THEN start ELSE p[i - 1].to
      /\ Cardinality(Visited(p, start)) = Len(p) + 1
      /\ \A i \in DOMAIN p : Len(Adjacency(edges, p[i].from)) = 1
    BY DEF Routes, IsRoute
<1>2. Len(edges) \in Nat
    BY DEF IsList
<1>3. PICK m \in 0 .. Len(edges) : p \in [1 .. m -> ToSet(edges)]
    BY <1>1 DEF SeqOf
<1>4. p \in Seq(ToSet(edges)) /\ Len(p) = m /\ DOMAIN p = 1 .. m /\ m \in Nat
    BY <1>2, <1>3
<1>5. PICK f : f = NodesOf(p, start)
    OBVIOUS
<1>6. f[0] = start /\ \A i \in 1 .. m : f[i] = p[i].to
    BY <1>4, <1>5 DEF NodesOf
<1>7. f[m] = terminal
  <2>1. CASE m = 0
    <3>1. p = <<>>
      BY <1>4, <2>1
    <3>2. QED
      BY <1>1, <1>6, <2>1, <3>1 DEF Ends
  <2>2. CASE m # 0
    <3>1. p # <<>> /\ m \in 1 .. m
      BY <1>4, <2>2
    <3>2. QED
      BY <1>1, <1>4, <1>6, <3>1 DEF Ends, Last
  <2>3. QED
    BY <2>1, <2>2
<1>8. \A i \in 1 .. m : p[i].from = f[i - 1]
  <2>1. \A i \in 1 .. m : i # 1 => i - 1 \in 1 .. m
    BY <1>4
  <2>2. \A i \in 1 .. m : i = 1 => i - 1 = 0
    OBVIOUS
  <2>3. QED
    BY <1>1, <1>4, <1>6, <2>1, <2>2
<1>9. \A i, j \in 0 .. m : f[i] = f[j] => i = j
    BY <1>1, <1>4, <1>5, NodesDistinct
<1>10. QED
    BY <1>1, <1>3, <1>4, <1>5, <1>6, <1>7, <1>8, <1>9

\* The walk follows a route within its budget to the end.
LEMMA RouteIsWalked ==
    ASSUME NEW edges, IsList(edges), NEW start, NEW terminal,
           NEW budget, Positive(budget),
           NEW p \in Routes(edges, start, terminal), WithinBudget(p, budget),
           NEW w, Walks(w, edges, start, terminal, budget)
    PROVE  w[Len(edges)] = p
<1>1. PICK N, L, f, E : /\ N = Len(edges) /\ L = Len(p) /\ f = NodesOf(p, start)
                        /\ E = ToSet(edges)
    OBVIOUS
<1>2. /\ p \in Seq(E) /\ L \in 0 .. N /\ f[L] = terminal
      /\ \A i \in 1 .. L : /\ p[i] \in E /\ p[i].from = f[i - 1] /\ p[i].to = f[i]
                           /\ Len(Adjacency(edges, p[i].from)) = 1
      /\ \A i, j \in 0 .. L : f[i] = f[j] => i = j
    BY <1>1, RouteParts
<1>3. N \in Nat /\ L \in Nat /\ L <= N
    BY <1>1, <1>2 DEF IsList
<1>4. f[0] = start
    BY <1>1, <1>3 DEF NodesOf
<1>5. \A n \in 0 .. N : w[n] \in Seq(E)
    BY <1>1 DEF Walks
<1> DEFINE good(n) == /\ Len(w[n]) = (IF n <= L THEN n ELSE L)
                      /\ \A i \in 1 .. Len(w[n]) : w[n][i] = p[i]
<1>6. good(0)
  <2>1. w[0] = <<>> /\ Len(<<>>) = 0
    BY DEF Walks
  <2>2. QED
    BY <1>3, <2>1
<1>7. ASSUME NEW n \in 1 .. N, good(n - 1)
      PROVE  good(n)
  <2>1. PICK path : path = w[n - 1]
    OBVIOUS
  <2>2. PICK here, outgoing : here = Ends(path, start) /\ outgoing = Adjacency(edges, here)
    OBVIOUS
  <2>3. PICK goes :
            goes = (/\ here # terminal
                    /\ Len(path) < budget.hops /\ Len(path) < budget.edges
                    /\ Cardinality(Visited(path, start)) < budget.nodes
                    /\ Len(outgoing) = 1
                    /\ outgoing[1].to \notin Visited(path, start))
    OBVIOUS
  <2>4. w[n] = IF goes THEN Append(path, outgoing[1]) ELSE path
    <3>1. w[n] = WalkStep(edges, start, terminal, budget, path)
      BY <1>1, <2>1 DEF Walks
    <3>2. QED
      BY <3>1, <2>2, <2>3, Zenon DEF WalkStep
  <2>5. n \in Int /\ n - 1 \in 0 .. N /\ n - 1 \in Nat
    BY <1>3
  <2>6. path \in Seq(E) /\ Len(path) \in Nat
    BY <1>5, <2>1, <2>5
  <2>7. /\ Len(path) = (IF n - 1 <= L THEN n - 1 ELSE L)
        /\ \A i \in 1 .. Len(path) : path[i] = p[i]
    BY <1>7, <2>1
  <2>8. here = f[Len(path)]
    <3>1. CASE Len(path) = 0
      <4>1. path = <<>>
        BY <2>6, <3>1
      <4>2. QED
        BY <1>4, <2>2, <3>1, <4>1 DEF Ends
    <3>2. CASE Len(path) # 0
      <4>1. path # <<>> /\ Len(path) \in 1 .. Len(path) /\ Len(path) \in 1 .. L
        BY <1>3, <2>5, <2>6, <2>7, <3>2
      <4>2. here = path[Len(path)].to
        BY <2>2, <4>1 DEF Ends, Last
      <4>3. QED
        BY <1>2, <2>7, <4>1, <4>2
    <3>3. QED
      BY <3>1, <3>2
  <2>9. CASE n - 1 >= L
    <3>1. Len(path) = L /\ ~(n <= L)
      BY <1>3, <2>5, <2>7, <2>9
    <3>2. here = terminal
      BY <1>2, <2>8, <3>1
    <3>3. ~goes
      BY <2>3, <3>2
    <3>4. w[n] = path
      BY <2>4, <3>3
    <3>5. QED
      BY <2>7, <3>1, <3>4
  <2>10. CASE n - 1 < L
    <3>1. Len(path) = n - 1 /\ n <= L /\ n \in 1 .. L /\ n \in 0 .. L /\ n - 1 \in 0 .. L
      BY <1>3, <2>5, <2>7, <2>10
    <3>2. p[n] \in E /\ p[n].from = here /\ p[n].to = f[n] /\ Len(outgoing) = 1
      BY <1>2, <2>2, <2>8, <3>1
    <3>3. outgoing[1] = p[n]
      BY <1>1, <2>2, <3>2, OnlyEdge
    <3>4. here # terminal
      <4>1. n - 1 # L /\ L \in 0 .. L
        BY <1>3, <3>1
      <4>2. QED
        BY <1>2, <2>8, <3>1, <4>1
    <3>5. p[n].to \notin Visited(path, start)
      <4>1. ASSUME p[n].to \in Visited(path, start)
            PROVE  FALSE
        <5>1. ToSet(path) = {path[k] : k \in 1 .. Len(path)}
          BY <2>6 DEF ToSet
        <5>2. f[n] = start \/ \E k \in 1 .. Len(path) : f[n] = path[k].to
          BY <3>2, <4>1, <5>1 DEF Visited
        <5>3. \A k \in 1 .. Len(path) : k \in 1 .. L /\ k \in 0 .. L /\ k # n
          BY <1>3, <2>5, <3>1
        <5>4. \A k \in 1 .. Len(path) : path[k].to = f[k]
          BY <1>2, <2>7, <5>3
        <5>5. PICK k \in 0 .. L : f[n] = f[k] /\ k # n
          BY <1>3, <1>4, <3>1, <5>2, <5>3, <5>4
        <5>6. QED
          BY <1>2, <3>1, <5>5
      <4>2. QED
        BY <4>1
    <3>6. Cardinality(Visited(path, start)) = Len(path) + 1
      <4>1. Chain(edges, start, path)
        BY <1>1, <2>1, <2>5, WalkIsChain
      <4>2. QED
        BY <4>1 DEF Chain
    <3>7. /\ Len(path) < budget.hops /\ Len(path) < budget.edges
          /\ Cardinality(Visited(path, start)) < budget.nodes
      BY <1>1, <1>3, <2>5, <3>1, <3>6 DEF WithinBudget, Positive
    <3>8. goes
      BY <2>3, <3>2, <3>3, <3>4, <3>5, <3>7, Zenon
    <3>9. w[n] = Append(path, p[n])
      BY <2>4, <3>3, <3>8
    <3>10. /\ Len(w[n]) = n /\ w[n][n] = p[n]
           /\ \A i \in 1 .. n - 1 : w[n][i] = path[i]
      BY <2>5, <2>6, <3>1, <3>2, <3>9
    <3>11. \A i \in 1 .. n : i = n \/ i \in 1 .. n - 1
      BY <2>5
    <3>12. QED
      BY <2>7, <3>1, <3>10, <3>11
  <2>11. QED
    BY <1>3, <2>5, <2>9, <2>10
<1>8. good(N)
  <2>1. PICK P : P = {n \in 0 .. N : good(n)}
    OBVIOUS
  <2> HIDE DEF good
  <2>2. 0 \in P /\ \A n \in 1 .. N : n - 1 \in P => n \in P
    BY <1>3, <1>6, <1>7, <2>1
  <2>3. \A n \in 0 .. N : n \in P
    BY <1>3, <2>2, UpTo
  <2>4. QED
    BY <1>3, <2>1, <2>3
<1>9. Len(w[N]) = L /\ w[N] \in Seq(E)
    BY <1>3, <1>5, <1>8
<1>10. w[N] = p
    BY <1>1, <1>2, <1>8, <1>9, SameEntries
<1>11. QED
    BY <1>1, <1>10

\* What the walk finds: it keeps to the budget; it is the route within the budget,
\* when there is one; and it is one when it ends at the terminal.
LEMMA WalkDecides ==
    ASSUME NEW edges, IsList(edges), NEW start, NEW terminal,
           NEW budget, Positive(budget),
           NEW walk, walk = Walk(edges, start, terminal, budget)
    PROVE  /\ walk \in Seq(ToSet(edges)) /\ WithinBudget(walk, budget)
           /\ \A p \in Routes(edges, start, terminal) : WithinBudget(p, budget) => p = walk
           /\ Ends(walk, start) = terminal => walk \in Routes(edges, start, terminal)
           /\ Ends(walk, start) # terminal =>
                  \A p \in Routes(edges, start, terminal) : ~WithinBudget(p, budget)
<1>1. PICK w : /\ Walks(w, edges, start, terminal, budget)
               /\ walk = w[Len(edges)]
    BY WalkLoop
<1>2. Len(edges) \in Nat /\ Len(edges) \in 0 .. Len(edges)
    BY DEF IsList
<1>3. Chain(edges, start, walk) /\ Len(walk) <= Len(edges) /\ WithinBudget(walk, budget)
    BY <1>1, <1>2, WalkIsChain
<1>4. \A p \in Routes(edges, start, terminal) : WithinBudget(p, budget) => p = walk
    BY <1>1, RouteIsWalked
<1>5. walk \in Seq(ToSet(edges)) /\ Len(walk) \in 0 .. Len(edges) /\ DOMAIN walk = 1 .. Len(walk)
    BY <1>2, <1>3 DEF Chain
<1>6. walk \in SeqOf(ToSet(edges), Len(edges))
  <2>1. walk \in [1 .. Len(walk) -> ToSet(edges)]
    BY <1>5
  <2>2. QED
    BY <1>5, <2>1 DEF SeqOf
<1>7. Ends(walk, start) = terminal => walk \in Routes(edges, start, terminal)
    BY <1>3, <1>5, <1>6 DEF Chain, Routes, IsRoute
<1>8. \A p \in Routes(edges, start, terminal) : Ends(p, start) = terminal
    BY DEF Routes, IsRoute
<1>9. QED
    BY <1>3, <1>4, <1>5, <1>7, <1>8

\* The chain reported when the seed leads nowhere is a walk, or nothing: it keeps to
\* the budget.
LEMMA ConfirmedWithin ==
    ASSUME NEW edges, IsList(edges), NEW terminal, NEW budget, Positive(budget)
    PROVE  WithinBudget(ConfirmedChainToTerminal(edges, terminal, budget), budget)
<1> DEFINE walk(n) == Walk(edges, edges[n].from, terminal, budget)
           V == {p \in Seq(ToSet(edges)) : WithinBudget(p, budget)}
<1>1. PICK N, dest : N = Len(edges) /\ dest = {e.to : e \in ToSet(edges)}
    OBVIOUS
<1> DEFINE better(n, best) ==
               IF /\ edges[n].from \notin dest /\ Ends(walk(n), edges[n].from) = terminal
                  /\ Len(walk(n)) > Len(best)
               THEN walk(n) ELSE best
           fold(it) == it = [S \in SUBSET DOMAIN edges |->
                               IF S = {} THEN <<>> ELSE better(Max(S), it[S \ {Max(S)}])]
<1>2. N \in Nat /\ DOMAIN edges = 1 .. N
    BY <1>1 DEF IsList
<1>3. <<>> \in V
  <2>1. Len(<<>>) = 0 /\ <<>> \in Seq(ToSet(edges))
    OBVIOUS
  <2>2. QED
    BY <2>1 DEF WithinBudget, Positive
<1>4. \A n \in 1 .. N : walk(n) \in V
    BY WalkDecides
<1> HIDE DEF V, walk
<1>5. \A n \in 1 .. N, best \in V : better(n, best) \in V
    BY <1>4
<1> HIDE DEF better
<1>6. PICK F : F = [p \in (1 .. N) \X V |-> better(p[1], p[2])]
    OBVIOUS
<1>7. /\ F \in [(1 .. N) \X V -> V]
      /\ \A n \in 1 .. N, best \in V : F[<<n, best>>] = better(n, best)
    BY <1>5, <1>6
<1>8. PICK it : FoldsTo(it, 1 .. N, V, LastOfSet(N), <<>>, F)
    BY <1>2, <1>3, <1>7, FoldByPosition
<1>9. fold(it)
  <2>1. it \in [SUBSET (1 .. N) -> V] /\ it[{}] = <<>>
    BY <1>8 DEF FoldsTo
  <2>2. ASSUME NEW S \in SUBSET (1 .. N), S # {}
        PROVE  it[S] = better(Max(S), it[S \ {Max(S)}])
    <3>1. LastOfSet(N)[S] = Max(S) /\ Max(S) \in 1 .. N
      BY <1>2, <2>2, MaxOf DEF LastOfSet
    <3>2. it[S] = F[<<LastOfSet(N)[S], it[S \ {LastOfSet(N)[S]}]>>]
      BY <1>8, <2>2 DEF FoldsTo
    <3>3. S \ {Max(S)} \in SUBSET (1 .. N)
      OBVIOUS
    <3>4. it[S \ {Max(S)}] \in V
      BY <2>1, <3>3
    <3>5. QED
      BY <1>7, <3>1, <3>2, <3>4
  <2>3. \A S \in SUBSET (1 .. N) :
            it[S] = IF S = {} THEN <<>> ELSE better(Max(S), it[S \ {Max(S)}])
    BY <2>1, <2>2
  <2>4. it = [S \in SUBSET (1 .. N) |-> it[S]]
    BY <2>1
  <2>5. it = [S \in SUBSET (1 .. N) |->
                 IF S = {} THEN <<>> ELSE better(Max(S), it[S \ {Max(S)}])]
    BY <2>3, <2>4, Zenon
  <2>6. QED
    BY <1>2, <2>5, Zenon
<1>10. ConfirmedChainToTerminal(edges, terminal, budget) = (CHOOSE f : fold(f))[DOMAIN edges]
    BY <1>1, Zenon DEF ConfirmedChainToTerminal, FoldLeft, MapThenFoldSet, better, walk
<1>11. PICK f : /\ fold(f)
                /\ ConfirmedChainToTerminal(edges, terminal, budget) = f[DOMAIN edges]
    BY <1>9, <1>10, Zenon
<1>12. \A S \in SUBSET (1 .. N) :
           f[S] = IF S = {} THEN <<>> ELSE better(Max(S), f[S \ {Max(S)}])
    BY <1>2, <1>11, Zenon
<1>13. PICK P : P = {n \in 0 .. N : f[1 .. n] \in V}
    OBVIOUS
<1>14. 0 \in P
  <2>1. 1 .. 0 = {} /\ {} \in SUBSET (1 .. N) /\ 0 \in 0 .. N
    BY <1>2
  <2>2. f[1 .. 0] = <<>>
    BY <2>1, <1>12
  <2>3. QED
    BY <2>1, <2>2, <1>3, <1>13
<1>15. ASSUME NEW n \in 1 .. N, n - 1 \in P
       PROVE  n \in P
  <2>1. /\ (1 .. n) \ {Max(1 .. n)} = 1 .. n - 1 /\ Max(1 .. n) = n
        /\ 1 .. n \in SUBSET (1 .. N) /\ 1 .. n # {}
    BY <1>2, LastPosition
  <2>2. f[1 .. n] = better(Max(1 .. n), f[(1 .. n) \ {Max(1 .. n)}])
    BY <2>1, <1>12
  <2>3. f[1 .. n] = better(n, f[1 .. n - 1])
    BY <2>1, <2>2, Zenon
  <2>4. f[1 .. n - 1] \in V
    BY <1>13, <1>15
  <2>5. f[1 .. n] \in V
    BY <2>3, <2>4, <1>5
  <2>6. n \in 0 .. N
    BY <1>2
  <2>7. QED
    BY <2>5, <2>6, <1>13
<1>16. \A n \in 0 .. N : n \in P
    BY <1>2, <1>14, <1>15, UpTo
<1>17. f[1 .. N] \in V
    BY <1>2, <1>13, <1>16
<1>18. QED
    BY <1>2, <1>11, <1>17 DEF V

\* A refusal names the code and the stage of one of the checks.
LEMMA RefusedBy ==
    ASSUME NEW checks, IsChecks(checks), FirstRefusal(checks) # NoRefusal
    PROVE  \E i \in DOMAIN checks : FirstRefusal(checks) = <<checks[i][2], checks[i][3]>>
<1>1. PICK hit : hit = {i \in DOMAIN checks : checks[i][1]}
    OBVIOUS
<1>2. FirstRefusal(checks) = IF hit = {} THEN NoRefusal
                             ELSE <<checks[Min(hit)][2], checks[Min(hit)][3]>>
    BY <1>1, Zenon DEF FirstRefusal
<1>3. hit # {}
    BY <1>2
<1>4. hit \in SUBSET Nat
    BY <1>1 DEF IsChecks
<1>5. Min(hit) \in hit
    BY <1>3, <1>4, MinOf
<1>6. QED
    BY <1>1, <1>2, <1>3, <1>5

\* The stages of the checks are among S.
StagesIn(checks, S) == IsChecks(checks) /\ \A i \in DOMAIN checks : checks[i][3] \in S

LEMMA StagesJoined ==
    ASSUME NEW S, NEW a, StagesIn(a, S), NEW b, StagesIn(b, S)
    PROVE  StagesIn(a \o b, S)
<1>1. PICK A, B : a \in Seq(A) /\ b \in Seq(B)
    BY DEF StagesIn, IsChecks
<1>2. a \in Seq(A \cup B) /\ b \in Seq(A \cup B)
    BY <1>1
<1>3. PICK c : c = a \o b
    OBVIOUS
<1>4. /\ c \in Seq(A \cup B) /\ Len(c) = Len(a) + Len(b) /\ Len(a) \in Nat /\ Len(b) \in Nat
      /\ \A i \in 1 .. Len(a) : c[i] = a[i]
      /\ \A i \in 1 .. Len(b) : c[Len(a) + i] = b[i]
    BY <1>2, <1>3
<1>5. ASSUME NEW i \in DOMAIN c
      PROVE  c[i][3] \in S
  <2>1. i \in 1 .. Len(a) \/ (i - Len(a) \in 1 .. Len(b) /\ i = Len(a) + (i - Len(a)))
    BY <1>4
  <2>2. CASE i \in 1 .. Len(a)
    <3>1. i \in DOMAIN a /\ c[i] = a[i]
      BY <1>1, <1>4, <2>2
    <3>2. QED
      BY <3>1 DEF StagesIn
  <2>3. CASE i - Len(a) \in 1 .. Len(b) /\ i = Len(a) + (i - Len(a))
    <3>1. i - Len(a) \in DOMAIN b /\ c[i] = b[i - Len(a)]
      BY <1>1, <1>4, <2>3
    <3>2. QED
      BY <3>1 DEF StagesIn
  <2>4. QED
    BY <2>1, <2>2, <2>3
<1>6. QED
    BY <1>3, <1>4, <1>5 DEF StagesIn, IsChecks

LEMMA StagesListed ==
    ASSUME NEW S, NEW a, NEW b, NEW c, NEW d
    PROVE  /\ a[3] \in S => StagesIn(<<a>>, S)
           /\ a[3] \in S /\ b[3] \in S => StagesIn(<<a, b>>, S)
           /\ a[3] \in S /\ b[3] \in S /\ c[3] \in S /\ d[3] \in S => StagesIn(<<a, b, c, d>>, S)
<1>1. ASSUME a[3] \in S
      PROVE  StagesIn(<<a>>, S)
  <2>1. PICK list : list = <<a>>
    OBVIOUS
  <2>2. list \in Seq({a}) /\ \A i \in DOMAIN list : list[i] = a
    BY <2>1
  <2>3. QED
    BY <1>1, <2>1, <2>2 DEF StagesIn, IsChecks
<1>2. ASSUME a[3] \in S, b[3] \in S
      PROVE  StagesIn(<<a, b>>, S)
  <2>1. PICK list : list = <<a, b>>
    OBVIOUS
  <2>2. list \in Seq({a, b}) /\ \A i \in DOMAIN list : list[i] \in {a, b}
    BY <2>1
  <2>3. QED
    BY <1>2, <2>1, <2>2 DEF StagesIn, IsChecks
<1>3. ASSUME a[3] \in S, b[3] \in S, c[3] \in S, d[3] \in S
      PROVE  StagesIn(<<a, b, c, d>>, S)
  <2>1. PICK list : list = <<a, b, c, d>>
    OBVIOUS
  <2>2. list \in Seq({a, b, c, d}) /\ \A i \in DOMAIN list : list[i] \in {a, b, c, d}
    BY <2>1
  <2>3. QED
    BY <1>3, <2>1, <2>2 DEF StagesIn, IsChecks
<1>4. QED
    BY <1>1, <1>2, <1>3

\* The edges of a replay are a list.
LEMMA EdgesListed ==
    ASSUME NEW replay, IsList(replay.txs), IsList(replay.internal)
    PROVE  IsList(FlowEdges(replay))
<1>1. PICK inner, outer : inner = InternalEdges(replay) /\ outer = TopLevelEdges(replay)
    OBVIOUS
<1>2. \E S : inner \in Seq(S)
  <2>1. PICK n : n = Len(replay.internal) /\ n \in Nat /\ DOMAIN replay.internal = 1 .. n
    BY DEF IsList
  <2>2. DOMAIN inner = 1 .. n /\ inner = [i \in 1 .. n |-> inner[i]]
    BY <1>1, <2>1 DEF InternalEdges
  <2>3. PICK S : S = {inner[i] : i \in 1 .. n}
    OBVIOUS
  <2>4. inner \in [1 .. n -> S]
    BY <2>2, <2>3
  <2>5. inner \in Seq(S)
    BY <2>1, <2>4
  <2>6. QED
    BY <2>5
<1>3. \E S : outer \in Seq(S)
  <2>1. PICK I : I = {i \in DOMAIN replay.txs : replay.txs[i].value # 0}
    OBVIOUS
  <2>2. PICK moving : moving = Kept(replay.txs, I)
    OBVIOUS
  <2>3. moving \in Seq(ToSet(replay.txs))
    BY <2>1, <2>2, KeptEach
  <2>4. PICK n : n = Len(moving) /\ n \in Nat /\ DOMAIN moving = 1 .. n
    BY <2>3
  <2>5. outer = [i \in DOMAIN moving |->
                    [from |-> moving[i].from, to |-> moving[i].to, amount |-> moving[i].value,
                     hash |-> moving[i].hash, kind |-> "native_top_level"]]
    BY <1>1, <2>1, <2>2, Zenon DEF TopLevelEdges
  <2>6. DOMAIN outer = 1 .. n /\ outer = [i \in 1 .. n |-> outer[i]]
    BY <2>4, <2>5
  <2>7. PICK S : S = {outer[i] : i \in 1 .. n}
    OBVIOUS
  <2>8. outer \in [1 .. n -> S]
    BY <2>6, <2>7
  <2>9. outer \in Seq(S)
    BY <2>4, <2>8
  <2>10. QED
    BY <2>9
<1>4. PICK A, B : inner \in Seq(A) /\ outer \in Seq(B)
    BY <1>2, <1>3
<1>5. inner \in Seq(A \cup B) /\ outer \in Seq(A \cup B)
    BY <1>4
<1>6. inner \o outer \in Seq(A \cup B)
    BY <1>5
<1>7. FlowEdges(replay) \in Seq(A \cup B)
    BY <1>1, <1>6 DEF FlowEdges
<1>8. QED
    BY <1>7 DEF IsList

\* The status, the walk and the stage of what trace_path builds.
LEMMA CompletePathParts ==
    ASSUME NEW replay, NEW walk, NEW r, r = CompleteTracePath(replay, walk)
    PROVE  /\ r.status = "complete" /\ r.value.walk = walk
           /\ StageOf(r) # "budget_traversal"
<1>1. PICK value, raws, evidence :
          /\ value = [type |-> "trace_path", walk |-> walk, frontier |-> <<>>]
          /\ raws = {e.amount : e \in ToSet(walk)}
          /\ evidence = Append(BuildPathGraph(replay, walk), ScopeEvidence(replay))
    OBVIOUS
<1>2. r = OneResult(replay.sources, value, raws, evidence, "complete", "", "")
    BY <1>1, Zenon DEF CompleteTracePath, PathResult, FlowResult
<1>3. r.status = "complete" /\ r.value = value /\ r.errors = <<>>
    BY <1>2 DEF OneResult
<1>4. QED
    BY <1>1, <1>3 DEF StageOf

LEMMA PartialPathParts ==
    ASSUME NEW request, NEW replay, NEW walk, NEW code, NEW stage, NEW r,
           r = PartialTracePath(request, replay, walk, code, stage)
    PROVE  r.status = "partial" /\ r.value.walk = walk /\ StageOf(r) = stage
<1>1. PICK from : from = IF walk # <<>> /\ walk[1].from = request.seed
                         THEN Last(walk).to ELSE request.seed
    OBVIOUS
<1>2. PICK value, raws, evidence :
          /\ value = [type |-> "trace_path", walk |-> walk,
                      frontier |-> <<from, request.terminal>>]
          /\ raws = {e.amount : e \in ToSet(walk)}
          /\ evidence = Append(BuildPathGraph(replay, walk), ScopeEvidence(replay))
    OBVIOUS
<1>3. r = OneResult(replay.sources, value, raws, evidence, "partial", code, stage)
    BY <1>1, <1>2, Zenon DEF PartialTracePath, PathResult, FlowResult
<1>4. PICK ids : ids = AllIds(evidence)
    OBVIOUS
<1>5. r.status = "partial" /\ r.value = value /\ r.errors = <<Error(code, stage, ids)>>
    BY <1>3, <1>4 DEF OneResult
<1>6. PICK one : one = <<Error(code, stage, ids)>>
    OBVIOUS
<1>7. one # <<>> /\ one[1].stage = stage
    BY <1>6 DEF Error
<1>8. QED
    BY <1>2, <1>5, <1>6, <1>7 DEF StageOf

LEMMA FailedStage ==
    ASSUME NEW code, NEW stage, NEW r, r = Failed(<<code, stage>>)
    PROVE  r.status = "failed" /\ StageOf(r) = stage
<1>1. PICK one, refusal : one = <<Error(code, stage, <<>>)>> /\ refusal = <<code, stage>>
    OBVIOUS
<1>2. refusal[1] = code /\ refusal[2] = stage
    BY <1>1
<1>3. r.status = "failed" /\ r.errors = <<Error(refusal[1], refusal[2], <<>>)>>
    BY <1>1 DEF Failed
<1>4. r.errors = one /\ one # <<>> /\ one[1].stage = stage
    BY <1>1, <1>2, <1>3 DEF Error
<1>5. QED
    BY <1>3, <1>4 DEF StageOf

\* What trace_path says of the graph is so, before the contract looks at it.
LEMMA TraceDecides ==
    ASSUME NEW i, FlowFormed(i), NEW r, r = TracePath(i.request, i.replay)
    PROVE  PathIsDecided(i, r)
<1>1. PICK request, replay : request = i.request /\ replay = i.replay
    OBVIOUS
<1>2. PICK edges, seed, terminal, budget :
          /\ edges = FlowEdges(replay) /\ seed = request.seed
          /\ terminal = request.terminal /\ budget = request.budgets
    OBVIOUS
<1>3. IsList(edges)
    BY <1>1, <1>2, EdgesListed DEF FlowFormed, Worth
<1>4. Positive(budget) /\ Positive(Unbounded)
  <2>1. Positive(budget)
    BY <1>1, <1>2 DEF FlowFormed, Positive
  <2>2. Unbounded.hops = 1000000 /\ Unbounded.nodes = 1000000 /\ Unbounded.edges = 1000000
    BY DEF Unbounded
  <2>3. QED
    BY <2>1, <2>2 DEF Positive
<1>5. PICK walk, far, fallback, routes :
          /\ walk = Walk(edges, seed, terminal, budget)
          /\ far = Walk(edges, seed, terminal, Unbounded)
          /\ fallback = ConfirmedChainToTerminal(edges, terminal, budget)
          /\ routes = Routes(edges, seed, terminal)
    OBVIOUS
<1>6. /\ WithinBudget(walk, budget)
      /\ \A p \in routes : WithinBudget(p, budget) => p = walk
      /\ Ends(walk, seed) = terminal => walk \in routes
      /\ Ends(walk, seed) # terminal => \A p \in routes : ~WithinBudget(p, budget)
    BY <1>3, <1>4, <1>5, WalkDecides
<1>7. /\ WithinBudget(far, Unbounded)
      /\ Ends(far, seed) = terminal => far \in routes
      /\ Ends(far, seed) # terminal => \A p \in routes : ~WithinBudget(p, Unbounded)
    BY <1>3, <1>4, <1>5, WalkDecides
<1>8. WithinBudget(fallback, budget)
    BY <1>3, <1>4, <1>5, ConfirmedWithin
<1>9. PICK near : near = {p \in routes : WithinBudget(p, budget)}
    OBVIOUS
<1>10. /\ Ends(walk, seed) = terminal => near = {walk}
       /\ Ends(walk, seed) # terminal => near = {}
       /\ Ends(far, seed) = terminal <=> \E p \in routes : WithinBudget(p, Unbounded)
    BY <1>6, <1>7, <1>9
<1>11. SUFFICES
          /\ r.status = "complete" <=> near # {} /\ replay.complete
          /\ r.status = "complete" => near = {r.value.walk}
          /\ StageOf(r) = "budget_traversal" <=> near = {} /\ Ends(far, seed) = terminal
          /\ r.status = "partial" => WithinBudget(r.value.walk, budget)
    BY <1>1, <1>2, <1>5, <1>9, <1>10 DEF PathIsDecided
<1>12. PICK missing : missing = (replay.internal = <<>> /\ IsInternalSource(seed, replay))
    OBVIOUS
<1>13. PICK done, open, cut, traced, ahead :
          /\ done = CompleteTracePath(replay, walk)
          /\ open = PartialTracePath(request, replay, walk, "source_unavailable", "scope_incomplete")
          /\ cut = PartialTracePath(request, replay, walk, "evidence_incomplete",
                                    "budget_traversal")
          /\ traced = PartialTracePath(request, replay, fallback, "trace_unavailable",
                                       "internal_edge_trace")
          /\ ahead = PartialTracePath(request, replay, fallback, "evidence_incomplete",
                                      "frontier_resolution")
    OBVIOUS
<1>14. PICK begun, nothing :
          /\ begun = PartialTracePath(request, replay, walk, "evidence_incomplete",
                                      "frontier_resolution")
          /\ nothing = Failed(<<"source_unavailable", "seed_resolution">>)
    OBVIOUS
<1>15. r = IF Ends(walk, seed) = terminal
           THEN IF replay.complete THEN done ELSE open
           ELSE CASE Ends(far, seed) = terminal -> cut
                  [] ~(Ends(far, seed) = terminal) /\ fallback # <<>> ->
                         IF missing THEN traced ELSE ahead
                  [] ~(Ends(far, seed) = terminal) /\ fallback = <<>> /\ walk # <<>> -> begun
                  [] OTHER -> nothing
  <2>1. r = TracePath(request, replay)
    BY <1>1
  <2>2. QED
    BY <2>1, <1>2, <1>5, <1>12, <1>13, <1>14, Zenon DEF TracePath
<1>16. /\ done.status = "complete" /\ done.value.walk = walk
       /\ StageOf(done) # "budget_traversal"
    BY <1>13, CompletePathParts
<1>17. ASSUME NEW w, NEW code, NEW stage, NEW x,
              x = PartialTracePath(request, replay, w, code, stage)
       PROVE  x.status = "partial" /\ x.value.walk = w /\ StageOf(x) = stage
    BY <1>17, PartialPathParts
<1>18. /\ open.status = "partial" /\ open.value.walk = walk
       /\ StageOf(open) = "scope_incomplete"
    BY <1>13, <1>17
<1>19. cut.status = "partial" /\ cut.value.walk = walk /\ StageOf(cut) = "budget_traversal"
    BY <1>13, <1>17
<1>20. /\ traced.status = "partial" /\ traced.value.walk = fallback
       /\ StageOf(traced) = "internal_edge_trace"
    BY <1>13, <1>17
<1>21. /\ ahead.status = "partial" /\ ahead.value.walk = fallback
       /\ StageOf(ahead) = "frontier_resolution"
    BY <1>13, <1>17
<1>22. /\ begun.status = "partial" /\ begun.value.walk = walk
       /\ StageOf(begun) = "frontier_resolution"
    BY <1>14, <1>17
<1>23. nothing.status = "failed" /\ StageOf(nothing) = "seed_resolution"
    BY <1>14, FailedStage
<1>24. CASE Ends(walk, seed) = terminal
  <2>1. near = {walk}
    BY <1>10, <1>24
  <2>2. CASE replay.complete
    <3>1. r = done
      BY <1>15, <1>24, <2>2
    <3>2. QED
      BY <2>1, <2>2, <3>1, <1>16
  <2>3. CASE ~replay.complete
    <3>1. r = open
      BY <1>15, <1>24, <2>3
    <3>2. QED
      BY <2>1, <2>3, <3>1, <1>6, <1>18
  <2>4. QED
    BY <2>2, <2>3
<1>25. CASE Ends(walk, seed) # terminal
  <2>1. near = {}
    BY <1>10, <1>25
  <2>2. CASE Ends(far, seed) = terminal
    <3>1. r = cut
      BY <1>15, <1>25, <2>2
    <3>2. QED
      BY <2>1, <2>2, <3>1, <1>6, <1>19
  <2>3. CASE Ends(far, seed) # terminal
    <3>1. r \in {traced, ahead, begun, nothing}
      BY <1>15, <1>25, <2>3
    <3>2. /\ r.status \in {"partial", "failed"} /\ StageOf(r) # "budget_traversal"
          /\ r.status = "partial" => r.value.walk \in {walk, fallback}
      BY <3>1, <1>20, <1>21, <1>22, <1>23
    <3>3. QED
      BY <2>1, <2>3, <3>2, <1>6, <1>8
  <2>4. QED
    BY <2>2, <2>3
<1>26. QED
    BY <1>24, <1>25

\* The stages of a trace_path request that is not accepted.
FlowRefusalStages ==
    {"decode_replay", "rule_check", "chain_binding", "fixture_binding", "source_binding",
     "edge_dedup", "scope_validation", "internal_edge_binding"}

\* The same of the whole analyzer, whenever the outcome is one trace_path itself decides.
LEMMA PathHeld ==
    ASSUME NEW i, FlowFormed(i), i.request.query = "trace_path",
           NEW r, r = AnalyzeFlowPathReplay(i.request, i.replay), StageOf(r) \in PathStages
    PROVE  PathIsDecided(i, r)
<1>1. PICK request, replay : request = i.request /\ replay = i.replay
    OBVIOUS
<1>2. PICK a, b, c, d :
          /\ a = << <<~ParseFlowPathReplay(replay), "decode_failed", "decode_replay">> >>
          /\ b = FlowBindingError(request, replay)
          /\ c = <<RequireUniqueTransactionHashes(replay), RequireUniqueInternalEdges(replay)>>
          /\ d = QueryChecks(request, replay)
    OBVIOUS
<1>3. PICK traced, remerged, summed, query :
          /\ traced = TracePath(request, replay) /\ remerged = TraceRemerge(request, replay)
          /\ summed = AggregateOrigins(request, replay) /\ query = request.query
    OBVIOUS
<1>4. PICK refusal : refusal = FirstRefusal(a \o b \o c \o d)
    OBVIOUS
<1>5. r = IF refusal # NoRefusal THEN Failed(refusal)
          ELSE Checked(CASE query = "trace_path" -> traced
                         [] query = "trace_remerge" -> remerged
                         [] query = "aggregate_origins" -> summed, "decode_flow_path")
  <2>1. r = AnalyzeFlowPathReplay(request, replay)
    BY <1>1
  <2>2. QED
    BY <2>1, <1>2, <1>3, <1>4, Zenon DEF AnalyzeFlowPathReplay
<1>6. query = "trace_path"
    BY <1>1, <1>3
<1>7. refusal = NoRefusal
  <2> DEFINE S == FlowRefusalStages
  <2>1. SUFFICES ASSUME refusal # NoRefusal
                 PROVE  FALSE
    OBVIOUS
  <2>2. StagesIn(a, S)
    <3>1. PICK check : check = <<~ParseFlowPathReplay(replay), "decode_failed", "decode_replay">>
      OBVIOUS
    <3>2. check[3] = "decode_replay" /\ a = <<check>>
      BY <1>2, <3>1
    <3>3. check[3] \in S
      BY <3>2 DEF FlowRefusalStages
    <3>4. QED
      BY <3>2, <3>3, StagesListed
  <2>3. StagesIn(b, S)
    <3>1. PICK p, q, t, u :
              /\ p = <<~request.offline, "rule_restricted", "rule_check">>
              /\ q = <<request.chain # replay.chain, "reconciliation_failed", "chain_binding">>
              /\ t = <<request.fixture \notin {Anything, replay.fixture},
                       "reconciliation_failed", "fixture_binding">>
              /\ u = <<~(ToSet(replay.sources) \subseteq request.allowed),
                       "rule_restricted", "source_binding">>
      OBVIOUS
    <3>2. b = <<p, q, t, u>>
      BY <1>2, <3>1, Zenon DEF FlowBindingError
    <3>3. p[3] \in S /\ q[3] \in S /\ t[3] \in S /\ u[3] \in S
      BY <3>1 DEF FlowRefusalStages
    <3>4. QED
      BY <3>2, <3>3, StagesListed
  <2>4. StagesIn(c, S)
    <3>1. PICK p, q : /\ p = RequireUniqueTransactionHashes(replay)
                      /\ q = RequireUniqueInternalEdges(replay)
      OBVIOUS
    <3>2. p[3] \in S
      BY <3>1 DEF RequireUniqueTransactionHashes, FlowRefusalStages
    <3>3. q[3] \in S
      BY <3>1 DEF RequireUniqueInternalEdges, FlowRefusalStages
    <3>4. QED
      BY <1>2, <3>1, <3>2, <3>3, StagesListed
  <2>5. StagesIn(d, S)
    <3>1. PICK p, q : /\ p = RequireBlockWindows(request, replay)
                      /\ q = InternalBound(replay)
      OBVIOUS
    <3>2. d = <<p, q>>
      BY <1>2, <1>3, <1>6, <3>1 DEF QueryChecks
    <3>3. p[3] \in S
      BY <3>1 DEF RequireBlockWindows, FlowRefusalStages
    <3>4. q[3] \in S
      BY <3>1 DEF InternalBound, FlowRefusalStages
    <3>5. QED
      BY <3>2, <3>3, <3>4, StagesListed
  <2> HIDE DEF S
  <2>6. StagesIn(a \o b, S)
    BY <2>2, <2>3, StagesJoined
  <2>7. StagesIn(a \o b \o c, S)
    BY <2>4, <2>6, StagesJoined
  <2>8. StagesIn(a \o b \o c \o d, S)
    BY <2>5, <2>7, StagesJoined
  <2>9. PICK checks : checks = a \o b \o c \o d
    OBVIOUS
  <2>10. IsChecks(checks) /\ \A k \in DOMAIN checks : checks[k][3] \in S
    BY <2>8, <2>9 DEF StagesIn
  <2>11. PICK k \in DOMAIN checks : refusal = <<checks[k][2], checks[k][3]>>
    BY <2>1, <2>9, <2>10, <1>4, RefusedBy
  <2>12. r = Failed(refusal)
    BY <2>1, <1>5
  <2>13. StageOf(r) = checks[k][3]
    BY <2>11, <2>12, FailedStage
  <2>14. S \cap PathStages = {}
    BY DEF S, FlowRefusalStages, PathStages
  <2>15. QED
    BY <2>10, <2>13, <2>14
<1>8. r = Checked(traced, "decode_flow_path")
    BY <1>5, <1>6, <1>7
<1>9. r = traced
  <2>1. SUFFICES ASSUME r # traced
                 PROVE  FALSE
    OBVIOUS
  <2>2. r = Failed(<<"decode_failed", "decode_flow_path">>)
    BY <1>8, <2>1 DEF Checked
  <2>3. StageOf(r) = "decode_flow_path"
    BY <2>2, FailedStage
  <2>4. QED
    BY <2>3 DEF PathStages
<1>10. QED
    BY <1>1, <1>3, <1>9, TraceDecides


-----------------------------------------------------------------------------
(* Sums over finite sets.                                                  *)

\* The element a sum takes next.
Next1(D) == [s \in SUBSET D |-> CHOOSE x \in s : TRUE]

\* it[s] is the sum of f over the subset s of its domain D.
SumsTo(it, f, D) ==
    /\ it \in [SUBSET D -> Int] /\ it[{}] = 0
    /\ \A s \in SUBSET D : \A x \in s : it[s] = f[x] + it[s \ {x}]

LEMMA SumUnfolds ==
    ASSUME NEW D, IsFiniteSet(D), NEW f \in [D -> Int]
    PROVE  \E it : /\ it[D] = SumFunction(f) /\ it \in [SUBSET D -> Int] /\ it[{}] = 0
                   /\ \A s \in SUBSET D : s # {} =>
                          it[s] = f[Next1(D)[s]] + it[s \ {Next1(D)[s]}]
<1> DEFINE fold(it) == it = [s \in SUBSET D |->
                               IF s = {} THEN 0
                               ELSE f[CHOOSE x \in s : TRUE] + it[s \ {CHOOSE x \in s : TRUE}]]
<1>1. PICK c : c = Next1(D)
    OBVIOUS
<1>2. \A s \in SUBSET D : c[s] = CHOOSE x \in s : TRUE
    BY <1>1 DEF Next1
<1>3. \A s \in SUBSET D : s # {} => c[s] \in s
    BY <1>2
<1>4. PICK F : F = [p \in D \X Int |-> f[p[1]] + p[2]]
    OBVIOUS
<1>5. F \in [D \X Int -> Int] /\ \A x \in D, n \in Int : F[<<x, n>>] = f[x] + n
    BY <1>4
<1>6. PICK it : FoldsTo(it, D, Int, c, 0, F)
  <2>1. PICK V, zero : V = Int /\ zero = 0
    OBVIOUS
  <2>2. zero \in V /\ F \in [D \X V -> V]
    BY <1>5, <2>1
  <2>3. \E it : FoldsTo(it, D, V, c, zero, F)
    BY <1>3, <2>2, FoldExists
  <2>4. QED
    BY <2>1, <2>3
<1>7. /\ it \in [SUBSET D -> Int] /\ it[{}] = 0
      /\ \A s \in SUBSET D : s # {} => it[s] = F[<<c[s], it[s \ {c[s]}]>>]
    BY <1>6 DEF FoldsTo
<1>8. \A s \in SUBSET D : s # {} => it[s] = f[c[s]] + it[s \ {c[s]}]
  <2>1. ASSUME NEW s \in SUBSET D, s # {}
        PROVE  it[s] = f[c[s]] + it[s \ {c[s]}]
    <3>1. c[s] \in D /\ s \ {c[s]} \in SUBSET D
      BY <1>3, <2>1
    <3>2. it[s \ {c[s]}] \in Int
      BY <1>7, <3>1
    <3>3. QED
      BY <1>5, <1>7, <2>1, <3>1, <3>2
  <2>2. QED
    BY <2>1
<1>9. fold(it)
  <2>1. \A s \in SUBSET D :
            it[s] = IF s = {} THEN 0
                    ELSE f[CHOOSE x \in s : TRUE] + it[s \ {CHOOSE x \in s : TRUE}]
    BY <1>2, <1>7, <1>8
  <2>2. it = [s \in SUBSET D |-> it[s]]
    BY <1>7
  <2>3. QED
    BY <2>1, <2>2, Zenon
<1>10. SumFunction(f) = (CHOOSE it1 : fold(it1))[D]
  <2>1. DOMAIN f = D
    OBVIOUS
  <2>2. SumFunction(f) = (CHOOSE it1 : it1 = [s \in SUBSET (DOMAIN f) |->
                               IF s = {} THEN 0
                               ELSE f[CHOOSE x \in s : TRUE] + it1[s \ {CHOOSE x \in s : TRUE}]])[DOMAIN f]
    BY Zenon DEF SumFunction, SumFunctionOnSet, FoldFunctionOnSet, MapThenFoldSet
  <2>3. QED
    BY <2>1, <2>2, Zenon
<1>11. PICK g : fold(g) /\ SumFunction(f) = g[D]
    BY <1>9, <1>10, Zenon
<1>12. \A s \in SUBSET D : g[s] = IF s = {} THEN 0 ELSE f[c[s]] + g[s \ {c[s]}]
  <2>1. \A s \in SUBSET D :
            g[s] = IF s = {} THEN 0
                   ELSE f[CHOOSE x \in s : TRUE] + g[s \ {CHOOSE x \in s : TRUE}]
    BY <1>11, Zenon
  <2>2. QED
    BY <1>2, <2>1
<1>13. \A s \in SUBSET D : g[s] = it[s]
  <2>1. PICK P : P = {s \in SUBSET D : g[s] = it[s]}
    OBVIOUS
  <2>2. {} \in P
    BY <1>7, <1>12, <2>1
  <2>3. ASSUME NEW s \in SUBSET D, s # {}, \A x \in s : s \ {x} \in P
        PROVE  s \in P
    BY <1>3, <1>8, <1>12, <2>1, <2>3
  <2>4. \A s \in SUBSET D : s \in P
    BY <2>2, <2>3, SubsetInduction
  <2>5. QED
    BY <2>1, <2>4
<1>14. it[D] = SumFunction(f)
    BY <1>11, <1>13
<1>15. QED
    BY <1>1, <1>7, <1>8, <1>14

\* A sum may take its elements in any order.
LEMMA SumIs ==
    ASSUME NEW D, IsFiniteSet(D), NEW f \in [D -> Int]
    PROVE  \E it : SumsTo(it, f, D) /\ it[D] = SumFunction(f)
<1>1. PICK it : /\ it[D] = SumFunction(f) /\ it \in [SUBSET D -> Int] /\ it[{}] = 0
                /\ \A s \in SUBSET D : s # {} =>
                       it[s] = f[Next1(D)[s]] + it[s \ {Next1(D)[s]}]
    BY SumUnfolds
<1>2. PICK P : P = {s \in SUBSET D : \A x \in s : it[s] = f[x] + it[s \ {x}]}
    OBVIOUS
<1>3. {} \in P
    BY <1>2
<1>4. ASSUME NEW s \in SUBSET D, s # {}, \A x \in s : s \ {x} \in P
      PROVE  s \in P
  <2>1. PICK c : c = Next1(D)[s]
    OBVIOUS
  <2>2. c \in s
    BY <1>4, <2>1 DEF Next1
  <2>3. it[s] = f[c] + it[s \ {c}]
    BY <1>1, <1>4, <2>1
  <2>4. ASSUME NEW x \in s, x # c
        PROVE  it[s] = f[x] + it[s \ {x}]
    <3>1. PICK t : t = (s \ {c}) \ {x}
      OBVIOUS
    <3>2. t = (s \ {x}) \ {c} /\ t \in SUBSET D /\ x \in s \ {c} /\ c \in s \ {x}
      BY <2>2, <2>4, <3>1
    <3>3. it[s \ {c}] = f[x] + it[t]
      <4>1. s \ {c} \in P
        BY <1>4, <2>2
      <4>2. QED
        BY <1>2, <3>1, <3>2, <4>1
    <3>4. it[s \ {x}] = f[c] + it[t]
      <4>1. s \ {x} \in P
        BY <1>4, <2>4
      <4>2. QED
        BY <1>2, <3>2, <4>1
    <3>5. f[c] \in Int /\ f[x] \in Int /\ it[t] \in Int
      BY <1>1, <2>2, <2>4, <3>2
    <3>6. QED
      BY <2>3, <3>3, <3>4, <3>5
  <2>5. \A x \in s : it[s] = f[x] + it[s \ {x}]
    BY <2>3, <2>4
  <2>6. QED
    BY <1>2, <2>5
<1>5. \A s \in SUBSET D : s \in P
    BY <1>3, <1>4, SubsetInduction
<1>6. \A s \in SUBSET D : \A x \in s : it[s] = f[x] + it[s \ {x}]
    BY <1>2, <1>5
<1>7. SumsTo(it, f, D)
    BY <1>1, <1>6 DEF SumsTo
<1>8. QED
    BY <1>1, <1>7

LEMMA SumType ==
    ASSUME NEW D, IsFiniteSet(D), NEW f \in [D -> Int]
    PROVE  SumFunction(f) \in Int
<1>1. PICK it : SumsTo(it, f, D) /\ it[D] = SumFunction(f)
    BY SumIs
<1>2. it \in [SUBSET D -> Int]
    BY <1>1 DEF SumsTo
<1>3. it[D] \in Int
    BY <1>2
<1>4. QED
    BY <1>1, <1>3

\* h tells the elements of D apart and gives each its summand in E; what it leaves
\* out of E is nothing.
Renames(h, f, D, g, E) ==
    /\ h \in [D -> E]
    /\ \A x, y \in D : h[x] = h[y] => x = y
    /\ \A x \in D : f[x] = g[h[x]]
    /\ \A y \in E : (\A x \in D : h[x] # y) => g[y] = 0

\* Such sums are equal.
LEMMA SumRenamed ==
    ASSUME NEW D, IsFiniteSet(D), NEW f \in [D -> Int],
           NEW E, IsFiniteSet(E), NEW g \in [E -> Int],
           NEW h, Renames(h, f, D, g, E)
    PROVE  SumFunction(f) = SumFunction(g)
<1> DEFINE image(s) == {h[x] : x \in s}
<1>1. PICK it : SumsTo(it, f, D) /\ it[D] = SumFunction(f)
    BY SumIs
<1>2. PICK jt : SumsTo(jt, g, E) /\ jt[E] = SumFunction(g)
    BY SumIs
<1>3. /\ it \in [SUBSET D -> Int] /\ it[{}] = 0
      /\ \A s \in SUBSET D : \A x \in s : it[s] = f[x] + it[s \ {x}]
    BY <1>1 DEF SumsTo
<1>4. /\ jt \in [SUBSET E -> Int] /\ jt[{}] = 0
      /\ \A s \in SUBSET E : \A y \in s : jt[s] = g[y] + jt[s \ {y}]
    BY <1>2 DEF SumsTo
<1>5. /\ h \in [D -> E]
      /\ \A x, y \in D : h[x] = h[y] => x = y
      /\ \A x \in D : f[x] = g[h[x]]
      /\ \A y \in E : (\A x \in D : h[x] # y) => g[y] = 0
    BY DEF Renames
<1>6. \A s \in SUBSET D : it[s] = jt[image(s)]
  <2>1. PICK P : P = {s \in SUBSET D : it[s] = jt[image(s)]}
    OBVIOUS
  <2>2. {} \in P
    <3>1. image({}) = {}
      OBVIOUS
    <3>2. QED
      BY <1>3, <1>4, <2>1, <3>1
  <2>3. ASSUME NEW s \in SUBSET D, s # {}, \A x \in s : s \ {x} \in P
        PROVE  s \in P
    <3>1. PICK x \in s : TRUE
      BY <2>3
    <3>2. image(s) \ {h[x]} = image(s \ {x})
      BY <1>5
    <3>3. image(s) \in SUBSET E /\ h[x] \in image(s)
      BY <1>5
    <3>4. jt[image(s)] = g[h[x]] + jt[image(s) \ {h[x]}]
      BY <1>4, <3>3
    <3>5. it[s] = f[x] + it[s \ {x}]
      BY <1>3
    <3>6. it[s \ {x}] = jt[image(s \ {x})]
      BY <2>1, <2>3
    <3>7. f[x] = g[h[x]]
      BY <1>5
    <3> HIDE DEF image
    <3>8. it[s] = jt[image(s)]
      BY <3>2, <3>4, <3>5, <3>6, <3>7
    <3>9. QED
      BY <2>1, <3>8
  <2>4. \A s \in SUBSET D : s \in P
    BY <2>2, <2>3, SubsetInduction
  <2>5. QED
    BY <2>1, <2>4
<1>7. PICK used, rest : used = image(D) /\ rest = E \ used
    OBVIOUS
<1>8. \A y \in rest : g[y] = 0
    BY <1>5, <1>7
<1>9. used \in SUBSET E /\ used \cup rest = E /\ rest \in SUBSET E
    BY <1>5, <1>7
<1>10. \A s \in SUBSET rest : jt[used \cup s] = jt[used]
  <2>1. PICK P : P = {s \in SUBSET rest : jt[used \cup s] = jt[used]}
    OBVIOUS
  <2>2. {} \in P
    BY <2>1
  <2>3. ASSUME NEW s \in SUBSET rest, s # {}, \A x \in s : s \ {x} \in P
        PROVE  s \in P
    <3>1. PICK y \in s : TRUE
      BY <2>3
    <3>2. (used \cup s) \ {y} = used \cup (s \ {y}) /\ used \cup s \in SUBSET E
      BY <1>7, <1>9
    <3>3. jt[used \cup s] = g[y] + jt[(used \cup s) \ {y}]
      BY <1>4, <3>2
    <3>4. g[y] = 0 /\ jt[used \cup (s \ {y})] = jt[used]
      BY <1>8, <2>1, <2>3
    <3>5. jt[used] \in Int
      BY <1>4, <1>9
    <3>6. jt[used \cup s] = jt[used]
      <4>1. jt[(used \cup s) \ {y}] = jt[used]
        BY <3>2, <3>4, Zenon
      <4>2. QED
        BY <3>3, <3>4, <3>5, <4>1
    <3>7. QED
      BY <2>1, <3>6
  <2>4. IsFiniteSet(rest)
    BY <1>9, FS_Subset
  <2>5. \A s \in SUBSET rest : s \in P
    BY <2>2, <2>3, <2>4, SubsetInduction
  <2>6. QED
    BY <2>1, <2>5
<1>11. jt[E] = jt[used]
    BY <1>9, <1>10
<1>12. it[D] = jt[used]
    BY <1>6, <1>7
<1>13. QED
    BY <1>1, <1>2, <1>11, <1>12

\* Larger summands make no smaller sum.
LEMMA SumGrows ==
    ASSUME NEW D, IsFiniteSet(D), NEW f \in [D -> Int], NEW g \in [D -> Int],
           \A x \in D : f[x] <= g[x]
    PROVE  SumFunction(f) <= SumFunction(g)
<1>1. PICK it : SumsTo(it, f, D) /\ it[D] = SumFunction(f)
    BY SumIs
<1>2. PICK jt : SumsTo(jt, g, D) /\ jt[D] = SumFunction(g)
    BY SumIs
<1>3. /\ it \in [SUBSET D -> Int] /\ it[{}] = 0
      /\ \A s \in SUBSET D : \A x \in s : it[s] = f[x] + it[s \ {x}]
    BY <1>1 DEF SumsTo
<1>4. /\ jt \in [SUBSET D -> Int] /\ jt[{}] = 0
      /\ \A s \in SUBSET D : \A x \in s : jt[s] = g[x] + jt[s \ {x}]
    BY <1>2 DEF SumsTo
<1>5. PICK P : P = {s \in SUBSET D : it[s] <= jt[s]}
    OBVIOUS
<1>6. {} \in P
    BY <1>3, <1>4, <1>5
<1>7. ASSUME NEW s \in SUBSET D, s # {}, \A x \in s : s \ {x} \in P
      PROVE  s \in P
  <2>1. PICK x \in s : TRUE
    BY <1>7
  <2>2. it[s] = f[x] + it[s \ {x}] /\ jt[s] = g[x] + jt[s \ {x}]
    BY <1>3, <1>4
  <2>3. it[s \ {x}] <= jt[s \ {x}] /\ f[x] <= g[x]
    BY <1>5, <1>7
  <2>4. s \ {x} \in SUBSET D
    OBVIOUS
  <2>5. it[s \ {x}] \in Int /\ jt[s \ {x}] \in Int /\ f[x] \in Int /\ g[x] \in Int
    BY <1>3, <1>4, <2>4
  <2>6. it[s] <= jt[s]
    BY <2>2, <2>3, <2>5
  <2>7. QED
    BY <1>5, <2>6
<1>8. \A s \in SUBSET D : s \in P
    BY <1>6, <1>7, SubsetInduction
<1>9. it[D] <= jt[D]
    BY <1>5, <1>8
<1>10. QED
    BY <1>1, <1>2, <1>9

-----------------------------------------------------------------------------
(* Amounts of flow_path.                                                   *)

\* Transactions with as many hashes as there are of them are told apart.
LEMMA TransactionsDiffer ==
    ASSUME NEW replay, NEW txs, txs = replay.txs, IsList(txs),
           Cardinality(Hashes(replay)) = Len(txs)
    PROVE  \A i, j \in DOMAIN txs : txs[i] = txs[j] => i = j
<1>1. PICK N, T, f : /\ N = Len(txs) /\ T = Hashes(replay)
                     /\ f = [i \in 1 .. N |-> txs[i].hash]
    OBVIOUS
<1>2. N \in Nat /\ DOMAIN txs = 1 .. N
    BY <1>1 DEF IsList
<1>3. T = {txs[i].hash : i \in 1 .. N}
  <2>1. ToSet(txs) = {txs[i] : i \in 1 .. N}
    BY <1>2 DEF ToSet
  <2>2. QED
    BY <2>1, <1>1 DEF Hashes
<1>4. f \in [1 .. N -> T] /\ \A t \in T : \E i \in 1 .. N : f[i] = t
    BY <1>1, <1>3
<1>5. f \in Surjection(1 .. N, T)
    BY <1>4 DEF Surjection
<1>6. IsFiniteSet(1 .. N) /\ Cardinality(1 .. N) = N
    BY <1>2, FS_Interval
<1>7. \A i, j \in 1 .. N : f[i] = f[j] => i = j
  <2>1. PICK D : D = 1 .. N
    OBVIOUS
  <2>2. IsFiniteSet(D) /\ f \in Surjection(D, T) /\ Cardinality(T) = Cardinality(D)
    BY <1>1, <1>5, <1>6, <2>1
  <2>3. f \in Injection(D, T)
    BY <2>2, FS_SurjSameCardinalityImpliesInj
  <2>4. \A i, j \in D : f[i] = f[j] => i = j
    BY <2>3 DEF Injection, IsInjective
  <2>5. QED
    BY <2>1, <2>4
<1>8. \A i, j \in 1 .. N : txs[i] = txs[j] => f[i] = f[j]
    BY <1>1
<1>9. QED
    BY <1>2, <1>7, <1>8

\* A finite list has finitely many entries.
LEMMA ListFinite ==
    ASSUME NEW s, IsList(s), NEW T \in SUBSET ToSet(s)
    PROVE  IsFiniteSet(T) /\ IsFiniteSet(DOMAIN s)
<1>1. PICK N : N = Len(s) /\ N \in Nat /\ DOMAIN s = 1 .. N
    BY DEF IsList
<1>2. IsFiniteSet(1 .. N)
    BY <1>1, FS_Interval
<1>3. PICK f : f = [i \in 1 .. N |-> s[i]]
    OBVIOUS
<1>4. ToSet(s) = {f[i] : i \in 1 .. N}
    BY <1>1, <1>3 DEF ToSet
<1>5. f \in Surjection(1 .. N, ToSet(s))
  <2>1. f \in [1 .. N -> ToSet(s)] /\ \A t \in ToSet(s) : \E i \in 1 .. N : f[i] = t
    BY <1>3, <1>4
  <2>2. QED
    BY <2>1 DEF Surjection
<1>6. IsFiniteSet(ToSet(s))
    BY <1>2, <1>5, FS_Surjection
<1>7. QED
    BY <1>1, <1>2, <1>6, FS_Subset

\* A complete result of a query that sums has been accepted and let through.
LEMMA FlowCompleted ==
    ASSUME NEW request, NEW replay,
           request.query \in {"trace_remerge", "aggregate_origins"},
           NEW r, r = AnalyzeFlowPathReplay(request, replay), r.status = "complete"
    PROVE  /\ Cardinality(Hashes(replay)) = Len(replay.txs)
           /\ request.query = "trace_remerge" =>
                  NoneHolds(RemergeChecks(request, replay)) /\ r = TraceRemerge(request, replay)
           /\ request.query = "aggregate_origins" => r = AggregateOrigins(request, replay)
<1>1. PICK a, b, c, d :
          /\ a = << <<~ParseFlowPathReplay(replay), "decode_failed", "decode_replay">> >>
          /\ b = FlowBindingError(request, replay)
          /\ c = <<RequireUniqueTransactionHashes(replay), RequireUniqueInternalEdges(replay)>>
          /\ d = QueryChecks(request, replay)
    OBVIOUS
<1>2. PICK traced, remerged, summed, query :
          /\ traced = TracePath(request, replay) /\ remerged = TraceRemerge(request, replay)
          /\ summed = AggregateOrigins(request, replay) /\ query = request.query
    OBVIOUS
<1>3. PICK refusal : refusal = FirstRefusal(a \o b \o c \o d)
    OBVIOUS
<1>4. r = IF refusal # NoRefusal THEN Failed(refusal)
          ELSE Checked(CASE query = "trace_path" -> traced
                         [] query = "trace_remerge" -> remerged
                         [] query = "aggregate_origins" -> summed, "decode_flow_path")
    BY <1>1, <1>2, <1>3, Zenon DEF AnalyzeFlowPathReplay
<1>5. refusal = NoRefusal
    BY <1>4, RefusedStatus
<1>6. PICK built : /\ r = Checked(built, "decode_flow_path")
                   /\ query = "trace_remerge" => built = remerged
                   /\ query = "aggregate_origins" => built = summed
    BY <1>2, <1>4, <1>5
<1>7. r = built
    BY <1>6, CheckedComplete, Zenon
<1>8. IsChecks(a) /\ IsChecks(b) /\ IsChecks(c) /\ IsChecks(d)
  <2>1. IsChecks(a)
    BY <1>1, OneCheck
  <2>2. IsChecks(b)
    <3>1. PICK p, q, t, u : b = <<p, q, t, u>>
      BY <1>1, Zenon DEF FlowBindingError
    <3>2. QED
      BY <3>1, BindingChecks
  <2>3. IsChecks(c)
    <3>1. PICK p, q : c = <<p, q>>
      BY <1>1
    <3>2. c \in Seq({p, q})
      BY <3>1
    <3>3. QED
      BY <3>2 DEF IsChecks
  <2>4. IsChecks(d)
    <3>1. CASE query = "trace_remerge"
      <4>1. d = RemergeChecks(request, replay)
        BY <1>1, <1>2, <3>1 DEF QueryChecks
      <4>2. PICK p, q, t, u : d = <<p, q, t, u>>
        BY <4>1, Zenon DEF RemergeChecks
      <4>3. QED
        BY <4>2, BindingChecks
    <3>2. CASE query = "aggregate_origins"
      <4>1. d = AggregateChecks(request, replay)
        BY <1>1, <1>2, <3>2 DEF QueryChecks
      <4>2. PICK p, q : d = <<p, q>>
        BY <4>1, Zenon DEF AggregateChecks
      <4>3. d \in Seq({p, q})
        BY <4>2
      <4>4. QED
        BY <4>3 DEF IsChecks
    <3>3. QED
      BY <1>2, <3>1, <3>2
  <2>5. QED
    BY <2>1, <2>2, <2>3, <2>4
<1>9. NoneHolds(c) /\ NoneHolds(d)
  <2>1. IsChecks(a \o b)
    BY <1>8, NoneHoldsParts
  <2>2. IsChecks(a \o b \o c) /\ (NoneHolds(a \o b \o c) => NoneHolds(c))
    BY <1>8, <2>1, NoneHoldsParts
  <2>3. NoneHolds(a \o b \o c \o d) => NoneHolds(a \o b \o c) /\ NoneHolds(d)
    BY <1>8, <2>2, NoneHoldsParts
  <2>4. NoneHolds(a \o b \o c \o d)
    BY <1>3, <1>5, NotRefused
  <2>5. QED
    BY <2>2, <2>3, <2>4
<1>10. Cardinality(Hashes(replay)) = Len(replay.txs)
  <2>1. PICK p, q : p = RequireUniqueTransactionHashes(replay) /\ c = <<p, q>>
    BY <1>1
  <2>2. 1 \in DOMAIN c /\ c[1] = p
    BY <2>1
  <2>3. ~p[1]
    BY <1>9, <2>2 DEF NoneHolds
  <2>4. p[1] = (Cardinality(Hashes(replay)) # Len(replay.txs))
    BY <2>1 DEF RequireUniqueTransactionHashes
  <2>5. QED
    BY <2>3, <2>4
<1>11. query = "trace_remerge" => d = RemergeChecks(request, replay)
    BY <1>1, <1>2 DEF QueryChecks
<1>12. QED
    BY <1>2, <1>6, <1>7, <1>9, <1>10, <1>11

AmountsOf(list) == [k \in 1 .. Len(list) |-> list[k].value]

EntriesAt(s, I) == {s[i] : i \in I}

Differ(list) == \A j, k \in 1 .. Len(list) : list[j] = list[k] => j = k

\* The amounts of the transactions kept from a list, each counted once, are those of
\* the set of them.
LEMMA KeptPaid ==
    ASSUME NEW txs, Worth(txs), \A i, j \in DOMAIN txs : txs[i] = txs[j] => i = j,
           NEW I \in SUBSET DOMAIN txs, NEW list, list = Kept(txs, I)
    PROVE  /\ SumFunction(AmountsOf(list)) = Paid(EntriesAt(txs, I))
           /\ list \in Seq(ToSet(txs)) /\ ToSet(list) = EntriesAt(txs, I)
           /\ Differ(list)
<1>1. IsList(txs) /\ \A i \in DOMAIN txs : txs[i].value \in Nat
    BY DEF Worth, ToSet
<1>2. list \in Seq(ToSet(txs)) /\ ToSet(list) = {txs[i] : i \in I}
    BY <1>1, KeptSet
<1> DEFINE f == AmountsOf(list)
<1>3. PICK h : Numbers(h, list, txs, I)
    BY <1>1, KeptEach
<1>4. PICK N : N = Len(list) /\ N \in Nat
    BY <1>2
<1>5. PICK E, g : E = {txs[i] : i \in I} /\ g = [tx \in E |-> tx.value]
    OBVIOUS
<1>6. /\ h \in [1 .. N -> I]
      /\ \A k \in 1 .. N : list[k] = txs[h[k]]
      /\ \A i \in I : \E k \in 1 .. N : h[k] = i
      /\ \A j, k \in 1 .. N : h[j] = h[k] => j = k
    BY <1>3, <1>4 DEF Numbers
<1>7. \A j, k \in 1 .. N : list[j] = list[k] => j = k
  <2>1. \A k \in 1 .. N : h[k] \in DOMAIN txs
    BY <1>6
  <2>2. QED
    BY <1>6, <2>1
<1>8. E \in SUBSET ToSet(txs) /\ IsFiniteSet(E) /\ IsFiniteSet(1 .. N)
  <2>1. E \in SUBSET ToSet(txs)
    BY <1>5 DEF ToSet
  <2>2. IsFiniteSet(E)
    BY <1>1, <2>1, ListFinite
  <2>3. QED
    BY <1>4, <2>1, <2>2, FS_Interval
<1>9. g \in [E -> Int]
    BY <1>1, <1>5
<1>10. PICK m : m = [k \in 1 .. N |-> list[k]]
    OBVIOUS
<1>11. m \in [1 .. N -> E] /\ \A k \in 1 .. N : m[k] = list[k] /\ m[k] = txs[h[k]]
    BY <1>5, <1>6, <1>10
<1>12. f \in [1 .. N -> Int] /\ \A k \in 1 .. N : f[k] = list[k].value
  <2>1. \A k \in 1 .. N : list[k].value \in Int
    BY <1>1, <1>6
  <2>2. QED
    BY <1>4, <2>1 DEF AmountsOf
<1> HIDE DEF f
<1>13. Renames(m, f, 1 .. N, g, E)
  <2>1. \A j, k \in 1 .. N : m[j] = m[k] => j = k
    BY <1>7, <1>11
  <2>2. \A k \in 1 .. N : f[k] = g[m[k]]
    BY <1>5, <1>11, <1>12
  <2>3. \A y \in E : \E k \in 1 .. N : m[k] = y
    BY <1>5, <1>6, <1>11
  <2>4. QED
    BY <1>11, <2>1, <2>2, <2>3 DEF Renames
<1>14. SumFunction(f) = SumFunction(g)
  <2>1. PICK D : D = 1 .. N
    OBVIOUS
  <2>2. IsFiniteSet(D) /\ f \in [D -> Int] /\ Renames(m, f, D, g, E)
    BY <1>8, <1>12, <1>13, <2>1
  <2>3. QED
    BY <1>8, <1>9, <2>2, SumRenamed
<1>15. SumFunction(g) = Paid(E)
    BY <1>5 DEF Paid
<1>16. QED
    BY <1>2, <1>4, <1>5, <1>7, <1>12, <1>14, <1>15 DEF Differ, EntriesAt, f

\* What the asked origins paid into the exit is what is reported.
LEMMA OriginsHeld ==
    ASSUME NEW i, FlowFormed(i), i.request.query = "aggregate_origins",
           NEW r, r = AnalyzeFlowPathReplay(i.request, i.replay), r.status = "complete"
    PROVE  OriginsAddUp(i, r)
<1>1. PICK request, replay, txs : request = i.request /\ replay = i.replay /\ txs = replay.txs
    OBVIOUS
<1>2. Cardinality(Hashes(replay)) = Len(txs) /\ r = AggregateOrigins(request, replay)
    BY <1>1, FlowCompleted
<1>3. Worth(txs) /\ IsList(txs)
    BY <1>1 DEF FlowFormed, Worth
<1>4. \A j, k \in DOMAIN txs : txs[j] = txs[k] => j = k
  <2>1. txs = replay.txs /\ IsList(txs) /\ Cardinality(Hashes(replay)) = Len(txs)
    BY <1>1, <1>2, <1>3
  <2>2. QED
    BY <2>1, TransactionsDiffer, Zenon
<1>5. PICK I : I = {j \in DOMAIN txs : txs[j].to = request.exit}
    OBVIOUS
<1>6. PICK eligible, budget : /\ eligible = Kept(txs, I)
                              /\ budget = AggregateContributionBudget(request.budgets)
    OBVIOUS
<1>7. PICK f : f = AmountsOf(eligible)
    OBVIOUS
<1>8. PICK paid : paid = {tx \in ToSet(txs) : tx.to = request.exit}
    OBVIOUS
<1>9. EntriesAt(txs, I) = paid
    BY <1>5, <1>8 DEF ToSet, EntriesAt
<1>10. /\ SumFunction(f) = Paid(paid)
       /\ eligible \in Seq(ToSet(txs)) /\ ToSet(eligible) = paid
  <2>1. I \in SUBSET DOMAIN txs
    BY <1>5
  <2>2. /\ SumFunction(f) = Paid(EntriesAt(txs, I))
        /\ eligible \in Seq(ToSet(txs)) /\ ToSet(eligible) = EntriesAt(txs, I)
    BY <1>3, <1>4, <1>6, <1>7, <2>1, KeptPaid
  <2>3. QED
    BY <1>9, <2>2
<1>11. PICK bounded : bounded = SubSeq(eligible, 1, Min({Len(eligible), budget}))
    OBVIOUS
<1>12. PICK seen, total, value, exhausted :
           /\ seen = {tx.from : tx \in ToSet(bounded)}
           /\ total = SumFunction([k \in DOMAIN bounded |-> bounded[k].value])
           /\ value = [type |-> "aggregate_origins", contributions |-> bounded, total |-> total]
           /\ exhausted = (Len(eligible) > Len(bounded))
    OBVIOUS
<1>13. PICK raws, evidence : /\ raws = {total} \cup {tx.value : tx \in ToSet(bounded)}
                             /\ evidence = MultiEvidence(replay)
    OBVIOUS
<1>14. PICK none, cut, part, done :
           /\ none = Failed(<<"source_unavailable", "origin_binding">>)
           /\ cut = FlowResult(replay, value, raws, evidence, "partial", "evidence_incomplete",
                               "budget_traversal")
           /\ part = FlowResult(replay, value, raws, evidence, "partial", "source_unavailable",
                                "origin_binding")
           /\ done = FlowResult(replay, value, raws, evidence, "complete", "", "")
    OBVIOUS
<1>15. r = CASE bounded = <<>> /\ ~exhausted -> none
             [] exhausted -> cut
             [] bounded # <<>> /\ ~exhausted /\ ~(seen = request.origins /\ replay.complete) -> part
             [] OTHER -> done
  <2>1. eligible = Eligible(request, replay)
    BY <1>1, <1>5, <1>6, Zenon DEF Eligible
  <2>2. QED
    BY <1>2, <1>6, <1>11, <1>12, <1>13, <1>14, <2>1, Zenon DEF AggregateOrigins
<1>16. none.status = "failed" /\ cut.status = "partial" /\ part.status = "partial"
  <2>1. none.status = "failed"
    BY <1>14, RefusedStatus
  <2>2. cut.status = "partial"
    BY <1>14 DEF FlowResult, OneResult
  <2>3. part.status = "partial"
    BY <1>14 DEF FlowResult, OneResult
  <2>4. QED
    BY <2>1, <2>2, <2>3
<1>17. ~exhausted /\ seen = request.origins /\ r = done
  <2>1. exhausted \in BOOLEAN
    BY <1>12
  <2>2. QED
    BY <1>15, <1>16, <2>1
<1>18. r.value = value
    BY <1>14, <1>17 DEF FlowResult, OneResult
<1>19. bounded = eligible
  <2>1. PICK L : L = Len(eligible) /\ L \in Nat
    BY <1>10
  <2>2. budget \in Nat
    <3>1. /\ request.budgets.hops \in Nat \ {0} /\ request.budgets.nodes \in Nat \ {0}
          /\ request.budgets.edges \in Nat \ {0}
      BY <1>1 DEF FlowFormed
    <3>2. PICK x, y : x = request.budgets.nodes - 1 /\ y = request.budgets.edges
      OBVIOUS
    <3>3. x \in Nat /\ y \in Nat
      BY <3>1, <3>2
    <3>4. Min({x, y}) \in Nat
      <4>1. {x, y} \in SUBSET Nat /\ {x, y} # {}
        BY <3>3
      <4>2. Min({x, y}) \in {x, y}
        BY <4>1, MinOf
      <4>3. QED
        BY <3>3, <4>2
    <3>5. budget = 0 \/ budget = Min({x, y})
      BY <1>6, <3>2 DEF AggregateContributionBudget
    <3>6. QED
      BY <3>4, <3>5
  <2>3. PICK m : m = Min({L, budget})
    OBVIOUS
  <2>4. m \in Nat /\ m <= L
    <3>1. {L, budget} \in SUBSET Nat /\ {L, budget} # {}
      BY <2>1, <2>2
    <3>2. Min({L, budget}) \in {L, budget} /\ \A n \in {L, budget} : Min({L, budget}) <= n
      BY <3>1, MinOf
    <3>3. QED
      BY <2>1, <2>2, <2>3, <3>2
  <2>5. bounded = SubSeq(eligible, 1, m)
    BY <1>11, <2>1, <2>3
  <2>6. /\ bounded \in Seq(ToSet(txs)) /\ Len(bounded) = m
        /\ \A k \in 1 .. m : bounded[k] = eligible[k]
    BY <1>10, <2>1, <2>4, <2>5
  <2>7. m = L
    <3>1. ~(Len(eligible) > Len(bounded))
      BY <1>12, <1>17, Zenon
    <3>2. QED
      BY <2>1, <2>4, <2>6, <3>1
  <2>8. QED
    BY <1>10, <2>1, <2>6, <2>7, SameEntries
<1>20. total = SumFunction(f)
  <2>1. DOMAIN eligible = 1 .. Len(eligible)
    BY <1>10
  <2>2. QED
    BY <1>7, <1>12, <1>19, <2>1 DEF AmountsOf
<1>21. r.value.total = Paid(paid) /\ {tx.from : tx \in paid} = request.origins
  <2>1. value.total = total
    BY <1>12
  <2>2. {tx.from : tx \in paid} = seen
    BY <1>10, <1>12, <1>19
  <2>3. QED
    BY <1>10, <1>17, <1>18, <1>20, <2>1, <2>2
<1>22. QED
    BY <1>1, <1>8, <1>21 DEF OriginsAddUp

\* The payment by which a split comes back.
Returned(request, replay, split) ==
    CHOOSE tx \in MergesOf(request, replay, split.to) : TRUE

\* The branch of a split that comes back.
BranchOf(request, replay, split) ==
    [node |-> split.to, input |-> split.value,
     output |-> Returned(request, replay, split).value,
     split |-> split.hash, merge |-> Returned(request, replay, split).hash]

\* One round of the loop over the splits.
TakeSplit(request, replay, budget, acc, split) ==
    CASE acc.stopped \/ acc.negative -> acc
      [] ~acc.stopped /\ ~acc.negative /\ Len(acc.branches) >= budget ->
             [acc EXCEPT !.stopped = TRUE]
      [] OTHER ->
             IF MergesOf(request, replay, split.to) = {} THEN [acc EXCEPT !.available = FALSE]
             ELSE IF split.value < Returned(request, replay, split).value
             THEN [acc EXCEPT !.negative = TRUE]
             ELSE [acc EXCEPT !.branches = Append(@, BranchOf(request, replay, split))]

Accumulators(S) ==
    [branches : Seq(S), available : BOOLEAN, stopped : BOOLEAN, negative : BOOLEAN]

Undisturbed(acc) == ~acc.stopped /\ ~acc.negative /\ acc.available

Taken(request, replay, S, acc, split, next) ==
    /\ next \in Accumulators(S)
    /\ Undisturbed(next) =>
           /\ Undisturbed(acc) /\ MergesOf(request, replay, split.to) # {}
           /\ ~(split.value < Returned(request, replay, split).value)
           /\ next.branches = Append(acc.branches, BranchOf(request, replay, split))

\* A round that leaves no flag behind found none, and adds the branch of its split.
LEMMA TakenSplit ==
    ASSUME NEW request, NEW replay, NEW budget, NEW S, NEW acc \in Accumulators(S), NEW split,
           BranchOf(request, replay, split) \in S,
           NEW next, next = TakeSplit(request, replay, budget, acc, split)
    PROVE  Taken(request, replay, S, acc, split, next)
<1>1. PICK b, full, gone, less :
          /\ b = BranchOf(request, replay, split)
          /\ full = (Len(acc.branches) >= budget)
          /\ gone = (MergesOf(request, replay, split.to) = {})
          /\ less = (split.value < Returned(request, replay, split).value)
    OBVIOUS
<1>2. PICK s1, s2, s3, s4 :
          /\ s1 = [acc EXCEPT !.stopped = TRUE] /\ s2 = [acc EXCEPT !.available = FALSE]
          /\ s3 = [acc EXCEPT !.negative = TRUE]
          /\ s4 = [acc EXCEPT !.branches = Append(@, b)]
    OBVIOUS
<1>3. next = CASE acc.stopped \/ acc.negative -> acc
               [] ~acc.stopped /\ ~acc.negative /\ full -> s1
               [] OTHER -> IF gone THEN s2 ELSE IF less THEN s3 ELSE s4
    BY <1>1, <1>2, Zenon DEF TakeSplit
<1>4. /\ acc.branches \in Seq(S) /\ acc.available \in BOOLEAN
      /\ acc.stopped \in BOOLEAN /\ acc.negative \in BOOLEAN
    BY DEF Accumulators
<1>5. s1 \in Accumulators(S) /\ s1.stopped
    BY <1>2 DEF Accumulators
<1>6. s2 \in Accumulators(S) /\ ~s2.available
    BY <1>2 DEF Accumulators
<1>7. s3 \in Accumulators(S) /\ s3.negative
    BY <1>2 DEF Accumulators
<1>8. /\ s4 \in Accumulators(S) /\ s4.branches = Append(acc.branches, b)
      /\ s4.available = acc.available /\ s4.stopped = acc.stopped /\ s4.negative = acc.negative
  <2>1. b \in S
    BY <1>1
  <2>2. PICK l : l = Append(acc.branches, b)
    OBVIOUS
  <2>3. l \in Seq(S)
    BY <1>4, <2>1, <2>2
  <2>4. s4 = [acc EXCEPT !.branches = l]
    BY <1>2, <2>2
  <2>5. s4 \in Accumulators(S)
    BY <2>3, <2>4 DEF Accumulators
  <2>6. /\ s4.branches = l /\ s4.available = acc.available
        /\ s4.stopped = acc.stopped /\ s4.negative = acc.negative
    BY <2>4 DEF Accumulators
  <2>7. QED
    BY <2>2, <2>5, <2>6
<1>9. full \in BOOLEAN /\ gone \in BOOLEAN /\ less \in BOOLEAN
    BY <1>1
<1>10. \/ next = acc /\ (acc.stopped \/ acc.negative)
       \/ next = s1 \/ next = s2 \/ next = s3
       \/ next = s4 /\ ~gone /\ ~less /\ ~acc.stopped /\ ~acc.negative
    BY <1>3, <1>4, <1>9
<1>11. next \in Accumulators(S)
    BY <1>5, <1>6, <1>7, <1>8, <1>10
<1>12. ASSUME Undisturbed(next)
       PROVE  /\ Undisturbed(acc) /\ ~gone /\ ~less
              /\ next.branches = Append(acc.branches, b)
    BY <1>5, <1>6, <1>7, <1>8, <1>10, <1>12 DEF Undisturbed
<1>13. ~gone => MergesOf(request, replay, split.to) # {}
    BY <1>1
<1>14. ~less => ~(split.value < Returned(request, replay, split).value)
    BY <1>1
<1>15. QED
    BY <1>1, <1>11, <1>12, <1>13, <1>14 DEF Taken

\* The branches are those of the splits, in their order; none returned more than it got.
BranchPerSplit(request, replay, splits, branches) ==
    /\ IsList(branches) /\ Len(branches) = Len(splits)
    /\ \A k \in 1 .. Len(splits) :
           /\ branches[k] = BranchOf(request, replay, splits[k])
           /\ MergesOf(request, replay, splits[k].to) # {}
           /\ ~(splits[k].value < Returned(request, replay, splits[k]).value)

\* Of a loop that raised no flag, every split has its branch.
LEMMA BranchesBuilt ==
    ASSUME NEW request, NEW replay, IsList(Splits(request, replay)),
           NEW loop, loop = RemergeBranches(request, replay)
    PROVE  /\ loop.stopped \in BOOLEAN /\ loop.negative \in BOOLEAN /\ loop.available \in BOOLEAN
           /\ Undisturbed(loop) =>
                  BranchPerSplit(request, replay, Splits(request, replay), loop.branches)
<1> DEFINE splits == Splits(request, replay)
           budget == RemergeBranchBudget(request.budgets)
           base == [branches |-> <<>>, available |-> TRUE, stopped |-> FALSE, negative |-> FALSE]
<1>1. PICK N : N = Len(splits)
    OBVIOUS
<1>2. N \in Nat /\ DOMAIN splits = 1 .. N
    BY <1>1 DEF IsList, splits
<1>3. PICK S : S = {BranchOf(request, replay, splits[n]) : n \in 1 .. N}
    OBVIOUS
<1> DEFINE take(acc, n) == TakeSplit(request, replay, budget, acc, splits[n])
           fold(it) == it = [T \in SUBSET DOMAIN splits |->
                               IF T = {} THEN base ELSE take(it[T \ {Max(T)}], Max(T))]
           V == Accumulators(S)
           grown(acc, n) ==
               Undisturbed(acc) =>
                   /\ Len(acc.branches) = n
                   /\ \A k \in 1 .. n :
                          /\ acc.branches[k] = BranchOf(request, replay, splits[k])
                          /\ MergesOf(request, replay, splits[k].to) # {}
                          /\ ~(splits[k].value < Returned(request, replay, splits[k]).value)
<1>4. base \in V /\ Len(base.branches) = 0
    BY DEF Accumulators
<1> HIDE DEF base, budget, splits
<1>5. ASSUME NEW n \in 1 .. N, NEW acc \in V
      PROVE  /\ take(acc, n) \in V
             /\ Undisturbed(take(acc, n)) =>
                    /\ Undisturbed(acc) /\ MergesOf(request, replay, splits[n].to) # {}
                    /\ ~(splits[n].value < Returned(request, replay, splits[n]).value)
                    /\ take(acc, n).branches
                           = Append(acc.branches, BranchOf(request, replay, splits[n]))
  <2>1. PICK split, next : split = splits[n] /\ next = TakeSplit(request, replay, budget, acc, split)
    OBVIOUS
  <2>2. BranchOf(request, replay, split) \in S
    BY <1>3, <2>1
  <2>3. Taken(request, replay, S, acc, split, next)
    <3>1. acc \in Accumulators(S)
      OBVIOUS
    <3>2. QED
      BY <2>1, <2>2, <3>1, TakenSplit
  <2>4. QED
    BY <2>1, <2>3 DEF Taken
<1> HIDE DEF take
<1>6. ASSUME NEW n \in 1 .. N, NEW acc \in V, grown(acc, n - 1)
      PROVE  grown(take(acc, n), n)
  <2>1. PICK next, b : next = take(acc, n) /\ b = BranchOf(request, replay, splits[n])
    OBVIOUS
  <2>2. SUFFICES ASSUME Undisturbed(next)
                 PROVE  /\ Len(next.branches) = n
                        /\ \A k \in 1 .. n :
                              /\ next.branches[k] = BranchOf(request, replay, splits[k])
                              /\ MergesOf(request, replay, splits[k].to) # {}
                              /\ ~(splits[k].value < Returned(request, replay, splits[k]).value)
    BY <2>1
  <2>3. /\ Undisturbed(acc) /\ MergesOf(request, replay, splits[n].to) # {}
        /\ ~(splits[n].value < Returned(request, replay, splits[n]).value)
        /\ next.branches = Append(acc.branches, b)
    BY <1>5, <2>1, <2>2
  <2>4. acc.branches \in Seq(S) /\ Len(acc.branches) = n - 1
    BY <1>6, <2>3 DEF Accumulators
  <2>5. /\ Len(next.branches) = n /\ next.branches[n] = b
        /\ \A k \in 1 .. n - 1 : next.branches[k] = acc.branches[k]
    BY <2>3, <2>4
  <2>6. \A k \in 1 .. n : k = n \/ k \in 1 .. n - 1
    OBVIOUS
  <2>7. QED
    BY <1>6, <2>1, <2>3, <2>5, <2>6
<1>7. grown(base, 0)
    BY <1>4
<1> HIDE DEF V
<1>8. PICK F : F = [p \in (1 .. N) \X V |-> take(p[2], p[1])]
    OBVIOUS
<1>9. /\ F \in [(1 .. N) \X V -> V]
      /\ \A n \in 1 .. N, acc \in V : F[<<n, acc>>] = take(acc, n)
    BY <1>5, <1>8
<1>10. PICK it : FoldsTo(it, 1 .. N, V, LastOfSet(N), base, F)
    BY <1>2, <1>4, <1>9, FoldByPosition
<1>11. fold(it)
  <2>1. it \in [SUBSET (1 .. N) -> V] /\ it[{}] = base
    BY <1>10 DEF FoldsTo
  <2>2. ASSUME NEW T \in SUBSET (1 .. N), T # {}
        PROVE  it[T] = take(it[T \ {Max(T)}], Max(T))
    <3>1. LastOfSet(N)[T] = Max(T) /\ Max(T) \in 1 .. N
      BY <1>2, <2>2, MaxOf DEF LastOfSet
    <3>2. it[T] = F[<<LastOfSet(N)[T], it[T \ {LastOfSet(N)[T]}]>>]
      BY <1>10, <2>2 DEF FoldsTo
    <3>3. T \ {Max(T)} \in SUBSET (1 .. N)
      OBVIOUS
    <3>4. it[T \ {Max(T)}] \in V
      BY <2>1, <3>3
    <3>5. QED
      BY <1>9, <3>1, <3>2, <3>4
  <2>3. \A T \in SUBSET (1 .. N) :
            it[T] = IF T = {} THEN base ELSE take(it[T \ {Max(T)}], Max(T))
    BY <2>1, <2>2
  <2>4. it = [T \in SUBSET (1 .. N) |-> it[T]]
    BY <2>1
  <2>5. it = [T \in SUBSET (1 .. N) |->
                 IF T = {} THEN base ELSE take(it[T \ {Max(T)}], Max(T))]
    BY <2>3, <2>4, Zenon
  <2>6. QED
    BY <1>2, <2>5, Zenon
<1>12. loop = (CHOOSE f : fold(f))[DOMAIN splits]
    BY Zenon DEF RemergeBranches, FoldLeft, MapThenFoldSet, take, TakeSplit, BranchOf, Returned,
                 splits, budget, base
<1>13. PICK f : fold(f) /\ loop = f[DOMAIN splits]
    BY <1>11, <1>12, Zenon
<1>14. \A T \in SUBSET (1 .. N) :
           f[T] = IF T = {} THEN base ELSE take(f[T \ {Max(T)}], Max(T))
    BY <1>2, <1>13, Zenon
<1> HIDE DEF grown
<1>15. PICK P : P = {n \in 0 .. N : f[1 .. n] \in V /\ grown(f[1 .. n], n)}
    OBVIOUS
<1>16. 0 \in P
  <2>1. 1 .. 0 = {} /\ {} \in SUBSET (1 .. N) /\ 0 \in 0 .. N
    BY <1>2
  <2>2. f[1 .. 0] = base
    BY <2>1, <1>14
  <2>3. QED
    BY <2>1, <2>2, <1>4, <1>7, <1>15
<1>17. ASSUME NEW n \in 1 .. N, n - 1 \in P
       PROVE  n \in P
  <2>1. /\ (1 .. n) \ {Max(1 .. n)} = 1 .. n - 1 /\ Max(1 .. n) = n
        /\ 1 .. n \in SUBSET (1 .. N) /\ 1 .. n # {}
    BY <1>2, LastPosition
  <2>2. f[1 .. n] = take(f[(1 .. n) \ {Max(1 .. n)}], Max(1 .. n))
    BY <2>1, <1>14
  <2>3. f[1 .. n] = take(f[1 .. n - 1], n)
    BY <2>1, <2>2, Zenon
  <2>4. f[1 .. n - 1] \in V /\ grown(f[1 .. n - 1], n - 1)
    BY <1>15, <1>17
  <2>5. f[1 .. n] \in V
    BY <2>3, <2>4, <1>5
  <2>6. grown(f[1 .. n], n)
    BY <2>3, <2>4, <1>6
  <2>7. n \in 0 .. N
    BY <1>2
  <2>8. QED
    BY <2>5, <2>6, <2>7, <1>15
<1>18. \A n \in 0 .. N : n \in P
    BY <1>2, <1>16, <1>17, UpTo
<1>19. loop \in V /\ grown(loop, N)
  <2>1. N \in 0 .. N
    BY <1>2
  <2>2. QED
    BY <1>2, <1>13, <1>15, <1>18, <2>1
<1>20. /\ loop.stopped \in BOOLEAN /\ loop.negative \in BOOLEAN /\ loop.available \in BOOLEAN
       /\ loop.branches \in Seq(S)
    BY <1>19 DEF V, Accumulators
<1>21. QED
    BY <1>1, <1>2, <1>19, <1>20 DEF grown, IsList, BranchPerSplit, splits

Repay(request, replay, splits, branches) ==
    \A k \in 1 .. Len(splits) :
        /\ branches[k].input = splits[k].value
        /\ branches[k].output = Returned(request, replay, splits[k]).value
        /\ Returned(request, replay, splits[k]) \in MergesOf(request, replay, splits[k].to)
        /\ branches[k].input \in Nat /\ branches[k].output \in Nat
        /\ branches[k].output <= branches[k].input

\* The split and the return of a branch are transactions of the replay; what came back
\* is not more than what went out.
LEMMA SplitReturned ==
    ASSUME NEW request, NEW replay, NEW txs, txs = replay.txs, Worth(txs),
           NEW splits \in Seq(ToSet(txs)), NEW branches,
           BranchPerSplit(request, replay, splits, branches)
    PROVE  Repay(request, replay, splits, branches)
<1>1. ASSUME NEW k \in 1 .. Len(splits)
      PROVE  /\ branches[k].input = splits[k].value
             /\ branches[k].output = Returned(request, replay, splits[k]).value
             /\ Returned(request, replay, splits[k]) \in MergesOf(request, replay, splits[k].to)
             /\ branches[k].input \in Nat /\ branches[k].output \in Nat
             /\ branches[k].output <= branches[k].input
  <2>1. PICK split, merges, back : /\ split = splits[k] /\ merges = MergesOf(request, replay, split.to)
                                   /\ back = Returned(request, replay, split)
    OBVIOUS
  <2>2. /\ branches[k] = BranchOf(request, replay, split) /\ merges # {}
        /\ ~(split.value < back.value)
    BY <1>1, <2>1 DEF BranchPerSplit
  <2>3. back \in merges
    <3>1. back = CHOOSE tx \in merges : TRUE
      BY <2>1, Zenon DEF Returned
    <3>2. QED
      BY <2>2, <3>1
  <2>4. merges \subseteq ToSet(txs)
    BY <2>1 DEF MergesOf
  <2>5. split \in ToSet(txs)
    BY <1>1, <2>1
  <2>6. split.value \in Nat /\ back.value \in Nat
    BY <2>3, <2>4, <2>5 DEF Worth
  <2>7. branches[k].input = split.value /\ branches[k].output = back.value
    BY <2>1, <2>2 DEF BranchOf
  <2>8. QED
    BY <2>1, <2>2, <2>3, <2>6, <2>7
<1>2. QED
    BY <1>1 DEF Repay

ReturnsOf(request, txs, splits) ==
    {tx \in ToSet(txs) : /\ tx.to = request.merge
                         /\ \E split \in ToSet(splits) : split.to = tx.from}

OutputsOf(branches) == [k \in DOMAIN branches |-> branches[k].output]

\* When no two splits went to one node, the returns of the branches are, each once,
\* the payments to the merge from a node that was paid.
LEMMA ReturnsPaid ==
    ASSUME NEW request, NEW replay, NEW txs, txs = replay.txs, Worth(txs),
           NEW splits \in Seq(ToSet(txs)),
           NEW branches, Repay(request, replay, splits, branches),
           \A j, k \in 1 .. Len(splits) : splits[j].to = splits[k].to => j = k,
           \A tx \in ToSet(txs) : Cardinality(MergesOf(request, replay, tx.from)) <= 1,
           DOMAIN branches = 1 .. Len(splits)
    PROVE  SumFunction(OutputsOf(branches)) = Paid(ReturnsOf(request, txs, splits))
<1> DEFINE E == ReturnsOf(request, txs, splits)
<1>0. PICK D, f : D = 1 .. Len(splits) /\ f = OutputsOf(branches)
    OBVIOUS
<1>1. PICK N, h, g : /\ N = Len(splits)
                     /\ h = [k \in 1 .. N |-> Returned(request, replay, splits[k])]
                     /\ g = [tx \in E |-> tx.value]
    OBVIOUS
<1>2. N \in Nat /\ DOMAIN splits = 1 .. N
    BY <1>1
<1> DEFINE returned(k) == Returned(request, replay, splits[k])
<1>2a. \A k \in 1 .. N : /\ returned(k) \in MergesOf(request, replay, splits[k].to)
                         /\ f[k] = returned(k).value /\ f[k] \in Int
    BY <1>0, <1>1 DEF Repay, OutputsOf
<1>2b. f \in [D -> Int]
    BY <1>0, <1>1, <1>2a DEF OutputsOf
<1>3. IsList(txs) /\ E \in SUBSET ToSet(txs)
    BY DEF Worth, ReturnsOf
<1>4. g \in [E -> Int]
  <2>1. \A tx \in E : tx.value \in Int
    BY <1>3 DEF Worth
  <2>2. QED
    BY <1>1, <2>1
<1>5. \A k \in 1 .. N : /\ h[k] \in ToSet(txs) /\ h[k].to = request.merge
                        /\ h[k].from = splits[k].to /\ f[k] = h[k].value
    BY <1>1, <1>2a DEF MergesOf
<1>6. \A k \in 1 .. N : splits[k] \in ToSet(splits)
    BY <1>2 DEF ToSet
<1>7. \A k \in 1 .. N : h[k] \in E
    BY <1>5, <1>6 DEF ReturnsOf
<1>8. h \in [1 .. N -> E]
    BY <1>1, <1>7
<1>9. \A j, k \in 1 .. N : h[j] = h[k] => j = k
    BY <1>1, <1>5
<1>10. ASSUME NEW tx \in E
       PROVE  \E k \in 1 .. N : h[k] = tx
  <2>1. PICK k \in 1 .. N : splits[k].to = tx.from
    BY <1>2, <1>10 DEF ToSet, ReturnsOf
  <2>2. PICK T : T = MergesOf(request, replay, tx.from)
    OBVIOUS
  <2>3. tx \in T /\ h[k] \in T
    <3>1. tx \in T
      BY <2>2 DEF MergesOf, ReturnsOf
    <3>2. h[k] \in T
      BY <1>1, <1>2a, <2>1, <2>2
    <3>3. QED
      BY <3>1, <3>2
  <2>4. IsFiniteSet(T) /\ Cardinality(T) <= 1
    <3>1. T \in SUBSET ToSet(txs)
      BY <2>2 DEF MergesOf
    <3>2. IsFiniteSet(T)
      BY <1>3, <3>1, ListFinite
    <3>3. QED
      BY <1>3, <2>2, <3>2
  <2>5. tx = h[k]
    <3>1. Cardinality(T) \in Nat /\ Cardinality(T) # 0
      BY <2>3, <2>4, FS_CardinalityType, FS_EmptySet
    <3>2. Cardinality(T) = 1
      BY <2>4, <3>1
    <3>3. \E x : T = {x}
      BY <2>4, <3>2, FS_Singleton
    <3>4. QED
      BY <2>3, <3>3
  <2>6. QED
    BY <2>5
<1> HIDE DEF E
<1>11. D = 1 .. N
    BY <1>0, <1>1
<1>12. IsFiniteSet(D)
    BY <1>2, <1>11, FS_Interval
<1>13. Renames(h, f, D, g, E)
  <2>1. \A k \in D : f[k] = g[h[k]]
    BY <1>1, <1>5, <1>7, <1>11
  <2>2. QED
    BY <1>8, <1>9, <1>10, <1>11, <2>1 DEF Renames
<1>14. IsFiniteSet(E)
    BY <1>3, ListFinite
<1>15. SumFunction(f) = SumFunction(g)
    BY <1>4, <1>12, <1>13, <1>14, <1>2b, SumRenamed
<1>16. QED
    BY <1>0, <1>1, <1>15 DEF Paid, E

\* What left the seed and what came back is what is reported.
LEMMA RemergeHeld ==
    ASSUME NEW i, FlowFormed(i), i.request.query = "trace_remerge",
           NEW r, r = AnalyzeFlowPathReplay(i.request, i.replay), r.status = "complete"
    PROVE  RemergeAddsUp(i, r)
<1>1. PICK request, replay, txs : request = i.request /\ replay = i.replay /\ txs = replay.txs
    OBVIOUS
<1>2. /\ Cardinality(Hashes(replay)) = Len(txs) /\ NoneHolds(RemergeChecks(request, replay))
      /\ r = TraceRemerge(request, replay)
    BY <1>1, FlowCompleted
<1>3. Worth(txs) /\ IsList(txs)
    BY <1>1 DEF FlowFormed, Worth
<1>4. \A j, k \in DOMAIN txs : txs[j] = txs[k] => j = k
  <2>1. txs = replay.txs /\ IsList(txs) /\ Cardinality(Hashes(replay)) = Len(txs)
    BY <1>1, <1>2, <1>3
  <2>2. QED
    BY <2>1, TransactionsDiffer, Zenon
<1>5. PICK I : I = {j \in DOMAIN txs : txs[j].from = request.seed}
    OBVIOUS
<1>6. PICK splits, S : splits = Kept(txs, I) /\ S = {tx \in ToSet(txs) : tx.from = request.seed}
    OBVIOUS
<1>7. splits = Splits(request, replay)
    BY <1>1, <1>5, <1>6, Zenon DEF Splits
<1>8. PICK f : f = AmountsOf(splits)
    OBVIOUS
<1>9. /\ SumFunction(f) = Paid(S) /\ splits \in Seq(ToSet(txs)) /\ ToSet(splits) = S
      /\ \A j, k \in 1 .. Len(splits) : splits[j] = splits[k] => j = k
  <2>1. EntriesAt(txs, I) = S
    BY <1>5, <1>6 DEF ToSet, EntriesAt
  <2>2. I \in SUBSET DOMAIN txs
    BY <1>5
  <2>3. /\ SumFunction(f) = Paid(EntriesAt(txs, I))
        /\ splits \in Seq(ToSet(txs)) /\ ToSet(splits) = EntriesAt(txs, I)
        /\ Differ(splits)
    BY <1>3, <1>4, <1>6, <1>8, <2>2, KeptPaid
  <2>4. QED
    BY <2>1, <2>3 DEF Differ
<1>10. PICK loop : loop = RemergeBranches(request, replay)
    OBVIOUS
<1>11. /\ loop.stopped \in BOOLEAN /\ loop.negative \in BOOLEAN /\ loop.available \in BOOLEAN
       /\ Undisturbed(loop) => BranchPerSplit(request, replay, splits, loop.branches)
  <2>1. IsList(Splits(request, replay))
    BY <1>7, <1>9 DEF IsList
  <2>2. QED
    BY <1>7, <1>10, <2>1, BranchesBuilt
<1>12. PICK branches, excluded, in, out :
           /\ branches = loop.branches
           /\ excluded = ExternalInflows(request, replay, {b.node : b \in ToSet(branches)})
           /\ in = SumFunction([k \in DOMAIN branches |-> branches[k].input])
           /\ out = SumFunction([k \in DOMAIN branches |-> branches[k].output])
    OBVIOUS
<1>13. PICK value, raws, evidence :
           /\ value = [type |-> "trace_remerge", branches |-> branches, excluded |-> excluded,
                       input |-> in, output |-> out, residual |-> in - out]
           /\ raws = {in, out, in - out} \cup UNION {{b.input, b.output} : b \in ToSet(branches)}
                         \cup {tx.value : tx \in ToSet(excluded)}
           /\ evidence = RemergeEvidence(replay, excluded)
    OBVIOUS
<1>14. PICK none, cut, part, done :
           /\ none = Failed(<<"reconciliation_failed", "ledger_reconciliation">>)
           /\ cut = FlowResult(replay, value, raws, evidence, "partial", "evidence_incomplete",
                               "budget_traversal")
           /\ part = FlowResult(replay, value, raws, evidence, "partial", "source_unavailable",
                                "branch_return_binding")
           /\ done = FlowResult(replay, value, raws, evidence, "complete", "", "")
    OBVIOUS
<1>15. r = CASE loop.negative -> none
             [] loop.stopped -> cut
             [] ~loop.stopped /\ ~loop.negative /\ ~(loop.available /\ replay.complete) -> part
             [] OTHER -> done
    BY <1>2, <1>10, <1>12, <1>13, <1>14, Zenon DEF TraceRemerge
<1>16. none.status = "failed" /\ cut.status = "partial" /\ part.status = "partial"
  <2>1. none.status = "failed"
    BY <1>14, RefusedStatus
  <2>2. cut.status = "partial"
    BY <1>14 DEF FlowResult, OneResult
  <2>3. part.status = "partial"
    BY <1>14 DEF FlowResult, OneResult
  <2>4. QED
    BY <2>1, <2>2, <2>3
<1>17. Undisturbed(loop) /\ r = done
    BY <1>11, <1>15, <1>16 DEF Undisturbed
<1>18. r.value = value
    BY <1>14, <1>17 DEF FlowResult, OneResult
<1>19. BranchPerSplit(request, replay, splits, branches)
    BY <1>11, <1>12, <1>17
<1>20. \A k \in 1 .. Len(splits) :
           /\ branches[k].input = splits[k].value
           /\ branches[k].output = Returned(request, replay, splits[k]).value
           /\ Returned(request, replay, splits[k]) \in MergesOf(request, replay, splits[k].to)
           /\ branches[k].input \in Nat /\ branches[k].output \in Nat
           /\ branches[k].output <= branches[k].input
  <2>1. txs = replay.txs /\ Worth(txs) /\ splits \in Seq(ToSet(txs))
    BY <1>1, <1>3, <1>9
  <2>2. Repay(request, replay, splits, branches)
    BY <1>19, <2>1, SplitReturned
  <2>3. QED
    BY <2>2 DEF Repay
<1>21. PICK D, ins, outs : /\ D = 1 .. Len(splits)
                           /\ ins = [k \in D |-> branches[k].input]
                           /\ outs = [k \in D |-> branches[k].output]
    OBVIOUS
<1>22. DOMAIN branches = D
    BY <1>19, <1>21 DEF BranchPerSplit, IsList
<1>23. in = SumFunction(ins) /\ out = SumFunction(outs)
    BY <1>12, <1>21, <1>22
<1>24. ins = f
    BY <1>8, <1>20, <1>21 DEF AmountsOf
<1>25. outs \in [D -> Int] /\ ins \in [D -> Int] /\ \A k \in D : outs[k] <= ins[k]
    BY <1>20, <1>21
<1>26. IsFiniteSet(D)
  <2>1. Len(splits) \in Nat
    BY <1>9
  <2>2. QED
    BY <1>21, <2>1, FS_Interval
<1>27. in \in Int /\ out \in Int /\ out <= in
  <2>1. SumFunction(ins) \in Int /\ SumFunction(outs) \in Int
    BY <1>25, <1>26, SumType
  <2>2. SumFunction(outs) <= SumFunction(ins)
    BY <1>25, <1>26, SumGrows
  <2>3. QED
    BY <1>23, <2>1, <2>2
<1>28. PICK E : E = ReturnsOf(request, txs, splits)
    OBVIOUS
<1>29. ASSUME \A a, b \in S : a.to = b.to => a = b
       PROVE  out = Paid(E)
  <2>1. \A j, k \in 1 .. Len(splits) : splits[j].to = splits[k].to => j = k
    <3>1. \A k \in 1 .. Len(splits) : splits[k] \in S
      BY <1>9 DEF ToSet
    <3>2. QED
      BY <1>9, <1>29, <3>1
  <2>2. \A tx \in ToSet(txs) : Cardinality(MergesOf(request, replay, tx.from)) <= 1
    <3>1. PICK p, q, t, u, c :
              /\ RemergeChecks(request, replay) = <<p, q, t, u>>
              /\ u = <<c, "reconciliation_failed", "edge_dedup">>
              /\ c = (\E tx \in ToSet(replay.txs) :
                          Cardinality(MergesOf(request, replay, tx.from)) > 1)
      BY Zenon DEF RemergeChecks
    <3>2. ~c
      <4>1. PICK list : list = RemergeChecks(request, replay)
        OBVIOUS
      <4>2. list = <<p, q, t, u>> /\ u[1] = c
        BY <3>1, <4>1
      <4>3. 4 \in DOMAIN list /\ list[4] = u
        BY <4>2
      <4>4. NoneHolds(list)
        BY <1>2, <4>1
      <4>5. QED
        BY <4>2, <4>3, <4>4 DEF NoneHolds
    <3>3. \A tx \in ToSet(txs) : ~(Cardinality(MergesOf(request, replay, tx.from)) > 1)
      BY <1>1, <3>1, <3>2
    <3>4. ASSUME NEW tx \in ToSet(txs)
          PROVE  Cardinality(MergesOf(request, replay, tx.from)) \in Nat
      <4>1. PICK T : T = MergesOf(request, replay, tx.from)
        OBVIOUS
      <4>2. T \in SUBSET ToSet(txs)
        BY <1>1, <4>1 DEF MergesOf
      <4>3. IsFiniteSet(T)
        BY <1>3, <4>2, ListFinite
      <4>4. QED
        BY <4>1, <4>3, FS_CardinalityType
    <3>5. QED
      BY <3>3, <3>4
  <2>3. Repay(request, replay, splits, branches)
    BY <1>20, Zenon DEF Repay
  <2>4. SumFunction(OutputsOf(branches)) = Paid(ReturnsOf(request, txs, splits))
    BY <1>1, <1>3, <1>9, <1>21, <1>22, <2>1, <2>2, <2>3, ReturnsPaid
  <2>5. OutputsOf(branches) = outs
    BY <1>21, <1>22 DEF OutputsOf
  <2>6. QED
    BY <1>23, <1>28, <2>4, <2>5
<1>30. /\ value.input = Paid(S)
       /\ (\A a, b \in S : a.to = b.to => a = b) => value.output = Paid(E)
       /\ value.residual = value.input - value.output /\ value.residual >= 0
  <2>1. value.input = in /\ value.output = out /\ value.residual = in - out
    BY <1>13
  <2>2. QED
    BY <1>9, <1>23, <1>24, <1>27, <1>29, <2>1
<1>31. E = {tx \in ToSet(txs) : tx.to = request.merge /\ \E split \in S : split.to = tx.from}
    BY <1>9, <1>28 DEF ReturnsOf
<1>32. QED
    BY <1>1, <1>6, <1>18, <1>30, <1>31, Zenon DEF RemergeAddsUp

-----------------------------------------------------------------------------
(* Amounts of the other analyzers.                                         *)

\* Leaving out the calls that pay nothing does not change the sum.
LEMMA PayingSum ==
    ASSUME NEW calls, Worth(calls), NEW I \in SUBSET DOMAIN calls, NEW J \in SUBSET DOMAIN calls,
           \A k \in DOMAIN calls : k \in I <=> k \in J /\ calls[k].value > 0,
           NEW list, list = Kept(calls, I)
    PROVE  SumFunction([k \in DOMAIN list |-> list[k].value])
               = SumFunction([k \in J |-> calls[k].value])
<1>1. IsList(calls) /\ \A k \in DOMAIN calls : calls[k].value \in Nat
    BY DEF Worth, ToSet
<1>2. list \in Seq(ToSet(calls))
    BY <1>1, KeptSet
<1>3. PICK h : Numbers(h, list, calls, I)
    BY <1>1, KeptEach
<1>4. PICK D : D = 1 .. Len(list)
    OBVIOUS
<1>5. Len(list) \in Nat /\ DOMAIN list = D
    BY <1>2, <1>4
<1>6. /\ h \in [D -> I] /\ \A k \in D : list[k] = calls[h[k]]
      /\ \A i \in I : \E k \in D : h[k] = i
      /\ \A j, k \in D : h[j] = h[k] => j = k
    BY <1>3, <1>4 DEF Numbers
<1>7. PICK f, g : f = [k \in D |-> list[k].value] /\ g = [k \in J |-> calls[k].value]
    OBVIOUS
<1>8. \A k \in D : h[k] \in J /\ h[k] \in DOMAIN calls /\ f[k] = g[h[k]] /\ f[k] \in Int
    BY <1>1, <1>6, <1>7
<1>9. f \in [D -> Int] /\ g \in [J -> Int] /\ h \in [D -> J]
  <2>1. f \in [D -> Int]
    BY <1>7, <1>8
  <2>2. \A k \in J : calls[k].value \in Int
    BY <1>1
  <2>3. QED
    BY <1>6, <1>7, <1>8, <2>1, <2>2
<1>10. Renames(h, f, D, g, J)
  <2>1. ASSUME NEW y \in J, \A x \in D : h[x] # y
        PROVE  g[y] = 0
    <3>1. y \notin I
      BY <1>6, <2>1
    <3>2. calls[y].value \in Nat /\ ~(calls[y].value > 0)
      BY <1>1, <3>1
    <3>3. QED
      BY <1>7, <3>2
  <2>2. QED
    BY <1>6, <1>8, <1>9, <2>1 DEF Renames
<1>11. IsFiniteSet(D) /\ IsFiniteSet(J)
  <2>1. IsFiniteSet(D)
    BY <1>4, <1>5, FS_Interval
  <2>2. IsFiniteSet(DOMAIN calls)
    <3>1. {} \in SUBSET ToSet(calls)
      OBVIOUS
    <3>2. QED
      BY <1>1, <3>1, ListFinite
  <2>3. QED
    BY <2>1, <2>2, FS_Subset
<1>12. SumFunction(f) = SumFunction(g)
    BY <1>9, <1>10, <1>11, SumRenamed
<1>13. QED
    BY <1>5, <1>7, <1>12

\* The reported inflow is what the calls paid to the address of interest.
LEMMA InflowHeld ==
    ASSUME NEW i, Formed(i), i.kind = "evm_core", i.request.query = "native_inflow",
           NEW r, r = AnalyzeEvmCoreReplay(i.request, i.replay), r.status = "complete"
    PROVE  InflowAddsUp(i, r)
<1>1. PICK request, replay : request = i.request /\ replay = i.replay
    OBVIOUS
<1>2. PICK refusal, core : /\ refusal = FirstRefusal(CoreBindingError(request, replay))
                           /\ core = NativeInflow(request, replay)
    OBVIOUS
<1>3. PICK q, other1, other2, other3 :
          /\ q = replay.query /\ other1 = ObjectSummary(request, replay)
          /\ other2 = HistoricalBalance(request, replay)
          /\ other3 = FirstTokenTransfer(request, replay)
    OBVIOUS
<1>4. r = IF refusal # NoRefusal THEN Failed(refusal)
          ELSE CASE q = "object_summary" -> other1
                 [] q = "historical_balance" -> other2
                 [] q = "first_token_transfer" -> other3
                 [] q = "native_inflow" -> core
  <2>1. r = AnalyzeEvmCoreReplay(request, replay)
    BY <1>1
  <2>2. QED
    BY <2>1, <1>2, <1>3, Zenon DEF AnalyzeEvmCoreReplay
<1>5. refusal = NoRefusal
    BY <1>4, RefusedStatus
<1>6. q = "native_inflow"
  <2>1. PICK a, b, c, d :
            /\ a = <<~request.offline, "rule_restricted", "validate_replay">>
            /\ b = <<request.query # replay.query \/ request.chain # replay.chain,
                     "reconciliation_failed", "validate_replay">>
            /\ c = <<request.fixture \notin {Anything, replay.fixture},
                     "reconciliation_failed", "validate_replay">>
            /\ d = <<~(ToSet(replay.sources) \subseteq request.allowed),
                     "rule_restricted", "validate_replay">>
    OBVIOUS
  <2>2. CoreBindingError(request, replay) = <<a, b, c, d>>
    BY <2>1, Zenon DEF CoreBindingError
  <2>3. ~b[1]
    BY <2>2, <1>2, <1>5, NotRefused, BindingChecks
  <2>4. QED
    BY <2>1, <2>3, <1>1, <1>3
<1>7. r = core
    BY <1>4, <1>5, <1>6
<1>8. PICK calls : calls = replay.calls
    OBVIOUS
<1>9. Worth(calls)
    BY <1>1, <1>3, <1>6, <1>8 DEF Formed
<1>10. PICK I, J :
           /\ I = {k \in DOMAIN calls : /\ calls[k].tx = request.hash
                                        /\ calls[k].to = request.interest /\ calls[k].value > 0}
           /\ J = {k \in DOMAIN calls : /\ calls[k].to = request.interest
                                        /\ calls[k].tx = request.hash}
    OBVIOUS
<1>11. PICK list, inflow : /\ list = Kept(calls, I)
                           /\ inflow = SumFunction([k \in DOMAIN list |-> list[k].value])
    OBVIOUS
<1>12. list = InflowCalls(request, replay)
    BY <1>8, <1>10, <1>11, Zenon DEF InflowCalls
<1>13. inflow = SumFunction([k \in J |-> calls[k].value])
  <2>1. I \in SUBSET DOMAIN calls /\ J \in SUBSET DOMAIN calls
    BY <1>10
  <2>2. \A k \in DOMAIN calls : k \in I <=> k \in J /\ calls[k].value > 0
    BY <1>10
  <2>3. SumFunction([k \in DOMAIN list |-> list[k].value])
            = SumFunction([k \in J |-> calls[k].value])
    BY <1>9, <1>11, <2>1, <2>2, PayingSum
  <2>4. QED
    BY <1>11, <2>3
<1>14. r.value.inflow = inflow
  <2>1. PICK evidence, value, raws :
            /\ evidence = <<Evidence(replay.sources, <<"INTERNAL-TX">>, 1)>>
                    \o [k \in DOMAIN list |-> Evidence(replay.sources, <<"INTERNAL-ETH", k>>, 1)]
            /\ value = [type |-> "native_inflow", topLevel |-> replay.tx.value,
                        inflow |-> inflow, count |-> Len(list)]
            /\ raws = {c.value : c \in ToSet(list)}
    OBVIOUS
  <2>2. PICK built, incomplete :
            /\ incomplete = ~replay.complete
            /\ built = CoreResult(replay, value, raws, evidence, incomplete,
                                  "trace_unavailable", "internal_call_trace", <<<<"INTERNAL-TX">>>>)
    OBVIOUS
  <2>3. core = IF replay.tx.hash # request.hash THEN Failed(Undecodable) ELSE built
    BY <1>2, <1>11, <1>12, <2>1, <2>2, Zenon DEF NativeInflow
  <2>4. r = built
    BY <2>3, <1>7, RefusedStatus
  <2>5. PICK one, errors :
            /\ one = OneResult(replay.sources, value, raws, evidence,
                               IF incomplete THEN "partial" ELSE "complete",
                               "trace_unavailable", "internal_call_trace")
            /\ errors = IF incomplete THEN <<Error("trace_unavailable", "internal_call_trace",
                                                   <<<<"INTERNAL-TX">>>>)>> ELSE <<>>
    OBVIOUS
  <2>6. r = Checked([one EXCEPT !.errors = errors], "decode_evm_core")
    BY <2>2, <2>4, <2>5, Zenon DEF CoreResult
  <2>7. r = [one EXCEPT !.errors = errors]
    BY <2>6, CheckedComplete, Zenon
  <2>8. one.value = value /\ r.value = one.value
    <3>1. "value" \in DOMAIN one /\ one.value = value
      BY <2>5 DEF OneResult
    <3>2. QED
      BY <3>1, <2>7
  <2>9. QED
    BY <2>1, <2>8
<1>15. QED
    BY <1>1, <1>8, <1>10, <1>13, <1>14, Zenon DEF InflowAddsUp

ShownAmounts(observations, role) ==
    [o \in {x \in ToSet(observations) : x.role = role} |-> o.body.tx.value]

\* One role's observations of a complete cluster add up to its total.
LEMMA RoleSum ==
    ASSUME NEW observations, IsList(observations), NEW n \in Nat, NEW role,
           ObservationsMatch(observations, n), IndexedRoles(observations, role) = 1 .. n,
           \A o \in ToSet(observations) : o.body.tx.value \in Nat,
           NEW D, D = 1 .. n, NEW f \in [D -> Int],
           \A k \in D : f[k] = ObservationOf(observations, role, k).body.tx.value
    PROVE  SumFunction(f) = SumFunction(ShownAmounts(observations, role))
<1>0. PICK E, g : /\ E = {o \in ToSet(observations) : o.role = role}
                  /\ g = [o \in E |-> o.body.tx.value]
    OBVIOUS
<1>1. PICK h : h = [k \in D |-> ObservationOf(observations, role, k)]
    OBVIOUS
<1>2. \A k \in D : h[k] \in ToSet(observations) /\ h[k].role = role /\ h[k].index = k
    BY <1>1, ObservationFound
<1>3. h \in [D -> E] /\ \A j, k \in D : h[j] = h[k] => j = k
    BY <1>0, <1>1, <1>2
<1>4. \A k \in D : f[k] = g[h[k]]
    BY <1>0, <1>1, <1>3
<1>5. g \in [E -> Int]
  <2>1. \A o \in E : o.body.tx.value \in Int
    BY <1>0
  <2>2. QED
    BY <1>0, <2>1
<1>6. ASSUME NEW o \in E
      PROVE  h[o.index] = o /\ o.index \in D
  <2>1. o.index \in D
    <3>1. o \in ToSet(observations) /\ o.role = role
      BY <1>0
    <3>2. o.index \in IndexedRoles(observations, role)
      BY <3>1 DEF IndexedRoles
    <3>3. QED
      BY <3>2
  <2>2. PICK x : x = h[o.index]
    OBVIOUS
  <2>3. x \in ToSet(observations) /\ x.role = o.role /\ x.index = o.index
    BY <1>0, <1>2, <2>1, <2>2
  <2>4. PICK a \in DOMAIN observations, b \in DOMAIN observations :
            o = observations[a] /\ x = observations[b]
    BY <1>0, <2>3 DEF ToSet
  <2>5. a = b
    <3>1. PICK id : id = [k \in DOMAIN observations |->
                              <<observations[k].role, observations[k].index>>]
      OBVIOUS
    <3>2. IsInjective(id) /\ DOMAIN id = DOMAIN observations
      BY <3>1 DEF ObservationsMatch
    <3>3. id[a] = id[b]
      BY <2>3, <2>4, <3>1
    <3>4. QED
      BY <3>2, <3>3 DEF IsInjective
  <2>6. QED
    BY <2>1, <2>2, <2>4, <2>5
<1>7. Renames(h, f, D, g, E)
    BY <1>3, <1>4, <1>6 DEF Renames
<1>8. IsFiniteSet(D) /\ IsFiniteSet(E)
  <2>1. IsFiniteSet(D)
    BY FS_Interval
  <2>2. E \in SUBSET ToSet(observations)
    BY <1>0
  <2>3. QED
    BY <2>1, <2>2, ListFinite
<1>9. SumFunction(f) = SumFunction(g)
    BY <1>5, <1>7, <1>8, SumRenamed
<1>10. QED
    BY <1>0, <1>9 DEF ShownAmounts

\* What the hot wallet received is what each provider showed.
LEMMA ClusterHeld ==
    ASSUME NEW i, Formed(i), i.kind = "cex_cluster", NEW r, r = Analyzed(i),
           r.status = "complete"
    PROVE  ClusterAddsUp(i, r)
<1>1. PICK request, package, replay, observations :
          /\ request = i.request /\ package = i.package /\ replay = i.replay
          /\ observations = replay.observations
    OBVIOUS
<1>2. r = AnalyzeCexClusterReplay(request, package, replay) /\ r.status = "complete"
    BY <1>1 DEF Analyzed
<1>3. /\ IsList(observations) /\ IsList(replay.transfers)
      /\ \A o \in ToSet(observations) : o.index \in Nat /\ o.body.tx.value \in Nat
    BY <1>1 DEF Formed, PackageFormed, PackageKinds
<1>4. /\ ReconstructCexClusterFacts(package, replay) = Quiet /\ r.value = CexFacts(replay)
      /\ ParseCexClusterReplay(replay)
    BY <1>1, <1>2, <1>3, CexCompleted
<1>5. PICK n, D, facts, f :
          /\ n = Len(replay.transfers) /\ D = 1 .. n
          /\ facts = [k \in DOMAIN replay.transfers |-> CexFact(replay, "PRIMARY", k)]
          /\ f = [k \in DOMAIN facts |-> facts[k].amount]
    OBVIOUS
<1>6. n \in Nat /\ DOMAIN replay.transfers = D
    BY <1>3, <1>5 DEF IsList
<1>7. /\ IndexedRoles(observations, "VERIFY") = 1 .. n
      /\ \A k \in 1 .. n : CexFact(replay, "PRIMARY", k) = CexFact(replay, "VERIFY", k)
    BY <1>1, <1>3, <1>4, <1>5, CexReconstructed
<1>8. IndexedRoles(observations, "PRIMARY") = 1 .. n /\ ObservationsMatch(observations, n)
    BY <1>1, <1>4, <1>5, Zenon DEF ParseCexClusterReplay, ObservationsMatch
<1>9. r.value.total = SumFunction(f)
    BY <1>4, <1>5 DEF CexFacts
<1>10. ASSUME NEW role \in ProviderRoles
       PROVE  SumFunction(f) = SumFunction(ShownAmounts(observations, role))
  <2>1. role = "PRIMARY" \/ role = "VERIFY"
    BY DEF ProviderRoles
  <2>2. IndexedRoles(observations, role) = 1 .. n
    BY <1>7, <1>8, <2>1
  <2>3. ASSUME NEW k \in D
        PROVE  /\ f[k] = ObservationOf(observations, role, k).body.tx.value
               /\ f[k] \in Int
    <3>1. PICK o : o = ObservationOf(observations, role, k)
      OBVIOUS
    <3>2. o \in ToSet(observations)
      BY <1>5, <2>2, <3>1, ObservationFound
    <3>3. facts[k] = CexFact(replay, role, k)
      BY <1>5, <1>6, <1>7, <2>1
    <3>4. facts[k] = DecodedTransfer(o, replay)
      BY <1>1, <3>1, <3>3, Zenon DEF CexFact
    <3>5. facts[k].amount = o.body.tx.value
      BY <3>4 DEF DecodedTransfer
    <3>6. f[k] = facts[k].amount
      BY <1>5, <1>6
    <3>7. QED
      BY <1>3, <3>1, <3>2, <3>5, <3>6
  <2>4. f \in [D -> Int]
    BY <1>5, <1>6, <2>3
  <2>5. \A k \in D : f[k] = ObservationOf(observations, role, k).body.tx.value
    BY <2>3
  <2>6. \A o \in ToSet(observations) : o.body.tx.value \in Nat
    BY <1>3
  <2>7. IsList(observations) /\ D = 1 .. n /\ n \in Nat
    BY <1>3, <1>5, <1>6
  <2>8. QED
    BY <1>8, <2>2, <2>4, <2>5, <2>6, <2>7, RoleSum
<1>11. QED
    BY <1>1, <1>9, <1>10, Zenon DEF ClusterAddsUp, ShownAmounts

\* What was sent is what was received and the fee, and the fee is no loss.
LEMMA BridgeHeld ==
    ASSUME NEW i, Formed(i), i.kind = "bridge_transfer", NEW r, r = Analyzed(i),
           r.status = "complete"
    PROVE  BridgeAddsUp(r.value)
<1>1. PICK request, package, replay :
          request = i.request /\ package = i.package /\ replay = i.replay
    OBVIOUS
<1>2. r = AnalyzeBridgeTransferReplay(request, package, replay) /\ r.status = "complete"
    BY <1>1 DEF Analyzed
<1>3. /\ IsList(package.pins.providers)
      /\ \A o \in ToSet(replay.observations) :
             /\ ArtifactsFormed(o, Capabilities) /\ IsList(o.body.receipt.logs)
             /\ \A l \in ToSet(o.body.receipt.logs) :
                    l.event.inputAmount \in Nat /\ l.event.outputAmount \in Nat
    BY <1>1 DEF Formed, PackageFormed, PackageKinds
<1>4. /\ ReconstructBridgeTransferFacts(package, replay) = Quiet /\ r.value = BridgeFacts(replay)
    BY <1>2, BridgeCompleted
<1>5. PICK source, destination :
          source = SourceEvent(replay) /\ destination = DestinationEvent(replay)
    OBVIOUS
<1>6. ~(source.inputAmount < destination.outputAmount)
    BY <1>4, <1>5, BridgeReconstructed
<1>7. /\ r.value.sent = source.inputAmount /\ r.value.received = destination.outputAmount
      /\ r.value.fee = source.inputAmount - destination.outputAmount
    BY <1>4, <1>5 DEF BridgeFacts
<1>8. r.value.sent \in Nat /\ r.value.received \in Nat
  <2>1. \A chain \in {"base", "ethereum"} : \E o \in ToSet(replay.observations) :
               /\ o.chain = chain /\ o.body.receipt.success /\ Authentic(o, package.pins)
               /\ \E log \in ToSet(o.body.receipt.logs) :
                      Announces(log.event, r.value, request.subject)
    BY <1>2, <1>3, BridgeBacked
  <2>2. PICK o \in ToSet(replay.observations) :
            \E log \in ToSet(o.body.receipt.logs) :
                Announces(log.event, r.value, request.subject)
    BY <2>1
  <2>3. PICK log \in ToSet(o.body.receipt.logs) :
            Announces(log.event, r.value, request.subject)
    BY <2>2
  <2>4. r.value.sent = log.event.inputAmount /\ r.value.received = log.event.outputAmount
    BY <2>3 DEF Announces
  <2>5. QED
    BY <1>3, <2>4
<1>9. QED
    BY <1>6, <1>7, <1>8 DEF BridgeAddsUp

\* A list of checks, one for each entry of a list.
LEMMA CheckOfEach ==
    ASSUME NEW list, IsList(list), NEW ss, ss = [i \in DOMAIN list |-> ss[i]]
    PROVE  IsChecks(ss)
<1>1. PICK N, S : N = Len(list) /\ S = {ss[i] : i \in 1 .. N}
    OBVIOUS
<1>2. N \in Nat /\ ss = [i \in 1 .. N |-> ss[i]] /\ \A i \in 1 .. N : ss[i] \in S
    BY <1>1 DEF IsList
<1>3. ss \in Seq(S)
    BY <1>2
<1>4. QED
    BY <1>3 DEF IsChecks

\* A swap that was decoded has one swap event.
LEMMA OneSwap ==
    ASSUME NEW request, NEW replay,
           NoneHolds(DexBindingError(request, replay) \o DexDecodeReplay(replay))
    PROVE  Len(LogsNamed(replay, "swap")) = 1
<1>1. PICK binding, ss, words :
          /\ binding = DexBindingError(request, replay)
          /\ ss = [i \in DOMAIN LogNames |->
                     LET l == RequiredLog(replay, LogNames[i])
                     IN  OneLog(replay, l[1], l[2], l[3])]
          /\ words = [i \in DOMAIN LogNames |->
                        LET name == LogNames[i]
                        IN  <</\ LogsNamed(replay, name) # <<>>
                              /\ Len(Words(replay, name)) < (IF name = "swap" THEN 4 ELSE 1),
                              "DecodingError", "decode_logs">>]
    OBVIOUS
<1>2. PICK flat : flat = FlattenSeq(ss)
    OBVIOUS
<1>3. DexDecodeReplay(replay) = flat \o words
    BY <1>1, <1>2, Zenon DEF DexDecodeReplay
<1>4. IsList(LogNames) /\ 3 \in DOMAIN LogNames /\ LogNames[3] = "swap"
    BY DEF LogNames, IsList
<1>5. IsChecks(binding)
  <2>1. PICK a, b, c, d, e : binding = <<a, b, c, d, e>>
    BY <1>1, Zenon DEF DexBindingError
  <2>2. binding \in Seq({a, b, c, d, e})
    BY <2>1
  <2>3. QED
    BY <2>2 DEF IsChecks
<1>6. ASSUME NEW i \in DOMAIN LogNames
      PROVE  IsChecks(ss[i])
  <2>1. PICK a, b : ss[i] = <<a, b>>
    BY <1>1, Zenon DEF OneLog
  <2>2. ss[i] \in Seq({a, b})
    BY <2>1
  <2>3. QED
    BY <2>2 DEF IsChecks
<1>7. ss = [i \in DOMAIN LogNames |-> ss[i]] /\ words = [i \in DOMAIN LogNames |-> words[i]]
    BY <1>1, Zenon
<1>8. IsChecks(flat) /\ (NoneHolds(flat) => \A i \in DOMAIN LogNames : NoneHolds(ss[i]))
    BY <1>2, <1>4, <1>6, <1>7, EveryElement
<1>9. IsChecks(words)
    BY <1>4, <1>7, CheckOfEach
<1>10. NoneHolds(flat)
  <2>1. IsChecks(flat \o words) /\ (NoneHolds(flat \o words) => NoneHolds(flat))
    BY <1>8, <1>9, NoneHoldsParts
  <2>2. NoneHolds(binding \o (flat \o words)) => NoneHolds(flat \o words)
    BY <1>5, <2>1, NoneHoldsParts
  <2>3. NoneHolds(binding \o (flat \o words))
    BY <1>1, <1>3
  <2>4. QED
    BY <2>1, <2>2, <2>3
<1>11. PICK l, swaps : /\ l = RequiredLog(replay, "swap")
                       /\ swaps = Candidates(replay, l[1], l[2], l[3])
    OBVIOUS
<1>12. swaps = LogsNamed(replay, "swap")
    BY <1>11, Zenon DEF LogsNamed
<1>13. PICK a, b : ss[3] = <<a, b>> /\ b = <<Len(swaps) # 1, "decode_failed", "decode_logs">>
  <2>1. ss[3] = OneLog(replay, l[1], l[2], l[3])
    BY <1>1, <1>4, <1>11, Zenon
  <2>2. QED
    BY <1>11, <2>1, Zenon DEF OneLog
<1>14. NoneHolds(ss[3])
    BY <1>4, <1>8, <1>10
<1>15. ~b[1]
  <2>1. PICK list : list = ss[3]
    OBVIOUS
  <2>2. list = <<a, b>>
    BY <1>13, <2>1
  <2>3. 2 \in DOMAIN list /\ list[2] = b
    BY <2>2
  <2>4. QED
    BY <1>14, <2>1, <2>3 DEF NoneHolds
<1>16. QED
    BY <1>12, <1>13, <1>15

\* The swap event that was decoded is the transaction's only one.
LEMMA SwapFound ==
    ASSUME NEW replay, NEW logs, logs = replay.receipt.logs, IsList(logs),
           \A l \in ToSet(logs) : IsList(l.args),
           NEW swaps, swaps = LogsNamed(replay, "swap"), Len(swaps) = 1
    PROVE  /\ {log \in ToSet(logs) : IsSwap(log, replay)} = {swaps[1]}
           /\ swaps[1] \in ToSet(logs)
<1>1. PICK pair, l, none : /\ pair = replay.metadata.pair /\ l = RequiredLog(replay, "swap")
                           /\ none = <<>>
    OBVIOUS
<1>2. l = <<"Swap", pair, none>>
    BY <1>1 DEF RequiredLog
<1>3. l[1] = "Swap" /\ l[2] = pair /\ l[3] = none
    BY <1>2
<1>4. PICK I : I = {i \in DOMAIN logs : /\ logs[i].address = pair /\ logs[i].event = "Swap"
                                        /\ logs[i].bound /\ IsPrefix(none, logs[i].args)}
    OBVIOUS
<1>5. swaps = Kept(logs, I)
  <2>1. swaps = Candidates(replay, l[1], l[2], l[3])
    BY <1>1, Zenon DEF LogsNamed
  <2>2. swaps = Candidates(replay, "Swap", pair, none)
    BY <1>3, <2>1
  <2>3. QED
    BY <1>4, <2>2, Zenon DEF Candidates
<1>6. \A i \in DOMAIN logs : IsPrefix(none, logs[i].args)
  <2>1. ASSUME NEW s, IsList(s)
        PROVE  IsPrefix(none, s)
    BY <1>1, <2>1 DEF IsPrefix, IsList
  <2>2. \A i \in DOMAIN logs : IsList(logs[i].args)
    BY DEF ToSet
  <2>3. QED
    BY <2>1, <2>2
<1>7. I = {i \in DOMAIN logs : IsSwap(logs[i], replay)}
    BY <1>1, <1>4, <1>6 DEF IsSwap
<1>8. swaps \in Seq(ToSet(logs)) /\ ToSet(swaps) = {logs[i] : i \in I}
  <2>1. I \in SUBSET DOMAIN logs
    BY <1>4
  <2>2. QED
    BY <1>5, <2>1, KeptSet
<1>9. ToSet(swaps) = {swaps[1]} /\ swaps[1] \in ToSet(logs)
    BY <1>8 DEF ToSet
<1>10. {logs[i] : i \in I} = {log \in ToSet(logs) : IsSwap(log, replay)}
    BY <1>7 DEF ToSet
<1>11. QED
    BY <1>8, <1>9, <1>10

\* The amounts of a swap are those of its event, and the user received what the pool paid.
LEMMA SwapHeld ==
    ASSUME NEW i, Formed(i), i.kind = "dex",
           NEW r, r = AnalyzeDexReplay(i.request, i.replay), r.status = "complete"
    PROVE  SwapAddsUp(i, r)
<1>1. PICK request, replay, logs : /\ request = i.request /\ replay = i.replay
                                   /\ logs = replay.receipt.logs
    OBVIOUS
<1>2. IsList(logs) /\ \A l \in ToSet(logs) : IsList(l.args)
    BY <1>1 DEF Formed
<1>3. PICK refusal, valid :
          /\ refusal = FirstRefusal(DexBindingError(request, replay) \o DexDecodeReplay(replay))
          /\ valid = DexAnalyzeValidReplay(replay)
    OBVIOUS
<1>4. r = IF refusal # NoRefusal THEN Refused(refusal) ELSE valid
  <2>1. r = AnalyzeDexReplay(request, replay)
    BY <1>1
  <2>2. QED
    BY <1>3, <2>1, Zenon DEF AnalyzeDexReplay
<1>5. refusal = NoRefusal /\ r = valid
    BY <1>4, RefusedStatus
<1>6. Len(LogsNamed(replay, "swap")) = 1
    BY <1>3, <1>5, NotRefused, OneSwap
<1>7. PICK swaps, swap : /\ swaps = LogsNamed(replay, "swap") /\ swap = swaps[1]
    OBVIOUS
<1>8. {log \in ToSet(logs) : IsSwap(log, replay)} = {swap} /\ swap \in ToSet(logs)
    BY <1>1, <1>2, <1>6, <1>7, SwapFound
<1>9. PICK in, out, words, withdrawn :
          /\ in = Words(replay, "transfer_in")[1] /\ out = Words(replay, "transfer_out")[1]
          /\ words = Words(replay, "swap") /\ withdrawn = Words(replay, "withdrawal")[1]
    OBVIOUS
<1>10. words = swap.data
    BY <1>7, <1>9, Zenon DEF Words
<1>11. PICK calls, wrong, miscalled :
           /\ calls = MatchingInternalCalls(replay)
           /\ wrong = ReconciliationMismatches(replay) /\ miscalled = CallMismatches(replay)
    OBVIOUS
<1>12. PICK none, some, raised, ends, results, errors, wrongs :
           /\ ends = (IF Len(calls) = 1 THEN "complete" ELSE "partial")
           /\ results = DexConfirmedResults(Len(calls) = 1)
           /\ errors = (IF Len(calls) = 1 THEN <<>>
                        ELSE <<Error("trace_unavailable", "collect_internal_calls",
                                     <<"withdrawal">>)>>)
           /\ wrongs = <<Error("reconciliation_failed", "reconcile_swap",
                               AllIds(DexEvidence(replay)))>>
           /\ none = DexResult(replay, "failed", <<>>, wrongs)
           /\ some = DexResult(replay, ends, results, errors)
           /\ raised = Raised("ValueError")
    OBVIOUS
<1>13. r = IF wrong \cup miscalled # {} THEN none ELSE some
  <2>1. r = IF replay.metadata.historicalPair = "short" THEN raised
            ELSE IF wrong \cup miscalled # {} THEN none ELSE some
    BY <1>3, <1>5, <1>11, <1>12, Zenon DEF DexAnalyzeValidReplay
  <2>2. r # raised
    BY <1>12 DEF Raised, Failed
  <2>3. QED
    BY <2>1, <2>2
<1>14. PICK value :
           value = [assetIn |-> in, poolOutput |-> out,
                    userOutput |-> IF Len(calls) = 1 THEN <<calls[1].value>> ELSE <<>>]
    OBVIOUS
<1>15. ASSUME NEW status, NEW res, NEW err, r = DexResult(replay, status, res, err)
       PROVE  r.status = status /\ r.value = value
  <2>1. PICK evidence, sources, raws :
            /\ evidence = DexEvidence(replay) /\ sources = SourceRecords(replay.sources, evidence)
            /\ raws = UNION {ToSet(Words(replay, LogNames[k])) : k \in DOMAIN LogNames}
                      \cup (IF Len(calls) = 1 THEN {calls[1].value} ELSE {})
    OBVIOUS
  <2>2. PICK built : built = [status |-> status, results |-> res, evidence |-> evidence,
                              sources |-> sources, errors |-> err, raws |-> raws,
                              value |-> value]
    OBVIOUS
  <2>3. r = CheckedOrRaised(built)
    BY <1>9, <1>11, <1>14, <1>15, <2>1, <2>2, Zenon DEF DexResult
  <2>4. r = built
    <3>1. CheckedOrRaised(built).status # "raised"
      BY <2>3
    <3>2. QED
      BY <2>3, <3>1, CheckedBuilt, Zenon
  <2>5. QED
    BY <2>2, <2>4
<1>16. wrong \cup miscalled = {} /\ r = some
  <2>1. r # none
    <3>1. r = none => r.status = "failed"
      BY <1>12, <1>15, Zenon
    <3>2. QED
      BY <3>1
  <2>2. QED
    BY <1>13, <2>1
<1>17. ends = "complete" /\ r.value = value
    BY <1>12, <1>15, <1>16, Zenon
<1>18. Len(calls) = 1
    BY <1>12, <1>17
<1>19. in = words[1] /\ out = words[4] /\ out = withdrawn
  <2>1. wrong = {m \in {"asset_in_transfer_vs_swap", "pool_output_transfer_vs_swap",
                        "pool_output_vs_withdrawal", "unexpected_swap_legs",
                        "factory_pair_identity"} :
           CASE m = "asset_in_transfer_vs_swap" -> in # words[1]
             [] m = "pool_output_transfer_vs_swap" -> out # words[4]
             [] m = "pool_output_vs_withdrawal" -> out # withdrawn
             [] m = "unexpected_swap_legs" -> words[2] # 0 \/ words[3] # 0
             [] m = "factory_pair_identity" ->
                    replay.metadata.historicalPair # replay.metadata.pair}
    BY <1>9, <1>11, Zenon DEF ReconciliationMismatches
  <2>2. /\ "asset_in_transfer_vs_swap" \notin wrong
        /\ "pool_output_transfer_vs_swap" \notin wrong
        /\ "pool_output_vs_withdrawal" \notin wrong
    BY <1>16
  <2>3. QED
    BY <2>1, <2>2
<1>20. calls[1].value = withdrawn
  <2>1. miscalled = {m \in {"ambiguous_internal_native_output", "internal_native_output"} :
           CASE m = "ambiguous_internal_native_output" -> Len(calls) > 1
             [] m = "internal_native_output" -> Len(calls) = 1 /\ calls[1].value # withdrawn}
    BY <1>9, <1>11, Zenon DEF CallMismatches
  <2>2. "internal_native_output" \notin miscalled
    BY <1>16
  <2>3. QED
    BY <1>18, <2>1, <2>2
<1>21. /\ r.value.assetIn = swap.data[1] /\ r.value.poolOutput = swap.data[4]
       /\ r.value.userOutput = <<r.value.poolOutput>>
  <2>1. value.assetIn = in /\ value.poolOutput = out /\ value.userOutput = <<out>>
    BY <1>14, <1>18, <1>19, <1>20
  <2>2. QED
    BY <1>10, <1>17, <1>19, <2>1
<1>22. QED
    BY <1>1, <1>8, <1>21, Zenon DEF SwapAddsUp
-----------------------------------------------------------------------------
(* Behaviours.                                                             *)

\* The state of a call: nothing yet, or an input of an analyzer's kind and the
\* result the analyzer gives for it.
Called == result # Pending =>
    \E kind \in Kinds : input \in Inputs(kind) /\ result = Analyzed(input)

\* Every state is the state of a call.
LEMMA AlwaysCalled == Spec => []Called
<1>1. Init => Called
    BY DEF Init, Called
<1>2. Called /\ [Next]_vars => Called'
  <2>1. SUFFICES ASSUME Called, [Next]_vars
                 PROVE  Called'
    OBVIOUS
  <2>2. CASE Next
    <3>1. PICK kind \in Kinds : Analyze(kind)
      BY <2>2 DEF Next
    <3>2. PICK i \in Inputs(kind) : input' = i /\ result' = Analyzed(i)
      BY <3>1 DEF Analyze
    <3>3. input' \in Inputs(kind) /\ result' = Analyzed(input')
      BY <3>2, Zenon
    <3>4. QED
      BY <3>3 DEF Called
  <2>3. CASE UNCHANGED vars
    BY <2>1, <2>3 DEF vars, Called
  <2>4. QED
    BY <2>1, <2>2, <2>3
<1>3. QED
    BY <1>1, <1>2, PTL DEF Spec

\* Then the input is formed.
LEMMA CalledFormed ==
    ASSUME Called, NEW kind, Of(kind)
    PROVE  Formed(input) /\ input.kind = kind /\ result = Analyzed(input)
<1>1. PICK k \in Kinds : input \in Inputs(k) /\ result = Analyzed(input)
    BY DEF Called, Of
<1>2. QED
    BY <1>1, InputsAssumption, Zenon DEF Of

\* A complete consumption spent what one approval had granted and no more, and a
\* transition of the blacklist is confirmed only when the state of the target did
\* change (slices/auth.py, freeze.py), whatever the replay.
THEOREM AuthorityHolds == Spec => []AuthorityIsBacked
<1>1. Called => AuthorityIsBacked
  <2>1. SUFFICES ASSUME Called
                 PROVE  AuthorityIsBacked
    OBVIOUS
  <2>2. ASSUME Completed("auth")
        PROVE  AllowanceConsumed
    BY <2>1, <2>2, CalledFormed, AuthBacked, Zenon DEF Completed
  <2>3. ASSUME Of("freeze"), result.status \in {"complete", "partial"}
        PROVE  /\ TransitionChanged("blacklist", "before_blacklist", "after_blacklist")
               /\ TransitionChanged("unBlacklist", "before_unblacklist", "after_unblacklist")
    BY <2>1, <2>3, CalledFormed, FreezeBacked, Zenon
  <2>4. QED
    BY <2>2, <2>3, Zenon DEF AuthorityIsBacked
<1>2. QED
    BY <1>1, AlwaysCalled, PTL


\* What a package analyzer reports stands in authentic, successful answers of two
\* providers, of one for each leg of a bridge transfer, in both pinned documents of
\* every fixture of a case (domain/cex_cluster.py, mixer_flow.py, defi_lending.py,
\* bridge_transfer.py, case_reconciliation.py), whatever the package and the replay.
THEOREM ReportHolds == Spec => []ReportIsWitnessed
<1>1. Called => ReportIsWitnessed
  <2>1. SUFFICES ASSUME Called
                 PROVE  ReportIsWitnessed
    OBVIOUS
  <2>2. ASSUME NEW kind, Of(kind)
        PROVE  Formed(input) /\ input.kind = kind /\ result = Analyzed(input)
    BY <2>1, <2>2, CalledFormed
  <2>3. PICK i, r : i = input /\ r = result
    OBVIOUS
  <2>4. ASSUME Completed("cex_cluster")
        PROVE  CexWitnessed(i, r)
    BY <2>2, <2>3, <2>4, CexHolds DEF Completed
  <2>5. ASSUME Completed("mixer_flow")
        PROVE  MixerWitnessed(i, r)
    BY <2>2, <2>3, <2>5, MixerHolds DEF Completed
  <2>6. ASSUME Completed("defi_lending")
        PROVE  LendingWitnessed(i, r)
    BY <2>2, <2>3, <2>6, LendingHolds DEF Completed
  <2>7. ASSUME Completed("bridge_transfer")
        PROVE  BridgeWitnessed(i, r)
    BY <2>2, <2>3, <2>7, BridgeHolds DEF Completed
  <2>8. ASSUME Of("case_reconciliation"), result.status = "partial"
        PROVE  CaseWitnessed(i)
    BY <2>2, <2>3, <2>8, CaseHolds
  <2>9. QED
    BY <2>3, <2>4, <2>5, <2>6, <2>7, <2>8 DEF ReportIsWitnessed
<1>2. QED
    BY <1>1, AlwaysCalled, PTL

\* A complete result of the Bitcoin, proxy, first-transfer and intelligence analyzers
\* (slices/bitcoin_utxo.py, evm_special.py, evm_core.py, intel_context.py) is what
\* every answer behind it says, whatever the replay and the request.
THEOREM AnswersHold == Spec => []AnswersAgree
<1>1. Called => AnswersAgree
  <2>1. SUFFICES ASSUME Called
                 PROVE  AnswersAgree
    OBVIOUS
  <2>2. ASSUME NEW kind, Of(kind)
        PROVE  Formed(input) /\ input.kind = kind /\ result = Analyzed(input)
    BY <2>1, <2>2, CalledFormed
  <2>3. PICK i, r : i = input /\ r = result
    OBVIOUS
  <2>4. ASSUME Completed("bitcoin_utxo")
        PROVE  BitcoinAgrees(i, r)
    <3>1. Formed(i) /\ i.kind = "bitcoin_utxo" /\ r = Analyzed(i) /\ r.status = "complete"
      BY <2>2, <2>3, <2>4 DEF Completed
    <3>2. r = AnalyzeBitcoinUtxoReplay(i.request, i.replay)
      BY <3>1 DEF Analyzed
    <3>3. QED
      BY <3>1, <3>2, BitcoinHolds
  <2>5. ASSUME Completed("evm_special"), input.request.query = "proxy_history"
        PROVE  ProxyAgrees(i, r)
    <3>1. /\ i.kind = "evm_special" /\ r = Analyzed(i) /\ r.status = "complete"
          /\ i.request.query = "proxy_history"
      BY <2>2, <2>3, <2>5 DEF Completed
    <3>2. r = AnalyzeEvmSpecialReplay(i.request, i.replay)
      BY <3>1 DEF Analyzed
    <3>3. QED
      BY <3>1, <3>2, ProxyHolds
  <2>6. ASSUME Completed("evm_core"), input.request.query = "first_token_transfer"
        PROVE  FirstIsFirst(i, r)
    <3>1. /\ Formed(i) /\ i.kind = "evm_core" /\ r = Analyzed(i) /\ r.status = "complete"
          /\ i.request.query = "first_token_transfer"
      BY <2>2, <2>3, <2>6 DEF Completed
    <3>2. r = AnalyzeEvmCoreReplay(i.request, i.replay)
      BY <3>1 DEF Analyzed
    <3>3. QED
      BY <3>1, <3>2, FirstHolds
  <2>7. ASSUME Completed("intel_context")
        PROVE  r.value.subjects \subseteq i.request.subjects
    <3>1. /\ Formed(i) /\ i.kind = "intel_context" /\ r = Analyzed(i)
          /\ r.status = "complete"
      BY <2>2, <2>3, <2>7 DEF Completed
    <3>2. r = AnalyzeIntelContextReplay(i.request, i.replay)
      BY <3>1 DEF Analyzed
    <3>3. i.request.query \in IntelQueries
      BY <3>1 DEF Formed
    <3>4. QED
      BY <3>1, <3>2, <3>3, IntelBacked
  <2>8. QED
    BY <2>3, <2>4, <2>5, <2>6, <2>7 DEF AnswersAgree
<1>2. QED
    BY <1>1, AlwaysCalled, PTL

\* A trace_path result (slices/flow_path.py) decides what the graph decides, whatever
\* the transfers, the seed, the terminal and the budgets: the walk finds the one forced
\* route within the budget exactly when there is one.
THEOREM PathHolds == Spec => []PathDecided
<1>1. Called => PathDecided
  <2>1. SUFFICES ASSUME Called, Of("flow_path"), input.request.query = "trace_path",
                        StageOf(result) \in PathStages
                 PROVE  PathIsDecided(input, result)
    BY DEF PathDecided
  <2>2. Formed(input) /\ input.kind = "flow_path" /\ result = Analyzed(input)
    BY <2>1, CalledFormed
  <2>3. PICK i, r : i = input /\ r = result
    OBVIOUS
  <2>4. FlowFormed(i) /\ r = AnalyzeFlowPathReplay(i.request, i.replay)
    BY <2>2, <2>3 DEF Formed, Analyzed
  <2>5. QED
    BY <2>1, <2>3, <2>4, PathHeld
<1>2. QED
    BY <1>1, AlwaysCalled, PTL

\* The amounts of a complete result (slices/flow_path.py, dex.py, evm_core.py,
\* bridge_transfer.py, cex_cluster.py) are those of the replayed transactions, logs and
\* calls, each counted once, however many there are and whatever they pay.
THEOREM AmountsHold == Spec => []AmountsAddUp
<1>1. Called => AmountsAddUp
  <2>1. SUFFICES ASSUME Called
                 PROVE  AmountsAddUp
    OBVIOUS
  <2>2. ASSUME NEW kind, Of(kind)
        PROVE  Formed(input) /\ input.kind = kind /\ result = Analyzed(input)
    BY <2>1, <2>2, CalledFormed
  <2>3. PICK i, r : i = input /\ r = result
    OBVIOUS
  <2>4. ASSUME Completed("flow_path")
        PROVE  /\ i.request.query = "trace_remerge" => RemergeAddsUp(i, r)
               /\ i.request.query = "aggregate_origins" => OriginsAddUp(i, r)
    <3>1. Formed(i) /\ i.kind = "flow_path" /\ r = Analyzed(i) /\ r.status = "complete"
      BY <2>2, <2>3, <2>4 DEF Completed
    <3>2. FlowFormed(i) /\ r = AnalyzeFlowPathReplay(i.request, i.replay)
      BY <3>1 DEF Formed, Analyzed
    <3>3. QED
      BY <3>1, <3>2, RemergeHeld, OriginsHeld
  <2>5. ASSUME Completed("dex")
        PROVE  SwapAddsUp(i, r)
    <3>1. Formed(i) /\ i.kind = "dex" /\ r = Analyzed(i) /\ r.status = "complete"
      BY <2>2, <2>3, <2>5 DEF Completed
    <3>2. r = AnalyzeDexReplay(i.request, i.replay)
      BY <3>1 DEF Analyzed
    <3>3. QED
      BY <3>1, <3>2, SwapHeld
  <2>6. ASSUME Completed("evm_core"), input.request.query = "native_inflow"
        PROVE  InflowAddsUp(i, r)
    <3>1. /\ Formed(i) /\ i.kind = "evm_core" /\ r = Analyzed(i) /\ r.status = "complete"
          /\ i.request.query = "native_inflow"
      BY <2>2, <2>3, <2>6 DEF Completed
    <3>2. r = AnalyzeEvmCoreReplay(i.request, i.replay)
      BY <3>1 DEF Analyzed
    <3>3. QED
      BY <3>1, <3>2, InflowHeld
  <2>7. ASSUME Completed("bridge_transfer")
        PROVE  BridgeAddsUp(r.value)
    <3>1. Formed(i) /\ i.kind = "bridge_transfer" /\ r = Analyzed(i) /\ r.status = "complete"
      BY <2>2, <2>3, <2>7 DEF Completed
    <3>2. QED
      BY <3>1, BridgeHeld
  <2>8. ASSUME Completed("cex_cluster")
        PROVE  ClusterAddsUp(i, r)
    <3>1. Formed(i) /\ i.kind = "cex_cluster" /\ r = Analyzed(i) /\ r.status = "complete"
      BY <2>2, <2>3, <2>8 DEF Completed
    <3>2. QED
      BY <3>1, ClusterHeld
  <2>9. QED
    BY <2>3, <2>4, <2>5, <2>6, <2>7, <2>8 DEF AmountsAddUp
<1>2. QED
    BY <1>1, AlwaysCalled, PTL
=============================================================================
