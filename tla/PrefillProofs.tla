---------------------------- MODULE PrefillProofs ----------------------------
(***************************************************************************)
(* Proofs about Prefill, for every prompt, chunk size and plan: any reuse  *)
(* base, any captures and rewrites, any number of vision items, with and   *)
(* without MTP.                                                            *)
(*                                                                         *)
(* The parts of the inductive invariant answer one question each:          *)
(*   - Captures: todo is what lies ahead of the cursor, so a chunk that    *)
(*     stops at the least frontier ahead overruns none;                    *)
(*   - Vision: every item behind the session's position has been consumed, *)
(*     and only items up to the active one have lost their payload;        *)
(*   - Budget: a potential.  Units that have run, plus the chunks of the   *)
(*     segments ahead of the cursor (Ahead), never exceed the projection;  *)
(*     inside a unit the tokens it still covers are not counted again;     *)
(*   - Rebuild: the work of the segments before the tail is fixed, only    *)
(*     the last segment grows.                                             *)
(***************************************************************************)
EXTENDS Prefill, DataProofs

(* The values of phase. *)
Phases == {"staged", "unit", "offer", "begun", "prompt_offer", "decode", "over"}

(* The variables have their types, and a unit never covers more than the prompt. *)
TypeOK ==
    /\ plan \in Plans /\ phase \in Phases
    /\ cursor \in Nat /\ plan.base <= cursor /\ cursor <= plan.prompt
    /\ remaining \in Nat /\ units \in Nat /\ bridge \in BOOLEAN
    /\ phase = "unit" => remaining > 0 /\ cursor + remaining <= plan.prompt
    /\ phase = "staged" => cursor < plan.prompt \/ plan.base = plan.prompt
    /\ phase \in {"begun", "prompt_offer", "decode"} => cursor = plan.prompt

(* The groups that are due lie ahead; those behind have been offered in place. *)
Captures ==
    /\ todo \subseteq {f \in plan.captures : f >= cursor}
    /\ {f \in plan.captures : f > cursor} \subseteq todo
    /\ phase = "unit" => cursor \notin todo
    /\ phase \in {"offer", "prompt_offer"} => cursor \in todo
    /\ phase = "offer" => cursor < plan.prompt \/ plan.base = plan.prompt
    /\ phase = "decode" => todo = {}
    /\ \A o \in offered : o[1] = o[2]
    /\ {o[1] : o \in offered} =
          (plan.captures \ todo) \cup (IF phase \in {"offer", "prompt_offer"} THEN {cursor} ELSE {})

(* The vision session: what it has passed, what it holds, what it may release. *)
Vision ==
    /\ use \in Nat \ {0} /\ use <= Len(plan.items) + 1
    /\ active \in Nat /\ active <= use
    /\ \A i \in Used(plan) : i < use => plan.items[i].to <= cursor
    /\ payloads \subseteq DOMAIN plan.items
    /\ encoded \subseteq 0 .. active
    /\ phase \in {"staged", "unit", "offer"} =>
          \A i \in DOMAIN plan.items : i > active => i \in payloads
    /\ ChunkHasItsEmbeddings

(* Where a prefill may cut, and the chunks of the segments ahead of a token. *)
Frontiers(p) == p.captures \cup p.rewrites
Ahead(p, c) == SegmentedChunks(c, p.prompt, Frontiers(p))

(* The end of the segment that token c is in. *)
SegmentEnd(p, c) == Min({f \in Frontiers(p) : c < f /\ f < p.prompt} \cup {p.prompt})

(* The units still to run when one covers n more tokens from c: it, the chunks of its
   segment that it does not reach, and those of the later segments. *)
Within(p, c, n) ==
    LET end == SegmentEnd(p, c) IN
    1 + ChunksFor(IF c + n < end THEN end - (c + n) ELSE 0) + Ahead(p, end)

(* The units charged for everything but the vision items. *)
Charged(p) ==
    (IF p.base = p.prompt THEN 1 ELSE Ahead(p, p.base)) + Cardinality(p.captures \cap {p.base})

(* What has run and what is ahead never exceeds the charge. *)
Budget ==
    LET ahead == Ahead(plan, cursor) + (IF cursor = plan.prompt THEN 1 ELSE 0) IN
    /\ phase = "staged" => units + ahead + (IF cursor \in todo THEN 1 ELSE 0) <= Charged(plan)
    /\ phase = "offer" => units + ahead <= Charged(plan)
    /\ phase = "unit" => units + Within(plan, cursor, remaining) <= Charged(plan)
    /\ units <= Charged(plan)

(* The segments of a rebuild, and the work of all but the last. *)
Boundaries(p) == p.planned \cup p.rewrites
Settled(p) ==
    SumFunctionOnSet([e \in Boundaries(p) |->
                         ChunksFor(e - Max({0} \cup {f \in Boundaries(p) : f < e}))],
                     Boundaries(p))

(* The rebuild work is the settled segments and the tail. *)
Rebuild ==
    /\ tail = RebuildTail(plan)
    /\ frontier \in Nat
    /\ phase \notin {"prompt_offer", "decode", "over"} =>
          chunks = Settled(plan) + ChunksFor(plan.prompt - tail)
    /\ phase \in {"prompt_offer", "decode", "over"} =>
          frontier >= plan.prompt /\ chunks = Settled(plan) + ChunksFor(frontier - tail)

(* The inductive invariant. *)
IInv == TypeOK /\ Captures /\ Vision /\ Budget /\ Rebuild
-----------------------------------------------------------------------------
(* The least of some naturals. *)
LEMMA LeastIsMin ==
    ASSUME NEW S, S \subseteq Nat, S # {}
    PROVE  Min(S) \in S /\ \A m \in S : Min(S) <= m
<1>1. \E n \in S : \A m \in S : n <= m
  BY LeastNatural
<1> QED BY <1>1 DEF Min

(* What submission and planning guarantee of a plan. *)
LEMMA PlanFacts ==
    ASSUME NEW p \in Plans
    PROVE  /\ p.prompt \in Nat \ {0} /\ p.base \in Nat /\ p.base <= p.prompt
           /\ p.captures \subseteq 1 .. p.prompt /\ \A f \in p.captures : f >= p.base
           /\ p.rewrites \subseteq 1 .. p.prompt /\ p.planned \subseteq 1 .. p.prompt
           /\ p.mtp \in BOOLEAN /\ p.items \in Seq([from : Nat, to : Nat])
BY PlanAssumption

(* The items of a plan and their uses, in order. *)
LEMMA ItemFacts ==
    ASSUME NEW p \in Plans
    PROVE  /\ DOMAIN p.items = 1 .. Len(p.items) /\ Len(p.items) \in Nat
           /\ IsFiniteSet(DOMAIN p.items) /\ IsFiniteSet(Used(p))
           /\ Cardinality(Used(p)) \in Nat
           /\ \A i \in DOMAIN p.items :
                 /\ p.items[i].from \in Nat /\ p.items[i].to \in Nat
                 /\ p.items[i].from < p.items[i].to /\ p.items[i].to <= p.prompt
                 /\ UseBegin(p, i) \in Nat /\ UseBegin(p, i) <= p.items[i].from
                 /\ p.mtp /\ p.items[i].from # 0 => UseBegin(p, i) = p.items[i].from - 1
                 /\ \A j \in DOMAIN p.items : j < i => UseBegin(p, i) >= p.items[j].to
<1>1. p.items \in Seq([from : Nat, to : Nat])
  BY PlanFacts
<1>2. DOMAIN p.items = 1 .. Len(p.items) /\ Len(p.items) \in Nat
  BY <1>1
<1>3. IsFiniteSet(DOMAIN p.items)
  BY <1>2, FS_Interval
<1>4. IsFiniteSet(Used(p))
  BY <1>3, FS_Subset DEF Used
<1>5. Cardinality(Used(p)) \in Nat
  BY <1>4, FS_CardinalityType
<1>6. ASSUME NEW i \in DOMAIN p.items
      PROVE  /\ p.items[i].from \in Nat /\ p.items[i].to \in Nat
             /\ p.items[i].from < p.items[i].to /\ p.items[i].to <= p.prompt
             /\ UseBegin(p, i) \in Nat /\ UseBegin(p, i) <= p.items[i].from
             /\ p.mtp /\ p.items[i].from # 0 => UseBegin(p, i) = p.items[i].from - 1
             /\ \A j \in DOMAIN p.items : j < i => UseBegin(p, i) >= p.items[j].to
  <2>1. p.items[i] \in [from : Nat, to : Nat]
    BY <1>1, <1>6, ElementOfSeq, <1>2
  <2>2. /\ p.items[i].from < p.items[i].to /\ p.items[i].to <= p.prompt
        /\ \A j \in 1 .. i - 1 : UseBegin(p, i) >= p.items[j].to
    BY <1>6, PlanAssumption
  <2>3. /\ UseBegin(p, i) \in Nat /\ UseBegin(p, i) <= p.items[i].from
        /\ p.mtp /\ p.items[i].from # 0 => UseBegin(p, i) = p.items[i].from - 1
    BY <2>1 DEF UseBegin
  <2>4. \A j \in DOMAIN p.items : j < i => j \in 1 .. i - 1
    BY <1>2
  <2> QED BY <2>1, <2>2, <2>3, <2>4
<1> QED BY <1>2, <1>3, <1>4, <1>5, <1>6

(* Cutting tokens into chunks. *)
LEMMA ChunkArithmetic ==
    /\ Chunk \in Nat \ {0}
    /\ ChunksFor(0) = 0
    /\ \A t \in Nat : ChunksFor(t) \in Nat /\ (t >= 1 => ChunksFor(t) >= 1)
    /\ \A t, u \in Nat : t <= u => ChunksFor(t) <= ChunksFor(u)
    /\ \A t \in Nat : ChunksFor(t + Chunk) = 1 + ChunksFor(t)
<1>1. Chunk \in Nat \ {0}
  BY PlanAssumption
<1>2. ChunksFor(0) = 0
  BY <1>1 DEF ChunksFor
<1>3. ASSUME NEW t \in Nat PROVE ChunksFor(t) \in Nat /\ (t >= 1 => ChunksFor(t) >= 1)
  BY <1>1 DEF ChunksFor
<1>4. ASSUME NEW t \in Nat, NEW u \in Nat, t <= u PROVE ChunksFor(t) <= ChunksFor(u)
  BY <1>1, <1>4 DEF ChunksFor
<1>5. ASSUME NEW t \in Nat PROVE ChunksFor(t + Chunk) = 1 + ChunksFor(t)
  BY <1>1 DEF ChunksFor
<1> QED BY <1>1, <1>2, <1>3, <1>4, <1>5

(* A set of frontiers of a prompt is finite, and so are its parts. *)
LEMMA FrontiersFinite ==
    ASSUME NEW n \in Nat, NEW F, F \subseteq 1 .. n
    PROVE  IsFiniteSet(F) /\ F \subseteq Nat
<1>1. IsFiniteSet(1 .. n)
  BY FS_Interval
<1>2. IsFiniteSet(F)
  BY <1>1, FS_Subset
<1> QED BY <1>2

(* The start of a segment: the last frontier before its end. *)
LEMMA SegmentStart ==
    ASSUME NEW F, IsFiniteSet(F), F \subseteq Nat, NEW b \in Nat, NEW e \in Nat
    PROVE  LET s == Max({b} \cup {f \in F : f < e}) IN
           /\ s \in Nat /\ (s = b \/ (s \in F /\ s < e))
           /\ b <= s /\ \A f \in F : f < e => f <= s
<1> DEFINE S == {b} \cup {f \in F : f < e}
<1>1. IsFiniteSet({f \in F : f < e})
  BY FS_Subset
<1>3. S = {f \in F : f < e} \cup {b}
  OBVIOUS
<1>4. IsFiniteSet(S)
  BY <1>1, <1>3, FS_AddElement
<1>5. S \subseteq Nat /\ S # {}
  OBVIOUS
<1> HIDE DEF S
<1>2. Max(S) \in S /\ \A m \in S : m <= Max(S)
  BY <1>4, <1>5, FiniteMax
<1>6. Max(S) \in Nat
  BY <1>2, <1>5
<1> QED BY <1>2, <1>6 DEF S

(* The ends of the segments between b and e, and the chunks of each. *)
Inside(b, e, F) == {f \in F : b < f /\ f < e}
Ends(b, e, F) == Inside(b, e, F) \cup {e}
StartOf(x, b, e, F) == Max({b} \cup {f \in Inside(b, e, F) : f < x})
ChunksOf(b, e, F) == [x \in Ends(b, e, F) |-> ChunksFor(x - StartOf(x, b, e, F))]

(* A segmentation is the sum of its segments; an empty one has no chunks. *)
LEMMA SegmentsAreSum ==
    ASSUME NEW F, IsFiniteSet(F), F \subseteq Nat, NEW b \in Nat, NEW e \in Nat
    PROVE  /\ IsFiniteSet(Ends(b, e, F)) /\ Ends(b, e, F) \subseteq Nat
           /\ b < e => SegmentedChunks(b, e, F) = SumFunctionOnSet(ChunksOf(b, e, F), Ends(b, e, F))
           /\ b < e => \A x \in Ends(b, e, F) : ChunksOf(b, e, F)[x] \in Nat
           /\ b >= e => SegmentedChunks(b, e, F) = 0
           /\ SegmentedChunks(b, e, F) \in Nat
<1>1. IsFiniteSet(Inside(b, e, F)) /\ Inside(b, e, F) \subseteq Nat
  BY FS_Subset DEF Inside
<1>2. IsFiniteSet(Ends(b, e, F)) /\ Ends(b, e, F) \subseteq Nat
  BY <1>1, FS_AddElement DEF Ends
<1>3. b < e => SegmentedChunks(b, e, F) = SumFunctionOnSet(ChunksOf(b, e, F), Ends(b, e, F))
  BY DEF SegmentedChunks, ChunksOf, Ends, StartOf, Inside
<1>4. b >= e => SegmentedChunks(b, e, F) = 0
  BY DEF SegmentedChunks
<1>5. ASSUME b < e, NEW x \in Ends(b, e, F) PROVE ChunksOf(b, e, F)[x] \in Nat
  <2> DEFINE s == StartOf(x, b, e, F)
  <2>1. x \in Nat /\ b < x
    BY <1>2, <1>5 DEF Ends, Inside
  <2>2. /\ s \in Nat /\ (s = b \/ (s \in Inside(b, e, F) /\ s < x))
    BY <1>1, <2>1, SegmentStart DEF StartOf
  <2>3. x - s \in Nat
    BY <2>1, <2>2
  <2>4. ChunksFor(x - s) \in Nat
    BY <2>3, ChunkArithmetic
  <2> QED BY <1>5, <2>4 DEF ChunksOf
<1>6. SegmentedChunks(b, e, F) \in Nat
  <2>1. CASE b < e
    BY <1>2, <1>3, <1>5, <2>1, SumNat
  <2>2. CASE b >= e
    BY <1>4, <2>2
  <2> QED BY <2>1, <2>2
<1> QED BY <1>2, <1>3, <1>4, <1>5, <1>6

(* The first segment, and the segmentation that starts where it ends. *)
LEMMA FirstSegment ==
    ASSUME NEW F, IsFiniteSet(F), F \subseteq Nat, NEW b \in Nat, NEW e \in Nat, b < e
    PROVE  LET n == Min(Ends(b, e, F)) IN
           /\ n \in Nat /\ b < n /\ n <= e /\ (n = e \/ n \in F)
           /\ \A f \in F : b < f => n <= f \/ e <= f
           /\ SegmentedChunks(b, e, F) = ChunksFor(n - b) + SegmentedChunks(n, e, F)
<1> DEFINE E == Ends(b, e, F)
           I == Inside(b, e, F)
           g == ChunksOf(b, e, F)
           n == Min(E)
<1>0. IsFiniteSet(E) /\ E \subseteq Nat
  BY SegmentsAreSum
<1>11. I \subseteq F
  BY DEF Inside
<1>12. IsFiniteSet(I)
  BY <1>11, FS_Subset
<1>13. E # {}
  BY DEF Ends
<1>1. IsFiniteSet(E) /\ E \subseteq Nat /\ E # {} /\ IsFiniteSet(I) /\ I \subseteq Nat
  BY <1>0, <1>11, <1>12, <1>13
<1>2. n \in E /\ \A m \in E : n <= m
  BY <1>1, LeastIsMin
<1>3. n \in Nat /\ b < n /\ n <= e /\ (n = e \/ n \in F)
  BY <1>2 DEF Ends, Inside
<1>4. \A f \in F : b < f => n <= f \/ e <= f
  BY <1>2, <1>3 DEF Ends, Inside
<1>5. \A x \in E : g[x] \in Nat
  BY SegmentsAreSum
<1>6. SegmentedChunks(b, e, F) = SumFunctionOnSet(g, E)
  BY SegmentsAreSum
<1>7. g[n] = ChunksFor(n - b)
  <2>1. StartOf(n, b, e, F) = b \/ (StartOf(n, b, e, F) \in I /\ StartOf(n, b, e, F) < n)
    BY <1>1, <1>3, SegmentStart DEF StartOf
  <2>2. \A x \in I : n <= x
    BY <1>2 DEF Ends
  <2>3. StartOf(n, b, e, F) = b
    BY <1>1, <1>3, <2>1, <2>2
  <2> QED BY <1>2, <2>3 DEF ChunksOf
<1>8. SumFunctionOnSet(g, E \ {n}) = SegmentedChunks(n, e, F)
  <2>1. CASE n = e
    <3>1. E \ {n} = {}
      BY <1>1, <1>2, <2>1 DEF Ends, Inside
    <3>2. SumFunctionOnSet(g, {}) = 0
      BY SumEmpty
    <3> QED BY <1>3, <2>1, <3>1, <3>2, SegmentsAreSum
  <2>2. CASE n # e
    <3> DEFINE h == ChunksOf(n, e, F)
               J == Inside(n, e, F)
    <3>1. n < e /\ n \in I
      BY <1>2, <1>3, <2>2 DEF Ends
    <3>7. J = {f \in I : n < f}
      <4>1. \A f \in F : n < f => b < f
        <5> HIDE DEF n
        <5> QED BY <1>3
      <4> HIDE DEF n
      <4> QED BY <4>1 DEF Inside
    <3>8. \A x \in I : x \in Nat /\ n <= x
      BY <1>1, <1>2 DEF Ends
    <3>9. E \ {n} = J \cup {e}
      <4>1. E = I \cup {e}
        BY DEF Ends
      <4>2. \A x \in I : x # n <=> n < x
        <5> HIDE DEF n, I
        <5> QED BY <1>3, <3>8
      <4> HIDE DEF n, I, J, E
      <4>3. \A x : x \in E \ {n} <=> x \in J \cup {e}
        BY <2>2, <3>7, <4>1, <4>2
      <4> QED BY <4>3
    <3>2. /\ E \ {n} = Ends(n, e, F)
          /\ J = {f \in I : n < f}
      BY <3>7, <3>9 DEF Ends
    <3>3. IsFiniteSet(J) /\ J \subseteq Nat
      BY <1>1, <3>2, FS_Subset
    <3>4. ASSUME NEW x \in Ends(n, e, F) PROVE h[x] = g[x] /\ h[x] \in Nat
      <4> DEFINE s == StartOf(x, b, e, F)
                 t == StartOf(x, n, e, F)
      <4>1. x \in Nat /\ n < x /\ x \in E
        BY <3>1, <3>2, SegmentsAreSum DEF Ends, Inside
      <4>2. /\ s \in Nat /\ (s = b \/ (s \in I /\ s < x))
            /\ b <= s /\ \A f \in I : f < x => f <= s
        BY <1>1, <4>1, SegmentStart DEF StartOf
      <4>3. /\ t \in Nat /\ (t = n \/ (t \in J /\ t < x))
            /\ n <= t /\ \A f \in J : f < x => f <= t
        BY <1>3, <3>3, <4>1, SegmentStart, SMTT(40) DEF StartOf
      <4>4. n <= s /\ s \in I /\ s < x
        BY <1>3, <3>1, <4>1, <4>2
      <4>5. t <= s
        BY <3>2, <4>2, <4>3, <4>4
      <4>6. s <= t
        BY <1>3, <3>2, <4>2, <4>3, <4>4
      <4>7. s = t
        BY <4>2, <4>3, <4>5, <4>6
      <4>8. h[x] = g[x]
        BY <4>1, <4>7 DEF ChunksOf
      <4> QED BY <1>5, <4>1, <4>8
    <3>5. SumFunctionOnSet(h, Ends(n, e, F)) = SumFunctionOnSet(g, Ends(n, e, F))
      <4>1. IsFiniteSet(Ends(n, e, F))
        BY <1>3, SegmentsAreSum
      <4> HIDE DEF g, h
      <4> QED BY <3>4, <4>1, SumSame
    <3>6. SegmentedChunks(n, e, F) = SumFunctionOnSet(h, Ends(n, e, F))
      BY <1>3, <3>1, SegmentsAreSum
    <3> QED BY <3>2, <3>5, <3>6
  <2> QED BY <2>1, <2>2
<1>9. SumFunctionOnSet(g, E) = g[n] + SumFunctionOnSet(g, E \ {n})
  <2> HIDE DEF g, E, n
  <2> QED BY <1>1, <1>2, <1>5, SumRemove, ZenonT(40)
<1>10. SegmentedChunks(b, e, F) = ChunksFor(n - b) + SegmentedChunks(n, e, F)
  BY <1>6, <1>7, <1>8, <1>9
<1> QED BY <1>3, <1>4, <1>10

(* The smaller of two naturals. *)
LEMMA MinOfTwo ==
    ASSUME NEW x \in Nat, NEW y \in Nat
    PROVE  /\ Min({x, y}) \in Nat /\ Min({x, y}) <= x /\ Min({x, y}) <= y
           /\ Min({x, y}) = x \/ Min({x, y}) = y
<1>1. Min({x, y}) \in {x, y} /\ \A m \in {x, y} : Min({x, y}) <= m
  BY LeastIsMin
<1> QED BY <1>1

(* The frontiers of a plan. *)
LEMMA FrontierFacts ==
    ASSUME NEW p \in Plans
    PROVE  /\ IsFiniteSet(Frontiers(p)) /\ Frontiers(p) \subseteq Nat
           /\ \A f \in Frontiers(p) : f <= p.prompt
<1>1. Frontiers(p) \subseteq 1 .. p.prompt /\ p.prompt \in Nat
  BY PlanFacts DEF Frontiers
<1>2. IsFiniteSet(Frontiers(p)) /\ Frontiers(p) \subseteq Nat
  BY <1>1, FrontiersFinite
<1> QED BY <1>1, <1>2

(* The segments ahead of a token: the one it is in, and the rest. *)
LEMMA SegmentsAhead ==
    ASSUME NEW p \in Plans
    PROVE  /\ Ahead(p, p.prompt) = 0
           /\ \A c \in Nat : Ahead(p, c) \in Nat
           /\ \A c \in Nat : c < p.prompt =>
                 /\ SegmentEnd(p, c) \in Nat /\ c < SegmentEnd(p, c) /\ SegmentEnd(p, c) <= p.prompt
                 /\ SegmentEnd(p, c) = p.prompt \/ SegmentEnd(p, c) \in Frontiers(p)
                 /\ \A f \in Frontiers(p) : c < f => SegmentEnd(p, c) <= f
                 /\ Ahead(p, c) = ChunksFor(SegmentEnd(p, c) - c) + Ahead(p, SegmentEnd(p, c))
<1> DEFINE F == Frontiers(p)
<1>1. p.prompt \in Nat /\ IsFiniteSet(F) /\ F \subseteq Nat /\ \A f \in F : f <= p.prompt
  BY PlanFacts, FrontierFacts
<1> HIDE DEF F
<1>2. Ahead(p, p.prompt) = 0
  BY <1>1, SegmentsAreSum DEF Ahead, F
<1>3. \A c \in Nat : Ahead(p, c) \in Nat
  BY <1>1, SegmentsAreSum DEF Ahead, F
<1>4. ASSUME NEW c \in Nat, c < p.prompt
      PROVE  /\ SegmentEnd(p, c) \in Nat /\ c < SegmentEnd(p, c) /\ SegmentEnd(p, c) <= p.prompt
             /\ SegmentEnd(p, c) = p.prompt \/ SegmentEnd(p, c) \in F
             /\ \A f \in F : c < f => SegmentEnd(p, c) <= f
             /\ Ahead(p, c) = ChunksFor(SegmentEnd(p, c) - c) + Ahead(p, SegmentEnd(p, c))
  <2>1. SegmentEnd(p, c) = Min(Ends(c, p.prompt, F))
    BY DEF SegmentEnd, Ends, Inside, F
  <2> DEFINE n == Min(Ends(c, p.prompt, F))
  <2>2. /\ n \in Nat /\ c < n /\ n <= p.prompt /\ (n = p.prompt \/ n \in F)
        /\ \A f \in F : c < f => n <= f \/ p.prompt <= f
        /\ SegmentedChunks(c, p.prompt, F) = ChunksFor(n - c) + SegmentedChunks(n, p.prompt, F)
    BY <1>1, <1>4, FirstSegment
  <2>3. \A f \in F : c < f => n <= f
    <3> HIDE DEF n
    <3> QED BY <1>1, <2>2
  <2> HIDE DEF n
  <2>4. SegmentEnd(p, c) = n
    BY <2>1 DEF n
  <2> QED BY <2>2, <2>3, <2>4 DEF Ahead, F
<1> QED BY <1>2, <1>3, <1>4 DEF F

(* A unit that begins takes a chunk off its segment. *)
LEMMA UnitBegins ==
    ASSUME NEW p \in Plans, NEW c \in Nat, c < p.prompt
    PROVE  Within(p, c, Min({Chunk, p.prompt - c})) <= Ahead(p, c)
<1> DEFINE n == SegmentEnd(p, c)
           k == Min({Chunk, p.prompt - c})
<1>1. /\ n \in Nat /\ c < n /\ n <= p.prompt /\ Ahead(p, n) \in Nat
      /\ Ahead(p, c) = ChunksFor(n - c) + Ahead(p, n)
  BY SegmentsAhead
<1>2. p.prompt \in Nat /\ Chunk \in Nat \ {0}
  BY PlanFacts, ChunkArithmetic
<1>3. k \in Nat /\ (k = Chunk \/ k = p.prompt - c)
  BY <1>2, MinOfTwo
<1> HIDE DEF n, k
<1>4. CASE c + k < n
  <2>1. k = Chunk
    BY <1>1, <1>2, <1>3, <1>4
  <2>2. n - (c + k) \in Nat /\ (n - (c + k)) + Chunk = n - c
    BY <1>1, <1>2, <1>4, <2>1
  <2>3. ChunksFor(n - c) = 1 + ChunksFor(n - (c + k)) /\ ChunksFor(n - (c + k)) \in Nat
    BY <2>2, ChunkArithmetic
  <2>4. Within(p, c, k) = 1 + ChunksFor(n - (c + k)) + Ahead(p, n)
    BY <1>4 DEF Within, n
  <2> QED BY <1>1, <2>3, <2>4 DEF k
<1>5. CASE ~(c + k < n)
  <2>1. Within(p, c, k) = 1 + ChunksFor(0) + Ahead(p, n)
    BY <1>5 DEF Within, n
  <2>2. n - c \in Nat /\ n - c >= 1
    BY <1>1
  <2>3. ChunksFor(n - c) \in Nat /\ ChunksFor(n - c) >= 1 /\ ChunksFor(0) = 0
    BY <2>2, ChunkArithmetic
  <2> QED BY <1>1, <2>1, <2>3 DEF k
<1> QED BY <1>4, <1>5

(* A chunk that ends in its segment, or at its end, uses up no more than it covers. *)
LEMMA UnitAdvances ==
    ASSUME NEW p \in Plans, NEW c \in Nat, c < p.prompt, NEW k \in Nat,
           NEW d \in Nat, c < d, d <= SegmentEnd(p, c), d <= c + k
    PROVE  /\ d = SegmentEnd(p, c) \/ d = c + k => 1 + Ahead(p, d) <= Within(p, c, k)
           /\ d < p.prompt => Within(p, d, c + k - d) <= Within(p, c, k)
<1> DEFINE n == SegmentEnd(p, c)
           m == SegmentEnd(p, d)
           rest == IF c + k < n THEN n - (c + k) ELSE 0
<1>1. /\ n \in Nat /\ c < n /\ n <= p.prompt /\ Ahead(p, n) \in Nat
      /\ (n = p.prompt \/ n \in Frontiers(p))
      /\ \A f \in Frontiers(p) : c < f => n <= f
  BY SegmentsAhead
<1>2. p.prompt \in Nat /\ Frontiers(p) \subseteq Nat
  BY PlanFacts, FrontierFacts
<1>3. /\ Ahead(p, d) \in Nat
      /\ d < p.prompt => /\ m \in Nat /\ d < m /\ m <= p.prompt
                         /\ (m = p.prompt \/ m \in Frontiers(p)) /\ Ahead(p, m) \in Nat
                         /\ \A f \in Frontiers(p) : d < f => m <= f
                         /\ Ahead(p, d) = ChunksFor(m - d) + Ahead(p, m)
  BY SegmentsAhead
<1>4. d <= n
  OBVIOUS
<1>5. Within(p, c, k) = 1 + ChunksFor(rest) + Ahead(p, n)
  BY DEF Within
<1>6. Within(p, d, c + k - d) = 1 + ChunksFor(IF d + (c + k - d) < m THEN m - (d + (c + k - d)) ELSE 0)
                                + Ahead(p, m)
  BY DEF Within
<1>7. d + (c + k - d) = c + k
  OBVIOUS
<1> HIDE DEF n, m
<1>8. rest \in Nat /\ ChunksFor(rest) \in Nat
  <2>1. rest \in Nat
    BY <1>1
  <2> HIDE DEF rest
  <2> QED BY <2>1, ChunkArithmetic
<1>9. CASE d = n
  <2>1. 1 + Ahead(p, d) <= Within(p, c, k)
    <3> HIDE DEF rest
    <3> QED BY <1>1, <1>5, <1>8, <1>9
  <2>2. ASSUME d < p.prompt PROVE Within(p, d, c + k - d) <= Within(p, c, k)
    <3> DEFINE left == IF c + k < m THEN m - (c + k) ELSE 0
    <3>1. m \in Nat /\ d < m
      BY <1>3, <2>2
    <3>2. left \in Nat /\ m - d \in Nat /\ left <= m - d
      BY <3>1
    <3>3. Within(p, d, c + k - d) = 1 + ChunksFor(left) + Ahead(p, m)
      BY <1>6, <1>7
    <3> HIDE DEF left, rest
    <3>4. ChunksFor(left) <= ChunksFor(m - d) /\ ChunksFor(left) \in Nat /\ ChunksFor(m - d) \in Nat
      BY <3>2, ChunkArithmetic
    <3> QED BY <1>1, <1>3, <1>5, <1>8, <1>9, <2>1, <2>2, <3>3, <3>4
  <2> QED BY <2>1, <2>2
<1>10. CASE d < n
  <2>1. d < p.prompt
    BY <1>1, <1>2, <1>10
  <2>2. m = n
    BY <1>1, <1>2, <1>3, <1>10, <2>1
  <2>3. Within(p, d, c + k - d) = Within(p, c, k)
    BY <1>5, <1>6, <1>7, <2>2
  <2>4. ASSUME d = c + k PROVE 1 + Ahead(p, d) <= Within(p, c, k)
    <3>1. rest = n - d
      BY <1>1, <1>10, <2>4
    <3> HIDE DEF rest
    <3> QED BY <1>1, <1>3, <1>5, <1>8, <2>1, <2>2, <3>1
  <2>5. d # n
    BY <1>1, <1>10
  <2>6. Within(p, c, k) \in Nat
    <3> HIDE DEF rest
    <3> QED BY <1>1, <1>5, <1>8
  <2> QED BY <2>3, <2>4, <2>5, <2>6 DEF n
<1> QED BY <1>1, <1>4, <1>9, <1>10 DEF n

(* The boundaries of a rebuild and the last of them. *)
LEMMA BoundaryFacts ==
    ASSUME NEW p \in Plans
    PROVE  /\ IsFiniteSet(Boundaries(p)) /\ Boundaries(p) \subseteq 1 .. p.prompt
           /\ RebuildTail(p) \in Nat /\ RebuildTail(p) <= p.prompt
           /\ RebuildTail(p) = 0 \/ RebuildTail(p) \in Boundaries(p)
           /\ \A f \in Boundaries(p) : f <= RebuildTail(p)
<1>1. Boundaries(p) \subseteq 1 .. p.prompt /\ p.prompt \in Nat
  BY PlanFacts DEF Boundaries
<1>2. IsFiniteSet(Boundaries(p)) /\ Boundaries(p) \subseteq Nat
  BY <1>1, FrontiersFinite
<1> DEFINE S == {0} \cup p.planned \cup p.rewrites
<1>3. S = Boundaries(p) \cup {0}
  BY DEF Boundaries
<1>4. IsFiniteSet(S) /\ S \subseteq Nat /\ S # {}
  BY <1>2, <1>3, FS_AddElement
<1>5. RebuildTail(p) = Max(S)
  BY DEF RebuildTail
<1> HIDE DEF S
<1>6. Max(S) \in S /\ \A m \in S : m <= Max(S)
  BY <1>4, FiniteMax
<1>7. Max(S) \in Boundaries(p) \cup {0} /\ \A m \in Boundaries(p) : m <= Max(S)
  BY <1>3, <1>6
<1>8. Max(S) \in Nat /\ Max(S) <= p.prompt
  BY <1>1, <1>7
<1> QED BY <1>1, <1>2, <1>5, <1>7, <1>8

(* Extending the text past the last boundary changes the last segment only. *)
LEMMA OnlyTailGrows ==
    ASSUME NEW p \in Plans, NEW e \in Nat, e >= p.prompt
    PROVE  /\ Settled(p) \in Nat
           /\ SegmentedChunks(0, e, Boundaries(p)) = Settled(p) + ChunksFor(e - RebuildTail(p))
<1> DEFINE B == Boundaries(p)
           T == RebuildTail(p)
           g == [x \in B |-> ChunksFor(x - Max({0} \cup {f \in B : f < x}))]
           h == ChunksOf(0, e, B)
<1>1. /\ IsFiniteSet(B) /\ B \subseteq Nat /\ \A f \in B : f >= 1 /\ f <= T
      /\ T \in Nat /\ T <= p.prompt /\ (T = 0 \/ T \in B)
  BY PlanFacts, BoundaryFacts
<1>2. p.prompt \in Nat \ {0} /\ 0 < e
  BY PlanFacts
<1>3. Settled(p) = SumFunctionOnSet(g, B)
  BY DEF Settled
<1> HIDE DEF B, T
<1>4. ASSUME NEW x \in B
      PROVE  /\ x \in Ends(0, e, B) /\ h[x] = g[x]
             /\ {f \in Inside(0, e, B) : f < x} = {f \in B : f < x}
  <2>1. x \in Nat /\ x <= e /\ x >= 1
    BY <1>1, <1>2
  <2>2. x \in Ends(0, e, B)
    BY <2>1 DEF Ends, Inside
  <2>3. \A f \in B : f < x => 0 < f /\ f < e
    BY <1>1, <2>1
  <2>4. {f \in Inside(0, e, B) : f < x} = {f \in B : f < x}
    BY <2>3 DEF Inside
  <2> QED BY <2>2, <2>4 DEF ChunksOf, StartOf
<1>5. \A x \in Ends(0, e, B) : h[x] \in Nat
  BY <1>1, <1>2, SegmentsAreSum
<1>6. SegmentedChunks(0, e, B) = SumFunctionOnSet(h, Ends(0, e, B))
  BY <1>1, <1>2, SegmentsAreSum
<1>7. SumFunctionOnSet(h, B) = SumFunctionOnSet(g, B) /\ SumFunctionOnSet(h, B) \in Nat
  <2>1. \A x \in B : h[x] \in Nat /\ h[x] = g[x]
    <3> HIDE DEF g, h
    <3> QED BY <1>4, <1>5
  <2> HIDE DEF g, h
  <2>2. SumFunctionOnSet(h, B) = SumFunctionOnSet(g, B)
    BY <1>1, <2>1, SumSame
  <2>3. SumFunctionOnSet(h, B) \in Nat
    BY <1>1, <2>1, SumNat
  <2> QED BY <2>2, <2>3
<1>8. CASE e = T
  <2>1. e \in B
    BY <1>1, <1>2, <1>8
  <2>2. Ends(0, e, B) = B
    BY <1>1, <1>4, <2>1 DEF Ends, Inside
  <2>3. ChunksFor(e - T) = 0
    BY <1>1, <1>8, ChunkArithmetic
  <2> QED BY <1>3, <1>6, <1>7, <2>2, <2>3 DEF B, T
<1>9. CASE e # T
  <2>1. T < e /\ e \notin B
    BY <1>1, <1>2, <1>9
  <2>9. \A f \in B : 0 < f /\ f < e
    BY <1>1, <2>1
  <2>2. Inside(0, e, B) = B
    BY <2>9 DEF Inside
  <2>3. Ends(0, e, B) = B \cup {e}
    BY <2>2 DEF Ends
  <2>4. StartOf(e, 0, e, B) = T
    <3> DEFINE s == StartOf(e, 0, e, B)
    <3>3. s = Max({0} \cup {f \in B : f < e})
      BY <2>2 DEF StartOf
    <3>4. LET t == Max({0} \cup {f \in B : f < e}) IN
          /\ t \in Nat /\ (t = 0 \/ (t \in B /\ t < e))
          /\ 0 <= t /\ \A f \in B : f < e => f <= t
      BY <1>1, SegmentStart, ZenonT(40)
    <3>1. /\ s \in Nat /\ (s = 0 \/ (s \in B /\ s < e))
          /\ \A f \in B : f < e => f <= s
      BY <3>3, <3>4
    <3> HIDE DEF s
    <3>2. s = T
      BY <1>1, <2>1, <3>1
    <3> QED BY <3>2 DEF s
  <2>5. h[e] = ChunksFor(e - T)
    BY <2>3, <2>4 DEF ChunksOf
  <2>6. SumFunctionOnSet(h, B \cup {e}) = h[e] + SumFunctionOnSet(h, B)
    <3>1. \A y \in B \cup {e} : h[y] \in Nat
      BY <1>5, <2>3
    <3> HIDE DEF h
    <3> QED BY <1>1, <2>1, <3>1, SumAdd
  <2>7. h[e] \in Nat
    BY <1>5, <2>3
  <2> HIDE DEF g, h
  <2>10. SumFunctionOnSet(g, B) \in Nat /\ SumFunctionOnSet(h, B \cup {e}) = SumFunctionOnSet(g, B) + h[e]
    BY <1>7, <2>6, <2>7
  <2>8. SumFunctionOnSet(h, Ends(0, e, B)) = SumFunctionOnSet(g, B) + h[e]
    BY <2>3, <2>10
  <2> QED BY <1>3, <1>6, <1>7, <2>5, <2>8 DEF B, T
<1> QED BY <1>8, <1>9
-----------------------------------------------------------------------------
(* Where the session moves to: past every item that ends before the cursor. *)
LEMMA SessionMoves ==
    ASSUME TypeOK, Vision
    PROVE  /\ UseAt(cursor) \in Nat \ {0} /\ UseAt(cursor) <= Len(plan.items) + 1
           /\ use <= UseAt(cursor)
           /\ \A i \in Used(plan) : i < UseAt(cursor) => plan.items[i].to <= cursor
           /\ UseAt(cursor) \in Used(plan) => plan.items[UseAt(cursor)].to > cursor
           /\ \A i \in Used(plan) : plan.items[i].to > cursor =>
                 i >= UseAt(cursor) /\ UseAt(cursor) \in Used(plan)
<1> DEFINE later == {i \in Used(plan) : i >= use /\ plan.items[i].to > cursor}
           n == Len(plan.items)
<1>1. /\ plan \in Plans /\ cursor \in Nat /\ use \in Nat \ {0} /\ use <= n + 1
      /\ \A i \in Used(plan) : i < use => plan.items[i].to <= cursor
  BY DEF TypeOK, Vision
<1>2. /\ n \in Nat /\ DOMAIN plan.items = 1 .. n
      /\ \A i \in DOMAIN plan.items : plan.items[i].to \in Nat
  BY <1>1, ItemFacts
<1>3. Used(plan) \subseteq 1 .. n
  BY <1>2 DEF Used
<1>4. UseAt(cursor) = IF later = {} THEN n + 1 ELSE Min(later)
  BY DEF UseAt
<1>5. later \subseteq Nat
  BY <1>3
<1>6. CASE later = {}
  <2>1. \A i \in Used(plan) : plan.items[i].to <= cursor
    BY <1>1, <1>2, <1>3, <1>6
  <2>2. n + 1 \notin Used(plan)
    BY <1>2, <1>3
  <2>3. \A i \in Used(plan) : ~(plan.items[i].to > cursor)
    BY <1>1, <1>2, <1>3, <2>1
  <2> QED BY <1>1, <1>2, <1>4, <1>6, <2>1, <2>2, <2>3
<1>7. CASE later # {}
  <2> DEFINE m == Min(later)
  <2>1. m \in later /\ \A i \in later : m <= i
    BY <1>5, <1>7, LeastIsMin
  <2>2. UseAt(cursor) = m
    BY <1>4, <1>7
  <2>3. m \in Used(plan) /\ m >= use /\ plan.items[m].to > cursor
    BY <2>1
  <2>4. m \in Nat \ {0} /\ m <= n
    BY <1>2, <1>3, <2>3
  <2>5. ASSUME NEW i \in Used(plan), plan.items[i].to > cursor PROVE i >= m
    <3>1. i \in Nat /\ plan.items[i].to \in Nat
      BY <1>2, <1>3
    <3>2. i >= use
      BY <1>1, <2>5, <3>1
    <3> HIDE DEF m
    <3> QED BY <2>1, <2>4, <2>5, <3>1, <3>2
  <2>6. ASSUME NEW i \in Used(plan), i < m PROVE plan.items[i].to <= cursor
    <3>1. i \in Nat /\ plan.items[i].to \in Nat
      BY <1>2, <1>3
    <3> HIDE DEF m
    <3> QED BY <1>1, <2>4, <2>5, <2>6, <3>1, SMTT(40)
  <2> HIDE DEF m
  <2> QED BY <1>1, <1>2, <2>2, <2>3, <2>4, <2>5, <2>6
<1> QED BY <1>6, <1>7

(* A chunk and the one item it may read. *)
LEMMA ChunkItem ==
    ASSUME TypeOK, Vision, NEW length \in Nat \ {0}
    PROVE  /\ VisionEnd(cursor, length) \in Nat
           /\ cursor < VisionEnd(cursor, length) /\ VisionEnd(cursor, length) <= cursor + length
           /\ \/ ItemFor(cursor, length) = None
              \/ ItemFor(cursor, length) = UseAt(cursor) /\ UseAt(cursor) \in Used(plan)
           /\ \A i \in DOMAIN plan.items, t \in cursor .. VisionEnd(cursor, length) - 1 :
                 \/ plan.items[i].from <= t /\ t < plan.items[i].to
                 \/ plan.mtp /\ plan.items[i].from <= t + 1 /\ t + 1 < plan.items[i].to
                 => ItemFor(cursor, length) = i
<1> DEFINE u == UseAt(cursor)
           it == ItemFor(cursor, length)
           e == VisionEnd(cursor, length)
           others == {UseBegin(plan, i) : i \in {j \in Used(plan) : j > it}}
<1>1. plan \in Plans /\ cursor \in Nat /\ plan.base \in Nat /\ plan.base <= cursor
  BY PlanFacts DEF TypeOK
<1>2. /\ DOMAIN plan.items = 1 .. Len(plan.items) /\ Len(plan.items) \in Nat
      /\ \A i \in DOMAIN plan.items :
            /\ plan.items[i].from \in Nat /\ plan.items[i].to \in Nat
            /\ plan.items[i].from < plan.items[i].to
            /\ UseBegin(plan, i) \in Nat /\ UseBegin(plan, i) <= plan.items[i].from
            /\ plan.mtp /\ plan.items[i].from # 0 => UseBegin(plan, i) = plan.items[i].from - 1
            /\ \A j \in DOMAIN plan.items : j < i => UseBegin(plan, i) >= plan.items[j].to
  BY <1>1, ItemFacts
<1>3. Used(plan) \subseteq DOMAIN plan.items
  BY DEF Used
<1>4. /\ u \in Nat \ {0}
      /\ u \in Used(plan) => plan.items[u].to > cursor
      /\ \A i \in Used(plan) : plan.items[i].to > cursor => i >= u /\ u \in Used(plan)
  BY SessionMoves
<1>5. it = IF u \in Used(plan) /\ UseBegin(plan, u) < cursor + length THEN u ELSE None
  BY DEF ItemFor
<1>6. e = IF it = None \/ others = {} THEN cursor + length
          ELSE Min({cursor + length, Min(others)})
  BY DEF VisionEnd
<1>7. others \subseteq Nat
  BY <1>2, <1>3
<1> HIDE DEF u, it, e
<1>8. it # None => it = u /\ u \in Used(plan) /\ \A x \in others : x > cursor
  <2> SUFFICES ASSUME it # None PROVE it = u /\ u \in Used(plan) /\ \A x \in others : x > cursor
    OBVIOUS
  <2>1. it = u /\ u \in Used(plan)
    BY <1>5
  <2>2. ASSUME NEW i \in Used(plan), i > u PROVE UseBegin(plan, i) > cursor
    <3>1. i \in DOMAIN plan.items /\ u \in DOMAIN plan.items /\ i \in Nat
      BY <1>2, <1>3, <2>1
    <3>2. UseBegin(plan, i) >= plan.items[u].to
      BY <1>2, <1>4, <2>2, <3>1
    <3> QED BY <1>1, <1>2, <1>4, <2>1, <3>1, <3>2, SMTT(40)
  <2> QED BY <2>1, <2>2
<1>9. /\ e \in Nat /\ cursor < e /\ e <= cursor + length
      /\ it # None => \A x \in others : e <= x
  <2>1. CASE it = None \/ others = {}
    BY <1>1, <1>6, <2>1
  <2>2. CASE it # None /\ others # {}
    <3> DEFINE m == Min(others)
    <3>1. m \in others /\ \A x \in others : m <= x
      BY <1>7, <2>2, LeastIsMin
    <3>2. m \in Nat /\ m > cursor
      BY <1>7, <1>8, <2>2, <3>1
    <3>3. e = Min({cursor + length, m})
      BY <1>6, <2>2
    <3> HIDE DEF m
    <3>4. cursor + length \in Nat
      BY <1>1
    <3>5. /\ Min({cursor + length, m}) \in Nat /\ Min({cursor + length, m}) <= cursor + length
          /\ Min({cursor + length, m}) <= m
          /\ (Min({cursor + length, m}) = cursor + length \/ Min({cursor + length, m}) = m)
      BY <3>2, <3>4, MinOfTwo
    <3>6. e \in Nat /\ e <= cursor + length /\ e <= m /\ (e = cursor + length \/ e = m)
      BY <3>3, <3>5
    <3>7. cursor < e
      BY <1>1, <3>2, <3>6
    <3>8. \A x \in others : e <= x
      <4> HIDE DEF others
      <4> QED BY <1>7, <3>1, <3>2, <3>6
    <3> QED BY <3>6, <3>7, <3>8
  <2> QED BY <2>1, <2>2
<1>10. ASSUME NEW i \in DOMAIN plan.items, NEW t \in cursor .. e - 1,
              \/ plan.items[i].from <= t /\ t < plan.items[i].to
              \/ plan.mtp /\ plan.items[i].from <= t + 1 /\ t + 1 < plan.items[i].to
       PROVE  it = i
  <2>1. t \in Nat /\ cursor <= t /\ t < e
    BY <1>1, <1>9
  <2>2. plan.items[i].to > t
    BY <1>2, <1>10, <2>1
  <2>3. UseBegin(plan, i) <= t
    <3>1. CASE plan.items[i].from <= t
      BY <1>2, <2>1, <3>1
    <3>2. CASE plan.mtp /\ plan.items[i].from <= t + 1 /\ ~(plan.items[i].from <= t)
      <4>1. plan.items[i].from # 0
        BY <1>2, <2>1, <3>2
      <4> QED BY <1>2, <2>1, <3>2, <4>1
    <3> QED BY <1>10, <3>1, <3>2
  <2>4. plan.items[i].to > cursor /\ plan.items[i].to > plan.base
    BY <1>1, <1>2, <2>1, <2>2, SMTT(40)
  <2>5. i \in Used(plan)
    BY <2>4 DEF Used
  <2>6. i >= u /\ u \in Used(plan)
    BY <1>4, <2>4, <2>5
  <2>7. UseBegin(plan, u) <= t
    <3>1. u \in DOMAIN plan.items /\ i \in Nat
      BY <1>2, <1>3, <2>6
    <3>2. CASE i = u
      BY <2>3, <3>2
    <3>3. CASE u < i
      <4>1. UseBegin(plan, i) >= plan.items[u].to
        BY <1>2, <3>1, <3>3
      <4> QED BY <1>2, <2>1, <2>3, <3>1, <4>1, SMTT(40)
    <3> QED BY <1>4, <2>6, <3>1, <3>2, <3>3
  <2>8. UseBegin(plan, u) < cursor + length
    BY <1>1, <1>2, <1>3, <1>9, <2>1, <2>6, <2>7
  <2>9. it = u /\ it # None
    BY <1>4, <1>5, <2>6, <2>8 DEF None
  <2>10. ~(i > u)
    <3>1. SUFFICES ASSUME i > u PROVE FALSE
      OBVIOUS
    <3>2. UseBegin(plan, i) \in others
      BY <2>5, <2>9, <3>1
    <3>3. e <= UseBegin(plan, i)
      BY <1>9, <2>9, <3>2
    <3> QED BY <1>2, <1>9, <2>1, <2>3, <3>3
  <2> QED BY <1>2, <1>4, <2>6, <2>9, <2>10
<1> QED BY <1>8, <1>9, <1>10 DEF u, it, e

(* A chunk of a unit makes progress and stops at the first frontier ahead. *)
LEMMA ChunkCut ==
    ASSUME TypeOK, Captures, phase = "unit"
    PROVE  /\ TextLength \in Nat \ {0} /\ TextLength <= remaining
           /\ \A f \in Frontiers(plan) : cursor < f => cursor + TextLength <= f
<1> DEFINE R == {f \in plan.rewrites : f > cursor}
           C == IF todo = {} THEN {} ELSE {NextCapture}
           S == R \cup C
<1>1. /\ plan \in Plans /\ cursor \in Nat /\ remaining \in Nat \ {0}
      /\ todo \subseteq {f \in plan.captures : f >= cursor} /\ cursor \notin todo
      /\ {f \in plan.captures : f > cursor} \subseteq todo
  BY DEF TypeOK, Captures
<1>2. plan.captures \subseteq Nat /\ plan.rewrites \subseteq Nat
  BY <1>1, PlanFacts
<1>3. todo # {} => NextCapture \in todo /\ \A f \in todo : NextCapture <= f
  BY <1>1, <1>2, LeastIsMin DEF NextCapture
<1>4. todo # {} => NextCapture \in Nat /\ NextCapture > cursor
  BY <1>1, <1>2, <1>3
<1>5. S \subseteq Nat /\ \A f \in S : f > cursor
  BY <1>2, <1>4
<1>6. TextLength = IF S = {} \/ Min(S) <= cursor THEN remaining ELSE Min({remaining, Min(S) - cursor})
  BY DEF TextLength
<1>7. \A f \in Frontiers(plan) : cursor < f => \E g \in S : g <= f
  <2> SUFFICES ASSUME NEW f \in Frontiers(plan), cursor < f PROVE \E g \in S : g <= f
    OBVIOUS
  <2>1. f \in Nat
    BY <1>2 DEF Frontiers
  <2>2. CASE f \in plan.rewrites
    BY <2>1, <2>2
  <2>3. CASE f \in plan.captures
    <3>1. f \in todo
      BY <1>1, <2>1, <2>3
    <3> QED BY <1>3, <3>1
  <2> QED BY <2>2, <2>3 DEF Frontiers
<1> HIDE DEF S
<1>8. CASE S = {}
  BY <1>1, <1>6, <1>7, <1>8
<1>9. CASE S # {}
  <2> DEFINE m == Min(S)
  <2>1. m \in S /\ \A g \in S : m <= g
    BY <1>5, <1>9, LeastIsMin
  <2>2. m \in Nat /\ m > cursor
    BY <1>5, <2>1
  <2> HIDE DEF m
  <2>3. m - cursor \in Nat \ {0}
    BY <1>1, <2>2
  <2>4. TextLength = Min({remaining, m - cursor})
    BY <1>1, <1>6, <1>9, <2>2 DEF m
  <2>5. /\ Min({remaining, m - cursor}) \in Nat /\ Min({remaining, m - cursor}) <= remaining
        /\ Min({remaining, m - cursor}) <= m - cursor
        /\ (Min({remaining, m - cursor}) = remaining \/ Min({remaining, m - cursor}) = m - cursor)
    BY <1>1, <2>3, MinOfTwo
  <2>6. TextLength \in Nat \ {0} /\ TextLength <= remaining /\ TextLength <= m - cursor
    BY <1>1, <2>3, <2>4, <2>5
  <2>7. ASSUME NEW f \in Frontiers(plan), cursor < f PROVE cursor + TextLength <= f
    <3>1. PICK g \in S : g <= f
      BY <1>7, <2>7
    <3>2. f \in Nat /\ g \in Nat /\ m <= g
      BY <1>2, <1>5, <2>1 DEF Frontiers
    <3> QED BY <1>1, <2>2, <2>6, <3>1, <3>2
  <2> QED BY <2>6, <2>7
<1> QED BY <1>8, <1>9

(* Where a chunk ends: within its unit and within its segment. *)
LEMMA ChunkEnds ==
    ASSUME TypeOK, Captures, Vision, phase = "unit"
    PROVE  /\ ChunkEnd \in Nat /\ cursor < ChunkEnd /\ ChunkEnd <= cursor + remaining
           /\ ChunkEnd <= plan.prompt /\ cursor < plan.prompt
           /\ ChunkEnd <= SegmentEnd(plan, cursor)
           /\ \A f \in Frontiers(plan) : cursor < f => ChunkEnd <= f
<1>1. /\ plan \in Plans /\ cursor \in Nat /\ remaining \in Nat \ {0}
      /\ cursor + remaining <= plan.prompt
  BY DEF TypeOK
<1>2. plan.prompt \in Nat
  BY <1>1, PlanFacts
<1>3. /\ TextLength \in Nat \ {0} /\ TextLength <= remaining
      /\ \A f \in Frontiers(plan) : cursor < f => cursor + TextLength <= f
  BY ChunkCut
<1>4. ChunkEnd \in Nat /\ cursor < ChunkEnd /\ ChunkEnd <= cursor + TextLength
  BY <1>3, ChunkItem DEF ChunkEnd
<1>5. ChunkEnd <= cursor + remaining /\ ChunkEnd <= plan.prompt /\ cursor < plan.prompt
  BY <1>1, <1>2, <1>3, <1>4
<1>6. Frontiers(plan) \subseteq Nat
  BY <1>1, FrontierFacts
<1>7. \A f \in Frontiers(plan) : cursor < f => ChunkEnd <= f
  BY <1>1, <1>3, <1>4, <1>6
<1>8. /\ SegmentEnd(plan, cursor) \in Nat /\ cursor < SegmentEnd(plan, cursor)
      /\ (SegmentEnd(plan, cursor) = plan.prompt \/ SegmentEnd(plan, cursor) \in Frontiers(plan))
  BY <1>1, <1>5, SegmentsAhead
<1> QED BY <1>4, <1>5, <1>7, <1>8

(* The next group is due at the cursor exactly when the cursor is in todo. *)
LEMMA DueAtCursor ==
    ASSUME TypeOK, Captures
    PROVE  /\ CaptureAt(cursor) <=> cursor \in todo
           /\ cursor \in todo => NextCapture = cursor
<1>1. /\ plan \in Plans /\ cursor \in Nat /\ todo \subseteq {f \in plan.captures : f >= cursor}
  BY DEF TypeOK, Captures
<1>2. todo \subseteq Nat /\ \A f \in todo : f >= cursor
  BY <1>1, PlanFacts
<1>3. todo # {} => NextCapture \in todo /\ \A f \in todo : NextCapture <= f
  BY <1>2, LeastIsMin DEF NextCapture
<1>4. cursor \in todo => NextCapture = cursor
  <2> SUFFICES ASSUME cursor \in todo PROVE NextCapture = cursor
    OBVIOUS
  <2>1. NextCapture \in Nat /\ NextCapture >= cursor /\ NextCapture <= cursor
    BY <1>2, <1>3
  <2> QED BY <1>1, <2>1
<1> QED BY <1>3, <1>4 DEF CaptureAt

(* Steps that leave the session alone. *)
LEMMA VisionSame ==
    ASSUME Vision, UNCHANGED <<plan, cursor, use, active, encoded, last>>,
           payloads' \subseteq DOMAIN plan.items,
           phase' \in {"staged", "unit", "offer"} =>
               phase \in {"staged", "unit", "offer"} /\ payloads' = payloads
    PROVE  Vision'
<1>1. ChunkHasItsEmbeddings'
  BY DEF Vision, ChunkHasItsEmbeddings
<1> QED BY <1>1 DEF Vision

(* Steps that leave the rebuild work alone. *)
LEMMA RebuildSame ==
    ASSUME Rebuild, UNCHANGED <<plan, frontier, chunks, tail>>,
           phase' \in {"prompt_offer", "decode", "over"} <=>
               phase \in {"prompt_offer", "decode", "over"}
    PROVE  Rebuild'
BY DEF Rebuild

(* An offer enters its frontier. *)
LEMMA OfferAdds ==
    ASSUME NEW S, NEW c
    PROVE  {o[1] : o \in S \cup {<<c, c>>}} = {o[1] : o \in S} \cup {c}
<1>1. <<c, c>>[1] = c
  OBVIOUS
<1>2. \A x : (\E o \in S \cup {<<c, c>>} : x = o[1]) <=> (\E o \in S : x = o[1]) \/ x = c
  BY <1>1
<1> QED BY <1>2

(* The charge of a plan. *)
LEMMA ChargedFacts ==
    ASSUME NEW p \in Plans
    PROVE  /\ Charged(p) \in Nat
           /\ Charged(p) = (IF p.base = p.prompt THEN 1 ELSE Ahead(p, p.base))
                             + (IF p.base \in p.captures THEN 1 ELSE 0)
           /\ ProjectedUnits(p) = Charged(p) + Cardinality(Used(p))
<1> DEFINE S == p.captures \cap {p.base}
           a == IF p.base = p.prompt THEN 1 ELSE Ahead(p, p.base)
<1>1. Cardinality(S) = IF S = {} THEN 0 ELSE 1
  BY AtMostOne
<1>2. Cardinality(S) = IF p.base \in p.captures THEN 1 ELSE 0
  BY <1>1
<1>3. Ahead(p, p.base) \in Nat
  BY PlanFacts, SegmentsAhead
<1>4. a \in Nat
  BY <1>3
<1>5. Charged(p) = a + Cardinality(S)
  BY DEF Charged
<1>6. ProjectedUnits(p) = a + Cardinality(S) + Cardinality(Used(p))
  BY DEF ProjectedUnits, Ahead, Frontiers
<1> QED BY <1>2, <1>4, <1>5, <1>6

(* The facts about a state that every step starts from. *)
LEMMA Basics ==
    ASSUME TypeOK
    PROVE  /\ plan \in Plans /\ plan.prompt \in Nat \ {0} /\ plan.base \in Nat
           /\ cursor \in Nat /\ units \in Nat
           /\ Ahead(plan, cursor) \in Nat /\ Ahead(plan, plan.prompt) = 0
           /\ cursor < plan.prompt => Ahead(plan, cursor) >= 1
           /\ Charged(plan) \in Nat
<1>1. plan \in Plans /\ cursor \in Nat /\ units \in Nat
  BY DEF TypeOK
<1>2. plan.prompt \in Nat \ {0} /\ plan.base \in Nat
  BY <1>1, PlanFacts
<1>3. Ahead(plan, cursor) \in Nat /\ Ahead(plan, plan.prompt) = 0
  BY <1>1, SegmentsAhead
<1>4. ASSUME cursor < plan.prompt PROVE Ahead(plan, cursor) >= 1
  <2> DEFINE n == SegmentEnd(plan, cursor)
  <2>1. /\ n \in Nat /\ cursor < n /\ Ahead(plan, n) \in Nat
        /\ Ahead(plan, cursor) = ChunksFor(n - cursor) + Ahead(plan, n)
    BY <1>1, <1>4, SegmentsAhead
  <2> HIDE DEF n
  <2>2. n - cursor \in Nat /\ n - cursor >= 1
    BY <1>1, <2>1
  <2>3. ChunksFor(n - cursor) \in Nat /\ ChunksFor(n - cursor) >= 1
    BY <2>2, ChunkArithmetic
  <2> QED BY <2>1, <2>3
<1> QED BY <1>1, <1>2, <1>3, <1>4, ChargedFacts

(* An offer at the reuse base costs one unit, charged for the group at the base. *)
LEMMA OfferAtBaseKeeps == IInv /\ OfferAtBase => IInv'
<1> SUFFICES ASSUME IInv, OfferAtBase PROVE IInv'
  OBVIOUS
<1>1. /\ phase = "staged" /\ phase' = "offer" /\ CaptureAt(cursor)
      /\ offered' = offered \cup {<<cursor, cursor>>} /\ units' = units + 1
      /\ UNCHANGED <<plan, cursor, remaining, todo, bridge, use, active, payloads, encoded, last,
                     frontier, chunks, tail>>
  BY DEF OfferAtBase, visionVars, rebuildVars
<1>2. TypeOK /\ Captures /\ Vision /\ Budget /\ Rebuild
  BY DEF IInv
<1>3. cursor \in todo
  BY <1>1, <1>2, DueAtCursor
<1>4. TypeOK'
  BY <1>1, <1>2 DEF TypeOK, Phases
<1>5. Captures'
  <2>1. {o[1] : o \in offered'} = {o[1] : o \in offered} \cup {cursor}
    BY <1>1, OfferAdds
  <2>2. {o[1] : o \in offered} = plan.captures \ todo
    BY <1>1, <1>2 DEF Captures
  <2>3. \A o \in offered' : o[1] = o[2]
    BY <1>1, <1>2 DEF Captures
  <2>4. cursor < plan.prompt \/ plan.base = plan.prompt
    BY <1>1, <1>2 DEF TypeOK
  <2> QED BY <1>1, <1>2, <1>3, <2>1, <2>2, <2>3, <2>4 DEF Captures
<1>6. Vision'
  BY <1>1, <1>2, VisionSame DEF Vision
<1>7. Budget'
  BY <1>1, <1>2, <1>3, Basics DEF Budget
<1>8. Rebuild'
  BY <1>1, <1>2, RebuildSame
<1> QED BY <1>4, <1>5, <1>6, <1>7, <1>8 DEF IInv

(* A sample without a suffix costs the one unit charged for it. *)
LEMMA SampleWithoutSuffixKeeps == IInv /\ SampleWithoutSuffix => IInv'
<1> SUFFICES ASSUME IInv, SampleWithoutSuffix PROVE IInv'
  OBVIOUS
<1>1. /\ phase = "staged" /\ phase' = "begun" /\ ~CaptureAt(cursor) /\ cursor = plan.prompt
      /\ units' = units + 1 /\ payloads' = {}
      /\ UNCHANGED <<plan, cursor, remaining, todo, offered, bridge, use, active, encoded, last,
                     frontier, chunks, tail>>
  BY DEF SampleWithoutSuffix, stagedVars, rebuildVars
<1>2. TypeOK /\ Captures /\ Vision /\ Budget /\ Rebuild
  BY DEF IInv
<1>3. cursor \notin todo
  BY <1>1, <1>2, DueAtCursor
<1>4. TypeOK'
  BY <1>1, <1>2 DEF TypeOK, Phases
<1>5. Captures'
  BY <1>1, <1>2 DEF Captures
<1>6. Vision'
  BY <1>1, <1>2, VisionSame DEF Vision
<1>7. Budget'
  BY <1>1, <1>2, <1>3, Basics DEF Budget
<1>8. Rebuild'
  BY <1>1, <1>2, RebuildSame
<1> QED BY <1>4, <1>5, <1>6, <1>7, <1>8 DEF IInv

(* Resolving an offer takes the group at the cursor out of todo. *)
LEMMA ResolveOfferKeeps == IInv /\ ResolveOffer => IInv'
<1> SUFFICES ASSUME IInv, ResolveOffer PROVE IInv'
  OBVIOUS
<1>1. /\ phase \in {"offer", "prompt_offer"} /\ todo' = todo \ {NextCapture}
      /\ phase' = IF phase = "offer" THEN "staged" ELSE "decode"
      /\ UNCHANGED <<plan, cursor, remaining, offered, units, bridge, use, active, payloads,
                     encoded, last, frontier, chunks, tail>>
  BY DEF ResolveOffer, visionVars, rebuildVars
<1>2. TypeOK /\ Captures /\ Vision /\ Budget /\ Rebuild
  BY DEF IInv
<1>3. cursor \in todo /\ todo' = todo \ {cursor}
  BY <1>1, <1>2, DueAtCursor DEF Captures
<1>4. TypeOK'
  BY <1>1, <1>2 DEF TypeOK, Captures, Phases
<1>5. Captures'
  <2>1. /\ plan \in Plans /\ cursor \in Nat /\ plan.captures \subseteq Nat
        /\ \A f \in plan.captures : f <= plan.prompt
    BY <1>2, PlanFacts DEF TypeOK
  <2>2. /\ todo' \subseteq {f \in plan.captures : f >= cursor}
        /\ {f \in plan.captures : f > cursor} \subseteq todo'
    <3>1. /\ todo \subseteq {f \in plan.captures : f >= cursor}
          /\ {f \in plan.captures : f > cursor} \subseteq todo
      BY <1>2 DEF Captures
    <3>2. \A f \in plan.captures : f > cursor => f # cursor
      BY <2>1
    <3> QED BY <1>3, <3>1, <3>2
  <2>3. {o[1] : o \in offered} = plan.captures \ todo'
    BY <1>1, <1>2, <1>3 DEF Captures
  <2>4. phase' = "decode" => todo' = {}
    <3>1. phase = "prompt_offer" => cursor = plan.prompt
      BY <1>2 DEF TypeOK
    <3> QED BY <1>1, <1>2, <1>3, <2>1, <2>2, <3>1, Basics
  <2> QED BY <1>1, <1>2, <2>2, <2>3, <2>4 DEF Captures
<1>6. Vision'
  BY <1>1, <1>2, VisionSame DEF Vision
<1>7. Budget'
  BY <1>1, <1>2, <1>3, Basics DEF Budget
<1>8. Rebuild'
  BY <1>1, <1>2, RebuildSame
<1> QED BY <1>4, <1>5, <1>6, <1>7, <1>8 DEF IInv

(* The first commit offers a group at the end of the prompt, or drops it. *)
LEMMA CommitBeginKeeps ==
    ASSUME IInv, NEW terminal \in BOOLEAN, CommitBegin(terminal) PROVE IInv'
<1>1. /\ phase = "begun" /\ frontier' = plan.prompt
      /\ UNCHANGED <<plan, cursor, todo, remaining, units, bridge, use, active, payloads, encoded,
                     last, chunks, tail>>
  BY DEF CommitBegin, visionVars
<1>2. TypeOK /\ Captures /\ Vision /\ Budget /\ Rebuild
  BY DEF IInv
<1>3. cursor = plan.prompt
  BY <1>1, <1>2 DEF TypeOK
<1>4. \/ /\ phase' = "prompt_offer" /\ cursor \in todo
         /\ offered' = offered \cup {<<cursor, cursor>>}
      \/ phase' = "over" /\ offered' = offered
      \/ phase' = "decode" /\ offered' = offered /\ cursor \notin todo
  BY <1>2, <1>3, DueAtCursor DEF CommitBegin
<1>5. TypeOK'
  BY <1>1, <1>2, <1>3, <1>4 DEF TypeOK, Phases
<1>6. Captures'
  <2>1. /\ plan \in Plans /\ cursor \in Nat /\ plan.captures \subseteq Nat
        /\ \A f \in plan.captures : f <= cursor
    BY <1>2, <1>3, PlanFacts DEF TypeOK
  <2>2. \A o \in offered : o[1] = o[2]
    BY <1>2 DEF Captures
  <2>3. {o[1] : o \in offered} = plan.captures \ todo
    BY <1>1, <1>2 DEF Captures
  <2>4. CASE phase' = "prompt_offer"
    <3>1. cursor \in todo /\ offered' = offered \cup {<<cursor, cursor>>}
      BY <1>4, <2>4
    <3>2. {o[1] : o \in offered'} = {o[1] : o \in offered} \cup {cursor}
      BY <3>1, OfferAdds
    <3>3. \A o \in offered' : o[1] = o[2]
      BY <2>2, <3>1
    <3> QED BY <1>1, <1>2, <2>3, <2>4, <3>1, <3>2, <3>3 DEF Captures
  <2>5. CASE phase' = "over"
    BY <1>1, <1>2, <1>4, <2>5 DEF Captures
  <2>6. CASE phase' = "decode"
    <3>1. todo = {}
      BY <1>2, <1>4, <2>1, <2>6 DEF Captures
    <3> QED BY <1>1, <1>2, <1>4, <2>6, <3>1 DEF Captures
  <2> QED BY <1>4, <2>4, <2>5, <2>6
<1>7. Vision'
  <2>1. phase' \notin {"staged", "unit", "offer"}
    BY <1>4
  <2> QED BY <1>1, <1>2, <2>1, VisionSame DEF Vision
<1>8. Budget'
  BY <1>1, <1>2, <1>4 DEF Budget
<1>9. Rebuild'
  <2>1. plan.prompt \in Nat
    BY <1>2, Basics
  <2> QED BY <1>1, <1>2, <1>4, <2>1 DEF Rebuild
<1> QED BY <1>5, <1>6, <1>7, <1>8, <1>9 DEF IInv

(* A decode round replaces the chunks of the tail segment. *)
LEMMA ExtendKeeps == IInv /\ Extend => IInv'
<1> SUFFICES ASSUME IInv, Extend PROVE IInv'
  OBVIOUS
<1>1. PICK n \in 1 .. MaxGenerated :
        /\ frontier' = frontier + n
        /\ chunks' = chunks - ChunksFor(frontier - tail) + ChunksFor(frontier' - tail)
  BY DEF Extend
<1>2. /\ phase = "decode"
      /\ UNCHANGED <<plan, phase, cursor, todo, offered, remaining, units, bridge, use, active,
                     payloads, encoded, last, tail>>
  BY DEF Extend, stagedVars, visionVars
<1>3. TypeOK /\ Captures /\ Vision /\ Budget /\ Rebuild
  BY DEF IInv
<1>4. TypeOK'
  BY <1>2, <1>3 DEF TypeOK
<1>5. Captures'
  BY <1>2, <1>3 DEF Captures
<1>6. Vision'
  BY <1>2, <1>3, VisionSame DEF Vision
<1>7. Budget'
  BY <1>2, <1>3 DEF Budget
<1>8. Rebuild'
  <2>1. /\ plan \in Plans /\ plan.prompt \in Nat /\ MaxGenerated \in Nat
    BY <1>3, Basics, PlanAssumption
  <2>2. /\ tail = RebuildTail(plan) /\ frontier \in Nat /\ frontier >= plan.prompt
        /\ chunks = Settled(plan) + ChunksFor(frontier - tail)
    BY <1>2, <1>3 DEF Rebuild
  <2>3. tail \in Nat /\ tail <= plan.prompt
    BY <2>1, <2>2, BoundaryFacts
  <2>4. Settled(plan) \in Nat
    BY <2>1, <2>2, OnlyTailGrows
  <2>5. frontier' \in Nat /\ frontier' >= plan.prompt
    BY <1>1, <2>1, <2>2
  <2>6. frontier - tail \in Nat /\ frontier' - tail \in Nat
    BY <2>1, <2>2, <2>3, <2>5
  <2>7. ChunksFor(frontier - tail) \in Nat /\ ChunksFor(frontier' - tail) \in Nat
    BY <2>6, ChunkArithmetic
  <2>8. chunks' = Settled(plan) + ChunksFor(frontier' - tail)
    BY <1>1, <2>2, <2>4, <2>7
  <2> QED BY <1>2, <2>2, <2>5, <2>8 DEF Rebuild
<1> QED BY <1>4, <1>5, <1>6, <1>7, <1>8 DEF IInv

(* The end of a request. *)
LEMMA FinishKeeps == IInv /\ Finish => IInv'
<1> SUFFICES ASSUME IInv, Finish PROVE IInv'
  OBVIOUS
<1>1. /\ phase = "decode" /\ phase' = "over"
      /\ UNCHANGED <<plan, cursor, todo, offered, remaining, units, bridge, use, active,
                     payloads, encoded, last, frontier, chunks, tail>>
  BY DEF Finish, stagedVars, visionVars, rebuildVars
<1>2. TypeOK /\ Captures /\ Vision /\ Budget /\ Rebuild
  BY DEF IInv
<1>3. TypeOK'
  BY <1>1, <1>2 DEF TypeOK, Phases
<1>4. Captures'
  BY <1>1, <1>2 DEF Captures
<1>5. Vision'
  BY <1>1, <1>2, VisionSame DEF Vision
<1>6. Budget'
  BY <1>1, <1>2 DEF Budget
<1>7. Rebuild'
  BY <1>1, <1>2, RebuildSame
<1> QED BY <1>3, <1>4, <1>5, <1>6, <1>7 DEF IInv

(* The units a unit in progress still stands for. *)
LEMMA WithinType ==
    ASSUME NEW p \in Plans, NEW c \in Nat, c < p.prompt, NEW k \in Nat
    PROVE  Within(p, c, k) \in Nat /\ Within(p, c, k) >= 1
<1> DEFINE n == SegmentEnd(p, c)
           rest == IF c + k < n THEN n - (c + k) ELSE 0
<1>1. n \in Nat /\ Ahead(p, n) \in Nat
  BY SegmentsAhead
<1>2. Within(p, c, k) = 1 + ChunksFor(rest) + Ahead(p, n)
  BY DEF Within
<1> HIDE DEF n
<1>3. rest \in Nat
  BY <1>1
<1> HIDE DEF rest
<1>4. ChunksFor(rest) \in Nat
  BY <1>3, ChunkArithmetic
<1> QED BY <1>1, <1>2, <1>4

(* The least group is due at a token that no group lies before. *)
LEMMA DueAt ==
    ASSUME todo \subseteq Nat, NEW d \in Nat, \A f \in todo : f >= d
    PROVE  (CaptureAt(d) <=> d \in todo) /\ (d \in todo => NextCapture = d)
<1>1. todo # {} => NextCapture \in todo /\ \A f \in todo : NextCapture <= f
  BY LeastIsMin DEF NextCapture
<1>2. ASSUME d \in todo PROVE NextCapture = d
  <2>1. NextCapture \in Nat /\ NextCapture >= d /\ NextCapture <= d
    BY <1>1, <1>2
  <2> QED BY <2>1
<1> QED BY <1>1, <1>2 DEF CaptureAt

(* The session only moves forward, and encodes an item it has not encoded. *)
LEMMA PrepareMoves ==
    ASSUME TypeOK, Vision, NEW length \in Nat \ {0}, Prepare(cursor, length)
    PROVE  /\ use' \in Nat \ {0} /\ use' <= Len(plan.items) + 1
           /\ active' \in Nat /\ active <= active' /\ active' <= use'
           /\ \A i \in Used(plan) : i < use' => plan.items[i].to <= cursor
           /\ encoding' \in 0 .. active'
           /\ encoding' # None => encoding' \in DOMAIN plan.items /\ encoding' > active
<1> DEFINE it == ItemFor(cursor, length)
           u == UseAt(cursor)
<1>1. /\ use' = u /\ active' = (IF it = None THEN active ELSE it)
      /\ encoding' = (IF it = active THEN None ELSE it)
  BY DEF Prepare
<1>2. /\ u \in Nat \ {0} /\ u <= Len(plan.items) + 1 /\ use <= u
      /\ \A i \in Used(plan) : i < u => plan.items[i].to <= cursor
  BY SessionMoves
<1>3. it = None \/ (it = u /\ u \in Used(plan))
  BY ChunkItem
<1>4. active \in Nat /\ use \in Nat /\ active <= use
  BY DEF Vision
<1>5. Used(plan) \subseteq DOMAIN plan.items
  BY DEF Used
<1> HIDE DEF it, u
<1>6. it # None => it = u /\ it \in DOMAIN plan.items
  BY <1>3, <1>5
<1>7. CASE it = None
  <2>1. active' = active /\ encoding' = None
    BY <1>1, <1>7
  <2>2. encoding' \in 0 .. active'
    BY <1>4, <2>1 DEF None
  <2>3. active' \in Nat /\ active <= active' /\ active' <= use'
    BY <1>1, <1>2, <1>4, <2>1
  <2>4. \A i \in Used(plan) : i < use' => plan.items[i].to <= cursor
    BY <1>1, <1>2
  <2> QED BY <1>1, <1>2, <2>1, <2>2, <2>3, <2>4
<1>8. CASE it # None
  <2>1. active' = u /\ it = u /\ u \in DOMAIN plan.items /\ active <= u
    BY <1>1, <1>2, <1>4, <1>6, <1>8
  <2>2. CASE u = active
    <3>1. encoding' = None
      BY <1>1, <2>1, <2>2
    <3> QED BY <1>1, <1>2, <1>4, <2>1, <3>1 DEF None
  <2>3. CASE u # active
    <3>1. encoding' = u /\ u > active
      BY <1>1, <1>2, <1>4, <2>1, <2>3
    <3> QED BY <1>1, <1>2, <1>4, <2>1, <3>1
  <2> QED BY <2>2, <2>3
<1> QED BY <1>7, <1>8

(* A unit begins, with the MTP bridge that may encode an item first. *)
LEMMA BeginUnitKeeps == IInv /\ BeginUnit => IInv'
<1> SUFFICES ASSUME IInv, BeginUnit PROVE IInv'
  OBVIOUS
<1>1. /\ phase = "staged" /\ phase' = "unit" /\ ~CaptureAt(cursor) /\ cursor < plan.prompt
      /\ remaining' = Min({Chunk, plan.prompt - cursor}) /\ bridge' = FALSE
      /\ UNCHANGED <<plan, cursor, todo, offered, units, payloads, last, frontier, chunks, tail>>
  BY DEF BeginUnit, stagedVars, rebuildVars
<1>2. TypeOK /\ Captures /\ Vision /\ Budget /\ Rebuild
  BY DEF IInv
<1>3. cursor \notin todo
  BY <1>1, <1>2, DueAtCursor
<1>4. /\ plan \in Plans /\ plan.prompt \in Nat \ {0} /\ cursor \in Nat /\ units \in Nat
      /\ Ahead(plan, cursor) \in Nat /\ Charged(plan) \in Nat /\ Chunk \in Nat \ {0}
  BY <1>2, Basics, ChunkArithmetic
<1>5. remaining' \in Nat \ {0} /\ cursor + remaining' <= plan.prompt
  <2>1. plan.prompt - cursor \in Nat \ {0}
    BY <1>1, <1>4
  <2>2. /\ remaining' \in Nat /\ remaining' <= plan.prompt - cursor
        /\ (remaining' = Chunk \/ remaining' = plan.prompt - cursor)
    BY <1>1, <1>4, <2>1, MinOfTwo
  <2> QED BY <1>4, <2>1, <2>2
<1>6. TypeOK'
  <2>1. bridge' \in BOOLEAN
    BY <1>1
  <2>2. phase' \in Phases
    BY <1>1 DEF Phases
  <2>3. remaining' > 0
    BY <1>5
  <2> QED BY <1>1, <1>2, <1>5, <2>1, <2>2, <2>3 DEF TypeOK
<1>7. Captures'
  BY <1>1, <1>2, <1>3 DEF Captures
<1>8. Vision'
  <2>1. CASE bridge /\ IsVisual(cursor) /\ Used(plan) # {}
    <3>1. Prepare(cursor, 1) /\ encoded' = encoded \cup {encoding'}
      BY <2>1 DEF BeginUnit
    <3>2. /\ use' \in Nat \ {0} /\ use' <= Len(plan.items) + 1
          /\ active' \in Nat /\ active <= active' /\ active' <= use'
          /\ \A i \in Used(plan) : i < use' => plan.items[i].to <= cursor
          /\ encoding' \in 0 .. active'
      BY <1>2, <3>1, PrepareMoves
    <3>3. active \in Nat /\ encoded \subseteq 0 .. active
      BY <1>2 DEF Vision
    <3>4. encoded' \subseteq 0 .. active'
      BY <3>1, <3>2, <3>3
    <3>5. DOMAIN plan.items \subseteq Nat
      BY <1>4, ItemFacts
    <3>6. \A i \in DOMAIN plan.items : i > active' => i \in payloads
      BY <1>1, <1>2, <3>2, <3>3, <3>5 DEF Vision
    <3>7. ChunkHasItsEmbeddings'
      BY <1>1, <1>2 DEF Vision, ChunkHasItsEmbeddings
    <3>8. payloads \subseteq DOMAIN plan.items
      BY <1>2 DEF Vision
    <3> QED BY <1>1, <3>2, <3>4, <3>6, <3>7, <3>8 DEF Vision
  <2>2. CASE ~(bridge /\ IsVisual(cursor) /\ Used(plan) # {})
    <3>1. UNCHANGED <<use, active, encoded>>
      BY <2>2 DEF BeginUnit
    <3> QED BY <1>1, <1>2, <3>1, VisionSame DEF Vision
  <2> QED BY <2>1, <2>2
<1>9. Budget'
  <2>1. units + Ahead(plan, cursor) <= Charged(plan)
    BY <1>1, <1>2, <1>3, <1>4 DEF Budget
  <2>2. Within(plan, cursor, remaining') <= Ahead(plan, cursor)
    BY <1>1, <1>4, UnitBegins
  <2>3. Within(plan, cursor, remaining') \in Nat
    BY <1>1, <1>4, <1>5, WithinType
  <2>4. units + Within(plan, cursor, remaining') <= Charged(plan) /\ units <= Charged(plan)
    BY <1>4, <2>1, <2>2, <2>3
  <2> QED BY <1>1, <2>4 DEF Budget
<1>10. Rebuild'
  BY <1>1, <1>2, RebuildSame
<1> QED BY <1>6, <1>7, <1>8, <1>9, <1>10 DEF IInv

(* A chunk runs, and ends its unit at a capture, at its last token or at the prompt's end. *)
LEMMA RunChunkKeeps == IInv /\ RunChunk => IInv'
<1> SUFFICES ASSUME IInv, RunChunk PROVE IInv'
  OBVIOUS
<1> DEFINE final == remaining' = 0 /\ cursor' = plan.prompt
<1>1. /\ phase = "unit" /\ cursor' = ChunkEnd /\ remaining' = remaining - (ChunkEnd - cursor)
      /\ Prepare(cursor, TextLength) /\ encoded' = {}
      /\ last' = [from |-> cursor, to |-> ChunkEnd, item |-> ItemFor(cursor, TextLength)]
      /\ payloads' = (IF phase' = "begun" THEN {} ELSE payloads \ (encoded \cup {encoding'}))
      /\ units' = units + (IF phase' = "unit" THEN 0 ELSE 1)
      /\ UNCHANGED <<plan, todo, bridge, frontier, chunks, tail>>
  BY DEF RunChunk, rebuildVars
<1>2. TypeOK /\ Captures /\ Vision /\ Budget /\ Rebuild
  BY DEF IInv
<1>3. /\ plan \in Plans /\ plan.prompt \in Nat \ {0} /\ plan.base \in Nat /\ cursor \in Nat
      /\ units \in Nat /\ Charged(plan) \in Nat
  BY <1>2, Basics
<1>4. /\ remaining \in Nat \ {0} /\ cursor + remaining <= plan.prompt /\ plan.base <= cursor
      /\ bridge \in BOOLEAN
  BY <1>1, <1>2 DEF TypeOK
<1>5. /\ cursor' \in Nat /\ cursor < cursor' /\ cursor' <= cursor + remaining
      /\ cursor' <= plan.prompt /\ cursor < plan.prompt
      /\ cursor' <= SegmentEnd(plan, cursor)
      /\ \A f \in Frontiers(plan) : cursor < f => cursor' <= f
  BY <1>1, <1>2, ChunkEnds
<1>6. /\ remaining' \in Nat /\ remaining' = cursor + remaining - cursor'
      /\ cursor' + remaining' = cursor + remaining /\ plan.base <= cursor'
  <2>1. remaining' = remaining - (cursor' - cursor)
    BY <1>1
  <2>2. cursor' \in Nat /\ cursor < cursor' /\ cursor' <= cursor + remaining
    BY <1>5
  <2>3. cursor \in Nat /\ remaining \in Nat /\ plan.base \in Nat /\ plan.base <= cursor
    BY <1>3, <1>4
  <2>4. PICK c \in Nat, k \in Nat, d \in Nat : c = cursor /\ k = remaining /\ d = cursor'
    BY <2>2, <2>3
  <2>5. remaining' \in Nat /\ remaining' = cursor + remaining - cursor'
        /\ cursor' + remaining' = cursor + remaining
    <3>1. c < d /\ d <= c + k
      BY <2>2, <2>4
    <3>2. k - (d - c) \in Nat /\ k - (d - c) = c + k - d /\ d + (k - (d - c)) = c + k
      BY <3>1
    <3>3. remaining' = k - (d - c)
      BY <2>1, <2>4
    <3> QED BY <2>4, <3>2, <3>3
  <2>6. plan.base <= cursor'
    BY <2>2, <2>3
  <2> QED BY <2>5, <2>6
<1>7. /\ todo \subseteq Nat /\ todo \subseteq Frontiers(plan)
      /\ \A f \in todo : f >= cursor' /\ f \in plan.captures
  <2>1. /\ todo \subseteq {f \in plan.captures : f >= cursor} /\ cursor \notin todo
    BY <1>1, <1>2 DEF Captures
  <2>2. plan.captures \subseteq Nat
    BY <1>3, PlanFacts
  <2>3. todo \subseteq Nat /\ todo \subseteq Frontiers(plan)
    BY <2>1, <2>2 DEF Frontiers
  <2>4. \A f \in todo : f > cursor
    BY <1>3, <2>1, <2>2
  <2> QED BY <1>3, <1>5, <2>1, <2>3, <2>4
<1>8. (CaptureAt(cursor') <=> cursor' \in todo) /\ (cursor' \in todo => NextCapture = cursor')
  BY <1>5, <1>7, DueAt
<1>9. \/ phase' = "offer" /\ ~final /\ cursor' \in todo
         /\ offered' = offered \cup {<<cursor', cursor'>>}
      \/ phase' = "begun" /\ final /\ offered' = offered
      \/ phase' = "staged" /\ ~final /\ remaining' = 0 /\ cursor' \notin todo /\ offered' = offered
      \/ phase' = "unit" /\ remaining' # 0 /\ cursor' \notin todo /\ offered' = offered
  <2>1. AfterChunk
    BY DEF RunChunk
  <2> QED BY <1>8, <2>1 DEF AfterChunk
<1>10. cursor' = plan.prompt => remaining' = 0
  BY <1>3, <1>4, <1>5, <1>6
<1>11. TypeOK'
  <2>1. cursor' + remaining' = cursor + remaining /\ plan.base <= cursor'
    BY <1>6
  <2>2. units' \in Nat
    BY <1>1, <1>3
  <2>3. /\ phase' \in Phases
        /\ phase' = "unit" => remaining' > 0
        /\ phase' = "staged" => cursor' # plan.prompt
        /\ phase' = "begun" => cursor' = plan.prompt
        /\ phase' \notin {"prompt_offer", "decode"}
    BY <1>6, <1>9 DEF Phases
  <2>4. cursor' # plan.prompt => cursor' < plan.prompt
    BY <1>3, <1>5
  <2> QED BY <1>1, <1>3, <1>4, <1>5, <1>6, <2>1, <2>2, <2>3, <2>4 DEF TypeOK
<1>12. Captures'
  <2>1. /\ todo' \subseteq {f \in plan.captures : f >= cursor'}
    BY <1>1, <1>7
  <2>2. {f \in plan.captures : f > cursor'} \subseteq todo'
    <3>1. {f \in plan.captures : f > cursor} \subseteq todo
      BY <1>2 DEF Captures
    <3>2. \A f \in plan.captures : f > cursor' => f > cursor
      BY <1>3, <1>5, PlanFacts
    <3> QED BY <1>1, <3>1, <3>2
  <2>3. phase' = "offer" => cursor' < plan.prompt
    BY <1>3, <1>5, <1>9, <1>10
  <2>4. /\ \A o \in offered : o[1] = o[2]
        /\ {o[1] : o \in offered} = plan.captures \ todo
    BY <1>1, <1>2 DEF Captures
  <2>5. CASE phase' = "offer"
    <3>1. offered' = offered \cup {<<cursor', cursor'>>} /\ cursor' \in todo
      BY <1>9, <2>5
    <3>2. {o[1] : o \in offered'} = {o[1] : o \in offered} \cup {cursor'}
      BY <3>1, OfferAdds
    <3>3. \A o \in offered' : o[1] = o[2]
      BY <2>4, <3>1
    <3> QED BY <1>1, <2>1, <2>2, <2>3, <2>4, <2>5, <3>1, <3>2, <3>3 DEF Captures
  <2>6. CASE phase' # "offer"
    <3>1. /\ offered' = offered /\ phase' \notin {"offer", "prompt_offer", "decode"}
          /\ phase' = "unit" => cursor' \notin todo
      BY <1>9, <2>6
    <3> QED BY <1>1, <2>1, <2>2, <2>4, <3>1 DEF Captures
  <2> QED BY <2>5, <2>6
<1>13. Vision'
  <2>1. TextLength \in Nat \ {0}
    BY <1>1, <1>2, ChunkCut
  <2>2. /\ use' \in Nat \ {0} /\ use' <= Len(plan.items) + 1
        /\ active' \in Nat /\ active <= active' /\ active' <= use'
        /\ \A i \in Used(plan) : i < use' => plan.items[i].to <= cursor
        /\ encoding' \in 0 .. active'
    BY <1>1, <1>2, <2>1, PrepareMoves
  <2>3. /\ active \in Nat /\ encoded \subseteq 0 .. active /\ payloads \subseteq DOMAIN plan.items
        /\ \A i \in DOMAIN plan.items : i > active => i \in payloads
    BY <1>1, <1>2 DEF Vision
  <2>4. /\ Used(plan) \subseteq DOMAIN plan.items /\ DOMAIN plan.items \subseteq Nat
        /\ \A i \in DOMAIN plan.items : plan.items[i].to \in Nat
    <3>1. /\ DOMAIN plan.items = 1 .. Len(plan.items) /\ Len(plan.items) \in Nat
          /\ \A i \in DOMAIN plan.items : plan.items[i].to \in Nat
      BY <1>3, ItemFacts
    <3>2. Used(plan) \subseteq DOMAIN plan.items
      BY DEF Used
    <3> QED BY <3>1, <3>2
  <2>5. \A i \in Used(plan) : i < use' => plan.items[i].to <= cursor'
    BY <1>3, <1>5, <2>2, <2>4, SMTT(40)
  <2>6. payloads' \subseteq DOMAIN plan.items /\ encoded' \subseteq 0 .. active'
    BY <1>1, <2>3
  <2>7. ASSUME phase' # "begun", NEW i \in DOMAIN plan.items, i > active' PROVE i \in payloads'
    <3>1. i \in Nat /\ i > active /\ i \in payloads
      BY <2>2, <2>3, <2>4, <2>7
    <3>2. i \notin encoded /\ i # encoding'
      BY <2>2, <2>3, <2>7, <3>1
    <3> QED BY <1>1, <2>7, <3>1, <3>2
  <2>8. \A i \in DOMAIN plan.items, t \in cursor .. ChunkEnd - 1 :
           \/ plan.items[i].from <= t /\ t < plan.items[i].to
           \/ plan.mtp /\ plan.items[i].from <= t + 1 /\ t + 1 < plan.items[i].to
           => ItemFor(cursor, TextLength) = i
    BY <1>2, <2>1, ChunkItem DEF ChunkEnd
  <2>9. ChunkHasItsEmbeddings'
    <3>1. /\ (last').from = cursor /\ (last').to = ChunkEnd
          /\ (last').item = ItemFor(cursor, TextLength)
      BY <1>1
    <3> QED BY <1>1, <2>8, <3>1 DEF ChunkHasItsEmbeddings
  <2> QED BY <1>1, <2>2, <2>5, <2>6, <2>7, <2>9 DEF Vision
<1>14. Budget'
  <2> DEFINE W == Within(plan, cursor, remaining)
             A == Ahead(plan, cursor')
  <2>1. units + W <= Charged(plan) /\ W \in Nat /\ W >= 1
    BY <1>1, <1>2, <1>3, <1>4, <1>5, WithinType DEF Budget
  <2>2. /\ (cursor' = SegmentEnd(plan, cursor) \/ cursor' = cursor + remaining) => 1 + A <= W
        /\ cursor' < plan.prompt => Within(plan, cursor', cursor + remaining - cursor') <= W
    BY <1>3, <1>4, <1>5, UnitAdvances
  <2>3. A \in Nat
    BY <1>3, <1>5, SegmentsAhead
  <2>4. CASE phase' = "offer"
    <3>1. cursor' \in Frontiers(plan) /\ cursor' # plan.prompt
      BY <1>7, <1>9, <1>10, <2>4
    <3>2. SegmentEnd(plan, cursor) \in Nat /\ SegmentEnd(plan, cursor) <= cursor'
      BY <1>3, <1>5, <3>1, SegmentsAhead
    <3>3. cursor' = SegmentEnd(plan, cursor)
      BY <1>5, <3>2
    <3>4. (units + 1) + A <= Charged(plan)
      <4> HIDE DEF W, A
      <4> QED BY <1>3, <2>1, <2>2, <2>3, <3>3
    <3>5. units + 1 <= Charged(plan)
      <4> HIDE DEF W, A
      <4> QED BY <1>3, <2>3, <3>4
    <3>6. Ahead(plan', cursor') = A /\ units' = units + 1 /\ plan' = plan
      BY <1>1, <2>4
    <3>7. A + 0 = A
      <4> HIDE DEF A
      <4> QED BY <2>3
    <3> QED BY <2>4, <3>1, <3>4, <3>5, <3>6, <3>7 DEF Budget
  <2>5. CASE phase' = "staged"
    <3>1. remaining' = 0 /\ cursor' # plan.prompt /\ cursor' \notin todo
      BY <1>9, <2>5
    <3>2. cursor' \in Nat
      BY <1>5
    <3>3. cursor' = cursor + remaining
      BY <1>6, <3>1, <3>2
    <3>4. (units + 1) + A <= Charged(plan)
      <4> HIDE DEF W, A
      <4> QED BY <1>3, <2>1, <2>2, <2>3, <3>3
    <3>5. units + 1 <= Charged(plan)
      <4> HIDE DEF W, A
      <4> QED BY <1>3, <2>3, <3>4
    <3>6. Ahead(plan', cursor') = A /\ units' = units + 1 /\ plan' = plan /\ todo' = todo
      BY <1>1, <2>5
    <3>7. A + 0 = A /\ (units + 1) + A + 0 = (units + 1) + A
      <4> HIDE DEF A
      <4> QED BY <1>3, <2>3
    <3> QED BY <2>5, <3>1, <3>4, <3>5, <3>6, <3>7 DEF Budget
  <2>6. CASE phase' = "unit"
    <3>1. cursor' < plan.prompt
      BY <1>3, <1>5, <1>9, <1>10, <2>6
    <3>2. Within(plan, cursor', remaining') <= W /\ Within(plan, cursor', remaining') \in Nat
      BY <1>3, <1>5, <1>6, <2>2, <3>1, WithinType
    <3>3. units + Within(plan, cursor', remaining') <= Charged(plan) /\ units <= Charged(plan)
      <4> HIDE DEF W
      <4> QED BY <1>3, <2>1, <3>2
    <3>4. units' = units /\ plan' = plan
      BY <1>1, <1>3, <2>6
    <3> QED BY <2>6, <3>3, <3>4 DEF Budget
  <2>7. CASE phase' = "begun"
    <3>1. units + 1 <= Charged(plan)
      <4> HIDE DEF W
      <4> QED BY <1>3, <2>1
    <3> QED BY <1>1, <2>7, <3>1 DEF Budget
  <2> QED BY <1>9, <2>4, <2>5, <2>6, <2>7
<1>15. Rebuild'
  <2>1. phase' \notin {"prompt_offer", "decode", "over"}
    BY <1>9
  <2> QED BY <1>1, <1>2, <2>1, RebuildSame
<1> QED BY <1>11, <1>12, <1>13, <1>14, <1>15 DEF IInv
-----------------------------------------------------------------------------
(* A staged plan satisfies the invariant. *)
LEMMA InitIInv == Init => IInv
<1> SUFFICES ASSUME Init PROVE IInv
  OBVIOUS
<1>1. /\ plan \in Plans /\ phase = "staged" /\ cursor = plan.base /\ remaining = 0
      /\ todo = plan.captures /\ offered = {} /\ units = 0 /\ use = 1 /\ active = None
      /\ payloads = DOMAIN plan.items /\ encoded = {} /\ last = NoChunk /\ frontier = 0
      /\ chunks = SegmentedChunks(0, plan.prompt, plan.planned \cup plan.rewrites)
      /\ tail = RebuildTail(plan)
  BY DEF Init
<1>2. /\ plan.prompt \in Nat \ {0} /\ plan.base \in Nat /\ plan.base <= plan.prompt
      /\ plan.captures \subseteq Nat /\ \A f \in plan.captures : f >= plan.base
  BY <1>1, PlanFacts
<1>3. TypeOK
  <2>1. bridge \in BOOLEAN
    BY DEF Init
  <2>2. cursor < plan.prompt \/ plan.base = plan.prompt
    BY <1>1, <1>2
  <2> QED BY <1>1, <1>2, <2>1, <2>2 DEF TypeOK, Phases
<1>4. Captures
  BY <1>1, <1>2 DEF Captures
<1>5. Vision
  <2>1. Len(plan.items) \in Nat /\ DOMAIN plan.items = 1 .. Len(plan.items)
    BY <1>1, ItemFacts
  <2>2. \A i \in Used(plan) : ~(i < 1)
    BY <2>1 DEF Used
  <2>3. ChunkHasItsEmbeddings
    BY <1>1 DEF ChunkHasItsEmbeddings, NoChunk
  <2> QED BY <1>1, <2>1, <2>2, <2>3 DEF Vision, None
<1>6. Budget
  <2>1. /\ Charged(plan) \in Nat
        /\ Charged(plan) = (IF plan.base = plan.prompt THEN 1 ELSE Ahead(plan, plan.base))
                            + (IF plan.base \in plan.captures THEN 1 ELSE 0)
    BY <1>1, ChargedFacts
  <2>2. Ahead(plan, plan.base) \in Nat /\ Ahead(plan, plan.prompt) = 0
    BY <1>1, <1>2, SegmentsAhead
  <2>3. 0 + (Ahead(plan, plan.base) + (IF plan.base = plan.prompt THEN 1 ELSE 0))
          + (IF plan.base \in plan.captures THEN 1 ELSE 0) <= Charged(plan)
    BY <2>1, <2>2
  <2> QED BY <1>1, <2>1, <2>3 DEF Budget
<1>7. Rebuild
  <2>1. chunks = Settled(plan) + ChunksFor(plan.prompt - tail)
    BY <1>1, <1>2, OnlyTailGrows DEF Boundaries
  <2> QED BY <1>1, <2>1 DEF Rebuild
<1> QED BY <1>3, <1>4, <1>5, <1>6, <1>7 DEF IInv

(* Every step keeps the invariant. *)
LEMMA NextIInv == IInv /\ [Next]_vars => IInv'
<1> SUFFICES ASSUME IInv, [Next]_vars PROVE IInv'
  OBVIOUS
<1>1. CASE PrefillStep
  BY <1>1, OfferAtBaseKeeps, BeginUnitKeeps, RunChunkKeeps, SampleWithoutSuffixKeeps,
     ResolveOfferKeeps, CommitBeginKeeps DEF PrefillStep
<1>2. CASE Extend
  BY <1>2, ExtendKeeps
<1>3. CASE Finish
  BY <1>3, FinishKeeps
<1>4. CASE UNCHANGED vars
  <2>1. UNCHANGED <<plan, phase, cursor, todo, offered, remaining, units, bridge, use, active,
                    payloads, encoded, last, frontier, chunks, tail>>
    BY <1>4 DEF vars, stagedVars, visionVars, rebuildVars
  <2>2. TypeOK'
    BY <2>1 DEF IInv, TypeOK
  <2>3. Captures'
    BY <2>1 DEF IInv, Captures
  <2>4. Vision'
    BY <2>1, VisionSame DEF IInv, Vision
  <2>5. Budget'
    BY <2>1 DEF IInv, Budget
  <2>6. Rebuild'
    BY <2>1, RebuildSame DEF IInv
  <2> QED BY <2>2, <2>3, <2>4, <2>5, <2>6 DEF IInv
<1> QED BY <1>1, <1>2, <1>3, <1>4 DEF Next

(* The inductive invariant of a staged prefill (advance_prefill() and what follows it). *)
THEOREM PrefillInvariant == Spec => []IInv
BY InitIInv, NextIInv, PTL DEF Spec

(* UnitsAreProjected for every plan: advance_prefill() never runs more service units than
   projected_service_work() charged, and one is left whenever another must run.  The charge
   for vision items is never needed. *)
THEOREM UnitsAreProjectedHolds == Spec => []UnitsAreProjected
<1>1. ASSUME IInv PROVE UnitsAreProjected
  <2>1. TypeOK /\ Budget
    BY <1>1 DEF IInv
  <2>2. /\ plan \in Plans /\ plan.prompt \in Nat \ {0} /\ cursor \in Nat /\ units \in Nat
        /\ Ahead(plan, cursor) \in Nat /\ Charged(plan) \in Nat
        /\ cursor < plan.prompt => Ahead(plan, cursor) >= 1
    BY <2>1, Basics
  <2>3. /\ ProjectedUnits(plan) = Charged(plan) + Cardinality(Used(plan))
        /\ Cardinality(Used(plan)) \in Nat
    BY <2>2, ChargedFacts, ItemFacts
  <2>4. units <= Charged(plan) /\ cursor <= plan.prompt
    BY <2>1 DEF Budget, TypeOK
  <2>5. CASE phase \in {"staged", "offer"}
    <3>1. cursor < plan.prompt \/ cursor = plan.prompt
      BY <2>2, <2>4
    <3>2. units < Charged(plan)
      BY <2>1, <2>2, <2>5, <3>1 DEF Budget
    <3> QED BY <2>2, <2>3, <2>4, <3>2 DEF UnitsAreProjected
  <2>6. CASE phase = "unit"
    <3>1. /\ units + Within(plan, cursor, remaining) <= Charged(plan)
          /\ remaining \in Nat \ {0} /\ cursor + remaining <= plan.prompt
      BY <2>1, <2>6 DEF Budget, TypeOK
    <3>2. cursor < plan.prompt
      BY <2>2, <3>1
    <3>3. Within(plan, cursor, remaining) \in Nat /\ Within(plan, cursor, remaining) >= 1
      BY <2>2, <3>1, <3>2, WithinType
    <3>4. units < Charged(plan)
      BY <2>2, <3>1, <3>3
    <3> QED BY <2>2, <2>3, <2>4, <3>4 DEF UnitsAreProjected
  <2>7. CASE phase \notin {"staged", "offer", "unit"}
    BY <2>2, <2>3, <2>4, <2>7 DEF UnitsAreProjected
  <2> QED BY <2>5, <2>6, <2>7
<1> QED BY <1>1, PrefillInvariant, PTL

(* CapturesAtTheirFrontier for every plan: prefill_impl() cuts its chunks so that no capture
   is overrun, offered elsewhere or forgotten. *)
THEOREM CapturesAtTheirFrontierHolds == Spec => []CapturesAtTheirFrontier
<1>1. ASSUME IInv PROVE CapturesAtTheirFrontier
  <2>1. TypeOK /\ Captures
    BY <1>1 DEF IInv
  <2>2. cursor \in Nat /\ plan.captures \subseteq Nat
    BY <2>1, PlanFacts DEF TypeOK
  <2>3. \A o \in offered : o[1] = o[2]
    BY <2>1 DEF Captures
  <2>4. \A f \in plan.captures : f < cursor => f \notin todo
    BY <2>1, <2>2 DEF Captures
  <2>5. phase = "decode" => todo = {} /\ {o[1] : o \in offered} = plan.captures \ todo
    BY <2>1 DEF Captures
  <2> QED BY <2>3, <2>4, <2>5 DEF CapturesAtTheirFrontier
<1> QED BY <1>1, PrefillInvariant, PTL

(* ChunkHasItsEmbeddings for every plan: VisionPrefillSession::prepare_chunk() ends a chunk
   before it would need a second item. *)
THEOREM ChunkHasItsEmbeddingsHolds == Spec => []ChunkHasItsEmbeddings
<1>1. IInv => ChunkHasItsEmbeddings
  BY DEF IInv, Vision
<1> QED BY <1>1, PrefillInvariant, PTL

(* RebuildWorkIsExact for every plan and any number of generated tokens: what
   advance_rebuild_work() adds up is what segmented_prefill_chunks() would say. *)
THEOREM RebuildWorkIsExactHolds == Spec => []RebuildWorkIsExact
<1>1. ASSUME IInv PROVE RebuildWorkIsExact
  <2>1. plan \in Plans /\ Rebuild
    BY <1>1 DEF IInv, TypeOK
  <2>2. ASSUME phase \in {"prompt_offer", "decode", "over"}
        PROVE  chunks = SegmentedChunks(0, frontier, plan.planned \cup plan.rewrites)
    <3>1. /\ frontier \in Nat /\ frontier >= plan.prompt
          /\ chunks = Settled(plan) + ChunksFor(frontier - RebuildTail(plan))
      BY <2>1, <2>2 DEF Rebuild
    <3>2. SegmentedChunks(0, frontier, Boundaries(plan))
            = Settled(plan) + ChunksFor(frontier - RebuildTail(plan))
      BY <2>1, <3>1, OnlyTailGrows
    <3> QED BY <3>1, <3>2 DEF Boundaries
  <2> QED BY <2>2 DEF RebuildWorkIsExact
<1> QED BY <1>1, PrefillInvariant, PTL

(* EncodesLivePayload for every plan: the payloads released after a chunk are never those of
   an item that a later chunk or the MTP bridge encodes. *)
THEOREM EncodesLivePayloadHolds == Spec => EncodesLivePayload
<1>1. ASSUME IInv, [Next]_vars PROVE [encoding' # None => encoding' \in payloads]_vars
  <2> SUFFICES ASSUME Next, encoding' # None PROVE encoding' \in payloads
    BY <1>1
  <2>1. TypeOK /\ Captures /\ Vision
    BY <1>1 DEF IInv
  <2>2. \E length \in Nat \ {0} : Prepare(cursor, length) /\ phase \in {"staged", "unit"}
    <3>1. CASE BeginUnit
      BY <3>1 DEF BeginUnit
    <3>2. CASE RunChunk
      BY <2>1, <3>2, ChunkCut DEF RunChunk
    <3>3. ~(OfferAtBase \/ SampleWithoutSuffix \/ ResolveOffer \/ Extend \/ Finish)
      BY DEF OfferAtBase, SampleWithoutSuffix, ResolveOffer, Extend, Finish
    <3>4. ~\E terminal \in BOOLEAN : CommitBegin(terminal)
      BY DEF CommitBegin
    <3> QED BY <3>1, <3>2, <3>3, <3>4 DEF Next, PrefillStep
  <2>3. PICK length \in Nat \ {0} : Prepare(cursor, length) /\ phase \in {"staged", "unit"}
    BY <2>2
  <2>4. encoding' \in DOMAIN plan.items /\ encoding' > active
    BY <2>1, <2>3, PrepareMoves
  <2> QED BY <2>1, <2>3, <2>4 DEF Vision
<1> QED BY <1>1, PrefillInvariant, PTL DEF Spec, EncodesLivePayload
=============================================================================
