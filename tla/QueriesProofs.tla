---------------------------- MODULE QueriesProofs ----------------------------
(***************************************************************************)
(* Proofs about the rendering queries.                                     *)
(*                                                                         *)
(* BattleBounds, the rows they read: every slice that is known holds       *)
(* exactly its battle's rows, for every table in tick order, with whatever *)
(* gaps in its rowids, every number of battles, and every interleaving of  *)
(* the stores of playback thread and prefetch worker.                      *)
(*                                                                         *)
(* RenderQueries, the list itself: once the pushes are through the engine  *)
(* has the list as it was left, and the cards say what the engine said of  *)
(* it, for every list of defaults, every number of slots, queries and      *)
(* edits, and every order in which replies and edits cross.                *)
(***************************************************************************)
EXTENDS BattleBounds, RenderQueries, FiniteSetTheorems, SequenceTheorems,
        WellFoundedInduction, TLAPS

\* p parts the rows of t: those before it have a tick below least, those from
\* it on have not.
Splits(t, p, least) == \A r \in DOMAIN t : t[r] >= least <=> p <= r

\* What a slice needs at either end: of the rows from the battle's first on,
\* those up to h are the battle's.
LoOk(b, p) == Splits(Loaded, p, FirstTick[b])
HiOk(b, h) == \A r \in DOMAIN Loaded :
                 Loaded[r] >= FirstTick[b] => (r <= h <=> Loaded[r] <= LastTick[b])
SliceOk(b, slice) == LoOk(b, slice.lo) /\ HiOk(b, slice.hi)

\* The bisection's loop invariant: the point to find is in iv, and the last row
\* is not before its end.
Brackets(t, iv, least) ==
    /\ iv.lo <= iv.hi
    /\ iv.hi <= SpanOf(t).hi + 1
    /\ \A r \in DOMAIN t : /\ r < iv.lo => t[r] < least
                           /\ iv.hi <= r => least <= t[r]

Ghost == [refused : BOOLEAN, edited : BOOLEAN, overtaken : BOOLEAN]

Resolving == [at : {"hi", "known", "build"}, battle : Battle, build : BOOLEAN]

Resting   == [at : {"booting", "idle"}]
Asked     == [at : {"asked", "answered", "threw"}, battle : Battle]
Searching == [at : {"lower", "upper", "hi", "publish", "answered"},
              battle : Battle, low : Int, iv : Interval]

Typed == /\ BoundsTypeOK
         /\ past \in Ghost
         /\ own \in {Idle} \cup Resolving
         /\ pre \in Resting \cup Asked \cup Searching
         /\ own.at = "build" => own.battle \in known
         /\ span = NoSpan \/ span.lo >= 0

TableOk == ~past.edited => table = Loaded

SearchOk ==
    ~past.refused =>
        /\ pre.at = "lower" => Brackets(Loaded, pre.iv, FirstTick[pre.battle])
        /\ pre.at = "upper" => Brackets(Loaded, pre.iv, LastTick[pre.battle] + 1)
        /\ pre.at \in {"upper", "hi", "publish"} => LoOk(pre.battle, pre.low)
        /\ pre.at \in {"hi", "publish"} =>
               Splits(Loaded, pre.iv.lo, LastTick[pre.battle] + 1)

\* What either thread has stored so far of the slice it is storing.
StoredOk ==
    AsAssumed =>
        /\ pre.at \in {"hi", "publish"} => LoOk(pre.battle, bounds[pre.battle].lo)
        /\ pre.at = "publish" => HiOk(pre.battle, bounds[pre.battle].hi)
        /\ own.at \in {"hi", "known"} => /\ LoOk(own.battle, bounds[own.battle].lo)
                                         /\ span = SpanOf(Loaded)
        /\ own.at = "known" => HiOk(own.battle, bounds[own.battle].hi)

SlicesOk ==
    AsAssumed => /\ \A b \in known : SliceOk(b, bounds[b])
                 /\ \A b \in DOMAIN used : SliceOk(b, used[b])

IInv == Typed /\ TableOk /\ SearchOk /\ StoredOk /\ SlicesOk

-----------------------------------------------------------------------------
(* Least and greatest elements, and induction by them.                     *)

\* The order of the numbers is well founded.
LEMMA LeastElement ==
    ASSUME NEW S \in SUBSET Nat, S # {}
    PROVE  \E m \in S : \A n \in S : m <= n
<1> DEFINE T == {0 .. n : n \in S}
<1>1. T \subseteq FiniteSubsetsOf(Nat) /\ T # {}
  <2>1. ASSUME NEW n \in S PROVE 0 .. n \in SUBSET Nat /\ IsFiniteSet(0 .. n)
    BY FS_Interval
  <2> QED BY <2>1 DEF FiniteSubsetsOf
<1>2. PICK x \in T : \A y \in T : ~ (<<y, x>> \in StrictSubsetOrdering(Nat))
  <2>1. IsWellFoundedOn(StrictSubsetOrdering(Nat), FiniteSubsetsOf(Nat))
    BY FS_StrictSubsetOrderingWellFounded
  <2> HIDE DEF T
  <2> QED BY <1>1, <2>1, WFMin
<1>3. PICK m \in S : x = 0 .. m
  OBVIOUS
<1>4. ASSUME NEW n \in S, n < m PROVE FALSE
  <2>1. 0 .. n \in T  OBVIOUS
  <2>2. 0 .. n \subseteq 0 .. m /\ m \in 0 .. m /\ m \notin 0 .. n
    BY <1>4
  <2>3. 0 .. n \in SUBSET Nat /\ 0 .. m \in SUBSET Nat
    OBVIOUS
  <2>4. <<0 .. n, 0 .. m>> \in StrictSubsetOrdering(Nat)
    BY <2>2, <2>3 DEF StrictSubsetOrdering
  <2> QED BY <2>1, <2>4, <1>2, <1>3
<1> QED BY <1>4

\* And a finite set of numbers has a greatest.
LEMMA GreatestElement ==
    ASSUME NEW S \in SUBSET Nat, IsFiniteSet(S), S # {}
    PROVE  \E m \in S : \A n \in S : n <= m
<1> DEFINE T == {U \in SUBSET S : U # {} /\ \A m \in U : \E n \in U : ~ (n <= m)}
<1> SUFFICES ASSUME S \in T PROVE FALSE
  OBVIOUS
<1>1. T \subseteq FiniteSubsetsOf(Nat)
  BY FS_Subset DEF FiniteSubsetsOf
<1>2. PICK x \in T : \A y \in T : ~ (<<y, x>> \in StrictSubsetOrdering(Nat))
  <2>1. IsWellFoundedOn(StrictSubsetOrdering(Nat), FiniteSubsetsOf(Nat))
    BY FS_StrictSubsetOrderingWellFounded
  <2>2. T # {}
    OBVIOUS
  <2> HIDE DEF T
  <2> QED BY <1>1, <2>1, <2>2, WFMin
<1>3. PICK a \in x : TRUE
  OBVIOUS
<1>4. x \subseteq Nat /\ x \subseteq S
  OBVIOUS
<1> DEFINE y == x \ {a}
<1>5. <<y, x>> \in StrictSubsetOrdering(Nat)
  BY <1>3, <1>4 DEF StrictSubsetOrdering
<1>6. y \notin T
  BY <1>2, <1>5
<1>7. CASE y = {}
  <2>1. x = {a} /\ a \in Nat
    BY <1>3, <1>4, <1>7
  <2> QED
    BY <2>1
<1>8. CASE y # {}
  <2>1. PICK m \in y : \A n \in y : n <= m
    BY <1>4, <1>6, <1>8
  <2>2. PICK n \in x : ~ (n <= m)
    BY <2>1
  <2>3. n = a /\ a \in Nat /\ m \in Nat
    BY <1>3, <1>4, <2>1, <2>2
  <2>4. \A k \in x : k <= a
    BY <1>4, <2>1, <2>2, <2>3
  <2> QED
    BY <1>3, <2>4
<1> QED
  BY <1>7, <1>8

-----------------------------------------------------------------------------
(* Tables.                                                                 *)

\* The span of a table with rows is that of its rows.
LEMMA SpanOfRows ==
    ASSUME NEW t, IsTable(t), DOMAIN t # {}
    PROVE  /\ SpanOf(t) \in Interval /\ SpanOf(t).lo >= 0
           /\ SpanOf(t).lo \in DOMAIN t /\ SpanOf(t).hi \in DOMAIN t
           /\ \A r \in DOMAIN t : SpanOf(t).lo <= r /\ r <= SpanOf(t).hi
<1> DEFINE D == DOMAIN t
<1>1. D \in SUBSET Nat /\ IsFiniteSet(D) /\ D # {}
  BY DEF IsTable
<1>2. \E m \in D : \A n \in D : m <= n
  BY <1>1, LeastElement
<1>3. \E m \in D : \A n \in D : n <= m
  BY <1>1, GreatestElement
<1> DEFINE lo == CHOOSE r \in D : \A s \in D : r <= s
           hi == CHOOSE r \in D : \A s \in D : s <= r
<1>4. lo \in D /\ \A s \in D : lo <= s
  BY <1>2
<1>5. hi \in D /\ \A s \in D : s <= hi
  BY <1>3
<1>6. SpanOf(t) = [lo |-> lo, hi |-> hi]
  BY <1>1 DEF SpanOf
<1> HIDE DEF D, lo, hi
<1>7. SpanOf(t).lo = lo /\ SpanOf(t).hi = hi
  BY <1>6
<1> QED
  BY <1>1, <1>4, <1>5, <1>6, <1>7 DEF Interval, D

LEMMA SpanType ==
    ASSUME NEW t, IsTable(t)
    PROVE  /\ SpanOf(t) \in Interval
           /\ SpanOf(t) = NoSpan \/ SpanOf(t).lo >= 0
<1>1. CASE DOMAIN t = {}
  BY <1>1 DEF SpanOf, Interval, NoSpan
<1>2. CASE DOMAIN t # {}
  BY <1>2, SpanOfRows
<1> QED
  BY <1>1, <1>2

\* The probe reads the tick of the first row from it on.
LEMMA ProbeReads ==
    ASSUME NEW t, IsTable(t), NEW probe \in Int
    PROVE  \/ /\ \A r \in DOMAIN t : r < probe
              /\ TickFrom(t, probe) = -1
           \/ \E q \in DOMAIN t : /\ q >= probe /\ TickFrom(t, probe) = t[q]
                                  /\ \A r \in DOMAIN t : r >= probe => q <= r
<1> DEFINE rows == {r \in DOMAIN t : r >= probe}
<1>1. rows \in SUBSET Nat
  BY DEF IsTable
<1>2. CASE rows = {}
  <2>1. \A r \in DOMAIN t : r < probe
    BY <1>2 DEF IsTable
  <2> QED
    BY <1>2, <2>1 DEF TickFrom
<1>3. CASE rows # {}
  <2>1. \E m \in rows : \A n \in rows : m <= n
    BY <1>1, <1>3, LeastElement
  <2> DEFINE q == CHOOSE r \in rows : \A s \in rows : r <= s
  <2>2. q \in rows /\ \A s \in rows : q <= s
    BY <2>1
  <2>3. TickFrom(t, probe) = t[q]
    BY <1>3 DEF TickFrom
  <2> HIDE DEF q
  <2> QED
    BY <2>2, <2>3
<1> QED
  BY <1>2, <1>3

\* The middle is inside, and both halves are smaller.
LEMMA MiddleInside ==
    ASSUME NEW iv \in Interval, iv.lo < iv.hi
    PROVE  Middle(iv) \in Int /\ iv.lo <= Middle(iv) /\ Middle(iv) < iv.hi
<1> DEFINE a == iv.lo
           b == iv.hi
<1>1. a \in Int /\ b \in Int /\ a < b
  BY DEF Interval
<1>2. Middle(iv) = a + (b - a) \div 2
  BY DEF Middle
<1> HIDE DEF a, b
<1>3. (b - a) \div 2 \in Int /\ 0 <= (b - a) \div 2 /\ (b - a) \div 2 < b - a
  BY <1>1
<1> QED
  BY <1>1, <1>2, <1>3 DEF a, b

LEMMA NarrowedType ==
    ASSUME NEW iv \in Interval, NEW tick, NEW least, iv.lo < iv.hi
    PROVE  /\ Narrowed(iv, tick, least) \in Interval
           /\ Narrowed(iv, tick, least).lo <= Narrowed(iv, tick, least).hi
           /\ Narrowed(iv, tick, least).hi - Narrowed(iv, tick, least).lo < iv.hi - iv.lo
<1>1. Middle(iv) \in Int /\ iv.lo <= Middle(iv) /\ Middle(iv) < iv.hi
  BY MiddleInside
<1>2. iv.lo \in Int /\ iv.hi \in Int
  BY DEF Interval
<1>3. \/ Narrowed(iv, tick, least) = [lo |-> iv.lo, hi |-> Middle(iv)]
      \/ Narrowed(iv, tick, least) = [lo |-> Middle(iv) + 1, hi |-> iv.hi]
  BY DEF Narrowed, Interval
<1> DEFINE n == Narrowed(iv, tick, least)
<1>4. CASE n = [lo |-> iv.lo, hi |-> Middle(iv)]
  <2>1. n.lo = iv.lo /\ n.hi = Middle(iv)
    BY <1>4
  <2> QED
    BY <1>1, <1>2, <1>4, <2>1 DEF Interval
<1>5. CASE n = [lo |-> Middle(iv) + 1, hi |-> iv.hi]
  <2>1. n.lo = Middle(iv) + 1 /\ n.hi = iv.hi
    BY <1>5
  <2> QED
    BY <1>1, <1>2, <1>5, <2>1 DEF Interval
<1> QED
  BY <1>3, <1>4, <1>5

-----------------------------------------------------------------------------
(* The bisection.                                                          *)

Ascends(t) == \A r, s \in DOMAIN t : r <= s => t[r] <= t[s]

\* At first the whole table is in doubt,
LEMMA BracketsAtFirst ==
    ASSUME NEW t, IsTable(t), NEW least
    PROVE  Whole(SpanOf(t)) \in Interval /\ Brackets(t, Whole(SpanOf(t)), least)
<1>1. CASE DOMAIN t = {}
  BY <1>1 DEF SpanOf, Whole, Brackets, Interval
<1>2. CASE DOMAIN t # {}
  <2> DEFINE s == SpanOf(t)
  <2>1. /\ s.lo \in Nat /\ s.hi \in Nat /\ s.lo <= s.hi
        /\ \A r \in DOMAIN t : r \in Nat /\ s.lo <= r /\ r <= s.hi
    BY <1>2, SpanOfRows DEF IsTable
  <2>2. Whole(s) = [lo |-> s.lo, hi |-> s.hi + 1]
    BY DEF Whole
  <2> HIDE DEF s
  <2>3. Whole(s).lo = s.lo /\ Whole(s).hi = s.hi + 1
    BY <2>2
  <2>4. Whole(s) \in Interval
    BY <2>1, <2>2 DEF Interval
  <2>5. \A r \in DOMAIN t : ~ (r < Whole(s).lo) /\ ~ (Whole(s).hi <= r)
    BY <2>1, <2>3
  <2>6. Whole(s).lo <= Whole(s).hi /\ Whole(s).hi <= s.hi + 1
    BY <2>1, <2>3
  <2> QED
    BY <2>4, <2>5, <2>6 DEF Brackets, s
<1> QED
  BY <1>1, <1>2

\* a probe that is answered puts less in doubt,
LEMMA BracketsNarrow ==
    ASSUME NEW t, IsTable(t), Ascends(t), NEW least \in Int, NEW iv \in Interval,
           Brackets(t, iv, least), iv.lo < iv.hi
    PROVE  Brackets(t, Narrowed(iv, TickFrom(t, Middle(iv)), least), least)
<1> DEFINE mid  == Middle(iv)
           tick == TickFrom(t, mid)
           new  == Narrowed(iv, tick, least)
<1>1. mid \in Int /\ iv.lo <= mid /\ mid < iv.hi /\ iv.lo \in Int /\ iv.hi \in Int
  BY MiddleInside DEF Interval
<1>2. /\ DOMAIN t \subseteq Nat
      /\ \A r \in DOMAIN t : t[r] \in Nat
      /\ \A r \in DOMAIN t : \A s \in DOMAIN t : r <= s => t[r] <= t[s]
      /\ \A r \in DOMAIN t : r < iv.lo => t[r] < least
      /\ \A r \in DOMAIN t : iv.hi <= r => least <= t[r]
      /\ iv.hi <= SpanOf(t).hi + 1 /\ SpanOf(t).hi \in Int
  BY SpanType DEF IsTable, Ascends, Brackets, Interval
<1>3. \/ tick # -1 /\ tick >= least /\ new = [lo |-> iv.lo, hi |-> mid]
      \/ ~ (tick # -1 /\ tick >= least) /\ new = [lo |-> mid + 1, hi |-> iv.hi]
  BY DEF Narrowed, Interval
<1>4. new.lo <= new.hi
  BY NarrowedType
<1>5. \/ /\ \A r \in DOMAIN t : r < mid
         /\ tick = -1
      \/ \E q \in DOMAIN t : /\ q >= mid /\ tick = t[q]
                             /\ \A r \in DOMAIN t : r >= mid => q <= r
  BY <1>1, ProbeReads
<1> HIDE DEF mid, tick, new
<1>6. CASE tick # -1 /\ tick >= least
  <2>1. new.lo = iv.lo /\ new.hi = mid
    BY <1>3, <1>6
  <2>2. PICK q \in DOMAIN t : /\ q >= mid /\ tick = t[q]
                              /\ \A r \in DOMAIN t : r >= mid => q <= r
    BY <1>5, <1>6
  <2>3. \A r \in DOMAIN t : mid <= r => least <= t[r]
    <3> SUFFICES ASSUME NEW r \in DOMAIN t, mid <= r PROVE least <= t[r]
      OBVIOUS
    <3>1. q <= r /\ r \in Nat /\ q \in Nat
      BY <1>1, <1>2, <2>2
    <3>2. t[q] <= t[r] /\ t[q] \in Nat /\ t[r] \in Nat
      BY <1>2, <3>1
    <3> QED
      BY <1>6, <2>2, <3>2
  <2>4. mid <= SpanOf(t).hi + 1
    BY <1>1, <1>2
  <2>9. Brackets(t, new, least)
    BY <1>2, <1>4, <2>1, <2>3, <2>4 DEF Brackets
  <2> QED
    BY <2>9 DEF mid, tick, new
<1>7. CASE ~ (tick # -1 /\ tick >= least)
  <2>1. new.lo = mid + 1 /\ new.hi = iv.hi
    BY <1>3, <1>7
  <2>2. \A r \in DOMAIN t : r < mid + 1 => t[r] < least
    <3>1. CASE \E q \in DOMAIN t : /\ q >= mid /\ tick = t[q]
                                   /\ \A r \in DOMAIN t : r >= mid => q <= r
      <4>1. PICK q \in DOMAIN t : q >= mid /\ tick = t[q]
        BY <3>1
      <4>2. q \in Nat /\ t[q] \in Nat /\ t[q] < least
        BY <1>2, <1>7, <4>1
      <4>3. ASSUME NEW r \in DOMAIN t, r < mid + 1 PROVE t[r] < least
        <5>1. r \in Nat /\ r <= q
          BY <1>1, <1>2, <4>1, <4>2, <4>3
        <5>2. t[r] <= t[q] /\ t[r] \in Nat
          BY <1>2, <5>1
        <5> QED
          BY <4>2, <5>2
      <4> QED
        BY <4>3
    <3>2. CASE \A r \in DOMAIN t : r < mid
      <4>1. CASE DOMAIN t = {}
        BY <4>1
      <4>2. CASE DOMAIN t # {}
        <5>1. SpanOf(t).hi \in DOMAIN t
          BY <4>2, SpanOfRows
        <5>2. SpanOf(t).hi < mid
          BY <3>2, <5>1
        <5> QED
          BY <1>1, <1>2, <5>2
      <4> QED
        BY <4>1, <4>2
    <3> QED
      BY <1>5, <3>1, <3>2
  <2>9. Brackets(t, new, least)
    BY <1>2, <1>4, <2>1, <2>2 DEF Brackets
  <2> QED
    BY <2>9 DEF mid, tick, new
<1> QED
  BY <1>6, <1>7 DEF mid, tick, new

\* and when nothing is in doubt the point is found.
LEMMA BracketsInTheEnd ==
    ASSUME NEW t, IsTable(t), NEW least \in Int, NEW iv \in Interval,
           Brackets(t, iv, least), ~ (iv.lo < iv.hi)
    PROVE  Splits(t, iv.lo, least)
<1>1. iv.lo \in Int /\ iv.hi \in Int /\ iv.lo = iv.hi
  BY DEF Brackets, Interval
<1>2. \A r \in DOMAIN t : r \in Nat /\ t[r] \in Nat
  BY DEF IsTable
<1> QED
  BY <1>1, <1>2 DEF Brackets, Splits

\* The loop as a function of the interval it has come to.
LoopBody(f, t, least) ==
    [iv \in Interval |->
        IF iv.lo >= iv.hi THEN iv.lo ELSE f[Narrowed(iv, TickFrom(t, Middle(iv)), least)]]

LEMMA FoundIsLoop ==
    ASSUME NEW t, NEW from, NEW least
    PROVE  Found(t, from, least) = (CHOOSE f : f = LoopBody(f, t, least))[Whole(from)]
BY DEF Found, LoopBody, Interval

\* W is a run of the loop from iv to its end at v, or a part of one.
Run(W, iv, v, t, least) ==
    /\ iv \in W
    /\ \A w \in W : IF w.lo >= w.hi THEN w.lo = v
                    ELSE Narrowed(w, TickFrom(t, Middle(w)), least) \in W
Ends(iv, v, t, least) == \E W \in SUBSET Interval : Run(W, iv, v, t, least)

\* There is such a function: what the run from iv ends at.
LEMMA LoopExists ==
    ASSUME NEW t, NEW least
    PROVE  \E f : f = LoopBody(f, t, least)
<1> DEFINE next(iv) == Narrowed(iv, TickFrom(t, Middle(iv)), least)
           g == [iv \in Interval |-> CHOOSE v : Ends(iv, v, t, least)]
<1>1. ASSUME NEW iv \in Interval, iv.lo >= iv.hi PROVE g[iv] = iv.lo
  <2>1. Run({iv}, iv, iv.lo, t, least)
    BY <1>1 DEF Run
  <2>2. Ends(iv, iv.lo, t, least)
    BY <2>1 DEF Ends
  <2>3. \A v : Ends(iv, v, t, least) => v = iv.lo
    BY <1>1 DEF Ends, Run
  <2>4. Ends(iv, CHOOSE v : Ends(iv, v, t, least), t, least)
    BY <2>2
  <2> QED
    BY <2>3, <2>4
<1>2. ASSUME NEW iv \in Interval, ~ (iv.lo >= iv.hi) PROVE g[iv] = g[next(iv)]
  <2>0. next(iv) \in Interval
    BY <1>2, NarrowedType DEF Interval
  <2>1. ASSUME NEW v, Ends(iv, v, t, least) PROVE Ends(next(iv), v, t, least)
    <3>1. PICK W \in SUBSET Interval : Run(W, iv, v, t, least)
      BY <2>1 DEF Ends
    <3>2. Run(W, next(iv), v, t, least)
      BY <1>2, <3>1 DEF Run
    <3> QED
      BY <3>2 DEF Ends
  <2>2. ASSUME NEW v, Ends(next(iv), v, t, least) PROVE Ends(iv, v, t, least)
    <3>1. PICK W \in SUBSET Interval : Run(W, next(iv), v, t, least)
      BY <2>2 DEF Ends
    <3>2. Run(W \cup {iv}, iv, v, t, least)
      BY <1>2, <3>1 DEF Run
    <3>3. W \cup {iv} \in SUBSET Interval
      OBVIOUS
    <3> QED
      BY <3>2, <3>3 DEF Ends
  <2> HIDE DEF next
  <2>3. \A v : Ends(iv, v, t, least) <=> Ends(next(iv), v, t, least)
    BY <2>1, <2>2
  <2>4. (CHOOSE v : Ends(iv, v, t, least)) = (CHOOSE v : Ends(next(iv), v, t, least))
    BY <2>3
  <2> QED
    BY <2>0, <2>4
<1>3. g = LoopBody(g, t, least)
  <2> HIDE DEF g
  <2>1. \A iv \in Interval : g[iv] = IF iv.lo >= iv.hi THEN iv.lo ELSE g[next(iv)]
    BY <1>1, <1>2
  <2>2. g = [iv \in Interval |-> g[iv]]
    BY DEF g
  <2> QED
    BY <2>1, <2>2, Zenon DEF LoopBody
<1> QED
  BY <1>3

\* Whatever holds of an interval that is empty, and of one as soon as it holds of
\* every interval the loop can narrow it to, holds: here, that the loop ends at
\* a number, and at the parting point of a table in order.
LEMMA LoopEnds ==
    ASSUME NEW t, NEW least, NEW f, f = LoopBody(f, t, least)
    PROVE  \A iv \in Interval : f[iv] \in Int
<1> DEFINE size(iv) == IF iv.lo >= iv.hi THEN 0 ELSE iv.hi - iv.lo
           next(iv) == Narrowed(iv, TickFrom(t, Middle(iv)), least)
           S == {n \in Nat : \E iv \in Interval : size(iv) = n /\ f[iv] \notin Int}
<1> SUFFICES ASSUME NEW bad \in Interval, f[bad] \notin Int PROVE FALSE
  OBVIOUS
<1>1. \A iv \in Interval : size(iv) \in Nat
  BY DEF Interval
<1>2. S # {} /\ S \in SUBSET Nat
  BY <1>1
<1> HIDE DEF S
<1>3. PICK m \in S : \A n \in S : m <= n
  BY <1>2, LeastElement
<1>4. PICK iv \in Interval : size(iv) = m /\ f[iv] \notin Int
  BY <1>3 DEF S
<1>5. f[iv] = IF iv.lo >= iv.hi THEN iv.lo ELSE f[next(iv)]
  BY Zenon DEF LoopBody
<1>6. iv.lo \in Int /\ iv.hi \in Int
  BY DEF Interval
<1>7. ~ (iv.lo >= iv.hi)
  BY <1>4, <1>5, <1>6
<1>8. next(iv) \in Interval /\ next(iv).lo <= next(iv).hi
      /\ next(iv).hi - next(iv).lo < iv.hi - iv.lo
  BY <1>6, <1>7, NarrowedType
<1>9. next(iv).lo \in Int /\ next(iv).hi \in Int
  BY <1>8 DEF Interval
<1> HIDE DEF next
<1>10. size(next(iv)) \in Nat /\ size(next(iv)) < size(iv)
  BY <1>6, <1>7, <1>8, <1>9
<1>11. f[next(iv)] \notin Int
  BY <1>4, <1>5, <1>7
<1>12. size(next(iv)) \in S
  BY <1>8, <1>10, <1>11 DEF S
<1> QED
  BY <1>1, <1>3, <1>4, <1>10, <1>12

LEMMA LoopFinds ==
    ASSUME NEW t, IsTable(t), Ascends(t), NEW least \in Int,
           NEW f, f = LoopBody(f, t, least)
    PROVE  \A iv \in Interval : Brackets(t, iv, least) => Splits(t, f[iv], least)
<1> DEFINE size(iv) == IF iv.lo >= iv.hi THEN 0 ELSE iv.hi - iv.lo
           next(iv) == Narrowed(iv, TickFrom(t, Middle(iv)), least)
           Bad(iv) == Brackets(t, iv, least) /\ ~ Splits(t, f[iv], least)
           S == {n \in Nat : \E iv \in Interval : size(iv) = n /\ Bad(iv)}
<1> SUFFICES ASSUME NEW bad \in Interval, Bad(bad) PROVE FALSE
  OBVIOUS
<1>1. \A iv \in Interval : size(iv) \in Nat
  BY DEF Interval
<1>2. S # {} /\ S \in SUBSET Nat
  BY <1>1
<1> HIDE DEF S
<1>3. PICK m \in S : \A n \in S : m <= n
  BY <1>2, LeastElement
<1>4. PICK iv \in Interval : size(iv) = m /\ Bad(iv)
  BY <1>3 DEF S
<1>5. f[iv] = IF iv.lo >= iv.hi THEN iv.lo ELSE f[next(iv)]
  BY Zenon DEF LoopBody
<1>6. iv.lo \in Int /\ iv.hi \in Int
  BY DEF Interval
<1>7. ~ (iv.lo >= iv.hi)
  <2> SUFFICES ASSUME iv.lo >= iv.hi PROVE FALSE
    OBVIOUS
  <2>1. ~ (iv.lo < iv.hi) /\ f[iv] = iv.lo
    BY <1>5, <1>6
  <2> QED
    BY <1>4, <2>1, BracketsInTheEnd
<1>8. next(iv) \in Interval /\ next(iv).lo <= next(iv).hi
      /\ next(iv).hi - next(iv).lo < iv.hi - iv.lo
  BY <1>6, <1>7, NarrowedType
<1>9. next(iv).lo \in Int /\ next(iv).hi \in Int
  BY <1>8 DEF Interval
<1>10. Brackets(t, next(iv), least)
  BY <1>4, <1>6, <1>7, BracketsNarrow
<1> HIDE DEF next
<1>11. size(next(iv)) \in Nat /\ size(next(iv)) < size(iv)
  BY <1>6, <1>7, <1>8, <1>9
<1>12. Bad(next(iv))
  BY <1>4, <1>5, <1>7, <1>10
<1> HIDE DEF Bad
<1>13. size(next(iv)) \in S
  BY <1>8, <1>11, <1>12 DEF S
<1> QED
  BY <1>1, <1>3, <1>4, <1>11, <1>13

\* The loop ends at a rowid on any table, even one that is not in order,
LEMMA FoundType ==
    ASSUME NEW t, NEW from \in Interval, NEW least
    PROVE  Found(t, from, least) \in Int
<1> DEFINE f == CHOOSE f : f = LoopBody(f, t, least)
<1>1. f = LoopBody(f, t, least)
  BY LoopExists
<1>2. Whole(from) \in Interval
  BY DEF Whole, Interval
<1>3. Found(t, from, least) = f[Whole(from)]
  BY FoundIsLoop
<1> HIDE DEF f
<1> QED
  BY <1>1, <1>2, <1>3, LoopEnds

\* and on one that is, at its parting point.
LEMMA FoundSplits ==
    ASSUME NEW t, IsTable(t), Ascends(t), NEW least \in Int
    PROVE  Splits(t, Found(t, SpanOf(t), least), least)
<1> DEFINE f == CHOOSE f : f = LoopBody(f, t, least)
           from == SpanOf(t)
<1>1. f = LoopBody(f, t, least)
  BY LoopExists
<1>2. Whole(from) \in Interval /\ Brackets(t, Whole(from), least)
  BY BracketsAtFirst
<1>3. Found(t, from, least) = f[Whole(from)]
  BY FoundIsLoop
<1> HIDE DEF f, from
<1>4. Splits(t, f[Whole(from)], least)
  BY <1>1, <1>2, LoopFinds
<1> QED
  BY <1>3, <1>4 DEF from

-----------------------------------------------------------------------------
(* Slices.                                                                 *)

LEMMA TablesAre ==
    /\ IsTable(Loaded) /\ Ascends(Loaded)
    /\ \A t \in {Loaded} \cup Edited : IsTable(t)
    /\ \A b \in Battle : FirstTick[b] \in Int /\ LastTick[b] + 1 \in Int
BY BoundsConstants, TicksAscend DEF Ascends

\* The guard leaves a right end, whichever thread's lower bound it looked at.
LEMMA GuardedOk ==
    ASSUME NEW b \in Battle, NEW l \in Int, NEW u \in Int,
           LoOk(b, l), Splits(Loaded, u, LastTick[b] + 1)
    PROVE  Guarded(l, u - 1) \in Int /\ HiOk(b, Guarded(l, u - 1))
<1>1. \A r \in DOMAIN Loaded : r \in Nat /\ Loaded[r] \in Nat
  BY TablesAre DEF IsTable
<1>2. FirstTick[b] \in Nat /\ LastTick[b] \in Nat
  BY BoundsConstants
<1>3. \A r \in DOMAIN Loaded : /\ Loaded[r] >= FirstTick[b] <=> l <= r
                               /\ Loaded[r] >= LastTick[b] + 1 <=> u <= r
  BY DEF LoOk, Splits
<1>4. CASE u - 1 >= l
  <2>1. Guarded(l, u - 1) = u - 1
    BY <1>4 DEF Guarded
  <2>2. \A r \in DOMAIN Loaded : r <= u - 1 <=> Loaded[r] <= LastTick[b]
    BY <1>1, <1>2, <1>3
  <2> QED
    BY <2>1, <2>2 DEF HiOk
<1>5. CASE ~ (u - 1 >= l)
  <2>1. Guarded(l, u - 1) = l - 1
    BY <1>5 DEF Guarded
  <2>2. \A r \in DOMAIN Loaded :
           l <= r => ~ (r <= l - 1) /\ ~ (Loaded[r] <= LastTick[b])
    BY <1>1, <1>2, <1>3, <1>5
  <2> QED
    BY <1>3, <2>1, <2>2 DEF HiOk
<1> QED
  BY <1>4, <1>5

\* Two right ends are the slice.
LEMMA SliceCovers ==
    ASSUME NEW b \in Battle, NEW slice \in Interval, SliceOk(b, slice)
    PROVE  Covers(slice, Loaded, b)
<1>1. \A r \in DOMAIN Loaded : r \in Nat /\ Loaded[r] \in Nat
  BY TablesAre DEF IsTable
<1>2. \A r \in DOMAIN Loaded : Loaded[r] >= FirstTick[b] <=> slice.lo <= r
  BY DEF SliceOk, LoOk, Splits
<1>3. \A r \in DOMAIN Loaded : Loaded[r] >= FirstTick[b] =>
         (r <= slice.hi <=> Loaded[r] <= LastTick[b])
  BY DEF SliceOk, HiOk
<1>4. FirstTick[b] \in Nat
  BY BoundsConstants
<1>5. \A r \in DOMAIN Loaded :
         slice.lo <= r /\ r <= slice.hi <=> FirstTick[b] <= Loaded[r] /\ Loaded[r] <= LastTick[b]
  BY <1>1, <1>2, <1>3, <1>4
<1> QED
  BY <1>5 DEF Covers

-----------------------------------------------------------------------------
(* Types.                                                                  *)

LEMMA InitInv == BoundsInit => IInv
<1> SUFFICES ASSUME BoundsInit PROVE IInv
  OBVIOUS
<1>1. NoSpan \in Interval /\ [lo |-> 0, hi |-> 0] \in Interval
  BY DEF NoSpan, Interval
<1>2. Idle.at = "idle" /\ pre.at = "booting" /\ pre \in Resting
  BY DEF BoundsInit, Idle, Resting
<1>3. DOMAIN used = {} /\ known = {}
  BY DEF BoundsInit
<1>4. Typed
  BY <1>1, <1>2, <1>3 DEF BoundsInit, Typed, BoundsTypeOK, Ghost
<1>5. TableOk
  BY DEF BoundsInit, TableOk
<1>6. SearchOk /\ StoredOk
  BY <1>2 DEF BoundsInit, SearchOk, StoredOk
<1>7. SlicesOk
  BY <1>3 DEF SlicesOk
<1> QED
  BY <1>4, <1>5, <1>6, <1>7 DEF IInv

LEMMA PlaybackTyped ==
    ASSUME Typed, Playback
    PROVE  Typed'
<1> USE DEF Typed, BoundsTypeOK
<1>0. own.at = "idle" <=> own = Idle
  BY DEF Idle, Resolving
<1>1. ASSUME NEW b \in Battle, NEW build \in BOOLEAN, Resolve(b, build) PROVE Typed'
  <2>1. span' = IF span.lo < 0 THEN SpanOf(table) ELSE span
    BY <1>1 DEF Resolve
  <2>2. span' \in Interval /\ (span' = NoSpan \/ span'.lo >= 0)
    <3>1. SpanOf(table) \in Interval /\ (SpanOf(table) = NoSpan \/ SpanOf(table).lo >= 0)
      BY TablesAre, SpanType
    <3> QED
      BY <2>1, <3>1
  <2>3. Found(table, span', FirstTick[b]) \in Int
    BY <2>2, FoundType
  <2>4. bounds' = [bounds EXCEPT ![b].lo = Found(table, span', FirstTick[b])]
    BY <1>1 DEF Resolve
  <2>5. bounds' \in [Battle -> Interval]
    BY <2>3, <2>4 DEF Interval
  <2>6. own' = [at |-> "hi", battle |-> b, build |-> build]
    BY <1>1 DEF Resolve
  <2>7. own' \in Resolving /\ own'.at = "hi" /\ own'.battle = b
    BY <2>6 DEF Resolving
  <2> QED
    BY <1>1, <2>2, <2>5, <2>7 DEF Resolve
<1>2. CASE ResolveHi
  <2> DEFINE b == own.battle
             f == Found(table, span, LastTick[b] + 1)
  <2>1. own \in Resolving /\ own.at = "hi" /\ b \in Battle
    BY <1>2 DEF ResolveHi, Idle
  <2>2. f \in Int
    BY FoundType
  <2>3. bounds' = [bounds EXCEPT ![b].hi = Guarded(bounds[b].lo, f - 1)]
    BY <1>2 DEF ResolveHi
  <2> HIDE DEF f
  <2>4. Guarded(bounds[b].lo, f - 1) \in Int
    BY <2>1, <2>2 DEF Guarded, Interval
  <2>5. bounds' \in [Battle -> Interval]
    BY <2>1, <2>3, <2>4 DEF Interval
  <2>6. own' \in Resolving /\ own'.at = "known" /\ own'.battle = own.battle
    BY <1>2, <2>1 DEF ResolveHi, Resolving
  <2> QED
    BY <1>2, <2>1, <2>5, <2>6 DEF ResolveHi
<1>3. CASE ResolveKnown
  <2>1. own \in Resolving /\ own.at = "known" /\ own.battle \in Battle
    BY <1>3 DEF ResolveKnown, Idle
  <2>2. \/ own' = Idle
        \/ own' \in Resolving /\ own'.at = "build" /\ own'.battle = own.battle
    BY <1>3, <2>1 DEF ResolveKnown, Resolving
  <2>3. own'.at # "idle" => own'.battle = own.battle
    BY <2>2 DEF Idle
  <2>4. own'.at \in {"idle", "build"}
    BY <2>2 DEF Idle
  <2>5. known' = known \cup {own.battle}
    BY <1>3 DEF ResolveKnown
  <2> QED
    BY <1>3, <2>1, <2>2, <2>3, <2>4, <2>5 DEF ResolveKnown
<1>4. ASSUME NEW b \in Battle, Build(b) PROVE Typed'
  <2>1. b \in known
    BY <1>0, <1>4 DEF Build, Idle
  <2>2. own' = Idle /\ Idle.at = "idle"
    BY <1>4 DEF Build, Idle
  <2>3. \/ used' = used
        \/ used' = [c \in DOMAIN used \cup {b} |-> IF c = b THEN bounds[b] ELSE used[c]]
    BY <1>4 DEF Build
  <2>4. DOMAIN used' \subseteq known /\ \A c \in DOMAIN used' : used'[c] \in Interval
    <3>1. CASE used' = used
      BY <3>1
    <3>2. CASE used' = [c \in DOMAIN used \cup {b} |-> IF c = b THEN bounds[b] ELSE used[c]]
      BY <2>1, <3>2
    <3> QED
      BY <2>3, <3>1, <3>2
  <2>5. exclusive' \in BOOLEAN
    BY <1>4 DEF Build, MaySpill
  <2> QED
    BY <1>4, <2>2, <2>4, <2>5 DEF Build
<1>5. ASSUME NEW b \in Battle, Evict(b) PROVE Typed'
  <2>1. used' = [c \in DOMAIN used \ {b} |-> used[c]]
    BY <1>5 DEF Evict
  <2>2. DOMAIN used' \subseteq known /\ \A c \in DOMAIN used' : used'[c] \in Interval
    BY <2>1
  <2>3. exclusive' \in BOOLEAN
    BY <1>5 DEF Evict, MaySpill
  <2> QED
    BY <1>5, <2>2, <2>3 DEF Evict
<1>6. CASE Edit
  <2>1. exclusive' \in BOOLEAN /\ table' \in Edited
    BY <1>6 DEF Edit, MaySpill
  <2>2. past' \in Ghost
    BY <1>6 DEF Edit, Ghost
  <2> QED
    BY <1>6, <2>1, <2>2 DEF Edit
<1>7. CASE Revert
  <2>1. past' \in Ghost
    BY <1>7 DEF Revert, Ghost
  <2>2. own = Idle /\ Idle.at = "idle"
    BY <1>7 DEF Revert, Idle
  <2>3. DOMAIN used' = {} /\ known' = {}
    BY <1>7 DEF Revert, Forgotten
  <2> QED
    BY <1>7, <2>1, <2>2, <2>3 DEF Revert
<1> QED
  BY <1>1, <1>2, <1>3, <1>4, <1>5, <1>6, <1>7 DEF Playback

\* The page asks for a battle of this replay, or rests.
LEMMA ScheduledType ==
    ASSUME NEW base \in Battle, NEW done
    PROVE  Scheduled(base, done) \in Resting \cup Asked
<1> DEFINE left == Left(base, done)
           pick == CHOOSE b \in left : \A c \in left : Rank(base, b) <= Rank(base, c)
<1>1. CASE left = {}
  BY <1>1 DEF Scheduled, Idle, Resting
<1>2. CASE left # {}
  <2>1. \A b \in left : b \in Battle /\ b # base
    BY DEF Left
  <2>2. \A b \in left : Rank(base, b) \in Nat
    <3>1. \A b, c \in Int : b # c => Rank(c, b) \in Nat
      BY DEF Rank
    <3>2. Battle \subseteq Int
      BY DEF Battle
    <3> QED
      BY <2>1, <3>1, <3>2
  <2> DEFINE S == {Rank(base, b) : b \in left}
  <2>3. S \in SUBSET Nat /\ S # {}
    BY <1>2, <2>2
  <2> HIDE DEF S
  <2>4. PICK m \in S : \A n \in S : m <= n
    BY <2>3, LeastElement
  <2>5. \E b \in left : \A c \in left : Rank(base, b) <= Rank(base, c)
    BY <2>4 DEF S
  <2>6. pick \in left
    BY <2>5
  <2>7. Scheduled(base, done) = [at |-> "asked", battle |-> pick]
    BY <1>2 DEF Scheduled
  <2> HIDE DEF pick
  <2> QED
    BY <2>1, <2>6, <2>7 DEF Asked
<1> QED
  BY <1>1, <1>2

LEMMA PageTyped ==
    ASSUME Typed, PageTurn \/ Resync
    PROVE  Typed'
<1> USE DEF Typed, BoundsTypeOK
<1>1. ASSUME NEW p, p \in Resting \cup Asked
      PROVE  /\ p.at \in {"booting", "idle", "asked", "answered", "threw"}
             /\ p.at \notin {"booting", "idle"} => p.battle \in Battle
  BY <1>1 DEF Resting, Asked
<1>2. ASSUME NEW base \in Battle, OnReady(base) PROVE Typed'
  <2>1. pre' \in Resting \cup Asked
    BY <1>2, ScheduledType DEF OnReady
  <2> QED
    BY <1>1, <1>2, <2>1 DEF OnReady
<1>3. ASSUME NEW base \in Battle, OnPrefetched(base) PROVE Typed'
  <2>1. pre' \in Resting \cup Asked
    BY <1>3, ScheduledType DEF OnPrefetched
  <2>2. prefetched' \subseteq Battle
    BY <1>3 DEF OnPrefetched, AfterPrefetched
  <2> QED
    BY <1>1, <1>3, <2>1, <2>2 DEF OnPrefetched
<1>4. ASSUME NEW base \in Battle, OnError(base) PROVE Typed'
  <2>1. pre' \in Resting \cup Asked
    BY <1>4, ScheduledType DEF OnError
  <2> QED
    BY <1>1, <1>4, <2>1 DEF OnError
<1>5. Resynced \subseteq Battle
  BY DEF Resynced
<1>6. CASE OnPrimed
  BY <1>5, <1>6 DEF OnPrimed
<1>7. ASSUME NEW base \in Battle, Retarget(base) PROVE Typed'
  <2>1. pre' = pre \/ pre' \in Resting \cup Asked
    BY <1>7, ScheduledType DEF Retarget
  <2> QED
    BY <1>1, <1>5, <1>7, <2>1 DEF Retarget
<1> QED
  BY <1>2, <1>3, <1>4, <1>6, <1>7 DEF PageTurn, Resync

\* A probe reads a tick below, or at and above, what is looked for.
LEMMA TickType ==
    ASSUME NEW t, IsTable(t), NEW probe \in Int
    PROVE  TickFrom(t, probe) \in Int
BY ProbeReads DEF IsTable

LEMMA PrefetchTyped ==
    ASSUME Typed, PrefetchTurn \/ Throw
    PROVE  Typed'
<1> USE DEF Typed, BoundsTypeOK
<1>0. /\ pre.at \notin {"booting", "idle"} => pre.battle \in Battle
      /\ pre.at \in {"lower", "upper", "hi", "publish"} => pre \in Searching
  BY DEF Resting, Asked, Searching
<1>1. CASE Begin
  <2>1. Whole(SpanOf(Loaded)) \in Interval /\ pre.battle \in Battle
    BY <1>0, <1>1, TablesAre, BracketsAtFirst DEF Begin
  <2>2. \/ pre' = [pre EXCEPT !.at = "answered"]
        \/ pre' = [at |-> "lower", battle |-> pre.battle, low |-> 0, iv |-> Whole(SpanOf(Loaded))]
    BY <1>1 DEF Begin
  <2>3. pre' \in Asked \cup Searching /\ pre'.at \in {"answered", "lower"} /\ pre'.battle \in Battle
    <3>1. CASE pre' = [pre EXCEPT !.at = "answered"]
      BY <1>1, <2>1, <3>1 DEF Begin, Asked, Searching, Resting
    <3>2. CASE pre' = [at |-> "lower", battle |-> pre.battle, low |-> 0,
                       iv |-> Whole(SpanOf(Loaded))]
      BY <2>1, <3>2 DEF Searching
    <3> QED
      BY <2>2, <3>1, <3>2
  <2> QED
    BY <1>1, <2>3 DEF Begin, PrefetchStep
<1>2. CASE Probe
  <2>1. pre \in Searching /\ pre.iv \in Interval /\ pre.iv.lo < pre.iv.hi
    BY <1>0, <1>2 DEF Probe, Searching
  <2>2. \A tick, least : Narrowed(pre.iv, tick, least) \in Interval
    BY <2>1, NarrowedType
  <2>3. PICK iv \in Interval : pre' = [pre EXCEPT !.iv = iv]
    BY <1>2, <2>2 DEF Probe
  <2>4. pre' \in Searching /\ pre'.at = pre.at /\ pre'.battle = pre.battle
    BY <2>1, <2>3 DEF Searching
  <2>5. past' \in Ghost
    BY <1>2 DEF Probe, Ghost
  <2> QED
    BY <1>0, <1>2, <2>4, <2>5 DEF Probe, PrefetchStep
<1>3. CASE Turn
  <2>1. pre \in Searching /\ pre.iv \in Interval /\ Whole(SpanOf(Loaded)) \in Interval
    BY <1>0, <1>3, TablesAre, BracketsAtFirst DEF Turn, Searching
  <2>2. pre.iv.lo \in Int
    BY <2>1 DEF Interval
  <2>3. pre' \in Searching /\ pre'.at = "upper" /\ pre'.battle = pre.battle
    BY <1>3, <2>1, <2>2 DEF Turn, Searching
  <2> QED
    BY <1>0, <1>3, <2>1, <2>3 DEF Turn, PrefetchStep
<1>4. CASE StoreLo
  <2>1. pre \in Searching /\ pre.low \in Int
    BY <1>0, <1>4 DEF StoreLo, Searching
  <2>2. bounds' \in [Battle -> Interval]
    BY <1>0, <1>4, <2>1 DEF StoreLo, Interval
  <2>3. pre' \in Searching /\ pre'.at = "hi" /\ pre'.battle = pre.battle
    BY <1>4, <2>1 DEF StoreLo, Searching
  <2> QED
    BY <1>0, <1>4, <2>1, <2>2, <2>3 DEF StoreLo, PrefetchStep
<1>5. CASE StoreHi
  <2>1. pre \in Searching /\ pre.low \in Int /\ pre.iv.lo \in Int
    BY <1>0, <1>5 DEF StoreHi, Searching, Interval
  <2>2. Guarded(pre.low, pre.iv.lo - 1) \in Int
    BY <2>1 DEF Guarded
  <2>3. bounds' \in [Battle -> Interval]
    BY <1>0, <1>5, <2>2 DEF StoreHi, Interval
  <2>4. pre' \in Searching /\ pre'.at = "publish" /\ pre'.battle = pre.battle
    BY <1>5, <2>1 DEF StoreHi, Searching
  <2> QED
    BY <1>0, <1>5, <2>3, <2>4 DEF StoreHi, PrefetchStep
<1>6. CASE Publish
  <2>1. pre \in Searching /\ pre.battle \in Battle
    BY <1>0, <1>6 DEF Publish, Searching
  <2>2. pre' \in Asked /\ pre'.at = "answered" /\ pre'.battle = pre.battle
    BY <1>6, <2>1 DEF Publish, Asked
  <2>3. known' = known \cup {pre.battle}
    BY <1>6 DEF Publish
  <2> QED
    BY <1>6, <2>1, <2>2, <2>3 DEF Publish, PrefetchStep
<1>7. CASE Throw
  <2>1. pre' \in Asked /\ pre'.at = "threw" /\ pre'.battle = pre.battle
    BY <1>0, <1>7 DEF Throw, Asked
  <2> QED
    BY <1>0, <1>7, <2>1 DEF Throw, PrefetchStep
<1> QED
  BY <1>1, <1>2, <1>3, <1>4, <1>5, <1>6, <1>7 DEF PrefetchTurn

-----------------------------------------------------------------------------
(* What is stored is right as long as the code's assumptions hold.         *)

Right == TableOk /\ SearchOk /\ StoredOk /\ SlicesOk

\* A store leaves every end that was right, right.
Keeps == \A c \in Battle : /\ LoOk(c, bounds[c].lo) => LoOk(c, bounds'[c].lo)
                           /\ HiOk(c, bounds[c].hi) => HiOk(c, bounds'[c].hi)

LEMMA LoStored ==
    ASSUME Typed, NEW b \in Battle, NEW l, LoOk(b, l),
           bounds' = [bounds EXCEPT ![b].lo = l]
    PROVE  Keeps /\ LoOk(b, bounds'[b].lo)
<1>1. \A c \in Battle : /\ bounds'[c].hi = bounds[c].hi
                        /\ bounds'[c].lo = IF c = b THEN l ELSE bounds[c].lo
  BY DEF Typed, BoundsTypeOK, Interval
<1> QED
  BY <1>1 DEF Keeps

LEMMA HiStored ==
    ASSUME Typed, NEW b \in Battle, NEW h, HiOk(b, h),
           bounds' = [bounds EXCEPT ![b].hi = h]
    PROVE  Keeps /\ HiOk(b, bounds'[b].hi)
<1>1. \A c \in Battle : /\ bounds'[c].lo = bounds[c].lo
                        /\ bounds'[c].hi = IF c = b THEN h ELSE bounds[c].hi
  BY DEF Typed, BoundsTypeOK, Interval
<1> QED
  BY <1>1 DEF Keeps

\* Steps that store nothing of a slice of their own.
LEMMA KeepsWhole ==
    ASSUME Typed, NEW b \in Battle, Keeps, SliceOk(b, bounds[b])
    PROVE  SliceOk(b, bounds'[b])
BY DEF Keeps, SliceOk

LEMMA SpanIsLoaded ==
    ASSUME Typed, span \in {NoSpan, SpanOf(Loaded)}, ~ (span.lo < 0)
    PROVE  span = SpanOf(Loaded)
BY DEF NoSpan

LEMMA PlaybackRight ==
    ASSUME Typed, Right, Playback
    PROVE  Right'
<1> USE DEF Right
<1>0. /\ own.at = "idle" <=> own = Idle
      /\ own.at # "idle" => own.battle \in Battle
      /\ pre.at \notin {"booting", "idle"} => pre.battle \in Battle
      /\ known \subseteq Battle /\ DOMAIN used \subseteq known
  BY DEF Typed, BoundsTypeOK, Idle, Resolving
<1>1. ASSUME NEW b \in Battle, NEW build \in BOOLEAN, Resolve(b, build) PROVE Right'
  <2>1. /\ table' = table /\ past' = past /\ pre' = pre /\ known' = known
        /\ used' = used /\ b \notin known
        /\ own' = [at |-> "hi", battle |-> b, build |-> build]
        /\ span' = IF span.lo < 0 THEN SpanOf(table) ELSE span
        /\ bounds' = [bounds EXCEPT ![b].lo = Found(table, span', FirstTick[b])]
    BY <1>1 DEF Resolve
  <2>2. own'.at = "hi" /\ own'.battle = b
    BY <2>1
  <2>3. TableOk' /\ SearchOk'
    BY <2>1 DEF TableOk, SearchOk
  <2>4. ASSUME AsAssumed'
        PROVE  /\ AsAssumed /\ span' = SpanOf(Loaded)
               /\ Keeps /\ LoOk(b, bounds'[b].lo)
    <3>1. ~ past.edited /\ table = Loaded /\ ~ past.refused /\ ~ past.overtaken
      BY <2>1, <2>4 DEF AsAssumed, TableOk
    <3>2. AsAssumed
      <4>1. CASE span.lo < 0
        <5>1. span = NoSpan
          BY <4>1 DEF Typed, BoundsTypeOK, Interval
        <5> QED
          BY <3>1, <5>1 DEF AsAssumed
      <4>2. CASE ~ (span.lo < 0)
        BY <2>1, <2>4, <3>1, <4>2 DEF AsAssumed
      <4> QED
        BY <4>1, <4>2
    <3>3. span' = SpanOf(Loaded)
      BY <2>1, <3>1, <3>2, SpanIsLoaded DEF AsAssumed
    <3>4. LoOk(b, Found(table, span', FirstTick[b]))
      BY <3>1, <3>3, TablesAre, FoundSplits DEF LoOk
    <3> QED
      BY <2>1, <3>2, <3>3, <3>4, LoStored
  <2>5. StoredOk'
    BY <1>0, <2>1, <2>2, <2>4 DEF StoredOk, Keeps
  <2>6. SlicesOk'
    BY <1>0, <2>1, <2>4, KeepsWhole DEF SlicesOk
  <2> QED
    BY <2>3, <2>5, <2>6
<1>2. CASE ResolveHi
  <2> DEFINE b == own.battle
             u == Found(table, span, LastTick[b] + 1)
             h == Guarded(bounds[b].lo, u - 1)
  <2>1. /\ own.at = "hi" /\ b \in Battle
        /\ table' = table /\ past' = past /\ pre' = pre /\ known' = known
        /\ used' = used /\ span' = span
        /\ bounds' = [bounds EXCEPT ![b].hi = h]
    BY <1>0, <1>2 DEF ResolveHi
  <2>2. own' = [own EXCEPT !.at = "known"] /\ own \in Resolving
    BY <1>2, <2>1 DEF ResolveHi, Typed, Idle
  <2>3. own'.at = "known" /\ own'.battle = b
    BY <2>2 DEF Resolving
  <2>4. TableOk' /\ SearchOk' /\ (AsAssumed' <=> AsAssumed)
    BY <2>1 DEF TableOk, SearchOk, AsAssumed
  <2>5. ASSUME AsAssumed PROVE Keeps /\ HiOk(b, bounds'[b].hi)
    <3>1. table = Loaded /\ span = SpanOf(Loaded) /\ LoOk(b, bounds[b].lo)
      BY <2>1, <2>5 DEF AsAssumed, TableOk, StoredOk
    <3>2. LastTick[b] + 1 \in Int /\ bounds[b].lo \in Int /\ span \in Interval
      BY <2>1, TablesAre DEF Typed, BoundsTypeOK, Interval
    <3>3. u \in Int /\ Splits(Loaded, u, LastTick[b] + 1)
      BY <3>1, <3>2, TablesAre, FoundType, FoundSplits
    <3> HIDE DEF u
    <3>4. HiOk(b, h)
      BY <2>1, <3>1, <3>2, <3>3, GuardedOk
    <3> HIDE DEF h
    <3> QED
      BY <2>1, <3>4, HiStored
  <2> HIDE DEF h
  <2>6. StoredOk'
    BY <1>0, <2>1, <2>3, <2>4, <2>5 DEF StoredOk, Keeps
  <2>7. SlicesOk'
    BY <1>0, <2>1, <2>4, <2>5, KeepsWhole DEF SlicesOk
  <2> QED
    BY <2>4, <2>6, <2>7
<1>3. CASE ResolveKnown
  <2>1. /\ own.at = "known" /\ own.battle \in Battle
        /\ table' = table /\ past' = past /\ pre' = pre /\ bounds' = bounds
        /\ used' = used /\ span' = span /\ known' = known \cup {own.battle}
    BY <1>0, <1>3 DEF ResolveKnown
  <2>2. own'.at \notin {"hi", "known"}
    BY <1>3, <2>1 DEF ResolveKnown, Typed, Idle, Resolving
  <2>3. TableOk' /\ SearchOk' /\ (AsAssumed' <=> AsAssumed)
    BY <2>1 DEF TableOk, SearchOk, AsAssumed
  <2>4. StoredOk'
    BY <2>1, <2>2, <2>3 DEF StoredOk
  <2>5. AsAssumed => SliceOk(own.battle, bounds[own.battle])
    BY <2>1 DEF StoredOk, SliceOk
  <2>6. SlicesOk'
    BY <2>1, <2>3, <2>5 DEF SlicesOk
  <2> QED
    BY <2>3, <2>4, <2>6
<1>4. ASSUME NEW b \in Battle, Build(b) PROVE Right'
  <2>1. /\ b \in known
        /\ table' = table /\ past' = past /\ pre' = pre /\ bounds' = bounds
        /\ span' = span /\ known' = known /\ own' = Idle
        /\ \/ used' = used
           \/ used' = [c \in DOMAIN used \cup {b} |-> IF c = b THEN bounds[b] ELSE used[c]]
    BY <1>0, <1>4 DEF Build, Typed, Idle
  <2>2. own'.at \notin {"hi", "known"}
    BY <2>1 DEF Idle
  <2>3. TableOk' /\ SearchOk' /\ (AsAssumed' <=> AsAssumed)
    BY <2>1 DEF TableOk, SearchOk, AsAssumed
  <2>4. StoredOk'
    BY <2>1, <2>2, <2>3 DEF StoredOk
  <2>5. SlicesOk'
    BY <2>1, <2>3 DEF SlicesOk
  <2> QED
    BY <2>3, <2>4, <2>5
<1>5. ASSUME NEW b \in Battle, Evict(b) PROVE Right'
  <2>1. /\ table' = table /\ past' = past /\ pre' = pre /\ bounds' = bounds
        /\ span' = span /\ known' = known /\ own' = own
        /\ used' = [c \in DOMAIN used \ {b} |-> used[c]]
    BY <1>5 DEF Evict
  <2>2. TableOk' /\ SearchOk' /\ StoredOk' /\ (AsAssumed' <=> AsAssumed)
    BY <2>1 DEF TableOk, SearchOk, StoredOk, AsAssumed
  <2>3. SlicesOk'
    BY <2>1, <2>2 DEF SlicesOk
  <2> QED
    BY <2>2, <2>3
<1>6. CASE Edit
  <2>1. past'.edited /\ past'.refused = past.refused /\ pre' = pre
    BY <1>6 DEF Edit, Typed, Ghost
  <2> QED
    BY <2>1 DEF TableOk, SearchOk, StoredOk, SlicesOk, AsAssumed
<1>7. CASE Revert
  <2>1. /\ table' = Loaded /\ pre' = pre /\ bounds' = bounds /\ own' = own /\ own = Idle
        /\ known' = {} /\ DOMAIN used' = {} /\ past'.refused = past.refused
        /\ past'.overtaken = (past.overtaken \/ pre.at \in {"hi", "publish"})
    BY <1>7 DEF Revert, Typed, Ghost, Forgotten
  <2>2. own'.at \notin {"hi", "known"}
    BY <2>1 DEF Idle
  <2>3. TableOk' /\ SearchOk'
    BY <2>1 DEF TableOk, SearchOk
  <2>4. StoredOk'
    BY <2>1, <2>2 DEF StoredOk, AsAssumed
  <2>5. SlicesOk'
    BY <2>1 DEF SlicesOk
  <2> QED
    BY <2>3, <2>4, <2>5
<1> QED
  BY <1>1, <1>2, <1>3, <1>4, <1>5, <1>6, <1>7 DEF Playback

\* The page only says which battle is next.
LEMMA PageRight ==
    ASSUME Typed, Right, PageTurn \/ Resync
    PROVE  Right'
<1> USE DEF Right
<1>1. /\ table' = table /\ past' = past /\ bounds' = bounds /\ own' = own
      /\ span' = span /\ known' = known /\ used' = used
  BY DEF PageTurn, OnReady, OnPrefetched, OnError, Resync, Retarget, OnPrimed
<1>2. pre' = pre \/ pre' \in Resting \cup Asked
  BY ScheduledType DEF PageTurn, OnReady, OnPrefetched, OnError, Resync, Retarget, OnPrimed
<1>3. pre' = pre \/ pre'.at \notin {"lower", "upper", "hi", "publish"}
  BY <1>2 DEF Resting, Asked
<1>4. TableOk' /\ SearchOk' /\ (AsAssumed' <=> AsAssumed)
  BY <1>1, <1>3 DEF TableOk, SearchOk, AsAssumed
<1>5. StoredOk' /\ SlicesOk'
  BY <1>1, <1>3, <1>4 DEF StoredOk, SlicesOk
<1> QED
  BY <1>4, <1>5

LEMMA PrefetchRight ==
    ASSUME Typed, Right, PrefetchTurn \/ Throw
    PROVE  Right'
<1> USE DEF Right
<1> DEFINE b == pre.battle
<1>0. /\ own.at # "idle" => own.battle \in Battle
      /\ pre.at \notin {"booting", "idle"} => b \in Battle
      /\ pre.at \in {"lower", "upper", "hi", "publish"} => pre \in Searching
      /\ known \subseteq Battle /\ DOMAIN used \subseteq known
  BY DEF Typed, BoundsTypeOK, Resting, Asked, Searching
<1>a. /\ table' = table /\ own' = own /\ span' = span /\ used' = used
      /\ past'.edited = past.edited /\ past'.overtaken = past.overtaken
      /\ past.refused => past'.refused
  BY DEF PrefetchTurn, Begin, Probe, Turn, StoreLo, StoreHi, Publish, Throw, PrefetchStep,
         Typed, Ghost
<1>b. TableOk' /\ (AsAssumed' => AsAssumed)
  BY <1>a DEF TableOk, AsAssumed
<1>1. CASE Begin \/ Throw
  <2>1. past' = past /\ bounds' = bounds /\ known' = known
    BY <1>1 DEF Begin, Throw
  <2>2. \/ pre'.at \notin {"lower", "upper", "hi", "publish"}
        \/ /\ pre' = [at |-> "lower", battle |-> b, low |-> 0, iv |-> Whole(SpanOf(Loaded))]
           /\ b \in Battle
    BY <1>0, <1>1 DEF Begin, Throw, Typed, Asked, Searching, Resting
  <2>3. ASSUME pre' = [at |-> "lower", battle |-> b, low |-> 0, iv |-> Whole(SpanOf(Loaded))],
               b \in Battle
        PROVE  /\ pre'.at = "lower"
               /\ Brackets(Loaded, pre'.iv, FirstTick[pre'.battle])
    BY <2>3, TablesAre, BracketsAtFirst
  <2>4. SearchOk'
    BY <2>2, <2>3 DEF SearchOk
  <2>5. pre'.at \notin {"hi", "publish"}
    BY <2>2
  <2>6. StoredOk' /\ SlicesOk'
    BY <1>a, <1>b, <2>1, <2>5 DEF StoredOk, SlicesOk
  <2> QED
    BY <1>b, <2>4, <2>6
<1>2. CASE Probe
  <2> DEFINE least == IF pre.at = "lower" THEN FirstTick[b] ELSE LastTick[b] + 1
             tick  == IF exclusive THEN -1 ELSE TickFrom(Loaded, Middle(pre.iv))
  <2>1. /\ pre.at \in {"lower", "upper"} /\ pre.iv.lo < pre.iv.hi
        /\ bounds' = bounds /\ known' = known
        /\ pre' = [pre EXCEPT !.iv = Narrowed(pre.iv, tick, least)]
    BY <1>2 DEF Probe
  <2>2. pre \in Searching /\ pre.iv \in Interval /\ b \in Battle /\ pre.low \in Int
    BY <1>0, <2>1 DEF Searching
  <2>3. /\ pre'.at = pre.at /\ pre'.battle = b /\ pre'.low = pre.low
        /\ pre'.iv = Narrowed(pre.iv, tick, least)
    BY <2>1, <2>2 DEF Searching
  <2>4. ASSUME ~ past'.refused
        PROVE  /\ ~ past.refused /\ tick = TickFrom(Loaded, Middle(pre.iv))
    BY <1>2, <1>a, <2>4 DEF Probe, Typed, BoundsTypeOK, Ghost
  <2>5. ASSUME ~ past'.refused PROVE Brackets(Loaded, pre'.iv, least)
    <3>1. Brackets(Loaded, pre.iv, least)
      BY <2>1, <2>4, <2>5 DEF SearchOk
    <3>2. least \in Int
      BY <2>2, TablesAre
    <3> HIDE DEF least
    <3>3. Brackets(Loaded, Narrowed(pre.iv, TickFrom(Loaded, Middle(pre.iv)), least), least)
      BY <2>1, <2>2, <3>1, <3>2, TablesAre, BracketsNarrow
    <3> QED
      BY <2>3, <2>4, <2>5, <3>3
  <2> HIDE DEF tick
  <2>6. SearchOk'
    BY <2>1, <2>3, <2>4, <2>5 DEF SearchOk
  <2>7. StoredOk' /\ SlicesOk'
    BY <1>a, <1>b, <2>1, <2>3 DEF StoredOk, SlicesOk
  <2> QED
    BY <1>b, <2>6, <2>7
<1>3. CASE Turn
  <2>1. /\ pre.at = "lower" /\ pre.iv.lo >= pre.iv.hi
        /\ bounds' = bounds /\ known' = known /\ past' = past
        /\ pre' = [pre EXCEPT !.at = "upper", !.low = pre.iv.lo, !.iv = Whole(SpanOf(Loaded))]
    BY <1>3 DEF Turn
  <2>2. pre \in Searching /\ pre.iv \in Interval /\ b \in Battle
    BY <1>0, <2>1 DEF Searching
  <2>3. /\ pre'.at = "upper" /\ pre'.battle = b /\ pre'.low = pre.iv.lo
        /\ pre'.iv = Whole(SpanOf(Loaded))
    BY <2>1, <2>2 DEF Searching
  <2>4. Brackets(Loaded, pre'.iv, LastTick[b] + 1)
    BY <2>2, <2>3, TablesAre, BracketsAtFirst
  <2>5. ~ past.refused => LoOk(b, pre.iv.lo)
    <3>1. ~ (pre.iv.lo < pre.iv.hi)
      BY <2>1, <2>2 DEF Interval
    <3> QED
      BY <2>1, <2>2, <3>1, TablesAre, BracketsInTheEnd DEF SearchOk, LoOk
  <2>6. SearchOk'
    BY <2>1, <2>3, <2>4, <2>5 DEF SearchOk
  <2>7. StoredOk' /\ SlicesOk'
    BY <1>a, <1>b, <2>1, <2>3 DEF StoredOk, SlicesOk
  <2> QED
    BY <1>b, <2>6, <2>7
<1>4. CASE StoreLo
  <2>1. /\ pre.at = "upper" /\ pre.iv.lo >= pre.iv.hi
        /\ known' = known /\ past' = past
        /\ pre' = [pre EXCEPT !.at = "hi"]
        /\ bounds' = [bounds EXCEPT ![b].lo = pre.low]
    BY <1>4 DEF StoreLo
  <2>2. pre \in Searching /\ pre.iv \in Interval /\ b \in Battle
    BY <1>0, <2>1 DEF Searching
  <2>3. /\ pre'.at = "hi" /\ pre'.battle = b /\ pre'.low = pre.low /\ pre'.iv = pre.iv
    BY <2>1, <2>2 DEF Searching
  <2>4. ~ past.refused => LoOk(b, pre.low) /\ Splits(Loaded, pre.iv.lo, LastTick[b] + 1)
    <3>1. ~ (pre.iv.lo < pre.iv.hi)
      BY <2>1, <2>2 DEF Interval
    <3> QED
      BY <2>1, <2>2, <3>1, TablesAre, BracketsInTheEnd DEF SearchOk
  <2>5. SearchOk'
    BY <2>1, <2>3, <2>4 DEF SearchOk
  <2>6. AsAssumed => Keeps /\ LoOk(b, bounds'[b].lo)
    BY <2>1, <2>2, <2>4, LoStored DEF AsAssumed
  <2>7. StoredOk'
    BY <1>0, <1>a, <1>b, <2>3, <2>6 DEF StoredOk, Keeps
  <2>8. SlicesOk'
    BY <1>0, <1>a, <1>b, <2>1, <2>6, KeepsWhole DEF SlicesOk
  <2> QED
    BY <1>b, <2>5, <2>7, <2>8
<1>5. CASE StoreHi
  <2> DEFINE h == Guarded(pre.low, pre.iv.lo - 1)
  <2>1. /\ pre.at = "hi" /\ known' = known /\ past' = past
        /\ pre' = [pre EXCEPT !.at = "publish"]
        /\ bounds' = [bounds EXCEPT ![b].hi = h]
    BY <1>5 DEF StoreHi
  <2>2. /\ pre \in Searching /\ b \in Battle /\ pre.low \in Int /\ pre.iv.lo \in Int
    BY <1>0, <2>1 DEF Searching, Interval
  <2>3. /\ pre'.at = "publish" /\ pre'.battle = b /\ pre'.low = pre.low /\ pre'.iv = pre.iv
    BY <2>1, <2>2 DEF Searching
  <2>4. SearchOk'
    BY <2>1, <2>3 DEF SearchOk
  <2>5. AsAssumed => HiOk(b, h)
    BY <2>1, <2>2, GuardedOk DEF AsAssumed, SearchOk
  <2> HIDE DEF h
  <2>6. AsAssumed => Keeps /\ HiOk(b, bounds'[b].hi)
    BY <2>1, <2>2, <2>5, HiStored
  <2>7. StoredOk'
    BY <1>0, <1>a, <1>b, <2>1, <2>2, <2>3, <2>6 DEF StoredOk, Keeps
  <2>8. SlicesOk'
    BY <1>0, <1>a, <1>b, <2>1, <2>6, KeepsWhole DEF SlicesOk
  <2> QED
    BY <1>b, <2>4, <2>7, <2>8
<1>6. CASE Publish
  <2>1. /\ pre.at = "publish" /\ known' = known \cup {b} /\ past' = past
        /\ bounds' = bounds /\ pre' = [at |-> "answered", battle |-> b]
    BY <1>6 DEF Publish
  <2>2. pre'.at = "answered" /\ b \in Battle
    BY <1>0, <2>1 DEF Searching
  <2>3. SearchOk' /\ StoredOk'
    BY <1>a, <1>b, <2>1, <2>2 DEF SearchOk, StoredOk
  <2>4. AsAssumed => SliceOk(b, bounds[b])
    BY <2>1 DEF StoredOk, SliceOk
  <2>5. SlicesOk'
    BY <1>a, <1>b, <2>1, <2>4 DEF SlicesOk
  <2> QED
    BY <1>b, <2>3, <2>5
<1> QED
  BY <1>1, <1>2, <1>3, <1>4, <1>5, <1>6 DEF PrefetchTurn

LEMMA NextInv == IInv /\ [BoundsNext]_boundsVars => IInv'
<1> SUFFICES ASSUME IInv, [BoundsNext]_boundsVars PROVE IInv'
  OBVIOUS
<1>1. Typed /\ Right
  BY DEF IInv, Right
<1>2. CASE UNCHANGED boundsVars
  BY <1>1, <1>2 DEF boundsVars, IInv, Typed, BoundsTypeOK, Right, TableOk, SearchOk, StoredOk, SlicesOk,
                    AsAssumed
<1>3. CASE BoundsNext
  <2>1. Typed'
    BY <1>1, <1>3, PlaybackTyped, PageTyped, PrefetchTyped DEF BoundsNext
  <2>2. Right'
    BY <1>1, <1>3, PlaybackRight, PageRight, PrefetchRight DEF BoundsNext
  <2> QED
    BY <2>1, <2>2 DEF IInv, Right
<1> QED
  BY <1>2, <1>3

-----------------------------------------------------------------------------
\* The loop of lower_bound_rowid_on and upper_bound_rowid_on ends at the rowid
\* that parts the table, whatever gaps there are between rowids, and the slice
\* made of two such rowids holds exactly the battle's rows.
THEOREM BisectionIsRight ==
    ASSUME NEW b \in Battle
    PROVE  LET lo == Found(Loaded, SpanOf(Loaded), FirstTick[b])
               hi == Found(Loaded, SpanOf(Loaded), LastTick[b] + 1) - 1
           IN  Covers([lo |-> lo, hi |-> Guarded(lo, hi)], Loaded, b)
<1> DEFINE lo == Found(Loaded, SpanOf(Loaded), FirstTick[b])
           u  == Found(Loaded, SpanOf(Loaded), LastTick[b] + 1)
           slice == [lo |-> lo, hi |-> Guarded(lo, u - 1)]
<1>1. /\ lo \in Int /\ u \in Int
      /\ LoOk(b, lo) /\ Splits(Loaded, u, LastTick[b] + 1)
  BY TablesAre, SpanType, FoundType, FoundSplits DEF LoOk
<1> HIDE DEF lo, u
<1>2. Guarded(lo, u - 1) \in Int /\ HiOk(b, Guarded(lo, u - 1))
  BY <1>1, GuardedOk
<1>3. slice \in Interval /\ slice.lo = lo /\ slice.hi = Guarded(lo, u - 1)
  BY <1>1, <1>2 DEF Interval
<1> HIDE DEF slice
<1>4. SliceOk(b, slice)
  BY <1>1, <1>2, <1>3 DEF SliceOk
<1>5. Covers(slice, Loaded, b)
  BY <1>3, <1>4, SliceCovers
<1> QED
  BY <1>5 DEF slice, lo, u

\* A slice that is known, and the slice in a ready battle's statement, hold
\* exactly that battle's rows, whichever thread found it and however the stores
\* of both fell between each other, as long as the code's assumptions hold
\* (ensure_bounds_known, replay_prefetch_battle).
THEOREM SlicesAlwaysSound == BoundsSpec => []SlicesAreSound
<1>1. IInv => SlicesAreSound
  <2> SUFFICES ASSUME IInv, AsAssumed PROVE BoundsAreCurrent
    BY DEF IInv, Typed, SlicesAreSound, BoundsAreCurrent
  <2>1. /\ \A b \in known : SliceOk(b, bounds[b]) /\ b \in Battle /\ bounds[b] \in Interval
        /\ \A b \in DOMAIN used : SliceOk(b, used[b]) /\ b \in Battle /\ used[b] \in Interval
    BY DEF IInv, SlicesOk, Typed, BoundsTypeOK
  <2> QED
    BY <2>1, SliceCovers DEF BoundsAreCurrent
<1> QED
  BY <1>1, InitInv, NextInv, PTL DEF BoundsSpec
-----------------------------------------------------------------------------
(* Picking the elements of a sequence at some positions.                   *)

\* The positions can be put in order.
LEMMA AscendingExists ==
    ASSUME NEW n \in Nat, NEW J \in SUBSET (1 .. n)
    PROVE  /\ IsFiniteSet(J) /\ Cardinality(J) \in Nat
           /\ \E h \in [1 .. Cardinality(J) -> J] : \A i, j \in DOMAIN h : i < j => h[i] < h[j]
<1> DEFINE Ordered(K) == \E h \in [1 .. Cardinality(K) -> K] :
                             \A i, j \in DOMAIN h : i < j => h[i] < h[j]
           Unordered == {m \in Nat : \E K \in SUBSET (1 .. m) : ~ Ordered(K)}
<1>1. ASSUME NEW m \in Nat, NEW K \in SUBSET (1 .. m)
      PROVE  IsFiniteSet(K) /\ Cardinality(K) \in Nat
  <2>1. IsFiniteSet(1 .. m)
    BY FS_Interval
  <2> QED
    BY <2>1, FS_Subset, FS_CardinalityType
<1>2. SUFFICES Unordered = {}
  BY <1>1
<1> SUFFICES ASSUME Unordered # {} PROVE FALSE
  OBVIOUS
<1>3. PICK m \in Unordered : \A k \in Unordered : m <= k
  BY LeastElement
<1>4. PICK K \in SUBSET (1 .. m) : ~ Ordered(K)
  OBVIOUS
<1>5. m \in Nat /\ (m # 0 => m - 1 \notin Unordered)
  <2>1. m \in Nat
    OBVIOUS
  <2>2. ASSUME m - 1 \in Unordered PROVE FALSE
    <3>1. m <= m - 1
      BY <1>3, <2>2
    <3> QED BY <2>1, <3>1
  <2> QED BY <2>1, <2>2
<1>6. ASSUME NEW k \in Nat, NEW L \in SUBSET (1 .. k), k \notin Unordered PROVE Ordered(L)
  BY <1>6
<1> HIDE DEF Unordered, Ordered
<1>7. CASE m \notin K
  <2>1. m # 0
    <3> SUFFICES ASSUME m = 0 PROVE FALSE
      OBVIOUS
    <3>1. K = {}
      OBVIOUS
    <3>2. Cardinality(K) = 0
      BY <3>1, FS_EmptySet
    <3>3. [i \in 1 .. 0 |-> 0] \in [1 .. Cardinality(K) -> K]
      BY <3>2
    <3>4. Ordered(K)
      <4>1. \A i, j \in DOMAIN [i \in 1 .. 0 |-> 0] : FALSE
        OBVIOUS
      <4> QED BY <3>3, <4>1 DEF Ordered
    <3> QED
      BY <1>4, <3>4
  <2>2. m - 1 \in Nat /\ K \in SUBSET (1 .. (m - 1))
    BY <1>5, <1>7, <2>1
  <2> QED
    BY <1>4, <1>5, <1>6, <2>1, <2>2
<1>8. CASE m \in K
  <2> DEFINE L == K \ {m}
             c == Cardinality(L)
  <2>1. m \in Nat \ {0} /\ L \in SUBSET (1 .. (m - 1)) /\ m - 1 \in Nat
    BY <1>5, <1>8
  <2>2. Ordered(L)
    BY <1>5, <1>6, <2>1
  <2>3. PICK h \in [1 .. c -> L] : \A i, j \in DOMAIN h : i < j => h[i] < h[j]
    BY <2>2 DEF Ordered
  <2>4. c \in Nat /\ Cardinality(K) = c + 1
    <3>1. IsFiniteSet(K) /\ Cardinality(K) \in Nat /\ c \in Nat
      BY <1>1, <1>5, <2>1
    <3>2. c = Cardinality(K) - 1
      BY <1>8, <3>1, FS_RemoveElement
    <3> QED BY <3>1, <3>2
  <2> DEFINE g == [i \in 1 .. c + 1 |-> IF i = c + 1 THEN m ELSE h[i]]
  <2> HIDE DEF c
  <2>5. g \in [1 .. Cardinality(K) -> K]
    BY <1>8, <2>3, <2>4
  <2>6. ASSUME NEW i \in DOMAIN g, NEW j \in DOMAIN g, i < j PROVE g[i] < g[j]
    <3>1. i \in 1 .. c /\ g[i] = h[i] /\ h[i] \in L
      BY <2>3, <2>4, <2>6
    <3>2. CASE j = c + 1
      <4>1. g[j] = m /\ h[i] \in 1 .. (m - 1)
        BY <2>1, <2>4, <3>1, <3>2
      <4> QED BY <2>1, <3>1, <4>1
    <3>3. CASE j # c + 1
      <4>1. j \in 1 .. c /\ g[j] = h[j]
        BY <2>4, <3>3
      <4> QED BY <2>3, <2>6, <3>1, <4>1
    <3> QED BY <3>2, <3>3
  <2>7. Ordered(K)
    <3> HIDE DEF g
    <3> QED BY <2>5, <2>6 DEF Ordered
  <2> QED
    BY <1>4, <2>7
<1> QED
  BY <1>7, <1>8

\* Ascending goes through all of J, once.
LEMMA AscendingIs ==
    ASSUME NEW n \in Nat, NEW J \in SUBSET (1 .. n)
    PROVE  /\ Cardinality(J) \in Nat
           /\ Ascending(J) \in [1 .. Cardinality(J) -> J]
           /\ \A i, j \in 1 .. Cardinality(J) : Ascending(J)[i] = Ascending(J)[j] => i = j
           /\ \A j \in J : \E i \in 1 .. Cardinality(J) : Ascending(J)[i] = j
<1> DEFINE c == Cardinality(J)
           h == Ascending(J)
<1>1. IsFiniteSet(J) /\ c \in Nat
  BY AscendingExists
<1>2. h \in [1 .. c -> J] /\ \A i, j \in DOMAIN h : i < j => h[i] < h[j]
  BY AscendingExists DEF Ascending
<1> HIDE DEF c, h
<1>3. ASSUME NEW i \in 1 .. c, NEW j \in 1 .. c, h[i] = h[j] PROVE i = j
  <2>1. h[i] \in Nat /\ i \in DOMAIN h /\ j \in DOMAIN h
    <3>1. h[i] \in J /\ J \subseteq Nat
      BY <1>2
    <3> QED BY <1>2, <3>1
  <2> QED
    BY <1>1, <1>2, <1>3, <2>1
<1>4. h \in Injection(1 .. c, J)
  BY <1>2, <1>3 DEF Injection, IsInjective
<1>5. Cardinality(1 .. c) = Cardinality(J)
  BY <1>1, FS_Interval DEF c
<1>6. h \in Surjection(1 .. c, J)
  BY <1>1, <1>4, <1>5, FS_Injection
<1>7. \A j \in J : \E i \in 1 .. c : h[i] = j
  BY <1>6 DEF Surjection
<1> QED
  BY <1>1, <1>2, <1>3, <1>7 DEF c, h

\* What is picked is a sequence of elements of l, each of another position, and
\* all those at the positions J.
LEMMA PickedIs ==
    ASSUME NEW S, NEW l \in Seq(S), NEW J \in SUBSET DOMAIN l
    PROVE  /\ Picked(l, J) \in Seq(S) /\ Cardinality(J) \in Nat
           /\ Len(Picked(l, J)) = Cardinality(J) /\ DOMAIN Picked(l, J) = 1 .. Cardinality(J)
           /\ \A i \in DOMAIN Picked(l, J) : Ascending(J)[i] \in J
                                             /\ Picked(l, J)[i] = l[Ascending(J)[i]]
           /\ \A i, j \in DOMAIN Picked(l, J) : Ascending(J)[i] = Ascending(J)[j] => i = j
           /\ \A j \in J : \E i \in DOMAIN Picked(l, J) : Picked(l, J)[i] = l[j]
<1>1. Len(l) \in Nat /\ DOMAIN l = 1 .. Len(l)
  BY LenProperties
<1> DEFINE c == Cardinality(J)
           h == Ascending(J)
<1>2. /\ c \in Nat /\ h \in [1 .. c -> J]
      /\ \A i, j \in 1 .. c : h[i] = h[j] => i = j
      /\ \A j \in J : \E i \in 1 .. c : h[i] = j
  BY <1>1, AscendingIs
<1>3. Picked(l, J) = [i \in 1 .. c |-> l[h[i]]]
  BY DEF Picked
<1> HIDE DEF c, h
<1>4. \A i \in 1 .. c : l[h[i]] \in S
  BY <1>1, <1>2, ElementOfSeq
<1>5. [i \in 1 .. c |-> l[h[i]]] \in Seq(S) /\ Len([i \in 1 .. c |-> l[h[i]]]) = c
  BY <1>2, <1>4
<1> QED
  BY <1>2, <1>3, <1>5 DEF c, h

\* What a slot shows, a frame of such slots, and the queries of a file.
SlotRows  == [rows : SUBSET Texts, ring : BOOLEAN]
Drawable  == {s \in Seq(SlotRows) : Len(s) <= EngineMax}
Bundles   == Seq([kind : Kinds, on : BOOLEAN, text : Texts])
\* The messages to the engine and to the page.
Bare(ops) == [op : ops]
ToEngineMsg == Bare({"defaults", "revert"}) \cup [op : {"config"}, queries : Seq(Query)]
               \cup [op : {"frame"}, battle : BOOLEAN]
ToPageMsg == Bare({"defaults", "reverted"}) \cup [op : {"configured"}, errors : SUBSET Nat]
             \cup [op : {"frame"}, battle : BOOLEAN, slots : Drawable]

\* The types of all variables.
QueryTyped ==
    /\ QueriesTypeOK
    /\ latest \in Drawable /\ screen \in Seq(SlotRows) /\ file \subseteq Bundles
    /\ crossed \in BOOLEAN /\ clicks \in Nat
    /\ toEngine \in Seq(ToEngineMsg) /\ fromEngine \in Seq(ToPageMsg)

\* A frame of a battle: the engine has attached b.
BattleFrame(m) == m.op = "frame" /\ m.battle

\* Of the messages s, reading the first k leaves the page with the wish to push
\* again (r is what it has now): it reads of a revert, or wants to already, and of
\* no battle since.
StaleAt(s, r, k) ==
    \/ r /\ \A n \in 1 .. k : ~ BattleFrame(s[n])
    \/ \E j \in 1 .. k : s[j].op = "reverted" /\ \A n \in j + 1 .. k : ~ BattleFrame(s[n])

\* No message of s has op o; the last one that has is at k.
NoMore(s, o) == \A n \in DOMAIN s : s[n].op # o
LastOf(s, o, k) ==
    k \in DOMAIN s /\ s[k].op = o /\ \A n \in DOMAIN s : n > k => s[n].op # o

\* The page has the defaults and no edit waits for its push.
SettledPage == ~ UnderWay({"defaults"}) /\ timer = {}

\* The slots of queries SQLite cannot prepare.
Bad == {i \in DOMAIN Dots(list) : i <= EngineMax /\ ~ Dots(list)[i].text.good}

\* The ids the page maps errors with are those of the list as it is: edits change
\* texts without a push, but neither the order nor the kinds.
PushedOk == pushed = IdsOf(Dots(list))
\* A query that is not of kind dots has no error.
OthersOk == \A i \in DOMAIN list : list[i].kind # "dots" => card[list[i].id] # "error"
\* An engine without b: the page knows, or will.
SchemaOk == ~ attached => StaleAt(fromEngine, revalidate, Len(fromEngine))
\* The last queries on their way are the list, unless a push is due;
ConfigOk == SettledPage => \A k \in DOMAIN toEngine :
                LastOf(toEngine, "config", k) => toEngine[k].queries = Dots(list)
\* without any on their way, the engine has it;
EngineOk == SettledPage /\ NoMore(toEngine, "config") => engine = Wanted
\* and the last reply says of each bad query that it is, and of a good one at most
\* when b was missing, which the page will notice first;
ReplyOk  == SettledPage /\ NoMore(toEngine, "config") =>
                \A k \in DOMAIN fromEngine : LastOf(fromEngine, "configured", k) =>
                    /\ Bad \subseteq fromEngine[k].errors
                    /\ fromEngine[k].errors \subseteq Bad \/ StaleAt(fromEngine, revalidate, k - 1)
\* once it is read, the cards say so,
ShownOk  == SettledPage /\ NoMore(toEngine, "config") /\ NoMore(fromEngine, "configured") =>
                \A i \in Bad : card[Dots(list)[i].id] = "error"
\* and of a good query at most when errors crossed a push, or the page is to push
\* again.
TrueOk   == SettledPage /\ ~ crossed /\ ~ revalidate =>
                \A i \in DOMAIN Dots(list) : card[Dots(list)[i].id] = "error" =>
                    ~ Dots(list)[i].text.good

\* The inductive invariant.
QueryInv == /\ QueryTyped /\ PushedOk /\ OthersOk /\ SchemaOk /\ ConfigOk /\ EngineOk
            /\ ReplyOk /\ ShownOk /\ TrueOk
-----------------------------------------------------------------------------
(* The queries the engine gets.                                            *)

\* The dots of a list are its queries of that kind.
LEMMA DotsIs ==
    ASSUME NEW l \in Seq(Query)
    PROVE  /\ Dots(l) \in Seq(Query) /\ Len(Dots(l)) \in Nat
           /\ DOMAIN Dots(l) = 1 .. Len(Dots(l))
           /\ \A n \in DOMAIN Dots(l) : \E i \in DOMAIN l : l[i].kind = "dots" /\ Dots(l)[n] = l[i]
           /\ \A i \in DOMAIN l : l[i].kind = "dots" => \E n \in DOMAIN Dots(l) : Dots(l)[n] = l[i]
<1> DEFINE J == {i \in DOMAIN l : l[i].kind = "dots"}
           p == Picked(l, J)
<1>1. Dots(l) = p
  BY DEF Dots
<1>2. /\ p \in Seq(Query) /\ Len(p) \in Nat /\ DOMAIN p = 1 .. Len(p)
      /\ \A n \in DOMAIN p : Ascending(J)[n] \in J /\ p[n] = l[Ascending(J)[n]]
      /\ \A i \in J : \E n \in DOMAIN p : p[n] = l[i]
  <2>1. J \in SUBSET DOMAIN l
    OBVIOUS
  <2> HIDE DEF J
  <2> QED BY <2>1, PickedIs
<1> HIDE DEF p
<1> QED
  BY <1>1, <1>2

\* A list of different queries has different dots.
LEMMA PickedOnce ==
    ASSUME NEW l \in Seq(Query), IsInjective(IdsOf(l)), NEW J \in SUBSET DOMAIN l
    PROVE  /\ Picked(l, J) \in Seq(Query) /\ IsInjective(IdsOf(Picked(l, J)))
           /\ \A n \in DOMAIN Picked(l, J) : \E i \in J : Picked(l, J)[n] = l[i]
<1> DEFINE p == Picked(l, J)
           h == Ascending(J)
<1>1. /\ p \in Seq(Query)
      /\ \A n \in DOMAIN p : h[n] \in J /\ p[n] = l[h[n]]
      /\ \A m, n \in DOMAIN p : h[m] = h[n] => m = n
  BY PickedIs
<1> HIDE DEF p, h
<1>2. ASSUME NEW m \in DOMAIN p, NEW n \in DOMAIN p, p[m].id = p[n].id PROVE m = n
  <2>1. h[m] \in DOMAIN l /\ h[n] \in DOMAIN l /\ l[h[m]].id = l[h[n]].id
    BY <1>1, <1>2
  <2>2. h[m] = h[n]
    BY <2>1 DEF IsInjective, IdsOf
  <2> QED BY <1>1, <2>2
<1>3. IsInjective(IdsOf(p))
  BY <1>2 DEF IsInjective, IdsOf
<1> QED BY <1>1, <1>3 DEF p

\* A list of different queries has different dots.
LEMMA DotsOnce ==
    ASSUME NEW l \in Seq(Query), IsInjective(IdsOf(l))
    PROVE  IsInjective(IdsOf(Dots(l)))
<1> DEFINE J == {i \in DOMAIN l : l[i].kind = "dots"}
<1>1. J \in SUBSET DOMAIN l
  OBVIOUS
<1> HIDE DEF J
<1>2. IsInjective(IdsOf(Picked(l, J)))
  BY <1>1, PickedOnce
<1> QED BY <1>2 DEF Dots, J

\* The ids of a list of queries are a sequence of ids.
LEMMA IdsAre ==
    ASSUME NEW l \in Seq(Query)
    PROVE  /\ IdsOf(l) \in Seq(Ids) /\ DOMAIN IdsOf(l) = DOMAIN l
           /\ \A i \in DOMAIN l : IdsOf(l)[i] = l[i].id
<1>1. Len(l) \in Nat /\ DOMAIN l = 1 .. Len(l) /\ \A i \in 1 .. Len(l) : l[i] \in Query
  BY LenProperties, ElementOfSeq
<1>2. [i \in 1 .. Len(l) |-> l[i].id] \in [1 .. Len(l) -> Ids]
  BY <1>1 DEF Query
<1> QED BY <1>1, <1>2, SeqDef DEF IdsOf

\* They do not depend on the texts.
LEMMA SameDots ==
    ASSUME NEW l \in Seq(Query), NEW m \in Seq(Query), DOMAIN l = DOMAIN m,
           \A i \in DOMAIN l : l[i].id = m[i].id /\ l[i].kind = m[i].kind
    PROVE  IdsOf(Dots(l)) = IdsOf(Dots(m))
<1> DEFINE J == {i \in DOMAIN l : l[i].kind = "dots"}
<1>1. Dots(l) = Picked(l, J) /\ Dots(m) = Picked(m, J) /\ J \in SUBSET DOMAIN l
  <2>1. J = {i \in DOMAIN m : m[i].kind = "dots"}
    OBVIOUS
  <2> QED BY <2>1 DEF Dots
<1> HIDE DEF J
<1>2. /\ DOMAIN Picked(l, J) = DOMAIN Picked(m, J)
      /\ \A n \in DOMAIN Picked(l, J) : Picked(l, J)[n].id = Picked(m, J)[n].id
  <2>1. /\ DOMAIN Picked(l, J) = 1 .. Cardinality(J)
        /\ \A n \in DOMAIN Picked(l, J) : Ascending(J)[n] \in J
                                          /\ Picked(l, J)[n] = l[Ascending(J)[n]]
    BY <1>1, PickedIs
  <2>2. /\ DOMAIN Picked(m, J) = 1 .. Cardinality(J)
        /\ \A n \in DOMAIN Picked(m, J) : Picked(m, J)[n] = m[Ascending(J)[n]]
    BY <1>1, PickedIs
  <2> QED BY <1>1, <2>1, <2>2
<1> QED BY <1>1, <1>2 DEF IdsOf

\* Of a list, the engine has what it has slots for.
LEMMA WantedIs ==
    ASSUME NEW q \in Seq(Query)
    PROVE  LET want == FirstOf([i \in DOMAIN q |-> Slot(q[i])], EngineMax)
               n == IF Len(q) < EngineMax THEN Len(q) ELSE EngineMax
           IN  /\ want \in Seq([text : Texts, ring : BOOLEAN, on : BOOLEAN])
               /\ n \in Nat /\ Len(want) = n /\ DOMAIN want = 1 .. n
               /\ \A i \in 1 .. n : i \in DOMAIN q /\ want[i] = Slot(q[i])
<1> DEFINE S == [text : Texts, ring : BOOLEAN, on : BOOLEAN]
           s == [i \in DOMAIN q |-> Slot(q[i])]
           n == IF Len(q) < EngineMax THEN Len(q) ELSE EngineMax
<1>1. Len(q) \in Nat /\ DOMAIN q = 1 .. Len(q) /\ \A i \in 1 .. Len(q) : q[i] \in Query
  BY LenProperties, ElementOfSeq
<1>2. s \in [1 .. Len(q) -> S]
  BY <1>1 DEF Query, Slot
<1>3. s \in Seq(S) /\ Len(s) = Len(q)
  <2> HIDE DEF s, S
  <2> QED BY <1>1, <1>2, SeqDef
<1>4. EngineMax \in Nat
  BY QueriesAssumption DEF RenderQueryConstants
<1>5. n \in Nat /\ n <= Len(q)
  BY <1>1, <1>4
<1>6. \A i \in 1 .. n : i \in DOMAIN q /\ s[i] = Slot(q[i])
  BY <1>1, <1>5
<1> HIDE DEF s, S
<1>7. FirstOf(s, EngineMax) = SubSeq(s, 1, n)
  BY <1>3 DEF FirstOf
<1> HIDE DEF n
<1>8. \A i \in 1 .. n : s[i] \in S
  BY <1>1, <1>2, <1>5
<1>9. /\ SubSeq(s, 1, n) \in Seq(S) /\ Len(SubSeq(s, 1, n)) = n
      /\ \A i \in 1 .. n : SubSeq(s, 1, n)[i] = s[i]
  BY <1>5, <1>8, SubSeqProperties
<1>10. DOMAIN SubSeq(s, 1, n) = 1 .. n
  BY <1>9, LenProperties
<1>11. /\ FirstOf(s, EngineMax) \in Seq(S) /\ Len(FirstOf(s, EngineMax)) = n
       /\ DOMAIN FirstOf(s, EngineMax) = 1 .. n
  BY <1>7, <1>9, <1>10
<1>12. \A i \in 1 .. n : i \in DOMAIN q /\ FirstOf(s, EngineMax)[i] = Slot(q[i])
  BY <1>6, <1>7, <1>9
<1> QED BY <1>5, <1>11, <1>12 DEF n, s, S

\* The slots the list wants are those of its first dots.
LEMMA WantedSlots ==
    ASSUME list \in Seq(Query)
    PROVE  /\ DOMAIN Wanted = {i \in DOMAIN Dots(list) : i <= EngineMax}
           /\ \A i \in DOMAIN Wanted : Wanted[i] = Slot(Dots(list)[i])
<1> DEFINE q == Dots(list)
           want == FirstOf([i \in DOMAIN q |-> Slot(q[i])], EngineMax)
           n == IF Len(q) < EngineMax THEN Len(q) ELSE EngineMax
<1>1. q \in Seq(Query) /\ Len(q) \in Nat /\ DOMAIN q = 1 .. Len(q)
  BY DotsIs
<1>2. Wanted = want
  BY DEF Wanted
<1> HIDE DEF q
<1>3. DOMAIN want = 1 .. n /\ \A i \in 1 .. n : i \in DOMAIN q /\ want[i] = Slot(q[i])
  BY <1>1, WantedIs
<1>4. EngineMax \in Nat
  BY QueriesAssumption DEF RenderQueryConstants
<1> HIDE DEF want
<1>5. 1 .. n = {i \in DOMAIN q : i <= EngineMax}
  BY <1>1, <1>4
<1> HIDE DEF n
<1> QED BY <1>2, <1>3, <1>5 DEF q

\* And what it is configured with replaces what it had.
LEMMA ConfiguredIs ==
    ASSUME NEW q \in Seq(Query), Len(engine) <= EngineMax,
           engine \in Seq([text : Texts, ring : BOOLEAN, on : BOOLEAN])
    PROVE  Configured(q) = FirstOf([i \in DOMAIN q |-> Slot(q[i])], EngineMax)
<1> DEFINE S == [text : Texts, ring : BOOLEAN, on : BOOLEAN]
           new == FirstOf([i \in DOMAIN q |-> Slot(q[i])], EngineMax)
           n == IF Len(q) < EngineMax THEN Len(q) ELSE EngineMax
           rest == SubSeq(engine, Len(new) + 1, Len(engine))
<1>1. new \in Seq(S) /\ n \in Nat /\ Len(new) = n
  BY WantedIs
<1>2. Len(q) \in Nat /\ Len(engine) \in Nat /\ EngineMax \in Nat
  BY LenProperties, QueriesAssumption DEF RenderQueryConstants
<1>3. n <= Len(q) /\ n <= EngineMax /\ (n = Len(q) \/ n = EngineMax)
  BY <1>2
<1> HIDE DEF n
<1>4. rest \in Seq(S) /\ Len(rest) = IF n + 1 <= Len(engine) THEN Len(engine) - n ELSE 0
  <2>1. \A i \in n + 1 .. Len(engine) : engine[i] \in S
    <3> SUFFICES ASSUME NEW i \in n + 1 .. Len(engine) PROVE engine[i] \in S
      OBVIOUS
    <3>1. i \in 1 .. Len(engine)
      BY <1>1, <1>2
    <3> QED BY <3>1, ElementOfSeq
  <2> HIDE DEF new, S
  <2> QED BY <1>1, <1>2, <2>1, SubSeqProperties
<1>5. Overwritten(q) = new \o rest
  BY DEF Overwritten
<1> HIDE DEF new, rest, S
<1>6. Len(rest) \in Nat
  BY <1>4, LenProperties
<1>7. /\ new \o rest \in Seq(S) /\ Len(new \o rest) = n + Len(rest)
      /\ \A i \in 1 .. n : (new \o rest)[i] = new[i]
  <2>1. /\ new \o rest \in Seq(S) /\ Len(new \o rest) = n + Len(rest)
        /\ \A i \in 1 .. n + Len(rest) : (new \o rest)[i] =
               IF i <= n THEN new[i] ELSE rest[i - n]
    BY <1>1, <1>4, ConcatProperties
  <2>2. \A i \in 1 .. n : i \in 1 .. n + Len(rest) /\ i <= n
    BY <1>1, <1>6
  <2> QED BY <2>1, <2>2
<1>8. (IF Len(new \o rest) < Len(q) THEN Len(new \o rest) ELSE Len(q)) = n
  <2>1. CASE n = Len(q)
    BY <1>1, <1>2, <1>6, <1>7, <2>1
  <2>2. CASE n = EngineMax /\ n # Len(q)
    <3>1. Len(rest) = 0
      BY <1>1, <1>2, <1>4, <2>2
    <3> QED BY <1>1, <1>2, <1>3, <1>7, <2>2, <3>1
  <2> QED BY <1>3, <2>1, <2>2
<1>9. Configured(q) = SubSeq(new \o rest, 1, n)
  BY <1>5, <1>8 DEF Configured, FirstOf
<1>10. SubSeq(new \o rest, 1, n) = new
  <2>1. \A i \in 1 .. n : new[i] \in S /\ (new \o rest)[i] \in S
    BY <1>1, <1>7, ElementOfSeq
  <2> DEFINE w == SubSeq(new \o rest, 1, n)
  <2>2. w \in Seq(S) /\ Len(w) = n /\ \A i \in 1 .. n : w[i] = (new \o rest)[i]
    BY <1>1, <2>1, SubSeqProperties
  <2> HIDE DEF w
  <2> QED BY <1>1, <1>7, <2>2, SeqEqual DEF w
<1>11. Configured(q) = new
  BY <1>9, <1>10
<1> QED BY <1>11 DEF new
-----------------------------------------------------------------------------
(* Messages that are added and taken.                                      *)

\* A message added is the last one; without it, the last one of an op stays.
LEMMA MessageAdded ==
    ASSUME NEW S, NEW s \in Seq(S), NEW m \in S, NEW o
    PROVE  LET t == Append(s, m)
           IN  /\ t \in Seq(S) /\ Len(s) \in Nat /\ Len(t) = Len(s) + 1
               /\ DOMAIN s = 1 .. Len(s) /\ DOMAIN t = 1 .. Len(s) + 1
               /\ Range(t) = Range(s) \cup {m}
               /\ t[Len(s) + 1] = m /\ \A k \in DOMAIN s : t[k] = s[k]
               /\ m.op # o => /\ NoMore(t, o) => NoMore(s, o)
                              /\ \A k \in DOMAIN t :
                                     LastOf(t, o, k) => k \in DOMAIN s /\ LastOf(s, o, k)
               /\ m.op = o => /\ ~ NoMore(t, o)
                              /\ \A k \in DOMAIN t : LastOf(t, o, k) => k = Len(s) + 1
<1> DEFINE t == Append(s, m)
<1>1. /\ t \in Seq(S) /\ Len(s) \in Nat /\ Len(t) = Len(s) + 1
      /\ \A k \in 1 .. Len(s) : t[k] = s[k]
      /\ t[Len(s) + 1] = m
  BY AppendProperties, LenProperties
<1>2. DOMAIN s = 1 .. Len(s) /\ DOMAIN t = 1 .. Len(s) + 1
  <2>1. DOMAIN t = 1 .. Len(t)
    BY <1>1, LenProperties
  <2> QED BY <1>1, <2>1, LenProperties
<1> HIDE DEF t
<1>3. \A k \in DOMAIN t : k \in DOMAIN s \/ k = Len(s) + 1
  BY <1>1, <1>2
<1>4. \A k \in DOMAIN s : k \in DOMAIN t /\ t[k] = s[k] /\ Len(s) + 1 > k
  BY <1>1, <1>2
<1>5. Len(s) + 1 \in DOMAIN t
  BY <1>1, <1>2
<1>6. Range(t) = Range(s) \cup {m}
  BY <1>1, <1>3, <1>4, <1>5 DEF Range
<1>7. m.op # o /\ NoMore(t, o) => NoMore(s, o)
  BY <1>4 DEF NoMore
<1>8. ASSUME NEW k \in DOMAIN t, m.op # o, LastOf(t, o, k) PROVE k \in DOMAIN s /\ LastOf(s, o, k)
  BY <1>1, <1>3, <1>4, <1>8 DEF LastOf
<1>9. m.op = o => ~ NoMore(t, o)
  BY <1>1, <1>5 DEF NoMore
<1>10. ASSUME NEW k \in DOMAIN t, m.op = o, LastOf(t, o, k) PROVE k = Len(s) + 1
  BY <1>1, <1>3, <1>4, <1>5, <1>10 DEF LastOf
<1> QED
  BY <1>1, <1>2, <1>6, <1>7, <1>8, <1>9, <1>10 DEF t

\* It joins those on their way.
LEMMA RangeAdded ==
    ASSUME NEW S, NEW s \in Seq(S), NEW m \in S
    PROVE  Range(Append(s, m)) = Range(s) \cup {m}
<1>1. \A o : Range(Append(s, m)) = Range(s) \cup {m}
  BY MessageAdded
<1> QED BY <1>1

\* A message taken was the first one; the others move up, and the last one of an
\* op stays unless it was taken.
LEMMA MessageTaken ==
    ASSUME NEW S, NEW s \in Seq(S), s # <<>>, NEW o
    PROVE  LET t == Tail(s)
           IN  /\ t \in Seq(S) /\ Len(s) \in Nat \ {0} /\ Len(t) = Len(s) - 1
               /\ DOMAIN s = 1 .. Len(s) /\ DOMAIN t = 1 .. Len(s) - 1
               /\ Range(s) = Range(t) \cup {Head(s)}
               /\ Head(s) \in S /\ Head(s) = s[1]
               /\ \A k \in DOMAIN t : t[k] = s[k + 1] /\ k + 1 \in DOMAIN s
               /\ \A k \in DOMAIN t : LastOf(t, o, k) => LastOf(s, o, k + 1)
               /\ NoMore(t, o) => NoMore(s, o) \/ (Head(s).op = o /\ LastOf(s, o, 1))
               /\ NoMore(t, o) /\ Head(s).op # o => NoMore(s, o)
<1> DEFINE t == Tail(s)
<1>1. /\ t \in Seq(S) /\ Len(s) \in Nat /\ Len(s) # 0 /\ Len(t) = Len(s) - 1
      /\ \A k \in 1 .. Len(t) : t[k] = s[k + 1]
      /\ Head(s) \in S
  BY HeadTailProperties, LenProperties, EmptySeq
<1>2. DOMAIN s = 1 .. Len(s) /\ DOMAIN t = 1 .. Len(s) - 1
  <2>1. DOMAIN t = 1 .. Len(t)
    BY <1>1, LenProperties
  <2> QED BY <1>1, <2>1, LenProperties
<1>3. Head(s) = s[1]
  OBVIOUS
<1> HIDE DEF t
<1>4. \A k \in DOMAIN t : t[k] = s[k + 1] /\ k + 1 \in DOMAIN s /\ k \in Nat
  BY <1>1, <1>2
<1>5. \A k \in DOMAIN s : k = 1 \/ (k - 1 \in DOMAIN t /\ t[k - 1] = s[k] /\ k > 1)
  BY <1>1, <1>2
<1>6. 1 \in DOMAIN s
  BY <1>1, <1>2
<1>7. Range(s) = Range(t) \cup {Head(s)}
  BY <1>3, <1>4, <1>5, <1>6 DEF Range
<1>8. ASSUME NEW k \in DOMAIN t, LastOf(t, o, k) PROVE LastOf(s, o, k + 1)
  <2>1. k + 1 \in DOMAIN s /\ s[k + 1].op = o /\ k \in Nat
    BY <1>4, <1>8 DEF LastOf
  <2>2. ASSUME NEW n \in DOMAIN s, n > k + 1 PROVE s[n].op # o
    <3>1. n - 1 \in DOMAIN t /\ t[n - 1] = s[n] /\ n \in Nat
      BY <1>2, <1>5, <2>1, <2>2
    <3>2. n - 1 > k
      BY <2>1, <2>2, <3>1
    <3> QED BY <1>8, <3>1, <3>2 DEF LastOf
  <2> QED BY <2>1, <2>2 DEF LastOf
<1>9. ASSUME NoMore(t, o) PROVE NoMore(s, o) \/ (Head(s).op = o /\ LastOf(s, o, 1))
  <2>1. \A k \in DOMAIN s : k = 1 \/ s[k].op # o
    BY <1>5, <1>9 DEF NoMore
  <2> QED BY <1>2, <1>3, <1>6, <2>1 DEF NoMore, LastOf
<1> QED
  BY <1>1, <1>2, <1>3, <1>4, <1>7, <1>8, <1>9 DEF t

\* A message that is no frame of a battle leaves the page in doubt about b.
LEMMA StaleAdded ==
    ASSUME NEW S, NEW s \in Seq(S), NEW m \in S, NEW r
    PROVE  LET t == Append(s, m)
           IN  /\ \A k \in 0 .. Len(s) : StaleAt(s, r, k) => StaleAt(t, r, k)
               /\ ~ BattleFrame(m) /\ StaleAt(s, r, Len(s)) => StaleAt(t, r, Len(s) + 1)
               /\ m.op = "reverted" => StaleAt(t, r, Len(s) + 1)
<1> DEFINE t == Append(s, m)
<1>1. /\ Len(s) \in Nat /\ t[Len(s) + 1] = m
      /\ \A k \in 1 .. Len(s) : t[k] = s[k]
  BY AppendProperties, LenProperties
<1> HIDE DEF t
<1>2. ASSUME NEW k \in 0 .. Len(s), StaleAt(s, r, k) PROVE StaleAt(t, r, k)
  <2>1. k \in Nat /\ k <= Len(s)
    BY <1>1
  <2>2. \A n \in 1 .. k : t[n] = s[n]
    BY <1>1, <2>1
  <2>3. CASE r /\ \A n \in 1 .. k : ~ BattleFrame(s[n])
    BY <2>2, <2>3 DEF StaleAt
  <2>4. CASE \E j \in 1 .. k : s[j].op = "reverted" /\ \A n \in j + 1 .. k : ~ BattleFrame(s[n])
    <3>1. PICK j \in 1 .. k : s[j].op = "reverted" /\ \A n \in j + 1 .. k : ~ BattleFrame(s[n])
      BY <2>4
    <3>2. \A n \in j + 1 .. k : n \in 1 .. k
      BY <2>1
    <3>3. t[j].op = "reverted" /\ \A n \in j + 1 .. k : ~ BattleFrame(t[n])
      BY <2>2, <3>1, <3>2
    <3> QED BY <3>3 DEF StaleAt
  <2> QED BY <1>2, <2>3, <2>4 DEF StaleAt
<1>3. ASSUME ~ BattleFrame(m), StaleAt(s, r, Len(s)) PROVE StaleAt(t, r, Len(s) + 1)
  <2>1. \A n \in 1 .. Len(s) + 1 : n \in 1 .. Len(s) \/ (n = Len(s) + 1 /\ t[n] = m)
    BY <1>1
  <2>2. CASE r /\ \A n \in 1 .. Len(s) : ~ BattleFrame(s[n])
    BY <1>1, <1>3, <2>1, <2>2 DEF StaleAt
  <2>3. CASE \E j \in 1 .. Len(s) :
           s[j].op = "reverted" /\ \A n \in j + 1 .. Len(s) : ~ BattleFrame(s[n])
    <3>1. PICK j \in 1 .. Len(s) :
           s[j].op = "reverted" /\ \A n \in j + 1 .. Len(s) : ~ BattleFrame(s[n])
      BY <2>3
    <3>2. \A n \in j + 1 .. Len(s) + 1 : (n \in j + 1 .. Len(s) /\ n \in 1 .. Len(s)) \/ t[n] = m
      BY <1>1
    <3>3. /\ t[j].op = "reverted" /\ j \in 1 .. Len(s) + 1
          /\ \A n \in j + 1 .. Len(s) + 1 : ~ BattleFrame(t[n])
      BY <1>1, <1>3, <3>1, <3>2
    <3> QED BY <3>3 DEF StaleAt
  <2> QED BY <1>3, <2>2, <2>3 DEF StaleAt
<1>4. ASSUME m.op = "reverted" PROVE StaleAt(t, r, Len(s) + 1)
  <2>1. Len(s) + 1 \in 1 .. Len(s) + 1 /\ (\A n \in (Len(s) + 1) + 1 .. Len(s) + 1 : FALSE)
    BY <1>1
  <2> QED BY <1>1, <1>4, <2>1 DEF StaleAt
<1> QED
  BY <1>2, <1>3, <1>4 DEF t

\* Reading a message leaves the doubts about b that the rest of them raise.
LEMMA StaleTaken ==
    ASSUME NEW S, NEW s \in Seq(S), s # <<>>, NEW r, NEW q,
           Head(s).op = "reverted" => q,
           r /\ ~ BattleFrame(Head(s)) => q,
           NEW k \in 1 .. Len(s), StaleAt(s, r, k)
    PROVE  StaleAt(Tail(s), q, k - 1)
<1> DEFINE t == Tail(s)
<1>1. /\ Len(s) \in Nat /\ Head(s) = s[1]
      /\ \A n \in 1 .. Len(s) - 1 : t[n] = s[n + 1]
  BY HeadTailProperties, LenProperties
<1>2. k \in Nat \ {0} /\ k <= Len(s) /\ 1 \in 1 .. k
  BY <1>1
<1> HIDE DEF t
<1>3. \A n \in 1 .. k - 1 : t[n] = s[n + 1] /\ n + 1 \in 1 .. k
  BY <1>1, <1>2
<1>4. CASE r /\ \A n \in 1 .. k : ~ BattleFrame(s[n])
  <2>1. q /\ \A n \in 1 .. k - 1 : ~ BattleFrame(t[n])
    BY <1>1, <1>2, <1>3, <1>4
  <2> QED BY <2>1 DEF StaleAt, t
<1>5. CASE \E j \in 1 .. k : s[j].op = "reverted" /\ \A n \in j + 1 .. k : ~ BattleFrame(s[n])
  <2>1. PICK j \in 1 .. k : s[j].op = "reverted" /\ \A n \in j + 1 .. k : ~ BattleFrame(s[n])
    BY <1>5
  <2>2. CASE j = 1
    <3>1. \A n \in 1 .. k - 1 : n + 1 \in j + 1 .. k
      BY <1>2, <2>2
    <3>2. q /\ \A n \in 1 .. k - 1 : ~ BattleFrame(t[n])
      BY <1>1, <1>3, <2>1, <2>2, <3>1
    <3> QED BY <3>2 DEF StaleAt, t
  <2>3. CASE j # 1
    <3>1. j - 1 \in 1 .. k - 1 /\ (j - 1) + 1 = j
      BY <1>2, <2>3
    <3>2. \A n \in (j - 1) + 1 .. k - 1 : n \in 1 .. k - 1 /\ n + 1 \in j + 1 .. k
      BY <1>2, <2>3
    <3>3. t[j - 1].op = "reverted" /\ \A n \in (j - 1) + 1 .. k - 1 : ~ BattleFrame(t[n])
      BY <1>3, <2>1, <3>1, <3>2
    <3> QED BY <3>1, <3>3 DEF StaleAt, t
  <2> QED BY <2>2, <2>3
<1> QED BY <1>4, <1>5 DEF StaleAt
-----------------------------------------------------------------------------
(* A push makes the last list the one the engine will have.                *)

\* The list, the ids and the windows a push may find or leave.
ListTyped(l, n) == /\ l \in Seq(Query) /\ IsInjective(IdsOf(l))
                   /\ \A i \in DOMAIN l : l[i].id < n
WindowsTyped(w) == /\ w \subseteq [id : Ids, text : Texts, status : Status]
                   /\ \A u, v \in w : u.id = v.id => u = v

\* Until the engine has the push nothing is claimed of its slots and replies, and
\* no card of a query says error that the push does not clear.
LEMMA Pushes ==
    ASSUME NEW l \in Seq(Query), NEW w, NEW rebuilt \in BOOLEAN, Push(l, w, rebuilt),
           toEngine \in Seq(ToEngineMsg), rebuilt \/ (l = list /\ OthersOk)
    PROVE  /\ PushedOk' /\ OthersOk' /\ ConfigOk' /\ EngineOk' /\ ReplyOk' /\ ShownOk' /\ TrueOk'
           /\ toEngine' \in Seq(ToEngineMsg)
<1> DEFINE m == [op |-> "config", queries |-> Dots(l)]
           ids == IdsOf(Dots(l))
<1>1. /\ list' = l /\ pushed' = ids /\ toEngine' = Append(toEngine, m)
      /\ card' = [i \in Ids |-> IF rebuilt THEN "" ELSE IF i \in Range(ids) THEN "ok" ELSE card[i]]
  BY DEF Push
<1>2. /\ Dots(l) \in Seq(Query)
      /\ \A n \in DOMAIN Dots(l) : Dots(l)[n] \in Query
  <2>1. Dots(l) \in Seq(Query) /\ DOMAIN Dots(l) = 1 .. Len(Dots(l))
    BY DotsIs
  <2> QED BY <2>1, ElementOfSeq
<1>3. m \in ToEngineMsg /\ m.op = "config" /\ m.queries = Dots(l)
  BY <1>2 DEF ToEngineMsg
<1> HIDE DEF m
<1>4. /\ toEngine' \in Seq(ToEngineMsg) /\ ~ NoMore(toEngine', "config")
      /\ toEngine'[Len(toEngine) + 1] = m
      /\ \A k \in DOMAIN (toEngine') : LastOf(toEngine', "config", k) => k = Len(toEngine) + 1
  BY <1>1, <1>3, MessageAdded
<1>5. PushedOk'
  BY <1>1 DEF PushedOk
<1>6. ConfigOk'
  BY <1>1, <1>3, <1>4 DEF ConfigOk
<1>7. EngineOk' /\ ReplyOk' /\ ShownOk'
  BY <1>4 DEF EngineOk, ReplyOk, ShownOk
<1>8. /\ DOMAIN ids = DOMAIN Dots(l)
      /\ \A i \in DOMAIN Dots(l) : Dots(l)[i].id \in Ids /\ Dots(l)[i].id \in Range(ids)
  <2>1. /\ DOMAIN ids = DOMAIN Dots(l) /\ \A i \in DOMAIN Dots(l) : ids[i] = Dots(l)[i].id
    BY DEF IdsOf
  <2> QED BY <1>2, <2>1 DEF Range, Query
<1>9. TrueOk'
  <2>1. \A i \in DOMAIN Dots(l) : card'[Dots(l)[i].id] # "error"
    BY <1>1, <1>8
  <2> QED BY <1>1, <2>1 DEF TrueOk
<1>10. \A i \in DOMAIN l : l[i].id \in Ids
  <2>1. DOMAIN l = 1 .. Len(l)
    BY LenProperties
  <2>2. \A i \in DOMAIN l : l[i] \in Query
    BY <2>1, ElementOfSeq
  <2> QED BY <2>2 DEF Query
<1>11. OthersOk'
  <2>1. CASE rebuilt
    BY <1>1, <1>10, <2>1 DEF OthersOk
  <2>2. CASE ~ rebuilt
    BY <1>1, <1>10, <2>2 DEF OthersOk
  <2> QED BY <2>1, <2>2
<1> QED
  BY <1>4, <1>5, <1>6, <1>7, <1>9, <1>11

\* A push is typed if what is pushed is.
LEMMA PushTypes ==
    ASSUME NEW l \in Seq(Query), IsInjective(IdsOf(l)), NEW w, NEW rebuilt \in BOOLEAN,
           Push(l, w, rebuilt), WindowsTyped(w), card \in [Ids -> Status]
    PROVE  /\ pushed' \in Seq(Ids) /\ IsInjective(pushed') /\ list' = l
           /\ card' \in [Ids -> Status] /\ WindowsTyped(window')
<1> DEFINE ids == IdsOf(Dots(l))
<1>1. Dots(l) \in Seq(Query)
  BY DotsIs
<1>2. ids \in Seq(Ids) /\ IsInjective(ids)
  BY <1>1, IdsAre, DotsOnce
<1>3. /\ list' = l /\ pushed' = ids
      /\ card' = [i \in Ids |-> IF rebuilt THEN "" ELSE IF i \in Range(ids) THEN "ok" ELSE card[i]]
      /\ window' = {IF v.id \in Range(ids) THEN [v EXCEPT !.status = "ok"] ELSE v : v \in w}
  BY DEF Push
<1> HIDE DEF ids
<1>4. card' \in [Ids -> Status]
  BY <1>3 DEF Status
<1>5. WindowsTyped(window')
  <2> DEFINE F(v) == IF v.id \in Range(ids) THEN [v EXCEPT !.status = "ok"] ELSE v
  <2>1. \A v \in w : F(v) \in [id : Ids, text : Texts, status : Status] /\ F(v).id = v.id
    BY DEF WindowsTyped, Status
  <2>2. window' = {F(v) : v \in w}
    BY <1>3
  <2> HIDE DEF F
  <2>3. window' \subseteq [id : Ids, text : Texts, status : Status]
    BY <2>1, <2>2
  <2>4. ASSUME NEW u \in window', NEW v \in window', u.id = v.id PROVE u = v
    <3>1. PICK x \in w : u = F(x)
      BY <2>2
    <3>2. PICK y \in w : v = F(y)
      BY <2>2
    <3>3. x.id = y.id
      BY <2>1, <2>4, <3>1, <3>2
    <3>4. x = y
      BY <3>3 DEF WindowsTyped
    <3> QED BY <3>1, <3>2, <3>4
  <2> QED BY <2>3, <2>4 DEF WindowsTyped
<1> QED
  BY <1>2, <1>3, <1>4, <1>5

\* The parts of the type invariant.
LEMMA TypedParts ==
    ASSUME QueryTyped
    PROVE  /\ ListTyped(list, nextId) /\ nextId \in 1 .. MaxId + 1
           /\ pushed \in Seq(Ids) /\ IsInjective(pushed) /\ timer \subseteq Ids
           /\ revalidate \in BOOLEAN /\ battle \in BOOLEAN /\ pending \in BOOLEAN
           /\ attached \in BOOLEAN /\ crossed \in BOOLEAN /\ clicks \in Nat
           /\ card \in [Ids -> Status] /\ WindowsTyped(window)
           /\ engine \in Seq([text : Texts, ring : BOOLEAN, on : BOOLEAN])
           /\ Len(engine) <= EngineMax
           /\ latest \in Drawable /\ screen \in Seq(SlotRows) /\ Len(screen) <= ScreenMax
           /\ file \subseteq Bundles
           /\ toEngine \in Seq(ToEngineMsg) /\ fromEngine \in Seq(ToPageMsg)
BY DEF QueryTyped, QueriesTypeOK, ListTyped, WindowsTyped

\* What is typed part by part is typed.
LEMMA TypedWhole ==
    ASSUME ListTyped(list, nextId)', (nextId \in 1 .. MaxId + 1)',
           (pushed \in Seq(Ids))', IsInjective(pushed)', (timer \subseteq Ids)',
           (revalidate \in BOOLEAN)', (battle \in BOOLEAN)', (pending \in BOOLEAN)',
           (attached \in BOOLEAN)', (crossed \in BOOLEAN)', (clicks \in Nat)',
           (card \in [Ids -> Status])', WindowsTyped(window)',
           (engine \in Seq([text : Texts, ring : BOOLEAN, on : BOOLEAN]))',
           (Len(engine) <= EngineMax)',
           (latest \in Drawable)', (screen \in Seq(SlotRows))', (Len(screen) <= ScreenMax)',
           (file \subseteq Bundles)',
           (toEngine \in Seq(ToEngineMsg))', (fromEngine \in Seq(ToPageMsg))'
    PROVE  QueryTyped'
<1>1. (Len(latest) <= EngineMax)'
  BY DEF Drawable
<1> QED
  BY <1>1 DEF QueryTyped, QueriesTypeOK, ListTyped, WindowsTyped

\* An edit that ends in a push.
LEMMA PushKeeps ==
    ASSUME QueryInv, NEW l, NEW w, NEW rebuilt \in BOOLEAN, Push(l, w, rebuilt),
           nextId' \in 1 .. MaxId + 1, ListTyped(l, nextId'), WindowsTyped(w),
           rebuilt \/ l = list, timer' \subseteq Ids, file' \subseteq Bundles, clicks' \in Nat,
           UNCHANGED <<revalidate, elsewhere>>
    PROVE  QueryInv'
<1> USE DEF elsewhere, drawing, worker
<1>1. QueryTyped /\ OthersOk /\ SchemaOk
  BY DEF QueryInv
<1>2. l \in Seq(Query) /\ IsInjective(IdsOf(l))
  BY DEF ListTyped
<1>3. /\ card \in [Ids -> Status] /\ toEngine \in Seq(ToEngineMsg)
      /\ revalidate \in BOOLEAN /\ battle \in BOOLEAN /\ pending \in BOOLEAN
      /\ attached \in BOOLEAN /\ crossed \in BOOLEAN
      /\ engine \in Seq([text : Texts, ring : BOOLEAN, on : BOOLEAN])
      /\ Len(engine) <= EngineMax
      /\ latest \in Drawable /\ screen \in Seq(SlotRows) /\ Len(screen) <= ScreenMax
      /\ fromEngine \in Seq(ToPageMsg)
  BY <1>1, TypedParts
<1>4. /\ PushedOk' /\ OthersOk' /\ ConfigOk' /\ EngineOk' /\ ReplyOk' /\ ShownOk' /\ TrueOk'
      /\ toEngine' \in Seq(ToEngineMsg)
  BY <1>1, <1>2, <1>3, Pushes
<1>5. /\ pushed' \in Seq(Ids) /\ IsInjective(pushed') /\ list' = l
      /\ card' \in [Ids -> Status] /\ WindowsTyped(window')
  BY <1>2, <1>3, PushTypes
<1>6. SchemaOk'
  BY <1>1 DEF SchemaOk
<1>7. QueryTyped'
  BY <1>3, <1>4, <1>5, TypedWhole
<1> QED
  BY <1>4, <1>6, <1>7 DEF QueryInv
-----------------------------------------------------------------------------
(* The edits.                                                              *)

\* The entry of an id that is listed.
LEMMA ListedAt ==
    ASSUME QueryTyped, NEW id \in Listed
    PROVE  At(id) \in DOMAIN list /\ list[At(id)].id = id /\ list[At(id)] \in Query /\ id \in Ids
<1>1. list \in Seq(Query)
  BY TypedParts DEF ListTyped
<1>2. \E i \in DOMAIN list : list[i].id = id
  BY DEF Listed, IdsOf, Range
<1>3. At(id) \in DOMAIN list /\ list[At(id)].id = id
  BY <1>2 DEF At
<1>4. list[At(id)] \in Query
  BY <1>1, <1>3, LenProperties, ElementOfSeq
<1> QED BY <1>3, <1>4 DEF Query

\* Entries keep their ids when they change.
LEMMA SameIds ==
    ASSUME NEW l, NEW n, ListTyped(l, n), NEW r \in Seq(Query), DOMAIN r = DOMAIN l,
           \A i \in DOMAIN l : r[i].id = l[i].id
    PROVE  ListTyped(r, n)
BY DEF ListTyped, IsInjective, IdsOf

\* And when they move.
LEMMA Rearranged ==
    ASSUME NEW l, NEW n, ListTyped(l, n), NEW i \in DOMAIN l, NEW to \in DOMAIN l
    PROVE  ListTyped(InsertAt(RemoveAt(l, i), to, l[i]), n)
<1> DEFINE r == RemoveAt(l, i)
           s == InsertAt(r, to, l[i])
           c == Len(l)
           G(k) == IF k < to THEN (IF k < i THEN k ELSE k + 1)
                   ELSE IF k = to THEN i ELSE (IF k - 1 < i THEN k - 1 ELSE k)
<1>1. /\ l \in Seq(Query) /\ c \in Nat /\ DOMAIN l = 1 .. c
      /\ \A k \in 1 .. c : l[k] \in Query
  <2>1. l \in Seq(Query)
    BY DEF ListTyped
  <2> QED BY <2>1, LenProperties, ElementOfSeq
<1> HIDE DEF c
<1>2. i \in 1 .. c /\ to \in 1 .. c
  BY <1>1
<1>3. /\ r \in Seq(Query) /\ Len(r) = c - 1
      /\ \A k \in 1 .. c - 1 : r[k] = IF k < i THEN l[k] ELSE l[k + 1]
  <2> DEFINE a == SubSeq(l, 1, i - 1)
             b == SubSeq(l, i + 1, c)
  <2>1. a \in Seq(Query) /\ Len(a) = i - 1 /\ \A k \in 1 .. i - 1 : a[k] = l[k]
    <3>1. \A k \in 1 .. i - 1 : l[k] \in Query
      BY <1>1, <1>2
    <3> QED BY <1>2, <3>1, SubSeqProperties
  <2>2. b \in Seq(Query) /\ Len(b) = c - i /\ \A k \in 1 .. c - i : b[k] = l[i + k]
    <3>1. \A k \in i + 1 .. c : l[k] \in Query
      BY <1>1, <1>2
    <3>2. /\ b \in Seq(Query) /\ Len(b) = IF i + 1 <= c THEN c - (i + 1) + 1 ELSE 0
          /\ \A k \in 1 .. c - (i + 1) + 1 : b[k] = l[i + 1 + k - 1]
      BY <1>1, <1>2, <3>1, SubSeqProperties
    <3> QED BY <1>1, <1>2, <3>2
  <2>3. r = a \o b
    BY DEF RemoveAt, c
  <2> HIDE DEF a, b, r
  <2>4. /\ r \in Seq(Query) /\ Len(r) = (i - 1) + (c - i)
        /\ \A k \in 1 .. (i - 1) + (c - i) : r[k] = IF k <= i - 1 THEN a[k] ELSE b[k - (i - 1)]
    BY <2>1, <2>2, <2>3, ConcatProperties
  <2>5. ASSUME NEW k \in 1 .. c - 1 PROVE r[k] = IF k < i THEN l[k] ELSE l[k + 1]
    <3>1. k \in 1 .. (i - 1) + (c - i)
      BY <1>1, <1>2
    <3>2. CASE k < i
      BY <1>2, <2>1, <2>4, <3>1, <3>2
    <3>3. CASE ~ (k < i)
      <4>1. k - (i - 1) \in 1 .. c - i /\ ~ (k <= i - 1) /\ i + (k - (i - 1)) = k + 1
        BY <1>1, <1>2, <3>3
      <4>2. b[k - (i - 1)] = l[k + 1]
        BY <2>2, <4>1
      <4> QED BY <2>4, <3>1, <3>3, <4>1, <4>2
    <3> QED BY <3>2, <3>3
  <2> QED BY <1>1, <1>2, <2>4, <2>5
<1> HIDE DEF r
<1>4. /\ s \in Seq(Query) /\ Len(s) = c
      /\ \A k \in 1 .. c : s[k] = IF k < to THEN r[k] ELSE IF k = to THEN l[i] ELSE r[k - 1]
  <2> DEFINE a == SubSeq(r, 1, to - 1)
             b == SubSeq(r, to, Len(r))
             e == <<l[i]>>
  <2>1. \A k \in 1 .. c - 1 : r[k] \in Query
    BY <1>3, ElementOfSeq
  <2>2. a \in Seq(Query) /\ Len(a) = to - 1 /\ \A k \in 1 .. to - 1 : a[k] = r[k]
    <3>1. \A k \in 1 .. to - 1 : r[k] \in Query
      BY <1>1, <1>2, <2>1
    <3> QED BY <1>2, <3>1, SubSeqProperties
  <2>3. b \in Seq(Query) /\ Len(b) = c - to /\ \A k \in 1 .. c - to : b[k] = r[to + k - 1]
    <3>1. \A k \in to .. c - 1 : r[k] \in Query
      BY <1>1, <1>2, <2>1
    <3>2. /\ b \in Seq(Query) /\ Len(b) = IF to <= c - 1 THEN (c - 1) - to + 1 ELSE 0
          /\ \A k \in 1 .. (c - 1) - to + 1 : b[k] = r[to + k - 1]
      BY <1>1, <1>2, <1>3, <3>1, SubSeqProperties
    <3> QED BY <1>1, <1>2, <3>2
  <2>4. e \in Seq(Query) /\ Len(e) = 1 /\ e[1] = l[i]
    BY <1>1, <1>2
  <2>5. s = (a \o e) \o b
    BY DEF InsertAt
  <2> HIDE DEF a, b, e, s
  <2>6. /\ a \o e \in Seq(Query) /\ Len(a \o e) = (to - 1) + 1
        /\ \A k \in 1 .. (to - 1) + 1 : (a \o e)[k] = IF k <= to - 1 THEN a[k] ELSE e[k - (to - 1)]
    <3>1. /\ a \o e \in Seq(Query) /\ Len(a \o e) = Len(a) + Len(e)
          /\ \A k \in 1 .. Len(a) + Len(e) :
                 (a \o e)[k] = IF k <= Len(a) THEN a[k] ELSE e[k - Len(a)]
      BY <2>2, <2>4, ConcatProperties
    <3> QED BY <2>2, <2>4, <3>1
  <2>7. Len(a \o e) = to
    BY <1>2, <2>6
  <2>8. /\ s \in Seq(Query) /\ Len(s) = to + (c - to)
        /\ \A k \in 1 .. to + (c - to) : s[k] = IF k <= to THEN (a \o e)[k] ELSE b[k - to]
    <3> DEFINE f == a \o e
    <3>1. f \in Seq(Query) /\ Len(f) = to /\ s = f \o b
      BY <2>5, <2>6, <2>7
    <3> HIDE DEF f
    <3>2. /\ f \o b \in Seq(Query) /\ Len(f \o b) = Len(f) + Len(b)
          /\ \A k \in 1 .. Len(f) + Len(b) :
                 (f \o b)[k] = IF k <= Len(f) THEN f[k] ELSE b[k - Len(f)]
      BY <2>3, <3>1, ConcatProperties
    <3>3. /\ s \in Seq(Query) /\ Len(s) = to + (c - to)
          /\ \A k \in 1 .. to + (c - to) : s[k] = IF k <= to THEN f[k] ELSE b[k - to]
      BY <2>3, <3>1, <3>2
    <3> QED BY <3>3 DEF f
  <2>9. ASSUME NEW k \in 1 .. c
        PROVE  s[k] = IF k < to THEN r[k] ELSE IF k = to THEN l[i] ELSE r[k - 1]
    <3>1. k \in 1 .. to + (c - to)
      BY <1>1, <1>2
    <3>2. CASE k < to
      <4>1. k \in 1 .. (to - 1) + 1 /\ k <= to - 1 /\ k \in 1 .. to - 1 /\ k <= to
        BY <1>2, <3>2
      <4> QED BY <2>2, <2>6, <2>8, <3>1, <3>2, <4>1
    <3>3. CASE k = to
      <4>1. k \in 1 .. (to - 1) + 1 /\ ~ (k <= to - 1) /\ k - (to - 1) = 1 /\ k <= to /\ ~ (k < to)
        BY <1>2, <3>3
      <4> QED BY <2>4, <2>6, <2>8, <3>1, <3>3, <4>1
    <3>4. CASE k > to
      <4>1. /\ k - to \in 1 .. c - to /\ to + (k - to) - 1 = k - 1
            /\ ~ (k <= to) /\ ~ (k < to) /\ k # to
        BY <1>1, <1>2, <3>4
      <4>2. b[k - to] = r[k - 1]
        BY <2>3, <4>1
      <4> QED BY <2>8, <3>1, <4>1, <4>2
    <3> QED BY <1>2, <3>2, <3>3, <3>4
  <2> QED BY <1>1, <1>2, <2>8, <2>9
<1> HIDE DEF s
<1>5. ASSUME NEW k \in 1 .. c PROVE G(k) \in 1 .. c /\ s[k] = l[G(k)]
  <2>1. CASE k < to
    <3>1. k \in 1 .. c - 1
      BY <1>1, <1>2, <2>1
    <3> QED BY <1>1, <1>2, <1>3, <1>4, <2>1, <3>1
  <2>2. CASE k = to
    BY <1>2, <1>4, <2>2
  <2>3. CASE k > to
    <3>1. k - 1 \in 1 .. c - 1 /\ (k - 1) + 1 = k /\ ~ (k < to) /\ k # to
      BY <1>1, <1>2, <2>3
    <3>2. r[k - 1] = IF k - 1 < i THEN l[k - 1] ELSE l[k]
      BY <1>3, <3>1
    <3> QED BY <1>1, <1>2, <1>4, <2>3, <3>1, <3>2
  <2> QED BY <1>2, <2>1, <2>2, <2>3
<1>6. ASSUME NEW j \in 1 .. c, NEW k \in 1 .. c, G(j) = G(k) PROVE j = k
  BY <1>1, <1>2, <1>6
<1> HIDE DEF G
<1>7. DOMAIN s = 1 .. c
  BY <1>4, LenProperties
<1>8. ASSUME NEW j \in 1 .. c, NEW k \in 1 .. c, s[j].id = s[k].id PROVE j = k
  <2>1. l[G(j)].id = l[G(k)].id /\ G(j) \in DOMAIN l /\ G(k) \in DOMAIN l
    BY <1>1, <1>5, <1>8
  <2>2. G(j) = G(k)
    BY <2>1 DEF ListTyped, IsInjective, IdsOf
  <2> QED BY <1>6, <2>2
<1>9. IsInjective(IdsOf(s))
  BY <1>7, <1>8 DEF IsInjective, IdsOf
<1>10. \A k \in DOMAIN s : s[k].id < n
  BY <1>1, <1>5, <1>7 DEF ListTyped
<1> QED
  <2>1. ListTyped(s, n)
    BY <1>4, <1>9, <1>10 DEF ListTyped
  <2> QED BY <2>1 DEF s, r
\* A list of new entries has new ids.
LEMMA Renewed ==
    ASSUME NEW l, NEW c \in Nat, DOMAIN l = 1 .. c, l \in Seq(Query), nextId \in 1 .. MaxId + 1,
           \A i \in 1 .. c : l[i].id = nextId + i - 1
    PROVE  ListTyped(l, nextId + Len(l)) /\ Len(l) = c
<1>1. Len(l) = c
  <2>1. Len(l) \in Nat /\ DOMAIN l = 1 .. Len(l)
    BY LenProperties
  <2> QED BY <2>1
<1>2. nextId \in Nat
  BY QueriesAssumption DEF RenderQueryConstants
<1>3. IsInjective(IdsOf(l))
  BY <1>2 DEF IsInjective, IdsOf
<1>4. \A i \in DOMAIN l : l[i].id < nextId + c
  BY <1>2
<1> QED BY <1>1, <1>3, <1>4 DEF ListTyped

\* The default list, with as many new ids as it needs.
LEMMA DefaultsAre ==
    ASSUME nextId \in 1 .. MaxId + 1, nextId + Len(Defaults) - 1 <= MaxId
    PROVE  ListTyped(Defaults, nextId + Len(Defaults)) /\ nextId + Len(Defaults) \in 1 .. MaxId + 1
<1> DEFINE c == Len(Default)
<1>1. /\ c \in Nat /\ DOMAIN Default = 1 .. c /\ MaxId \in Nat
      /\ \A i \in 1 .. c : Default[i] \in Texts
  <2>1. Default \in Seq(Texts)
    BY QueriesAssumption DEF RenderQueryConstants
  <2> QED
    BY <2>1, QueriesAssumption, LenProperties, ElementOfSeq DEF RenderQueryConstants
<1> HIDE DEF c
<1>2. Defaults = [i \in 1 .. c |-> Entry(nextId + i - 1, Default[i])]
  BY <1>1 DEF Defaults
<1>3. Len(Defaults) = c
  BY <1>1, <1>2
<1>4. \A i \in 1 .. c : nextId + i - 1 \in Ids
  BY <1>1, <1>3 DEF Ids
<1>5. \A i \in 1 .. c : Defaults[i] \in Query /\ Defaults[i].id = nextId + i - 1
  BY <1>1, <1>2, <1>4 DEF Entry, Query, Texts
<1>6. Defaults \in Seq(Query)
  <2>1. Defaults \in [1 .. c -> Query]
    BY <1>2, <1>5
  <2> QED BY <1>1, <2>1, SeqDef
<1>7. DOMAIN Defaults = 1 .. c
  BY <1>2
<1>8. ListTyped(Defaults, nextId + Len(Defaults))
  BY <1>1, <1>5, <1>6, <1>7, Renewed
<1> QED BY <1>1, <1>3, <1>8

\* A new query: its id is that of no other.
LEMMA AddKeeps ==
    ASSUME QueryInv, Add
    PROVE  QueryInv'
<1> DEFINE e == Entry(nextId, Added)
           l == Append(list, e)
<1>1. QueryTyped
  BY DEF QueryInv
<1>2. /\ ListTyped(list, nextId) /\ nextId \in 1 .. MaxId + 1 /\ MaxId \in Nat
      /\ WindowsTyped(window) /\ timer \subseteq Ids /\ file \subseteq Bundles /\ clicks \in Nat
  BY <1>1, TypedParts, QueriesAssumption DEF RenderQueryConstants
<1>3. nextId <= MaxId /\ nextId' = nextId + 1 /\ Push(l, window, TRUE) /\ clicks' = clicks + 1
      /\ UNCHANGED <<revalidate, timer, file, elsewhere>>
  BY DEF Add, Acting
<1>4. e \in Query /\ e.id = nextId
  <2>1. Added \in Texts
    BY QueriesAssumption DEF RenderQueryConstants
  <2> QED BY <1>2, <1>3, <2>1 DEF Entry, Query, Ids, Texts
<1> HIDE DEF e
<1>5. ListTyped(l, nextId')
  <2>1. list \in Seq(Query) /\ DOMAIN list = 1 .. Len(list) /\ Len(list) \in Nat
    BY <1>2, LenProperties DEF ListTyped
  <2>2. /\ l \in Seq(Query) /\ Len(l) = Len(list) + 1 /\ l[Len(list) + 1] = e
        /\ \A i \in 1 .. Len(list) : l[i] = list[i]
    BY <1>4, <2>1, AppendProperties
  <2>3. DOMAIN l = 1 .. Len(list) + 1
    BY <2>2, LenProperties
  <2> HIDE DEF l
  <2>4. \A i \in DOMAIN l : i \in DOMAIN list \/ i = Len(list) + 1
    BY <2>1, <2>3
  <2>5. \A i \in DOMAIN list : l[i].id = list[i].id /\ list[i].id < nextId /\ list[i].id \in Nat
    <3>1. \A i \in DOMAIN list : list[i] \in Query
      BY <2>1, ElementOfSeq
    <3> QED BY <1>2, <2>1, <2>2, <3>1 DEF ListTyped, Query, Ids
  <2>6. \A i \in DOMAIN l : l[i].id < nextId'
    BY <1>2, <1>3, <1>4, <2>2, <2>4, <2>5
  <2>7. ASSUME NEW i \in DOMAIN l, NEW j \in DOMAIN l, l[i].id = l[j].id PROVE i = j
    <3>1. CASE i \in DOMAIN list /\ j \in DOMAIN list
      <4>1. list[i].id = list[j].id
        BY <2>5, <2>7, <3>1
      <4> QED BY <1>2, <3>1, <4>1 DEF ListTyped, IsInjective, IdsOf
    <3>2. CASE i = Len(list) + 1 /\ j = Len(list) + 1
      BY <3>2
    <3>3. CASE i = Len(list) + 1 /\ j \in DOMAIN list
      BY <1>2, <1>4, <2>2, <2>5, <2>7, <3>3
    <3>4. CASE i \in DOMAIN list /\ j = Len(list) + 1
      BY <1>2, <1>4, <2>2, <2>5, <2>7, <3>4
    <3> QED BY <2>4, <3>1, <3>2, <3>3, <3>4
  <2> QED BY <2>2, <2>6, <2>7 DEF ListTyped, IsInjective, IdsOf
<1>6. nextId' \in 1 .. MaxId + 1
  BY <1>2, <1>3
<1> HIDE DEF l
<1>7. timer' \subseteq Ids /\ file' \subseteq Bundles /\ clicks' \in Nat
  BY <1>2, <1>3, <1>5, <1>6
<1> QED
  BY <1>2, <1>3, <1>5, <1>6, <1>7, PushKeeps DEF elsewhere

\* A query that goes: the others keep their ids.
LEMMA DeleteKeeps ==
    ASSUME QueryInv, NEW id \in Listed, Delete(id)
    PROVE  QueryInv'
<1> DEFINE J == {i \in DOMAIN list : list[i].id # id}
           l == Picked(list, J)
           w == {v \in window : v.id # id}
<1>1. QueryTyped
  BY DEF QueryInv
<1>2. /\ ListTyped(list, nextId) /\ nextId \in 1 .. MaxId + 1
      /\ WindowsTyped(window) /\ timer \subseteq Ids /\ file \subseteq Bundles /\ clicks \in Nat
  BY <1>1, TypedParts
<1>3. nextId' = nextId /\ Push(l, w, TRUE) /\ clicks' = clicks + 1
      /\ UNCHANGED <<revalidate, timer, file, elsewhere>>
  BY DEF Delete, Acting
<1>4. WindowsTyped(w)
  BY <1>2 DEF WindowsTyped
<1>5. ListTyped(l, nextId)
  <2>1. J \in SUBSET DOMAIN list
    OBVIOUS
  <2> HIDE DEF J
  <2>2. /\ l \in Seq(Query) /\ IsInjective(IdsOf(l))
        /\ \A n \in DOMAIN l : \E i \in J : l[n] = list[i]
    BY <1>2, <2>1, PickedOnce DEF ListTyped
  <2> HIDE DEF l
  <2> QED BY <1>2, <2>1, <2>2 DEF ListTyped
<1> HIDE DEF l, w
<1>6. /\ ListTyped(l, nextId') /\ nextId' \in 1 .. MaxId + 1
      /\ timer' \subseteq Ids /\ file' \subseteq Bundles /\ clicks' \in Nat
  <2>1. nextId' = nextId /\ ListTyped(l, nextId)
    BY <1>2, <1>3, <1>5
  <2>2. ListTyped(l, nextId')
    BY <2>1
  <2> QED BY <1>2, <1>3, <2>1, <2>2
<1> QED
  BY <1>3, <1>4, <1>6, PushKeeps DEF elsewhere

\* A query in another place.
LEMMA MoveKeeps ==
    ASSUME QueryInv, NEW id \in Listed, NEW to \in DOMAIN list, Move(id, to)
    PROVE  QueryInv'
<1> DEFINE l == InsertAt(RemoveAt(list, At(id)), to, list[At(id)])
<1>1. QueryTyped
  BY DEF QueryInv
<1>2. /\ ListTyped(list, nextId) /\ nextId \in 1 .. MaxId + 1
      /\ WindowsTyped(window) /\ timer \subseteq Ids /\ file \subseteq Bundles /\ clicks \in Nat
  BY <1>1, TypedParts
<1>3. nextId' = nextId /\ Push(l, window, TRUE) /\ clicks' = clicks + 1
      /\ UNCHANGED <<revalidate, timer, file, elsewhere>>
  BY DEF Move, Acting
<1>4. ListTyped(l, nextId)
  BY <1>1, <1>2, ListedAt, Rearranged
<1> HIDE DEF l
<1>5. /\ ListTyped(l, nextId') /\ nextId' \in 1 .. MaxId + 1
      /\ timer' \subseteq Ids /\ file' \subseteq Bundles /\ clicks' \in Nat
  <2>1. nextId' = nextId /\ ListTyped(l, nextId)
    BY <1>2, <1>3, <1>4
  <2>2. ListTyped(l, nextId')
    BY <2>1
  <2> QED BY <1>2, <1>3, <2>1, <2>2
<1> QED
  BY <1>2, <1>3, <1>5, PushKeeps DEF elsewhere

\* A query with another field: kind and shape are in its text as well.
LEMMA SetFieldKeeps ==
    ASSUME QueryInv, NEW id \in Listed, NEW q \in Retouched(list[At(id)]), SetField(id, q)
    PROVE  QueryInv'
<1> DEFINE l == [list EXCEPT ![At(id)] = q]
<1>1. QueryTyped
  BY DEF QueryInv
<1>2. /\ ListTyped(list, nextId) /\ nextId \in 1 .. MaxId + 1
      /\ WindowsTyped(window) /\ timer \subseteq Ids /\ file \subseteq Bundles /\ clicks \in Nat
  BY <1>1, TypedParts
<1>3. nextId' = nextId /\ Push(l, window, TRUE) /\ clicks' = clicks + 1
      /\ UNCHANGED <<revalidate, timer, file, elsewhere>>
  BY DEF SetField, Acting, ReplaceAt
<1>4. At(id) \in DOMAIN list /\ list[At(id)] \in Query
  BY <1>1, ListedAt
<1>5. q \in Query /\ q.id = list[At(id)].id
  <2> DEFINE p == list[At(id)]
  <2>1. p \in Query
    BY <1>4
  <2>2. CASE \E k \in Kinds : q = [p EXCEPT !.kind = k, !.text.kind = k]
    <3>1. PICK k \in Kinds : q = [p EXCEPT !.kind = k, !.text.kind = k]
      BY <2>2
    <3> DEFINE x == [p.text EXCEPT !.kind = k]
    <3>2. p.text \in Texts
      BY <2>1 DEF Query
    <3>3. x \in Texts
      BY <3>2 DEF Texts
    <3>4. q = [p EXCEPT !.kind = k, !.text = x]
      BY <2>1, <3>1 DEF Query
    <3> HIDE DEF x, p
    <3>5. q \in Query /\ q.id = p.id
      BY <2>1, <3>3, <3>4 DEF Query
    <3> QED BY <3>5 DEF p
  <2>3. CASE \E r \in BOOLEAN : q = [p EXCEPT !.ring = r, !.text.ring = r]
    <3>1. PICK r \in BOOLEAN : q = [p EXCEPT !.ring = r, !.text.ring = r]
      BY <2>3
    <3> DEFINE x == [p.text EXCEPT !.ring = r]
    <3>2. p.text \in Texts
      BY <2>1 DEF Query
    <3>3. x \in Texts
      BY <3>2 DEF Texts
    <3>4. q = [p EXCEPT !.ring = r, !.text = x]
      BY <2>1, <3>1 DEF Query
    <3> HIDE DEF x, p
    <3>5. q \in Query /\ q.id = p.id
      BY <2>1, <3>3, <3>4 DEF Query
    <3> QED BY <3>5 DEF p
  <2>4. CASE \E o \in BOOLEAN : q = [p EXCEPT !.on = o]
    BY <2>1, <2>4 DEF Query
  <2> QED BY <2>2, <2>3, <2>4 DEF Retouched
<1>6. ListTyped(l, nextId)
  <2>1. l \in Seq(Query) /\ DOMAIN l = DOMAIN list /\ \A i \in DOMAIN list : l[i].id = list[i].id
    <3>1. list \in Seq(Query) /\ DOMAIN list = 1 .. Len(list)
      BY <1>2, LenProperties DEF ListTyped
    <3> QED BY <1>4, <1>5, <3>1, ExceptSeq
  <2> HIDE DEF l
  <2> QED BY <1>2, <2>1, SameIds
<1> HIDE DEF l
<1>7. /\ ListTyped(l, nextId') /\ nextId' \in 1 .. MaxId + 1
      /\ timer' \subseteq Ids /\ file' \subseteq Bundles /\ clicks' \in Nat
  <2>1. nextId' = nextId /\ ListTyped(l, nextId)
    BY <1>2, <1>3, <1>6
  <2>2. ListTyped(l, nextId')
    BY <2>1
  <2> QED BY <1>2, <1>3, <2>1, <2>2
<1> QED
  BY <1>2, <1>3, <1>7, PushKeeps DEF elsewhere

\* The defaults again, under new ids.
LEMMA ResetKeeps ==
    ASSUME QueryInv, Reset
    PROVE  QueryInv'
<1>1. QueryTyped
  BY DEF QueryInv
<1>2. /\ nextId \in 1 .. MaxId + 1
      /\ WindowsTyped(window) /\ timer \subseteq Ids /\ file \subseteq Bundles /\ clicks \in Nat
  BY <1>1, TypedParts
<1>3. /\ nextId + Len(Defaults) - 1 <= MaxId /\ nextId' = nextId + Len(Defaults)
      /\ Push(Defaults, window, TRUE) /\ clicks' = clicks + 1
      /\ UNCHANGED <<revalidate, timer, file, elsewhere>>
  BY DEF Reset, Acting, Renew
<1>4. ListTyped(Defaults, nextId') /\ nextId' \in 1 .. MaxId + 1
  BY <1>2, <1>3, DefaultsAre
<1>5. timer' \subseteq Ids /\ file' \subseteq Bundles /\ clicks' \in Nat
  BY <1>2, <1>3, <1>4
<1> QED
  BY <1>2, <1>3, <1>4, <1>5, PushKeeps DEF elsewhere

\* The queries of a file, under new ids.
LEMMA ImportKeeps ==
    ASSUME QueryInv, Import
    PROVE  QueryInv'
<1>1. QueryTyped
  BY DEF QueryInv
<1>2. /\ nextId \in 1 .. MaxId + 1 /\ MaxId \in Nat
      /\ WindowsTyped(window) /\ timer \subseteq Ids /\ file \subseteq Bundles /\ clicks \in Nat
  BY <1>1, TypedParts, QueriesAssumption DEF RenderQueryConstants
<1>3. PICK f \in file : Renew([i \in DOMAIN f |->
                [id |-> nextId + i - 1, kind |-> f[i].kind, ring |-> FALSE, on |-> f[i].on,
                 text |-> f[i].text]])
  BY DEF Import
<1> DEFINE l == [i \in DOMAIN f |->
                [id |-> nextId + i - 1, kind |-> f[i].kind, ring |-> FALSE, on |-> f[i].on,
                 text |-> f[i].text]]
           c == Len(f)
<1>4. /\ nextId + Len(l) - 1 <= MaxId /\ nextId' = nextId + Len(l)
      /\ Push(l, window, TRUE) /\ clicks' = clicks + 1
      /\ UNCHANGED <<revalidate, timer, file, elsewhere>>
  BY <1>3 DEF Import, Acting, Renew
<1>5. /\ c \in Nat /\ DOMAIN f = 1 .. c
      /\ \A i \in 1 .. c : f[i] \in [kind : Kinds, on : BOOLEAN, text : Texts]
  BY <1>2, LenProperties, ElementOfSeq DEF Bundles
<1> HIDE DEF c
<1>6. DOMAIN l = 1 .. c /\ Len(l) = c
  BY <1>5
<1>7. \A i \in 1 .. c : nextId + i - 1 \in Ids
  BY <1>2, <1>4, <1>5, <1>6 DEF Ids
<1>8. \A i \in 1 .. c : l[i] \in Query /\ l[i].id = nextId + i - 1
  BY <1>5, <1>7 DEF Query
<1>9. l \in Seq(Query)
  <2>1. l \in [1 .. c -> Query]
    BY <1>5, <1>8
  <2> QED BY <1>5, <2>1, SeqDef
<1> HIDE DEF l
<1>10. ListTyped(l, nextId') /\ nextId' \in 1 .. MaxId + 1
  <2>1. ListTyped(l, nextId + Len(l))
    BY <1>2, <1>5, <1>6, <1>8, <1>9, Renewed
  <2>2. nextId + Len(l) \in 1 .. MaxId + 1
    BY <1>2, <1>4, <1>5, <1>6
  <2> QED BY <1>4, <2>1, <2>2
<1>11. timer' \subseteq Ids /\ file' \subseteq Bundles /\ clicks' \in Nat
  BY <1>2, <1>4, <1>10
<1> QED
  BY <1>2, <1>4, <1>10, <1>11, PushKeeps DEF elsewhere

\* The push that was due: the cards stay, the errors of what is pushed go.
LEMMA FireKeeps ==
    ASSUME QueryInv, NEW id \in timer, Fire(id)
    PROVE  QueryInv'
<1>1. QueryTyped
  BY DEF QueryInv
<1>2. /\ ListTyped(list, nextId) /\ nextId \in 1 .. MaxId + 1
      /\ WindowsTyped(window) /\ timer \subseteq Ids /\ file \subseteq Bundles /\ clicks \in Nat
  BY <1>1, TypedParts
<1>3. nextId' = nextId /\ Push(list, window, FALSE) /\ timer' = timer \ {id}
      /\ UNCHANGED <<revalidate, file, clicks, elsewhere>>
  BY DEF Fire
<1>4. /\ ListTyped(list, nextId') /\ nextId' \in 1 .. MaxId + 1
      /\ timer' \subseteq Ids /\ file' \subseteq Bundles /\ clicks' \in Nat
  <2>1. nextId' = nextId /\ ListTyped(list, nextId)
    BY <1>2, <1>3
  <2>2. ListTyped(list, nextId')
    BY <2>1
  <2> QED BY <1>2, <1>3, <2>1, <2>2
<1> QED
  BY <1>2, <1>3, <1>4, PushKeeps DEF elsewhere

\* The directives of a text become fields.
LEMMA BlurKeeps ==
    ASSUME QueryInv, NEW id, NEW t \in Texts, Blur(id, t)
    PROVE  QueryInv'
<1> DEFINE m == [list EXCEPT ![At(id)].kind = t.kind, ![At(id)].ring = t.ring]
           l == IF id \in Listed THEN m ELSE list
<1>1. QueryTyped
  BY DEF QueryInv
<1>2. /\ ListTyped(list, nextId) /\ nextId \in 1 .. MaxId + 1
      /\ WindowsTyped(window) /\ timer \subseteq Ids /\ file \subseteq Bundles /\ clicks \in Nat
  BY <1>1, TypedParts
<1>3. nextId' = nextId /\ Push(l, window, TRUE) /\ clicks' = clicks + 1
      /\ UNCHANGED <<revalidate, timer, file, elsewhere>>
  BY DEF Blur, Acting
<1>4. ASSUME id \in Listed PROVE ListTyped(m, nextId)
  <2>1. At(id) \in DOMAIN list /\ list[At(id)] \in Query
    BY <1>1, <1>4, ListedAt
  <2> DEFINE q == [list[At(id)] EXCEPT !.kind = t.kind, !.ring = t.ring]
  <2>2. q \in Query /\ q.id = list[At(id)].id
    BY <2>1 DEF Query, Texts
  <2>3. list \in Seq(Query) /\ DOMAIN list = 1 .. Len(list)
    BY <1>2, LenProperties DEF ListTyped
  <2>4. m = [list EXCEPT ![At(id)] = q]
    BY <2>1
  <2> HIDE DEF q, m
  <2>5. m \in Seq(Query) /\ DOMAIN m = DOMAIN list /\ \A i \in DOMAIN list : m[i].id = list[i].id
    BY <2>1, <2>2, <2>3, <2>4, ExceptSeq
  <2> QED BY <1>2, <2>5, SameIds
<1> HIDE DEF m
<1>5. ListTyped(l, nextId)
  BY <1>2, <1>4
<1> HIDE DEF l
<1>6. /\ ListTyped(l, nextId') /\ nextId' \in 1 .. MaxId + 1
      /\ timer' \subseteq Ids /\ file' \subseteq Bundles /\ clicks' \in Nat
  <2>1. nextId' = nextId /\ ListTyped(l, nextId)
    BY <1>2, <1>3, <1>5
  <2>2. ListTyped(l, nextId')
    BY <2>1
  <2> QED BY <1>2, <1>3, <2>1, <2>2
<1> QED
  BY <1>2, <1>3, <1>6, PushKeeps DEF elsewhere
-----------------------------------------------------------------------------
(* Steps that push nothing.                                                *)

\* What the page waits for, it waits for until it gets it.
LEMMA SettledBefore ==
    ASSUME timer' = timer, UnderWay({"defaults"}) => UnderWay({"defaults"})', SettledPage'
    PROVE  SettledPage
BY DEF SettledPage

\* What is sent besides queries leaves the last queries sent the last.
LEMMA SentBesides ==
    ASSUME toEngine \in Seq(ToEngineMsg),
           \/ toEngine' = toEngine
           \/ \E m \in ToEngineMsg : m.op # "config" /\ toEngine' = Append(toEngine, m)
    PROVE  /\ Range(toEngine) \subseteq Range(toEngine')
           /\ NoMore(toEngine', "config") => NoMore(toEngine, "config")
           /\ \A k \in DOMAIN (toEngine') : LastOf(toEngine', "config", k) =>
                  /\ k \in DOMAIN toEngine /\ LastOf(toEngine, "config", k)
                  /\ toEngine'[k] = toEngine[k]
<1>1. CASE toEngine' = toEngine
  BY <1>1
<1>2. CASE \E m \in ToEngineMsg : m.op # "config" /\ toEngine' = Append(toEngine, m)
  <2>1. PICK m \in ToEngineMsg : m.op # "config" /\ toEngine' = Append(toEngine, m)
    BY <1>2
  <2>2. Range(toEngine') = Range(toEngine) \cup {m}
    BY <2>1, MessageAdded
  <2>3. \A k \in DOMAIN toEngine : toEngine'[k] = toEngine[k]
    BY <2>1, MessageAdded
  <2>4. NoMore(toEngine', "config") => NoMore(toEngine, "config")
    BY <2>1, MessageAdded
  <2>5. \A k \in DOMAIN (toEngine') : LastOf(toEngine', "config", k) =>
            k \in DOMAIN toEngine /\ LastOf(toEngine, "config", k)
    BY <2>1, MessageAdded
  <2> QED BY <2>2, <2>3, <2>4, <2>5
<1> QED BY <1>1, <1>2

\* The queries, the slots and the replies stay, and the worker is at most sent
\* something else than queries.
LEMMA QuietKeeps ==
    ASSUME QueryInv, QueryTyped',
           list' = list, pushed' = pushed, revalidate' = revalidate, card' = card,
           timer' = timer, engine' = engine, attached' = attached, fromEngine' = fromEngine,
           crossed' = crossed,
           \/ toEngine' = toEngine
           \/ \E m \in ToEngineMsg : m.op # "config" /\ toEngine' = Append(toEngine, m)
    PROVE  QueryInv'
<1>1. /\ QueryTyped /\ PushedOk /\ OthersOk /\ SchemaOk /\ ConfigOk /\ EngineOk
      /\ ReplyOk /\ ShownOk /\ TrueOk
  BY DEF QueryInv
<1>2. toEngine \in Seq(ToEngineMsg)
  BY <1>1, TypedParts
<1>3. PushedOk' /\ OthersOk' /\ SchemaOk'
  BY <1>1 DEF PushedOk, OthersOk, SchemaOk
<1>4. /\ Range(toEngine) \subseteq Range(toEngine')
      /\ NoMore(toEngine', "config") => NoMore(toEngine, "config")
      /\ \A k \in DOMAIN (toEngine') : LastOf(toEngine', "config", k) =>
             k \in DOMAIN toEngine /\ LastOf(toEngine, "config", k) /\ toEngine'[k] = toEngine[k]
  BY <1>2, SentBesides
<1>5. SettledPage' => SettledPage
  <2>1. UnderWay({"defaults"}) => UnderWay({"defaults"})'
    BY <1>4 DEF UnderWay
  <2> QED BY <2>1, SettledBefore
<1>6. Dots(list)' = Dots(list) /\ Wanted' = Wanted /\ Bad' = Bad
  <2>1. Dots(list)' = Dots(list)
    OBVIOUS
  <2> QED BY <2>1 DEF Wanted, Bad
<1>7. ConfigOk'
  BY <1>1, <1>4, <1>5, <1>6 DEF ConfigOk
<1>8. EngineOk'
  BY <1>1, <1>4, <1>5, <1>6 DEF EngineOk
<1>9. ReplyOk'
  BY <1>1, <1>4, <1>5, <1>6 DEF ReplyOk
<1>10. ShownOk'
  BY <1>1, <1>4, <1>5, <1>6 DEF ShownOk
<1>11. TrueOk'
  BY <1>1, <1>5, <1>6 DEF TrueOk
<1> QED
  BY <1>3, <1>7, <1>8, <1>9, <1>10, <1>11 DEF QueryInv

\* The file: its queries are those of the list, without a shape.
LEMMA ExportKeeps ==
    ASSUME QueryInv, Export
    PROVE  QueryInv'
<1> USE DEF elsewhere, editors, drawing, worker
<1>1. QueryTyped
  BY DEF QueryInv
<1>2. Saved(list) \in Bundles
  <2>1. /\ DOMAIN list = 1 .. Len(list) /\ Len(list) \in Nat
        /\ \A i \in 1 .. Len(list) : list[i] \in Query
    <3>1. list \in Seq(Query)
      BY <1>1, TypedParts DEF ListTyped
    <3> QED BY <3>1, LenProperties, ElementOfSeq
  <2>2. Saved(list) \in [1 .. Len(list) -> [kind : Kinds, on : BOOLEAN, text : Texts]]
    BY <2>1 DEF Saved, Query
  <2> QED BY <2>1, <2>2, SeqDef DEF Bundles
<1>3. file' \subseteq Bundles /\ clicks' \in Nat
  BY <1>1, <1>2, TypedParts DEF Export, Acting
<1>4. QueryTyped'
  BY <1>1, <1>3, TypedParts, TypedWhole DEF Export
<1> QED
  BY <1>4, QuietKeeps DEF Export

\* A window of a query that has none.
LEMMA OpenWindowKeeps ==
    ASSUME QueryInv, NEW id \in Listed, OpenWindow(id)
    PROVE  QueryInv'
<1> USE DEF elsewhere, drawing, worker
<1>1. QueryTyped
  BY DEF QueryInv
<1>2. list[At(id)] \in Query /\ id \in Ids
  BY <1>1, ListedAt
<1>3. WindowsTyped(window')
  <2> DEFINE u == [id |-> id, text |-> list[At(id)].text, status |-> ""]
  <2>1. u \in [id : Ids, text : Texts, status : Status] /\ u.id = id
    BY <1>2 DEF Query, Status
  <2>2. window' = window \cup {u} /\ \A v \in window : v.id # id
    BY DEF OpenWindow
  <2>3. WindowsTyped(window)
    BY <1>1, TypedParts
  <2> HIDE DEF u
  <2> QED BY <2>1, <2>2, <2>3 DEF WindowsTyped
<1>4. clicks' \in Nat
  <2> HIDE DEF elsewhere, drawing, worker
  <2>1. clicks' = clicks + 1
    BY DEF OpenWindow, Acting
  <2> QED BY <1>1, <2>1, TypedParts
<1>5. QueryTyped'
  BY <1>1, <1>3, <1>4, TypedParts, TypedWhole DEF OpenWindow
<1> QED
  BY <1>5, QuietKeeps DEF OpenWindow

\* A window that closes.
LEMMA CloseWindowKeeps ==
    ASSUME QueryInv, NEW v \in window, CloseWindow(v)
    PROVE  QueryInv'
<1> USE DEF elsewhere, drawing, worker
<1>1. QueryTyped
  BY DEF QueryInv
<1>2. WindowsTyped(window')
  <2>1. WindowsTyped(window) /\ window' = window \ {v}
    BY <1>1, TypedParts DEF CloseWindow
  <2> QED BY <2>1 DEF WindowsTyped
<1>3. clicks' \in Nat
  BY <1>1, TypedParts DEF CloseWindow, Acting
<1>4. QueryTyped'
  BY <1>1, <1>2, <1>3, TypedParts, TypedWhole DEF CloseWindow
<1> QED
  BY <1>4, QuietKeeps DEF CloseWindow

\* A revert that is asked for.
LEMMA RevertListKeeps ==
    ASSUME QueryInv, RevertList
    PROVE  QueryInv'
<1> USE DEF elsewhere, editors, drawing, worker
<1> DEFINE m == [op |-> "revert"]
<1>1. QueryTyped
  BY DEF QueryInv
<1>2. m \in ToEngineMsg /\ m.op # "config" /\ toEngine' = Append(toEngine, m)
  BY DEF RevertList, ToEngineMsg, Bare
<1>3. toEngine' \in Seq(ToEngineMsg) /\ clicks' \in Nat
  <2>1. toEngine \in Seq(ToEngineMsg) /\ clicks \in Nat
    BY <1>1, TypedParts
  <2> HIDE DEF m
  <2>2. toEngine' \in Seq(ToEngineMsg)
    BY <1>2, <2>1, AppendProperties
  <2>3. clicks' \in Nat
    <3> HIDE DEF elsewhere, editors, drawing, worker
    <3>1. clicks' = clicks + 1
      BY DEF RevertList, Acting
    <3> QED BY <2>1, <3>1
  <2> QED BY <2>2, <2>3
<1>4. QueryTyped'
  BY <1>1, <1>3, TypedParts, TypedWhole DEF RevertList
<1> QED
  BY <1>2, <1>4, QuietKeeps DEF RevertList

\* The cursor enters or leaves a battle.
LEMMA SeekKeeps ==
    ASSUME QueryInv, Seek
    PROVE  QueryInv'
<1> USE DEF elsewhere, editors, drawing, worker
<1>1. QueryTyped
  BY DEF QueryInv
<1>2. battle' \in BOOLEAN /\ clicks' \in Nat
  BY <1>1, TypedParts DEF Seek, Acting
<1>3. QueryTyped'
  BY <1>1, <1>2, TypedParts, TypedWhole DEF Seek
<1> QED
  BY <1>3, QuietKeeps DEF Seek

\* A request for a frame.
LEMMA FrameAsked ==
    ASSUME QueryTyped, toEngine' = IF pending THEN toEngine
                                   ELSE Append(toEngine, [op |-> "frame", battle |-> battle])
    PROVE  /\ toEngine' \in Seq(ToEngineMsg)
           /\ \/ toEngine' = toEngine
              \/ \E m \in ToEngineMsg : m.op # "config" /\ toEngine' = Append(toEngine, m)
<1> DEFINE m == [op |-> "frame", battle |-> battle]
<1>1. toEngine \in Seq(ToEngineMsg) /\ battle \in BOOLEAN
  BY TypedParts
<1>2. m \in ToEngineMsg /\ m.op # "config"
  BY <1>1 DEF ToEngineMsg
<1> HIDE DEF m
<1>3. Append(toEngine, m) \in Seq(ToEngineMsg)
  BY <1>1, <1>2, AppendProperties
<1>4. toEngine' = IF pending THEN toEngine ELSE Append(toEngine, m)
  BY DEF m
<1> QED BY <1>1, <1>2, <1>3, <1>4

\* The render loop asks for a frame at most, and draws the last one.
LEMMA LoopKeeps ==
    ASSUME QueryInv, Loop
    PROVE  QueryInv'
<1> USE DEF editors, worker
<1>1. QueryTyped
  BY DEF QueryInv
<1>2. /\ toEngine' \in Seq(ToEngineMsg)
      /\ \/ toEngine' = toEngine
         \/ \E m \in ToEngineMsg : m.op # "config" /\ toEngine' = Append(toEngine, m)
  BY <1>1, FrameAsked DEF Loop
<1>3. screen' \in Seq(SlotRows) /\ Len(screen') <= ScreenMax
  <2> DEFINE n == IF Len(latest) < ScreenMax THEN Len(latest) ELSE ScreenMax
             m == IF Len(screen) < n THEN n ELSE Len(screen)
  <2>1. /\ latest \in Seq(SlotRows) /\ screen \in Seq(SlotRows) /\ Len(screen) <= ScreenMax
        /\ ScreenMax \in Nat
    BY <1>1, TypedParts, QueriesAssumption DEF Drawable, RenderQueryConstants
  <2>2. Len(latest) \in Nat /\ Len(screen) \in Nat
    BY <2>1, LenProperties
  <2>3. /\ m \in Nat /\ n \in Nat /\ n <= m /\ m <= ScreenMax /\ n <= Len(latest)
        /\ n < m => m <= Len(screen)
    BY <2>1, <2>2
  <2>4. screen' = [i \in 1 .. m |-> IF i <= n THEN latest[i] ELSE screen[i]]
    BY DEF Loop, Copied
  <2> HIDE DEF m, n
  <2>5. ASSUME NEW i \in 1 .. m
        PROVE  (IF i <= n THEN latest[i] ELSE screen[i]) \in SlotRows
    <3>1. CASE i <= n
      <4>1. i \in 1 .. Len(latest)
        BY <2>2, <2>3, <3>1
      <4> QED BY <2>1, <3>1, <4>1, ElementOfSeq
    <3>2. CASE ~ (i <= n)
      <4>1. i \in 1 .. Len(screen)
        BY <2>2, <2>3, <3>2
      <4> QED BY <2>1, <3>2, <4>1, ElementOfSeq
    <3> QED BY <3>1, <3>2
  <2>6. screen' \in [1 .. m -> SlotRows]
    BY <2>4, <2>5
  <2>7. screen' \in Seq(SlotRows)
    BY <2>3, <2>6, SeqDef
  <2>8. Len(screen') = m
    BY <2>3, <2>4
  <2> QED BY <2>3, <2>7, <2>8
<1>4. pending' = TRUE
  BY DEF Loop
<1>5. QueryTyped'
  BY <1>1, <1>2, <1>3, <1>4, TypedParts, TypedWhole DEF Loop
<1> QED
  BY <1>2, <1>5, QuietKeeps DEF Loop

\* The push that is due after a key was pressed settles what the key changed.
LEMMA TypeKeeps ==
    ASSUME QueryInv, NEW id \in Ids, NEW t \in Texts, Type(id, t)
    PROVE  QueryInv'
<1> USE DEF elsewhere, drawing, worker
<1>1. QueryTyped /\ PushedOk /\ OthersOk /\ SchemaOk
  BY DEF QueryInv
<1>2. ListTyped(list, nextId) /\ WindowsTyped(window) /\ timer \subseteq Ids /\ clicks \in Nat
  BY <1>1, TypedParts
<1>3. /\ list' \in Seq(Query) /\ DOMAIN (list') = DOMAIN list
      /\ \A i \in DOMAIN list : list'[i].id = list[i].id /\ list'[i].kind = list[i].kind
  <2>1. list \in Seq(Query) /\ DOMAIN list = 1 .. Len(list)
    BY <1>2, LenProperties DEF ListTyped
  <2>2. CASE id \in Listed
    <3>1. At(id) \in DOMAIN list /\ list[At(id)] \in Query
      BY <1>1, <2>2, ListedAt
    <3> DEFINE q == [list[At(id)] EXCEPT !.text = t]
    <3>2. q \in Query /\ q.id = list[At(id)].id /\ q.kind = list[At(id)].kind
      BY <3>1 DEF Query
    <3>3. list' = [list EXCEPT ![At(id)] = q]
      BY <2>2, <3>1 DEF Type
    <3> HIDE DEF q
    <3> QED BY <2>1, <3>1, <3>2, <3>3, ExceptSeq
  <2>3. CASE id \notin Listed
    BY <2>1, <2>3 DEF Type
  <2> QED BY <2>2, <2>3
<1>4. ListTyped(list', nextId') /\ nextId' = nextId
  <2>1. nextId' = nextId
    BY DEF Type
  <2> HIDE DEF elsewhere
  <2> QED BY <1>2, <1>3, <2>1, SameIds
<1>5. WindowsTyped(window')
  <2> DEFINE F(v) == IF v.id = id THEN [v EXCEPT !.text = t] ELSE v
  <2>1. \A v \in window : F(v) \in [id : Ids, text : Texts, status : Status] /\ F(v).id = v.id
    BY <1>2 DEF WindowsTyped
  <2>2. window' = {F(v) : v \in window}
    BY DEF Type
  <2> HIDE DEF F
  <2>3. window' \subseteq [id : Ids, text : Texts, status : Status]
    BY <2>1, <2>2
  <2>4. ASSUME NEW u \in window', NEW v \in window', u.id = v.id PROVE u = v
    <3>1. PICK x \in window : u = F(x)
      BY <2>2
    <3>2. PICK y \in window : v = F(y)
      BY <2>2
    <3>3. x.id = y.id
      BY <2>1, <2>4, <3>1, <3>2
    <3>4. x = y
      BY <1>2, <3>3 DEF WindowsTyped
    <3> QED BY <3>1, <3>2, <3>4
  <2> QED BY <2>3, <2>4 DEF WindowsTyped
<1>6. timer' \subseteq Ids /\ timer' # {} /\ clicks' \in Nat
  BY <1>2 DEF Type, Acting
<1>7. QueryTyped'
  <2>1. ListTyped(list, nextId)' /\ WindowsTyped(window)'
    BY <1>4, <1>5
  <2> QED BY <1>1, <1>6, <2>1, TypedParts, TypedWhole DEF Type
<1>8. PushedOk'
  <2>1. IdsOf(Dots(list')) = IdsOf(Dots(list))
    BY <1>2, <1>3, SameDots DEF ListTyped
  <2> QED BY <1>1, <2>1 DEF PushedOk, Type
<1>9. OthersOk'
  BY <1>1, <1>3 DEF OthersOk, Type
<1>10. SchemaOk'
  BY <1>1 DEF SchemaOk, Type
<1>11. ~ SettledPage'
  BY <1>6 DEF SettledPage
<1> QED
  BY <1>7, <1>8, <1>9, <1>10, <1>11
  DEF QueryInv, ConfigOk, EngineOk, ReplyOk, ShownOk, TrueOk
-----------------------------------------------------------------------------
(* The worker's turns.                                                     *)

\* The fields of the messages.
LEMMA EngineMessages ==
    ASSUME NEW m \in ToEngineMsg
    PROVE  /\ m.op \in {"defaults", "revert", "config", "frame"}
           /\ m.op = "defaults" => m \in ToPageMsg
           /\ m.op = "config" => m.queries \in Seq(Query)
           /\ m.op = "frame" => m.battle \in BOOLEAN
BY DEF ToEngineMsg, ToPageMsg, Bare

\* And of the replies.
LEMMA PageMessages ==
    ASSUME NEW m \in ToPageMsg
    PROVE  /\ m.op \in {"defaults", "reverted", "configured", "frame"}
           /\ m.op = "configured" => m.errors \in SUBSET Nat
           /\ m.op = "frame" => m.battle \in BOOLEAN /\ m.slots \in Drawable
BY DEF ToPageMsg, Bare

\* What stays as long as the list, its cards and the timers do.
LEMMA SameList ==
    ASSUME list' = list
    PROVE  Dots(list)' = Dots(list) /\ Wanted' = Wanted /\ Bad' = Bad
<1>1. Dots(list)' = Dots(list)
  OBVIOUS
<1> QED BY <1>1 DEF Wanted, Bad

\* The worker takes a message and answers: the page goes on waiting for what it
\* waited for.
LEMMA TurnSettles ==
    ASSUME QueryTyped, toEngine # <<>>, toEngine' = Tail(toEngine), timer' = timer,
           NEW p \in ToPageMsg, fromEngine' = Append(fromEngine, p),
           Head(toEngine).op = "defaults" => p.op = "defaults", SettledPage'
    PROVE  SettledPage
<1>1. toEngine \in Seq(ToEngineMsg) /\ fromEngine \in Seq(ToPageMsg)
  BY TypedParts
<1>2. Range(toEngine) = Range(toEngine') \cup {Head(toEngine)}
  BY <1>1, MessageTaken
<1>3. Range(fromEngine') = Range(fromEngine) \cup {p}
  BY <1>1, RangeAdded
<1>4. UnderWay({"defaults"}) => UnderWay({"defaults"})'
  BY <1>2, <1>3 DEF UnderWay
<1> QED BY <1>4, SettledBefore

\* A turn that configures nothing.
LEMMA TurnKeeps ==
    ASSUME QueryInv, QueryTyped', SchemaOk', toEngine # <<>>, toEngine' = Tail(toEngine),
           NEW p \in ToPageMsg, fromEngine' = Append(fromEngine, p),
           Head(toEngine).op # "config", p.op # "configured",
           Head(toEngine).op = "defaults" => p.op = "defaults",
           list' = list, pushed' = pushed, revalidate' = revalidate, card' = card,
           timer' = timer, engine' = engine, crossed' = crossed
    PROVE  QueryInv'
<1>1. /\ QueryTyped /\ PushedOk /\ OthersOk /\ ConfigOk /\ EngineOk /\ ReplyOk /\ ShownOk /\ TrueOk
  BY DEF QueryInv
<1>2. toEngine \in Seq(ToEngineMsg) /\ fromEngine \in Seq(ToPageMsg)
  BY <1>1, TypedParts
<1>3. SettledPage' => SettledPage
  BY <1>1, TurnSettles
<1>4. Dots(list)' = Dots(list) /\ Wanted' = Wanted /\ Bad' = Bad
  BY SameList
<1>5. PushedOk' /\ OthersOk'
  BY <1>1 DEF PushedOk, OthersOk
<1>6. TrueOk'
  BY <1>1, <1>3, <1>4 DEF TrueOk
<1>7. NoMore(toEngine', "config") => NoMore(toEngine, "config")
  BY <1>2, MessageTaken
<1>8. EngineOk'
  BY <1>1, <1>3, <1>4, <1>7 DEF EngineOk
<1>9. ConfigOk'
  <2> SUFFICES ASSUME SettledPage', NEW k \in DOMAIN (toEngine'), LastOf(toEngine', "config", k)
               PROVE  toEngine'[k].queries = Dots(list)
    BY <1>4 DEF ConfigOk
  <2>1. LastOf(toEngine, "config", k + 1)
    BY <1>2, MessageTaken
  <2>2. k + 1 \in DOMAIN toEngine /\ toEngine'[k] = toEngine[k + 1]
    BY <1>2, MessageTaken
  <2> QED BY <1>1, <1>3, <2>1, <2>2 DEF ConfigOk
<1>10. ReplyOk'
  <2> SUFFICES ASSUME SettledPage', NoMore(toEngine', "config"), NEW k \in DOMAIN (fromEngine'),
                      LastOf(fromEngine', "configured", k)
               PROVE  /\ Bad \subseteq fromEngine'[k].errors
                      /\ \/ fromEngine'[k].errors \subseteq Bad
                         \/ StaleAt(fromEngine', revalidate, k - 1)
    BY <1>4 DEF ReplyOk
  <2>1. k \in DOMAIN fromEngine /\ LastOf(fromEngine, "configured", k)
    BY <1>2, MessageAdded
  <2>2. fromEngine'[k] = fromEngine[k]
    BY <1>2, <2>1, MessageAdded
  <2>3. k - 1 \in 0 .. Len(fromEngine)
    BY <1>2, <2>1, LenProperties
  <2>4. StaleAt(fromEngine, revalidate, k - 1) => StaleAt(fromEngine', revalidate, k - 1)
    BY <1>2, <2>3, StaleAdded
  <2> QED BY <1>1, <1>3, <1>7, <2>1, <2>2, <2>4 DEF ReplyOk
<1>11. ShownOk'
  <2>1. NoMore(fromEngine', "configured") => NoMore(fromEngine, "configured")
    BY <1>2, MessageAdded
  <2> QED BY <1>1, <1>3, <1>4, <1>7, <2>1 DEF ShownOk
<1> QED
  BY <1>5, <1>6, <1>8, <1>9, <1>10, <1>11 DEF QueryInv

\* What is left of the queues, and what the worker adds, is typed.
LEMMA TurnTypes ==
    ASSUME QueryTyped, toEngine # <<>>, toEngine' = Tail(toEngine),
           NEW p \in ToPageMsg, fromEngine' = Append(fromEngine, p),
           engine' \in Seq([text : Texts, ring : BOOLEAN, on : BOOLEAN]),
           Len(engine') <= EngineMax, attached' \in BOOLEAN,
           UNCHANGED <<list, nextId, pushed, revalidate, editors, file, battle, drawing, crossed,
                       clicks>>
    PROVE  QueryTyped'
<1>1. toEngine' \in Seq(ToEngineMsg)
  BY TypedParts, HeadTailProperties
<1>2. fromEngine' \in Seq(ToPageMsg)
  BY TypedParts, AppendProperties
<1> QED
  BY <1>1, <1>2, TypedParts, TypedWhole DEF editors, drawing

\* The worker's frame: each slot shows its text or nothing.
LEMMA RenderedIs ==
    ASSUME QueryTyped, NEW b
    PROVE  Rendered(engine, b) \in Drawable
<1>1. /\ engine \in Seq([text : Texts, ring : BOOLEAN, on : BOOLEAN]) /\ Len(engine) <= EngineMax
  BY TypedParts
<1>2. /\ Len(engine) \in Nat /\ DOMAIN engine = 1 .. Len(engine)
      /\ \A i \in 1 .. Len(engine) : engine[i] \in [text : Texts, ring : BOOLEAN, on : BOOLEAN]
  BY <1>1, LenProperties, ElementOfSeq
<1> DEFINE F(i) == [rows |-> IF engine[i].on /\ engine[i].text.good /\ b
                             THEN {engine[i].text} ELSE {},
                    ring |-> engine[i].ring]
<1>3. \A i \in 1 .. Len(engine) : F(i) \in SlotRows
  BY <1>2 DEF SlotRows
<1>4. Rendered(engine, b) = [i \in 1 .. Len(engine) |-> F(i)]
  BY <1>2 DEF Rendered
<1> HIDE DEF F
<1>5. Rendered(engine, b) \in [1 .. Len(engine) -> SlotRows]
  BY <1>3, <1>4
<1>6. Rendered(engine, b) \in Seq(SlotRows) /\ Len(Rendered(engine, b)) = Len(engine)
  <2>1. Rendered(engine, b) \in Seq(SlotRows)
    BY <1>2, <1>5, SeqDef
  <2> QED BY <1>2, <1>4, <2>1
<1> QED BY <1>1, <1>6 DEF Drawable

\* What the last configuration leaves, and the errors it answers with.
LEMMA TurnConfigures ==
    ASSUME QueryInv, toEngine # <<>>, Head(toEngine).op = "config",
           toEngine' = Tail(toEngine), engine' = Configured(Head(toEngine).queries),
           fromEngine' = Append(fromEngine, [op |-> "configured", errors |-> Failing(engine')]),
           attached' = attached,
           UNCHANGED <<list, nextId, pushed, revalidate, editors, file, battle, drawing, crossed,
                       clicks>>
    PROVE  QueryInv'
<1> DEFINE p == [op |-> "configured", errors |-> Failing(engine)']
           S == [text : Texts, ring : BOOLEAN, on : BOOLEAN]
           q == Head(toEngine).queries
<1>1. /\ QueryTyped /\ PushedOk /\ OthersOk /\ SchemaOk /\ ConfigOk /\ EngineOk /\ ReplyOk
      /\ ShownOk /\ TrueOk
  BY DEF QueryInv
<1>2. /\ toEngine \in Seq(ToEngineMsg) /\ fromEngine \in Seq(ToPageMsg)
      /\ engine \in Seq(S) /\ Len(engine) <= EngineMax /\ attached \in BOOLEAN
  BY <1>1, TypedParts
<1>3. Head(toEngine) \in ToEngineMsg /\ q \in Seq(Query)
  BY <1>2, HeadTailProperties, EngineMessages
<1> DEFINE want(s) == FirstOf([i \in DOMAIN s |-> Slot(s[i])], EngineMax)
<1>4. engine' = want(q) /\ engine' \in Seq(S) /\ Len(engine') <= EngineMax
  <2>1. engine' = want(q)
    BY <1>2, <1>3, ConfiguredIs
  <2>2. want(q) \in Seq(S) /\ Len(want(q)) = IF Len(q) < EngineMax THEN Len(q) ELSE EngineMax
    BY <1>3, WantedIs
  <2>3. Len(q) \in Nat /\ EngineMax \in Nat
    BY <1>3, LenProperties, QueriesAssumption DEF RenderQueryConstants
  <2> HIDE DEF want, q, S
  <2> QED BY <2>1, <2>2, <2>3
<1>5. p \in ToPageMsg /\ p.op = "configured" /\ p.errors = Failing(engine)'
  <2>1. DOMAIN (engine') = 1 .. Len(engine') /\ Len(engine') \in Nat
    <3> HIDE DEF S
    <3> QED BY <1>4, LenProperties
  <2>2. Failing(engine)' \in SUBSET Nat
    BY <2>1 DEF Failing
  <2> QED BY <2>2 DEF ToPageMsg
<1>6. fromEngine' = Append(fromEngine, p)
  BY DEF Failing
<1> HIDE DEF p, want, S
<1>7. QueryTyped'
  <2> HIDE DEF q
  <2> QED BY <1>1, <1>2, <1>4, <1>5, <1>6, TurnTypes DEF S
<1>8. list' = list /\ pushed' = pushed /\ revalidate' = revalidate /\ card' = card
      /\ timer' = timer /\ crossed' = crossed
  BY DEF editors
<1>9. SettledPage' => SettledPage
  BY <1>1, <1>5, <1>6, <1>8, TurnSettles
<1>10. Dots(list)' = Dots(list) /\ Wanted' = Wanted /\ Bad' = Bad
  BY <1>8, SameList
<1>11. PushedOk' /\ OthersOk'
  BY <1>1, <1>8 DEF PushedOk, OthersOk
<1>12. TrueOk'
  BY <1>1, <1>8, <1>9, <1>10 DEF TrueOk
<1>13. SchemaOk'
  <2>1. ~ BattleFrame(p)
    BY <1>5 DEF BattleFrame
  <2>2. StaleAt(fromEngine, revalidate, Len(fromEngine)) =>
        StaleAt(fromEngine', revalidate, Len(fromEngine) + 1)
    BY <1>2, <1>5, <1>6, <2>1, StaleAdded
  <2>3. Len(fromEngine') = Len(fromEngine) + 1
    BY <1>2, <1>5, <1>6, MessageAdded
  <2> QED BY <1>1, <1>8, <2>2, <2>3 DEF SchemaOk
<1>14. ConfigOk'
  <2> SUFFICES ASSUME SettledPage', NEW k \in DOMAIN (toEngine'), LastOf(toEngine', "config", k)
               PROVE  toEngine'[k].queries = Dots(list)
    BY <1>10 DEF ConfigOk
  <2>1. LastOf(toEngine, "config", k + 1)
    BY <1>2, MessageTaken
  <2>2. k + 1 \in DOMAIN toEngine /\ toEngine'[k] = toEngine[k + 1]
    BY <1>2, MessageTaken
  <2> QED BY <1>1, <1>9, <2>1, <2>2 DEF ConfigOk
<1>15. ASSUME SettledPage', NoMore(toEngine', "config") PROVE q = Dots(list) /\ engine' = Wanted
  <2>1. Head(toEngine) = toEngine[1] /\ 1 \in DOMAIN toEngine
    <3>1. Head(toEngine) = toEngine[1]
      BY <1>2, MessageTaken
    <3>2. DOMAIN toEngine = 1 .. Len(toEngine) /\ Len(toEngine) \in Nat \ {0}
      BY <1>2, MessageTaken
    <3> QED BY <3>1, <3>2
  <2>2. ~ NoMore(toEngine, "config")
    BY <2>1 DEF NoMore
  <2>3. LastOf(toEngine, "config", 1)
    BY <1>2, <1>15, <2>2, MessageTaken
  <2>4. toEngine[1].queries = Dots(list)
    BY <1>1, <1>9, <1>15, <2>1, <2>3 DEF ConfigOk
  <2> QED BY <1>4, <2>1, <2>4 DEF Wanted, want
<1>16. EngineOk'
  BY <1>10, <1>15 DEF EngineOk
<1>17. ASSUME SettledPage', NoMore(toEngine', "config")
       PROVE  Bad \subseteq p.errors /\ (attached => p.errors \subseteq Bad)
  <2>1. list \in Seq(Query)
    BY <1>1, TypedParts DEF ListTyped
  <2>2. /\ DOMAIN (engine') = {i \in DOMAIN Dots(list) : i <= EngineMax}
        /\ \A i \in DOMAIN (engine') : engine'[i] = Slot(Dots(list)[i])
    BY <1>15, <1>17, <2>1, WantedSlots
  <2>3. ASSUME NEW i \in DOMAIN (engine') PROVE engine'[i].text = Dots(list)[i].text
    <3>1. \A x : Slot(x).text = x.text
      BY DEF Slot
    <3> QED BY <2>2, <3>1
  <2>4. p.errors = {i \in DOMAIN (engine') : ~ (engine'[i].text.good /\ attached)}
    BY <1>5 DEF Failing
  <2>5. Bad = {i \in DOMAIN (engine') : ~ engine'[i].text.good}
    BY <2>2, <2>3 DEF Bad
  <2> QED BY <2>4, <2>5
<1>18. ReplyOk'
  <2> SUFFICES ASSUME SettledPage', NoMore(toEngine', "config"), NEW k \in DOMAIN (fromEngine'),
                      LastOf(fromEngine', "configured", k)
               PROVE  /\ Bad \subseteq fromEngine'[k].errors
                      /\ \/ fromEngine'[k].errors \subseteq Bad
                         \/ StaleAt(fromEngine', revalidate, k - 1)
    BY <1>8, <1>10 DEF ReplyOk
  <2>1. k = Len(fromEngine) + 1
    <3>1. k \in DOMAIN Append(fromEngine, p) /\ LastOf(Append(fromEngine, p), "configured", k)
      BY <1>6
    <3>2. fromEngine \in Seq(ToPageMsg) /\ p \in ToPageMsg /\ p.op = "configured"
      BY <1>2, <1>5
    <3> QED BY <3>1, <3>2, MessageAdded
  <2>2. fromEngine'[Len(fromEngine) + 1] = p
    BY <1>2, <1>5, <1>6, MessageAdded
  <2>3. Len(fromEngine) \in Nat
    BY <1>2, LenProperties
  <2>4. k - 1 = Len(fromEngine) /\ Len(fromEngine) \in 0 .. Len(fromEngine)
    BY <2>1, <2>3
  <2>5. ~ attached => StaleAt(fromEngine', revalidate, Len(fromEngine))
    BY <1>1, <1>2, <1>5, <1>6, <2>4, StaleAdded DEF SchemaOk
  <2> QED BY <1>17, <2>1, <2>2, <2>4, <2>5
<1>19. ShownOk'
  <2>1. ~ NoMore(fromEngine', "configured")
    BY <1>2, <1>5, <1>6, MessageAdded
  <2> QED BY <2>1 DEF ShownOk
<1> QED
  BY <1>7, <1>11, <1>12, <1>13, <1>14, <1>16, <1>18, <1>19 DEF QueryInv

\* A turn of the worker: when it detaches b it says so, and when it attaches b it
\* sends a frame of a battle.
LEMMA WorkKeeps ==
    ASSUME QueryInv, Work
    PROVE  QueryInv'
<1> DEFINE m == Head(toEngine)
<1>1. QueryTyped /\ SchemaOk
  BY DEF QueryInv
<1>2. /\ toEngine \in Seq(ToEngineMsg) /\ fromEngine \in Seq(ToPageMsg)
      /\ engine \in Seq([text : Texts, ring : BOOLEAN, on : BOOLEAN])
      /\ Len(engine) <= EngineMax /\ attached \in BOOLEAN
  BY <1>1, TypedParts
<1>3. /\ toEngine # <<>> /\ toEngine' = Tail(toEngine)
      /\ UNCHANGED <<list, nextId, pushed, revalidate, editors, file, battle, drawing, crossed,
                     clicks>>
  BY DEF Work
<1>4. /\ list' = list /\ pushed' = pushed /\ revalidate' = revalidate /\ card' = card
      /\ timer' = timer /\ crossed' = crossed
  BY <1>3 DEF editors
<1>5. m \in ToEngineMsg
  BY <1>2, <1>3, HeadTailProperties
<1>6. /\ m.op = "defaults" => m \in ToPageMsg
      /\ m.op = "frame" => m.battle \in BOOLEAN
  BY <1>5, EngineMessages
<1>7. ASSUME NEW p \in ToPageMsg, fromEngine' = Append(fromEngine, p),
             ~ attached' => ~ BattleFrame(p), attached => attached' \/ p.op = "reverted"
      PROVE  SchemaOk'
  <2>1. Len(fromEngine') = Len(fromEngine) + 1
    BY <1>2, <1>7, MessageAdded
  <2>2. CASE attached'
    BY <2>2 DEF SchemaOk
  <2>3. CASE ~ attached' /\ p.op = "reverted"
    <3>1. StaleAt(fromEngine', revalidate, Len(fromEngine) + 1)
      BY <1>2, <1>7, <2>3, StaleAdded
    <3> QED BY <1>4, <2>1, <3>1 DEF SchemaOk
  <2>4. CASE ~ attached' /\ ~ attached
    <3>1. StaleAt(fromEngine, revalidate, Len(fromEngine)) /\ ~ BattleFrame(p)
      BY <1>1, <1>7, <2>4 DEF SchemaOk
    <3>2. StaleAt(fromEngine', revalidate, Len(fromEngine) + 1)
      BY <1>2, <1>7, <3>1, StaleAdded
    <3> QED BY <1>4, <2>1, <3>2 DEF SchemaOk
  <2> QED BY <1>7, <2>2, <2>3, <2>4
<1>8. CASE m.op = "defaults" /\ fromEngine' = Append(fromEngine, m) /\ UNCHANGED worker
  <2>1. engine' = engine /\ attached' = attached /\ m.op # "config" /\ m.op # "configured"
    BY <1>8 DEF worker
  <2>2. QueryTyped'
    BY <1>1, <1>2, <1>3, <1>6, <1>8, <2>1, TurnTypes
  <2>3. SchemaOk'
    <3>1. ~ BattleFrame(m)
      BY <1>8 DEF BattleFrame
    <3> QED BY <1>6, <1>7, <1>8, <2>1, <3>1
  <2> HIDE DEF m
  <2> QED BY <1>3, <1>4, <1>6, <1>8, <2>1, <2>2, <2>3, TurnKeeps DEF m
<1>9. CASE /\ m.op = "config" /\ engine' = Configured(m.queries)
           /\ fromEngine' = Append(fromEngine, [op |-> "configured", errors |-> Failing(engine')])
           /\ UNCHANGED attached
  BY <1>3, <1>9, TurnConfigures
<1>10. CASE /\ m.op = "frame" /\ attached' = (attached \/ m.battle)
            /\ fromEngine' = Append(fromEngine,
                   [op |-> "frame", battle |-> m.battle, slots |-> Rendered(engine, attached')])
            /\ UNCHANGED engine
  <2> DEFINE p == [op |-> "frame", battle |-> m.battle, slots |-> Rendered(engine, attached')]
  <2>1. p \in ToPageMsg /\ p.op = "frame" /\ p.battle = m.battle
    <3>1. Rendered(engine, attached') \in Drawable
      BY <1>1, RenderedIs
    <3> QED BY <1>6, <1>10, <3>1 DEF ToPageMsg
  <2>2. fromEngine' = Append(fromEngine, p)
    BY <1>10
  <2> HIDE DEF p
  <2>3. engine' = engine /\ attached' \in BOOLEAN /\ m.op # "config" /\ m.op # "defaults"
    BY <1>2, <1>6, <1>10
  <2>4. QueryTyped'
    BY <1>1, <1>2, <1>3, <2>1, <2>2, <2>3, TurnTypes
  <2>5. SchemaOk'
    <3>1. ~ attached' => ~ BattleFrame(p)
      BY <1>10, <2>1 DEF BattleFrame
    <3> QED BY <1>7, <1>10, <2>1, <2>2, <3>1
  <2> QED BY <1>3, <1>4, <2>1, <2>2, <2>3, <2>4, <2>5, TurnKeeps
<1>11. CASE /\ m.op = "revert" /\ attached' = FALSE
            /\ fromEngine' = Append(fromEngine, [op |-> "reverted"])
            /\ UNCHANGED engine
  <2> DEFINE p == [op |-> "reverted"]
  <2>1. p \in ToPageMsg /\ p.op = "reverted"
    BY DEF ToPageMsg, Bare
  <2>2. fromEngine' = Append(fromEngine, p)
    BY <1>11
  <2> HIDE DEF p
  <2>3. engine' = engine /\ attached' \in BOOLEAN /\ m.op # "config" /\ m.op # "defaults"
    BY <1>11
  <2>4. QueryTyped'
    BY <1>1, <1>2, <1>3, <2>1, <2>2, <2>3, TurnTypes
  <2>5. SchemaOk'
    <3>1. ~ BattleFrame(p)
      BY <2>1 DEF BattleFrame
    <3> QED BY <1>7, <2>1, <2>2, <3>1
  <2> QED BY <1>3, <1>4, <2>1, <2>2, <2>3, <2>4, <2>5, TurnKeeps
<1> QED
  BY <1>8, <1>9, <1>10, <1>11 DEF Work
-----------------------------------------------------------------------------
(* The page reads a message.                                               *)

\* Reading anything but the defaults, the page goes on waiting for them.
LEMMA ReadSettles ==
    ASSUME QueryTyped, fromEngine # <<>>, fromEngine' = Tail(fromEngine), timer' = timer,
           Head(fromEngine).op # "defaults", Range(toEngine) \subseteq Range(toEngine'),
           SettledPage'
    PROVE  SettledPage
<1>1. fromEngine \in Seq(ToPageMsg)
  BY TypedParts
<1>2. Range(fromEngine) = Range(fromEngine') \cup {Head(fromEngine)}
  BY <1>1, MessageTaken
<1>3. UnderWay({"defaults"}) => UnderWay({"defaults"})'
  BY <1>2 DEF UnderWay
<1> QED BY <1>3, SettledBefore

\* The page stays in doubt about b until it reads a frame of a battle.
LEMMA ReadDoubts ==
    ASSUME QueryTyped, fromEngine # <<>>, fromEngine' = Tail(fromEngine),
           Head(fromEngine).op = "reverted" => revalidate',
           revalidate /\ ~ BattleFrame(Head(fromEngine)) => revalidate',
           NEW k \in 1 .. Len(fromEngine), StaleAt(fromEngine, revalidate, k)
    PROVE  StaleAt(fromEngine', revalidate', k - 1)
<1>1. fromEngine \in Seq(ToPageMsg)
  BY TypedParts
<1>2. StaleAt(Tail(fromEngine), revalidate', k - 1)
  BY <1>1, StaleTaken
<1> QED BY <1>2

\* So it is in doubt as long as the engine has no b.
LEMMA ReadSchema ==
    ASSUME QueryTyped, SchemaOk, fromEngine # <<>>, fromEngine' = Tail(fromEngine),
           Head(fromEngine).op = "reverted" => revalidate',
           revalidate /\ ~ BattleFrame(Head(fromEngine)) => revalidate',
           attached' = attached
    PROVE  SchemaOk'
<1>1. fromEngine \in Seq(ToPageMsg)
  BY TypedParts
<1>2. Len(fromEngine) \in Nat \ {0} /\ Len(fromEngine') = Len(fromEngine) - 1
  <2>1. \A o : Len(fromEngine) \in Nat \ {0} /\ Len(Tail(fromEngine)) = Len(fromEngine) - 1
    BY <1>1, MessageTaken
  <2> QED BY <2>1
<1>3. Len(fromEngine) \in 1 .. Len(fromEngine)
  BY <1>2
<1>4. ASSUME ~ attached PROVE StaleAt(fromEngine', revalidate', Len(fromEngine) - 1)
  BY <1>3, <1>4, ReadDoubts DEF SchemaOk
<1> QED BY <1>2, <1>4 DEF SchemaOk

\* A reply that is left to be read is the last one still.
LEMMA ReadReplies ==
    ASSUME QueryTyped, ReplyOk, fromEngine # <<>>, fromEngine' = Tail(fromEngine),
           Head(fromEngine).op = "reverted" => revalidate',
           revalidate /\ ~ BattleFrame(Head(fromEngine)) => revalidate',
           SettledPage' => SettledPage,
           NoMore(toEngine', "config") => NoMore(toEngine, "config"), Bad' = Bad
    PROVE  ReplyOk'
<1>1. fromEngine \in Seq(ToPageMsg)
  BY TypedParts
<1> SUFFICES ASSUME SettledPage', NoMore(toEngine', "config"), NEW k \in DOMAIN (fromEngine'),
                    LastOf(fromEngine', "configured", k)
             PROVE  /\ Bad \subseteq fromEngine'[k].errors
                    /\ \/ fromEngine'[k].errors \subseteq Bad
                       \/ StaleAt(fromEngine', revalidate', k - 1)
  BY DEF ReplyOk
<1>2. LastOf(fromEngine, "configured", k + 1)
  BY <1>1, MessageTaken
<1>3. fromEngine'[k] = fromEngine[k + 1] /\ k + 1 \in DOMAIN fromEngine
  BY <1>1, MessageTaken
<1>4. k \in 1 .. Len(fromEngine) /\ (k + 1) - 1 = k
  <2>1. DOMAIN (fromEngine') = 1 .. Len(fromEngine) - 1
    BY <1>1, MessageTaken
  <2>2. Len(fromEngine) \in Nat
    BY <1>1, LenProperties
  <2> QED BY <2>1, <2>2
<1>5. /\ Bad \subseteq fromEngine[k + 1].errors
      /\ fromEngine[k + 1].errors \subseteq Bad \/ StaleAt(fromEngine, revalidate, k)
  BY <1>2, <1>3, <1>4 DEF ReplyOk
<1>6. StaleAt(fromEngine, revalidate, k) => StaleAt(fromEngine', revalidate', k - 1)
  BY <1>4, ReadDoubts
<1> QED BY <1>3, <1>5, <1>6

\* A message that says nothing of the queries.
LEMMA ReadKeeps ==
    ASSUME QueryInv, QueryTyped', fromEngine # <<>>, fromEngine' = Tail(fromEngine),
           Head(fromEngine).op \in {"frame", "reverted"},
           Head(fromEngine).op = "reverted" => revalidate',
           revalidate => revalidate',
           list' = list, pushed' = pushed, card' = card, timer' = timer, engine' = engine,
           attached' = attached, crossed' = crossed,
           \/ toEngine' = toEngine
           \/ \E m \in ToEngineMsg : m.op # "config" /\ toEngine' = Append(toEngine, m)
    PROVE  QueryInv'
<1>1. /\ QueryTyped /\ PushedOk /\ OthersOk /\ SchemaOk /\ ConfigOk /\ EngineOk /\ ReplyOk
      /\ ShownOk /\ TrueOk
  BY DEF QueryInv
<1>2. toEngine \in Seq(ToEngineMsg) /\ fromEngine \in Seq(ToPageMsg)
  BY <1>1, TypedParts
<1>3. /\ Range(toEngine) \subseteq Range(toEngine')
      /\ NoMore(toEngine', "config") => NoMore(toEngine, "config")
      /\ \A k \in DOMAIN (toEngine') : LastOf(toEngine', "config", k) =>
             k \in DOMAIN toEngine /\ LastOf(toEngine, "config", k) /\ toEngine'[k] = toEngine[k]
  BY <1>2, SentBesides
<1>4. SettledPage' => SettledPage
  BY <1>1, <1>3, ReadSettles
<1>5. Dots(list)' = Dots(list) /\ Wanted' = Wanted /\ Bad' = Bad
  BY SameList
<1>6. PushedOk' /\ OthersOk'
  BY <1>1 DEF PushedOk, OthersOk
<1>7. SchemaOk'
  BY <1>1, ReadSchema
<1>8. ConfigOk'
  BY <1>1, <1>3, <1>4, <1>5 DEF ConfigOk
<1>9. EngineOk'
  BY <1>1, <1>3, <1>4, <1>5 DEF EngineOk
<1>10. ReplyOk'
  BY <1>1, <1>3, <1>4, <1>5, ReadReplies
<1>11. ShownOk'
  <2>1. Head(fromEngine).op # "configured"
    OBVIOUS
  <2>2. NoMore(fromEngine', "configured") => NoMore(fromEngine, "configured")
    BY <1>2, <2>1, MessageTaken
  <2> QED BY <1>1, <1>3, <1>4, <1>5, <2>2 DEF ShownOk
<1>12. TrueOk'
  BY <1>1, <1>4, <1>5 DEF TrueOk
<1> QED
  BY <1>6, <1>7, <1>8, <1>9, <1>10, <1>11, <1>12 DEF QueryInv

\* A message on which the page pushes its queries.
LEMMA ReadPushes ==
    ASSUME QueryInv, fromEngine # <<>>, fromEngine' = Tail(fromEngine),
           Head(fromEngine).op # "reverted",
           revalidate /\ ~ BattleFrame(Head(fromEngine)) => revalidate',
           NEW l, NEW rebuilt \in BOOLEAN, Push(l, window, rebuilt), rebuilt \/ l = list,
           nextId' \in 1 .. MaxId + 1, ListTyped(l, nextId'),
           revalidate' \in BOOLEAN, pending' \in BOOLEAN, latest' \in Drawable,
           UNCHANGED <<timer, file, battle, screen, worker, clicks, crossed>>
    PROVE  QueryInv'
<1> USE DEF worker
<1>1. QueryTyped /\ OthersOk /\ SchemaOk
  BY DEF QueryInv
<1>2. l \in Seq(Query) /\ IsInjective(IdsOf(l))
  BY DEF ListTyped
<1>3. /\ card \in [Ids -> Status] /\ toEngine \in Seq(ToEngineMsg) /\ WindowsTyped(window)
      /\ battle \in BOOLEAN /\ attached \in BOOLEAN /\ crossed \in BOOLEAN
      /\ engine \in Seq([text : Texts, ring : BOOLEAN, on : BOOLEAN]) /\ Len(engine) <= EngineMax
      /\ screen \in Seq(SlotRows) /\ Len(screen) <= ScreenMax /\ timer \subseteq Ids
      /\ file \subseteq Bundles /\ clicks \in Nat /\ fromEngine \in Seq(ToPageMsg)
  BY <1>1, TypedParts
<1>4. /\ PushedOk' /\ OthersOk' /\ ConfigOk' /\ EngineOk' /\ ReplyOk' /\ ShownOk' /\ TrueOk'
      /\ toEngine' \in Seq(ToEngineMsg)
  BY <1>1, <1>2, <1>3, Pushes
<1>5. /\ pushed' \in Seq(Ids) /\ IsInjective(pushed') /\ list' = l
      /\ card' \in [Ids -> Status] /\ WindowsTyped(window')
  BY <1>2, <1>3, PushTypes
<1>6. SchemaOk'
  BY <1>1, ReadSchema
<1>7. fromEngine' \in Seq(ToPageMsg)
  BY <1>3, HeadTailProperties
<1>8. QueryTyped'
  BY <1>3, <1>4, <1>5, <1>7, TypedWhole
<1> QED
  BY <1>4, <1>6, <1>8 DEF QueryInv
\* The errors of a reply go to the queries pushed last.  A reply to an earlier
\* push is noted as crossed.
LEMMA ConfiguredKeeps ==
    ASSUME QueryInv, fromEngine # <<>>, fromEngine' = Tail(fromEngine),
           Head(fromEngine).op = "configured", OnConfigured(Head(fromEngine)),
           UNCHANGED <<timer, file, battle, screen, worker, clicks>>
    PROVE  QueryInv'
<1> USE DEF worker
<1> DEFINE m == Head(fromEngine)
           failed == {pushed[i] : i \in m.errors \cap DOMAIN pushed}
<1>1. /\ QueryTyped /\ PushedOk /\ OthersOk /\ SchemaOk /\ ConfigOk /\ EngineOk /\ ReplyOk
      /\ ShownOk /\ TrueOk
  BY DEF QueryInv
<1>2. /\ fromEngine \in Seq(ToPageMsg) /\ ListTyped(list, nextId) /\ pushed \in Seq(Ids)
      /\ card \in [Ids -> Status] /\ WindowsTyped(window) /\ crossed \in BOOLEAN
  BY <1>1, TypedParts
<1>3. /\ card' = [i \in Ids |-> IF i \in failed \cap Listed THEN "error" ELSE card[i]]
      /\ window' = {IF v.id \in failed THEN [v EXCEPT !.status = "error"] ELSE v : v \in window}
      /\ crossed' = (crossed \/ (m.errors # {} /\
                        \E n \in Range(toEngine) \cup Range(Tail(fromEngine)) :
                            n.op \in {"config", "configured"}))
      /\ list' = list /\ nextId' = nextId /\ pushed' = pushed /\ revalidate' = revalidate
      /\ pending' = pending /\ latest' = latest /\ toEngine' = toEngine
  BY DEF OnConfigured
<1>4. fromEngine' \in Seq(ToPageMsg)
  BY <1>2, HeadTailProperties
<1>5. WindowsTyped(window')
  <2> DEFINE F(v) == IF v.id \in failed THEN [v EXCEPT !.status = "error"] ELSE v
  <2>1. \A v \in window : F(v) \in [id : Ids, text : Texts, status : Status] /\ F(v).id = v.id
    BY <1>2 DEF WindowsTyped, Status
  <2>2. window' = {F(v) : v \in window}
    BY <1>3
  <2> HIDE DEF F
  <2>3. window' \subseteq [id : Ids, text : Texts, status : Status]
    BY <2>1, <2>2
  <2>4. ASSUME NEW u \in window', NEW v \in window', u.id = v.id PROVE u = v
    <3>1. PICK x \in window : u = F(x)
      BY <2>2
    <3>2. PICK y \in window : v = F(y)
      BY <2>2
    <3>3. x.id = y.id
      BY <2>1, <2>4, <3>1, <3>2
    <3>4. x = y
      BY <1>2, <3>3 DEF WindowsTyped
    <3> QED BY <3>1, <3>2, <3>4
  <2> QED BY <2>3, <2>4 DEF WindowsTyped
<1>6. card' \in [Ids -> Status] /\ crossed' \in BOOLEAN
  <2>1. card' \in [Ids -> Status]
    BY <1>2, <1>3 DEF Status
  <2>2. crossed' \in BOOLEAN
    BY <1>2, <1>3
  <2> QED BY <2>1, <2>2
<1> HIDE DEF m, failed
<1>7. QueryTyped'
  <2>1. ListTyped(list, nextId)' /\ WindowsTyped(window)'
    BY <1>2, <1>3, <1>5
  <2> QED BY <1>1, <1>3, <1>4, <1>6, <2>1, TypedParts, TypedWhole
<1>8. SettledPage' => SettledPage
  <2>1. Head(fromEngine).op # "defaults" /\ Range(toEngine) \subseteq Range(toEngine')
    BY <1>3
  <2> QED BY <1>1, <2>1, ReadSettles
<1>9. Dots(list)' = Dots(list) /\ Wanted' = Wanted /\ Bad' = Bad
  BY <1>3, SameList
<1>10. PushedOk' /\ ConfigOk' /\ EngineOk'
  BY <1>1, <1>3, <1>8, <1>9 DEF PushedOk, ConfigOk, EngineOk
<1>11. SchemaOk'
  BY <1>1, <1>3, ReadSchema
<1>12. ReplyOk'
  BY <1>1, <1>3, <1>8, <1>9, ReadReplies
<1>13. /\ list \in Seq(Query) /\ IsInjective(IdsOf(list))
       /\ Dots(list) \in Seq(Query) /\ IsInjective(IdsOf(Dots(list)))
       /\ \A i \in DOMAIN list : list[i].id \in Ids /\ list[i].id \in Listed
       /\ \A n \in DOMAIN Dots(list) :
              \E i \in DOMAIN list : list[i].kind = "dots" /\ Dots(list)[n] = list[i]
  <2>1. list \in Seq(Query) /\ IsInjective(IdsOf(list))
    BY <1>2 DEF ListTyped
  <2>2. DOMAIN list = 1 .. Len(list) /\ \A i \in DOMAIN list : list[i] \in Query
    BY <2>1, LenProperties, ElementOfSeq
  <2>3. \A i \in DOMAIN list : list[i].id \in Ids /\ list[i].id \in Listed
    BY <2>2 DEF Query, Listed, IdsOf, Range
  <2> QED BY <2>1, <2>3, DotsIs, DotsOnce
\* Who has an error is a query of the list's, by its place among the dots.
<1>14. ASSUME NEW x \in failed
       PROVE  \E j \in DOMAIN Dots(list) : j \in m.errors /\ Dots(list)[j].id = x
  <2>1. PICK j \in m.errors \cap DOMAIN pushed : x = pushed[j]
    BY <1>14 DEF failed
  <2> QED BY <1>1, <2>1 DEF PushedOk, IdsOf
<1>15. OthersOk'
  <2> SUFFICES ASSUME NEW i \in DOMAIN list, list[i].kind # "dots" PROVE card'[list[i].id] # "error"
    BY <1>3 DEF OthersOk
  <2>1. list[i].id \notin failed
    <3> SUFFICES ASSUME list[i].id \in failed PROVE FALSE
      OBVIOUS
    <3>1. PICK j \in DOMAIN Dots(list) : Dots(list)[j].id = list[i].id
      BY <1>14
    <3>2. PICK k \in DOMAIN list : list[k].kind = "dots" /\ Dots(list)[j] = list[k]
      BY <1>13
    <3>3. list[k].id = list[i].id
      BY <3>1, <3>2
    <3>4. k = i
      BY <1>13, <3>3 DEF IsInjective, IdsOf
    <3> QED BY <3>2, <3>4
  <2> QED BY <1>1, <1>3, <1>13, <2>1 DEF OthersOk
<1>16. NoMore(fromEngine', "configured") =>
           LastOf(fromEngine, "configured", 1) /\ 1 \in DOMAIN fromEngine /\ fromEngine[1] = m
  <2>1. Head(fromEngine) = fromEngine[1]
    BY <1>2, MessageTaken
  <2>2. DOMAIN fromEngine = 1 .. Len(fromEngine) /\ Len(fromEngine) \in Nat \ {0}
    BY <1>2, MessageTaken
  <2>3. 1 \in DOMAIN fromEngine
    BY <2>2
  <2>4. ~ NoMore(fromEngine, "configured")
    BY <2>1, <2>3 DEF NoMore
  <2>5. NoMore(fromEngine', "configured") => LastOf(fromEngine, "configured", 1)
    BY <1>2, <2>4, MessageTaken
  <2> QED BY <2>1, <2>3, <2>5 DEF m
<1>17. ShownOk'
  <2> SUFFICES ASSUME SettledPage', NoMore(toEngine', "config"),
                      NoMore(fromEngine', "configured"), NEW i \in Bad
               PROVE  card'[Dots(list)[i].id] = "error"
    BY <1>9 DEF ShownOk
  <2>1. Bad \subseteq m.errors
    BY <1>1, <1>3, <1>8, <1>16 DEF ReplyOk
  <2>2. i \in DOMAIN Dots(list) /\ i \in m.errors
    BY <2>1 DEF Bad
  <2>3. DOMAIN pushed = DOMAIN Dots(list) /\ pushed[i] = Dots(list)[i].id
    BY <1>1, <2>2 DEF PushedOk, IdsOf
  <2>4. Dots(list)[i].id \in failed
    BY <2>2, <2>3 DEF failed
  <2>5. Dots(list)[i].id \in Listed /\ Dots(list)[i].id \in Ids
    BY <1>13, <2>2
  <2> QED BY <1>3, <2>4, <2>5
<1>18. TrueOk'
  <2> SUFFICES ASSUME SettledPage', ~ crossed', ~ revalidate', NEW i \in DOMAIN Dots(list),
                      card'[Dots(list)[i].id] = "error"
               PROVE  ~ Dots(list)[i].text.good
    BY <1>9 DEF TrueOk
  <2>1. Dots(list)[i].id \in Ids
    BY <1>13
  <2>2. CASE Dots(list)[i].id \notin failed
    <3>1. card[Dots(list)[i].id] = "error"
      BY <1>3, <2>1, <2>2
    <3>2. SettledPage /\ ~ crossed /\ ~ revalidate
      BY <1>3, <1>8
    <3> QED BY <1>1, <3>1, <3>2 DEF TrueOk
  <2>3. CASE Dots(list)[i].id \in failed
    <3>1. PICK j \in DOMAIN Dots(list) : j \in m.errors /\ Dots(list)[j].id = Dots(list)[i].id
      BY <1>14, <2>3
    <3>2. j = i
      BY <1>13, <3>1 DEF IsInjective, IdsOf
    <3>3. \A n \in Range(toEngine) \cup Range(fromEngine') : n.op \notin {"config", "configured"}
      BY <1>3, <3>1
    <3>4. NoMore(toEngine', "config") /\ NoMore(fromEngine', "configured")
      BY <1>3, <3>3 DEF NoMore, Range
    <3>5. m.errors \subseteq Bad \/ StaleAt(fromEngine, revalidate, 1 - 1)
      BY <1>1, <1>3, <1>8, <1>16, <3>4 DEF ReplyOk
    <3>6. ~ StaleAt(fromEngine, revalidate, 1 - 1)
      <4>1. ~ revalidate /\ 1 .. 1 - 1 = {}
        BY <1>3
      <4> QED BY <4>1 DEF StaleAt
    <3> QED BY <3>1, <3>2, <3>5, <3>6 DEF Bad
  <2> QED BY <2>2, <2>3
<1> QED
  BY <1>7, <1>10, <1>11, <1>12, <1>15, <1>17, <1>18 DEF QueryInv

\* A turn of the page.
LEMMA ReceiveKeeps ==
    ASSUME QueryInv, Receive
    PROVE  QueryInv'
<1> DEFINE m == Head(fromEngine)
<1>1. QueryTyped
  BY DEF QueryInv
<1>2. /\ fromEngine \in Seq(ToPageMsg) /\ ListTyped(list, nextId) /\ nextId \in 1 .. MaxId + 1
      /\ revalidate \in BOOLEAN /\ pending \in BOOLEAN /\ latest \in Drawable
      /\ battle \in BOOLEAN
  BY <1>1, TypedParts
<1>3. /\ fromEngine # <<>> /\ fromEngine' = Tail(fromEngine)
      /\ UNCHANGED <<timer, file, battle, screen, worker, clicks>>
  BY DEF Receive
<1>4. m \in ToPageMsg
  BY <1>2, <1>3, HeadTailProperties
<1>5. /\ m.op \in {"defaults", "reverted", "configured", "frame"}
      /\ m.op = "frame" => m.battle \in BOOLEAN /\ m.slots \in Drawable
  BY <1>4, PageMessages
<1>6. CASE m.op = "defaults"
  <2>1. Renew(Defaults) /\ UNCHANGED <<revalidate, pending, latest, crossed>>
    BY <1>6 DEF Receive
  <2>2. /\ nextId + Len(Defaults) - 1 <= MaxId /\ nextId' = nextId + Len(Defaults)
        /\ Push(Defaults, window, TRUE)
    BY <2>1 DEF Renew
  <2>3. ListTyped(Defaults, nextId') /\ nextId' \in 1 .. MaxId + 1
    BY <1>2, <2>2, DefaultsAre
  <2> QED BY <1>2, <1>3, <1>6, <2>1, <2>2, <2>3, ReadPushes
<1>7. CASE m.op = "configured"
  <2>1. OnConfigured(m)
    BY <1>7 DEF Receive
  <2> QED BY <1>3, <1>7, <2>1, ConfiguredKeeps
<1>8. CASE m.op = "frame"
  <2>1. OnFrame(m)
    BY <1>8 DEF Receive
  <2>2. /\ pending' = FALSE /\ latest' = m.slots /\ latest' \in Drawable
        /\ revalidate' = (revalidate /\ ~ (revalidate /\ m.battle))
        /\ nextId' = nextId /\ crossed' = crossed
    BY <1>5, <1>8, <2>1 DEF OnFrame, Revalidates
  <2>3. BattleFrame(m) <=> m.battle
    BY <1>8 DEF BattleFrame
  <2>4. CASE revalidate /\ m.battle
    <3>1. Push(list, window, FALSE)
      BY <2>1, <2>4 DEF OnFrame, Revalidates
    <3>2. revalidate' \in BOOLEAN /\ ListTyped(list, nextId') /\ nextId' \in 1 .. MaxId + 1
      BY <1>2, <2>2
    <3> HIDE DEF m
    <3>3. (revalidate /\ ~ BattleFrame(m) => revalidate') /\ m.op # "reverted"
      BY <1>8, <2>3, <2>4
    <3> QED BY <1>3, <2>2, <3>1, <3>2, <3>3, ReadPushes DEF m
  <2>5. CASE ~ (revalidate /\ m.battle)
    <3>1. UNCHANGED <<list, pushed, card, window, toEngine>>
      BY <2>1, <2>5 DEF OnFrame, Revalidates
    <3>2. revalidate' = revalidate
      BY <1>2, <2>2, <2>5
    <3>3. QueryTyped'
      <4>1. fromEngine' \in Seq(ToPageMsg)
        BY <1>2, <1>3, HeadTailProperties
      <4> QED BY <1>1, <1>3, <2>2, <3>1, <3>2, <4>1, TypedParts, TypedWhole DEF worker
    <3> QED BY <1>3, <1>8, <2>2, <3>1, <3>2, <3>3, ReadKeeps DEF worker
  <2> QED BY <2>4, <2>5
<1>9. CASE m.op = "reverted"
  <2>1. OnReverted
    BY <1>9 DEF Receive
  <2>2. /\ revalidate' = TRUE /\ pending' = TRUE
        /\ toEngine' = IF pending THEN toEngine
                       ELSE Append(toEngine, [op |-> "frame", battle |-> battle])
        /\ UNCHANGED <<list, nextId, pushed, card, window, latest, crossed>>
    BY <2>1 DEF OnReverted
  <2>3. /\ toEngine' \in Seq(ToEngineMsg)
        /\ \/ toEngine' = toEngine
           \/ \E p \in ToEngineMsg : p.op # "config" /\ toEngine' = Append(toEngine, p)
    BY <1>1, <2>2, FrameAsked
  <2>4. QueryTyped'
    <3>1. fromEngine' \in Seq(ToPageMsg)
      BY <1>2, <1>3, HeadTailProperties
    <3> QED BY <1>1, <1>3, <2>2, <2>3, <3>1, TypedParts, TypedWhole DEF worker
  <2> QED BY <1>3, <1>9, <2>2, <2>3, <2>4, ReadKeeps DEF worker
<1> QED
  BY <1>5, <1>6, <1>7, <1>8, <1>9
-----------------------------------------------------------------------------
(* The beginning and the end.                                              *)

\* A list without queries has no dots.
LEMMA NoDots ==
    /\ Dots(<<>>) \in Seq(Query) /\ IdsOf(Dots(<<>>)) = <<>>
    /\ IdsOf(<<>>) = <<>> /\ IsInjective(<<>>)
<1>1. <<>> \in Seq(Query) /\ DOMAIN <<>> = {}
  BY EmptySeq
<1>2. Dots(<<>>) \in Seq(Query) /\ DOMAIN Dots(<<>>) = {}
  BY <1>1, DotsIs
<1>3. Dots(<<>>) = <<>>
  <2>1. Len(Dots(<<>>)) \in Nat /\ DOMAIN Dots(<<>>) = 1 .. Len(Dots(<<>>))
    BY <1>2, LenProperties
  <2>2. Len(Dots(<<>>)) = 0
    BY <1>2, <2>1
  <2> QED BY <1>2, <2>2, EmptySeq
<1>4. IdsOf(<<>>) = <<>>
  BY DEF IdsOf
<1>5. IsInjective(<<>>)
  BY DEF IsInjective
<1> QED BY <1>2, <1>3, <1>4, <1>5

\* The engine has slots for the defaults.
LEMMA EngineStarts ==
    ASSUME QueriesInit
    PROVE  engine \in Seq([text : Texts, ring : BOOLEAN, on : BOOLEAN]) /\ Len(engine) <= EngineMax
<1> DEFINE d == Dots(Defaults)
           S == [text : Texts, ring : BOOLEAN, on : BOOLEAN]
<1>1. /\ nextId = 1 /\ engine = [i \in DOMAIN d |-> Slot(d[i])]
      /\ MaxId \in Nat \ {0} /\ EngineMax \in Nat /\ Len(Default) <= MaxId
      /\ Default \in Seq(Texts)
      /\ Cardinality({i \in DOMAIN Default : Default[i].kind = "dots"}) <= EngineMax
  BY QueriesAssumption DEF QueriesInit, RenderQueryConstants
<1>2. Len(Default) \in Nat /\ DOMAIN Default = 1 .. Len(Default)
  BY <1>1, LenProperties
<1>3. /\ Len(Defaults) = Len(Default) /\ DOMAIN Defaults = DOMAIN Default
      /\ \A i \in DOMAIN Default : Defaults[i].kind = Default[i].kind
  BY <1>2 DEF Defaults, Entry
<1>4. Defaults \in Seq(Query)
  <2>1. nextId \in 1 .. MaxId + 1 /\ nextId + Len(Defaults) - 1 <= MaxId
    BY <1>1, <1>2, <1>3
  <2> QED BY <2>1, DefaultsAre DEF ListTyped
<1>5. {i \in DOMAIN Defaults : Defaults[i].kind = "dots"}
      = {i \in DOMAIN Default : Default[i].kind = "dots"}
  BY <1>3
<1>6. d \in Seq(Query) /\ DOMAIN d = 1 .. Len(d) /\ Len(d) \in Nat
  BY <1>4, DotsIs
<1>7. Len(d) <= EngineMax
  <2> DEFINE J == {i \in DOMAIN Default : Default[i].kind = "dots"}
  <2>1. d = Picked(Defaults, J) /\ J \in SUBSET DOMAIN Defaults
    BY <1>3, <1>5 DEF Dots
  <2> HIDE DEF J, d
  <2>2. DOMAIN d = 1 .. Cardinality(J) /\ Cardinality(J) \in Nat
    BY <1>4, <2>1, PickedIs
  <2>3. Len(d) = Cardinality(J)
    BY <1>6, <2>2
  <2> QED BY <1>1, <2>3 DEF J
<1> HIDE DEF d
<1>8. \A i \in 1 .. Len(d) : Slot(d[i]) \in S
  <2>1. \A i \in 1 .. Len(d) : d[i] \in Query
    BY <1>6, ElementOfSeq
  <2> QED BY <2>1 DEF Query, Slot
<1> HIDE DEF S
<1>9. engine \in [1 .. Len(d) -> S]
  BY <1>1, <1>6, <1>8
<1>10. engine \in Seq(S) /\ Len(engine) = Len(d)
  BY <1>1, <1>6, <1>9, SeqDef
<1> QED BY <1>7, <1>10 DEF S

\* At first the page waits for the defaults.
LEMMA QueriesStart == QueriesInit => QueryInv
<1> SUFFICES ASSUME QueriesInit PROVE QueryInv
  OBVIOUS
<1>1. list = <<>> /\ nextId = 1 /\ pushed = <<>> /\ window = {} /\ timer = {} /\ file = {}
  BY DEF QueriesInit
<1>2. latest = <<>> /\ screen = <<>> /\ fromEngine = <<>> /\ toEngine = <<[op |-> "defaults"]>>
  BY DEF QueriesInit
<1>3. /\ revalidate = TRUE /\ battle \in BOOLEAN /\ pending = FALSE /\ attached = FALSE
      /\ crossed = FALSE /\ clicks = 0
  BY DEF QueriesInit
<1>4. card = [i \in Ids |-> ""]
  BY DEF QueriesInit
<1>5. {EngineMax, ScreenMax, MaxId} \subseteq Nat \ {0}
  BY QueriesAssumption DEF RenderQueryConstants
<1>6. \A S : <<>> \in Seq(S) /\ Len(<<>>) = 0
  BY EmptySeq
<1>7. DOMAIN <<>> = {}
  OBVIOUS
<1>8. UnderWay({"defaults"})
  <2> DEFINE m == [op |-> "defaults"]
  <2>1. m.op = "defaults"
    OBVIOUS
  <2> HIDE DEF m
  <2>2. m = <<m>>[1] /\ 1 \in DOMAIN <<m>>
    OBVIOUS
  <2>3. m \in Range(toEngine)
    BY <1>2, <2>2 DEF Range, m
  <2> QED BY <2>1, <2>3 DEF UnderWay
<1>9. QueryTyped
  <2>1. /\ list \in Seq(Query) /\ IsInjective(IdsOf(list)) /\ nextId \in 1 .. MaxId + 1
        /\ \A i \in DOMAIN list : list[i].id < nextId
    <3>1. list \in Seq(Query) /\ IsInjective(IdsOf(list))
      BY <1>1, <1>6, NoDots
    <3>2. nextId \in 1 .. MaxId + 1
      BY <1>1, <1>5
    <3>3. DOMAIN list = {}
      BY <1>1, <1>7
    <3> QED BY <3>1, <3>2, <3>3
  <2>2. pushed \in Seq(Ids) /\ IsInjective(pushed) /\ timer \subseteq Ids
    BY <1>1, <1>6, NoDots
  <2>3. card \in [Ids -> Status] /\ window \subseteq [id : Ids, text : Texts, status : Status]
    BY <1>1, <1>4 DEF Status
  <2>4. latest \in Seq(SlotRows) /\ Len(latest) = 0 /\ screen \in Seq(SlotRows) /\ Len(screen) = 0
    BY <1>2, <1>6
  <2>5. /\ latest \in Drawable /\ screen \in Seq(SlotRows) /\ file \subseteq Bundles
        /\ Len(latest) <= EngineMax /\ Len(screen) <= ScreenMax
    <3>1. EngineMax \in Nat /\ ScreenMax \in Nat
      BY <1>5
    <3> QED BY <1>1, <2>4, <3>1 DEF Drawable
  <2>6. toEngine \in Seq(ToEngineMsg) /\ fromEngine \in Seq(ToPageMsg)
    <3> DEFINE m == [op |-> "defaults"]
    <3>1. m \in ToEngineMsg
      BY DEF ToEngineMsg, Bare
    <3> HIDE DEF m
    <3>2. <<m>> \in Seq(ToEngineMsg)
      BY <3>1
    <3> QED BY <1>2, <1>6, <3>2 DEF m
  <2> QED
    BY <1>1, <1>3, <2>1, <2>2, <2>3, <2>4, <2>5, <2>6, EngineStarts DEF QueryTyped, QueriesTypeOK
<1>10. PushedOk
  BY <1>1, NoDots DEF PushedOk
<1>11. OthersOk
  <2>1. DOMAIN list = {}
    BY <1>1, <1>7
  <2> QED BY <2>1 DEF OthersOk
<1>12. SchemaOk
  <2>1. Len(fromEngine) = 0 /\ 1 .. 0 = {}
    BY <1>2, <1>6
  <2> QED BY <1>3, <2>1 DEF SchemaOk, StaleAt
<1> QED
  BY <1>8, <1>9, <1>10, <1>11, <1>12
  DEF QueryInv, SettledPage, ConfigOk, EngineOk, ReplyOk, ShownOk, TrueOk

\* Nothing changes.
LEMMA QueriesStay == QueryInv /\ UNCHANGED queriesVars => QueryInv'
<1> SUFFICES ASSUME QueryInv, UNCHANGED queriesVars PROVE QueryInv'
  OBVIOUS
<1> USE DEF queriesVars, editors, drawing, worker
<1>1. QueryTyped
  BY DEF QueryInv
<1>2. QueryTyped'
  BY <1>1, TypedParts, TypedWhole
<1> QED BY <1>2, QuietKeeps

\* What is typed is a text again.
LEMMA Retypes ==
    ASSUME NEW t \in Texts, NEW u \in Retyped(t)
    PROVE  u \in Texts
BY DEF Retyped, Texts

\* Each step keeps the invariant.
LEMMA QueriesStep == QueryInv /\ QueriesNext => QueryInv'
<1> SUFFICES ASSUME QueryInv, QueriesNext PROVE QueryInv'
  OBVIOUS
<1>1. QueryTyped
  BY DEF QueryInv
<1>2. \A id \in Listed : id \in Ids /\ list[At(id)].text \in Texts
  BY <1>1, ListedAt DEF Query
<1>3. \A v \in window : v.id \in Ids /\ v.text \in Texts
  BY <1>1, TypedParts DEF WindowsTyped
<1>4. CASE Add \/ Reset \/ Export \/ Import \/ RevertList \/ Seek
  BY <1>4, AddKeeps, ResetKeeps, ExportKeeps, ImportKeeps, RevertListKeeps, SeekKeeps
<1>5. ASSUME NEW id \in Listed, Delete(id) PROVE QueryInv'
  BY <1>5, DeleteKeeps
<1>6. ASSUME NEW id \in Listed, OpenWindow(id) PROVE QueryInv'
  BY <1>6, OpenWindowKeeps
<1>7. ASSUME NEW id \in Listed, NEW to \in DOMAIN list, Move(id, to) PROVE QueryInv'
  BY <1>7, MoveKeeps
<1>8. ASSUME NEW id \in Listed, NEW q \in Retouched(list[At(id)]), SetField(id, q) PROVE QueryInv'
  BY <1>8, SetFieldKeeps
<1>9. ASSUME NEW v \in window, CloseWindow(v) PROVE QueryInv'
  BY <1>9, CloseWindowKeeps
<1>10. CASE TypeInCard
  <2>1. PICK id \in Listed : \E t \in Retyped(list[At(id)].text) : Type(id, t)
    BY <1>10 DEF TypeInCard
  <2>2. PICK t \in Retyped(list[At(id)].text) : Type(id, t)
    BY <2>1
  <2>3. id \in Ids /\ t \in Texts
    BY <1>2, <2>2, Retypes
  <2> QED BY <2>2, <2>3, TypeKeeps
<1>11. CASE TypeInWindow
  <2>1. PICK v \in window : \E t \in Retyped(v.text) : Type(v.id, t)
    BY <1>11 DEF TypeInWindow
  <2>2. PICK t \in Retyped(v.text) : Type(v.id, t)
    BY <2>1
  <2>3. v.id \in Ids /\ t \in Texts
    BY <1>3, <2>2, Retypes
  <2> QED BY <2>2, <2>3, TypeKeeps
<1>12. CASE BlurCard
  <2>1. PICK id \in Listed : Blur(id, list[At(id)].text)
    BY <1>12 DEF BlurCard
  <2>2. list[At(id)].text \in Texts
    BY <1>2
  <2> QED BY <2>1, <2>2, BlurKeeps
<1>13. CASE BlurWindow
  <2>1. PICK v \in window : Blur(v.id, v.text)
    BY <1>13 DEF BlurWindow
  <2>2. v.text \in Texts
    BY <1>3
  <2> QED BY <2>1, <2>2, BlurKeeps
<1>14. CASE Due
  BY <1>14, FireKeeps DEF Due
<1>15. CASE EventTurn
  BY <1>15, WorkKeeps, ReceiveKeeps, LoopKeeps DEF EventTurn
<1> QED
  BY <1>4, <1>5, <1>6, <1>7, <1>8, <1>9, <1>10, <1>11, <1>12, <1>13, <1>14, <1>15 DEF QueriesNext

\* At rest, the invariant says what the list promises.
LEMMA QueriesHold == QueryInv => QueriesAreHeld
<1> SUFFICES ASSUME QueryInv PROVE QueriesAreHeld
  OBVIOUS
<1>1. /\ QueryTyped /\ OthersOk /\ EngineOk /\ ShownOk /\ TrueOk
  BY DEF QueryInv
<1>2. list \in Seq(Query)
  BY <1>1, TypedParts DEF ListTyped
<1>3. ASSUME NEW ops, ~ UnderWay(ops), NEW o \in ops
      PROVE  NoMore(toEngine, o) /\ NoMore(fromEngine, o)
  BY <1>3 DEF UnderWay, NoMore, Range
<1>4. ASSUME NEW ops, ~ UnderWay(ops), "defaults" \in ops PROVE ~ UnderWay({"defaults"})
  BY <1>4 DEF UnderWay
<1>5. EngineHoldsList
  BY <1>1, <1>3, <1>4 DEF EngineHoldsList, EngineOk, SettledPage
<1>6. Rest => SettledPage /\ NoMore(toEngine, "config") /\ NoMore(fromEngine, "configured")
  BY <1>3, <1>4 DEF Rest, SettledPage
<1>7. ErrorsAreShown
  <2>1. \A i \in Slots : ~ Dots(list)[i].text.good => i \in Bad
    BY <1>2, WantedSlots DEF Slots, Bad
  <2> QED BY <1>1, <1>6, <2>1 DEF ErrorsAreShown, ShownOk
<1>8. NoFalseErrors
  <2> SUFFICES ASSUME Rest, ~ revalidate, ~ crossed, NEW i \in DOMAIN list,
                      card[list[i].id] = "error"
               PROVE  list[i].kind = "dots" /\ ~ list[i].text.good
    BY DEF NoFalseErrors
  <2>1. list[i].kind = "dots"
    BY <1>1 DEF OthersOk
  <2>2. PICK n \in DOMAIN Dots(list) : Dots(list)[n] = list[i]
    BY <1>2, <2>1, DotsIs
  <2>3. card[Dots(list)[n].id] = "error"
    BY <2>2
  <2>4. ~ Dots(list)[n].text.good
    BY <1>1, <1>6, <2>3 DEF TrueOk
  <2> QED BY <2>1, <2>2, <2>4
<1>9. QueriesTypeOK
  BY <1>1 DEF QueryTyped
<1> QED BY <1>5, <1>7, <1>8, <1>9 DEF QueriesAreHeld

\* Whatever is typed, moved, deleted, reset or imported while pushes and replies
\* are on their way, the engine comes to have the list, and the cards say of each
\* query what the engine said of it: for every list of defaults the engine has
\* slots for, and every number of slots and edits.
THEOREM QueriesAlwaysHeld == QueriesSpec => []QueriesAreHeld
<1>1. QueriesInit => QueryInv
  BY QueriesStart
<1>2. QueryInv /\ [QueriesNext]_queriesVars => QueryInv'
  BY QueriesStay, QueriesStep
<1>3. QueryInv => QueriesAreHeld
  BY QueriesHold
<1> QED BY <1>1, <1>2, <1>3, PTL DEF QueriesSpec
==============================================================================
