---------------------------- MODULE ScreenProofs ----------------------------
(***************************************************************************)
(* Proofs about what is on screen, for any replay and any number of        *)
(* requests: Roster and Playback, whose frames are the replay of their     *)
(* battle's events and keep pace with the clock, however it is sought,     *)
(* paused and reverted; Camera, whose view is where the battle shown       *)
(* is; Overlays, whose chat and symbols are of the tick shown; and Panels, *)
(* whose windows come home.                                                *)
(***************************************************************************)
EXTENDS Playback, Camera, Overlays, Panels, FiniteSetTheorems, SequenceTheorems, TLAPS

-----------------------------------------------------------------------------
(* Ticks, battles and events.                                              *)

\* A sequence as a function.
LEMMA SeqFacts ==
    ASSUME NEW S, NEW s \in Seq(S)
    PROVE  DOMAIN s = 1 .. Len(s) /\ Len(s) \in Nat /\ \A i \in 1 .. Len(s) : s[i] \in S
OBVIOUS

\* What the constants are: times, battles and events, in order.
LEMMA Replay ==
    ASSUME NEW d \in Versions
    PROVE  /\ Times[d] \in Seq(Int) /\ Battles[d] \in Seq([first : Nat \ {0}, last : Nat])
           /\ Events[d] \in Seq(DOMAIN Times[d])
           /\ DOMAIN Times[d] = 1 .. Len(Times[d]) /\ Len(Times[d]) \in 1 .. Newest - 1
           /\ DOMAIN Events[d] = 1 .. Len(Events[d]) /\ Len(Events[d]) \in Nat
           /\ DOMAIN Battles[d] = 1 .. Len(Battles[d]) /\ Len(Battles[d]) \in Nat
           /\ \A i \in DOMAIN Times[d] : Times[d][i] \in Int
           /\ \A i, j \in DOMAIN Times[d] : i <= j => Times[d][i] <= Times[d][j]
           /\ \A e \in DOMAIN Events[d] : Events[d][e] \in DOMAIN Times[d]
           /\ \A e, f \in DOMAIN Events[d] : e <= f => Events[d][e] <= Events[d][f]
           /\ \A b \in DOMAIN Battles[d] : Battles[d][b].first \in Nat \ {0} /\ Battles[d][b].last \in Nat
<1>1. /\ Times[d] \in Seq(Int) /\ Len(Times[d]) \in 1 .. Newest - 1 /\ Ascends(Times[d])
      /\ Battles[d] \in Seq([first : Nat \ {0}, last : Nat])
      /\ Events[d] \in Seq(DOMAIN Times[d]) /\ Ascends(Events[d])
  BY RosterConstants
<1>2. /\ DOMAIN Times[d] = 1 .. Len(Times[d])
      /\ \A i \in DOMAIN Times[d] : Times[d][i] \in Int
  BY <1>1
<1>3. /\ DOMAIN Events[d] = 1 .. Len(Events[d]) /\ Len(Events[d]) \in Nat
      /\ \A e \in DOMAIN Events[d] : Events[d][e] \in DOMAIN Times[d]
  BY <1>1
<1>4. /\ DOMAIN Battles[d] = 1 .. Len(Battles[d]) /\ Len(Battles[d]) \in Nat
      /\ \A b \in DOMAIN Battles[d] : Battles[d][b] \in [first : Nat \ {0}, last : Nat]
  <2>1. Battles[d] \in Seq([first : Nat \ {0}, last : Nat])
    BY <1>1
  <2>2. /\ DOMAIN Battles[d] = 1 .. Len(Battles[d]) /\ Len(Battles[d]) \in Nat
        /\ \A b \in 1 .. Len(Battles[d]) : Battles[d][b] \in [first : Nat \ {0}, last : Nat]
    BY <2>1, SeqFacts
  <2> QED BY <2>2
<1> QED BY <1>1, <1>2, <1>3, <1>4 DEF Ascends

\* The order of the numbers is well founded.
LEMMA Least ==
    ASSUME NEW S \in SUBSET Nat, S # {}
    PROVE  \E m \in S : \A n \in S : m <= n
<1> DEFINE T == {0 .. n : n \in S}
<1>1. T \subseteq FiniteSubsetsOf(Nat) /\ T # {}
  <2>1. ASSUME NEW n \in S PROVE 0 .. n \in SUBSET Nat /\ IsFiniteSet(0 .. n)
    BY FS_Interval
  <2> QED BY <2>1 DEF FiniteSubsetsOf
<1>2. PICK x \in T : \A y \in T : ~ (<<y, x>> \in StrictSubsetOrdering(Nat))
  <2>1. IsWellFoundedOn(StrictSubsetOrdering(Nat), FiniteSubsetsOf(Nat))
    BY FS_StrictSubsetOrderingWellFounded
  <2> HIDE DEF T
  <2> QED BY <1>1, <2>1, WFMin
<1>3. PICK m \in S : x = 0 .. m
  OBVIOUS
<1>4. ASSUME NEW n \in S, n < m PROVE FALSE
  <2>1. 0 .. n \in T  OBVIOUS
  <2>2. 0 .. n \subseteq 0 .. m /\ m \in 0 .. m /\ m \notin 0 .. n
    BY <1>4
  <2>3. 0 .. n \in SUBSET Nat /\ 0 .. m \in SUBSET Nat
    OBVIOUS
  <2>4. <<0 .. n, 0 .. m>> \in StrictSubsetOrdering(Nat)
    BY <2>2, <2>3 DEF StrictSubsetOrdering
  <2> QED BY <2>1, <2>4, <1>2, <1>3
<1> QED BY <1>4

\* A tick's battle is one that has it.
LEMMA BattleHas ==
    ASSUME NEW d \in Versions, NEW tick \in Int
    PROVE  LET b == BattleOf(d, tick)
           IN  /\ b \in 0 .. Len(Battles[d])
               /\ b # None => b \in DOMAIN Battles[d] /\ tick \in Battles[d][b].first .. Battles[d][b].last
<1> DEFINE has == {b \in DOMAIN Battles[d] : tick \in Battles[d][b].first .. Battles[d][b].last}
<1>1. DOMAIN Battles[d] = 1 .. Len(Battles[d]) /\ Len(Battles[d]) \in Nat
  BY Replay
<1>2. BattleOf(d, tick) = IF has = {} THEN None ELSE CHOOSE b \in has : \A c \in has : b <= c
  BY DEF BattleOf
<1>3. CASE has = {}
  BY <1>1, <1>2, <1>3 DEF None
<1>4. CASE has # {}
  <2>1. has \in SUBSET Nat
    BY <1>1
  <2>2. \E b \in has : \A c \in has : b <= c
    BY <1>4, <2>1, Least
  <2>3. BattleOf(d, tick) \in has
    BY <1>2, <1>4, <2>2
  <2> QED BY <1>1, <2>3
<1> QED BY <1>3, <1>4

\* Between lo and hi, i is the last tick not after t, or the first one.
LastIn(T, t, lo, hi, i) ==
    /\ i \in lo .. hi
    /\ i = lo \/ T[i] <= t
    /\ \A k \in lo .. hi : i < k => t < T[k]

\* Of either half, that is so as well.
LEMMA Halves ==
    ASSUME NEW n \in Nat, NEW T, \A i \in 1 .. n : T[i] \in Int,
           \A i, j \in 1 .. n : i <= j => T[i] <= T[j],
           NEW t \in Int, NEW lo \in 1 .. n, NEW hi \in 1 .. n, lo < hi,
           NEW mid \in lo + 1 .. hi, NEW i
    PROVE  /\ T[mid] <= t => (LastIn(T, t, mid, hi, i) <=> LastIn(T, t, lo, hi, i))
           /\ ~(T[mid] <= t) => (LastIn(T, t, lo, mid - 1, i) <=> LastIn(T, t, lo, hi, i))
<1>1. ASSUME T[mid] <= t PROVE LastIn(T, t, mid, hi, i) <=> LastIn(T, t, lo, hi, i)
  <2>1. \A k \in lo .. mid : k \in 1 .. n /\ T[k] <= t
    BY <1>1
  <2> QED BY <2>1 DEF LastIn
<1>2. ASSUME ~(T[mid] <= t) PROVE LastIn(T, t, lo, mid - 1, i) <=> LastIn(T, t, lo, hi, i)
  <2>1. \A k \in mid .. hi : k \in 1 .. n /\ t < T[k]
    BY <1>2
  <2> QED BY <2>1 DEF LastIn
<1> QED BY <1>1, <1>2

Mid(lo, hi) == (lo + hi + 1) \div 2

\* The middle of an interval is in its upper half.
LEMMA Middle ==
    ASSUME NEW lo \in Int, NEW hi \in Int, lo < hi
    PROVE  Mid(lo, hi) \in lo + 1 .. hi
BY DEF Mid

\* The loop's function, for a search in T.
Ivs(n) == [lo : 1 .. n, hi : 1 .. n]

Turned(T, t, f, iv) ==
    LET mid == (iv.lo + iv.hi + 1) \div 2
    IN  IF iv.lo >= iv.hi THEN iv.lo
        ELSE IF T[mid] <= t THEN f[[iv EXCEPT !.lo = mid]] ELSE f[[iv EXCEPT !.hi = mid - 1]]

IsSearch(T, t, f) == \A iv \in Ivs(Len(T)) : f[iv] = Turned(T, t, f, iv)

At(f, lo, hi) == f[[lo |-> lo, hi |-> hi]]

\* One turn of the loop.
LEMMA Turns ==
    ASSUME NEW T, NEW t, NEW f, NEW lo, NEW hi
    PROVE  Turned(T, t, f, [lo |-> lo, hi |-> hi]) =
               IF lo >= hi THEN lo
               ELSE IF T[Mid(lo, hi)] <= t THEN At(f, Mid(lo, hi), hi)
                    ELSE At(f, lo, Mid(lo, hi) - 1)
BY DEF Turned, At, Mid

\* The loop ends at that tick.
LEMMA SearchEnds ==
    ASSUME NEW n \in Nat, NEW T \in Seq(Int), n = Len(T), Ascends(T), NEW t \in Int, NEW f,
           IsSearch(T, t, f)
    PROVE  \A lo, hi \in 1 .. n : lo <= hi => LastIn(T, t, lo, hi, At(f, lo, hi))
<1> DEFINE Bad(lo, hi) == lo <= hi /\ ~LastIn(T, t, lo, hi, At(f, lo, hi))
           Wrong == {k \in Nat : \E lo, hi \in 1 .. n : Bad(lo, hi) /\ k = hi - lo}
<1> HIDE DEF Bad
<1> SUFFICES ASSUME Wrong # {} PROVE FALSE
  <2>1. ASSUME NEW lo \in 1 .. n, NEW hi \in 1 .. n, Bad(lo, hi) PROVE hi - lo \in Wrong
    BY <2>1 DEF Bad
  <2> QED BY <2>1 DEF Bad
<1>1. PICK k \in Wrong : \A m \in Wrong : k <= m
  <2> HIDE DEF Wrong
  <2>1. Wrong \in SUBSET Nat
    BY DEF Wrong
  <2> QED BY <2>1, Least
<1>2. PICK lo \in 1 .. n, hi \in 1 .. n : Bad(lo, hi) /\ k = hi - lo
  OBVIOUS
<1>3. ASSUME NEW l \in 1 .. n, NEW h \in 1 .. n, l <= h, h - l < hi - lo
      PROVE  LastIn(T, t, l, h, At(f, l, h))
  <2>1. h - l \in Nat /\ h - l < k
    BY <1>2, <1>3
  <2> HIDE DEF Wrong
  <2>2. k \in Nat /\ h - l \notin Wrong
    BY <1>1, <1>2, <2>1
  <2> USE DEF Wrong
  <2> QED BY <1>3, <2>1, <2>2 DEF Bad
<1> HIDE DEF Wrong
<1> DEFINE mid == Mid(lo, hi)
<1>4. At(f, lo, hi) = IF lo >= hi THEN lo
                      ELSE IF T[mid] <= t THEN At(f, mid, hi) ELSE At(f, lo, mid - 1)
  <2>1. [lo |-> lo, hi |-> hi] \in Ivs(Len(T))
    BY DEF Ivs
  <2>2. At(f, lo, hi) = Turned(T, t, f, [lo |-> lo, hi |-> hi])
    BY <2>1 DEF IsSearch, At
  <2> QED BY <2>2, Turns
<1>5. /\ \A i \in 1 .. n : T[i] \in Int
      /\ \A i, j \in 1 .. n : i <= j => T[i] <= T[j]
  BY SeqFacts DEF Ascends
<1>6. CASE lo = hi
  <2>1. At(f, lo, hi) = lo
    BY <1>4, <1>6
  <2> QED BY <1>2, <1>6, <2>1 DEF Bad, LastIn
<1>7. CASE lo < hi
  <2>1. mid \in lo + 1 .. hi
    BY <1>7, Middle
  <2> HIDE DEF mid
  <2>2. CASE T[mid] <= t
    <3>1. At(f, lo, hi) = At(f, mid, hi) /\ LastIn(T, t, mid, hi, At(f, mid, hi))
      BY <1>3, <1>4, <1>7, <2>1, <2>2
    <3> QED BY <1>2, <1>5, <1>7, <2>1, <2>2, <3>1, Halves DEF Bad
  <2>3. CASE ~(T[mid] <= t)
    <3>1. At(f, lo, hi) = At(f, lo, mid - 1) /\ LastIn(T, t, lo, mid - 1, At(f, lo, mid - 1))
      BY <1>3, <1>4, <1>7, <2>1, <2>3
    <3> QED BY <1>2, <1>5, <1>7, <2>1, <2>3, <3>1, Halves DEF Bad
  <2> QED BY <2>2, <2>3
<1> QED BY <1>2, <1>6, <1>7 DEF Bad

\* There is always one such tick.
LEMMA OneLast ==
    ASSUME NEW n \in Nat, NEW T, \A i \in 1 .. n : T[i] \in Int,
           \A i, j \in 1 .. n : i <= j => T[i] <= T[j],
           NEW t \in Int, NEW lo \in 1 .. n, NEW hi \in 1 .. n, lo <= hi
    PROVE  /\ \E i : LastIn(T, t, lo, hi, i)
           /\ \A i, j : LastIn(T, t, lo, hi, i) /\ LastIn(T, t, lo, hi, j) => i = j
<1>1. ASSUME NEW i, NEW j, LastIn(T, t, lo, hi, i), LastIn(T, t, lo, hi, j), i < j PROVE FALSE
  BY <1>1 DEF LastIn
<1> DEFINE After == {k \in lo + 1 .. hi + 1 : k = hi + 1 \/ t < T[k]}
<1>2. PICK m \in After : \A k \in After : m <= k
  <2>1. After \in SUBSET Nat /\ hi + 1 \in After
    OBVIOUS
  <2> HIDE DEF After
  <2> QED BY <2>1, Least
<1>3. LastIn(T, t, lo, hi, m - 1)
  <2>1. m \in lo + 1 .. hi + 1 /\ m - 1 \in lo .. hi
    OBVIOUS
  <2>2. m - 1 = lo \/ T[m - 1] <= t
    <3>1. m - 1 \notin After
      BY <1>2, <2>1
    <3>2. m - 1 \in 1 .. n
      BY <2>1
    <3> QED BY <2>1, <3>1, <3>2
  <2>3. ASSUME NEW k \in lo .. hi, m - 1 < k PROVE t < T[k]
    <3>1. m # hi + 1 /\ m <= k /\ m \in 1 .. n /\ k \in 1 .. n
      BY <2>1, <2>3
    <3>2. t < T[m] /\ T[m] <= T[k]
      BY <3>1
    <3> QED BY <3>1, <3>2
  <2> QED BY <2>1, <2>2, <2>3 DEF LastIn
<1>4. ASSUME NEW i, NEW j, LastIn(T, t, lo, hi, i), LastIn(T, t, lo, hi, j) PROVE i = j
  <2>1. ~(i < j) /\ ~(j < i) /\ i \in Int /\ j \in Int
    BY <1>1, <1>4 DEF LastIn
  <2> QED BY <2>1
<1> QED BY <1>3, <1>4

\* The function is well defined: the recursion has a solution.
LEMMA SearchExists ==
    ASSUME NEW n \in Nat, NEW T \in Seq(Int), n = Len(T), Ascends(T), NEW t \in Int
    PROVE  \E f : f = [iv \in Ivs(n) |-> Turned(T, t, f, iv)]
<1> DEFINE Result(lo, hi) == IF lo >= hi THEN lo ELSE CHOOSE i : LastIn(T, t, lo, hi, i)
           g == [iv \in Ivs(n) |-> Result(iv.lo, iv.hi)]
<1>1. /\ \A i \in 1 .. n : T[i] \in Int
      /\ \A i, j \in 1 .. n : i <= j => T[i] <= T[j]
  BY SeqFacts DEF Ascends
<1>2. ASSUME NEW lo \in 1 .. n, NEW hi \in 1 .. n
      PROVE  /\ At(g, lo, hi) = Result(lo, hi)
             /\ lo <= hi => LastIn(T, t, lo, hi, Result(lo, hi))
  <2> DEFINE r == [lo |-> lo, hi |-> hi]
  <2>1. r \in Ivs(n) /\ r.lo = lo /\ r.hi = hi /\ At(g, lo, hi) = g[r]
    BY DEF Ivs, At
  <2>2. At(g, lo, hi) = Result(lo, hi)
    <3> HIDE DEF r, Result
    <3> QED BY <2>1
  <2>3. ASSUME lo <= hi PROVE LastIn(T, t, lo, hi, Result(lo, hi))
    <3>1. CASE lo = hi
      BY <1>1, <3>1 DEF LastIn
    <3>2. CASE lo < hi
      <4>1. \E i : LastIn(T, t, lo, hi, i)
        BY <1>1, <2>3, OneLast
      <4>2. ~(lo >= hi)
        BY <3>2
      <4>3. Result(lo, hi) = CHOOSE i : LastIn(T, t, lo, hi, i)
        BY <4>2
      <4> QED BY <4>1, <4>3
    <3> QED BY <2>3, <3>1, <3>2
  <2> QED BY <2>2, <2>3
<1>3. ASSUME NEW iv \in Ivs(n) PROVE g[iv] = Turned(T, t, g, iv)
  <2> DEFINE lo == iv.lo
             hi == iv.hi
             mid == Mid(lo, hi)
  <2>1. lo \in 1 .. n /\ hi \in 1 .. n /\ iv = [lo |-> lo, hi |-> hi]
    BY DEF Ivs
  <2>2. g[iv] = Result(lo, hi)
    OBVIOUS
  <2> HIDE DEF g
  <2>3. Turned(T, t, g, iv) = IF lo >= hi THEN lo
                              ELSE IF T[mid] <= t THEN At(g, mid, hi) ELSE At(g, lo, mid - 1)
    <3> HIDE DEF lo, hi
    <3>1. Turned(T, t, g, [lo |-> lo, hi |-> hi]) =
              IF lo >= hi THEN lo ELSE IF T[mid] <= t THEN At(g, mid, hi) ELSE At(g, lo, mid - 1)
      BY Turns
    <3> QED BY <2>1, <3>1
  <2> HIDE DEF lo, hi
  <2>4. CASE lo >= hi
    BY <2>2, <2>3, <2>4
  <2>5. CASE lo < hi /\ T[mid] <= t
    <3>1. mid \in lo + 1 .. hi
      BY <2>1, <2>5, Middle
    <3> HIDE DEF mid, Result
    <3>2. mid \in 1 .. n /\ mid <= hi /\ lo <= hi /\ ~(lo >= hi)
      BY <2>1, <2>5, <3>1
    <3>3. LastIn(T, t, mid, hi, Result(mid, hi)) /\ At(g, mid, hi) = Result(mid, hi)
      BY <1>2, <2>1, <3>2
    <3>4. LastIn(T, t, lo, hi, Result(mid, hi))
      BY <1>1, <2>1, <2>5, <3>1, <3>3, Halves
    <3>5. LastIn(T, t, lo, hi, Result(lo, hi))
      BY <1>2, <2>1, <3>2
    <3>6. Result(mid, hi) = Result(lo, hi)
      <4>1. \A i, j : LastIn(T, t, lo, hi, i) /\ LastIn(T, t, lo, hi, j) => i = j
        BY <1>1, <2>1, <3>2, OneLast
      <4> QED BY <3>4, <3>5, <4>1
    <3> QED BY <2>2, <2>3, <2>5, <3>2, <3>3, <3>6
  <2>6. CASE lo < hi /\ ~(T[mid] <= t)
    <3>1. mid \in lo + 1 .. hi
      BY <2>1, <2>6, Middle
    <3> HIDE DEF mid, Result
    <3>2. mid - 1 \in 1 .. n /\ lo <= mid - 1 /\ lo <= hi /\ ~(lo >= hi)
      BY <2>1, <2>6, <3>1
    <3>3. LastIn(T, t, lo, mid - 1, Result(lo, mid - 1)) /\ At(g, lo, mid - 1) = Result(lo, mid - 1)
      BY <1>2, <2>1, <3>2
    <3>4. LastIn(T, t, lo, hi, Result(lo, mid - 1))
      BY <1>1, <2>1, <2>6, <3>1, <3>3, Halves
    <3>5. LastIn(T, t, lo, hi, Result(lo, hi))
      BY <1>2, <2>1, <3>2
    <3>6. Result(lo, mid - 1) = Result(lo, hi)
      <4>1. \A i, j : LastIn(T, t, lo, hi, i) /\ LastIn(T, t, lo, hi, j) => i = j
        BY <1>1, <2>1, <3>2, OneLast
      <4> QED BY <3>4, <3>5, <4>1
    <3> QED BY <2>2, <2>3, <2>6, <3>2, <3>3, <3>6
  <2> QED BY <2>1, <2>4, <2>5, <2>6
<1>4. g = [iv \in Ivs(n) |-> Turned(T, t, g, iv)]
  <2>1. g = [iv \in Ivs(n) |-> g[iv]]
    OBVIOUS
  <2> HIDE DEF g
  <2> QED BY <1>3, <2>1
<1> QED BY <1>4

\* The tick on screen is the last one not after the time asked for, or the
\* first of the replay.
LEMMA TickFound ==
    ASSUME NEW d \in Versions, NEW t \in Int
    PROVE  /\ TickAt(d, t) \in DOMAIN Times[d]
           /\ IF t <= Times[d][1] THEN TickAt(d, t) = 1
              ELSE \A i \in DOMAIN Times[d] : Times[d][i] <= t <=> i <= TickAt(d, t)
<1> DEFINE T == Times[d]
           n == Len(T)
           f == CHOOSE f : f = [iv \in [lo : 1 .. n, hi : 1 .. n] |->
                    LET mid == (iv.lo + iv.hi + 1) \div 2
                    IN  IF iv.lo >= iv.hi THEN iv.lo
                        ELSE IF T[mid] <= t THEN f[[iv EXCEPT !.lo = mid]]
                             ELSE f[[iv EXCEPT !.hi = mid - 1]]]
<1>1. TickAt(d, t) = IF t <= T[1] THEN 1 ELSE IF t >= T[n] THEN n
                     ELSE f[[lo |-> 1, hi |-> n]]
  BY DEF TickAt
<1>2. /\ T \in Seq(Int) /\ n \in Nat /\ n >= 1 /\ DOMAIN T = 1 .. n /\ Ascends(T)
      /\ \A i \in 1 .. n : T[i] \in Int
      /\ \A i, j \in 1 .. n : i <= j => T[i] <= T[j]
  <2>1. /\ T \in Seq(Int) /\ n \in 1 .. Newest - 1 /\ DOMAIN T = 1 .. n
        /\ \A i \in DOMAIN T : T[i] \in Int
        /\ \A i, j \in DOMAIN T : i <= j => T[i] <= T[j]
    BY Replay
  <2>2. n \in Nat /\ n >= 1
    BY <2>1
  <2> QED BY <2>1, <2>2 DEF Ascends
<1>3. f = CHOOSE g : g = [iv \in Ivs(n) |-> Turned(T, t, g, iv)]
  BY DEF Ivs, Turned
<1> HIDE DEF f, T
<1>4. \E g : g = [iv \in Ivs(n) |-> Turned(T, t, g, iv)]
  BY <1>2, SearchExists
<1>5. f = [iv \in Ivs(n) |-> Turned(T, t, f, iv)]
  BY <1>3, <1>4
<1>6. IsSearch(T, t, f)
  BY <1>5 DEF IsSearch
<1>7. LastIn(T, t, 1, n, At(f, 1, n))
  BY <1>2, <1>6, SearchEnds
<1>8. CASE t <= T[1]
  BY <1>1, <1>2, <1>8 DEF T
<1>9. CASE ~(t <= T[1]) /\ t >= T[n]
  <2>1. TickAt(d, t) = n
    BY <1>1, <1>9
  <2>2. \A i \in 1 .. n : T[i] <= t
    BY <1>2, <1>9
  <2> QED BY <1>2, <1>9, <2>1, <2>2 DEF T
<1>10. CASE ~(t <= T[1]) /\ ~(t >= T[n])
  <2>1. TickAt(d, t) = At(f, 1, n)
    BY <1>1, <1>10 DEF At
  <2>2. TickAt(d, t) \in 1 .. n /\ T[TickAt(d, t)] <= t
    BY <1>2, <1>7, <1>10, <2>1 DEF LastIn
  <2>3. \A i \in 1 .. n : T[i] <= t <=> i <= TickAt(d, t)
    BY <1>2, <1>7, <2>1, <2>2 DEF LastIn
  <2> QED BY <1>2, <1>10, <2>2, <2>3 DEF T
<1> QED BY <1>8, <1>9, <1>10

-----------------------------------------------------------------------------
(* Events in their order.                                                  *)

\* The events up to a tick are the first ones.
LEMMA UpTo ==
    ASSUME NEW d \in Versions, NEW tick \in Int
    PROVE  \E k \in 0 .. Len(Events[d]) : \A e \in DOMAIN Events[d] : Events[d][e] <= tick <=> e <= k
<1> DEFINE E == Events[d]
           After == {k \in 1 .. Len(E) + 1 : k = Len(E) + 1 \/ tick < E[k]}
<1>1. /\ DOMAIN E = 1 .. Len(E) /\ Len(E) \in Nat
      /\ \A e \in DOMAIN E : E[e] \in Int
      /\ \A e, f \in DOMAIN E : e <= f => E[e] <= E[f]
  <2>1. DOMAIN Times[d] \subseteq Int
    BY Replay
  <2> QED BY <2>1, Replay
<1> HIDE DEF E
<1>2. PICK m \in After : \A k \in After : m <= k
  <2>1. After \in SUBSET Nat /\ Len(E) + 1 \in After
    BY <1>1
  <2> HIDE DEF After
  <2> QED BY <2>1, Least
<1>3. m \in 1 .. Len(E) + 1 /\ m - 1 \in 0 .. Len(E)
  BY <1>1
<1>4. ASSUME NEW e \in DOMAIN E PROVE E[e] <= tick <=> e <= m - 1
  <2>1. e \in 1 .. Len(E) /\ E[e] \in Int
    BY <1>1
  <2>2. CASE e <= m - 1
    <3>1. e \notin After
      BY <1>2, <1>3, <2>1, <2>2
    <3> QED BY <2>1, <2>2, <3>1
  <2>3. CASE ~(e <= m - 1)
    <3>1. m \in DOMAIN E /\ m <= e /\ m # Len(E) + 1
      BY <1>1, <1>3, <2>1, <2>3
    <3>2. tick < E[m] /\ E[m] <= E[e] /\ E[m] \in Int
      BY <1>1, <2>1, <3>1
    <3> QED BY <2>1, <2>3, <3>2
  <2> QED BY <2>2, <2>3
<1> QED BY <1>3, <1>4 DEF E

\* So the events of a window follow each other, and a later window goes on
\* where an earlier one ended.
Cut(d, from, mid, to, l, m, h) ==
    /\ l <= m /\ m <= h
    /\ Window(d, from, mid) = l + 1 .. m
    /\ Window(d, mid, to) = m + 1 .. h
    /\ Window(d, from, to) = l + 1 .. h

\* Neighbouring windows are neighbouring intervals of event ids.
LEMMA Contiguous ==
    ASSUME NEW d \in Versions, NEW from \in Int, NEW mid \in Int, NEW to \in Int,
           from <= mid, mid <= to
    PROVE  \E l, m, h \in 0 .. Len(Events[d]) : Cut(d, from, mid, to, l, m, h)
<1> DEFINE E == Events[d]  n == Len(Events[d])
<1>1. /\ DOMAIN E = 1 .. n /\ n \in Nat /\ \A e \in DOMAIN E : E[e] \in Int
  <2>1. DOMAIN Times[d] \subseteq Int
    BY Replay
  <2> QED BY <2>1, Replay
<1>2. PICK l \in 0 .. n : \A e \in DOMAIN E : E[e] <= from <=> e <= l
  BY UpTo
<1>3. PICK m0 \in 0 .. n : \A e \in DOMAIN E : E[e] <= mid <=> e <= m0
  BY UpTo
<1>4. PICK h0 \in 0 .. n : \A e \in DOMAIN E : E[e] <= to <=> e <= h0
  BY UpTo
<1>5. l <= m0
  <2> SUFFICES ASSUME m0 < l PROVE FALSE
    BY <1>1
  <2>1. l \in DOMAIN E
    BY <1>1
  <2>2. E[l] <= from /\ ~(E[l] <= mid) /\ E[l] \in Int
    BY <1>1, <1>2, <1>3, <2>1
  <2> QED BY <2>2
<1>6. m0 <= h0
  <2> SUFFICES ASSUME h0 < m0 PROVE FALSE
    BY <1>1
  <2>1. m0 \in DOMAIN E
    BY <1>1
  <2>2. E[m0] <= mid /\ ~(E[m0] <= to) /\ E[m0] \in Int
    BY <1>1, <1>3, <1>4, <2>1
  <2> QED BY <2>2
<1>7. ASSUME NEW a \in Int, NEW b \in Int, NEW i \in 0 .. n, NEW j \in 0 .. n,
             \A e \in DOMAIN E : E[e] <= a <=> e <= i,
             \A e \in DOMAIN E : E[e] <= b <=> e <= j
      PROVE  Window(d, a, b) = i + 1 .. j
  <2>1. \A e \in DOMAIN E : a < E[e] /\ E[e] <= b <=> i < e /\ e <= j
    BY <1>1, <1>7
  <2>2. Window(d, a, b) = {e \in 1 .. n : i < e /\ e <= j}
    BY <1>1, <2>1 DEF Window
  <2> HIDE DEF n
  <2> QED BY <1>1, <2>2
<1> HIDE DEF E, n
<1>8. /\ Window(d, from, mid) = l + 1 .. m0 /\ Window(d, mid, to) = m0 + 1 .. h0
      /\ Window(d, from, to) = l + 1 .. h0
  BY <1>2, <1>3, <1>4, <1>7
<1>9. Cut(d, from, mid, to, l, m0, h0)
  BY <1>5, <1>6, <1>8 DEF Cut
<1> QED BY <1>9 DEF n

\* The provers follow an operator more easily than a function.
Ordered(es) == InOrder[es]

\* Consecutive events, in order.
LEMMA InOrderOf ==
    ASSUME NEW lo \in Nat, NEW hi \in Nat, lo <= hi
    PROVE  Ordered(lo + 1 .. hi) = [i \in 1 .. hi - lo |-> lo + i]
<1> DEFINE es == lo + 1 .. hi
<1>1. Cardinality(es) = hi - lo
  <2>1. lo + 1 \in Int /\ hi \in Int
    OBVIOUS
  <2>2. Cardinality(es) = IF lo + 1 > hi THEN 0 ELSE hi - (lo + 1) + 1
    BY <2>1, FS_Interval
  <2> QED BY <2>2
<1>2. ASSUME NEW e \in es PROVE Cardinality({f \in es : f < e}) = e - lo - 1
  <2>1. {f \in es : f < e} = lo + 1 .. e - 1
    OBVIOUS
  <2>2. \A a, b \in Int : Cardinality(a .. b) = IF a > b THEN 0 ELSE b - a + 1
    BY FS_Interval
  <2>3. e \in Nat /\ lo + 1 <= e /\ lo + 1 \in Int /\ e - 1 \in Int
    OBVIOUS
  <2> DEFINE a == lo + 1  b == e - 1
  <2> HIDE DEF a, b
  <2>4. Cardinality(a .. b) = IF a > b THEN 0 ELSE b - a + 1
    BY <2>2, <2>3 DEF a, b
  <2>5. (IF a > b THEN 0 ELSE b - a + 1) = e - lo - 1
    BY <2>3 DEF a, b
  <2> QED BY <2>1, <2>4, <2>5 DEF a, b
<1>3. ASSUME NEW i \in 1 .. hi - lo
      PROVE  (CHOOSE e \in es : Cardinality({f \in es : f < e}) = i - 1) = lo + i
  <2>1. lo + i \in es /\ \A e \in es : e - lo - 1 = i - 1 <=> e = lo + i
    OBVIOUS
  <2> DEFINE P(e) == Cardinality({f \in es : f < e}) = i - 1
  <2>2. \A e \in es : P(e) <=> e = lo + i
    BY <1>2, <2>1
  <2> HIDE DEF P, es
  <2>3. (CHOOSE e \in es : P(e)) = lo + i
    BY <2>1, <2>2
  <2> QED BY <2>3 DEF P
<1>4. Ordered(es) = [i \in 1 .. Cardinality(es) |->
                        CHOOSE e \in es : Cardinality({f \in es : f < e}) = i - 1]
  <2>1. es \in SUBSET Nat
    OBVIOUS
  <2> HIDE DEF es
  <2> QED BY <2>1 DEF InOrder, Ordered
<1>5. [i \in 1 .. Cardinality(es) |->
          CHOOSE e \in es : Cardinality({f \in es : f < e}) = i - 1] = [i \in 1 .. hi - lo |-> lo + i]
  <2> HIDE DEF es
  <2> QED BY <1>1, <1>3
<1> QED BY <1>4, <1>5

\* A sequence that is one and then the other.
LEMMA Concatenated ==
    ASSUME NEW A \in Seq(Nat), NEW B \in Seq(Nat), NEW C \in Seq(Nat), Len(C) = Len(A) + Len(B),
           \A i \in 1 .. Len(A) : C[i] = A[i], \A i \in 1 .. Len(B) : C[Len(A) + i] = B[i]
    PROVE  A \o B = C
<1>1. A \o B \in Seq(Nat) /\ Len(A \o B) = Len(C) /\ Len(A) \in Nat /\ Len(B) \in Nat
  OBVIOUS
<1>2. ASSUME NEW i \in 1 .. Len(C) PROVE (A \o B)[i] = C[i]
  <2>1. CASE i <= Len(A)
    <3>1. i \in 1 .. Len(A)
      BY <1>1, <2>1
    <3>2. (A \o B)[i] = A[i]
      BY <3>1
    <3> QED BY <3>1, <3>2
  <2>2. CASE ~(i <= Len(A))
    <3>1. i - Len(A) \in 1 .. Len(B) /\ Len(A) + (i - Len(A)) = i
      BY <1>1, <2>2
    <3>2. (A \o B)[i] = B[i - Len(A)]
      BY <1>1, <2>2
    <3>3. C[i] = B[i - Len(A)]
      BY <3>1
    <3> QED BY <3>2, <3>3
  <2> QED BY <2>1, <2>2
<1> QED BY <1>1, <1>2, SeqEqual

\* Replaying on from where the roster is gives what replaying all of it does.
LEMMA Joined ==
    ASSUME NEW d \in Versions, NEW from \in Int, NEW mid \in Int, NEW to \in Int,
           from <= mid, mid <= to
    PROVE  /\ Ordered(Window(d, from, mid)) \o Ordered(Window(d, mid, to)) = Ordered(Window(d, from, to))
           /\ Ordered(Window(d, from, to)) \in Seq(DOMAIN Events[d])
<1>0. PICK l, m, h \in 0 .. Len(Events[d]) : Cut(d, from, mid, to, l, m, h)
  BY Contiguous
<1>1. /\ l <= m /\ m <= h /\ l \in 0 .. Len(Events[d]) /\ m \in 0 .. Len(Events[d])
      /\ h \in 0 .. Len(Events[d])
      /\ Window(d, from, mid) = l + 1 .. m
      /\ Window(d, mid, to) = m + 1 .. h
      /\ Window(d, from, to) = l + 1 .. h
  BY <1>0 DEF Cut
<1>2. l \in Nat /\ m \in Nat /\ h \in Nat /\ l <= h /\ h <= Len(Events[d])
      /\ DOMAIN Events[d] = 1 .. Len(Events[d])
  BY <1>1, Replay
<1> DEFINE A == [i \in 1 .. m - l |-> l + i]
           B == [i \in 1 .. h - m |-> m + i]
           C == [i \in 1 .. h - l |-> l + i]
<1>3. /\ Ordered(Window(d, from, mid)) = A /\ Ordered(Window(d, mid, to)) = B
      /\ Ordered(Window(d, from, to)) = C
  BY <1>1, <1>2, InOrderOf
<1>4. A \in Seq(Nat) /\ Len(A) = m - l /\ B \in Seq(Nat) /\ Len(B) = h - m
      /\ C \in Seq(Nat) /\ Len(C) = h - l
  BY <1>1, <1>2
<1>5. C \in Seq(1 .. Len(Events[d]))
  BY <1>1, <1>2
<1>6. /\ \A i \in 1 .. Len(A) : C[i] = A[i]
      /\ \A i \in 1 .. Len(B) : C[Len(A) + i] = B[i]
      /\ Len(C) = Len(A) + Len(B)
  <2>1. \A i \in 1 .. m - l : C[i] = l + i /\ A[i] = l + i
    BY <1>1, <1>2
  <2>2. \A i \in 1 .. h - m : (m - l) + i \in 1 .. h - l /\ B[i] = m + i
    BY <1>1, <1>2
  <2>3. \A i \in 1 .. h - l : C[i] = l + i
    OBVIOUS
  <2> HIDE DEF A, B, C
  <2>4. \A i \in 1 .. h - m : C[(m - l) + i] = B[i]
    BY <1>1, <1>2, <2>2, <2>3
  <2> QED BY <1>1, <1>2, <1>4, <2>1, <2>4
<1> HIDE DEF A, B, C
<1>7. A \o B = C
  BY <1>4, <1>6, Concatenated
<1> QED BY <1>2, <1>3, <1>5, <1>7

\* It lists the window's events, each once and in order.
LEMMA Listed ==
    ASSUME NEW d \in Versions, NEW from \in Int, NEW to \in Int, from <= to,
           NEW r, r = Ordered(Window(d, from, to))
    PROVE  /\ r \in Seq(DOMAIN Events[d])
           /\ {r[i] : i \in DOMAIN r} = Window(d, from, to)
           /\ \A i, j \in DOMAIN r : i < j => r[i] < r[j]
<1>0. from <= from
  OBVIOUS
<1>1. PICK l, m, h \in 0 .. Len(Events[d]) : Cut(d, from, from, to, l, m, h)
  BY <1>0, Contiguous
<1>2. l \in Nat /\ h \in Nat /\ l <= h /\ Window(d, from, to) = l + 1 .. h
  BY <1>1 DEF Cut
<1>3. r = [i \in 1 .. h - l |-> l + i]
  BY <1>2, InOrderOf
<1>4. r \in Seq(DOMAIN Events[d])
  BY Joined
<1>5. {r[i] : i \in DOMAIN r} = l + 1 .. h
  <2>1. \A e \in l + 1 .. h : e - l \in 1 .. h - l /\ l + (e - l) = e
    BY <1>2
  <2>2. \A i \in 1 .. h - l : l + i \in l + 1 .. h
    BY <1>2
  <2>3. DOMAIN r = 1 .. h - l /\ \A i \in 1 .. h - l : r[i] = l + i
    BY <1>3
  <2>4. ASSUME NEW e \in l + 1 .. h PROVE \E i \in DOMAIN r : e = r[i]
    BY <2>1, <2>3
  <2>5. ASSUME NEW i \in DOMAIN r PROVE r[i] \in l + 1 .. h
    BY <2>2, <2>3
  <2> QED BY <2>4, <2>5
<1>6. \A i, j \in DOMAIN r : i < j => r[i] < r[j]
  BY <1>2, <1>3
<1> QED BY <1>2, <1>4, <1>5, <1>6

-----------------------------------------------------------------------------
(* The worker.                                                             *)

States == [active : Nat, synced : Int, roster : Seq(Nat), tick : Int, tickB : Int]

\* The roster is the replay of its battle's events up to the tick it is at; it
\* is empty before the first frame, and of no use after a revert.
InStep(d, s) ==
    /\ s \in States
    /\ s.active \in 0 .. Len(Battles[d])
    /\ s.synced \in {-1, Newest} \cup DOMAIN Times[d]
    /\ s.synced = -1 => s.active = None /\ s.roster = <<>>
    /\ s.synced \in DOMAIN Times[d] =>
           /\ s.active = BattleOf(d, s.synced)
           /\ s.roster = Ordered(Window(d, Start(d, s.active), s.synced))

\* The tick beyond all is a number.
LEMMA NewestIsLate == Newest \in Nat
BY SMT DEF Newest

\* A battle's replay begins no later than the battle.
LEMMA StartsBefore ==
    ASSUME NEW d \in Versions, NEW tick \in DOMAIN Times[d]
    PROVE  /\ Start(d, BattleOf(d, tick)) \in Int
           /\ Start(d, BattleOf(d, tick)) <= tick
<1>1. tick \in Int /\ tick >= 1
  BY Replay
<1>2. CASE BattleOf(d, tick) = None
  BY <1>1, <1>2 DEF Start
<1>3. CASE BattleOf(d, tick) # None
  <2> DEFINE b == BattleOf(d, tick)
  <2>1. b \in DOMAIN Battles[d] /\ tick \in Battles[d][b].first .. Battles[d][b].last
    BY <1>1, <1>3, BattleHas
  <2>2. Battles[d][b].first \in Nat /\ Battles[d][b].last \in Nat
    BY <2>1, Replay
  <2>3. Start(d, b) = Battles[d][b].first - 2
    BY <1>3 DEF Start
  <2> HIDE DEF b
  <2>4. Battles[d][b].first <= tick
    BY <1>1, <2>1, <2>2
  <2> QED BY <1>1, <2>2, <2>3, <2>4 DEF b
<1> QED BY <1>2, <1>3

\* resync_roster_to brings the roster to the tick, by both of its ways.
LEMMA Resyncs ==
    ASSUME NEW d \in Versions, NEW s, InStep(d, s), NEW target \in DOMAIN Times[d]
    PROVE  /\ InStep(d, Resynced(d, s, target))
           /\ Resynced(d, s, target).synced = target
<1> DEFINE new == BattleOf(d, target)
           res == Resynced(d, s, target)
           all == Ordered(Window(d, Start(d, new), target))
<1>1. target \in Int /\ target # -1 /\ target < Newest /\ DOMAIN Events[d] \subseteq Nat
  <2>1. DOMAIN Times[d] = 1 .. Len(Times[d]) /\ Len(Times[d]) \in 1 .. Newest - 1
        /\ DOMAIN Events[d] = 1 .. Len(Events[d]) /\ Len(Events[d]) \in Nat
    BY Replay
  <2> QED BY <2>1, NewestIsLate
<1>2. new \in 0 .. Len(Battles[d]) /\ new \in Nat
  BY <1>1, BattleHas
<1>3. Start(d, new) \in Int /\ Start(d, new) <= target
  BY StartsBefore
<1>4. all \in Seq(Nat)
  <2>1. all \in Seq(DOMAIN Events[d])
    BY <1>1, <1>3, Listed
  <2> HIDE DEF all
  <2> QED BY <1>1, <2>1
<1>5. s \in States
  BY DEF InStep
<1> HIDE DEF new
<1>6. CASE new # s.active \/ target < s.synced
  <2>1. res = Applied(d, [s EXCEPT !.roster = <<>>, !.active = new], Start(d, new), target)
    BY <1>6 DEF Resynced, new
  <2>2. res = [active |-> new, synced |-> target, roster |-> <<>> \o all, tick |-> s.tick, tickB |-> s.tickB]
    BY <1>5, <2>1 DEF Applied, States, Ordered
  <2> HIDE DEF all, res
  <2>3. <<>> \o all = all
    BY <1>4
  <2>4. res \in States /\ res.active = new /\ res.synced = target /\ res.roster = all
    BY <1>1, <1>2, <1>4, <1>5, <2>2, <2>3 DEF States
  <2> QED BY <1>1, <1>2, <2>4 DEF InStep, new, all, res
<1>7. CASE ~(new # s.active \/ target < s.synced)
  <2>1. res = Applied(d, s, s.synced, target)
    BY <1>7 DEF Resynced, new
  <2>2. s.synced \in Int /\ s.synced <= target /\ s.active = new /\ s.roster \in Seq(Nat)
    BY <1>1, <1>5, <1>7 DEF States
  <2> DEFINE more == Ordered(Window(d, s.synced, target))
  <2>3. res = [active |-> new, synced |-> target, roster |-> s.roster \o more, tick |-> s.tick,
               tickB |-> s.tickB]
    BY <1>5, <2>1, <2>2 DEF Applied, States, Ordered
  <2>4. s.roster \o more = all
    <3>1. CASE s.synced = -1
      <4>1. s.roster = <<>> /\ Start(d, new) = -1
        BY <2>2, <3>1 DEF InStep, Start
      <4>2. more = all
        BY <3>1, <4>1
      <4> HIDE DEF more, all
      <4> QED BY <1>4, <4>1, <4>2
    <3>2. CASE s.synced \in DOMAIN Times[d]
      <4>1. s.roster = Ordered(Window(d, Start(d, new), s.synced))
        BY <2>2, <3>2 DEF InStep
      <4>2. Start(d, new) <= s.synced
        <5>1. new = BattleOf(d, s.synced)
          BY <2>2, <3>2 DEF InStep
        <5> QED BY <3>2, <5>1, StartsBefore
      <4>3. \A from, mid, to \in Int : from <= mid /\ mid <= to =>
                Ordered(Window(d, from, mid)) \o Ordered(Window(d, mid, to)) = Ordered(Window(d, from, to))
        BY Joined
      <4>4. Ordered(Window(d, Start(d, new), s.synced)) \o more = all
        BY <1>1, <1>3, <2>2, <4>2, <4>3
      <4> HIDE DEF more, all
      <4> QED BY <4>1, <4>4
    <3>3. s.synced # Newest
      BY <1>1, <2>2, NewestIsLate
    <3> QED BY <3>1, <3>2, <3>3 DEF InStep
  <2> HIDE DEF all, res, more
  <2>5. res \in States /\ res.active = new /\ res.synced = target /\ res.roster = all
    BY <1>1, <1>2, <1>4, <1>5, <2>3, <2>4 DEF States
  <2> QED BY <1>1, <1>2, <2>5 DEF InStep, new, all, res
<1> QED BY <1>6, <1>7

\* The engine between two requests.
RosterInv ==
    /\ version \in Versions
    /\ InStep(version, engine)
    /\ Synced => engine.tickB = engine.synced

\* build_frame_at_time leaves it at the second of the frame's ticks.
LEMMA Builds ==
    ASSUME RosterInv, NEW t \in Int, Build(t), version' = version
    PROVE  RosterInv' /\ engine'.tick \in DOMAIN Times[version]
<1>1. version \in Versions /\ InStep(version, engine)
  BY DEF RosterInv
<1>2. PICK first \in {TickAt(version, t)} :
          \E st \in {Resynced(version, engine, first)} : engine' = Framed(version, st, first)
  BY DEF Build
<1>3. PICK half \in {Resynced(version, engine, first)} : engine' = Framed(version, half, first)
  BY <1>2
<1> DEFINE second == IF first < Len(Times[version]) THEN first + 1 ELSE first
<1>4. /\ engine' = [Resynced(version, half, second) EXCEPT !.tick = first, !.tickB = second]
      /\ second \in DOMAIN Times[version]
  <2>1. DOMAIN Times[version] = 1 .. Len(Times[version]) /\ Len(Times[version]) \in Nat
    BY <1>1, Replay
  <2>2. first \in DOMAIN Times[version]
    BY <1>1, TickFound
  <2> QED BY <1>3, <2>1, <2>2 DEF Framed
<1> HIDE DEF second
<1>5. first \in DOMAIN Times[version]
  BY <1>1, TickFound
<1>6. InStep(version, half)
  BY <1>1, <1>5, Resyncs
<1> DEFINE last == Resynced(version, half, second)
<1>7. InStep(version, last) /\ last.synced = second
  BY <1>1, <1>4, <1>6, Resyncs
<1> HIDE DEF last
<1>8. first \in Int /\ second \in Int
  BY <1>1, <1>4, <1>5, Replay
<1>9. /\ engine' \in States /\ engine'.active = last.active /\ engine'.synced = second
      /\ engine'.roster = last.roster /\ engine'.tick = first /\ engine'.tickB = second
  <2>1. engine' = [last EXCEPT !.tick = first, !.tickB = second]
    BY <1>4 DEF last
  <2>2. last \in States
    BY <1>7 DEF InStep
  <2> QED BY <1>7, <1>8, <2>1, <2>2 DEF States
<1>10. InStep(version, engine')
  BY <1>7, <1>9 DEF InStep
<1> QED BY <1>1, <1>5, <1>9, <1>10 DEF RosterInv, Synced

\* What the frame shows is then that replay, as a viewer would define it.
LEMMA RosterRight ==
    ASSUME RosterInv
    PROVE  EngineTypeOK /\ RosterIsReplayed /\ SearchFinds
<1> DEFINE d == version
<1>1. d \in Versions /\ InStep(d, engine)
  BY DEF RosterInv
<1>2. SearchFinds
  <2>1. Times[d][1] \in Int /\ Times[d][Len(Times[d])] \in Int
    <3>1. DOMAIN Times[d] = 1 .. Len(Times[d]) /\ Len(Times[d]) \in 1 .. Newest - 1
      BY <1>1, Replay
    <3>2. 1 \in DOMAIN Times[d] /\ Len(Times[d]) \in DOMAIN Times[d]
      BY <3>1
    <3> QED BY <1>1, <3>2, Replay
  <2>2. ASSUME NEW t \in Times[d][1] - 1 .. Times[d][Len(Times[d])] + 1 PROVE t \in Int
    BY <2>1
  <2> QED BY <1>1, <2>2, TickFound DEF SearchFinds
<1>3. ASSUME Synced
      PROVE  /\ engine.synced \in DOMAIN Times[d] /\ engine.tickB = engine.synced
             /\ engine.roster = Ordered(Window(d, Start(d, engine.active), engine.synced))
             /\ engine.roster \in Seq(DOMAIN Events[d])
             /\ {engine.roster[i] : i \in DOMAIN engine.roster}
                    = Window(d, Start(d, engine.active), engine.synced)
             /\ \A i, j \in DOMAIN engine.roster : i < j => engine.roster[i] < engine.roster[j]
  <2>1. engine.synced \in DOMAIN Times[d] /\ engine.tickB = engine.synced
    BY <1>1, <1>3 DEF InStep, Synced, RosterInv
  <2>2. /\ engine.active = BattleOf(d, engine.synced)
        /\ engine.roster = Ordered(Window(d, Start(d, engine.active), engine.synced))
    BY <1>1, <2>1 DEF InStep
  <2>3. engine.synced \in Int /\ Start(d, engine.active) \in Int /\ Start(d, engine.active) <= engine.synced
    BY <1>1, <2>1, <2>2, Replay, StartsBefore
  <2> HIDE DEF d
  <2> QED BY <1>1, <2>1, <2>2, <2>3, Listed
<1>4. EngineTypeOK
  BY <1>1, <1>3 DEF EngineTypeOK, InStep
<1>5. ASSUME Synced PROVE RosterIsReplayed
  <2> DEFINE E == Events[d]
  <2>1. \A e \in DOMAIN E : E[e] \in Nat /\ E[e] >= 1
    <3>1. \A e \in DOMAIN E : E[e] \in DOMAIN Times[d]
      BY <1>1, Replay
    <3>2. DOMAIN Times[d] = 1 .. Len(Times[d])
      BY <1>1, Replay
    <3> HIDE DEF E
    <3> QED BY <3>1, <3>2
  <2>2. engine.active # None => /\ engine.active \in DOMAIN Battles[d]
                                /\ Battles[d][engine.active].first \in Nat
    <3>1. engine.active \in 0 .. Len(Battles[d]) /\ DOMAIN Battles[d] = 1 .. Len(Battles[d])
          /\ Len(Battles[d]) \in Nat
      BY <1>1, Replay DEF InStep
    <3> QED BY <1>1, <3>1, Replay DEF None
  <2>3. Window(d, Start(d, engine.active), engine.synced) =
            {e \in DOMAIN E : /\ E[e] <= engine.tickB
                              /\ engine.active # None => E[e] >= Battles[d][engine.active].first - 1}
    <3>1. CASE engine.active = None
      BY <1>3, <1>5, <2>1, <3>1 DEF Window, Start
    <3>2. CASE engine.active # None
      <4>1. Start(d, engine.active) = Battles[d][engine.active].first - 2
        BY <3>2 DEF Start
      <4> HIDE DEF E
      <4>2. \A e \in DOMAIN E : Start(d, engine.active) < E[e] <=> E[e] >= Battles[d][engine.active].first - 1
        BY <2>1, <2>2, <3>2, <4>1
      <4> USE DEF E
      <4> QED BY <1>3, <1>5, <3>2, <4>2 DEF Window
    <3> QED BY <3>1, <3>2
  <2> QED BY <1>3, <1>5, <2>3 DEF RosterIsReplayed
<1> QED BY <1>2, <1>4, <1>5 DEF RosterIsReplayed

-----------------------------------------------------------------------------
(* The queues.                                                             *)

Requests == [op : {"frame"}, at : Int] \cup [op : {"prime", "revert"}]

Frames  == {f \in [tick : Int, battle : Nat, version : Versions] : f.tick \in DOMAIN Times[f.version]}

Answers == [op : {"frame"}, frame : Frames] \cup [op : {"primed", "error"}]
               \cup [op : {"reverted"}, end : {EndOf(d) : d \in Versions}]

Messages == Requests \cup Answers

Of(q, op)    == {i \in DOMAIN q : q[i].op = op}
Count(q, op) == Cardinality(Of(q, op))

\* How many messages of a kind a queue holds.
LEMMA CountIsNat ==
    ASSUME NEW q \in Seq(Messages), NEW op
    PROVE  Count(q, op) \in Nat /\ IsFiniteSet(Of(q, op))
<1>1. 1 \in Int /\ Len(q) \in Int /\ Of(q, op) \in SUBSET (1 .. Len(q))
  BY SeqFacts DEF Of
<1>2. IsFiniteSet(1 .. Len(q))
  BY <1>1, FS_Interval
<1>3. IsFiniteSet(Of(q, op))
  BY <1>1, <1>2, FS_Subset
<1> QED BY <1>3, FS_CardinalityType DEF Count

\* An empty queue holds none,
LEMMA CountEmpty == \A op : Count(<<>>, op) = 0
<1>1. \A op : Of(<<>>, op) = {}
  BY DEF Of
<1> QED BY <1>1, FS_EmptySet DEF Count

\* ... an appended message is one more of its kind,
LEMMA CountAppend ==
    ASSUME NEW q \in Seq(Messages), NEW m \in Messages, NEW op
    PROVE  Count(Append(q, m), op) = Count(q, op) + IF m.op = op THEN 1 ELSE 0
<1> DEFINE p == Append(q, m)
<1>1. /\ DOMAIN p = DOMAIN q \cup {Len(q) + 1} /\ Len(q) + 1 \notin DOMAIN q
      /\ \A i \in DOMAIN q : p[i] = q[i]
      /\ p[Len(q) + 1] = m
  OBVIOUS
<1>2. Len(q) + 1 \notin Of(q, op) /\ IsFiniteSet(Of(q, op)) /\ Count(q, op) \in Nat
  BY <1>1, CountIsNat DEF Of
<1> HIDE DEF p
<1>3. CASE m.op = op
  <2>1. Of(p, op) = Of(q, op) \cup {Len(q) + 1}
    BY <1>1, <1>3 DEF Of
  <2>2. Cardinality(Of(q, op) \cup {Len(q) + 1}) = Cardinality(Of(q, op)) + 1
    BY <1>2, FS_AddElement
  <2> QED BY <1>3, <2>1, <2>2 DEF Count, p
<1>4. CASE m.op # op
  <2>1. Of(p, op) = Of(q, op)
    BY <1>1, <1>4 DEF Of
  <2>2. Count(p, op) = Count(q, op)
    BY <2>1 DEF Count
  <2> QED BY <1>2, <1>4, <2>2 DEF p
<1> QED BY <1>3, <1>4

\* ... and one taken is one less.
LEMMA CountTail ==
    ASSUME NEW q \in Seq(Messages), q # <<>>, NEW op
    PROVE  Count(Tail(q), op) = Count(q, op) - IF Head(q).op = op THEN 1 ELSE 0
<1> DEFINE t == Tail(q)
           rest == Of(q, op) \ {1}
<1>1. /\ DOMAIN t = 1 .. Len(q) - 1 /\ DOMAIN q = 1 .. Len(q) /\ Len(q) \in Nat /\ Len(q) >= 1
      /\ \A i \in 1 .. Len(q) - 1 : t[i] = q[i + 1]
      /\ t \in Seq(Messages) /\ Head(q) = q[1]
  OBVIOUS
<1>2. IsFiniteSet(Of(t, op)) /\ IsFiniteSet(Of(q, op)) /\ Count(q, op) \in Nat
  BY <1>1, CountIsNat
<1> HIDE DEF t
<1>3. IsFiniteSet(rest) /\ Cardinality(rest) = Count(q, op) - IF 1 \in Of(q, op) THEN 1 ELSE 0
  BY <1>2, FS_RemoveElement DEF Count
<1>4. 1 \in Of(q, op) <=> Head(q).op = op
  BY <1>1 DEF Of
<1>5. /\ \A i \in Of(t, op) : i \in Int /\ i + 1 \in rest
      /\ \A j \in rest : j \in Int /\ j - 1 \in Of(t, op)
  <2>1. ASSUME NEW i \in Of(t, op) PROVE i \in Int /\ i + 1 \in rest
    BY <1>1 DEF Of
  <2>2. ASSUME NEW j \in rest PROVE j \in Int /\ j - 1 \in Of(t, op)
    <3>1. j \in 1 .. Len(q) /\ j # 1 /\ q[j].op = op
      BY <1>1 DEF Of
    <3>2. j - 1 \in 1 .. Len(q) - 1 /\ (j - 1) + 1 = j
      BY <1>1, <3>1
    <3>3. t[j - 1] = q[j]
      BY <1>1, <3>2
    <3> QED BY <1>1, <3>1, <3>2, <3>3 DEF Of
  <2> QED BY <2>1, <2>2
<1> HIDE DEF rest
<1>6. Cardinality(Of(t, op)) <= Cardinality(rest)
  <2> DEFINE f == [i \in Of(t, op) |-> i + 1]
  <2>1. f \in Injection(Of(t, op), rest)
    BY <1>5 DEF Injection, IsInjective
  <2> HIDE DEF f
  <2> QED BY <1>3, <2>1, FS_Injection
<1>7. Cardinality(rest) <= Cardinality(Of(t, op))
  <2> DEFINE f == [i \in rest |-> i - 1]
  <2>1. f \in Injection(rest, Of(t, op))
    BY <1>5 DEF Injection, IsInjective
  <2> HIDE DEF f
  <2> QED BY <1>2, <2>1, FS_Injection
<1>8. Cardinality(rest) \in Nat /\ Cardinality(Of(t, op)) \in Nat
  BY <1>2, <1>3, FS_CardinalityType
<1>9. Count(t, op) = Cardinality(rest)
  BY <1>6, <1>7, <1>8 DEF Count
<1> QED BY <1>3, <1>4, <1>9 DEF t

\* The same of requests and answers.
LEMMA CountQueue ==
    ASSUME NEW S \in SUBSET Messages, NEW q \in Seq(S)
    PROVE  /\ \A op : Count(q, op) \in Nat
           /\ \A op : \A m \in S : Count(Append(q, m), op) = Count(q, op) + IF m.op = op THEN 1 ELSE 0
           /\ q # <<>> => \A op : Count(Tail(q), op) = Count(q, op) - IF Head(q).op = op THEN 1 ELSE 0
<1>1. q \in Seq(Messages)
  OBVIOUS
<1> QED BY <1>1, CountIsNat, CountAppend, CountTail

-----------------------------------------------------------------------------
(* The invariant.                                                          *)

PageOk ==
    /\ cursor \in Int /\ {paused, pending, priming} \subseteq BOOLEAN
    /\ end \in {EndOf(d) : d \in Versions}
    /\ shown = Blank \/ shown \in Frames
    /\ acts \in Nat /\ faults \in Nat

QueuesOk == toWorker \in Seq(Requests) /\ toPage \in Seq(Answers)

\* Requests and answers under way are those of the mark, and those whose mark
\* an error has cleared.
PaceOk == Count(toWorker, "frame") + Count(toPage, "frame")
              <= (IF pending THEN 1 ELSE 0) + faults - Count(toPage, "error")

IInv == RosterInv /\ PageOk /\ QueuesOk /\ PaceOk

\* The clock has a first and a last time.
LEMMA EndIsInt == \A d \in Versions : EndOf(d) \in Int /\ Times[d][1] \in Int
<1> SUFFICES ASSUME NEW d \in Versions PROVE EndOf(d) \in Int /\ Times[d][1] \in Int
  OBVIOUS
<1>1. DOMAIN Times[d] = 1 .. Len(Times[d]) /\ Len(Times[d]) \in 1 .. Newest - 1
  BY Replay
<1>2. 1 \in DOMAIN Times[d] /\ Len(Times[d]) \in DOMAIN Times[d]
  BY <1>1, NewestIsLate
<1> QED BY <1>2, Replay DEF EndOf

\* Nothing is asked for at first.
LEMMA InitInv == Init => IInv
<1> SUFFICES ASSUME Init PROVE IInv
  OBVIOUS
<1> USE DEF Init
<1>1. RosterInv
  <2>1. /\ engine.active = 0 /\ engine.synced = -1 /\ engine.roster = <<>> /\ <<>> \in Seq(Nat)
        /\ engine.tick = -1 /\ engine.tickB = -1
        /\ engine = [active |-> 0, synced |-> -1, roster |-> <<>>, tick |-> -1, tickB |-> -1]
    BY DEF Engine, None, NoTick
  <2>2. engine \in States
    BY <2>1 DEF States
  <2>3. -1 \notin DOMAIN Times[version] /\ Len(Battles[version]) \in Nat
    BY Replay
  <2> QED BY <2>1, <2>2, <2>3 DEF RosterInv, InStep, Synced, None
<1>2. cursor \in Int /\ PageOk
  BY EndIsInt DEF PageOk
<1>3. QueuesOk
  BY <1>2 DEF QueuesOk, Requests
<1>4. PaceOk
  <2> DEFINE m == [op |-> "frame", at |-> cursor]
  <2>1. m \in Messages /\ <<>> \in Seq(Messages) /\ m.op = "frame"
    BY <1>2 DEF Requests, Messages
  <2>2. toWorker = Append(<<>>, m) /\ toPage = <<>>
    BY DEF PageOk
  <2> HIDE DEF m
  <2>3. Count(toWorker, "frame") = Count(<<>>, "frame") + 1
    <3>1. Count(Append(<<>>, m), "frame") = Count(<<>>, "frame") + IF m.op = "frame" THEN 1 ELSE 0
      BY <2>1, CountAppend
    <3> QED BY <2>1, <2>2, <3>1
  <2> QED BY <2>2, <2>3, CountEmpty DEF PaceOk
<1> QED BY <1>1, <1>2, <1>3, <1>4 DEF IInv

\* Asking for a frame: the mark is set, and unless it was a request goes out.
LEMMA Asks ==
    ASSUME PageOk, QueuesOk, NEW t \in Int, Request(t)
    PROVE  /\ toWorker' \in Seq(Requests) /\ pending' = TRUE
           /\ Count(toWorker', "frame") = Count(toWorker, "frame") + IF pending THEN 0 ELSE 1
<1> DEFINE m == [op |-> "frame", at |-> t]
<1>1. m \in Requests /\ Requests \in SUBSET Messages /\ m.op = "frame"
  BY DEF Requests, Messages
<1>2. pending' = TRUE /\ toWorker' = IF pending THEN toWorker ELSE Append(toWorker, m)
  BY DEF Request
<1>3. toWorker \in Seq(Requests) /\ pending \in BOOLEAN
  BY DEF QueuesOk, PageOk
<1> HIDE DEF m
<1>4. Count(toWorker, "frame") \in Nat
  BY <1>1, <1>3, CountQueue
<1>5. CASE pending
  BY <1>2, <1>3, <1>4, <1>5
<1>6. CASE ~pending
  <2>1. toWorker' = Append(toWorker, m)
    BY <1>2, <1>6
  <2>2. Count(Append(toWorker, m), "frame") = Count(toWorker, "frame") + 1
    BY <1>1, <1>3, CountQueue
  <2> QED BY <1>1, <1>2, <1>3, <1>6, <2>1, <2>2
<1> QED BY <1>5, <1>6

\* Other requests do not count.
LEMMA Posts ==
    ASSUME QueuesOk, NEW op \in {"prime", "revert"}, toWorker' = Append(toWorker, [op |-> op])
    PROVE  /\ toWorker' \in Seq(Requests)
           /\ Count(toWorker', "frame") = Count(toWorker, "frame")
<1> DEFINE m == [op |-> op]
<1>1. m \in Requests /\ Requests \in SUBSET Messages /\ m.op # "frame"
  BY DEF Requests, Messages
<1>2. toWorker \in Seq(Requests)
  BY DEF QueuesOk
<1> HIDE DEF m
<1>3. Count(Append(toWorker, m), "frame") = Count(toWorker, "frame") + 0
  BY <1>1, <1>2, CountQueue
<1>4. Count(toWorker, "frame") \in Nat
  BY <1>1, <1>2, CountQueue
<1> QED BY <1>1, <1>2, <1>3, <1>4 DEF m

-----------------------------------------------------------------------------
(* The steps of the page.                                                  *)

\* The clock asks, or the slider.
LEMMA AskedInv ==
    ASSUME IInv, Request(cursor'), cursor' \in Int, paused' \in BOOLEAN, acts' \in Nat,
           UNCHANGED <<version, engine, priming, end, shown, toPage, faults>>
    PROVE  IInv'
<1>1. /\ toWorker' \in Seq(Requests) /\ pending' = TRUE
      /\ Count(toWorker', "frame") = Count(toWorker, "frame") + IF pending THEN 0 ELSE 1
  BY Asks DEF IInv
<1>2. RosterInv'
  BY DEF IInv, RosterInv, Synced
<1>3. PageOk' /\ QueuesOk'
  BY <1>1 DEF IInv, PageOk, QueuesOk, Blank
<1>4. Count(toWorker, "frame") \in Nat /\ Count(toPage, "frame") \in Nat
      /\ Count(toPage, "error") \in Nat /\ faults \in Nat
  <2>1. Requests \in SUBSET Messages /\ Answers \in SUBSET Messages
    BY DEF Messages
  <2> QED BY <2>1, CountQueue DEF IInv, QueuesOk, PageOk
<1>5. PaceOk'
  BY <1>1, <1>4 DEF IInv, PaceOk, PageOk
<1> QED BY <1>2, <1>3, <1>5 DEF IInv

\* The render loop asks for a frame,
LEMMA LoopInv == IInv /\ Loop => IInv'
<1> SUFFICES ASSUME IInv, Loop PROVE IInv'
  OBVIOUS
<1>1. /\ cursor \in Int /\ paused \in BOOLEAN /\ pending \in BOOLEAN /\ end \in Int
      /\ faults \in Nat /\ PageOk /\ QueuesOk
  BY EndIsInt DEF IInv, PageOk
<1>2. PICK d \in Steps :
        LET over == ~paused /\ cursor + d >= end
            now  == IF paused THEN cursor ELSE IF over THEN end ELSE cursor + d
        IN  /\ cursor' = now /\ paused' = (paused \/ over)
            /\ Request(now)
  BY DEF Loop
<1>3. d \in Int
  BY PlaybackConstants
<1>4. cursor' \in Int /\ paused' \in BOOLEAN /\ Request(cursor')
  BY <1>1, <1>2, <1>3
<1>5. UNCHANGED <<version, engine, priming, end, shown, toPage, acts, faults>>
  BY DEF Loop
<1>6. acts' \in Nat
  BY <1>1, <1>5 DEF PageOk
<1> QED BY <1>4, <1>5, <1>6, AskedInv

\* ... a seek as well.
LEMMA SeekInv == ASSUME NEW t \in Int, IInv, Seek(t) PROVE IInv'
<1>1. /\ t \in Int /\ paused' \in BOOLEAN /\ cursor' = t /\ Request(t)
      /\ UNCHANGED <<version, engine, priming, end, shown, toPage, faults>>
      /\ acts' \in Nat
  BY DEF Seek, IInv, PageOk
<1> QED BY <1>1, AskedInv

\* Pausing touches no request.
LEMMA ToggleInv == IInv /\ Toggle => IInv'
<1> SUFFICES ASSUME IInv, Toggle PROVE IInv'
  OBVIOUS
<1>1. /\ UNCHANGED <<version, engine, cursor, pending, priming, end, shown, toWorker, toPage, faults>>
      /\ acts' \in Nat /\ paused' \in BOOLEAN
  BY DEF Toggle, IInv, PageOk
<1>2. RosterInv'
  BY <1>1 DEF IInv, RosterInv, Synced
<1>3. PageOk' /\ QueuesOk' /\ PaceOk'
  BY <1>1 DEF IInv, PageOk, QueuesOk, PaceOk
<1> QED BY <1>2, <1>3 DEF IInv

\* A revert is a request that is not a frame's.
LEMMA RevertInv == IInv /\ Revert => IInv'
<1> SUFFICES ASSUME IInv, Revert PROVE IInv'
  OBVIOUS
<1>1. /\ UNCHANGED <<version, engine, cursor, paused, pending, priming, end, shown, toPage, faults>>
      /\ acts' \in Nat /\ toWorker' = Append(toWorker, [op |-> "revert"])
  BY DEF Revert, IInv, PageOk, page
<1>2. /\ toWorker' \in Seq(Requests)
      /\ Count(toWorker', "frame") = Count(toWorker, "frame")
  BY <1>1, Posts DEF IInv
<1>3. RosterInv'
  BY <1>1 DEF IInv, RosterInv, Synced
<1>4. PageOk' /\ QueuesOk' /\ PaceOk'
  BY <1>1, <1>2 DEF IInv, PageOk, QueuesOk, PaceOk
<1> QED BY <1>3, <1>4 DEF IInv

\* The page takes an answer.
LEMMA ReceiveInv == IInv /\ Receive => IInv'
<1> SUFFICES ASSUME IInv, Receive PROVE IInv'
  OBVIOUS
<1> DEFINE m == Head(toPage)
<1>1. /\ toPage # <<>> /\ toPage' = Tail(toPage) /\ UNCHANGED <<version, engine, acts, faults>>
      /\ m \in Answers /\ toPage' \in Seq(Answers)
      /\ PageOk /\ QueuesOk /\ PaceOk /\ RosterInv
  BY DEF Receive, IInv, QueuesOk
<1>2. /\ Count(toPage', "frame") = Count(toPage, "frame") - IF m.op = "frame" THEN 1 ELSE 0
      /\ Count(toPage', "error") = Count(toPage, "error") - IF m.op = "error" THEN 1 ELSE 0
      /\ Count(toPage, "frame") \in Nat /\ Count(toPage, "error") \in Nat
      /\ Count(toWorker, "frame") \in Nat
  BY <1>1, CountQueue DEF QueuesOk, Messages
<1>3. CASE m.op = "frame" /\ OnFrame(m)
  <2>1. m.frame \in Frames
    BY <1>1, <1>3 DEF Answers
  <2>2. pending' = FALSE /\ shown' = m.frame /\ UNCHANGED <<cursor, paused, end>>
    BY <1>3 DEF OnFrame
  <2>3. /\ toWorker' \in Seq(Requests) /\ priming' \in BOOLEAN
        /\ Count(toWorker', "frame") = Count(toWorker, "frame")
    BY <1>1, <1>3, Posts DEF OnFrame, Primed, QueuesOk, PageOk
  <2> HIDE DEF m
  <2>4. RosterInv' /\ QueuesOk'
    BY <1>1, <2>3 DEF RosterInv, Synced, QueuesOk
  <2>5. PageOk'
    BY <1>1, <2>1, <2>2, <2>3 DEF PageOk, Blank
  <2>6. PaceOk'
    <3>1. /\ Count(toPage', "frame") = Count(toPage, "frame") - 1
          /\ Count(toPage', "error") = Count(toPage, "error")
      BY <1>2, <1>3
    <3>2. faults \in Nat /\ faults' = faults /\ pending \in BOOLEAN
      BY <1>1 DEF PageOk
    <3>3. Count(toWorker, "frame") + Count(toPage, "frame") <= 1 + faults - Count(toPage, "error")
      BY <1>1, <1>2, <3>2 DEF PaceOk
    <3>4. /\ Count(toWorker, "frame") \in Nat /\ Count(toPage, "frame") \in Nat
          /\ Count(toPage, "error") \in Nat
      BY <1>2
    <3>5. Count(toWorker', "frame") + Count(toPage', "frame") <= 0 + faults - Count(toPage', "error")
      BY <2>3, <3>1, <3>2, <3>3, <3>4
    <3> QED BY <2>2, <3>2, <3>5 DEF PaceOk
  <2> QED BY <2>4, <2>5, <2>6 DEF IInv
<1>4. CASE m.op = "primed" /\ OnPrimed
  <2>1. UNCHANGED <<cursor, paused, pending, end, shown>>
    BY <1>4 DEF OnPrimed
  <2>2. /\ toWorker' \in Seq(Requests) /\ priming' \in BOOLEAN
        /\ Count(toWorker', "frame") = Count(toWorker, "frame")
    BY <1>1, <1>4, Posts DEF OnPrimed, Primed, QueuesOk
  <2> HIDE DEF m
  <2> QED BY <1>1, <1>2, <1>4, <2>1, <2>2 DEF IInv, RosterInv, Synced, PageOk, QueuesOk, PaceOk
<1>5. CASE m.op = "error" /\ OnError
  <2>1. pending' = FALSE /\ priming' = FALSE /\ UNCHANGED <<cursor, paused, end, shown, toWorker>>
    BY <1>5 DEF OnError
  <2> HIDE DEF m
  <2>2. RosterInv' /\ QueuesOk'
    BY <1>1, <2>1 DEF RosterInv, Synced, QueuesOk
  <2>3. PageOk'
    BY <1>1, <2>1 DEF PageOk, Blank
  <2>4. PaceOk'
    <3>1. /\ Count(toPage', "frame") = Count(toPage, "frame")
          /\ Count(toPage', "error") = Count(toPage, "error") - 1
      BY <1>2, <1>5
    <3> QED BY <1>1, <1>2, <2>1, <3>1 DEF PageOk, PaceOk
  <2> QED BY <2>2, <2>3, <2>4 DEF IInv
<1>6. CASE m.op = "reverted" /\ OnReverted(m)
  <2>1. m.end \in {EndOf(d) : d \in Versions}
    BY <1>1, <1>6 DEF Answers
  <2>2. end' = m.end /\ Request(cursor) /\ UNCHANGED <<cursor, paused, priming, shown>>
    BY <1>6 DEF OnReverted
  <2>3. /\ toWorker' \in Seq(Requests) /\ pending' = TRUE
        /\ Count(toWorker', "frame") = Count(toWorker, "frame") + IF pending THEN 0 ELSE 1
    BY <1>1, <2>2, Asks DEF PageOk
  <2> HIDE DEF m
  <2> QED BY <1>1, <1>2, <1>6, <2>1, <2>2, <2>3 DEF IInv, RosterInv, Synced, PageOk, QueuesOk, PaceOk
<1>7. m.op \in {"frame", "primed", "error", "reverted"}
  BY <1>1 DEF Answers
<1> QED BY <1>3, <1>4, <1>5, <1>6, <1>7 DEF Receive

-----------------------------------------------------------------------------
(* The steps of the worker.                                                *)

\* The worker serves a request.
LEMMA WorkInv == IInv /\ Work => IInv'
<1> SUFFICES ASSUME IInv, Work PROVE IInv'
  OBVIOUS
<1> DEFINE m == Head(toWorker)
<1>1. /\ toWorker # <<>> /\ toWorker' = Tail(toWorker)
      /\ UNCHANGED <<cursor, paused, pending, priming, end, shown, acts>>
      /\ m \in Requests /\ toWorker' \in Seq(Requests)
      /\ PageOk /\ QueuesOk /\ PaceOk /\ RosterInv
  BY DEF Work, IInv, QueuesOk, page
<1>2. /\ Count(toWorker', "frame") = Count(toWorker, "frame") - IF m.op = "frame" THEN 1 ELSE 0
      /\ Count(toWorker, "frame") \in Nat
  BY <1>1, CountQueue DEF QueuesOk, Messages
<1>3. ASSUME NEW a \in Answers, Reply(a)
      PROVE  /\ toPage' \in Seq(Answers)
             /\ Count(toPage', "frame") = Count(toPage, "frame") + IF a.op = "frame" THEN 1 ELSE 0
             /\ Count(toPage', "error") = Count(toPage, "error") + IF a.op = "error" THEN 1 ELSE 0
             /\ Count(toPage, "frame") \in Nat /\ Count(toPage, "error") \in Nat
  BY <1>1, <1>3, CountQueue DEF QueuesOk, Messages, Reply
<1>4. ASSUME Fails, version' = version, RosterInv' PROVE IInv'
  <2>1. [op |-> "error"] \in Answers /\ [op |-> "error"].op = "error"
    BY DEF Answers
  <2>2. Reply([op |-> "error"]) /\ faults' = faults + 1
    BY <1>4 DEF Fails
  <2>3. /\ toPage' \in Seq(Answers) /\ Count(toPage', "frame") = Count(toPage, "frame")
        /\ Count(toPage', "error") = Count(toPage, "error") + 1
        /\ Count(toPage, "frame") \in Nat /\ Count(toPage, "error") \in Nat
    BY <1>3, <2>1, <2>2
  <2> HIDE DEF m
  <2>4. PageOk' /\ QueuesOk'
    BY <1>1, <2>2, <2>3 DEF PageOk, QueuesOk, Blank
  <2>5. PaceOk'
    <3>1. Count(toWorker', "frame") \in Int /\ Count(toWorker', "frame") <= Count(toWorker, "frame")
      BY <1>2
    <3>2. faults \in Nat /\ pending' = pending /\ pending \in BOOLEAN
      BY <1>1 DEF PageOk
    <3>3. faults' - Count(toPage', "error") = faults - Count(toPage, "error")
      BY <2>2, <2>3, <3>2
    <3>4. Count(toWorker, "frame") + Count(toPage, "frame")
            <= (IF pending THEN 1 ELSE 0) + (faults - Count(toPage, "error"))
      BY <1>1, <1>2, <2>3, <3>2 DEF PaceOk
    <3>5. Count(toWorker', "frame") + Count(toPage', "frame")
            <= (IF pending THEN 1 ELSE 0) + (faults - Count(toPage, "error"))
      BY <1>2, <2>3, <3>1, <3>2, <3>4
    <3>6. Count(toWorker', "frame") + Count(toPage', "frame")
            <= (IF pending' THEN 1 ELSE 0) + (faults' - Count(toPage', "error"))
      <4>1. (IF pending' THEN 1 ELSE 0) = (IF pending THEN 1 ELSE 0)
        BY <3>2
      <4> QED BY <3>3, <3>5, <4>1
    <3>7. faults' \in Int /\ Count(toPage', "error") \in Int
      BY <2>2, <2>3, <3>2
    <3> QED BY <3>2, <3>6, <3>7 DEF PaceOk
  <2> QED BY <1>4, <2>4, <2>5 DEF IInv
<1>5. ASSUME NEW a \in Answers, Reply(a), faults' = faults, RosterInv',
             a.op = "frame" => m.op = "frame", a.op # "error"
      PROVE  IInv'
  <2>1. /\ toPage' \in Seq(Answers)
        /\ Count(toPage', "frame") = Count(toPage, "frame") + IF a.op = "frame" THEN 1 ELSE 0
        /\ Count(toPage', "error") = Count(toPage, "error")
        /\ Count(toPage, "frame") \in Nat /\ Count(toPage, "error") \in Nat
    BY <1>3, <1>5
  <2> HIDE DEF m
  <2>2. PageOk' /\ QueuesOk'
    BY <1>1, <1>5, <2>1 DEF PageOk, QueuesOk, Blank
  <2>3. PaceOk'
    <3>1. Count(toWorker', "frame") + Count(toPage', "frame")
            <= Count(toWorker, "frame") + Count(toPage, "frame")
      BY <1>2, <1>5, <2>1
    <3>2. /\ Count(toWorker', "frame") \in Int /\ Count(toPage', "frame") \in Int
          /\ faults \in Int
      BY <1>1, <1>2, <2>1 DEF PageOk
    <3>3. UNCHANGED <<pending, faults>> /\ Count(toPage', "error") = Count(toPage, "error")
      BY <1>1, <1>5, <2>1
    <3>4. Count(toWorker, "frame") + Count(toPage, "frame")
            <= (IF pending THEN 1 ELSE 0) + faults - Count(toPage, "error")
      BY <1>1 DEF PaceOk
    <3>5. /\ Count(toWorker, "frame") \in Int /\ Count(toPage, "frame") \in Int
          /\ Count(toPage, "error") \in Int
      BY <1>2, <2>1
    <3> DEFINE n == Count(toWorker, "frame") + Count(toPage, "frame")
               k == Count(toWorker', "frame") + Count(toPage', "frame")
               l == (IF pending THEN 1 ELSE 0) + faults - Count(toPage, "error")
    <3>6. n \in Int /\ k \in Int /\ l \in Int /\ n <= l /\ k <= n
      BY <3>1, <3>2, <3>4, <3>5
    <3>7. k <= l
      <4> HIDE DEF n, k, l
      <4> QED BY <3>6
    <3> QED BY <3>3, <3>7 DEF PaceOk
  <2> QED BY <1>5, <2>2, <2>3 DEF IInv
<1>6. CASE m.op = "frame" /\ Build(m.at) /\ version' = version
           /\ \/ Reply([op |-> "frame", frame |-> FrameOf(version, engine')]) /\ UNCHANGED faults
              \/ Fails
  <2>1. m.at \in Int
    BY <1>1, <1>6 DEF Requests
  <2>2. RosterInv' /\ engine'.tick \in DOMAIN Times[version]
    BY <1>1, <1>6, <2>1, Builds
  <2> DEFINE a == [op |-> "frame", frame |-> FrameOf(version, engine')]
  <2>3. a \in Answers /\ a.op = "frame"
    <3>1. engine'.tick \in Int /\ engine'.active \in Nat /\ version \in Versions
      BY <1>6, <2>2 DEF RosterInv, InStep, States
    <3>2. FrameOf(version, engine') \in Frames
      BY <2>2, <3>1 DEF FrameOf, Frames
    <3> QED BY <3>2 DEF Answers
  <2> HIDE DEF a
  <2>4. CASE Reply(a) /\ UNCHANGED faults
    BY <1>5, <1>6, <2>2, <2>3, <2>4
  <2>5. CASE Fails
    BY <1>4, <1>6, <2>2, <2>5
  <2> QED BY <1>6, <2>4, <2>5 DEF a
<1>7. CASE m.op = "prime" /\ UNCHANGED <<version, engine>>
           /\ \/ Reply([op |-> "primed"]) /\ UNCHANGED faults
              \/ Fails
  <2>1. RosterInv'
    BY <1>1, <1>7 DEF RosterInv, Synced
  <2>2. [op |-> "primed"] \in Answers /\ [op |-> "primed"].op = "primed"
    BY DEF Answers
  <2>3. CASE Reply([op |-> "primed"]) /\ UNCHANGED faults
    BY <1>5, <2>1, <2>2, <2>3
  <2>4. CASE Fails
    BY <1>4, <1>7, <2>1, <2>4
  <2> QED BY <1>7, <2>3, <2>4
<1>8. CASE m.op = "revert" /\ version' \in Versions /\ engine' = Invalidated(engine)
           /\ Reply([op |-> "reverted", end |-> EndOf(version')]) /\ UNCHANGED faults
  <2>1. engine \in States /\ Newest \in Nat /\ Newest # -1
    BY <1>1, NewestIsLate DEF RosterInv, InStep
  <2>2. engine' \in States /\ engine'.active = None /\ engine'.synced = Newest
    <3>1. engine' = [engine EXCEPT !.active = 0, !.synced = Newest] /\ Newest \in Int
      BY <1>8, <2>1 DEF Invalidated, None
    <3> QED BY <2>1, <3>1 DEF States, None
  <2>3. Newest \notin DOMAIN Times[version'] /\ None \in 0 .. Len(Battles[version'])
    <3>1. /\ DOMAIN Times[version'] = 1 .. Len(Times[version'])
          /\ Len(Times[version']) \in 1 .. Newest - 1 /\ Len(Battles[version']) \in Nat
      BY <1>8, Replay
    <3> QED BY <2>1, <3>1 DEF None
  <2>4. RosterInv'
    BY <1>8, <2>1, <2>2, <2>3 DEF RosterInv, InStep, Synced
  <2> DEFINE a == [op |-> "reverted", end |-> EndOf(version')]
  <2>5. a \in Answers /\ a.op = "reverted"
    BY <1>8 DEF Answers
  <2> HIDE DEF a
  <2> QED BY <1>5, <1>8, <2>4, <2>5 DEF a
<1> QED BY <1>6, <1>7, <1>8 DEF Work

-----------------------------------------------------------------------------
\* Every step.
LEMMA NextInv == IInv /\ [Next]_vars => IInv'
<1> SUFFICES ASSUME IInv, [Next]_vars PROVE IInv'
  OBVIOUS
<1>1. CASE Loop
  BY <1>1, LoopInv
<1>2. ASSUME NEW t \in Times[version][1] .. end, Seek(t) PROVE IInv'
  <2>1. Times[version][1] \in Int /\ end \in Int
    BY EndIsInt DEF IInv, PageOk, RosterInv
  <2> QED BY <1>2, <2>1, SeekInv
<1>3. CASE Toggle
  BY <1>3, ToggleInv
<1>4. CASE Revert
  BY <1>4, RevertInv
<1>5. CASE Turn
  BY <1>5, ReceiveInv, WorkInv DEF Turn
<1>6. CASE UNCHANGED vars
  BY <1>6 DEF vars, page, IInv, RosterInv, Synced, PageOk, QueuesOk, PaceOk
<1> QED BY <1>1, <1>2, <1>3, <1>4, <1>5, <1>6 DEF Next

\* Whatever is sought, paused and reverted, and whatever fails, a frame is of the
\* last tick not after its time, its roster is the replay of its battle's events
\* up to that tick and the next (resync_roster_to), and no more requests for
\* frames pile up at the worker than errors have cleared the page's mark.
THEOREM FramesAlwaysTrue == Spec => []FramesAreTrue
<1>1. IInv => FramesAreTrue
  <2> SUFFICES ASSUME IInv PROVE FramesAreTrue
    OBVIOUS
  <2>1. EngineTypeOK /\ RosterIsReplayed /\ SearchFinds
    BY RosterRight DEF IInv
  <2>2. TypeOK
    BY <2>1 DEF IInv, PageOk, TypeOK, Blank, Frames
  <2>3. FramesKeepPace
    <3>1. Requests \in SUBSET Messages /\ Answers \in SUBSET Messages
      BY DEF Messages
    <3>2. /\ Count(toWorker, "frame") \in Nat /\ Count(toPage, "frame") \in Nat
          /\ Count(toPage, "error") \in Nat /\ faults \in Nat
      BY <3>1, CountQueue DEF IInv, QueuesOk, PageOk
    <3>3. FramesUnderWay = Count(toWorker, "frame") + Count(toPage, "frame")
      BY DEF FramesUnderWay, Count, Of
    <3>4. FramesUnderWay <= 1 + faults
      BY <3>2, <3>3 DEF IInv, PaceOk, PageOk
    <3> QED BY <3>4 DEF FramesKeepPace
  <2> QED BY <2>1, <2>2, <2>3 DEF FramesAreTrue
<1> QED BY <1>1, InitInv, NextInv, PTL DEF Spec

-----------------------------------------------------------------------------
(* The view.                                                               *)

Out  == [type : {"frame", "query", "revert"}, battle : BattleNumbers \cup {NoBattle}]
Back == [type : {"frame", "row", "error", "reverted"}, shift : Shifts]

\* The places of the messages of some types in a queue; whether those of the
\* two queues are one, or none.
PlacesOf(T, q)   == {i \in DOMAIN q : q[i].type \in T}
Single(T, a, b) == \/ \E i \in DOMAIN a : PlacesOf(T, a) = {i} /\ PlacesOf(T, b) = {}
                   \/ \E i \in DOMAIN b : PlacesOf(T, b) = {i} /\ PlacesOf(T, a) = {}
Carries(T, a, b, one) == IF one THEN Single(T, a, b) ELSE PlacesOf(T, a) = {} /\ PlacesOf(T, b) = {}


Queries == {"query", "row", "error"}

\* What the worker is at is known to the page once it has read its messages.
Told(q, v, b) == \/ b = NoBattle
                 \/ PlacesOf({"frame"}, q) = {} /\ b = v
                 \/ \E i \in PlacesOf({"frame"}, q) : q[i].shift.battle = b

\* A battle that was located is the one on screen when its row is read.
RowTold(q, v, i) ==
    \/ q[i].shift.battle = NoBattle
    \/ (\A j \in PlacesOf({"frame"}, q) : j > i) /\ q[i].shift.battle = v
    \/ \E j \in PlacesOf({"frame"}, q) : j < i /\ q[j].shift.battle = q[i].shift.battle

RowsTold(q, v, l) == \A i \in PlacesOf({"row"}, q) : q[i].shift.load = l /\ RowTold(q, v, i)

ButtonWaits == asking = "button" \/ \E i \in DOMAIN recenters : recenters[i] = "button"

ViewTyped ==
    /\ {playhead, activeMatch, centered, viewed} \subseteq BattleNumbers \cup {NoBattle}
    /\ {edited, loaded, follow, framePending, missed, strayed} \subseteq BOOLEAN
    /\ load \in Nat /\ load <= moves /\ moves \in 0 .. MaxMoves /\ misses \in 0 .. MaxMisses
    /\ shift \in Shifts
    /\ recenters \in Seq(Sources) /\ asking \in Sources \cup {"nobody"}
    /\ toDb \in Seq(Out) /\ fromDb \in Seq(Back)
    /\ late \in Nat

ViewWired ==
    /\ Carries({"frame"}, toDb, fromDb, framePending)
    /\ Carries(Queries, toDb, fromDb, asking # "nobody")
    /\ late <= RecentersUnderWay
    /\ ~follow => late = RecentersUnderWay

ViewTold ==
    /\ loaded => Told(fromDb, viewed, activeMatch)
    /\ RowsTold(fromDb, viewed, load)
    /\ ~loaded => /\ ~framePending /\ recenters = <<>> /\ asking = "nobody"
                  /\ toDb = <<>> /\ fromDb = <<>>
                  /\ viewed = NoBattle /\ centered = NoBattle

Faultless == ~missed /\ ~strayed

\* Once no button's query waits, the battle on screen is the one noted; once
\* none does, that is where the view is.
ViewNoted == follow /\ viewed # NoBattle /\ ~ButtonWaits /\ Faultless => centered = viewed
ViewThere == loaded /\ RecentersUnderWay = 0 /\ follow /\ centered # NoBattle /\ Faultless =>
                 shift.battle = centered /\ shift.load = load

ViewInv == ViewTyped /\ ViewWired /\ ViewTold /\ ViewNoted /\ ViewThere

\* What a sequence is made of, and its head and tail.
LEMMA SeqParts ==
    ASSUME NEW S, NEW q \in Seq(S)
    PROVE  /\ DOMAIN q = 1 .. Len(q) /\ Len(q) \in Nat
           /\ \A i \in DOMAIN q : q[i] \in S
           /\ q # <<>> => /\ Len(q) >= 1 /\ Head(q) = q[1] /\ Head(q) \in S
                          /\ Tail(q) \in Seq(S) /\ DOMAIN Tail(q) = 1 .. Len(q) - 1
                          /\ Len(Tail(q)) = Len(q) - 1
                          /\ \A i \in DOMAIN Tail(q) : Tail(q)[i] = q[i + 1]
OBVIOUS

\* A sequence with one element more.
LEMMA SeqAppended ==
    ASSUME NEW S, NEW q \in Seq(S), NEW m \in S
    PROVE  /\ Append(q, m) \in Seq(S) /\ Len(Append(q, m)) = Len(q) + 1
           /\ DOMAIN Append(q, m) = DOMAIN q \cup {Len(q) + 1} /\ Len(q) + 1 \notin DOMAIN q
           /\ \A i \in DOMAIN q : Append(q, m)[i] = q[i]
           /\ Append(q, m)[Len(q) + 1] = m
OBVIOUS

\* A message is appended to a queue, or taken from its head.
LEMMA PlacesAppended ==
    ASSUME NEW S, NEW q \in Seq(S), NEW m \in S, NEW T
    PROVE  PlacesOf(T, Append(q, m)) = PlacesOf(T, q) \cup (IF m.type \in T THEN {Len(q) + 1} ELSE {})
BY SeqAppended DEF PlacesOf

\* The places in the tail are those of the queue, one lower.
LEMMA PlacesTail ==
    ASSUME NEW S, NEW q \in Seq(S), q # <<>>, NEW T
    PROVE  /\ \A i \in PlacesOf(T, Tail(q)) : i \in Nat /\ i + 1 \in PlacesOf(T, q) /\ i + 1 # 1
           /\ \A i \in PlacesOf(T, q) : i = 1 \/ i - 1 \in PlacesOf(T, Tail(q))
           /\ 1 \in PlacesOf(T, q) <=> Head(q).type \in T
           /\ \A i \in PlacesOf(T, q) : i \in Nat /\ i >= 1
<1>1. /\ DOMAIN q = 1 .. Len(q) /\ Len(q) \in Nat /\ Len(q) >= 1 /\ Head(q) = q[1]
      /\ DOMAIN Tail(q) = 1 .. Len(q) - 1
      /\ \A i \in DOMAIN Tail(q) : Tail(q)[i] = q[i + 1]
  BY SeqParts
<1>2. ASSUME NEW i \in PlacesOf(T, Tail(q)) PROVE i \in Nat /\ i + 1 \in PlacesOf(T, q) /\ i + 1 # 1
  <2>1. i \in 1 .. Len(q) - 1 /\ Tail(q)[i].type \in T
    BY <1>1 DEF PlacesOf
  <2>2. i + 1 \in 1 .. Len(q) /\ q[i + 1].type \in T
    BY <1>1, <2>1
  <2> QED
    BY <1>1, <2>1, <2>2 DEF PlacesOf
<1>3. ASSUME NEW i \in PlacesOf(T, q), i # 1 PROVE i - 1 \in PlacesOf(T, Tail(q))
  <2>1. i \in 1 .. Len(q) /\ q[i].type \in T
    BY <1>1 DEF PlacesOf
  <2>2. i - 1 \in 1 .. Len(q) - 1 /\ (i - 1) + 1 = i
    BY <1>1, <1>3, <2>1
  <2>3. Tail(q)[i - 1].type \in T
    BY <1>1, <2>1, <2>2
  <2> QED
    BY <1>1, <2>2, <2>3 DEF PlacesOf
<1>4. 1 \in PlacesOf(T, q) <=> Head(q).type \in T
  BY <1>1 DEF PlacesOf
<1>5. \A i \in PlacesOf(T, q) : i \in Nat /\ i >= 1
  BY <1>1 DEF PlacesOf
<1> QED
  BY <1>2, <1>3, <1>4, <1>5

\* The one message of its kind is sent, answered and received.
LEMMA CarriesSent ==
    ASSUME NEW A, NEW a \in Seq(A), NEW b, NEW m \in A, NEW T, NEW one \in BOOLEAN,
           Carries(T, a, b, one), m.type \in T => ~one
    PROVE  Carries(T, Append(a, m), b, one \/ m.type \in T)
<1>1. PlacesOf(T, Append(a, m)) = PlacesOf(T, a) \cup (IF m.type \in T THEN {Len(a) + 1} ELSE {})
  BY PlacesAppended
<1>2. DOMAIN Append(a, m) = DOMAIN a \cup {Len(a) + 1}
  BY SeqAppended
<1>3. CASE m.type \in T
  BY <1>1, <1>2, <1>3 DEF Carries, Single
<1>4. CASE m.type \notin T /\ one
  BY <1>1, <1>2, <1>4 DEF Carries, Single
<1>5. CASE m.type \notin T /\ ~one
  BY <1>1, <1>2, <1>5 DEF Carries
<1> QED
  BY <1>3, <1>4, <1>5

\* Taking the head of the queue that holds the only place, or another.
LEMMA PlacesTaken ==
    ASSUME NEW S, NEW q \in Seq(S), q # <<>>, NEW T
    PROVE  /\ PlacesOf(T, q) = {} => PlacesOf(T, Tail(q)) = {} /\ Head(q).type \notin T
           /\ \A i : PlacesOf(T, q) = {i} =>
                 IF Head(q).type \in T THEN PlacesOf(T, Tail(q)) = {}
                 ELSE \E j \in DOMAIN Tail(q) : PlacesOf(T, Tail(q)) = {j}
<1>1. /\ \A i \in PlacesOf(T, Tail(q)) : i \in Nat /\ i + 1 \in PlacesOf(T, q) /\ i + 1 # 1
      /\ \A i \in PlacesOf(T, q) : i = 1 \/ i - 1 \in PlacesOf(T, Tail(q))
      /\ 1 \in PlacesOf(T, q) <=> Head(q).type \in T
      /\ \A i \in PlacesOf(T, q) : i \in Nat /\ i >= 1
  BY PlacesTail
<1>2. PlacesOf(T, q) = {} => PlacesOf(T, Tail(q)) = {} /\ Head(q).type \notin T
  BY <1>1
<1>3. ASSUME NEW i, PlacesOf(T, q) = {i}, Head(q).type \in T PROVE PlacesOf(T, Tail(q)) = {}
  <2>1. i = 1
    BY <1>1, <1>3
  <2> QED
    BY <1>1, <1>3, <2>1
<1>4. ASSUME NEW i, PlacesOf(T, q) = {i}, Head(q).type \notin T
      PROVE  \E j \in DOMAIN Tail(q) : PlacesOf(T, Tail(q)) = {j}
  <2>1. i \in Nat /\ i # 1 /\ i - 1 \in PlacesOf(T, Tail(q))
    BY <1>1, <1>4
  <2>2. \A j \in PlacesOf(T, Tail(q)) : j = i - 1
    <3> SUFFICES ASSUME NEW j \in PlacesOf(T, Tail(q)) PROVE j = i - 1
      OBVIOUS
    <3>1. j \in Nat /\ j + 1 = i
      BY <1>1, <1>4
    <3> QED
      BY <2>1, <3>1
  <2>3. PlacesOf(T, Tail(q)) = {i - 1}
    BY <2>1, <2>2
  <2>4. i - 1 \in DOMAIN Tail(q)
    BY <2>1 DEF PlacesOf
  <2> QED
    BY <2>3, <2>4
<1> QED
  BY <1>2, <1>3, <1>4

\* ... it is taken from the one queue and answered into the other,
LEMMA CarriesAnswered ==
    ASSUME NEW A, NEW a \in Seq(A), NEW B, NEW b \in Seq(B), NEW m \in B, NEW T, NEW one \in BOOLEAN,
           Carries(T, a, b, one), a # <<>>, m.type \in T <=> Head(a).type \in T
    PROVE  Carries(T, Tail(a), Append(b, m), one)
<1>1. PlacesOf(T, Append(b, m)) = PlacesOf(T, b) \cup (IF m.type \in T THEN {Len(b) + 1} ELSE {})
  BY PlacesAppended
<1>2. DOMAIN Append(b, m) = DOMAIN b \cup {Len(b) + 1}
  BY SeqAppended
<1>3. /\ PlacesOf(T, a) = {} => PlacesOf(T, Tail(a)) = {} /\ Head(a).type \notin T
      /\ \A i : PlacesOf(T, a) = {i} =>
            IF Head(a).type \in T THEN PlacesOf(T, Tail(a)) = {}
            ELSE \E j \in DOMAIN Tail(a) : PlacesOf(T, Tail(a)) = {j}
  BY PlacesTaken
<1>4. CASE ~one
  <2>1. PlacesOf(T, a) = {} /\ PlacesOf(T, b) = {}
    BY <1>4 DEF Carries
  <2> QED
    BY <1>1, <1>3, <1>4, <2>1 DEF Carries
<1>5. CASE one
  <2>1. Single(T, a, b)
    BY <1>5 DEF Carries
  <2>2. ASSUME NEW i \in DOMAIN a, PlacesOf(T, a) = {i}, PlacesOf(T, b) = {}
        PROVE  Single(T, Tail(a), Append(b, m))
    <3>1. CASE Head(a).type \in T
      BY <1>1, <1>2, <1>3, <2>2, <3>1 DEF Single
    <3>2. CASE Head(a).type \notin T
      BY <1>1, <1>3, <2>2, <3>2 DEF Single
    <3> QED
      BY <3>1, <3>2
  <2>3. ASSUME NEW i \in DOMAIN b, PlacesOf(T, b) = {i}, PlacesOf(T, a) = {}
        PROVE  Single(T, Tail(a), Append(b, m))
    <3>1. PlacesOf(T, Tail(a)) = {} /\ m.type \notin T
      BY <1>3, <2>3
    <3>2. PlacesOf(T, Append(b, m)) = {i} /\ i \in DOMAIN Append(b, m)
      BY <1>1, <1>2, <2>3, <3>1
    <3> QED
      BY <3>1, <3>2 DEF Single
  <2> QED
    BY <1>5, <2>1, <2>2, <2>3 DEF Single, Carries
<1> QED
  BY <1>4, <1>5

\* ... and the answer is taken.
LEMMA CarriesReceived ==
    ASSUME NEW a, NEW B, NEW b \in Seq(B), b # <<>>, NEW T, NEW one \in BOOLEAN,
           Carries(T, a, b, one)
    PROVE  /\ Head(b).type \in T => one
           /\ Carries(T, a, Tail(b), one /\ Head(b).type \notin T)
<1>3. /\ PlacesOf(T, b) = {} => PlacesOf(T, Tail(b)) = {} /\ Head(b).type \notin T
      /\ \A i : PlacesOf(T, b) = {i} =>
            IF Head(b).type \in T THEN PlacesOf(T, Tail(b)) = {}
            ELSE \E j \in DOMAIN Tail(b) : PlacesOf(T, Tail(b)) = {j}
  BY PlacesTaken
<1>4. CASE ~one
  <2>1. PlacesOf(T, a) = {} /\ PlacesOf(T, b) = {}
    BY <1>4 DEF Carries
  <2> QED
    BY <1>3, <1>4, <2>1 DEF Carries
<1>5. CASE one
  <2>1. Single(T, a, b)
    BY <1>5 DEF Carries
  <2>2. ASSUME NEW i \in DOMAIN a, PlacesOf(T, a) = {i}, PlacesOf(T, b) = {}
        PROVE  Head(b).type \notin T /\ Single(T, a, Tail(b))
    BY <1>3, <2>2 DEF Single
  <2>3. ASSUME NEW i \in DOMAIN b, PlacesOf(T, b) = {i}, PlacesOf(T, a) = {}
        PROVE  Carries(T, a, Tail(b), Head(b).type \notin T)
    <3>1. CASE Head(b).type \in T
      BY <1>3, <2>3, <3>1 DEF Carries
    <3>2. CASE Head(b).type \notin T
      <4>1. Single(T, a, Tail(b))
        BY <1>3, <2>3, <3>2 DEF Single
      <4> QED
        BY <3>2, <4>1 DEF Carries
    <3> QED
      BY <3>1, <3>2
  <2> QED
    BY <1>5, <2>1, <2>2, <2>3 DEF Single, Carries
<1> QED
  BY <1>4, <1>5

\* What is told of rows and frames when a message is appended to the answers.
LEMMA RowsAppended ==
    ASSUME NEW q \in Seq(Back), NEW m \in Back, NEW v, NEW l, RowsTold(q, v, l),
           m.type = "row" => /\ m.shift.load = l
                             /\ Told(q, v, m.shift.battle)
    PROVE  RowsTold(Append(q, m), v, l)
<1> DEFINE k == Append(q, m)
           n == Len(q) + 1
<1>1. /\ DOMAIN q = 1 .. Len(q) /\ Len(q) \in Nat
      /\ \A i \in DOMAIN q : k[i] = q[i]
      /\ k[n] = m /\ n \notin DOMAIN q
  BY SeqParts, SeqAppended
<1>2. /\ PlacesOf({"frame"}, k) = PlacesOf({"frame"}, q) \cup (IF m.type \in {"frame"} THEN {n} ELSE {})
      /\ PlacesOf({"row"}, k) = PlacesOf({"row"}, q) \cup (IF m.type \in {"row"} THEN {n} ELSE {})
  BY PlacesAppended
<1>3. PlacesOf({"frame"}, q) \subseteq DOMAIN q /\ PlacesOf({"row"}, q) \subseteq DOMAIN q
  BY DEF PlacesOf
<1>4. \A j \in DOMAIN q : j \in Nat /\ j < n
  BY <1>1
<1> HIDE DEF k, n
<1>5. ASSUME NEW i \in PlacesOf({"row"}, q) PROVE k[i].shift.load = l /\ RowTold(k, v, i)
  <2>1. q[i].shift.load = l /\ RowTold(q, v, i) /\ i \in DOMAIN q /\ k[i] = q[i] /\ i < n
    BY <1>1, <1>3, <1>4, <1>5 DEF RowsTold
  <2>2. CASE q[i].shift.battle = NoBattle
    BY <2>1, <2>2 DEF RowTold
  <2>3. CASE (\A j \in PlacesOf({"frame"}, q) : j > i) /\ q[i].shift.battle = v
    <3>1. \A j \in PlacesOf({"frame"}, k) : j > i
      BY <1>2, <2>1, <2>3, <1>4
    <3> QED
      BY <2>1, <2>3, <3>1 DEF RowTold
  <2>4. CASE \E j \in PlacesOf({"frame"}, q) : j < i /\ q[j].shift.battle = q[i].shift.battle
    <3>1. PICK j \in PlacesOf({"frame"}, q) : j < i /\ q[j].shift.battle = q[i].shift.battle
      BY <2>4
    <3>2. j \in PlacesOf({"frame"}, k) /\ k[j] = q[j]
      BY <1>1, <1>2, <1>3
    <3>3. j < i /\ k[j].shift.battle = k[i].shift.battle
      BY <2>1, <3>1, <3>2
    <3> QED
      BY <2>1, <3>2, <3>3 DEF RowTold
  <2> QED
    BY <2>1, <2>2, <2>3, <2>4 DEF RowTold
<1>6. ASSUME m.type = "row" PROVE k[n].shift.load = l /\ RowTold(k, v, n)
  <2>1. k[n] = m /\ m.shift.load = l /\ Told(q, v, m.shift.battle)
    BY <1>1, <1>6
  <2>2. PlacesOf({"frame"}, k) = PlacesOf({"frame"}, q)
    BY <1>2, <1>6
  <2>3. CASE m.shift.battle = NoBattle
    BY <2>1, <2>3 DEF RowTold
  <2>4. CASE PlacesOf({"frame"}, q) = {} /\ m.shift.battle = v
    BY <2>1, <2>2, <2>4 DEF RowTold
  <2>5. CASE \E j \in PlacesOf({"frame"}, q) : q[j].shift.battle = m.shift.battle
    <3>1. PICK j \in PlacesOf({"frame"}, q) : q[j].shift.battle = m.shift.battle
      BY <2>5
    <3>2. j \in PlacesOf({"frame"}, k) /\ k[j] = q[j] /\ j < n
      BY <1>1, <1>3, <1>4, <2>2
    <3> QED
      BY <2>1, <3>1, <3>2 DEF RowTold
  <2> QED
    BY <2>1, <2>3, <2>4, <2>5 DEF Told
<1>7. ASSUME NEW i \in PlacesOf({"row"}, k) PROVE k[i].shift.load = l /\ RowTold(k, v, i)
  <2>1. i \in PlacesOf({"row"}, q) \/ (i = n /\ m.type = "row")
    BY <1>2
  <2> QED
    BY <1>5, <1>6, <2>1
<1> QED
  BY <1>7 DEF RowsTold, k

\* A frame that is answered tells the page what the worker is at.
LEMMA ToldAppended ==
    ASSUME NEW q \in Seq(Back), NEW m \in Back, NEW v, NEW b,
           IF m.type = "frame" THEN m.shift.battle = b ELSE Told(q, v, b)
    PROVE  Told(Append(q, m), v, b)
<1> DEFINE k == Append(q, m)
           n == Len(q) + 1
<1>1. \A i \in DOMAIN q : k[i] = q[i]
  BY SeqAppended
<1>2. k[n] = m
  BY SeqAppended
<1>3. PlacesOf({"frame"}, k) = PlacesOf({"frame"}, q) \cup (IF m.type \in {"frame"} THEN {n} ELSE {})
  BY PlacesAppended
<1>4. PlacesOf({"frame"}, q) \subseteq DOMAIN q
  BY DEF PlacesOf
<1> HIDE DEF k, n
<1>5. CASE m.type = "frame"
  <2>1. n \in PlacesOf({"frame"}, k) /\ k[n].shift.battle = b
    BY <1>2, <1>3, <1>5
  <2> QED
    BY <2>1 DEF Told, k
<1>6. CASE m.type # "frame"
  <2>1. PlacesOf({"frame"}, k) = PlacesOf({"frame"}, q) /\ Told(q, v, b)
    BY <1>3, <1>6
  <2>2. \A i \in PlacesOf({"frame"}, q) : k[i] = q[i]
    BY <1>1, <1>4
  <2>3. Told(k, v, b)
    BY <2>1, <2>2 DEF Told
  <2> QED
    BY <2>3 DEF k
<1> QED
  BY <1>5, <1>6

\* The same when the first message is read; a frame is the only one.
LEMMA ToldRead ==
    ASSUME NEW q \in Seq(Back), q # <<>>, NEW v, NEW b, Told(q, v, b),
           Head(q).type = "frame" => PlacesOf({"frame"}, Tail(q)) = {}
    PROVE  Told(Tail(q), IF Head(q).type = "frame" THEN Head(q).shift.battle ELSE v, b)
<1> DEFINE t == Tail(q)
           T == {"frame"}
<1>1. /\ DOMAIN q = 1 .. Len(q) /\ Len(q) \in Nat /\ Len(q) >= 1 /\ Head(q) = q[1]
      /\ \A i \in DOMAIN t : t[i] = q[i + 1]
  BY SeqParts
<1>2. /\ \A i \in PlacesOf(T, t) : i \in Nat /\ i + 1 \in PlacesOf(T, q) /\ i + 1 # 1
      /\ \A i \in PlacesOf(T, q) : i = 1 \/ i - 1 \in PlacesOf(T, t)
      /\ 1 \in PlacesOf(T, q) <=> Head(q).type \in T
      /\ \A i \in PlacesOf(T, q) : i \in Nat /\ i >= 1
  BY PlacesTail
<1>3. PlacesOf(T, t) \subseteq DOMAIN t
  BY DEF PlacesOf
<1> HIDE DEF t
<1>4. CASE Head(q).type = "frame"
  <2>1. PlacesOf(T, t) = {}
    BY <1>4 DEF t
  <2>2. \A i \in PlacesOf(T, q) : i = 1
    BY <1>2, <2>1
  <2>3. b = NoBattle \/ b = Head(q).shift.battle
    BY <1>1, <1>2, <1>4, <2>2 DEF Told
  <2> QED
    BY <1>4, <2>1, <2>3 DEF Told, t
<1>5. CASE Head(q).type # "frame"
  <2>1. 1 \notin PlacesOf(T, q)
    BY <1>2, <1>5
  <2>2. ASSUME PlacesOf(T, q) = {} PROVE PlacesOf(T, t) = {}
    BY <1>2, <2>2
  <2>3. ASSUME NEW i \in PlacesOf(T, q), q[i].shift.battle = b
        PROVE  \E j \in PlacesOf(T, t) : t[j].shift.battle = b
    <3>1. i \in Nat /\ i - 1 \in PlacesOf(T, t) /\ i - 1 \in DOMAIN t
      BY <1>2, <1>3, <2>1, <2>3
    <3>2. t[i - 1] = q[(i - 1) + 1] /\ (i - 1) + 1 = i
      BY <1>1, <3>1
    <3> QED
      BY <2>3, <3>1, <3>2
  <2>4. Told(t, v, b)
    BY <2>2, <2>3 DEF Told
  <2> QED
    BY <1>5, <2>4 DEF t
<1> QED
  BY <1>4, <1>5

\* The rows behind the message that is read are told of by the frame it may be.
LEMMA RowsRead ==
    ASSUME NEW q \in Seq(Back), q # <<>>, NEW v, NEW l, RowsTold(q, v, l),
           Head(q).type = "frame" => PlacesOf({"frame"}, Tail(q)) = {}
    PROVE  RowsTold(Tail(q), IF Head(q).type = "frame" THEN Head(q).shift.battle ELSE v, l)
<1> DEFINE t == Tail(q)
           F == {"frame"}
           R == {"row"}
           u == IF Head(q).type = "frame" THEN Head(q).shift.battle ELSE v
<1>1. /\ DOMAIN q = 1 .. Len(q) /\ Len(q) \in Nat /\ Len(q) >= 1 /\ Head(q) = q[1]
      /\ \A i \in DOMAIN t : t[i] = q[i + 1]
  BY SeqParts
<1>2. /\ \A i \in PlacesOf(F, t) : i \in Nat /\ i + 1 \in PlacesOf(F, q) /\ i + 1 # 1
      /\ \A i \in PlacesOf(F, q) : i = 1 \/ i - 1 \in PlacesOf(F, t)
      /\ 1 \in PlacesOf(F, q) <=> Head(q).type \in F
      /\ \A i \in PlacesOf(F, q) : i \in Nat /\ i >= 1
  BY PlacesTail
<1>3. \A i \in PlacesOf(R, t) : i \in Nat /\ i + 1 \in PlacesOf(R, q) /\ i + 1 # 1
  BY PlacesTail
<1>4. PlacesOf(F, t) \subseteq DOMAIN t /\ PlacesOf(R, t) \subseteq DOMAIN t
  BY DEF PlacesOf
<1>5. CASE Head(q).type = "frame"
  <2>1. PlacesOf(F, t) = {} /\ u = q[1].shift.battle
    BY <1>1, <1>5
  <2>2. \A i \in PlacesOf(F, q) : i = 1
    BY <1>2, <2>1
  <2> HIDE DEF t, u
  <2>3. ASSUME NEW i \in PlacesOf(R, t) PROVE t[i].shift.load = l /\ RowTold(t, u, i)
    <3>1. i \in Nat /\ i + 1 \in PlacesOf(R, q) /\ t[i] = q[i + 1] /\ i + 1 # 1
      BY <1>1, <1>3, <1>4
    <3>2. q[i + 1].shift.load = l /\ RowTold(q, v, i + 1)
      BY <3>1 DEF RowsTold
    <3>3. 1 \in PlacesOf(F, q) /\ ~(1 > i + 1)
      BY <1>2, <1>5, <3>1
    <3>4. q[i + 1].shift.battle = NoBattle \/ q[i + 1].shift.battle = u
      BY <2>1, <2>2, <3>2, <3>3 DEF RowTold
    <3> QED
      BY <2>1, <3>1, <3>2, <3>4 DEF RowTold
  <2>4. RowsTold(t, u, l)
    BY <2>3 DEF RowsTold
  <2> QED
    BY <2>4 DEF t, u
<1>6. CASE Head(q).type # "frame"
  <2>1. u = v /\ 1 \notin PlacesOf(F, q)
    BY <1>2, <1>6
  <2> HIDE DEF t, u
  <2>2. ASSUME NEW i \in PlacesOf(R, t) PROVE t[i].shift.load = l /\ RowTold(t, v, i)
    <3>1. i \in Nat /\ i + 1 \in PlacesOf(R, q) /\ t[i] = q[i + 1] /\ i + 1 # 1
      BY <1>1, <1>3, <1>4
    <3>2. q[i + 1].shift.load = l /\ RowTold(q, v, i + 1)
      BY <3>1 DEF RowsTold
    <3>3. CASE q[i + 1].shift.battle = NoBattle
      BY <3>1, <3>2, <3>3 DEF RowTold
    <3>4. CASE (\A j \in PlacesOf(F, q) : j > i + 1) /\ q[i + 1].shift.battle = v
      <4>1. ASSUME NEW j \in PlacesOf(F, t) PROVE j > i
        <5>1. j \in Nat /\ j + 1 > i + 1
          BY <1>2, <3>4
        <5> QED
          BY <3>1, <5>1
      <4> QED
        BY <3>1, <3>2, <3>4, <4>1 DEF RowTold
    <3>5. CASE \E j \in PlacesOf(F, q) : j < i + 1 /\ q[j].shift.battle = q[i + 1].shift.battle
      <4>1. PICK j \in PlacesOf(F, q) : j < i + 1 /\ q[j].shift.battle = q[i + 1].shift.battle
        BY <3>5
      <4>2. j \in Nat /\ j - 1 \in PlacesOf(F, t) /\ j - 1 \in DOMAIN t
        BY <1>2, <1>4, <2>1
      <4>3. t[j - 1] = q[(j - 1) + 1] /\ (j - 1) + 1 = j /\ j - 1 < i
        BY <1>1, <3>1, <4>1, <4>2
      <4>4. t[j - 1].shift.battle = t[i].shift.battle
        BY <3>1, <4>1, <4>3
      <4> QED
        BY <3>1, <3>2, <4>2, <4>3, <4>4 DEF RowTold
    <3> QED
      BY <3>1, <3>2, <3>3, <3>4, <3>5 DEF RowTold
  <2>3. RowsTold(t, v, l)
    BY <2>2 DEF RowsTold
  <2> QED
    BY <2>1, <2>3 DEF t, u
<1> QED
  BY <1>5, <1>6

\* Before a recording is loaded nothing is under way.
LEMMA ViewStart == ViewInit => ViewInv
<1> SUFFICES ASSUME ViewInit PROVE ViewInv
  OBVIOUS
<1>1. \A T : PlacesOf(T, <<>>) = {}
  BY DEF PlacesOf
<1>2. ViewTyped
  <2>1. MaxMoves \in Nat /\ MaxMisses \in Nat
    BY CameraConstants
  <2>2. Unshifted \in Shifts
    BY <2>1 DEF Unshifted, Shifts
  <2>3. toDb \in Seq(Out) /\ fromDb \in Seq(Back) /\ recenters \in Seq(Sources)
    BY DEF ViewInit
  <2>4. load \in Nat /\ load <= moves /\ moves \in 0 .. MaxMoves /\ misses \in 0 .. MaxMisses
    BY <2>1 DEF ViewInit
  <2> QED
    BY <2>2, <2>3, <2>4 DEF ViewInit, ViewTyped
<1>3. ViewWired
  BY <1>1 DEF ViewInit, ViewWired, Carries, RecentersUnderWay
<1>4. ViewTold
  BY <1>1 DEF ViewInit, ViewTold, RowsTold
<1>5. ViewNoted /\ ViewThere
  BY DEF ViewInit, ViewNoted, ViewThere
<1> QED
  BY <1>2, <1>3, <1>4, <1>5 DEF ViewInv

\* What waits at or for the worker is a number.
LEMMA UnderWayIsNat ==
    ASSUME ViewTyped
    PROVE  /\ RecentersUnderWay \in Nat /\ Len(recenters) \in Nat
           /\ RecentersUnderWay = 0 <=> recenters = <<>> /\ asking = "nobody"
           /\ asking # "nobody" => RecentersUnderWay = Len(recenters) + 1
           /\ asking = "nobody" => RecentersUnderWay = Len(recenters)
           /\ \A s \in Sources : Len(Append(recenters, s)) = Len(recenters) + 1
<1>1. recenters \in Seq(Sources)
  BY DEF ViewTyped
<1>2. Len(recenters) \in Nat /\ (Len(recenters) = 0 <=> recenters = <<>>)
  BY <1>1
<1>3. \A s \in Sources : Len(Append(recenters, s)) = Len(recenters) + 1
  BY <1>1
<1> QED
  BY <1>2, <1>3 DEF RecentersUnderWay

\* The playhead moves, the data are edited, the user pans.
LEMMA ViewMoved == ViewInv /\ (MovePlayhead \/ EditData \/ Pan) => ViewInv'
<1> SUFFICES ASSUME ViewInv, MovePlayhead \/ EditData \/ Pan PROVE ViewInv'
  OBVIOUS
<1>1. /\ UNCHANGED <<activeMatch, load, loaded, centered, shift, viewed, wireVars, misses, missed, strayed>>
      /\ follow' = follow \/ follow' = FALSE
      /\ moves' = moves + 1 /\ moves < MaxMoves
  BY DEF MovePlayhead, EditData, Pan, Moving, dbVars, lookVars, ghostVars
<1>2. ViewTyped
  BY DEF ViewInv
<1>3. RecentersUnderWay' = RecentersUnderWay /\ RecentersUnderWay \in Nat
  BY <1>1, <1>2, UnderWayIsNat DEF RecentersUnderWay, wireVars
<1>4. \/ late' = late /\ follow' = follow
      \/ late' = RecentersUnderWay
  BY DEF MovePlayhead, EditData, Pan, lookVars, ghostVars
<1>5. playhead' \in BattleNumbers \cup {NoBattle} /\ edited' \in BOOLEAN
  BY <1>2 DEF MovePlayhead, EditData, Pan, lookVars, ghostVars, dbVars, ViewTyped
<1>6. load <= moves /\ load \in Nat /\ moves \in 0 .. MaxMoves /\ MaxMoves \in Nat
  BY <1>2, CameraConstants DEF ViewTyped
<1>7. load <= moves' /\ moves' \in 0 .. MaxMoves
  BY <1>1, <1>6
<1>8. ViewTyped'
  BY <1>1, <1>2, <1>3, <1>4, <1>5, <1>7 DEF ViewTyped, wireVars
<1>9. ViewWired'
  BY <1>1, <1>3, <1>4 DEF ViewInv, ViewWired, wireVars
<1>10. ViewTold'
  BY <1>1 DEF ViewInv, ViewTold, wireVars
<1>11. ButtonWaits' <=> ButtonWaits
  BY <1>1 DEF ButtonWaits, wireVars
<1>12. ViewNoted' /\ ViewThere'
  BY <1>1, <1>3, <1>11 DEF ViewInv, ViewNoted, ViewThere, Faultless, wireVars
<1> QED
  BY <1>8, <1>9, <1>10, <1>12 DEF ViewInv

\* The button queues a query.
LEMMA ViewRecenters == ViewInv /\ Recenter => ViewInv'
<1> SUFFICES ASSUME ViewInv, Recenter PROVE ViewInv'
  OBVIOUS
<1>1. /\ UNCHANGED <<dbVars, centered, shift, viewed, framePending, asking, toDb, fromDb, misses, ghostVars>>
      /\ follow' = TRUE /\ recenters' = Append(recenters, "button") /\ loaded
      /\ moves' = moves + 1 /\ moves < MaxMoves
  BY DEF Recenter, Moving
<1>2. ViewTyped
  BY DEF ViewInv
<1>3. "button" \in Sources /\ recenters \in Seq(Sources)
  BY <1>2 DEF ViewTyped, Sources
<1>4. /\ recenters' \in Seq(Sources) /\ Len(recenters') = Len(recenters) + 1
      /\ recenters'[Len(recenters) + 1] = "button" /\ Len(recenters) + 1 \in DOMAIN recenters'
  BY <1>1, <1>3, SeqAppended
<1>5. load <= moves /\ load \in Nat /\ moves \in 0 .. MaxMoves /\ MaxMoves \in Nat
  BY <1>2, CameraConstants DEF ViewTyped
<1>6. load <= moves' /\ moves' \in 0 .. MaxMoves
  BY <1>1, <1>5
<1>7. ViewTyped'
  BY <1>1, <1>2, <1>4, <1>6 DEF ViewTyped, dbVars, ghostVars
<1>8. RecentersUnderWay' = RecentersUnderWay + 1 /\ RecentersUnderWay \in Nat
  BY <1>1, <1>2, <1>4, UnderWayIsNat DEF RecentersUnderWay
<1>9. late' <= RecentersUnderWay'
  BY <1>1, <1>2, <1>8 DEF ViewInv, ViewWired, ViewTyped, ghostVars
<1>10. ViewWired'
  BY <1>1, <1>9 DEF ViewInv, ViewWired, ghostVars
<1>11. ViewTold'
  BY <1>1 DEF ViewInv, ViewTold, dbVars
<1>12. ButtonWaits'
  BY <1>4 DEF ButtonWaits
<1>13. RecentersUnderWay' # 0
  BY <1>8
<1>14. ViewNoted' /\ ViewThere'
  BY <1>12, <1>13 DEF ViewNoted, ViewThere
<1> QED
  BY <1>7, <1>10, <1>11, <1>14 DEF ViewInv

\* A message is sent to the worker: for a revert, for a frame, for a query.
LEMMA ViewSends ==
    ASSUME ViewInv, NEW m \in Out, toDb' = Append(toDb, m), loaded,
           UNCHANGED <<dbVars, lookVars, fromDb, misses, ghostVars>>,
           moves' \in 0 .. MaxMoves, moves' >= moves,
           \/ m.type = "revert" /\ UNCHANGED <<framePending, recenters, asking>>
           \/ m.type = "frame" /\ ~framePending /\ framePending' = TRUE /\ UNCHANGED <<recenters, asking>>
           \/ /\ m.type = "query" /\ asking = "nobody" /\ recenters # <<>>
              /\ asking' = Head(recenters) /\ recenters' = Tail(recenters)
              /\ UNCHANGED framePending
    PROVE  ViewInv'
<1>1. ViewTyped /\ toDb \in Seq(Out) /\ recenters \in Seq(Sources)
  BY DEF ViewInv, ViewTyped
<1>2. toDb' \in Seq(Out)
  BY <1>1, SeqAppended
<1>3. m.type = "query" => /\ asking' \in Sources /\ recenters' \in Seq(Sources)
                          /\ Len(recenters') = Len(recenters) - 1 /\ Len(recenters) \in Nat
                          /\ Head(recenters) = recenters[1] /\ DOMAIN recenters = 1 .. Len(recenters)
                          /\ DOMAIN recenters' = 1 .. Len(recenters) - 1 /\ Len(recenters) >= 1
                          /\ \A i \in DOMAIN recenters' : recenters'[i] = recenters[i + 1]
  <2> SUFFICES ASSUME m.type = "query"
               PROVE  /\ asking' \in Sources /\ recenters' \in Seq(Sources)
                      /\ Len(recenters') = Len(recenters) - 1 /\ Len(recenters) \in Nat
                      /\ Head(recenters) = recenters[1] /\ DOMAIN recenters = 1 .. Len(recenters)
                      /\ DOMAIN recenters' = 1 .. Len(recenters) - 1 /\ Len(recenters) >= 1
                      /\ \A i \in DOMAIN recenters' : recenters'[i] = recenters[i + 1]
    OBVIOUS
  <2>1. recenters # <<>> /\ asking' = Head(recenters) /\ recenters' = Tail(recenters)
    OBVIOUS
  <2> QED
    BY <1>1, <2>1, SeqParts
<1>4. /\ asking' \in Sources \cup {"nobody"} /\ recenters' \in Seq(Sources)
      /\ framePending' \in BOOLEAN
  BY <1>1, <1>3 DEF ViewTyped
<1>5. load <= moves'
  BY <1>1, CameraConstants DEF ViewTyped
<1>6. ViewTyped'
  BY <1>1, <1>2, <1>4, <1>5 DEF ViewTyped, dbVars, lookVars, ghostVars
<1>7. Carries({"frame"}, toDb', fromDb', framePending')
  <2>1. Carries({"frame"}, toDb, fromDb, framePending) /\ framePending \in BOOLEAN
    BY <1>1 DEF ViewInv, ViewWired, ViewTyped
  <2>2. m.type \in {"frame"} => ~framePending
    OBVIOUS
  <2>3. Carries({"frame"}, Append(toDb, m), fromDb, framePending \/ m.type \in {"frame"})
    BY <1>1, <2>1, <2>2, CarriesSent
  <2>4. framePending' = (framePending \/ m.type \in {"frame"})
    BY <2>1
  <2> QED
    BY <2>3, <2>4
<1>8. Carries(Queries, toDb', fromDb', asking' # "nobody")
  <2>1. Carries(Queries, toDb, fromDb, asking # "nobody")
    BY DEF ViewInv, ViewWired
  <2>2. m.type \in Queries <=> m.type = "query"
    BY DEF Queries
  <2>3. m.type \in Queries => ~(asking # "nobody")
    BY <2>2
  <2>4. Carries(Queries, Append(toDb, m), fromDb, (asking # "nobody") \/ m.type \in Queries)
    BY <1>1, <2>1, <2>3, CarriesSent
  <2>5. (asking' # "nobody") = ((asking # "nobody") \/ m.type \in Queries)
    BY <1>3, <2>2 DEF Sources
  <2> QED
    BY <2>4, <2>5
<1>9. RecentersUnderWay' = RecentersUnderWay
  <2>1. CASE m.type # "query"
    BY <2>1 DEF RecentersUnderWay
  <2>2. CASE m.type = "query"
    BY <1>3, <2>2 DEF RecentersUnderWay, Sources
  <2> QED
    BY <2>1, <2>2
<1>10. ViewWired'
  BY <1>7, <1>8, <1>9 DEF ViewInv, ViewWired, lookVars, ghostVars
<1>11. ViewTold'
  BY DEF ViewInv, ViewTold, dbVars, lookVars
<1>12. ButtonWaits => ButtonWaits'
  <2>1. CASE m.type # "query"
    BY <2>1 DEF ButtonWaits
  <2>2. CASE m.type = "query"
    <3> SUFFICES ASSUME ButtonWaits PROVE ButtonWaits'
      OBVIOUS
    <3>1. PICK i \in DOMAIN recenters : recenters[i] = "button"
      BY <2>2 DEF ButtonWaits
    <3>2. CASE i = 1
      BY <1>3, <2>2, <3>1, <3>2 DEF ButtonWaits
    <3>3. CASE i # 1
      <4>1. i - 1 \in DOMAIN recenters' /\ (i - 1) + 1 = i
        BY <1>3, <2>2, <3>1, <3>3
      <4>2. recenters'[i - 1] = "button"
        BY <1>3, <2>2, <3>1, <4>1
      <4> QED
        BY <4>1, <4>2 DEF ButtonWaits
    <3> QED
      BY <3>2, <3>3
  <2> QED
    BY <2>1, <2>2
<1>13. ViewNoted' /\ ViewThere'
  BY <1>9, <1>12 DEF ViewInv, ViewNoted, ViewThere, Faultless, dbVars, lookVars, ghostVars
<1> QED
  BY <1>6, <1>10, <1>11, <1>13 DEF ViewInv

\* The three messages to the worker.
LEMMA ViewAsks == ViewInv /\ (RevertData \/ AskFrame \/ PumpRecenter) => ViewInv'
<1> SUFFICES ASSUME ViewInv, RevertData \/ AskFrame \/ PumpRecenter PROVE ViewInv'
  OBVIOUS
<1>1. ViewTyped /\ MaxMoves \in Nat
  BY CameraConstants DEF ViewInv
<1>2. moves \in 0 .. MaxMoves /\ playhead \in BattleNumbers \cup {NoBattle}
  BY <1>1 DEF ViewTyped
<1>3. CASE RevertData
  <2> DEFINE m == [type |-> "revert", battle |-> NoBattle]
  <2>1. m \in Out /\ m.type = "revert"
    BY DEF Out
  <2>2. /\ toDb' = Append(toDb, m) /\ loaded /\ moves' = moves + 1 /\ moves < MaxMoves
        /\ UNCHANGED <<dbVars, lookVars, framePending, recenters, asking, fromDb, misses, ghostVars>>
    BY <1>3 DEF RevertData, Moving
  <2>3. moves' \in 0 .. MaxMoves /\ moves' >= moves
    BY <1>1, <1>2, <2>2
  <2> HIDE DEF m
  <2> QED
    BY <2>1, <2>2, <2>3, ViewSends
<1>4. CASE AskFrame
  <2> DEFINE m == [type |-> "frame", battle |-> playhead]
  <2>1. m \in Out /\ m.type = "frame"
    BY <1>2 DEF Out
  <2>2. /\ toDb' = Append(toDb, m) /\ loaded /\ ~framePending /\ framePending' = TRUE
        /\ UNCHANGED <<dbVars, lookVars, recenters, asking, fromDb, moves, misses, ghostVars>>
    BY <1>4 DEF AskFrame
  <2>3. moves' \in 0 .. MaxMoves /\ moves' >= moves
    BY <1>1, <1>2, <2>2
  <2> HIDE DEF m
  <2> QED
    BY <2>1, <2>2, <2>3, ViewSends
<1>5. CASE PumpRecenter
  <2> DEFINE m == [type |-> "query", battle |-> NoBattle]
  <2>1. m \in Out /\ m.type = "query"
    BY DEF Out
  <2>2. /\ toDb' = Append(toDb, m) /\ asking = "nobody" /\ recenters # <<>>
        /\ asking' = Head(recenters) /\ recenters' = Tail(recenters)
        /\ UNCHANGED <<dbVars, lookVars, framePending, fromDb, moves, misses, ghostVars>>
    BY <1>5 DEF PumpRecenter
  <2>3. moves' \in 0 .. MaxMoves /\ moves' >= moves
    BY <1>1, <1>2, <2>2
  <2>4. loaded
    BY <2>2 DEF ViewInv, ViewTold
  <2> HIDE DEF m
  <2> QED
    BY <2>1, <2>2, <2>3, <2>4, ViewSends
<1> QED
  BY <1>3, <1>4, <1>5

\* A reset leaves nothing under way, and a load starts from there.
LEMMA ViewLoads == ViewInv /\ (ResetView \/ LoadView) => ViewInv'
<1> SUFFICES ASSUME ViewInv, ResetView \/ LoadView PROVE ViewInv'
  OBVIOUS
<1>1. ViewTyped /\ MaxMoves \in Nat /\ load <= moves /\ load \in Nat /\ moves \in 0 .. MaxMoves
  BY CameraConstants DEF ViewInv, ViewTyped
<1>2. \A T : PlacesOf(T, <<>>) = {}
  BY DEF PlacesOf
<1>3. moves' = moves + 1 /\ moves < MaxMoves
  BY DEF ResetView, LoadView, Moving
<1>4. /\ ~framePending' /\ framePending' \in BOOLEAN /\ recenters' = <<>> /\ asking' = "nobody"
      /\ toDb' = <<>> /\ fromDb' = <<>> /\ viewed' = NoBattle /\ centered' = NoBattle
  <2>1. CASE ResetView
    BY <2>1 DEF ResetView, ResetCentered, ResetAsking
  <2>2. CASE LoadView
    <3>1. UNCHANGED <<framePending, recenters, asking, toDb, fromDb, viewed, centered>> /\ ~loaded
      BY <2>2 DEF LoadView, wireVars, lookVars
    <3> QED
      BY <1>1, <3>1 DEF ViewInv, ViewTold, ViewTyped
  <2> QED
    BY <2>1, <2>2
<1>5. load' \in Nat /\ load' <= moves' /\ moves' \in 0 .. MaxMoves
  <2>1. load' = load \/ load' = load + 1
    BY DEF ResetView, LoadView
  <2> QED
    BY <1>1, <1>3, <2>1
<1>6. /\ {playhead, activeMatch, centered, viewed}' \subseteq BattleNumbers \cup {NoBattle}
      /\ {edited, loaded, follow, framePending, missed, strayed}' \subseteq BOOLEAN
      /\ shift' = shift /\ misses' = misses
  BY <1>1, <1>4 DEF ViewTyped, ResetView, LoadView, lookVars, ghostVars
<1>7. late' \in Nat /\ late' <= 0 /\ (~follow' => late' = 0)
  <2>1. CASE ResetView
    BY <2>1 DEF ResetView
  <2>2. CASE LoadView
    <3>1. late' = late /\ follow' = follow /\ ~loaded
      BY <2>2 DEF LoadView, ghostVars, lookVars
    <3>2. RecentersUnderWay = 0
      BY <3>1, <1>1, UnderWayIsNat DEF ViewInv, ViewTold
    <3> QED
      BY <3>1, <3>2, <1>1 DEF ViewInv, ViewWired, ViewTyped
  <2> QED
    BY <2>1, <2>2
<1>8. ViewTyped'
  BY <1>1, <1>4, <1>5, <1>6, <1>7 DEF ViewTyped
<1>9. RecentersUnderWay' = 0
  BY <1>4 DEF RecentersUnderWay
<1>10. ViewWired'
  BY <1>2, <1>4, <1>7, <1>9 DEF ViewWired, Carries
<1>11. activeMatch' = NoBattle \/ ~loaded'
  BY DEF ResetView, LoadView
<1>12. ViewTold'
  BY <1>2, <1>4, <1>11 DEF ViewTold, RowsTold, Told
<1>13. ViewNoted' /\ ViewThere'
  BY <1>4 DEF ViewNoted, ViewThere
<1> QED
  BY <1>8, <1>10, <1>12, <1>13 DEF ViewInv

\* The worker answers with the place or the shift of the battle it is at.
LEMMA ViewWorks == ViewInv /\ DataWork => ViewInv'
<1> SUFFICES ASSUME ViewInv, DataWork PROVE ViewInv'
  OBVIOUS
<1> DEFINE m == Head(toDb)
<1>1. /\ ViewTyped /\ MaxMoves \in Nat /\ load <= moves /\ load \in Nat /\ moves \in 0 .. MaxMoves
      /\ MaxMisses \in Nat /\ misses \in 0 .. MaxMisses /\ toDb \in Seq(Out) /\ fromDb \in Seq(Back)
      /\ activeMatch \in BattleNumbers \cup {NoBattle} /\ edited \in BOOLEAN
  BY CameraConstants DEF ViewInv, ViewTyped
<1>2. /\ toDb # <<>> /\ toDb' = Tail(toDb)
      /\ UNCHANGED <<playhead, load, loaded, lookVars, framePending, recenters, asking, moves, late,
                     missed, strayed>>
  BY DEF DataWork
<1>3. m \in Out /\ toDb' \in Seq(Out)
  BY <1>1, <1>2, SeqParts
<1>4. load \in 0 .. MaxMoves
  BY <1>1
<1>5. loaded
  BY <1>2 DEF ViewInv, ViewTold
<1>6. PICK r \in Back : /\ fromDb' = Append(fromDb, r)
                        /\ r.shift.load = load /\ r.shift.battle = activeMatch'
                        /\ activeMatch' \in BattleNumbers \cup {NoBattle} /\ edited' \in BOOLEAN
                        /\ misses' \in 0 .. MaxMisses
                        /\ \/ m.type = "frame" /\ r.type = "frame"
                           \/ /\ m.type = "query" /\ r.type \in {"row", "error"}
                              /\ activeMatch' = activeMatch
                           \/ m.type = "revert" /\ r.type = "reverted" /\ activeMatch' = NoBattle
  <2> DEFINE R(t) == [type |-> t, shift |-> [load |-> load, edited |-> edited', battle |-> activeMatch']]
             Goal(t) == /\ R(t) \in Back /\ fromDb' = Append(fromDb, R(t))
                        /\ activeMatch' \in BattleNumbers \cup {NoBattle} /\ edited' \in BOOLEAN
                        /\ misses' \in 0 .. MaxMisses
  <2>1. ASSUME NEW t \in {"frame", "row", "error", "reverted"},
               activeMatch' \in BattleNumbers \cup {NoBattle}, edited' \in BOOLEAN
        PROVE  R(t) \in Back
    BY <1>4, <2>1 DEF Back, Shifts
  <2>2. \A t : R(t).type = t /\ R(t).shift.load = load /\ R(t).shift.battle = activeMatch'
    OBVIOUS
  <2> HIDE DEF m
  <2>3. CASE /\ m.type = "frame" /\ activeMatch' = m.battle /\ UNCHANGED <<edited, misses>>
             /\ DataReply("frame")
    <3>1. m.battle \in BattleNumbers \cup {NoBattle}
      BY <1>3 DEF Out
    <3>2. Goal("frame")
      BY <1>1, <2>1, <2>3, <3>1 DEF DataReply
    <3> QED
      BY <2>2, <2>3, <3>2
  <2>4. CASE /\ m.type = "query" /\ UNCHANGED <<activeMatch, edited>>
             /\ \/ DataReply("row") /\ UNCHANGED misses
                \/ misses < MaxMisses /\ misses' = misses + 1 /\ DataReply("error")
    <3>1. misses' \in 0 .. MaxMisses
      BY <1>1, <2>4
    <3>2. PICK t \in {"row", "error"} : DataReply(t)
      BY <2>4
    <3>3. Goal(t)
      BY <1>1, <2>1, <2>4, <3>1, <3>2 DEF DataReply
    <3> QED
      BY <2>2, <2>4, <3>2, <3>3
  <2>5. CASE /\ m.type = "revert" /\ activeMatch' = NoBattle /\ edited' = FALSE
             /\ DataReply("reverted") /\ UNCHANGED misses
    <3>1. Goal("reverted")
      BY <1>1, <2>1, <2>5 DEF DataReply
    <3> QED
      BY <2>2, <2>5, <3>1
  <2> QED
    BY <2>3, <2>4, <2>5 DEF DataWork, m
<1> HIDE DEF m
<1>7. fromDb' \in Seq(Back)
  BY <1>1, <1>6, SeqAppended
<1>8. ViewTyped'
  BY <1>1, <1>2, <1>3, <1>6, <1>7 DEF ViewTyped, lookVars
<1>9. RecentersUnderWay' = RecentersUnderWay /\ (ButtonWaits' <=> ButtonWaits)
  BY <1>2 DEF RecentersUnderWay, ButtonWaits
<1>10. Carries({"frame"}, toDb', fromDb', framePending')
  <2>1. Carries({"frame"}, toDb, fromDb, framePending) /\ framePending \in BOOLEAN
    BY <1>1 DEF ViewInv, ViewWired, ViewTyped
  <2>2. r.type \in {"frame"} <=> m.type \in {"frame"}
    BY <1>6
  <2>3. Carries({"frame"}, Tail(toDb), Append(fromDb, r), framePending)
    BY <1>1, <1>2, <2>1, <2>2, CarriesAnswered DEF m
  <2> QED
    BY <1>2, <1>6, <2>3
<1>11. Carries(Queries, toDb', fromDb', asking' # "nobody")
  <2>1. Carries(Queries, toDb, fromDb, asking # "nobody")
    BY DEF ViewInv, ViewWired
  <2>2. r.type \in Queries <=> m.type \in Queries
    BY <1>6 DEF Queries
  <2>3. Carries(Queries, Tail(toDb), Append(fromDb, r), asking # "nobody")
    BY <1>1, <1>2, <2>1, <2>2, CarriesAnswered DEF m
  <2> QED
    BY <1>2, <1>6, <2>3
<1>12. ViewWired'
  BY <1>2, <1>9, <1>10, <1>11 DEF ViewInv, ViewWired, lookVars
<1>13. Told(fromDb, viewed, activeMatch) /\ RowsTold(fromDb, viewed, load)
  BY <1>5 DEF ViewInv, ViewTold
<1>14. Told(fromDb', viewed, activeMatch')
  <2>1. Told(fromDb, viewed, NoBattle)
    BY DEF Told
  <2>2. IF r.type = "frame" THEN r.shift.battle = activeMatch' ELSE Told(fromDb, viewed, activeMatch')
    BY <1>6, <1>13, <2>1
  <2> QED
    BY <1>1, <1>6, <2>2, ToldAppended
<1>15. RowsTold(fromDb', viewed, load)
  <2>1. r.type = "row" => r.shift.load = load /\ Told(fromDb, viewed, r.shift.battle)
    BY <1>6, <1>13
  <2> QED
    BY <1>1, <1>6, <1>13, <2>1, RowsAppended
<1>16. ViewTold'
  BY <1>2, <1>5, <1>14, <1>15 DEF ViewTold, lookVars
<1>17. ViewNoted' /\ ViewThere'
  BY <1>2, <1>9 DEF ViewInv, ViewNoted, ViewThere, Faultless, lookVars
<1> QED
  BY <1>8, <1>12, <1>16, <1>17 DEF ViewInv

\* What reading a message does to the queues.
LEMMA ViewRead ==
    ASSUME ViewInv, fromDb # <<>>
    PROVE  LET m == Head(fromDb)
           IN  /\ m \in Back /\ Tail(fromDb) \in Seq(Back) /\ loaded
               /\ Carries({"frame"}, toDb, Tail(fromDb), framePending /\ m.type # "frame")
               /\ m.type \in {"row", "error"} => asking # "nobody"
               /\ Carries(Queries, toDb, Tail(fromDb),
                          asking # "nobody" /\ m.type \notin {"row", "error"})
               /\ Told(Tail(fromDb), IF m.type = "frame" THEN m.shift.battle ELSE viewed, activeMatch)
               /\ RowsTold(Tail(fromDb), IF m.type = "frame" THEN m.shift.battle ELSE viewed, load)
               /\ m.type = "row" => /\ m.shift.load = load
                                    /\ m.shift.battle = NoBattle \/ m.shift.battle = viewed
<1> DEFINE m == Head(fromDb)
<1>1. ViewTyped /\ fromDb \in Seq(Back) /\ framePending \in BOOLEAN
  BY DEF ViewInv, ViewTyped
<1>2. m \in Back /\ Tail(fromDb) \in Seq(Back) /\ fromDb[1] = m /\ 1 \in DOMAIN fromDb
  BY <1>1, SeqParts
<1>3. loaded
  BY DEF ViewInv, ViewTold
<1>4. Carries({"frame"}, toDb, Tail(fromDb), framePending /\ m.type # "frame")
  <2>1. Carries({"frame"}, toDb, fromDb, framePending)
    BY DEF ViewInv, ViewWired
  <2>2. Carries({"frame"}, toDb, Tail(fromDb), framePending /\ m.type \notin {"frame"})
    BY <1>1, <2>1, CarriesReceived
  <2>3. m.type \notin {"frame"} <=> m.type # "frame"
    OBVIOUS
  <2> HIDE DEF m
  <2> QED
    BY <2>2, <2>3
<1>5. m.type \in Queries <=> m.type \in {"row", "error"}
  BY <1>2 DEF Queries, Back
<1>6. /\ m.type \in {"row", "error"} => asking # "nobody"
      /\ Carries(Queries, toDb, Tail(fromDb), asking # "nobody" /\ m.type \notin {"row", "error"})
  <2>1. Carries(Queries, toDb, fromDb, asking # "nobody")
    BY DEF ViewInv, ViewWired
  <2>2. /\ m.type \in Queries => asking # "nobody"
        /\ Carries(Queries, toDb, Tail(fromDb), (asking # "nobody") /\ m.type \notin Queries)
    BY <1>1, <2>1, CarriesReceived
  <2> HIDE DEF m
  <2> QED
    BY <1>5, <2>2
<1>7. Told(fromDb, viewed, activeMatch) /\ RowsTold(fromDb, viewed, load)
  BY <1>3 DEF ViewInv, ViewTold
<1>8. m.type = "frame" => PlacesOf({"frame"}, Tail(fromDb)) = {}
  BY <1>4 DEF Carries
<1>9. /\ Told(Tail(fromDb), IF m.type = "frame" THEN m.shift.battle ELSE viewed, activeMatch)
      /\ RowsTold(Tail(fromDb), IF m.type = "frame" THEN m.shift.battle ELSE viewed, load)
  BY <1>1, <1>7, <1>8, ToldRead, RowsRead
<1>10. ASSUME m.type = "row"
       PROVE  m.shift.load = load /\ (m.shift.battle = NoBattle \/ m.shift.battle = viewed)
  <2>1. 1 \in PlacesOf({"row"}, fromDb)
    BY <1>2, <1>10 DEF PlacesOf
  <2>2. m.shift.load = load /\ RowTold(fromDb, viewed, 1)
    BY <1>2, <1>7, <2>1 DEF RowsTold
  <2>3. \A j \in PlacesOf({"frame"}, fromDb) : ~(j < 1)
    BY <1>1, SeqParts DEF PlacesOf
  <2> QED
    BY <1>2, <2>2, <2>3 DEF RowTold
<1> QED
  BY <1>2, <1>3, <1>4, <1>6, <1>9, <1>10

\* A frame may move the view to a new battle; a row shifts it; an error is noted.
LEMMA ViewReads == ViewInv /\ ViewReceive => ViewInv'
<1> SUFFICES ASSUME ViewInv, ViewReceive PROVE ViewInv'
  OBVIOUS
<1> DEFINE m == Head(fromDb)
<1>1. /\ ViewTyped /\ recenters \in Seq(Sources) /\ late \in Nat /\ framePending \in BOOLEAN
      /\ {missed, strayed, follow} \subseteq BOOLEAN /\ asking \in Sources \cup {"nobody"}
  BY DEF ViewInv, ViewTyped
<1>2. fromDb # <<>> /\ fromDb' = Tail(fromDb) /\ UNCHANGED <<dbVars, toDb, moves, misses>>
  BY DEF ViewReceive
<1>3. /\ m \in Back /\ fromDb' \in Seq(Back) /\ loaded
      /\ Carries({"frame"}, toDb, fromDb', framePending /\ m.type # "frame")
      /\ m.type \in {"row", "error"} => asking # "nobody"
      /\ Carries(Queries, toDb, fromDb', asking # "nobody" /\ m.type \notin {"row", "error"})
      /\ Told(fromDb', IF m.type = "frame" THEN m.shift.battle ELSE viewed, activeMatch)
      /\ RowsTold(fromDb', IF m.type = "frame" THEN m.shift.battle ELSE viewed, load)
      /\ m.type = "row" => /\ m.shift.load = load
                           /\ m.shift.battle = NoBattle \/ m.shift.battle = viewed
  BY <1>2, ViewRead
<1>4. m.shift \in Shifts /\ m.shift.battle \in BattleNumbers \cup {NoBattle}
  BY <1>3 DEF Back, Shifts
<1>5. /\ late <= RecentersUnderWay /\ (~follow => late = RecentersUnderWay)
      /\ ViewNoted /\ ViewThere
  BY DEF ViewInv, ViewWired
<1>6. /\ RecentersUnderWay \in Nat /\ Len(recenters) \in Nat
      /\ (RecentersUnderWay = 0 <=> recenters = <<>> /\ asking = "nobody")
      /\ (asking # "nobody" => RecentersUnderWay = Len(recenters) + 1)
      /\ "nobody" \notin Sources
  BY <1>1, UnderWayIsNat DEF Sources
<1>7. \/ m.type = "frame" /\ ViewOnFrame(m.shift.battle)
      \/ m.type \in {"row", "error"} /\ OnRecentered(m)
      \/ m.type = "reverted" /\ ViewOnReverted
  BY <1>3 DEF ViewReceive, Back
<1> HIDE DEF m
<1>8. CASE m.type = "frame" /\ ViewOnFrame(m.shift.battle)
  <2> DEFINE b == m.shift.battle
  <2>1. /\ framePending' = FALSE /\ viewed' = b
        /\ UNCHANGED <<follow, shift, asking, late>>
    BY <1>8 DEF ViewOnFrame
  <2>2. \/ /\ Follows(b) /\ centered' = b /\ recenters' = Append(recenters, "frame")
           /\ missed' = FALSE /\ strayed' = FALSE
        \/ /\ ~Follows(b) /\ UNCHANGED <<centered, recenters, missed, strayed>>
    BY <1>8 DEF ViewOnFrame
  <2>3. /\ recenters' \in Seq(Sources)
        /\ Follows(b) => Len(recenters') = Len(recenters) + 1
        /\ ButtonWaits => ButtonWaits'
    <3>1. "frame" \in Sources
      BY DEF Sources
    <3>2. CASE Follows(b)
      <4>1. /\ recenters' \in Seq(Sources) /\ Len(recenters') = Len(recenters) + 1
            /\ DOMAIN recenters' = DOMAIN recenters \cup {Len(recenters) + 1}
            /\ \A i \in DOMAIN recenters : recenters'[i] = recenters[i]
        BY <1>1, <2>2, <3>1, <3>2, SeqAppended
      <4> QED
        BY <2>1, <4>1 DEF ButtonWaits
    <3>3. CASE ~Follows(b)
      BY <1>1, <2>1, <2>2, <3>3 DEF ButtonWaits
    <3> QED
      BY <3>2, <3>3
  <2>4. ViewTyped'
    BY <1>1, <1>2, <1>3, <1>4, <2>1, <2>2, <2>3 DEF ViewTyped, dbVars
  <2>5. /\ Follows(b) => RecentersUnderWay' = RecentersUnderWay + 1
        /\ ~Follows(b) => RecentersUnderWay' = RecentersUnderWay
    BY <1>6, <2>1, <2>2, <2>3 DEF RecentersUnderWay
  <2>6. late' <= RecentersUnderWay' /\ (~follow' => late' = RecentersUnderWay')
    BY <1>1, <1>5, <1>6, <2>1, <2>5 DEF Follows
  <2>7. ViewWired'
    BY <1>2, <1>3, <1>8, <2>1, <2>6 DEF ViewWired
  <2>8. ViewTold'
    BY <1>2, <1>3, <1>8, <2>1 DEF ViewTold, dbVars
  <2>9. ViewNoted'
    <3> SUFFICES ASSUME follow', viewed' # NoBattle, ~ButtonWaits', Faultless' PROVE centered' = viewed'
      BY DEF ViewNoted
    <3> QED
      BY <2>1, <2>2 DEF Follows
  <2>10. ViewThere'
    <3> SUFFICES ASSUME loaded', RecentersUnderWay' = 0, follow', centered' # NoBattle, Faultless'
                 PROVE  shift'.battle = centered' /\ shift'.load = load'
      BY DEF ViewThere
    <3>1. ~Follows(b)
      BY <1>6, <2>5
    <3> QED
      BY <1>2, <1>5, <2>1, <2>2, <2>5, <3>1 DEF ViewThere, Faultless, dbVars
  <2> QED
    BY <2>4, <2>7, <2>8, <2>9, <2>10 DEF ViewInv
<1>9. CASE m.type \in {"row", "error"} /\ OnRecentered(m)
  <2> DEFINE found == m.type = "row" /\ m.shift.battle # NoBattle
  <2>1. /\ asking' = "nobody" /\ UNCHANGED <<follow, centered, viewed, framePending, recenters>>
        /\ shift' = (IF found THEN m.shift ELSE shift)
        /\ late' = (IF late > 0 THEN late - 1 ELSE 0)
        /\ missed' = (missed \/ ~found)
        /\ strayed' = (strayed \/ (asking = "button" /\ found /\ m.shift.battle # centered))
    BY <1>9 DEF OnRecentered, RecenterFinished
  <2>2. asking # "nobody" /\ RecentersUnderWay = Len(recenters) + 1
    BY <1>3, <1>6, <1>9
  <2>3. RecentersUnderWay' = Len(recenters)
    BY <2>1, <1>6 DEF RecentersUnderWay
  <2>4. late' \in Nat /\ late' <= RecentersUnderWay' /\ (~follow' => late' = RecentersUnderWay')
    BY <1>1, <1>5, <1>6, <2>1, <2>2, <2>3
  <2>5. /\ shift' \in Shifts /\ missed' \in BOOLEAN /\ strayed' \in BOOLEAN
    BY <1>1, <1>4, <2>1 DEF ViewTyped
  <2>6. ViewTyped'
    BY <1>1, <1>2, <1>3, <2>1, <2>4, <2>5 DEF ViewTyped, dbVars
  <2>7. m.type # "frame"
    BY <1>9
  <2>8. ViewWired'
    <3>1. (framePending /\ m.type # "frame") = framePending'
      BY <1>1, <2>1, <2>7
    <3>2. (asking # "nobody" /\ m.type \notin {"row", "error"}) = (asking' # "nobody")
      BY <1>9, <2>1
    <3>3. /\ Carries({"frame"}, toDb, fromDb', framePending')
          /\ Carries(Queries, toDb, fromDb', asking' # "nobody")
      BY <1>3, <3>1, <3>2
    <3> QED
      BY <1>2, <2>4, <3>3 DEF ViewWired
  <2>9. ViewTold'
    BY <1>2, <1>3, <2>1, <2>7 DEF ViewTold, dbVars
  <2>10. Faultless' => /\ Faultless /\ found
                       /\ m.shift.battle = viewed /\ viewed # NoBattle /\ m.shift.load = load
                       /\ asking = "button" => m.shift.battle = centered
    BY <1>1, <1>3, <2>1 DEF Faultless
  <2>11. ViewNoted'
    <3> SUFFICES ASSUME follow', viewed' # NoBattle, ~ButtonWaits', Faultless' PROVE centered' = viewed'
      BY DEF ViewNoted
    <3>1. CASE asking = "button"
      BY <2>1, <2>10, <3>1
    <3>2. CASE asking # "button"
      <4>1. ~ButtonWaits
        BY <2>1, <3>2 DEF ButtonWaits
      <4> QED
        BY <1>5, <2>1, <2>10, <4>1 DEF ViewNoted
    <3> QED
      BY <3>1, <3>2
  <2>12. ViewThere'
    <3> SUFFICES ASSUME loaded', RecentersUnderWay' = 0, follow', centered' # NoBattle, Faultless'
                 PROVE  shift'.battle = centered' /\ shift'.load = load'
      BY DEF ViewThere
    <3>1. shift' = m.shift /\ m.shift.battle = viewed' /\ m.shift.load = load' /\ viewed' # NoBattle
      BY <1>2, <2>1, <2>10 DEF dbVars
    <3>2. ~ButtonWaits'
      BY <1>1, <1>6, <2>1, <2>3 DEF ButtonWaits
    <3>3. centered' = viewed'
      BY <2>11, <3>1, <3>2 DEF ViewNoted
    <3> QED
      BY <3>1, <3>3
  <2> QED
    BY <2>6, <2>8, <2>9, <2>11, <2>12 DEF ViewInv
<1>10. CASE m.type = "reverted" /\ ViewOnReverted
  <2>1. UNCHANGED <<follow, centered, shift, viewed, framePending, recenters, asking, late, missed, strayed>>
    BY <1>10 DEF ViewOnReverted, lookVars
  <2>2. ViewTyped'
    BY <1>1, <1>2, <1>3, <2>1 DEF ViewTyped, dbVars
  <2>3. RecentersUnderWay' = RecentersUnderWay /\ (ButtonWaits' <=> ButtonWaits)
    BY <2>1 DEF RecentersUnderWay, ButtonWaits
  <2>4. ViewWired'
    <3>1. (framePending /\ m.type # "frame") = framePending'
      BY <1>1, <1>10, <2>1
    <3>2. (asking # "nobody" /\ m.type \notin {"row", "error"}) = (asking' # "nobody")
      BY <1>10, <2>1
    <3>3. /\ Carries({"frame"}, toDb, fromDb', framePending')
          /\ Carries(Queries, toDb, fromDb', asking' # "nobody")
      BY <1>3, <3>1, <3>2
    <3> QED
      BY <1>2, <1>5, <2>1, <2>3, <3>3 DEF ViewWired
  <2>5. ViewTold'
    BY <1>2, <1>3, <1>10, <2>1 DEF ViewTold, dbVars
  <2>6. ViewNoted' /\ ViewThere'
    BY <1>2, <1>5, <2>1, <2>3 DEF ViewNoted, ViewThere, Faultless, dbVars
  <2> QED
    BY <2>2, <2>4, <2>5, <2>6 DEF ViewInv
<1> QED
  BY <1>7, <1>8, <1>9, <1>10

\* Every step, and that the invariant holds throughout.
LEMMA ViewSteps == ViewInv /\ [ViewNext]_viewVars => ViewInv'
<1> SUFFICES ASSUME ViewInv, [ViewNext]_viewVars PROVE ViewInv'
  OBVIOUS
<1>1. CASE ViewNext
  BY <1>1, ViewMoved, ViewRecenters, ViewAsks, ViewLoads, ViewReads, ViewWorks DEF ViewNext, ViewTurn
<1>2. CASE UNCHANGED viewVars
  <2>1. UNCHANGED <<playhead, activeMatch, edited, load, loaded, follow, centered, shift, viewed,
                    framePending, recenters, asking, toDb, fromDb, moves, misses, late, missed, strayed>>
    BY <1>2 DEF viewVars, dbVars, lookVars, wireVars, ghostVars
  <2> QED
    BY <2>1 DEF ViewInv, ViewTyped, ViewWired, ViewTold, ViewNoted, ViewThere, Faultless, ButtonWaits,
                RecentersUnderWay
<1> QED
  BY <1>1, <1>2

\* So the invariant holds of every state.
LEMMA ViewIsSound == ViewSpec => []ViewInv
<1> QED
  BY ViewStart, ViewSteps, PTL DEF ViewSpec

\* When nothing is under way, what was noted is what is seen.
LEMMA InvFollows == ViewInv => FollowsBattles
<1> SUFFICES ASSUME ViewInv PROVE FollowsBattles
  OBVIOUS
<1>1. ViewTyped /\ ViewWired
  BY DEF ViewInv
<1>2. asking = "nobody" <=> /\ \A i \in DOMAIN toDb : toDb[i].type # "query"
                            /\ \A i \in DOMAIN fromDb : fromDb[i].type \notin {"row", "error"}
  <2>1. \A i \in DOMAIN toDb : toDb[i].type \in {"frame", "query", "revert"}
    <3>1. \A i \in DOMAIN toDb : toDb[i] \in Out
      BY <1>1, SeqParts DEF ViewTyped
    <3> QED
      BY <3>1 DEF Out
  <2>2. \A i \in DOMAIN fromDb : fromDb[i].type \in {"frame", "row", "error", "reverted"}
    <3>1. \A i \in DOMAIN fromDb : fromDb[i] \in Back
      BY <1>1, SeqParts DEF ViewTyped
    <3> QED
      BY <3>1 DEF Back
  <2>3. /\ \A i \in PlacesOf(Queries, toDb) : toDb[i].type = "query" /\ i \in DOMAIN toDb
        /\ \A i \in DOMAIN toDb : toDb[i].type = "query" => i \in PlacesOf(Queries, toDb)
    BY <2>1 DEF PlacesOf, Queries
  <2>4. /\ \A i \in PlacesOf(Queries, fromDb) : fromDb[i].type \in {"row", "error"} /\ i \in DOMAIN fromDb
        /\ \A i \in DOMAIN fromDb : fromDb[i].type \in {"row", "error"} => i \in PlacesOf(Queries, fromDb)
    BY <2>2 DEF PlacesOf, Queries
  <2>5. Carries(Queries, toDb, fromDb, asking # "nobody")
    BY <1>1 DEF ViewWired
  <2>6. CASE asking = "nobody"
    BY <2>3, <2>4, <2>5, <2>6 DEF Carries
  <2>7. CASE asking # "nobody"
    <3>1. Single(Queries, toDb, fromDb)
      BY <2>5, <2>7 DEF Carries
    <3> QED
      BY <2>3, <2>4, <2>7, <3>1 DEF Single
  <2> QED
    BY <2>6, <2>7
<1>3. load \in 0 .. MaxMoves
  BY <1>1, CameraConstants DEF ViewTyped
<1>4. ViewTypeOK
  BY <1>1, <1>2, <1>3 DEF ViewTypeOK, ViewTyped, ViewWired, Out, Back
<1>5. IsCentered
  <2> SUFFICES ASSUME ViewQuiet, follow, viewed # NoBattle, ~missed, ~strayed
               PROVE  shift.battle = viewed /\ shift.load = load
    BY DEF IsCentered
  <2>1. recenters = <<>> /\ asking = "nobody" /\ RecentersUnderWay = 0 /\ loaded
    BY <1>1, UnderWayIsNat DEF ViewQuiet
  <2>2. ~ButtonWaits
    BY <2>1 DEF ButtonWaits
  <2>3. centered = viewed
    BY <2>2 DEF ViewInv, ViewNoted, Faultless
  <2> QED
    BY <2>1, <2>3 DEF ViewInv, ViewThere, Faultless
<1> QED
  BY <1>4, <1>5 DEF FollowsBattles

\* Whatever is played, sought, edited, reverted, loaded and panned, and however
\* many queries fail, a view that follows is, once nothing is under way, on the
\* battle shown (recenterCameraOnActiveBattle and the case of 'frame').
THEOREM ViewAlwaysFollows == ViewSpec => []FollowsBattles
BY ViewIsSound, InvFollows, PTL

\* A user who pans sees the view move only for queries asked before (the
\* keydown and mousemove handlers clear cameraFollowActiveBattle).
THEOREM PanIsSeldomFought == ViewSpec => PanIsFoughtOnce
<1>1. ViewInv /\ [ViewNext]_viewVars => [shift' # shift => follow \/ late > 0]_viewVars
  <2> SUFFICES ASSUME ViewInv, ViewNext, shift' # shift, ~follow PROVE late > 0
    BY DEF ViewInv, ViewTyped
  <2>1. ViewReceive
    BY DEF ViewNext, ViewTurn, MovePlayhead, Pan, Recenter, EditData, RevertData, ResetView, LoadView,
           PumpRecenter, AskFrame, DataWork, lookVars
  <2>2. fromDb # <<>> /\ Head(fromDb).type \in {"row", "error"}
    <3>1. fromDb # <<>>
      BY <2>1 DEF ViewReceive
    <3>2. Head(fromDb).type \in {"frame", "row", "error", "reverted"}
      BY <3>1, ViewRead DEF Back
    <3>3. CASE Head(fromDb).type = "frame"
      BY <2>1, <3>3 DEF ViewReceive, ViewOnFrame
    <3>4. CASE Head(fromDb).type = "reverted"
      BY <2>1, <3>4 DEF ViewReceive, ViewOnReverted, lookVars
    <3> QED
      BY <3>1, <3>2, <3>3, <3>4
  <2>3. asking # "nobody"
    BY <2>2, ViewRead
  <2>4. ViewTyped /\ late = RecentersUnderWay
    BY DEF ViewInv, ViewWired
  <2> QED
    BY <2>3, <2>4, UnderWayIsNat
<1> QED
  BY <1>1, ViewIsSound, PTL DEF ViewSpec, PanIsFoughtOnce

-----------------------------------------------------------------------------
(* The overlays.                                                           *)

\* What is sent and answered.
ToEngine   == [type : {"frame"}, at : Places] \cup [type : {"sql"}, req : OverlayRequests]
              \cup [type : {"revert"}]
SqlRows    == SUBSET ((Places \cup {NoPlace}) \X Nat)
FromEngine == [type : {"frame"}, at : Places] \cup [type : {"error"}, req : OverlayRequests]
              \cup [type : {"done"}, req : OverlayRequests, rows : SqlRows] \cup [type : {"reverted"}]

Sql == {"sql", "done", "error"}

\* The request at the worker and those that wait, as one sequence.
LineOf(a, q) == IF a = {} THEN q ELSE <<CHOOSE r \in a : TRUE>> \o q

\* There is one message of the request at the worker, and it is about it.
SqlWired(te, fe, a) ==
    /\ Carries(Sql, te, fe, a # {})
    /\ \A i \in PlacesOf({"sql"}, te) : te[i].req \in a
    /\ \A i \in PlacesOf({"done", "error"}, fe) : fe[i].req \in a

\* What the worker is at is pictured, or on its way in a frame.
AtTold(q, v, here) == /\ \A i \in PlacesOf({"frame"}, q) : q[i].at = here
                      /\ PlacesOf({"frame"}, q) = {} => here = v

\* The rows of a place as read now; and as answered: of the place that is pictured
\* when the answer is read, unless a revert is behind it.
RowsOf(what, p, d) == IF what # "chat" /\ p \in Gap THEN {} ELSE {<<p, d>>}
Pictures(q, v, i, p) == \/ p = v /\ \A j \in PlacesOf({"frame"}, q) : ~(j < i)
                        \/ \E j \in PlacesOf({"frame"}, q) : j < i /\ q[j].at = p
AnswersTold(q, v, d) ==
    \A i \in PlacesOf({"done"}, q) :
        (\A j \in PlacesOf({"reverted"}, q) : j < i) =>
            \A p : Pictures(q, v, i, p) => q[i].rows = RowsOf(q[i].req.what, p, d)

\* No other place and no other data are on their way to the page.
Current(q, v) == /\ \A i \in PlacesOf({"frame"}, q) : q[i].at = v
                 /\ PlacesOf({"reverted"}, q) = {}

\* Chains of requests take turns, so the newest is the one that has most to ask,
\* and the last of those.
ToAsk(r) == CASE r.what = "chat" -> r.left [] r.what = "a" -> 1 [] r.what = "b" -> 0
NewestOf(l, K, n) ==
    /\ n \in DOMAIN l /\ l[n].what \in K
    /\ \A i \in DOMAIN l : l[i].what \in K =>
          ToAsk(l[i]) < ToAsk(l[n]) \/ (ToAsk(l[i]) = ToAsk(l[n]) /\ i <= n)
NoneOf(l, K) == \A i \in DOMAIN l : l[i].what \notin K

\* The newest chain ends with the rows R, or has ended with them.
ChatSettles(l, shows, R) ==
    \/ NoneOf(l, {"chat"}) /\ shows = R
    \/ \E n \in DOMAIN l : NewestOf(l, {"chat"}, n) /\ l[n].rows \subseteq R
SymbolsSettle(l, y, R) ==
    \/ NoneOf(l, {"a", "b"}) /\ y.a = R /\ y.b = R
    \/ \E n \in DOMAIN l : NewestOf(l, {"a", "b"}, n) /\ (l[n].what = "b" => y.a = R)

Shaped(y) == y = [key |-> y.key, a |-> y.a, b |-> y.b, drawn |-> y.drawn, was |-> y.was,
                  elements |-> y.elements, attached |-> y.attached]

OverlaysTyped ==
    /\ spot \in Places /\ awaited \in BOOLEAN /\ on \in BOOLEAN
    /\ pictured \in Places \cup {NoPlace} /\ at \in Places \cup {NoPlace} /\ data \in Nat
    /\ active \subseteq OverlayRequests /\ (\A r, s \in active : r = s)
    /\ queue \in Seq(OverlayRequests) /\ (active = {} => queue = <<>>)
    /\ toEngine \in Seq(ToEngine) /\ fromEngine \in Seq(FromEngine)
    /\ chatKey \in {pictured, NoKey} /\ chatKey \in Places \cup {NoKey}
    /\ sym.key \in Places \cup {NoKey} /\ (pictured = NoPlace => sym.key = NoKey) /\ Shaped(sym)
    /\ excused \subseteq {"chat", "symbols"}

OverlaysWired ==
    /\ Carries({"frame"}, toEngine, fromEngine, awaited)
    /\ SqlWired(toEngine, fromEngine, active)
    /\ AtTold(fromEngine, pictured, at)
    /\ AnswersTold(fromEngine, pictured, data)

ChatInv(l, q, v, d, k, shows, x) ==
    Current(q, v) /\ k = v /\ v \notin Gap /\ "chat" \notin x => ChatSettles(l, shows, {<<v, d>>})

SymbolsInv(l, q, v, d, y, o, x) ==
    v # NoPlace /\ "symbols" \notin x =>
        /\ y.key = v /\ v \notin Gap /\ o
        /\ Current(q, v) => SymbolsSettle(l, y, {<<v, d>>})

LayerInv(v, y) ==
    /\ y.attached \subseteq y.elements /\ y.attached \subseteq KeysOf(y.drawn)
    /\ v \in Gap \/ ~y.was => y.attached = {}

OverlaysInv ==
    /\ OverlaysTyped /\ OverlaysWired
    /\ ChatInv(LineOf(active, queue), fromEngine, pictured, data, chatKey, chat, excused)
    /\ SymbolsInv(LineOf(active, queue), fromEngine, pictured, data, sym, on, excused)
    /\ LayerInv(pictured, sym)

-----------------------------------------------------------------------------
(* The line of requests.                                                   *)

\* A step's change of the line, from a line with the requests a at the worker.
Line(s, a) ==
    /\ s = [active |-> s.active, queue |-> s.queue, post |-> s.post]
    /\ s.active \subseteq OverlayRequests /\ (\A r, t \in s.active : r = t)
    /\ s.queue \in Seq(OverlayRequests) /\ (s.active = {} => s.queue = <<>>)
    /\ \/ s.post = <<>> /\ s.active = a
       \/ a = {} /\ \E r \in OverlayRequests : s.active = {r} /\ s.post = <<[type |-> "sql", req |-> r]>>

\* The sequence of both is as long as the queue, and one if somebody is at the worker.
LEMMA LineParts ==
    ASSUME NEW a \in SUBSET OverlayRequests, \A r, t \in a : r = t,
           NEW q \in Seq(OverlayRequests), a = {} => q = <<>>
    PROVE  /\ LineOf(a, q) \in Seq(OverlayRequests)
           /\ LineOf(a, q) = <<>> <=> a = {}
           /\ \A r \in a : LineOf(a, q) = <<r>> \o q /\ Head(LineOf(a, q)) = r /\ Tail(LineOf(a, q)) = q
<1>1. CASE a = {}
  BY <1>1 DEF LineOf
<1>2. CASE a # {}
  <2>1. PICK r \in a : a = {r}
    BY <1>2
  <2>2. (CHOOSE t \in a : TRUE) = r
    BY <2>1
  <2>3. LineOf(a, q) = <<r>> \o q
    BY <1>2, <2>2 DEF LineOf
  <2>4. r \in OverlayRequests
    BY <2>1
  <2>5. /\ <<r>> \o q \in Seq(OverlayRequests) /\ <<r>> \o q # <<>>
        /\ Head(<<r>> \o q) = r /\ Tail(<<r>> \o q) = q
    BY <2>4
  <2> QED
    BY <1>2, <2>1, <2>3, <2>5
<1> QED
  BY <1>1, <1>2

\* The line when one request is at the worker.
LEMMA LineOne ==
    ASSUME NEW r \in OverlayRequests, NEW q \in Seq(OverlayRequests)
    PROVE  LineOf({r}, q) = <<r>> \o q
BY DEF LineOf

\* A request joins the line at its end, and is posted if it is the first.
LEMMA LineAsked ==
    ASSUME NEW s, NEW a, Line(s, a), NEW r \in OverlayRequests
    PROVE  /\ Line(OverlayAsked(s, r), a)
           /\ LineOf(OverlayAsked(s, r).active, OverlayAsked(s, r).queue)
                  = Append(LineOf(s.active, s.queue), r)
<1> DEFINE k == OverlayAsked(s, r)
           w == [s EXCEPT !.queue = Append(@, r)]
<1>1. /\ w = [active |-> s.active, queue |-> Append(s.queue, r), post |-> s.post]
      /\ k = OverlayPumped(w)
  BY DEF Line, OverlayAsked
<1>2. s.queue \in Seq(OverlayRequests) /\ Append(s.queue, r) \in Seq(OverlayRequests)
  BY DEF Line
<1>3. Append(s.queue, r) # <<>>
  BY <1>2
<1>4. CASE s.active = {}
  <2>1. s.queue = <<>> /\ s.post = <<>> /\ a = {}
    BY <1>4 DEF Line
  <2>2. Head(Append(s.queue, r)) = r /\ Tail(Append(s.queue, r)) = <<>>
    BY <2>1
  <2>3. k = [active |-> {r}, queue |-> <<>>, post |-> Append(s.post, [type |-> "sql", req |-> r])]
    BY <1>1, <1>3, <1>4, <2>2 DEF OverlayPumped
  <2>4. Append(s.post, [type |-> "sql", req |-> r]) = <<[type |-> "sql", req |-> r]>>
    BY <2>1
  <2>5. Line(k, a)
    BY <2>1, <2>3, <2>4 DEF Line
  <2>6. LineOf(s.active, s.queue) = <<>>
    BY <1>4, <2>1 DEF LineOf
  <2>7. k.active = {r} /\ k.queue = <<>>
    BY <2>3
  <2>8. <<>> \in Seq(OverlayRequests) /\ <<r>> \o <<>> = <<r>> /\ Append(<<>>, r) = <<r>>
    OBVIOUS
  <2>9. LineOf({r}, <<>>) = <<r>>
    BY <2>8, LineOne
  <2>10. LineOf(k.active, k.queue) = <<r>>
    BY <2>7, <2>9
  <2> HIDE DEF k
  <2> QED
    BY <2>5, <2>6, <2>8, <2>10 DEF k
<1>5. CASE s.active # {}
  <2>1. k = w
    BY <1>1, <1>5 DEF OverlayPumped
  <2>2. Line(k, a)
    BY <1>1, <1>2, <1>5, <2>1 DEF Line
  <2>3. PICK z \in s.active : TRUE
    BY <1>5
  <2>4. /\ LineOf(s.active, s.queue) = <<z>> \o s.queue
        /\ LineOf(k.active, k.queue) = <<z>> \o Append(s.queue, r)
    <3>1. k.active = s.active /\ k.queue = Append(s.queue, r)
      BY <1>1, <2>1
    <3>2. \A t \in s.active : t = z
      BY <2>3 DEF Line
    <3>3. s.active = {z} /\ z \in OverlayRequests
      BY <2>3, <3>2 DEF Line
    <3> QED
      BY <1>2, <3>1, <3>3, LineOne
  <2>5. z \in OverlayRequests
    BY <2>3 DEF Line
  <2>6. <<z>> \o Append(s.queue, r) = Append(<<z>> \o s.queue, r)
    BY <1>2, <2>5
  <2> QED
    BY <2>2, <2>4, <2>6
<1> QED
  BY <1>4, <1>5

\* The request at the worker leaves the line, and the next is posted.
LEMMA LineAnswered ==
    ASSUME active \subseteq OverlayRequests, \A r, t \in active : r = t, active # {},
           queue \in Seq(OverlayRequests)
    PROVE  /\ Line(OverlayAnswered, {})
           /\ LineOf(OverlayAnswered.active, OverlayAnswered.queue) = Tail(LineOf(active, queue))
<1> DEFINE k == OverlayAnswered
           w == [active |-> {}, queue |-> queue, post |-> <<>>]
<1>1. k = OverlayPumped(w)
  <2>1. ASSUME NEW x PROVE [OverlayLine EXCEPT !.active = x]
                               = [active |-> x, queue |-> queue, post |-> <<>>]
    BY DEF OverlayLine
  <2>2. [OverlayLine EXCEPT !.active = {}] = w
    BY <2>1
  <2> QED
    BY <2>2 DEF OverlayAnswered
<1>2. Tail(LineOf(active, queue)) = queue
  BY LineParts
<1>3. CASE queue = <<>>
  <2>1. k = w
    BY <1>1, <1>3 DEF OverlayPumped
  <2> QED
    BY <1>2, <1>3, <2>1 DEF Line, LineOf
<1>4. CASE queue # <<>>
  <2> DEFINE r == Head(queue)
  <2>1. k = [active |-> {r}, queue |-> Tail(queue), post |-> Append(<<>>, [type |-> "sql", req |-> r])]
    BY <1>1, <1>4 DEF OverlayPumped
  <2>2. r \in OverlayRequests /\ Tail(queue) \in Seq(OverlayRequests) /\ <<r>> \o Tail(queue) = queue
    BY <1>4
  <2>3. Append(<<>>, [type |-> "sql", req |-> r]) = <<[type |-> "sql", req |-> r]>>
    OBVIOUS
  <2> HIDE DEF r
  <2>4. Line(k, {})
    BY <2>1, <2>2, <2>3 DEF Line
  <2>5. LineOf(k.active, k.queue) = <<r>> \o Tail(queue)
    <3>1. k.active = {r} /\ k.queue = Tail(queue)
      BY <2>1
    <3>2. LineOf({r}, Tail(queue)) = <<r>> \o Tail(queue)
      BY <2>2, LineOne
    <3> QED
      BY <3>1, <3>2
  <2> QED
    BY <1>2, <2>2, <2>4, <2>5
<1> QED
  BY <1>3, <1>4

\* What a change of the line posts is the message of the request at the worker.
LEMMA LinePosted ==
    ASSUME NEW te \in Seq(ToEngine), NEW fe, NEW s, NEW a, Line(s, a), SqlWired(te, fe, a),
           NEW one \in BOOLEAN, Carries({"frame"}, te, fe, one)
    PROVE  /\ te \o s.post \in Seq(ToEngine)
           /\ SqlWired(te \o s.post, fe, s.active)
           /\ Carries({"frame"}, te \o s.post, fe, one)
<1>1. CASE s.post = <<>> /\ s.active = a
  <2>1. te \o s.post = te
    BY <1>1
  <2> QED
    BY <1>1, <2>1
<1>2. CASE ~(s.post = <<>> /\ s.active = a)
  <2>1. PICK r \in OverlayRequests : a = {} /\ s.active = {r} /\ s.post = <<[type |-> "sql", req |-> r]>>
    BY <1>2 DEF Line
  <2> DEFINE m == [type |-> "sql", req |-> r]
  <2>2. m \in ToEngine /\ m.type = "sql" /\ m.req = r
    BY DEF ToEngine
  <2> HIDE DEF m
  <2>3. s.post = <<m>>
    BY <2>1 DEF m
  <2>4. te \o s.post = Append(te, m)
    BY <2>2, <2>3
  <2>5. Append(te, m) \in Seq(ToEngine)
    BY <2>2
  <2>6. Carries({"frame"}, Append(te, m), fe, one)
    <3>1. one = (one \/ m.type \in {"frame"})
      BY <2>2
    <3>2. m.type \in {"frame"} => ~one
      BY <2>2
    <3>3. Carries({"frame"}, Append(te, m), fe, one \/ m.type \in {"frame"})
      BY <2>2, <3>2, CarriesSent
    <3> QED
      BY <3>1, <3>3
  <2>7. Carries(Sql, te, fe, FALSE)
    BY <2>1 DEF SqlWired
  <2>8. Carries(Sql, Append(te, m), fe, TRUE)
    <3>1. m.type \in Sql => ~FALSE
      OBVIOUS
    <3>2. TRUE = (FALSE \/ m.type \in Sql)
      BY <2>2 DEF Sql
    <3>3. Carries(Sql, Append(te, m), fe, FALSE \/ m.type \in Sql)
      BY <2>2, <2>7, <3>1, CarriesSent
    <3> QED
      BY <3>2, <3>3
  <2>9. PlacesOf({"sql"}, te) = {} /\ PlacesOf({"done", "error"}, fe) = {}
    BY <2>7 DEF Carries, PlacesOf, Sql
  <2>10. PlacesOf({"sql"}, Append(te, m)) = {Len(te) + 1} /\ Append(te, m)[Len(te) + 1] = m
    BY <2>2, <2>9, PlacesAppended, SeqAppended
  <2>11. s.active = {r} /\ (s.active # {}) = TRUE
    BY <2>1
  <2> QED
    BY <2>2, <2>4, <2>5, <2>6, <2>8, <2>9, <2>10, <2>11 DEF SqlWired
<1> QED
  BY <1>1, <1>2

-----------------------------------------------------------------------------
(* Chains of requests.                                                     *)

\* A request has a number to ask yet, at most as many as a new one.
LEMMA ToAskIsNat ==
    ASSUME NEW r \in OverlayRequests
    PROVE  /\ ToAsk(r) \in Nat
           /\ r.what = "chat" => ToAsk(r) = r.left /\ ToAsk(r) <= ChatQueries - 1
           /\ r.what = "a" => ToAsk(r) = 1
           /\ r.what = "b" => ToAsk(r) = 0
<1>1. r.what \in {"chat", "a", "b"} /\ r.left \in 0 .. ChatQueries - 1 /\ ChatQueries \in Nat \ {0}
  BY OverlayConstants DEF OverlayRequests
<1>2. CASE r.what = "chat"
  BY <1>1, <1>2 DEF ToAsk
<1>3. CASE r.what = "a"
  BY <1>3 DEF ToAsk
<1>4. CASE r.what = "b"
  BY <1>4 DEF ToAsk
<1> QED
  BY <1>1, <1>2, <1>3, <1>4

\* A request that has as much to ask as any is the newest of its kind.
LEMMA NewestAsked ==
    ASSUME NEW l \in Seq(OverlayRequests), NEW r \in OverlayRequests, NEW K, r.what \in K,
           \A i \in DOMAIN l : l[i].what \in K => ToAsk(l[i]) <= ToAsk(r)
    PROVE  NewestOf(Append(l, r), K, Len(l) + 1) /\ Append(l, r)[Len(l) + 1] = r
<1> DEFINE n == Len(l) + 1
           k == Append(l, r)
<1>1. /\ DOMAIN k = DOMAIN l \cup {n} /\ k[n] = r /\ n \in Nat
      /\ \A i \in DOMAIN l : k[i] = l[i] /\ i < n /\ l[i] \in OverlayRequests
  BY SeqAppended, SeqParts
<1> HIDE DEF n, k
<1>2. ASSUME NEW i \in DOMAIN k, k[i].what \in K
      PROVE  ToAsk(k[i]) < ToAsk(k[n]) \/ (ToAsk(k[i]) = ToAsk(k[n]) /\ i <= n)
  <2>1. CASE i = n
    BY <1>1, <2>1
  <2>2. CASE i \in DOMAIN l
    <3>1. k[i] = l[i] /\ i < n /\ l[i] \in OverlayRequests /\ ToAsk(l[i]) <= ToAsk(r)
      BY <1>1, <1>2, <2>2
    <3>2. ToAsk(l[i]) \in Nat /\ ToAsk(r) \in Nat
      BY <3>1, ToAskIsNat
    <3>3. i <= n
      BY <1>1, <2>2, SeqParts
    <3> QED
      BY <1>1, <3>1, <3>2, <3>3
  <2> QED
    BY <1>1, <2>1, <2>2
<1>3. NewestOf(k, K, n) /\ k[n] = r
  BY <1>1, <1>2 DEF NewestOf
<1> QED
  BY <1>3 DEF k, n

\* One with less to ask, or of another kind, leaves the newest what it is.
LEMMA NewestKept ==
    ASSUME NEW l \in Seq(OverlayRequests), NEW r \in OverlayRequests, NEW K, NEW n, NewestOf(l, K, n),
           r.what \in K => ToAsk(r) < ToAsk(l[n])
    PROVE  NewestOf(Append(l, r), K, n) /\ Append(l, r)[n] = l[n]
<1> DEFINE k == Append(l, r)
<1>1. /\ DOMAIN k = DOMAIN l \cup {Len(l) + 1} /\ k[Len(l) + 1] = r
      /\ \A i \in DOMAIN l : k[i] = l[i]
  BY SeqAppended
<1> HIDE DEF k
<1>2. NewestOf(k, K, n) /\ k[n] = l[n]
  BY <1>1 DEF NewestOf
<1> QED
  BY <1>2 DEF k

\* The head of the line leaves: the newest moves up, unless it is the one, which
\* has more to ask than any other of its kind.
LEMMA NewestLeft ==
    ASSUME NEW l \in Seq(OverlayRequests), l # <<>>, NEW K, NEW n, NewestOf(l, K, n)
    PROVE  /\ n # 1 => NewestOf(Tail(l), K, n - 1) /\ Tail(l)[n - 1] = l[n]
           /\ n = 1 => /\ Head(l) = l[n] /\ Head(l).what \in K
                       /\ \A i \in DOMAIN Tail(l) : Tail(l)[i].what \in K =>
                              ToAsk(Tail(l)[i]) < ToAsk(Head(l))
           /\ Head(l).what \in K => ToAsk(Head(l)) <= ToAsk(l[n])
<1> DEFINE k == Tail(l)
<1>1. /\ DOMAIN l = 1 .. Len(l) /\ Len(l) \in Nat /\ Len(l) >= 1 /\ Head(l) = l[1]
      /\ DOMAIN k = 1 .. Len(l) - 1 /\ \A i \in DOMAIN k : k[i] = l[i + 1]
  BY SeqParts
<1>2. \A i \in DOMAIN l : l[i] \in OverlayRequests
  BY SeqParts
<1>3. /\ n \in DOMAIN l /\ l[n].what \in K
      /\ \A i \in DOMAIN l : l[i].what \in K =>
            ToAsk(l[i]) < ToAsk(l[n]) \/ (ToAsk(l[i]) = ToAsk(l[n]) /\ i <= n)
  BY DEF NewestOf
<1>4. \A i \in DOMAIN l : ToAsk(l[i]) \in Nat
  BY <1>2, ToAskIsNat
<1> HIDE DEF k
<1>5. ASSUME n # 1 PROVE NewestOf(k, K, n - 1) /\ k[n - 1] = l[n]
  <2>1. n - 1 \in DOMAIN k /\ k[n - 1] = l[n]
    BY <1>1, <1>3, <1>5
  <2>2. ASSUME NEW i \in DOMAIN k, k[i].what \in K
        PROVE  ToAsk(k[i]) < ToAsk(k[n - 1]) \/ (ToAsk(k[i]) = ToAsk(k[n - 1]) /\ i <= n - 1)
    <3>1. k[i] = l[i + 1] /\ i + 1 \in DOMAIN l /\ i \in Nat /\ n \in Nat
      BY <1>1, <1>3
    <3>2. ToAsk(l[i + 1]) < ToAsk(l[n]) \/ (ToAsk(l[i + 1]) = ToAsk(l[n]) /\ i + 1 <= n)
      BY <1>3, <2>2, <3>1
    <3> QED
      BY <2>1, <3>1, <3>2
  <2> QED
    BY <1>3, <2>1, <2>2 DEF NewestOf
<1>6. ASSUME n = 1
      PROVE  /\ Head(l) = l[n] /\ Head(l).what \in K
             /\ \A i \in DOMAIN k : k[i].what \in K => ToAsk(k[i]) < ToAsk(Head(l))
  <2>1. Head(l) = l[n] /\ Head(l).what \in K
    BY <1>1, <1>3, <1>6
  <2>2. ASSUME NEW i \in DOMAIN k, k[i].what \in K PROVE ToAsk(k[i]) < ToAsk(Head(l))
    <3>1. k[i] = l[i + 1] /\ i + 1 \in DOMAIN l /\ ~(i + 1 <= n)
      BY <1>1, <1>6
    <3> QED
      BY <1>3, <2>1, <2>2, <3>1
  <2> QED
    BY <2>1, <2>2
<1>7. ASSUME Head(l).what \in K PROVE ToAsk(Head(l)) <= ToAsk(l[n])
  <2>1. 1 \in DOMAIN l
    BY <1>1
  <2>2. ToAsk(l[1]) < ToAsk(l[n]) \/ ToAsk(l[1]) = ToAsk(l[n])
    BY <1>1, <1>3, <1>7, <2>1
  <2>3. ToAsk(l[1]) \in Nat /\ ToAsk(l[n]) \in Nat
    BY <1>3, <1>4, <2>1
  <2> QED
    BY <1>1, <2>2, <2>3
<1> QED
  BY <1>5, <1>6, <1>7 DEF k

\* None joins or leaves, if none of a kind is there.
LEMMA NoneStays ==
    ASSUME NEW l \in Seq(OverlayRequests), NEW K, NoneOf(l, K)
    PROVE  /\ \A r \in OverlayRequests : r.what \notin K => NoneOf(Append(l, r), K)
           /\ l # <<>> => NoneOf(Tail(l), K) /\ Head(l).what \notin K
<1>1. ASSUME NEW r \in OverlayRequests, r.what \notin K PROVE NoneOf(Append(l, r), K)
  BY <1>1, SeqAppended DEF NoneOf
<1>2. ASSUME l # <<>> PROVE NoneOf(Tail(l), K) /\ Head(l).what \notin K
  <2>1. /\ DOMAIN l = 1 .. Len(l) /\ Len(l) \in Nat /\ Len(l) >= 1 /\ Head(l) = l[1]
        /\ DOMAIN Tail(l) = 1 .. Len(l) - 1 /\ \A i \in DOMAIN Tail(l) : Tail(l)[i] = l[i + 1]
    BY <1>2, SeqParts
  <2>2. \A i \in DOMAIN Tail(l) : i + 1 \in DOMAIN l
    BY <2>1
  <2>3. 1 \in DOMAIN l
    BY <2>1
  <2> QED
    BY <2>1, <2>2, <2>3 DEF NoneOf
<1> QED
  BY <1>1, <1>2

-----------------------------------------------------------------------------
(* What the newest chain ends with.                                        *)

\* A chat that is asked for is the newest; another request changes nothing.
LEMMA ChatAskedFor ==
    ASSUME NEW l \in Seq(OverlayRequests), NEW r \in OverlayRequests, NEW shows, NEW R,
           \/ r.what = "chat" /\ r.left = ChatQueries - 1 /\ r.rows \subseteq R
           \/ r.what # "chat" /\ ChatSettles(l, shows, R)
    PROVE  ChatSettles(Append(l, r), shows, R)
<1> DEFINE K == {"chat"}
<1>1. CASE r.what = "chat"
  <2>1. ToAsk(r) = ChatQueries - 1
    BY <1>1, ToAskIsNat
  <2>2. ASSUME NEW i \in DOMAIN l, l[i].what \in K PROVE ToAsk(l[i]) <= ToAsk(r)
    <3>1. l[i] \in OverlayRequests
      BY SeqParts
    <3> QED
      BY <2>1, <2>2, <3>1, ToAskIsNat
  <2>3. NewestOf(Append(l, r), K, Len(l) + 1) /\ Append(l, r)[Len(l) + 1] = r
    BY <1>1, <2>2, NewestAsked
  <2>4. Len(l) + 1 \in DOMAIN Append(l, r)
    BY SeqAppended
  <2> QED
    BY <1>1, <2>3, <2>4 DEF ChatSettles
<1>2. CASE r.what # "chat"
  <2>1. CASE NoneOf(l, K) /\ shows = R
    <3>1. NoneOf(Append(l, r), K)
      BY <1>2, <2>1, NoneStays
    <3> QED
      BY <2>1, <3>1 DEF ChatSettles
  <2>2. CASE ~(NoneOf(l, K) /\ shows = R)
    <3>1. PICK n \in DOMAIN l : NewestOf(l, K, n) /\ l[n].rows \subseteq R
      BY <1>2, <2>2 DEF ChatSettles
    <3>2. NewestOf(Append(l, r), K, n) /\ Append(l, r)[n] = l[n]
      BY <1>2, <3>1, NewestKept
    <3>3. n \in DOMAIN Append(l, r)
      BY <3>2 DEF NewestOf
    <3> QED
      BY <3>1, <3>2, <3>3 DEF ChatSettles
  <2> QED
    BY <2>1, <2>2
<1> QED
  BY <1>1, <1>2

\* An answer with the right rows brings the newest chain nearer to its end.
LEMMA ChatAnswered ==
    ASSUME NEW l \in Seq(OverlayRequests), l # <<>>, NEW shows, NEW R, ChatSettles(l, shows, R),
           NEW got, Head(l).what = "chat" => got = Head(l).rows \cup R
    PROVE  /\ Head(l).what # "chat" => ChatSettles(Tail(l), shows, R)
           /\ Head(l).what = "chat" /\ Head(l).left = 0 => ChatSettles(Tail(l), got, R)
           /\ \A r \in OverlayRequests :
                 (Head(l).what = "chat" /\ Head(l).left > 0 /\ r.what = "chat"
                    /\ r.left = Head(l).left - 1 /\ r.rows = got)
                 => ChatSettles(Append(Tail(l), r), shows, R)
<1> DEFINE K == {"chat"}
           h == Head(l)
           t == Tail(l)
<1>1. h \in OverlayRequests /\ t \in Seq(OverlayRequests)
  BY SeqParts
<1>2. h.what \in {"chat", "a", "b"} /\ h.left \in Nat
  <2>1. h.left \in 0 .. ChatQueries - 1 /\ ChatQueries \in Nat \ {0}
    BY <1>1, OverlayConstants DEF OverlayRequests
  <2> QED
    BY <1>1, <2>1 DEF OverlayRequests
<1>3. CASE NoneOf(l, K) /\ shows = R
  <2>1. NoneOf(t, K) /\ h.what \notin K
    BY <1>3, NoneStays
  <2>2. ChatSettles(t, shows, R)
    BY <1>3, <2>1 DEF ChatSettles
  <2>3. h.what # "chat"
    BY <2>1
  <2> QED
    BY <2>2, <2>3
<1>4. CASE ~(NoneOf(l, K) /\ shows = R)
  <2>1. PICK n \in DOMAIN l : NewestOf(l, K, n) /\ l[n].rows \subseteq R
    BY <1>4 DEF ChatSettles
  <2>2. /\ n # 1 => NewestOf(t, K, n - 1) /\ t[n - 1] = l[n]
        /\ n = 1 => /\ h = l[n] /\ h.what \in K
                    /\ \A i \in DOMAIN t : t[i].what \in K => ToAsk(t[i]) < ToAsk(h)
        /\ h.what \in K => ToAsk(h) <= ToAsk(l[n])
    BY <2>1, NewestLeft
  <2> HIDE DEF h, t
  <2>3. CASE n # 1
    <3>1. NewestOf(t, K, n - 1) /\ t[n - 1] = l[n]
      BY <2>2, <2>3
    <3>2. n - 1 \in DOMAIN t
      BY <3>1 DEF NewestOf
    <3>3. \A s : ChatSettles(t, s, R)
      BY <2>1, <3>1, <3>2 DEF ChatSettles
    <3>4. ASSUME NEW r \in OverlayRequests, h.what = "chat", h.left > 0, r.what = "chat",
                 r.left = h.left - 1
          PROVE  ChatSettles(Append(t, r), shows, R)
      <4>1. ToAsk(h) = h.left /\ ToAsk(r) = h.left - 1 /\ ToAsk(h) <= ToAsk(l[n])
        BY <1>1, <2>2, <3>4, ToAskIsNat
      <4>2. l[n] \in OverlayRequests
        BY <2>1, SeqParts
      <4>3. ToAsk(l[n]) \in Nat
        BY <4>2, ToAskIsNat
      <4>4. ToAsk(r) < ToAsk(t[n - 1])
        BY <1>2, <3>1, <4>1, <4>3
      <4>5. NewestOf(Append(t, r), K, n - 1) /\ Append(t, r)[n - 1] = t[n - 1]
        BY <1>1, <3>1, <4>4, NewestKept
      <4>6. n - 1 \in DOMAIN Append(t, r)
        BY <4>5 DEF NewestOf
      <4> QED
        BY <2>1, <3>1, <4>5, <4>6 DEF ChatSettles
    <3>5. ChatSettles(Tail(l), shows, R) /\ ChatSettles(Tail(l), got, R)
      BY <3>3 DEF t
    <3>6. \A r \in OverlayRequests :
             Head(l).what = "chat" /\ Head(l).left > 0 /\ r.what = "chat" /\ r.left = Head(l).left - 1
             => ChatSettles(Append(Tail(l), r), shows, R)
      BY <3>4 DEF h, t
    <3> QED
      BY <3>5, <3>6
  <2>4. CASE n = 1
    <3>1. /\ h = l[n] /\ h.what = "chat" /\ h.rows \subseteq R
          /\ \A i \in DOMAIN t : t[i].what \in K => ToAsk(t[i]) < ToAsk(h)
      BY <2>1, <2>2, <2>4
    <3>2. got = R
      BY <3>1 DEF h
    <3>3. ToAsk(h) = h.left
      BY <1>1, <3>1, ToAskIsNat
    <3>4. ASSUME NEW i \in DOMAIN t, t[i].what \in K PROVE ToAsk(t[i]) < h.left /\ ToAsk(t[i]) \in Nat
      <4>1. t[i] \in OverlayRequests
        BY <1>1, SeqParts
      <4> QED
        BY <3>1, <3>3, <3>4, <4>1, ToAskIsNat
    <3>5. ASSUME h.left = 0 PROVE ChatSettles(t, got, R)
      <4>1. NoneOf(t, K)
        BY <3>4, <3>5 DEF NoneOf
      <4> QED
        BY <3>2, <4>1 DEF ChatSettles
    <3>6. ASSUME NEW r \in OverlayRequests, h.left > 0, r.what = "chat", r.left = h.left - 1, r.rows = got
          PROVE  ChatSettles(Append(t, r), shows, R)
      <4>1. ToAsk(r) = h.left - 1
        BY <3>6, ToAskIsNat
      <4>2. \A i \in DOMAIN t : t[i].what \in K => ToAsk(t[i]) <= ToAsk(r)
        BY <1>2, <3>4, <4>1
      <4>3. NewestOf(Append(t, r), K, Len(t) + 1) /\ Append(t, r)[Len(t) + 1] = r
        BY <1>1, <3>6, <4>2, NewestAsked
      <4>4. Len(t) + 1 \in DOMAIN Append(t, r)
        BY <1>1, SeqAppended
      <4> QED
        BY <3>2, <3>6, <4>3, <4>4 DEF ChatSettles
    <3>7. Head(l).what = "chat" /\ (Head(l).left = 0 => ChatSettles(Tail(l), got, R))
      BY <3>1, <3>5 DEF h, t
    <3>8. \A r \in OverlayRequests :
             Head(l).left > 0 /\ r.what = "chat" /\ r.left = Head(l).left - 1 /\ r.rows = got
             => ChatSettles(Append(Tail(l), r), shows, R)
      BY <3>6 DEF h, t
    <3> QED
      BY <3>7, <3>8
  <2> QED
    BY <2>3, <2>4
<1> QED
  BY <1>3, <1>4

\* The same for the symbols: a request for a is the newest, and one for chat
\* changes nothing.
LEMMA SymbolsAskedFor ==
    ASSUME NEW l \in Seq(OverlayRequests), NEW r \in OverlayRequests, NEW y, NEW R,
           \/ r.what = "a"
           \/ r.what = "chat" /\ SymbolsSettle(l, y, R)
    PROVE  SymbolsSettle(Append(l, r), y, R)
<1> DEFINE K == {"a", "b"}
<1>1. CASE r.what = "a"
  <2>1. ToAsk(r) = 1
    BY <1>1, ToAskIsNat
  <2>2. ASSUME NEW i \in DOMAIN l, l[i].what \in K PROVE ToAsk(l[i]) <= ToAsk(r)
    <3>1. l[i] \in OverlayRequests
      BY SeqParts
    <3> QED
      BY <2>1, <2>2, <3>1, ToAskIsNat
  <2>3. NewestOf(Append(l, r), K, Len(l) + 1) /\ Append(l, r)[Len(l) + 1] = r
    BY <1>1, <2>2, NewestAsked
  <2>4. Len(l) + 1 \in DOMAIN Append(l, r)
    BY SeqAppended
  <2> QED
    BY <1>1, <2>3, <2>4 DEF SymbolsSettle
<1>2. CASE r.what = "chat" /\ SymbolsSettle(l, y, R)
  <2>1. CASE NoneOf(l, K) /\ y.a = R /\ y.b = R
    <3>1. NoneOf(Append(l, r), K)
      BY <1>2, <2>1, NoneStays
    <3> QED
      BY <2>1, <3>1 DEF SymbolsSettle
  <2>2. CASE ~(NoneOf(l, K) /\ y.a = R /\ y.b = R)
    <3>1. PICK n \in DOMAIN l : NewestOf(l, K, n) /\ (l[n].what = "b" => y.a = R)
      BY <1>2, <2>2 DEF SymbolsSettle
    <3>2. NewestOf(Append(l, r), K, n) /\ Append(l, r)[n] = l[n]
      BY <1>2, <3>1, NewestKept
    <3>3. n \in DOMAIN Append(l, r)
      BY <3>2 DEF NewestOf
    <3> QED
      BY <3>1, <3>2, <3>3 DEF SymbolsSettle
  <2> QED
    BY <2>1, <2>2
<1> QED
  BY <1>1, <1>2

\* ... and the rows a and b are right once their newest request is answered.
LEMMA SymbolsAnswered ==
    ASSUME NEW l \in Seq(OverlayRequests), l # <<>>, NEW y, NEW z, NEW R, SymbolsSettle(l, y, R),
           Head(l).what = "chat" => z.a = y.a /\ z.b = y.b,
           Head(l).what = "a" => z.a = R /\ z.b = y.b,
           Head(l).what = "b" => z.a = y.a /\ z.b = R
    PROVE  /\ Head(l).what # "a" => SymbolsSettle(Tail(l), z, R)
           /\ \A r \in OverlayRequests :
                 Head(l).what = "a" /\ r.what = "b" => SymbolsSettle(Append(Tail(l), r), z, R)
<1> DEFINE K == {"a", "b"}
           h == Head(l)
           t == Tail(l)
<1>1. h \in OverlayRequests /\ t \in Seq(OverlayRequests)
  BY SeqParts
<1>2. h.what \in {"chat", "a", "b"}
  BY <1>1 DEF OverlayRequests
<1>3. CASE NoneOf(l, K) /\ y.a = R /\ y.b = R
  <2>1. NoneOf(t, K) /\ h.what = "chat"
    BY <1>2, <1>3, NoneStays
  <2> QED
    BY <1>3, <2>1 DEF SymbolsSettle
<1>4. CASE ~(NoneOf(l, K) /\ y.a = R /\ y.b = R)
  <2>1. PICK n \in DOMAIN l : NewestOf(l, K, n) /\ (l[n].what = "b" => y.a = R)
    BY <1>4 DEF SymbolsSettle
  <2>2. /\ n # 1 => NewestOf(t, K, n - 1) /\ t[n - 1] = l[n]
        /\ n = 1 => /\ h = l[n] /\ h.what \in K
                    /\ \A i \in DOMAIN t : t[i].what \in K => ToAsk(t[i]) < ToAsk(h)
        /\ h.what \in K => ToAsk(h) <= ToAsk(l[n])
    BY <2>1, NewestLeft
  <2>3. l[n] \in OverlayRequests /\ l[n].what \in K
    BY <2>1, SeqParts DEF NewestOf
  <2>4. l[n].what = "b" => z.a = R
    BY <1>2, <2>1
  <2> HIDE DEF h, t
  <2>5. CASE n # 1
    <3>1. NewestOf(t, K, n - 1) /\ t[n - 1] = l[n]
      BY <2>2, <2>5
    <3>2. n - 1 \in DOMAIN t
      BY <3>1 DEF NewestOf
    <3>3. SymbolsSettle(t, z, R)
      BY <2>4, <3>1, <3>2 DEF SymbolsSettle
    <3>4. ASSUME NEW r \in OverlayRequests, h.what = "a", r.what = "b"
          PROVE  SymbolsSettle(Append(t, r), z, R)
      <4>1. ToAsk(h) = 1 /\ ToAsk(r) = 0 /\ ToAsk(h) <= ToAsk(l[n])
        BY <1>1, <2>2, <3>4, ToAskIsNat
      <4>2. ToAsk(l[n]) \in Nat
        BY <2>3, ToAskIsNat
      <4>3. ToAsk(r) < ToAsk(t[n - 1])
        BY <3>1, <4>1, <4>2
      <4>4. NewestOf(Append(t, r), K, n - 1) /\ Append(t, r)[n - 1] = t[n - 1]
        BY <1>1, <3>1, <4>3, NewestKept
      <4>5. n - 1 \in DOMAIN Append(t, r)
        BY <4>4 DEF NewestOf
      <4> QED
        BY <2>4, <3>1, <4>4, <4>5 DEF SymbolsSettle
    <3> QED
      BY <3>3, <3>4 DEF h, t
  <2>6. CASE n = 1
    <3>1. /\ h = l[n] /\ h.what \in K
          /\ \A i \in DOMAIN t : t[i].what \in K => ToAsk(t[i]) < ToAsk(h)
      BY <2>2, <2>6
    <3>2. ASSUME NEW i \in DOMAIN t, t[i].what \in K PROVE ToAsk(t[i]) < ToAsk(h) /\ ToAsk(t[i]) \in Nat
      <4>1. t[i] \in OverlayRequests
        BY <1>1, SeqParts
      <4> QED
        BY <3>1, <3>2, <4>1, ToAskIsNat
    <3>3. CASE h.what = "b"
      <4>1. ToAsk(h) = 0
        BY <1>1, <3>3, ToAskIsNat
      <4>2. NoneOf(t, K)
        BY <3>2, <4>1 DEF NoneOf
      <4>3. z.a = R /\ z.b = R
        BY <2>4, <3>1, <3>3 DEF h
      <4> QED
        BY <3>3, <4>2, <4>3 DEF SymbolsSettle, h, t
    <3>4. CASE h.what = "a"
      <4>1. ToAsk(h) = 1
        BY <1>1, <3>4, ToAskIsNat
      <4>2. ASSUME NEW r \in OverlayRequests, r.what = "b" PROVE SymbolsSettle(Append(t, r), z, R)
        <5>1. ToAsk(r) = 0
          BY <4>2, ToAskIsNat
        <5>2. \A i \in DOMAIN t : t[i].what \in K => ToAsk(t[i]) <= ToAsk(r)
          BY <3>2, <4>1, <5>1
        <5>3. NewestOf(Append(t, r), K, Len(t) + 1) /\ Append(t, r)[Len(t) + 1] = r
          BY <1>1, <4>2, <5>2, NewestAsked
        <5>4. Len(t) + 1 \in DOMAIN Append(t, r)
          BY <1>1, SeqAppended
        <5>5. z.a = R
          BY <3>4 DEF h
        <5> QED
          BY <5>3, <5>4, <5>5 DEF SymbolsSettle
      <4> QED
        BY <3>4, <4>2 DEF h, t
    <3> QED
      BY <3>1, <3>3, <3>4
  <2> QED
    BY <2>5, <2>6
<1> QED
  BY <1>3, <1>4

-----------------------------------------------------------------------------
(* What the queues say of each other.                                      *)

\* What a message carries.
LEMMA MessageParts ==
    /\ \A m \in ToEngine : /\ m.type \in {"frame", "sql", "revert"}
                           /\ m.type = "frame" => m.at \in Places
                           /\ m.type = "sql" => m.req \in OverlayRequests
    /\ \A m \in FromEngine : /\ m.type \in {"frame", "error", "done", "reverted"}
                             /\ m.type = "frame" => m.at \in Places
                             /\ m.type \in {"done", "error"} => m.req \in OverlayRequests
                             /\ m.type = "done" => m.rows \in SqlRows
<1>1. ASSUME NEW m \in ToEngine
      PROVE  /\ m.type \in {"frame", "sql", "revert"}
             /\ m.type = "frame" => m.at \in Places
             /\ m.type = "sql" => m.req \in OverlayRequests
  BY DEF ToEngine
<1>2. ASSUME NEW m \in FromEngine
      PROVE  /\ m.type \in {"frame", "error", "done", "reverted"}
             /\ m.type = "frame" => m.at \in Places
             /\ m.type \in {"done", "error"} => m.req \in OverlayRequests
             /\ m.type = "done" => m.rows \in SqlRows
  BY DEF FromEngine
<1> QED
  BY <1>1, <1>2

\* The answer to a message is told of what the worker is at then.
LEMMA AtAppended ==
    ASSUME NEW q \in Seq(FromEngine), NEW m \in FromEngine, NEW v, NEW here,
           IF m.type = "frame" THEN PlacesOf({"frame"}, q) = {} /\ here = m.at ELSE AtTold(q, v, here)
    PROVE  AtTold(Append(q, m), v, here)
<1> DEFINE k == Append(q, m)
           n == Len(q) + 1
<1>1. /\ k[n] = m /\ \A i \in DOMAIN q : k[i] = q[i]
      /\ PlacesOf({"frame"}, k) = PlacesOf({"frame"}, q) \cup (IF m.type \in {"frame"} THEN {n} ELSE {})
  BY SeqAppended, PlacesAppended
<1> HIDE DEF k, n
<1>2. CASE m.type = "frame"
  <2>1. PlacesOf({"frame"}, k) = {n}
    BY <1>1, <1>2
  <2>2. AtTold(k, v, here)
    BY <1>1, <1>2, <2>1 DEF AtTold
  <2> QED
    BY <2>2 DEF k
<1>3. CASE m.type # "frame"
  <2>1. PlacesOf({"frame"}, k) = PlacesOf({"frame"}, q)
    BY <1>1, <1>3
  <2>2. \A i \in PlacesOf({"frame"}, q) : k[i] = q[i]
    BY <1>1 DEF PlacesOf
  <2>3. AtTold(k, v, here)
    BY <1>3, <2>1, <2>2 DEF AtTold
  <2> QED
    BY <2>3 DEF k
<1> QED
  BY <1>2, <1>3

\* A frame is of what the worker is at, and then that is pictured.
LEMMA AtRead ==
    ASSUME NEW q \in Seq(FromEngine), q # <<>>, NEW v, NEW here, AtTold(q, v, here),
           Head(q).type = "frame" => PlacesOf({"frame"}, Tail(q)) = {}
    PROVE  /\ AtTold(Tail(q), IF Head(q).type = "frame" THEN Head(q).at ELSE v, here)
           /\ Head(q).type = "frame" => Head(q).at = here
<1> DEFINE t == Tail(q)
           F == {"frame"}
<1>1. /\ Head(q) = q[1] /\ \A i \in DOMAIN t : t[i] = q[i + 1]
  BY SeqParts
<1>2. /\ \A i \in PlacesOf(F, t) : i \in Nat /\ i + 1 \in PlacesOf(F, q)
      /\ \A i \in PlacesOf(F, q) : i = 1 \/ i - 1 \in PlacesOf(F, t)
      /\ 1 \in PlacesOf(F, q) <=> Head(q).type \in F
  BY PlacesTail
<1>3. PlacesOf(F, t) \subseteq DOMAIN t
  BY DEF PlacesOf
<1> HIDE DEF t
<1>4. \A i \in PlacesOf(F, t) : t[i].at = here
  BY <1>1, <1>2, <1>3 DEF AtTold
<1>5. CASE Head(q).type = "frame"
  <2>1. Head(q).at = here
    BY <1>1, <1>2, <1>5 DEF AtTold
  <2> QED
    BY <1>4, <1>5, <2>1 DEF AtTold, t
<1>6. CASE Head(q).type # "frame"
  <2>1. PlacesOf(F, t) = {} => PlacesOf(F, q) = {}
    BY <1>2, <1>6
  <2>2. AtTold(t, v, here)
    BY <1>4, <2>1 DEF AtTold
  <2> QED
    BY <1>6, <2>2 DEF t
<1> QED
  BY <1>5, <1>6

\* An answer is appended with the rows of where the worker is; a revert makes
\* those before it old, and another message changes none.
LEMMA AnswersAppended ==
    ASSUME NEW q \in Seq(FromEngine), NEW m \in FromEngine, NEW v, NEW here, NEW d, NEW e,
           AnswersTold(q, v, d), AtTold(q, v, here),
           m.type = "done" => m.rows = RowsOf(m.req.what, here, d),
           m.type # "reverted" => e = d
    PROVE  AnswersTold(Append(q, m), v, e)
<1> DEFINE k == Append(q, m)
           n == Len(q) + 1
<1>1. /\ DOMAIN q = 1 .. Len(q) /\ Len(q) \in Nat
      /\ k[n] = m /\ \A i \in DOMAIN q : k[i] = q[i]
  BY SeqParts, SeqAppended
<1>2. \A T : PlacesOf(T, k) = PlacesOf(T, q) \cup (IF m.type \in T THEN {n} ELSE {})
  BY PlacesAppended
<1>3. \A T : PlacesOf(T, q) \subseteq DOMAIN q
  BY DEF PlacesOf
<1>4. \A i \in DOMAIN q : i \in Nat /\ i < n
  BY <1>1
<1> HIDE DEF k
<1>5. SUFFICES ASSUME NEW i \in PlacesOf({"done"}, k),
                      \A j \in PlacesOf({"reverted"}, k) : j < i,
                      NEW p, Pictures(k, v, i, p)
               PROVE  k[i].rows = RowsOf(k[i].req.what, p, e)
  BY DEF AnswersTold, k
<1>6. m.type # "reverted"
  <2> SUFFICES ASSUME m.type = "reverted" PROVE FALSE
    OBVIOUS
  <2>1. n \in PlacesOf({"reverted"}, k) /\ i \in DOMAIN q
    BY <1>2, <1>3, <1>5
  <2>2. n < i /\ i < n /\ i \in Nat /\ n \in Nat
    BY <1>1, <1>4, <1>5, <2>1
  <2> QED
    BY <2>2
<1>7. CASE i \in DOMAIN q
  <2>1. i \in PlacesOf({"done"}, q) /\ k[i] = q[i]
    BY <1>1, <1>5, <1>7 DEF PlacesOf
  <2>2. \A j \in PlacesOf({"reverted"}, q) : j < i
    BY <1>2, <1>5
  <2>3. Pictures(q, v, i, p)
    <3>1. CASE p = v /\ \A j \in PlacesOf({"frame"}, k) : ~(j < i)
      BY <1>2, <3>1 DEF Pictures
    <3>2. CASE \E j \in PlacesOf({"frame"}, k) : j < i /\ k[j].at = p
      <4>1. PICK j \in PlacesOf({"frame"}, k) : j < i /\ k[j].at = p
        BY <3>2
      <4>2. i < n /\ i \in Nat /\ n \in Nat
        BY <1>1, <1>4, <1>7
      <4>3. j # n
        BY <4>1, <4>2
      <4>4. j \in PlacesOf({"frame"}, q)
        BY <1>2, <4>1, <4>3
      <4>5. k[j] = q[j]
        BY <1>1, <1>3, <4>4
      <4> QED
        BY <4>1, <4>4, <4>5 DEF Pictures
    <3> QED
      BY <1>5, <3>1, <3>2 DEF Pictures
  <2> QED
    BY <1>6, <2>1, <2>2, <2>3 DEF AnswersTold
<1>8. CASE i \notin DOMAIN q
  <2>1. i = n /\ m.type = "done" /\ k[i] = m
    BY <1>1, <1>2, <1>3, <1>5, <1>8
  <2>2. PlacesOf({"frame"}, k) = PlacesOf({"frame"}, q)
    BY <1>2, <2>1
  <2>3. \A j \in PlacesOf({"frame"}, q) : j < i /\ k[j] = q[j]
    BY <1>1, <1>3, <1>4, <2>1
  <2>4. p = here
    <3>1. CASE p = v /\ \A j \in PlacesOf({"frame"}, k) : ~(j < i)
      BY <2>2, <2>3, <3>1 DEF AtTold
    <3>2. CASE \E j \in PlacesOf({"frame"}, k) : j < i /\ k[j].at = p
      BY <2>2, <2>3, <3>2 DEF AtTold
    <3> QED
      BY <1>5, <3>1, <3>2 DEF Pictures
  <2> QED
    BY <1>6, <2>1, <2>4
<1> QED
  BY <1>7, <1>8

\* A message is read: the answers behind it are of what is pictured then.
LEMMA AnswersRead ==
    ASSUME NEW q \in Seq(FromEngine), q # <<>>, NEW v, NEW d, AnswersTold(q, v, d),
           Head(q).type = "frame" => PlacesOf({"frame"}, Tail(q)) = {}
    PROVE  /\ AnswersTold(Tail(q), IF Head(q).type = "frame" THEN Head(q).at ELSE v, d)
           /\ Head(q).type = "done" /\ PlacesOf({"reverted"}, q) = {} =>
                 Head(q).rows = RowsOf(Head(q).req.what, v, d)
<1> DEFINE t == Tail(q)
           F == {"frame"}
           w == IF Head(q).type = "frame" THEN Head(q).at ELSE v
<1>1. /\ DOMAIN q = 1 .. Len(q) /\ Len(q) \in Nat /\ Len(q) >= 1 /\ Head(q) = q[1]
      /\ DOMAIN t = 1 .. Len(q) - 1 /\ \A i \in DOMAIN t : t[i] = q[i + 1]
  BY SeqParts
<1>2. \A T : /\ \A i \in PlacesOf(T, t) : i \in Nat /\ i + 1 \in PlacesOf(T, q) /\ i \in DOMAIN t
             /\ \A i \in PlacesOf(T, q) : i = 1 \/ i - 1 \in PlacesOf(T, t)
             /\ 1 \in PlacesOf(T, q) <=> Head(q).type \in T
             /\ \A i \in PlacesOf(T, q) : i \in Nat /\ i >= 1
  <2> TAKE T
  <2>1. /\ \A i \in PlacesOf(T, t) : i \in Nat /\ i + 1 \in PlacesOf(T, q)
        /\ \A i \in PlacesOf(T, q) : i = 1 \/ i - 1 \in PlacesOf(T, t)
        /\ 1 \in PlacesOf(T, q) <=> Head(q).type \in T
        /\ \A i \in PlacesOf(T, q) : i \in Nat /\ i >= 1
    BY PlacesTail
  <2>2. PlacesOf(T, t) \subseteq DOMAIN t
    BY DEF PlacesOf
  <2> QED
    BY <2>1, <2>2
<1> HIDE DEF t, w
<1>3. AnswersTold(t, w, d)
  <2> SUFFICES ASSUME NEW i \in PlacesOf({"done"}, t), \A j \in PlacesOf({"reverted"}, t) : j < i,
                      NEW p, Pictures(t, w, i, p)
               PROVE  t[i].rows = RowsOf(t[i].req.what, p, d)
    BY DEF AnswersTold
  <2>1. i + 1 \in PlacesOf({"done"}, q) /\ t[i] = q[i + 1] /\ i \in Nat /\ i >= 1
    BY <1>1, <1>2
  <2>2. ASSUME NEW j \in PlacesOf({"reverted"}, q) PROVE j < i + 1
    <3>1. j = 1 \/ (j - 1 \in PlacesOf({"reverted"}, t) /\ j \in Nat)
      BY <1>2
    <3> QED
      BY <2>1, <3>1
  <2>3. Pictures(q, v, i + 1, p)
    <3>1. CASE Head(q).type = "frame"
      <4>1. PlacesOf(F, t) = {} /\ w = Head(q).at
        BY <3>1 DEF t, w
      <4>2. p = Head(q).at
        BY <4>1 DEF Pictures
      <4>3. 1 \in PlacesOf(F, q) /\ q[1].at = p /\ 1 < i + 1
        BY <1>1, <1>2, <2>1, <3>1, <4>2
      <4> QED
        BY <4>3 DEF Pictures
    <3>2. CASE Head(q).type # "frame"
      <4>1. w = v /\ 1 \notin PlacesOf(F, q)
        BY <1>2, <3>2 DEF w
      <4>2. CASE p = w /\ \A j \in PlacesOf(F, t) : ~(j < i)
        <5>1. ASSUME NEW j \in PlacesOf(F, q) PROVE ~(j < i + 1)
          <6>1. j - 1 \in PlacesOf(F, t) /\ j \in Nat
            BY <1>2, <4>1
          <6> QED
            BY <2>1, <4>2, <6>1
        <5> QED
          BY <4>1, <4>2, <5>1 DEF Pictures
      <4>3. CASE \E j \in PlacesOf(F, t) : j < i /\ t[j].at = p
        <5>1. PICK j \in PlacesOf(F, t) : j < i /\ t[j].at = p
          BY <4>3
        <5>2. j + 1 \in PlacesOf(F, q) /\ t[j] = q[j + 1] /\ j \in Nat
          BY <1>1, <1>2
        <5>3. j + 1 < i + 1 /\ q[j + 1].at = p
          BY <2>1, <5>1, <5>2
        <5> QED
          BY <5>2, <5>3 DEF Pictures
      <4> QED
        BY <4>2, <4>3 DEF Pictures
    <3> QED
      BY <3>1, <3>2
  <2> QED
    BY <2>1, <2>2, <2>3 DEF AnswersTold
<1>4. ASSUME Head(q).type = "done", PlacesOf({"reverted"}, q) = {}
      PROVE  Head(q).rows = RowsOf(Head(q).req.what, v, d)
  <2>1. 1 \in PlacesOf({"done"}, q)
    BY <1>2, <1>4
  <2>2. \A j \in PlacesOf(F, q) : ~(j < 1)
    BY <1>2
  <2>3. Pictures(q, v, 1, v)
    BY <2>2 DEF Pictures
  <2> QED
    BY <1>1, <1>4, <2>1, <2>3 DEF AnswersTold
<1> QED
  BY <1>3, <1>4 DEF t, w

\* A queue is current with a message more only if it was so without.
LEMMA CurrentBefore ==
    ASSUME NEW q \in Seq(FromEngine), NEW v
    PROVE  /\ \A m \in FromEngine : Current(Append(q, m), v) =>
                 Current(q, v) /\ m.type # "reverted" /\ (m.type = "frame" => m.at = v)
           /\ q # <<>> /\ Current(Tail(q), v) /\ Head(q).type # "reverted"
              /\ (Head(q).type = "frame" => Head(q).at = v) => Current(q, v)
<1>1. ASSUME NEW m \in FromEngine, Current(Append(q, m), v)
      PROVE  Current(q, v) /\ m.type # "reverted" /\ (m.type = "frame" => m.at = v)
  <2> DEFINE k == Append(q, m)
             n == Len(q) + 1
  <2>1. k[n] = m /\ \A i \in DOMAIN q : k[i] = q[i]
    BY SeqAppended
  <2>2. \A T : PlacesOf(T, k) = PlacesOf(T, q) \cup (IF m.type \in T THEN {n} ELSE {})
    BY PlacesAppended
  <2>3. \A T : PlacesOf(T, q) \subseteq DOMAIN q
    BY DEF PlacesOf
  <2>4. Current(k, v)
    BY <1>1
  <2> HIDE DEF k, n
  <2>5. Current(q, v)
    BY <2>1, <2>2, <2>3, <2>4 DEF Current
  <2>6. m.type # "reverted"
    BY <2>2, <2>4 DEF Current
  <2>7. m.type = "frame" => m.at = v
    BY <2>1, <2>2, <2>4 DEF Current
  <2> QED
    BY <2>5, <2>6, <2>7
<1>2. ASSUME q # <<>>, Current(Tail(q), v), Head(q).type # "reverted",
             Head(q).type = "frame" => Head(q).at = v
      PROVE  Current(q, v)
  <2> DEFINE t == Tail(q)
  <2>1. Head(q) = q[1] /\ \A i \in DOMAIN t : t[i] = q[i + 1]
    BY <1>2, SeqParts
  <2>2. \A T : /\ \A i \in PlacesOf(T, q) : i \in Nat /\ (i = 1 \/ i - 1 \in PlacesOf(T, t))
               /\ 1 \in PlacesOf(T, q) <=> Head(q).type \in T
    BY <1>2, PlacesTail
  <2>3. \A T : PlacesOf(T, t) \subseteq DOMAIN t
    BY DEF PlacesOf
  <2>4. Current(t, v)
    BY <1>2
  <2> HIDE DEF t
  <2>5. PlacesOf({"reverted"}, q) = {}
    BY <1>2, <2>2, <2>4 DEF Current
  <2>6. ASSUME NEW i \in PlacesOf({"frame"}, q) PROVE q[i].at = v
    <3>1. CASE i = 1
      BY <1>2, <2>1, <2>2, <3>1
    <3>2. CASE i # 1
      <4>1. i - 1 \in PlacesOf({"frame"}, t) /\ (i - 1) + 1 = i
        BY <2>2, <3>2
      <4>2. t[i - 1] = q[i] /\ t[i - 1].at = v
        BY <2>1, <2>3, <2>4, <4>1 DEF Current
      <4> QED
        BY <4>2
    <3> QED
      BY <3>1, <3>2
  <2> QED
    BY <2>5, <2>6 DEF Current
<1> QED
  BY <1>1, <1>2

\* The message of the request at the worker is answered, and read.
LEMMA SqlSent ==
    ASSUME NEW te \in Seq(ToEngine), NEW fe, NEW a, SqlWired(te, fe, a), NEW m \in ToEngine,
           m.type # "sql"
    PROVE  SqlWired(Append(te, m), fe, a)
<1> DEFINE k == Append(te, m)
<1>1. m.type \notin Sql
  BY MessageParts DEF Sql
<1>2. Carries(Sql, k, fe, a # {})
  <2>1. (a # {}) \in BOOLEAN /\ Carries(Sql, te, fe, a # {}) /\ (m.type \in Sql => ~(a # {}))
    BY <1>1 DEF SqlWired
  <2>2. Carries(Sql, k, fe, (a # {}) \/ m.type \in Sql)
    BY <2>1, CarriesSent
  <2>3. ((a # {}) \/ m.type \in Sql) = (a # {})
    BY <1>1
  <2> QED
    BY <2>2, <2>3
<1>3. PlacesOf({"sql"}, k) = PlacesOf({"sql"}, te)
  <2>1. PlacesOf({"sql"}, k) = PlacesOf({"sql"}, te) \cup (IF m.type \in {"sql"} THEN {Len(te) + 1} ELSE {})
    BY PlacesAppended
  <2> QED
    BY <2>1
<1>4. \A i \in PlacesOf({"sql"}, te) : k[i] = te[i]
  BY SeqAppended DEF PlacesOf
<1> HIDE DEF k
<1>5. SqlWired(k, fe, a)
  BY <1>2, <1>3, <1>4 DEF SqlWired
<1> QED
  BY <1>5 DEF k

\* The worker answers the request: its message is in the other queue.
LEMMA SqlAnswered ==
    ASSUME NEW te \in Seq(ToEngine), te # <<>>, NEW fe \in Seq(FromEngine), NEW a, SqlWired(te, fe, a),
           NEW m \in FromEngine, m.type \in {"done", "error"} <=> Head(te).type = "sql",
           m.type \in {"done", "error"} => m.req = Head(te).req
    PROVE  SqlWired(Tail(te), Append(fe, m), a)
<1> DEFINE k == Append(fe, m)
           t == Tail(te)
           n == Len(fe) + 1
<1>1. /\ Head(te) = te[1] /\ \A i \in DOMAIN t : t[i] = te[i + 1]
      /\ Head(te) \in ToEngine
  BY SeqParts
<1>2. /\ k[n] = m /\ \A i \in DOMAIN fe : k[i] = fe[i]
      /\ \A T : PlacesOf(T, k) = PlacesOf(T, fe) \cup (IF m.type \in T THEN {n} ELSE {})
  BY SeqAppended, PlacesAppended
<1>3. /\ \A i \in PlacesOf({"sql"}, t) : i \in Nat /\ i + 1 \in PlacesOf({"sql"}, te)
      /\ 1 \in PlacesOf({"sql"}, te) <=> Head(te).type \in {"sql"}
  BY PlacesTail
<1>4. Carries(Sql, t, k, a # {})
  <2>1. m.type \in Sql <=> Head(te).type \in Sql
    BY <1>1, MessageParts DEF Sql
  <2>2. (a # {}) \in BOOLEAN /\ Carries(Sql, te, fe, a # {})
    BY DEF SqlWired
  <2> QED
    BY <2>1, <2>2, CarriesAnswered
<1>5. \A T : PlacesOf(T, t) \subseteq DOMAIN t /\ PlacesOf(T, fe) \subseteq DOMAIN fe
  BY DEF PlacesOf
<1> HIDE DEF k, t, n
<1>6. ASSUME NEW i \in PlacesOf({"sql"}, t) PROVE t[i].req \in a
  <2>1. t[i] = te[i + 1] /\ i + 1 \in PlacesOf({"sql"}, te)
    BY <1>1, <1>3, <1>5
  <2> QED
    BY <2>1 DEF SqlWired
<1>7. ASSUME NEW i \in PlacesOf({"done", "error"}, k) PROVE k[i].req \in a
  <2>1. CASE i \in PlacesOf({"done", "error"}, fe)
    <3>1. k[i] = fe[i]
      BY <1>2, <1>5, <2>1
    <3> QED
      BY <2>1, <3>1 DEF SqlWired
  <2>2. CASE i \notin PlacesOf({"done", "error"}, fe)
    <3>1. i = n /\ m.type \in {"done", "error"}
      BY <1>2, <2>2
    <3>2. te[1].req \in a
      BY <1>1, <1>3, <3>1 DEF SqlWired
    <3> QED
      BY <1>1, <1>2, <3>1, <3>2
  <2> QED
    BY <2>1, <2>2
<1>8. SqlWired(t, k, a)
  BY <1>4, <1>6, <1>7 DEF SqlWired
<1> QED
  BY <1>8 DEF t, k

\* The page reads the answer, and the worker has no request; or it reads another message.
LEMMA SqlRead ==
    ASSUME NEW te, NEW fe \in Seq(FromEngine), fe # <<>>, NEW a, \A r, t \in a : r = t,
           SqlWired(te, fe, a)
    PROVE  IF Head(fe).type \in {"done", "error"}
           THEN a = {Head(fe).req} /\ SqlWired(te, Tail(fe), {})
           ELSE SqlWired(te, Tail(fe), a)
<1> DEFINE h == Head(fe)
           t == Tail(fe)
           E == {"done", "error"}
<1>1. /\ h = fe[1] /\ \A i \in DOMAIN t : t[i] = fe[i + 1]
      /\ h \in FromEngine
  BY SeqParts
<1>2. /\ \A i \in PlacesOf(E, t) : i \in Nat /\ i + 1 \in PlacesOf(E, fe)
      /\ 1 \in PlacesOf(E, fe) <=> h.type \in E
  BY PlacesTail
<1>3. h.type \in Sql <=> h.type \in E
  BY <1>1, MessageParts DEF Sql
<1>4. /\ h.type \in Sql => a # {}
      /\ Carries(Sql, te, t, (a # {}) /\ h.type \notin Sql)
  <2>1. (a # {}) \in BOOLEAN /\ Carries(Sql, te, fe, a # {})
    BY DEF SqlWired
  <2> QED
    BY <2>1, CarriesReceived
<1>5. \A T : PlacesOf(T, t) \subseteq DOMAIN t
  BY DEF PlacesOf
<1> HIDE DEF h, t
<1>6. CASE h.type \in E
  <2>1. fe[1].req \in a
    BY <1>2, <1>6 DEF SqlWired
  <2>2. a = {h.req}
    BY <1>1, <2>1
  <2>3. ((a # {}) /\ h.type \notin Sql) = ({} # {})
    BY <1>3, <1>6
  <2>4. Carries(Sql, te, t, {} # {})
    BY <1>4, <2>3
  <2>5. PlacesOf({"sql"}, te) = {} /\ PlacesOf(E, t) = {}
    BY <2>4 DEF Carries, PlacesOf, Sql
  <2>6. SqlWired(te, t, {})
    BY <2>4, <2>5 DEF SqlWired
  <2> QED
    BY <1>6, <2>2, <2>6 DEF h, t
<1>7. CASE h.type \notin E
  <2>1. ((a # {}) /\ h.type \notin Sql) = (a # {})
    BY <1>3, <1>7
  <2>2. Carries(Sql, te, t, a # {})
    BY <1>4, <2>1
  <2>3. ASSUME NEW i \in PlacesOf(E, t) PROVE t[i].req \in a
    <3>1. t[i] = fe[i + 1] /\ i + 1 \in PlacesOf(E, fe)
      BY <1>1, <1>2, <1>5
    <3> QED
      BY <3>1 DEF SqlWired
  <2>4. SqlWired(te, t, a)
    BY <2>2, <2>3 DEF SqlWired
  <2> QED
    BY <1>7, <2>4 DEF h, t
<1> QED
  BY <1>6, <1>7

-----------------------------------------------------------------------------
(* The steps.                                                              *)

\* Before the first frame nothing is asked.
LEMMA OverlaysStart == OverlaysInit => OverlaysInv
<1> SUFFICES ASSUME OverlaysInit PROVE OverlaysInv
  OBVIOUS
<1>1. \A T : PlacesOf(T, <<>>) = {}
  BY DEF PlacesOf
<1>2. NoPlace \notin Places /\ NoKey \notin Places /\ NoPlace # NoKey /\ NoPlace \notin Gap
  BY OverlayConstants DEF NoPlace, NoKey
<1>3. OverlaysTyped
  <2>1. Shaped(Symbols) /\ Symbols.key = NoKey
    BY DEF Shaped, Symbols
  <2>2. \A S : <<>> \in Seq(S)
    OBVIOUS
  <2>3. /\ spot \in Places /\ awaited = FALSE /\ on = TRUE /\ pictured = NoPlace /\ at = NoPlace
        /\ data = 0 /\ active = {} /\ queue = <<>> /\ toEngine = <<>> /\ fromEngine = <<>>
        /\ chatKey = NoKey /\ sym = Symbols /\ excused = {}
    BY DEF OverlaysInit
  <2>4. sym.key = NoKey /\ sym.key \in Places \cup {NoKey} /\ Shaped(sym)
    BY <2>1, <2>3
  <2> QED
    BY <2>2, <2>3, <2>4 DEF OverlaysTyped
<1>4. OverlaysWired
  BY <1>1 DEF OverlaysInit, OverlaysWired, Carries, SqlWired, AtTold, AnswersTold
<1>5. ChatInv(LineOf(active, queue), fromEngine, pictured, data, chatKey, chat, excused)
  BY <1>2 DEF OverlaysInit, ChatInv
<1>6. SymbolsInv(LineOf(active, queue), fromEngine, pictured, data, sym, on, excused)
  BY DEF OverlaysInit, SymbolsInv
<1>7. LayerInv(pictured, sym)
  BY DEF OverlaysInit, LayerInv, Symbols
<1> QED
  BY <1>3, <1>4, <1>5, <1>6, <1>7 DEF OverlaysInv

\* What does not touch answers, line or overlays.
LEMMA OverlaysKept ==
    ASSUME OverlaysInv,
           UNCHANGED <<pictured, at, data, fromEngine, active, queue, chatKey, chat, sym>>,
           spot' \in Places, awaited' \in BOOLEAN, on' \in BOOLEAN,
           toEngine' \in Seq(ToEngine), Carries({"frame"}, toEngine', fromEngine, awaited'),
           SqlWired(toEngine', fromEngine, active),
           excused \subseteq excused', excused' \subseteq {"chat", "symbols"},
           on' = on \/ "symbols" \in excused'
    PROVE  OverlaysInv'
<1>1. OverlaysTyped'
  BY DEF OverlaysInv, OverlaysTyped
<1>2. OverlaysWired'
  BY DEF OverlaysInv, OverlaysWired
<1>3. ChatInv(LineOf(active, queue), fromEngine, pictured, data, chatKey, chat, excused)'
  BY DEF OverlaysInv, ChatInv
<1>4. SymbolsInv(LineOf(active, queue), fromEngine, pictured, data, sym, on, excused)'
  BY DEF OverlaysInv, SymbolsInv
<1>5. LayerInv(pictured, sym)'
  BY DEF OverlaysInv
<1> QED
  BY <1>1, <1>2, <1>3, <1>4, <1>5 DEF OverlaysInv

\* The user moves, reverts and toggles, and the loop asks for a frame.
LEMMA OverlaysActs ==
    OverlaysInv /\ ((\E p \in Places : MoveSpot(p)) \/ ToggleSymbols \/ RevertRows \/ AwaitFrame)
        => OverlaysInv'
<1> SUFFICES ASSUME OverlaysInv,
                    (\E p \in Places : MoveSpot(p)) \/ ToggleSymbols \/ RevertRows \/ AwaitFrame
             PROVE  OverlaysInv'
  OBVIOUS
<1>1. /\ OverlaysTyped /\ toEngine \in Seq(ToEngine) /\ awaited \in BOOLEAN /\ on \in BOOLEAN
      /\ spot \in Places /\ excused \subseteq {"chat", "symbols"}
  BY DEF OverlaysInv, OverlaysTyped
<1>2. Carries({"frame"}, toEngine, fromEngine, awaited) /\ SqlWired(toEngine, fromEngine, active)
  BY DEF OverlaysInv, OverlaysWired
<1>3. CASE \E p \in Places : MoveSpot(p)
  <2>1. /\ spot' \in Places /\ UNCHANGED <<awaited, toEngine, on, excused>>
        /\ UNCHANGED <<pictured, at, data, fromEngine, active, queue, chatKey, chat, sym>>
    BY <1>3 DEF MoveSpot, overlayAsking
  <2> QED
    BY <1>1, <1>2, <2>1, OverlaysKept
<1>4. CASE ToggleSymbols
  <2>1. /\ UNCHANGED <<awaited, toEngine, spot>> /\ on' = ~on /\ excused' = excused \cup {"symbols"}
        /\ UNCHANGED <<pictured, at, data, fromEngine, active, queue, chatKey, chat, sym>>
    BY <1>4 DEF ToggleSymbols, overlayAsking
  <2> QED
    BY <1>1, <1>2, <2>1, OverlaysKept
<1>5. CASE RevertRows
  <2> DEFINE m == [type |-> "revert"]
  <2>1. /\ UNCHANGED <<awaited, spot, on, excused>> /\ toEngine' = Append(toEngine, m)
        /\ UNCHANGED <<pictured, at, data, fromEngine, active, queue, chatKey, chat, sym>>
    BY <1>5 DEF RevertRows, overlayAsking
  <2>2. m \in ToEngine /\ m.type = "revert"
    BY DEF ToEngine
  <2> HIDE DEF m
  <2>3. Append(toEngine, m) \in Seq(ToEngine)
    BY <1>1, <2>2
  <2>4. SqlWired(Append(toEngine, m), fromEngine, active)
    BY <1>1, <1>2, <2>2, SqlSent
  <2>5. Carries({"frame"}, Append(toEngine, m), fromEngine, awaited)
    <3>1. Carries({"frame"}, Append(toEngine, m), fromEngine, awaited \/ m.type \in {"frame"})
      BY <1>1, <1>2, <2>2, CarriesSent
    <3>2. (awaited \/ m.type \in {"frame"}) = awaited
      BY <1>1, <2>2
    <3> QED
      BY <3>1, <3>2
  <2> QED
    BY <1>1, <2>1, <2>3, <2>4, <2>5, OverlaysKept
<1>6. CASE AwaitFrame
  <2> DEFINE m == [type |-> "frame", at |-> spot]
  <2>1. /\ ~awaited /\ awaited' = TRUE /\ toEngine' = Append(toEngine, m)
        /\ UNCHANGED <<spot, on, excused>>
        /\ UNCHANGED <<pictured, at, data, fromEngine, active, queue, chatKey, chat, sym>>
    BY <1>6 DEF AwaitFrame, overlayAsking
  <2>2. m \in ToEngine /\ m.type = "frame"
    BY <1>1 DEF ToEngine
  <2> HIDE DEF m
  <2>3. Append(toEngine, m) \in Seq(ToEngine)
    BY <1>1, <2>2
  <2>4. SqlWired(Append(toEngine, m), fromEngine, active)
    BY <1>1, <1>2, <2>2, SqlSent
  <2>5. Carries({"frame"}, Append(toEngine, m), fromEngine, TRUE)
    <3>1. Carries({"frame"}, Append(toEngine, m), fromEngine, awaited \/ m.type \in {"frame"})
      BY <1>1, <1>2, <2>1, <2>2, CarriesSent
    <3>2. (awaited \/ m.type \in {"frame"}) = TRUE
      BY <2>2
    <3> QED
      BY <3>1, <3>2
  <2> QED
    BY <1>1, <2>1, <2>3, <2>4, <2>5, OverlaysKept
<1> QED
  BY <1>3, <1>4, <1>5, <1>6

\* The worker answers its first message.
LEMMA OverlaysAnswer ==
    ASSUME OverlaysInv, NEW m \in FromEngine, toEngine # <<>>, toEngine' = Tail(toEngine),
           fromEngine' = Append(fromEngine, m),
           UNCHANGED <<spot, awaited, pictured, active, queue, chatKey, chat, sym, on, excused>>,
           m.type = "frame" <=> Head(toEngine).type = "frame",
           m.type \in {"done", "error"} <=> Head(toEngine).type = "sql",
           m.type \in {"done", "error"} => m.req = Head(toEngine).req,
           at' = IF m.type = "frame" THEN m.at ELSE at,
           data' = IF m.type = "reverted" THEN data + 1 ELSE data,
           m.type = "done" => m.rows = RowsOf(m.req.what, at, data)
    PROVE  OverlaysInv'
<1>1. /\ OverlaysTyped /\ toEngine \in Seq(ToEngine) /\ fromEngine \in Seq(FromEngine)
      /\ awaited \in BOOLEAN /\ data \in Nat /\ at \in Places \cup {NoPlace}
  BY DEF OverlaysInv, OverlaysTyped
<1>2. /\ Carries({"frame"}, toEngine, fromEngine, awaited) /\ SqlWired(toEngine, fromEngine, active)
      /\ AtTold(fromEngine, pictured, at) /\ AnswersTold(fromEngine, pictured, data)
  BY DEF OverlaysInv, OverlaysWired
<1>3. OverlaysTyped'
  <2>1. Tail(toEngine) \in Seq(ToEngine) /\ Append(fromEngine, m) \in Seq(FromEngine)
    BY <1>1
  <2>2. at' \in Places \cup {NoPlace}
    BY <1>1, MessageParts
  <2>3. data' \in Nat
    BY <1>1
  <2> QED
    BY <1>1, <2>1, <2>2, <2>3 DEF OverlaysTyped
<1>4. OverlaysWired'
  <2>1. Carries({"frame"}, Tail(toEngine), Append(fromEngine, m), awaited)
    <3>1. m.type \in {"frame"} <=> Head(toEngine).type \in {"frame"}
      OBVIOUS
    <3> QED
      BY <1>1, <1>2, <3>1, CarriesAnswered
  <2>2. SqlWired(Tail(toEngine), Append(fromEngine, m), active)
    BY <1>1, <1>2, SqlAnswered
  <2>3. AtTold(Append(fromEngine, m), pictured, at')
    <3>1. CASE m.type = "frame"
      <4>1. 1 \in PlacesOf({"frame"}, toEngine)
        BY <1>1, <3>1, PlacesTail
      <4>2. PlacesOf({"frame"}, fromEngine) = {}
        BY <1>2, <4>1 DEF Carries, Single
      <4> QED
        BY <1>1, <3>1, <4>2, AtAppended
    <3>2. CASE m.type # "frame"
      <4>1. at' = at
        BY <3>2
      <4>2. AtTold(Append(fromEngine, m), pictured, at)
        BY <1>1, <1>2, <3>2, AtAppended
      <4> QED
        BY <4>1, <4>2
    <3> QED
      BY <3>1, <3>2
  <2>4. AnswersTold(Append(fromEngine, m), pictured, data')
    <3>1. m.type # "reverted" => data' = data
      OBVIOUS
    <3> QED
      BY <1>1, <1>2, <3>1, AnswersAppended
  <2> QED
    BY <2>1, <2>2, <2>3, <2>4 DEF OverlaysWired
<1>5. Current(fromEngine', pictured) => Current(fromEngine, pictured) /\ data' = data
  BY <1>1, CurrentBefore
<1>6. ChatInv(LineOf(active, queue), fromEngine, pictured, data, chatKey, chat, excused)'
  BY <1>5 DEF OverlaysInv, ChatInv
<1>7. SymbolsInv(LineOf(active, queue), fromEngine, pictured, data, sym, on, excused)'
  BY <1>5 DEF OverlaysInv, SymbolsInv
<1>8. LayerInv(pictured, sym)'
  BY DEF OverlaysInv
<1> QED
  BY <1>3, <1>4, <1>6, <1>7, <1>8 DEF OverlaysInv

\* A frame, rows, an error or the end of a revert.
LEMMA OverlaysAnswers == OverlaysInv /\ OverlaysWork => OverlaysInv'
<1> SUFFICES ASSUME OverlaysInv, OverlaysWork PROVE OverlaysInv'
  OBVIOUS
<1> DEFINE m == Head(toEngine)
<1>1. /\ OverlaysTyped /\ toEngine \in Seq(ToEngine) /\ data \in Nat
      /\ at \in Places \cup {NoPlace}
  BY DEF OverlaysInv, OverlaysTyped
<1>2. /\ toEngine # <<>> /\ toEngine' = Tail(toEngine)
      /\ UNCHANGED <<spot, awaited, pictured, active, queue, chatKey, chat, sym, on, excused>>
  BY DEF OverlaysWork, overlayAsking
<1>3. m \in ToEngine
  BY <1>1, <1>2, SeqParts
<1> HIDE DEF m
<1>4. CASE m.type = "frame" /\ at' = m.at /\ data' = data
           /\ fromEngine' = Append(fromEngine, [type |-> "frame", at |-> m.at])
  <2> DEFINE n == [type |-> "frame", at |-> m.at]
  <2>1. n \in FromEngine /\ n.type = "frame" /\ n.at = m.at
    BY <1>3, <1>4, MessageParts DEF FromEngine
  <2>2. fromEngine' = Append(fromEngine, n)
    BY <1>4
  <2> HIDE DEF n
  <2> QED
    BY <1>2, <1>4, <2>1, <2>2, OverlaysAnswer DEF m
<1>5. CASE m.type = "sql" /\ at' = at /\ data' = data
           /\ fromEngine' = Append(fromEngine, [type |-> "done", req |-> m.req, rows |-> RowsNow(m.req)])
  <2> DEFINE n == [type |-> "done", req |-> m.req, rows |-> RowsNow(m.req)]
  <2>1. RowsNow(m.req) = RowsOf(m.req.what, at, data)
    BY DEF RowsNow, RowsOf
  <2>2. RowsNow(m.req) \in SqlRows
    <3>1. <<at, data>> \in (Places \cup {NoPlace}) \X Nat
      BY <1>1
    <3>2. {<<at, data>>} \in SqlRows /\ {} \in SqlRows
      BY <3>1 DEF SqlRows
    <3> QED
      BY <3>2 DEF RowsNow
  <2>3. m.req \in OverlayRequests
    BY <1>3, <1>5, MessageParts
  <2>4. /\ n \in FromEngine /\ n.type = "done" /\ n.req = m.req
        /\ n.rows = RowsOf(n.req.what, at, data)
    BY <2>1, <2>2, <2>3 DEF FromEngine
  <2>5. fromEngine' = Append(fromEngine, n)
    BY <1>5
  <2> HIDE DEF n
  <2> QED
    BY <1>2, <1>5, <2>4, <2>5, OverlaysAnswer DEF m
<1>6. CASE m.type = "sql" /\ at' = at /\ data' = data
           /\ fromEngine' = Append(fromEngine, [type |-> "error", req |-> m.req])
  <2> DEFINE n == [type |-> "error", req |-> m.req]
  <2>1. m.req \in OverlayRequests
    BY <1>3, <1>6, MessageParts
  <2>2. n \in FromEngine /\ n.type = "error" /\ n.req = m.req
    BY <2>1 DEF FromEngine
  <2>3. fromEngine' = Append(fromEngine, n)
    BY <1>6
  <2> HIDE DEF n
  <2> QED
    BY <1>2, <1>6, <2>2, <2>3, OverlaysAnswer DEF m
<1>7. CASE m.type = "revert" /\ at' = at /\ data' = data + 1
           /\ fromEngine' = Append(fromEngine, [type |-> "reverted"])
  <2> DEFINE n == [type |-> "reverted"]
  <2>1. n \in FromEngine /\ n.type = "reverted"
    BY DEF FromEngine
  <2>2. fromEngine' = Append(fromEngine, n)
    BY <1>7
  <2> HIDE DEF n
  <2> QED
    BY <1>2, <1>7, <2>1, <2>2, OverlaysAnswer DEF m
<1> QED
  BY <1>4, <1>5, <1>6, <1>7 DEF OverlaysWork, m

\* What is known once the page takes its first message.
LEMMA OverlaysRead ==
    ASSUME OverlaysInv, fromEngine # <<>>
    PROVE  /\ Head(fromEngine) \in FromEngine /\ Tail(fromEngine) \in Seq(FromEngine)
           /\ Carries({"frame"}, toEngine, Tail(fromEngine), awaited /\ Head(fromEngine).type # "frame")
           /\ IF Head(fromEngine).type \in {"done", "error"}
              THEN active = {Head(fromEngine).req} /\ SqlWired(toEngine, Tail(fromEngine), {})
              ELSE SqlWired(toEngine, Tail(fromEngine), active)
           /\ AtTold(Tail(fromEngine), IF Head(fromEngine).type = "frame" THEN Head(fromEngine).at
                                       ELSE pictured, at)
           /\ AnswersTold(Tail(fromEngine), IF Head(fromEngine).type = "frame" THEN Head(fromEngine).at
                                            ELSE pictured, data)
           /\ Head(fromEngine).type = "done" /\ Current(fromEngine, pictured) =>
                 Head(fromEngine).rows = RowsOf(Head(fromEngine).req.what, pictured, data)
           /\ Head(fromEngine).type = "frame" => \A v : Current(Tail(fromEngine), v) <=>
                                                        PlacesOf({"reverted"}, Tail(fromEngine)) = {}
<1> DEFINE m == Head(fromEngine)
           t == Tail(fromEngine)
<1>1. /\ fromEngine \in Seq(FromEngine) /\ awaited \in BOOLEAN /\ (\A r, s \in active : r = s)
      /\ Carries({"frame"}, toEngine, fromEngine, awaited) /\ SqlWired(toEngine, fromEngine, active)
      /\ AtTold(fromEngine, pictured, at) /\ AnswersTold(fromEngine, pictured, data)
  BY DEF OverlaysInv, OverlaysTyped, OverlaysWired
<1>2. m \in FromEngine /\ t \in Seq(FromEngine)
  BY <1>1, SeqParts
<1>3. /\ m.type \in {"frame"} => awaited
      /\ Carries({"frame"}, toEngine, t, awaited /\ m.type \notin {"frame"})
  BY <1>1, CarriesReceived
<1>4. (awaited /\ m.type \notin {"frame"}) = (awaited /\ m.type # "frame")
  BY <1>1
<1>5. Carries({"frame"}, toEngine, t, awaited /\ m.type # "frame")
  BY <1>3, <1>4
<1>6. m.type = "frame" => PlacesOf({"frame"}, t) = {}
  BY <1>5 DEF Carries
<1>7. IF m.type \in {"done", "error"} THEN active = {m.req} /\ SqlWired(toEngine, t, {})
      ELSE SqlWired(toEngine, t, active)
  BY <1>1, SqlRead
<1>8. AtTold(t, IF m.type = "frame" THEN m.at ELSE pictured, at)
  BY <1>1, <1>6, AtRead
<1>9. /\ AnswersTold(t, IF m.type = "frame" THEN m.at ELSE pictured, data)
      /\ m.type = "done" /\ PlacesOf({"reverted"}, fromEngine) = {} =>
            m.rows = RowsOf(m.req.what, pictured, data)
  BY <1>1, <1>6, AnswersRead
<1>10. m.type = "frame" => \A v : Current(t, v) <=> PlacesOf({"reverted"}, t) = {}
  BY <1>6 DEF Current
<1>11. Current(fromEngine, pictured) => PlacesOf({"reverted"}, fromEngine) = {}
  BY DEF Current
<1> QED
  BY <1>2, <1>5, <1>7, <1>8, <1>9, <1>10, <1>11

\* Requests are of their types.
LEMMA RequestTyped ==
    ASSUME NEW what \in {"chat", "a", "b"}, NEW left \in 0 .. ChatQueries - 1, NEW rows \in SqlRows
    PROVE  /\ OverlayRequest(what, left, rows) \in OverlayRequests
           /\ OverlayRequest(what, left, rows).what = what
           /\ OverlayRequest(what, left, rows).left = left
           /\ OverlayRequest(what, left, rows).rows = rows
BY DEF OverlayRequest, OverlayRequests, SqlRows

\* The line as it is.
LEMMA LineAsIs ==
    ASSUME OverlaysTyped
    PROVE  /\ Line(OverlayLine, active) /\ OverlayLine.active = active /\ OverlayLine.queue = queue
           /\ LineOf(active, queue) \in Seq(OverlayRequests)
           /\ active # {} => LineOf(active, queue) # <<>> /\ Head(LineOf(active, queue)) \in active
<1>1. /\ active \subseteq OverlayRequests /\ (\A r, s \in active : r = s)
      /\ queue \in Seq(OverlayRequests) /\ (active = {} => queue = <<>>)
  BY DEF OverlaysTyped
<1>2. /\ OverlayLine = [active |-> active, queue |-> queue, post |-> <<>>]
      /\ OverlayLine.active = active /\ OverlayLine.queue = queue /\ OverlayLine.post = <<>>
  BY DEF OverlayLine
<1>3. Line(OverlayLine, active)
  BY <1>1, <1>2 DEF Line
<1>4. /\ LineOf(active, queue) \in Seq(OverlayRequests)
      /\ LineOf(active, queue) = <<>> <=> active = {}
      /\ \A r \in active : Head(LineOf(active, queue)) = r
  BY <1>1, LineParts
<1> QED
  BY <1>2, <1>3, <1>4

\* What becomes of the line is typed and wired.
LEMMA LineInstalled ==
    ASSUME NEW s, NEW a, Line(s, a), LineBecomes(s), toEngine \in Seq(ToEngine), NEW fe,
           SqlWired(toEngine, fe, a), NEW one \in BOOLEAN, Carries({"frame"}, toEngine, fe, one)
    PROVE  /\ active' = s.active /\ queue' = s.queue
           /\ active' \subseteq OverlayRequests /\ (\A r, t \in active' : r = t)
           /\ queue' \in Seq(OverlayRequests) /\ (active' = {} => queue' = <<>>)
           /\ toEngine' \in Seq(ToEngine) /\ SqlWired(toEngine', fe, active')
           /\ Carries({"frame"}, toEngine', fe, one)
<1>1. active' = s.active /\ queue' = s.queue /\ toEngine' = toEngine \o s.post
  BY DEF LineBecomes
<1>2. /\ s.active \subseteq OverlayRequests /\ (\A r, t \in s.active : r = t)
      /\ s.queue \in Seq(OverlayRequests) /\ (s.active = {} => s.queue = <<>>)
  BY DEF Line
<1>3. /\ toEngine \o s.post \in Seq(ToEngine)
      /\ SqlWired(toEngine \o s.post, fe, s.active)
      /\ Carries({"frame"}, toEngine \o s.post, fe, one)
  BY LinePosted
<1> QED
  BY <1>1, <1>2, <1>3

\* A revert has ended: the chat is asked for anew with the next frame.
LEMMA OverlaysRevert ==
    ASSUME OverlaysInv, fromEngine # <<>>, Head(fromEngine).type = "reverted",
           fromEngine' = Tail(fromEngine), OverlaysOnReverted, UNCHANGED <<at, data>>
    PROVE  OverlaysInv'
<1> DEFINE t == Tail(fromEngine)
           m == [type |-> "frame", at |-> spot]
<1>1. /\ OverlaysTyped /\ toEngine \in Seq(ToEngine) /\ awaited \in BOOLEAN /\ spot \in Places
      /\ pictured \in Places \cup {NoPlace} /\ excused \subseteq {"chat", "symbols"}
  BY DEF OverlaysInv, OverlaysTyped
<1>2. /\ t \in Seq(FromEngine) /\ SqlWired(toEngine, t, active)
      /\ AtTold(t, pictured, at) /\ AnswersTold(t, pictured, data)
      /\ Carries({"frame"}, toEngine, t, awaited /\ Head(fromEngine).type # "frame")
  BY OverlaysRead
<1>3. Carries({"frame"}, toEngine, t, awaited)
  <2>1. (awaited /\ Head(fromEngine).type # "frame") = awaited
    BY <1>1
  <2> QED
    BY <1>2, <2>1
<1>4. /\ chatKey' = NoKey /\ awaited' = TRUE /\ excused' = excused \cup {"symbols"}
      /\ toEngine' = IF awaited THEN toEngine ELSE Append(toEngine, m)
      /\ UNCHANGED <<spot, pictured, at, data, active, queue, chat, sym, on>>
  BY DEF OverlaysOnReverted, ChatForced, overlayAsking
<1>5. m \in ToEngine /\ m.type = "frame"
  BY <1>1 DEF ToEngine
<1> HIDE DEF t, m
<1>6. /\ toEngine' \in Seq(ToEngine) /\ SqlWired(toEngine', t, active)
      /\ Carries({"frame"}, toEngine', t, TRUE)
  <2>1. CASE awaited
    <3>1. toEngine' = toEngine /\ awaited = TRUE
      BY <1>1, <1>4, <2>1
    <3> QED
      BY <1>1, <1>2, <1>3, <3>1
  <2>2. CASE ~awaited
    <3>1. toEngine' = Append(toEngine, m) /\ Append(toEngine, m) \in Seq(ToEngine)
      BY <1>1, <1>4, <1>5, <2>2
    <3>2. SqlWired(Append(toEngine, m), t, active)
      BY <1>1, <1>2, <1>5, SqlSent
    <3>3. Carries({"frame"}, Append(toEngine, m), t, awaited \/ m.type \in {"frame"})
      BY <1>1, <1>3, <1>5, <2>2, CarriesSent
    <3>4. (awaited \/ m.type \in {"frame"}) = TRUE
      BY <1>5
    <3> QED
      BY <3>1, <3>2, <3>3, <3>4
  <2> QED
    BY <2>1, <2>2
<1>7. fromEngine' = t
  BY DEF t
<1>8. OverlaysTyped'
  BY <1>1, <1>2, <1>4, <1>6, <1>7 DEF OverlaysTyped
<1>9. OverlaysWired'
  BY <1>2, <1>4, <1>6, <1>7 DEF OverlaysWired
<1>10. ChatInv(LineOf(active, queue), fromEngine, pictured, data, chatKey, chat, excused)'
  <2>1. NoKey \notin Places \cup {NoPlace}
    BY OverlayConstants DEF NoKey, NoPlace
  <2> QED
    BY <1>1, <1>4, <2>1 DEF ChatInv
<1>11. SymbolsInv(LineOf(active, queue), fromEngine, pictured, data, sym, on, excused)'
  BY <1>4 DEF SymbolsInv
<1>12. LayerInv(pictured, sym)'
  BY <1>4 DEF OverlaysInv
<1> QED
  BY <1>8, <1>9, <1>10, <1>11, <1>12 DEF OverlaysInv

\* A query failed: what it was for is excused.
LEMMA OverlaysError ==
    ASSUME OverlaysInv, fromEngine # <<>>, Head(fromEngine).type = "error",
           fromEngine' = Tail(fromEngine), OnRowsError(Head(fromEngine)), UNCHANGED <<at, data>>
    PROVE  OverlaysInv'
<1> DEFINE m == Head(fromEngine)
           t == Tail(fromEngine)
           l == LineOf(active, queue)
<1>1. /\ OverlaysTyped /\ toEngine \in Seq(ToEngine) /\ fromEngine \in Seq(FromEngine)
      /\ awaited \in BOOLEAN /\ queue \in Seq(OverlayRequests)
      /\ active \subseteq OverlayRequests /\ (\A r, s \in active : r = s)
      /\ excused \subseteq {"chat", "symbols"} /\ (active = {} => queue = <<>>)
  BY DEF OverlaysInv, OverlaysTyped
<1>2. /\ m \in FromEngine /\ t \in Seq(FromEngine) /\ active = {m.req} /\ SqlWired(toEngine, t, {})
      /\ AtTold(t, pictured, at) /\ AnswersTold(t, pictured, data)
      /\ Carries({"frame"}, toEngine, t, awaited /\ m.type # "frame")
  BY OverlaysRead
<1>3. Carries({"frame"}, toEngine, t, awaited)
  <2>1. (awaited /\ m.type # "frame") = awaited
    BY <1>1
  <2> QED
    BY <1>2, <2>1
<1>4. /\ Line(OverlayAnswered, {})
      /\ LineOf(OverlayAnswered.active, OverlayAnswered.queue) = Tail(l)
  BY <1>1, <1>2, LineAnswered
<1>5. l \in Seq(OverlayRequests) /\ l # <<>> /\ Head(l) = m.req
  BY <1>1, <1>2, LineAsIs
<1>6. /\ LineBecomes(OverlayAnswered)
      /\ excused' = excused \cup {IF m.req.what = "chat" THEN "chat" ELSE "symbols"}
      /\ UNCHANGED <<spot, awaited, pictured, at, data, chatKey, chat, sym, on>>
  BY DEF OnRowsError
<1> HIDE DEF m, t, l
<1>7. /\ active' = OverlayAnswered.active /\ queue' = OverlayAnswered.queue
      /\ active' \subseteq OverlayRequests /\ (\A r, s \in active' : r = s)
      /\ queue' \in Seq(OverlayRequests) /\ (active' = {} => queue' = <<>>)
      /\ toEngine' \in Seq(ToEngine) /\ SqlWired(toEngine', t, active')
      /\ Carries({"frame"}, toEngine', t, awaited)
  BY <1>1, <1>2, <1>3, <1>4, <1>6, LineInstalled
<1>8. LineOf(active', queue') = Tail(l)
  BY <1>4, <1>7
<1>9. fromEngine' = t
  BY DEF t
<1>10. OverlaysTyped'
  BY <1>1, <1>2, <1>6, <1>7, <1>9 DEF OverlaysTyped
<1>11. OverlaysWired'
  BY <1>2, <1>6, <1>7, <1>9 DEF OverlaysWired
<1>12. Current(t, pictured) => Current(fromEngine, pictured)
  <2>1. m.type # "reverted" /\ m.type # "frame"
    BY DEF m
  <2> QED
    BY <1>1, <2>1, CurrentBefore DEF m, t
<1>13. ChatInv(Tail(l), t, pictured, data, chatKey, chat, excused')
  <2> SUFFICES ASSUME Current(t, pictured), chatKey = pictured, pictured \notin Gap, "chat" \notin excused'
               PROVE  ChatSettles(Tail(l), chat, {<<pictured, data>>})
    BY DEF ChatInv
  <2>1. m.req.what # "chat" /\ "chat" \notin excused
    BY <1>6
  <2>2. ChatSettles(l, chat, {<<pictured, data>>})
    BY <1>12, <2>1 DEF OverlaysInv, ChatInv, l
  <2>3. Head(l).what # "chat"
    BY <1>5, <2>1
  <2> QED
    BY <1>5, <2>2, <2>3, ChatAnswered
<1>14. SymbolsInv(Tail(l), t, pictured, data, sym, on, excused')
  <2> SUFFICES ASSUME pictured # NoPlace, "symbols" \notin excused'
               PROVE  /\ sym.key = pictured /\ pictured \notin Gap /\ on
                      /\ Current(t, pictured) => SymbolsSettle(Tail(l), sym, {<<pictured, data>>})
    BY DEF SymbolsInv
  <2>1. m.req.what = "chat" /\ "symbols" \notin excused
    BY <1>6
  <2>2. /\ sym.key = pictured /\ pictured \notin Gap /\ on
        /\ Current(fromEngine, pictured) => SymbolsSettle(l, sym, {<<pictured, data>>})
    BY <2>1 DEF OverlaysInv, SymbolsInv, l
  <2>3. Head(l).what = "chat"
    BY <1>5, <2>1
  <2>4. SymbolsSettle(l, sym, {<<pictured, data>>}) => SymbolsSettle(Tail(l), sym, {<<pictured, data>>})
    BY <1>5, <2>3, SymbolsAnswered
  <2> QED
    BY <1>12, <2>2, <2>4
<1>15. LayerInv(pictured, sym)'
  BY <1>6 DEF OverlaysInv
<1> QED
  BY <1>6, <1>8, <1>9, <1>10, <1>11, <1>13, <1>14, <1>15 DEF OverlaysInv

\* A change of one field of an entry leaves the others.
LEMMA EntryParts ==
    ASSUME NEW y, Shaped(y), NEW w
    PROVE  /\ [y EXCEPT !.a = w] = [key |-> y.key, a |-> w, b |-> y.b, drawn |-> y.drawn, was |-> y.was,
                                    elements |-> y.elements, attached |-> y.attached]
           /\ [y EXCEPT !.b = w] = [key |-> y.key, a |-> y.a, b |-> w, drawn |-> y.drawn, was |-> y.was,
                                    elements |-> y.elements, attached |-> y.attached]
<1> DEFINE z == [key |-> y.key, a |-> y.a, b |-> y.b, drawn |-> y.drawn, was |-> y.was,
                 elements |-> y.elements, attached |-> y.attached]
<1>1. y = z
  BY DEF Shaped
<1>2. [z EXCEPT !.a = w] = [key |-> y.key, a |-> w, b |-> y.b, drawn |-> y.drawn, was |-> y.was,
                            elements |-> y.elements, attached |-> y.attached]
  OBVIOUS
<1>3. [z EXCEPT !.b = w] = [key |-> y.key, a |-> y.a, b |-> w, drawn |-> y.drawn, was |-> y.was,
                            elements |-> y.elements, attached |-> y.attached]
  OBVIOUS
<1> HIDE DEF z
<1> QED
  BY <1>1, <1>2, <1>3

\* The answer's place in the line is taken by what it asks for next.
LineAfter(r, rows) ==
    CASE r.what = "chat" /\ r.left > 0 ->
            OverlayAsked(OverlayAnswered, OverlayRequest("chat", r.left - 1, r.rows \cup rows))
      [] r.what = "a" -> OverlayAsked(OverlayAnswered, OverlayRequest("b", 0, {}))
      [] OTHER -> OverlayAnswered
NextAsked(r, rows, q) == q.what = "chat" /\ q.left = r.left - 1 /\ q.rows = r.rows \cup rows
NextInLine(k, l, r, rows) ==
    /\ r.what = "chat" /\ r.left = 0 => k = Tail(l)
    /\ r.what = "b" => k = Tail(l)
    /\ r.what = "chat" /\ r.left > 0 =>
          \E q \in OverlayRequests : NextAsked(r, rows, q) /\ k = Append(Tail(l), q)
    /\ r.what = "a" => \E q \in OverlayRequests : q.what = "b" /\ k = Append(Tail(l), q)

\* Rows take the first request from the line, and may put another at its end.
LEMMA RowsTaken ==
    ASSUME OverlaysTyped, NEW r \in OverlayRequests, active = {r}, NEW rows \in SqlRows,
           NEW s, s = LineAfter(r, rows), NEW l, l = LineOf(active, queue)
    PROVE  /\ Line(s, {}) /\ l \in Seq(OverlayRequests) /\ l # <<>> /\ Head(l) = r
           /\ NextInLine(LineOf(s.active, s.queue), l, r, rows)
<1>1. /\ queue \in Seq(OverlayRequests) /\ active \subseteq OverlayRequests
      /\ (\A x, y \in active : x = y) /\ active # {}
  BY DEF OverlaysTyped
<1>2. /\ Line(OverlayAnswered, {})
      /\ LineOf(OverlayAnswered.active, OverlayAnswered.queue) = Tail(l)
  BY <1>1, LineAnswered
<1>3. l \in Seq(OverlayRequests) /\ l # <<>> /\ Head(l) = r
  BY <1>1, LineAsIs
<1>4. /\ r.what \in {"chat", "a", "b"} /\ r.left \in 0 .. ChatQueries - 1 /\ r.rows \in SqlRows
      /\ ChatQueries \in Nat \ {0}
  BY OverlayConstants DEF OverlayRequests, SqlRows
<1>5. CASE r.what = "chat" /\ r.left > 0
  <2> DEFINE q == OverlayRequest("chat", r.left - 1, r.rows \cup rows)
  <2>1. r.left - 1 \in 0 .. ChatQueries - 1 /\ r.rows \cup rows \in SqlRows
    BY <1>4, <1>5 DEF SqlRows
  <2>2. "chat" \in {"chat", "a", "b"}
    OBVIOUS
  <2>3. q \in OverlayRequests /\ NextAsked(r, rows, q)
    <3> DEFINE g == r.rows \cup rows
               n == r.left - 1
    <3>1. n \in 0 .. ChatQueries - 1 /\ g \in SqlRows
      BY <2>1
    <3> HIDE DEF g, n
    <3>2. LET z == OverlayRequest("chat", n, g)
          IN  z \in OverlayRequests /\ z.what = "chat" /\ z.left = n /\ z.rows = g
      BY <2>2, <3>1, RequestTyped
    <3> QED
      BY <3>2 DEF NextAsked, n, g
  <2>4. s = OverlayAsked(OverlayAnswered, q)
    BY <1>5 DEF LineAfter
  <2> HIDE DEF q
  <2>5. Line(s, {}) /\ LineOf(s.active, s.queue) = Append(Tail(l), q)
    BY <1>2, <2>3, <2>4, LineAsked
  <2>6. r.left # 0
    BY <1>4, <1>5
  <2> QED
    BY <1>3, <1>5, <2>3, <2>5, <2>6 DEF NextInLine
<1>6. CASE r.what = "a"
  <2> DEFINE q == OverlayRequest("b", 0, {})
  <2>1. 0 \in 0 .. ChatQueries - 1 /\ {} \in SqlRows
    BY <1>4 DEF SqlRows
  <2>2. q \in OverlayRequests /\ q.what = "b"
    BY <2>1, RequestTyped
  <2>3. s = OverlayAsked(OverlayAnswered, q)
    BY <1>6 DEF LineAfter
  <2> HIDE DEF q
  <2>4. Line(s, {}) /\ LineOf(s.active, s.queue) = Append(Tail(l), q)
    BY <1>2, <2>2, <2>3, LineAsked
  <2> QED
    BY <1>3, <1>6, <2>2, <2>4 DEF NextInLine
<1>7. CASE ~(r.what = "chat" /\ r.left > 0) /\ r.what # "a"
  <2>1. s = OverlayAnswered
    BY <1>7 DEF LineAfter
  <2> QED
    BY <1>2, <1>3, <1>7, <2>1 DEF NextInLine
<1> QED
  BY <1>5, <1>6, <1>7

\* Rows arrive.
LEMMA OverlaysRows ==
    ASSUME OverlaysInv, fromEngine # <<>>, Head(fromEngine).type = "done",
           fromEngine' = Tail(fromEngine), OnRows(Head(fromEngine)), UNCHANGED <<at, data>>
    PROVE  OverlaysInv'
<1> DEFINE m == Head(fromEngine)
           t == Tail(fromEngine)
           l == LineOf(active, queue)
           r == m.req
           got == r.rows \cup m.rows
           R == {<<pictured, data>>}
           s == LineAfter(r, m.rows)
<1>1. /\ OverlaysTyped /\ toEngine \in Seq(ToEngine) /\ fromEngine \in Seq(FromEngine)
      /\ awaited \in BOOLEAN /\ Shaped(sym)
  BY DEF OverlaysInv, OverlaysTyped
<1>2. /\ m \in FromEngine /\ t \in Seq(FromEngine) /\ active = {m.req} /\ SqlWired(toEngine, t, {})
      /\ AtTold(t, pictured, at) /\ AnswersTold(t, pictured, data)
      /\ Carries({"frame"}, toEngine, t, awaited /\ m.type # "frame")
      /\ Current(fromEngine, pictured) => m.rows = RowsOf(m.req.what, pictured, data)
  BY OverlaysRead
<1>3. Carries({"frame"}, toEngine, t, awaited)
  <2>1. (awaited /\ m.type # "frame") = awaited
    BY <1>1
  <2> QED
    BY <1>2, <2>1
<1>4. r \in OverlayRequests /\ active = {r} /\ m.rows \in SqlRows
  BY <1>2, MessageParts
<1>5. /\ LineBecomes(s)
      /\ chat' = IF r.what = "chat" /\ r.left = 0 THEN got ELSE chat
      /\ sym' = CASE r.what = "a" -> [sym EXCEPT !.a = m.rows]
                  [] r.what = "b" -> [sym EXCEPT !.b = m.rows]
                  [] OTHER -> sym
      /\ UNCHANGED <<spot, awaited, pictured, at, data, chatKey, on, excused>>
  BY DEF OnRows, LineAfter
<1>6. r.what \in {"chat", "a", "b"} /\ r.left \in 0 .. ChatQueries - 1 /\ ChatQueries \in Nat \ {0}
  BY <1>4, OverlayConstants DEF OverlayRequests
<1>7. /\ sym'.key = sym.key /\ sym'.drawn = sym.drawn /\ sym'.was = sym.was
      /\ sym'.elements = sym.elements /\ sym'.attached = sym.attached /\ Shaped(sym')
      /\ r.what = "a" => sym'.a = m.rows /\ sym'.b = sym.b
      /\ r.what = "b" => sym'.a = sym.a /\ sym'.b = m.rows
      /\ r.what = "chat" => sym' = sym
  <2>1. CASE r.what = "a"
    <3>1. sym' = [key |-> sym.key, a |-> m.rows, b |-> sym.b, drawn |-> sym.drawn, was |-> sym.was,
                  elements |-> sym.elements, attached |-> sym.attached]
      BY <1>1, <1>5, <2>1, EntryParts
    <3> HIDE DEF m, r
    <3> QED
      BY <2>1, <3>1 DEF Shaped
  <2>2. CASE r.what = "b"
    <3>1. sym' = [key |-> sym.key, a |-> sym.a, b |-> m.rows, drawn |-> sym.drawn, was |-> sym.was,
                  elements |-> sym.elements, attached |-> sym.attached]
      BY <1>1, <1>5, <2>2, EntryParts
    <3> HIDE DEF m, r
    <3> QED
      BY <2>2, <3>1 DEF Shaped
  <2>3. CASE r.what = "chat"
    <3>1. sym' = sym
      BY <1>5, <2>3
    <3> QED
      BY <1>1, <2>3, <3>1
  <2> QED
    BY <1>6, <2>1, <2>2, <2>3
<1>8. s = LineAfter(r, m.rows)
  OBVIOUS
<1>9. l = LineOf(active, queue)
  OBVIOUS
<1>10. fromEngine' = t
  OBVIOUS
<1>11. Current(t, pictured) => Current(fromEngine, pictured)
  <2>1. m.type # "reverted" /\ m.type # "frame"
    OBVIOUS
  <2> QED
    BY <1>1, <2>1, CurrentBefore
<1>12. Current(t, pictured) => m.rows = RowsOf(r.what, pictured, data)
  BY <1>2, <1>11
<1>13. got = r.rows \cup m.rows
  OBVIOUS
<1>14. /\ chatKey = pictured /\ pictured \notin Gap /\ "chat" \notin excused /\ Current(t, pictured) =>
             ChatSettles(l, chat, R)
       /\ pictured # NoPlace /\ "symbols" \notin excused =>
             /\ sym.key = pictured /\ pictured \notin Gap /\ on
             /\ Current(t, pictured) => SymbolsSettle(l, sym, R)
  BY <1>11 DEF OverlaysInv, ChatInv, SymbolsInv
<1>15. /\ OverlaysTyped /\ pictured \in Places \cup {NoPlace} /\ LayerInv(pictured, sym)
  BY <1>1 DEF OverlaysInv, OverlaysTyped
<1> HIDE DEF m, t, l, r, got, s
<1>16. /\ Line(s, {}) /\ l \in Seq(OverlayRequests) /\ l # <<>> /\ Head(l) = r
       /\ r.what = "chat" /\ r.left = 0 => LineOf(s.active, s.queue) = Tail(l)
       /\ r.what = "b" => LineOf(s.active, s.queue) = Tail(l)
       /\ r.what = "chat" /\ r.left > 0 => \E q \in OverlayRequests :
             NextAsked(r, m.rows, q) /\ LineOf(s.active, s.queue) = Append(Tail(l), q)
       /\ r.what = "a" => \E q \in OverlayRequests :
             q.what = "b" /\ LineOf(s.active, s.queue) = Append(Tail(l), q)
  <2>1. Line(s, {}) /\ l \in Seq(OverlayRequests) /\ l # <<>> /\ Head(l) = r
        /\ NextInLine(LineOf(s.active, s.queue), l, r, m.rows)
    BY <1>1, <1>4, <1>8, <1>9, RowsTaken
  <2> QED
    BY <2>1 DEF NextInLine
<1>17. /\ active' = s.active /\ queue' = s.queue
       /\ active' \subseteq OverlayRequests /\ (\A x, y \in active' : x = y)
       /\ queue' \in Seq(OverlayRequests) /\ (active' = {} => queue' = <<>>)
       /\ toEngine' \in Seq(ToEngine) /\ SqlWired(toEngine', t, active')
       /\ Carries({"frame"}, toEngine', t, awaited)
  BY <1>1, <1>2, <1>3, <1>5, <1>16, LineInstalled
<1>18. OverlaysTyped'
  BY <1>2, <1>5, <1>7, <1>10, <1>15, <1>17 DEF OverlaysTyped
<1>19. OverlaysWired'
  BY <1>2, <1>5, <1>10, <1>17 DEF OverlaysWired
<1>20. Tail(l) \in Seq(OverlayRequests)
  BY <1>16
<1> DEFINE k == LineOf(active', queue')
<1>21. k = LineOf(s.active, s.queue)
  BY <1>17
<1> HIDE DEF k
<1>22. ChatInv(k, t, pictured, data, chatKey, chat', excused)
  <2> SUFFICES ASSUME Current(t, pictured), chatKey = pictured, pictured \notin Gap, "chat" \notin excused
               PROVE  ChatSettles(k, chat', R)
    BY DEF ChatInv
  <2>1. ChatSettles(l, chat, R)
    BY <1>14
  <2>2. Head(l).what = "chat" => got = Head(l).rows \cup R
    BY <1>12, <1>13, <1>16 DEF RowsOf
  <2> HIDE DEF R
  <2>3. /\ Head(l).what # "chat" => ChatSettles(Tail(l), chat, R)
        /\ Head(l).what = "chat" /\ Head(l).left = 0 => ChatSettles(Tail(l), got, R)
        /\ \A q \in OverlayRequests :
              (Head(l).what = "chat" /\ Head(l).left > 0 /\ q.what = "chat"
                 /\ q.left = Head(l).left - 1 /\ q.rows = got)
              => ChatSettles(Append(Tail(l), q), chat, R)
    BY <1>16, <2>1, <2>2, ChatAnswered
  <2>4. CASE r.what = "chat" /\ r.left = 0
    BY <1>5, <1>16, <1>21, <2>3, <2>4
  <2>5. CASE r.what = "chat" /\ r.left > 0
    <3>1. PICK q \in OverlayRequests : /\ q.what = "chat" /\ q.left = r.left - 1 /\ q.rows = got
                                       /\ LineOf(s.active, s.queue) = Append(Tail(l), q)
      BY <1>13, <1>16, <2>5 DEF NextAsked
    <3>2. chat' = chat
      BY <1>5, <2>5
    <3>3. ChatSettles(Append(Tail(l), q), chat, R)
      BY <1>16, <2>3, <2>5, <3>1
    <3> QED
      BY <1>21, <3>1, <3>2, <3>3
  <2>6. CASE r.what = "a"
    <3>1. PICK q \in OverlayRequests : q.what = "b" /\ LineOf(s.active, s.queue) = Append(Tail(l), q)
      BY <1>16, <2>6
    <3>2. chat' = chat /\ ChatSettles(Tail(l), chat, R)
      BY <1>5, <1>16, <2>3, <2>6
    <3>3. ChatSettles(Append(Tail(l), q), chat, R)
      BY <1>20, <3>1, <3>2, ChatAskedFor
    <3> QED
      BY <1>21, <3>1, <3>2, <3>3
  <2>7. CASE r.what = "b"
    <3>1. chat' = chat /\ ChatSettles(Tail(l), chat, R)
      BY <1>5, <1>16, <2>3, <2>7
    <3> QED
      BY <1>16, <1>21, <2>7, <3>1
  <2> QED
    BY <1>6, <2>4, <2>5, <2>6, <2>7
<1>23. SymbolsInv(k, t, pictured, data, sym', on, excused)
  <2> SUFFICES ASSUME pictured # NoPlace, "symbols" \notin excused
               PROVE  /\ sym'.key = pictured /\ pictured \notin Gap /\ on
                      /\ Current(t, pictured) => SymbolsSettle(k, sym', R)
    BY DEF SymbolsInv
  <2>1. sym'.key = pictured /\ pictured \notin Gap /\ on
    BY <1>7, <1>14
  <2> SUFFICES ASSUME Current(t, pictured) PROVE SymbolsSettle(k, sym', R)
    BY <2>1
  <2>2. SymbolsSettle(l, sym, R)
    BY <1>14
  <2>3. m.rows = R
    BY <1>12, <2>1 DEF RowsOf
  <2> HIDE DEF R
  <2>4. /\ Head(l).what = "chat" => sym'.a = sym.a /\ sym'.b = sym.b
        /\ Head(l).what = "a" => sym'.a = R /\ sym'.b = sym.b
        /\ Head(l).what = "b" => sym'.a = sym.a /\ sym'.b = R
    BY <1>7, <1>16, <2>3
  <2>5. /\ Head(l).what # "a" => SymbolsSettle(Tail(l), sym', R)
        /\ \A q \in OverlayRequests :
              Head(l).what = "a" /\ q.what = "b" => SymbolsSettle(Append(Tail(l), q), sym', R)
    BY <1>16, <2>2, <2>4, SymbolsAnswered
  <2>6. CASE r.what = "chat" /\ r.left = 0
    BY <1>16, <1>21, <2>5, <2>6
  <2>7. CASE r.what = "chat" /\ r.left > 0
    <3>1. PICK q \in OverlayRequests : /\ q.what = "chat" /\ q.left = r.left - 1 /\ q.rows = got
                                       /\ LineOf(s.active, s.queue) = Append(Tail(l), q)
      BY <1>13, <1>16, <2>7 DEF NextAsked
    <3>2. SymbolsSettle(Tail(l), sym', R)
      BY <1>16, <2>5, <2>7
    <3>3. SymbolsSettle(Append(Tail(l), q), sym', R)
      BY <1>20, <3>1, <3>2, SymbolsAskedFor
    <3> QED
      BY <1>21, <3>1, <3>3
  <2>8. CASE r.what = "a"
    <3>1. PICK q \in OverlayRequests : q.what = "b" /\ LineOf(s.active, s.queue) = Append(Tail(l), q)
      BY <1>16, <2>8
    <3>2. SymbolsSettle(Append(Tail(l), q), sym', R)
      BY <1>16, <2>5, <2>8, <3>1
    <3> QED
      BY <1>21, <3>1, <3>2
  <2>9. CASE r.what = "b"
    BY <1>16, <1>21, <2>5, <2>9
  <2> QED
    BY <1>6, <2>6, <2>7, <2>8, <2>9
<1>24. ChatInv(LineOf(active, queue), fromEngine, pictured, data, chatKey, chat, excused)'
  BY <1>5, <1>10, <1>22 DEF k
<1>25. SymbolsInv(LineOf(active, queue), fromEngine, pictured, data, sym, on, excused)'
  BY <1>5, <1>10, <1>23 DEF k
<1>26. LayerInv(pictured, sym)'
  BY <1>5, <1>7, <1>15 DEF LayerInv
<1> QED
  BY <1>18, <1>19, <1>24, <1>25, <1>26 DEF OverlaysInv

\* The two passes over the layer.
LEMMA DrawnParts ==
    ASSUME NEW y, Shaped(y)
    PROVE  Drawn(y) = [key |-> y.key, a |-> y.a, b |-> y.b, drawn |-> y.a, was |-> y.was,
                       elements |-> KeysOf(y.a),
                       attached |-> (y.attached \cup (KeysOf(y.a) \ y.elements)) \cap KeysOf(y.a)]
<1> DEFINE z == [key |-> y.key, a |-> y.a, b |-> y.b, drawn |-> y.drawn, was |-> y.was,
                 elements |-> y.elements, attached |-> y.attached]
           g == KeysOf(y.a)
           h == (y.attached \cup (g \ y.elements)) \cap g
<1>1. y = z
  BY DEF Shaped
<1>2. ASSUME NEW u, NEW v, NEW w
      PROVE  [z EXCEPT !.drawn = u, !.elements = v, !.attached = w]
                 = [key |-> y.key, a |-> y.a, b |-> y.b, drawn |-> u, was |-> y.was, elements |-> v,
                    attached |-> w]
  <2> DEFINE d == [z EXCEPT !.drawn = u]
             e == [d EXCEPT !.elements = v]
  <2>1. [z EXCEPT !.drawn = u, !.elements = v, !.attached = w] = [e EXCEPT !.attached = w]
    OBVIOUS
  <2>2. d = [key |-> y.key, a |-> y.a, b |-> y.b, drawn |-> u, was |-> y.was,
             elements |-> y.elements, attached |-> y.attached]
    OBVIOUS
  <2> HIDE DEF d
  <2>3. e = [key |-> y.key, a |-> y.a, b |-> y.b, drawn |-> u, was |-> y.was,
             elements |-> v, attached |-> y.attached]
    BY <2>2
  <2> HIDE DEF e
  <2>4. [e EXCEPT !.attached = w] = [key |-> y.key, a |-> y.a, b |-> y.b, drawn |-> u, was |-> y.was,
                                     elements |-> v, attached |-> w]
    BY <2>3
  <2> QED
    BY <2>1, <2>4 DEF d, e
<1>3. Drawn(y) = [y EXCEPT !.drawn = y.a, !.elements = g, !.attached = h]
  BY DEF Drawn
<1> HIDE DEF z
<1>4. [y EXCEPT !.drawn = y.a, !.elements = g, !.attached = h]
          = [key |-> y.key, a |-> y.a, b |-> y.b, drawn |-> y.a, was |-> y.was, elements |-> g,
             attached |-> h]
  <2> DEFINE f == y.a
  <2> HIDE DEF f, g, h
  <2>1. [z EXCEPT !.drawn = f, !.elements = g, !.attached = h]
            = [key |-> y.key, a |-> y.a, b |-> y.b, drawn |-> f, was |-> y.was, elements |-> g,
               attached |-> h]
    BY <1>2
  <2> QED
    BY <1>1, <2>1 DEF f
<1> QED
  BY <1>3, <1>4

\* The entry after a frame, as a record.
LEMMA EntryOnFrame ==
    ASSUME NEW y, Shaped(y), NEW p, NEW o
    PROVE  /\ [y EXCEPT !.attached = {}, !.was = o]
                  = [key |-> y.key, a |-> y.a, b |-> y.b, drawn |-> y.drawn, was |-> o,
                     elements |-> y.elements, attached |-> {}]
           /\ [y EXCEPT !.key = p, !.was = o]
                  = [key |-> p, a |-> y.a, b |-> y.b, drawn |-> y.drawn, was |-> o,
                     elements |-> y.elements, attached |-> y.attached]
<1> DEFINE z == [key |-> y.key, a |-> y.a, b |-> y.b, drawn |-> y.drawn, was |-> y.was,
                 elements |-> y.elements, attached |-> y.attached]
<1>1. y = z
  BY DEF Shaped
<1>2. ASSUME NEW w PROVE [z EXCEPT !.attached = w, !.was = o]
                            = [key |-> y.key, a |-> y.a, b |-> y.b, drawn |-> y.drawn, was |-> o,
                               elements |-> y.elements, attached |-> w]
  <2> DEFINE d == [z EXCEPT !.attached = w]
  <2>1. [z EXCEPT !.attached = w, !.was = o] = [d EXCEPT !.was = o]
    OBVIOUS
  <2>2. d = [key |-> y.key, a |-> y.a, b |-> y.b, drawn |-> y.drawn, was |-> y.was,
             elements |-> y.elements, attached |-> w]
    OBVIOUS
  <2> HIDE DEF d
  <2>3. [d EXCEPT !.was = o] = [key |-> y.key, a |-> y.a, b |-> y.b, drawn |-> y.drawn, was |-> o,
                                elements |-> y.elements, attached |-> w]
    BY <2>2
  <2> QED
    BY <2>1, <2>3 DEF d
<1>3. [z EXCEPT !.key = p, !.was = o]
          = [key |-> p, a |-> y.a, b |-> y.b, drawn |-> y.drawn, was |-> o,
             elements |-> y.elements, attached |-> y.attached]
  <2> DEFINE d == [z EXCEPT !.key = p]
  <2>1. [z EXCEPT !.key = p, !.was = o] = [d EXCEPT !.was = o]
    OBVIOUS
  <2>2. d = [key |-> p, a |-> y.a, b |-> y.b, drawn |-> y.drawn, was |-> y.was,
             elements |-> y.elements, attached |-> y.attached]
    OBVIOUS
  <2> HIDE DEF d
  <2>3. [d EXCEPT !.was = o] = [key |-> p, a |-> y.a, b |-> y.b, drawn |-> y.drawn, was |-> o,
                                elements |-> y.elements, attached |-> y.attached]
    BY <2>2
  <2> QED
    BY <2>1, <2>3 DEF d
<1> HIDE DEF z
<1> QED
  BY <1>1, <1>2, <1>3

\* What the layer is after a frame.
LEMMA LayerOnFrame ==
    ASSUME OverlaysTyped, LayerInv(pictured, sym), NEW p \in Places, OnFrameSymbols(p)
    PROVE  /\ LayerInv(p, sym') /\ Shaped(sym') /\ sym'.a = sym.a /\ sym'.b = sym.b
           /\ sym'.key = IF LayerBlank(p) THEN sym.key ELSE p
<1>1. Shaped(sym)
  BY DEF OverlaysTyped
<1>2. CASE LayerBlank(p)
  <2>1. sym' = [key |-> sym.key, a |-> sym.a, b |-> sym.b, drawn |-> sym.drawn, was |-> on,
                elements |-> sym.elements, attached |-> {}]
    BY <1>1, <1>2, EntryOnFrame DEF OnFrameSymbols
  <2> QED
    BY <1>2, <2>1 DEF Shaped, LayerInv
<1>3. CASE ~LayerBlank(p)
  <2> DEFINE y == [key |-> p, a |-> sym.a, b |-> sym.b, drawn |-> sym.drawn, was |-> on,
                   elements |-> sym.elements, attached |-> sym.attached]
             g == KeysOf(sym.a)
  <2>1. [sym EXCEPT !.key = p, !.was = on] = y
    BY <1>1, EntryOnFrame
  <2>2. sym' = Drawn(y)
    BY <1>3, <2>1 DEF OnFrameSymbols
  <2>3. Shaped(y)
    BY DEF Shaped
  <2>4. sym' = [key |-> p, a |-> sym.a, b |-> sym.b, drawn |-> sym.a, was |-> on,
                elements |-> g, attached |-> (sym.attached \cup (g \ sym.elements)) \cap g]
    <3>1. /\ y.key = p /\ y.a = sym.a /\ y.b = sym.b /\ y.was = on /\ y.elements = sym.elements
          /\ y.attached = sym.attached
      OBVIOUS
    <3> HIDE DEF y
    <3> QED
      BY <2>2, <2>3, <3>1, DrawnParts
  <2>5. ~(p \in Gap) /\ on
    BY <1>3 DEF LayerBlank
  <2>6. /\ sym'.key = p /\ sym'.a = sym.a /\ sym'.b = sym.b /\ sym'.drawn = sym.a /\ sym'.was = on
        /\ sym'.elements = g /\ sym'.attached \subseteq g /\ Shaped(sym')
    <3> HIDE DEF g
    <3> QED
      BY <2>4 DEF Shaped
  <2>7. LayerInv(p, sym')
    BY <2>5, <2>6 DEF LayerInv
  <2> QED
    BY <1>3, <2>6, <2>7
<1> QED
  BY <1>2, <1>3

\* What a frame asks for, after the line as it was.
LineJoined(k, l, p) ==
    \E c, s \in Seq(OverlayRequests) :
        /\ IF ChatWanted(p) /\ p \notin Gap
           THEN \E r \in OverlayRequests : /\ r.what = "chat" /\ r.left = ChatQueries - 1 /\ r.rows = {}
                                           /\ c = Append(l, r)
           ELSE c = l
        /\ IF ~LayerBlank(p) /\ p # sym.key
           THEN \E r \in OverlayRequests : r.what = "a" /\ s = Append(c, r)
           ELSE s = c
        /\ k = s

\* What a frame asks for joins the line.
LEMMA FrameAsks ==
    ASSUME OverlaysTyped, NEW p, NEW s, s = SymbolsAsked(ChatAsked(OverlayLine, p), p)
    PROVE  Line(s, active) /\ LineJoined(LineOf(s.active, s.queue), LineOf(active, queue), p)
<1> DEFINE c == ChatAsked(OverlayLine, p)
           l == LineOf(active, queue)
           C == ChatWanted(p) /\ p \notin Gap
           A == ~LayerBlank(p) /\ p # sym.key
           k == LineOf(c.active, c.queue)
           n == LineOf(s.active, s.queue)
<1>1. /\ Line(OverlayLine, active) /\ OverlayLine.active = active /\ OverlayLine.queue = queue
      /\ l \in Seq(OverlayRequests)
  BY LineAsIs
<1>2. ChatQueries - 1 \in 0 .. ChatQueries - 1 /\ 0 \in 0 .. ChatQueries - 1 /\ {} \in SqlRows
  BY OverlayConstants DEF SqlRows
<1>3. /\ Line(c, active) /\ k \in Seq(OverlayRequests)
      /\ IF C THEN \E r \in OverlayRequests : /\ r.what = "chat" /\ r.left = ChatQueries - 1
                                              /\ r.rows = {} /\ k = Append(l, r)
         ELSE k = l
  <2>1. CASE C
    <3> DEFINE r == OverlayRequest("chat", ChatQueries - 1, {})
    <3>1. r \in OverlayRequests /\ r.what = "chat" /\ r.left = ChatQueries - 1 /\ r.rows = {}
      BY <1>2, RequestTyped
    <3>2. c = OverlayAsked(OverlayLine, r)
      BY <2>1 DEF ChatAsked
    <3> HIDE DEF r, c
    <3>3. Line(c, active) /\ k = Append(l, r)
      BY <1>1, <3>1, <3>2, LineAsked
    <3>4. Append(l, r) \in Seq(OverlayRequests)
      BY <1>1, <3>1
    <3> HIDE DEF k, l, C
    <3> QED
      BY <2>1, <3>1, <3>3, <3>4
  <2>2. CASE ~C
    <3>1. c = OverlayLine
      BY <2>2 DEF ChatAsked
    <3> QED
      BY <1>1, <2>2, <3>1
  <2> QED
    BY <2>1, <2>2
<1>4. s = SymbolsAsked(c, p)
  OBVIOUS
<1> HIDE DEF c, C
<1>5. /\ Line(s, active) /\ n \in Seq(OverlayRequests)
      /\ IF A THEN \E r \in OverlayRequests : r.what = "a" /\ n = Append(k, r) ELSE n = k
  <2>1. CASE A
    <3> DEFINE r == OverlayRequest("a", 0, {})
    <3>1. r \in OverlayRequests /\ r.what = "a"
      BY <1>2, RequestTyped
    <3>2. s = OverlayAsked(c, r)
      BY <1>4, <2>1 DEF SymbolsAsked
    <3> HIDE DEF r
    <3>3. Line(s, active) /\ n = Append(k, r)
      BY <1>3, <3>1, <3>2, LineAsked
    <3>4. Append(k, r) \in Seq(OverlayRequests)
      BY <1>3, <3>1
    <3> HIDE DEF k, n, A
    <3> QED
      BY <2>1, <3>1, <3>3, <3>4
  <2>2. CASE ~A
    <3>1. s = c
      BY <1>4, <2>2 DEF SymbolsAsked
    <3> QED
      BY <1>3, <2>2, <3>1
  <2> QED
    BY <2>1, <2>2
<1> HIDE DEF k, n, l
<1>6. LineJoined(n, l, p)
  BY <1>3, <1>5 DEF LineJoined, C
<1> QED
  BY <1>5, <1>6 DEF n, l

\* A frame that shows what was shown leaves the chains to their ends, and one
\* that does not begins new ones.
LEMMA ChatJoined ==
    ASSUME NEW k, NEW l \in Seq(OverlayRequests), NEW p, LineJoined(k, l, p), p \notin Gap, NEW shows, NEW R,
           ~ChatWanted(p) => ChatSettles(l, shows, R)
    PROVE  ChatSettles(k, shows, R)
<1>1. PICK c, s \in Seq(OverlayRequests) :
         /\ IF ChatWanted(p) /\ p \notin Gap
            THEN \E r \in OverlayRequests : /\ r.what = "chat" /\ r.left = ChatQueries - 1 /\ r.rows = {}
                                            /\ c = Append(l, r)
            ELSE c = l
         /\ IF ~LayerBlank(p) /\ p # sym.key
            THEN \E r \in OverlayRequests : r.what = "a" /\ s = Append(c, r)
            ELSE s = c
         /\ k = s
  BY DEF LineJoined
<1>2. ChatSettles(c, shows, R)
  <2>1. CASE ChatWanted(p)
    <3>1. PICK r \in OverlayRequests : /\ r.what = "chat" /\ r.left = ChatQueries - 1 /\ r.rows = {}
                                       /\ c = Append(l, r)
      BY <1>1, <2>1
    <3> QED
      BY <3>1, ChatAskedFor
  <2>2. CASE ~ChatWanted(p)
    BY <1>1, <2>2
  <2> QED
    BY <2>1, <2>2
<1>3. CASE ~LayerBlank(p) /\ p # sym.key
  <2>1. PICK r \in OverlayRequests : r.what = "a" /\ s = Append(c, r)
    BY <1>1, <1>3
  <2> QED
    BY <1>1, <1>2, <2>1, ChatAskedFor
<1>4. CASE ~(~LayerBlank(p) /\ p # sym.key)
  BY <1>1, <1>2, <1>4
<1> QED
  BY <1>3, <1>4

\* The symbols settle still, or anew, once a frame has asked.
LEMMA SymbolsJoined ==
    ASSUME NEW k, NEW l \in Seq(OverlayRequests), NEW p, LineJoined(k, l, p), NEW y, NEW R,
           ~(~LayerBlank(p) /\ p # sym.key) => SymbolsSettle(l, y, R)
    PROVE  SymbolsSettle(k, y, R)
<1>1. PICK c, s \in Seq(OverlayRequests) :
         /\ IF ChatWanted(p) /\ p \notin Gap
            THEN \E r \in OverlayRequests : /\ r.what = "chat" /\ r.left = ChatQueries - 1 /\ r.rows = {}
                                            /\ c = Append(l, r)
            ELSE c = l
         /\ IF ~LayerBlank(p) /\ p # sym.key
            THEN \E r \in OverlayRequests : r.what = "a" /\ s = Append(c, r)
            ELSE s = c
         /\ k = s
  BY DEF LineJoined
<1>2. CASE ~LayerBlank(p) /\ p # sym.key
  <2>1. PICK r \in OverlayRequests : r.what = "a" /\ s = Append(c, r)
    BY <1>1, <1>2
  <2> QED
    BY <1>1, <2>1, SymbolsAskedFor
<1>3. CASE ~(~LayerBlank(p) /\ p # sym.key)
  <2>1. SymbolsSettle(l, y, R) /\ k = c
    BY <1>1, <1>3
  <2>2. CASE ChatWanted(p) /\ p \notin Gap
    <3>1. PICK r \in OverlayRequests : /\ r.what = "chat" /\ r.left = ChatQueries - 1 /\ r.rows = {}
                                       /\ c = Append(l, r)
      BY <1>1, <2>2
    <3> QED
      BY <2>1, <3>1, SymbolsAskedFor
  <2>3. CASE ~(ChatWanted(p) /\ p \notin Gap)
    BY <1>1, <2>1, <2>3
  <2> QED
    BY <2>2, <2>3
<1> QED
  BY <1>2, <1>3

\* A frame is read.
LEMMA OverlaysFrame ==
    ASSUME OverlaysInv, fromEngine # <<>>, Head(fromEngine).type = "frame",
           fromEngine' = Tail(fromEngine), OverlaysOnFrame(Head(fromEngine)), UNCHANGED <<at, data>>
    PROVE  OverlaysInv'
<1> DEFINE m == Head(fromEngine)
           t == Tail(fromEngine)
           l == LineOf(active, queue)
           p == m.at
           s == SymbolsAsked(ChatAsked(OverlayLine, p), p)
           R == {<<p, data>>}
<1>1. /\ OverlaysTyped /\ toEngine \in Seq(ToEngine) /\ fromEngine \in Seq(FromEngine)
      /\ awaited \in BOOLEAN /\ Shaped(sym) /\ excused \subseteq {"chat", "symbols"}
      /\ chatKey \in {pictured, NoKey} /\ sym.key \in Places \cup {NoKey}
  BY DEF OverlaysInv, OverlaysTyped
<1>2. /\ m \in FromEngine /\ t \in Seq(FromEngine) /\ SqlWired(toEngine, t, active)
      /\ AtTold(t, p, at) /\ AnswersTold(t, p, data)
      /\ Carries({"frame"}, toEngine, t, awaited /\ m.type # "frame")
      /\ \A v : Current(t, v) <=> PlacesOf({"reverted"}, t) = {}
  BY OverlaysRead
<1>3. Carries({"frame"}, toEngine, t, FALSE)
  <2>1. (awaited /\ m.type # "frame") = FALSE
    OBVIOUS
  <2> QED
    BY <1>2, <2>1
<1>4. p \in Places
  BY <1>2, MessageParts
<1>5. p # NoPlace /\ p # NoKey
  BY <1>4, OverlayConstants DEF NoPlace, NoKey
<1>6. /\ awaited' = FALSE /\ pictured' = p /\ chatKey' = p
      /\ chat' = IF ChatWanted(p) /\ p \in Gap THEN {} ELSE chat
      /\ OnFrameSymbols(p)
      /\ excused' = (excused \ ((IF ChatWanted(p) THEN {"chat"} ELSE {})
                                \cup (IF ~LayerBlank(p) /\ p # sym.key THEN {"symbols"} ELSE {})))
                    \cup (IF LayerBlank(p) THEN {"symbols"} ELSE {})
      /\ LineBecomes(s)
      /\ UNCHANGED <<spot, on, at, data>>
  BY DEF OverlaysOnFrame
<1>7. s = SymbolsAsked(ChatAsked(OverlayLine, p), p) /\ fromEngine' = t
  OBVIOUS
<1>8. l \in Seq(OverlayRequests)
  BY <1>1, LineAsIs
<1>9. PlacesOf({"reverted"}, t) = {} /\ p = pictured => Current(fromEngine, pictured)
  <2>1. PlacesOf({"reverted"}, t) = {} => Current(t, p)
    BY <1>2
  <2>2. m.type = "frame" /\ m.type # "reverted"
    OBVIOUS
  <2> QED
    BY <1>1, <2>1, <2>2, CurrentBefore
<1>10. /\ Current(fromEngine, pictured) /\ chatKey = pictured /\ pictured \notin Gap
              /\ "chat" \notin excused => ChatSettles(l, chat, {<<pictured, data>>})
       /\ pictured # NoPlace /\ "symbols" \notin excused =>
             /\ sym.key = pictured /\ pictured \notin Gap /\ on
             /\ Current(fromEngine, pictured) => SymbolsSettle(l, sym, {<<pictured, data>>})
       /\ LayerInv(pictured, sym)
  BY DEF OverlaysInv, ChatInv, SymbolsInv
<1> HIDE DEF m, t, l, p, s
<1>11. Line(s, active) /\ LineJoined(LineOf(s.active, s.queue), l, p)
  BY <1>1, <1>7, FrameAsks DEF l
<1>12. /\ active' = s.active /\ queue' = s.queue
       /\ active' \subseteq OverlayRequests /\ (\A x, y \in active' : x = y)
       /\ queue' \in Seq(OverlayRequests) /\ (active' = {} => queue' = <<>>)
       /\ toEngine' \in Seq(ToEngine) /\ SqlWired(toEngine', t, active')
       /\ Carries({"frame"}, toEngine', t, FALSE)
  BY <1>1, <1>2, <1>3, <1>6, <1>11, LineInstalled
<1>13. /\ LayerInv(p, sym') /\ Shaped(sym') /\ sym'.a = sym.a /\ sym'.b = sym.b
       /\ sym'.key = IF LayerBlank(p) THEN sym.key ELSE p
  BY <1>1, <1>4, <1>6, <1>10, LayerOnFrame
<1>14. OverlaysTyped'
  <2>1. excused' \subseteq {"chat", "symbols"}
    BY <1>1, <1>6
  <2>2. sym'.key \in Places \cup {NoKey}
    BY <1>1, <1>4, <1>13
  <2>4. pictured' # NoPlace
    BY <1>5, <1>6
  <2>3. /\ chatKey' \in {pictured', NoKey} /\ chatKey' \in Places \cup {NoKey}
        /\ pictured' \in Places \cup {NoPlace} /\ awaited' \in BOOLEAN
    BY <1>4, <1>6
  <2> QED
    BY <1>1, <1>2, <1>6, <1>7, <1>12, <1>13, <2>1, <2>2, <2>3, <2>4 DEF OverlaysTyped
<1>15. OverlaysWired'
  BY <1>2, <1>6, <1>7, <1>12 DEF OverlaysWired
<1> DEFINE k == LineOf(active', queue')
<1>16. LineJoined(k, l, p)
  BY <1>11, <1>12
<1> HIDE DEF k
<1>17. ChatInv(k, t, p, data, p, chat', excused')
  <2> SUFFICES ASSUME Current(t, p), p \notin Gap, "chat" \notin excused'
               PROVE  ChatSettles(k, chat', R)
    BY DEF ChatInv
  <2>1. chat' = chat
    BY <1>6
  <2>2. ASSUME ~ChatWanted(p) PROVE ChatSettles(l, chat, R)
    <3>1. p = chatKey /\ p = pictured
      BY <1>1, <1>5, <2>2 DEF ChatWanted
    <3>2. "chat" \notin excused
      BY <1>6, <2>2
    <3>3. Current(fromEngine, pictured)
      BY <1>2, <1>9, <3>1
    <3> QED
      BY <1>10, <3>1, <3>2, <3>3
  <2> HIDE DEF R
  <2> QED
    BY <1>8, <1>16, <2>1, <2>2, ChatJoined
<1>18. SymbolsInv(k, t, p, data, sym', on, excused')
  <2> SUFFICES ASSUME p # NoPlace, "symbols" \notin excused'
               PROVE  /\ sym'.key = p /\ p \notin Gap /\ on
                      /\ Current(t, p) => SymbolsSettle(k, sym', R)
    BY DEF SymbolsInv
  <2>1. ~LayerBlank(p)
    BY <1>6
  <2>2. sym'.key = p /\ p \notin Gap /\ on
    BY <1>6, <1>13, <2>1 DEF LayerBlank
  <2> SUFFICES ASSUME Current(t, p) PROVE SymbolsSettle(k, sym', R)
    BY <2>2
  <2>3. ASSUME ~(~LayerBlank(p) /\ p # sym.key) PROVE SymbolsSettle(l, sym', R)
    <3>1. p = sym.key /\ "symbols" \notin excused
      BY <1>6, <2>1, <2>3
    <3>2. pictured # NoPlace
      BY <1>1, <1>5, <3>1 DEF OverlaysTyped
    <3>3. p = pictured
      BY <1>10, <3>1, <3>2
    <3>4. SymbolsSettle(l, sym, R)
      BY <1>2, <1>9, <1>10, <3>1, <3>2, <3>3
    <3>5. sym'.a = sym.a /\ sym'.b = sym.b
      BY <1>13
    <3> QED
      BY <3>4, <3>5 DEF SymbolsSettle
  <2> HIDE DEF R
  <2> QED
    BY <1>8, <1>16, <2>3, SymbolsJoined
<1>19. ChatInv(LineOf(active, queue), fromEngine, pictured, data, chatKey, chat, excused)'
  BY <1>6, <1>7, <1>17 DEF k
<1>20. SymbolsInv(LineOf(active, queue), fromEngine, pictured, data, sym, on, excused)'
  BY <1>6, <1>7, <1>18 DEF k
<1>21. LayerInv(pictured, sym)'
  BY <1>6, <1>13
<1> QED
  BY <1>14, <1>15, <1>19, <1>20, <1>21 DEF OverlaysInv

\* The page reads a message.
LEMMA OverlaysReads == OverlaysInv /\ OverlaysReceive => OverlaysInv'
<1> SUFFICES ASSUME OverlaysInv, OverlaysReceive PROVE OverlaysInv'
  OBVIOUS
<1>1. fromEngine # <<>> /\ fromEngine' = Tail(fromEngine) /\ UNCHANGED <<at, data>>
  BY DEF OverlaysReceive
<1>2. Head(fromEngine).type \in {"frame", "error", "done", "reverted"}
  <2>1. Head(fromEngine) \in FromEngine
    BY <1>1, OverlaysRead
  <2> QED
    BY <2>1, MessageParts
<1>3. CASE Head(fromEngine).type = "frame"
  <2>1. OverlaysOnFrame(Head(fromEngine))
    BY <1>3 DEF OverlaysReceive
  <2> QED
    BY <1>1, <1>3, <2>1, OverlaysFrame
<1>4. CASE Head(fromEngine).type = "done"
  <2>1. OnRows(Head(fromEngine))
    BY <1>4 DEF OverlaysReceive
  <2> QED
    BY <1>1, <1>4, <2>1, OverlaysRows
<1>5. CASE Head(fromEngine).type = "error"
  <2>1. OnRowsError(Head(fromEngine))
    BY <1>5 DEF OverlaysReceive
  <2> QED
    BY <1>1, <1>5, <2>1, OverlaysError
<1>6. CASE Head(fromEngine).type = "reverted"
  <2>1. OverlaysOnReverted
    BY <1>6 DEF OverlaysReceive
  <2> QED
    BY <1>1, <1>6, <2>1, OverlaysRevert
<1> QED
  BY <1>2, <1>3, <1>4, <1>5, <1>6

\* Every step.
LEMMA OverlaysSteps == OverlaysInv /\ [OverlaysNext]_overlayVars => OverlaysInv'
<1> SUFFICES ASSUME OverlaysInv, [OverlaysNext]_overlayVars PROVE OverlaysInv'
  OBVIOUS
<1>1. CASE OverlaysNext
  <2>1. \/ (\E p \in Places : MoveSpot(p)) \/ ToggleSymbols \/ RevertRows \/ AwaitFrame
        \/ OverlaysWork \/ OverlaysReceive
    BY <1>1 DEF OverlaysNext, OverlaysTurn
  <2> QED
    BY <2>1, OverlaysActs, OverlaysAnswers, OverlaysReads
<1>2. CASE UNCHANGED overlayVars
  <2>1. UNCHANGED <<spot, awaited, pictured, at, data, toEngine, fromEngine, active, queue, chatKey,
                    chat, sym, on, excused>>
    BY <1>2 DEF overlayVars, overlayAsking
  <2>2. OverlaysTyped'
    BY <2>1 DEF OverlaysInv, OverlaysTyped
  <2>3. OverlaysWired'
    BY <2>1 DEF OverlaysInv, OverlaysWired
  <2> QED
    BY <2>1, <2>2, <2>3 DEF OverlaysInv
<1> QED
  BY <1>1, <1>2

\* The invariant of the overlays.
LEMMA OverlaysAreSound == OverlaysSpec => []OverlaysInv
<1>1. OverlaysInit => OverlaysInv
  BY OverlaysStart
<1>2. OverlaysInv /\ [OverlaysNext]_overlayVars => OverlaysInv'
  BY OverlaysSteps
<1> QED
  BY <1>1, <1>2, PTL DEF OverlaysSpec

\* At rest the place at the cursor is pictured, and no request is left.
LEMMA AtRest ==
    ASSUME OverlaysInv, OverlaysRest
    PROVE  /\ Current(fromEngine, pictured) /\ pictured \in Places /\ pictured # NoPlace
           /\ NoneOf(LineOf(active, queue), {"chat"}) /\ NoneOf(LineOf(active, queue), {"a", "b"})
           /\ \A K, n : ~NewestOf(LineOf(active, queue), K, n)
<1>1. /\ active = {} /\ queue = <<>> /\ pictured = spot /\ at = spot
      /\ \A i \in DOMAIN fromEngine : fromEngine[i].type = "frame"
  BY DEF OverlaysRest
<1>2. spot \in Places /\ AtTold(fromEngine, pictured, at)
  BY DEF OverlaysInv, OverlaysTyped, OverlaysWired
<1>3. Current(fromEngine, pictured)
  BY <1>1, <1>2 DEF AtTold, Current, PlacesOf
<1>4. pictured # NoPlace
  BY <1>1, <1>2, OverlayConstants DEF NoPlace
<1>5. LineOf(active, queue) = <<>> /\ DOMAIN <<>> = {}
  BY <1>1 DEF LineOf
<1> QED
  BY <1>1, <1>2, <1>3, <1>4, <1>5 DEF NoneOf, NewestOf

\* What the invariant says of the overlays at rest.
LEMMA InvComesRight == OverlaysInv => OverlaysComeRight
<1> SUFFICES ASSUME OverlaysInv PROVE OverlaysComeRight
  OBVIOUS
<1>1. /\ ChatInv(LineOf(active, queue), fromEngine, pictured, data, chatKey, chat, excused)
      /\ SymbolsInv(LineOf(active, queue), fromEngine, pictured, data, sym, on, excused)
      /\ LayerInv(pictured, sym) /\ OverlaysTyped
  BY DEF OverlaysInv
<1>2. OverlaysTypeOK
  <2>1. queue \in Seq(OverlayRequests) /\ (active = {} => queue = <<>>)
    BY <1>1 DEF OverlaysTyped
  <2>2. \A i \in DOMAIN queue : queue[i] \in OverlayRequests
    BY <2>1, SeqParts
  <2>3. ASSUME NEW i \in DOMAIN queue PROVE active # {}
    BY <2>1, <2>3
  <2> QED
    BY <1>1, <2>2, <2>3 DEF OverlaysTyped, OverlaysTypeOK, LayerInv
<1>3. ChatComesRight
  <2> SUFFICES ASSUME OverlaysRest, pictured \notin Gap, "chat" \notin excused PROVE Fresh(chat)
    BY DEF ChatComesRight
  <2>1. Current(fromEngine, pictured) /\ \A K, n : ~NewestOf(LineOf(active, queue), K, n)
    BY AtRest
  <2>2. chatKey = pictured
    BY DEF OverlaysRest
  <2>3. ChatSettles(LineOf(active, queue), chat, {<<pictured, data>>})
    BY <1>1, <2>1, <2>2 DEF ChatInv
  <2> QED
    BY <2>1, <2>3 DEF ChatSettles, Fresh
<1>4. SymbolsComeRight
  <2> SUFFICES ASSUME OverlaysRest, "symbols" \notin excused PROVE Fresh(sym.a) /\ Fresh(sym.b)
    BY DEF SymbolsComeRight
  <2>1. /\ Current(fromEngine, pictured) /\ pictured # NoPlace
        /\ \A K, n : ~NewestOf(LineOf(active, queue), K, n)
    BY AtRest
  <2>2. SymbolsSettle(LineOf(active, queue), sym, {<<pictured, data>>})
    BY <1>1, <2>1 DEF SymbolsInv
  <2> QED
    BY <2>1, <2>2 DEF SymbolsSettle, Fresh
<1>5. NoForeignSymbols
  <2> SUFFICES ASSUME OverlaysRest
               PROVE  sym.attached \subseteq (IF LayerBlank(pictured) THEN {} ELSE KeysOf(sym.a))
    BY DEF NoForeignSymbols
  <2>1. sym.was = on /\ (LayerBlank(pictured) \/ sym.drawn = sym.a)
    BY DEF OverlaysRest
  <2>2. CASE LayerBlank(pictured)
    BY <1>1, <2>1, <2>2 DEF LayerBlank, LayerInv
  <2>3. CASE ~LayerBlank(pictured)
    BY <1>1, <2>1, <2>3 DEF LayerInv
  <2> QED
    BY <2>2, <2>3
<1> QED
  BY <1>2, <1>3, <1>4, <1>5 DEF OverlaysComeRight

\* However frames, queued requests, seeks and reverts overlap, the chat and the
\* symbols come to rest on the rows of the tick on screen and of no other, unless
\* something happened to them that the next tick answers (the frame handler,
\* refreshChatFromQuery and refreshNatoSymbolQuery).
THEOREM OverlaysAlwaysComeRight == OverlaysSpec => []OverlaysComeRight
BY OverlaysAreSound, InvComesRight, PTL

-----------------------------------------------------------------------------
(* The windows.                                                            *)

\* The window: what it looks like and what it remembers fit; the chat window hangs
\* from its lower edge, any other is where it was put, or goes back there.
PanelState == [kind : {"chat", "panel", "clone"}, shown : BOOLEAN, mode : Modes,
               minRestore : {Unset, "normal", "maximized"}, maxRestore : {Unset, "normal", "minimized"},
               wide : BOOLEAN, pinned : BOOLEAN, top : -ScreenH .. 2 * ScreenH, width : Widths,
               saved : SUBSET Rects, reopened : BOOLEAN, tall : 0 .. ScreenH - 1,
               rows : 0 .. ContentCap, anchor : 0 .. 2 * ScreenH, home : Rects]

Fits(x) == /\ x.wide => Full(x) /\ x.top = 0
           /\ x.pinned => x.mode = "maximized"
           /\ Full(x) /\ ~x.reopened => x.wide /\ (x.mode = "maximized" => x.pinned)
           /\ x.reopened => Full(x) /\ x.kind = "panel"
Hangs(x) == x.kind = "chat" /\ ~Full(x) => x.top = x.anchor - Height(x)
AtHome(x) == x.kind # "chat" =>
                 /\ x.home.top \in 0 .. ScreenH - 1 /\ x.top \in 0 .. ScreenH - 1
                 /\ IF Full(x) THEN x.saved = {x.home} ELSE Rect(x) = x.home

WindowInv(x) == x \in PanelState /\ Fits(x) /\ Hangs(x) /\ AtHome(x)

\* A content is not taller than the screen without the header.
LEMMA ContentFits ==
    ASSUME NEW x \in PanelState
    PROVE  Content(x) \in 0 .. ScreenH - 1 /\ Height(x) \in 1 .. ScreenH
BY PanelConstants DEF PanelState, Content, Height, Modes

\* The observer moves a chat window that does not fill the screen.
LEMMA SettledParts ==
    ASSUME NEW x \in PanelState
    PROVE  /\ Settled(x) \in PanelState
           /\ IF x.kind = "chat" /\ x.shown /\ ~Full(x)
              THEN Settled(x) = [x EXCEPT !.top = x.anchor - Height(x), !.pinned = FALSE]
              ELSE Settled(x) = x
<1>1. Height(x) \in 1 .. ScreenH /\ x.anchor \in 0 .. 2 * ScreenH /\ ScreenH \in Nat
  BY ContentFits, PanelConstants DEF PanelState
<1>2. x.anchor - Height(x) \in -ScreenH .. 2 * ScreenH
  BY <1>1
<1>3. [x EXCEPT !.top = x.anchor - Height(x), !.pinned = FALSE] \in PanelState
  BY <1>2 DEF PanelState
<1> QED
  BY <1>3 DEF Settled

\* A button enters its mode or leaves it,
Toggled(x, b) == IF x.mode = Mine(b) THEN Restored(x, b) ELSE Remembering(x, b)

\* ... and touches no more than the two memories.
LEMMA ToggledParts ==
    ASSUME NEW x \in PanelState, NEW b \in Buttons
    PROVE  /\ Toggled(x, b) \in PanelState
           /\ Toggled(x, b) = [x EXCEPT !.mode = Toggled(x, b).mode, !.minRestore = Toggled(x, b).minRestore,
                                        !.maxRestore = Toggled(x, b).maxRestore]
<1>1. CASE b = "minimize"
  BY <1>1 DEF PanelState, Toggled, Restored, Remembering, Mine, Unset, Modes
<1>2. CASE b = "maximize"
  BY <1>2 DEF PanelState, Toggled, Restored, Remembering, Mine, Unset, Modes
<1> QED
  BY <1>1, <1>2 DEF Buttons

\* z is y where x remembers to have been, or where nobody put it.
GoneBack(x, y, z) ==
    \E r \in Rects : /\ \A s : x.saved = {s} => r = s
                     /\ z = [y EXCEPT !.top = r.top, !.wide = FALSE, !.width = r.width, !.saved = {}]

\* A window spans the screen, or goes back to where it was.
LEMMA SpannedParts ==
    ASSUME NEW x \in PanelState, NEW y \in PanelState
    PROVE  /\ Spanned(x, y) \in PanelState
           /\ ~Full(x) /\ Full(y) =>
                 Spanned(x, y) = [y EXCEPT !.saved = {Rect(x)}, !.top = 0, !.wide = TRUE, !.width = "auto"]
           /\ Full(x) /\ ~Full(y) => GoneBack(x, y, Spanned(x, y))
           /\ (Full(x) <=> Full(y)) => Spanned(x, y) = y
<1>1. ScreenH \in Nat
  BY PanelConstants
<1>2. CASE ~Full(x) /\ Full(y)
  <2>1. Rect(x) \in Rects
    BY DEF Rect, Rects, PanelState
  <2>2. 0 \in -ScreenH .. 2 * ScreenH
    BY <1>1
  <2> QED
    BY <1>2, <2>1, <2>2 DEF Spanned, PanelState, Widths
<1>3. CASE Full(x) /\ ~Full(y)
  <2> DEFINE r == IF x.saved = {} THEN [top |-> 0, width |-> "plain"] ELSE CHOOSE s \in x.saved : TRUE
  <2>1. r \in Rects /\ \A s : x.saved = {s} => r = s
    BY <1>1 DEF Rects, Widths, PanelState
  <2>2. Spanned(x, y) = [y EXCEPT !.top = r.top, !.wide = FALSE, !.width = r.width, !.saved = {}]
    BY <1>3 DEF Spanned
  <2> HIDE DEF r
  <2>3. r.top \in -ScreenH .. 2 * ScreenH /\ r.width \in Widths
    BY <2>1 DEF Rects
  <2>4. Spanned(x, y) \in PanelState
    BY <2>2, <2>3 DEF PanelState
  <2>5. GoneBack(x, y, Spanned(x, y))
    BY <2>1, <2>2 DEF GoneBack
  <2> QED
    BY <1>3, <2>4, <2>5
<1>4. CASE Full(x) <=> Full(y)
  BY <1>4 DEF Spanned
<1> QED
  BY <1>2, <1>3, <1>4

\* A click leaves all in order, and a chat window where it hangs.
LEMMA TransitionKeeps ==
    ASSUME NEW x, WindowInv(x), x.shown, NEW b \in Buttons
    PROVE  /\ WindowInv(Transition(x, b))
           /\ x.kind = "chat" /\ ~Full(x) /\ ~Full(Transition(x, b)) =>
                 Transition(x, b).top + Height(Transition(x, b)) = x.top + Height(x)
           /\ Transition(x, b).mode = Toggled(x, b).mode
           /\ Transition(x, b).minRestore = Toggled(x, b).minRestore
           /\ Transition(x, b).maxRestore = Toggled(x, b).maxRestore
           /\ Transition(x, b).kind = x.kind /\ Transition(x, b).shown
<1> DEFINE y == Toggled(x, b)
           z == Spanned(x, y)
           p == [z EXCEPT !.pinned = (z.mode = "maximized"), !.reopened = @ /\ Full(z)]
           n == Settled(p)
<1>1. Transition(x, b) = n
  BY DEF Transition, Toggled
<1> SUFFICES /\ WindowInv(n)
             /\ x.kind = "chat" /\ ~Full(x) /\ ~Full(n) => n.top + Height(n) = x.top + Height(x)
             /\ n.mode = y.mode /\ n.minRestore = y.minRestore /\ n.maxRestore = y.maxRestore
             /\ n.kind = x.kind /\ n.shown
  BY <1>1
<1>2. x \in PanelState /\ Fits(x) /\ Hangs(x) /\ AtHome(x) /\ ScreenH \in Nat /\ ScreenH >= 2
  BY PanelConstants DEF WindowInv
<1>3. /\ y \in PanelState
      /\ y = [x EXCEPT !.mode = y.mode, !.minRestore = y.minRestore, !.maxRestore = y.maxRestore]
  BY <1>2, ToggledParts
<1> HIDE DEF y
<1>4. /\ y.kind = x.kind /\ y.shown /\ y.wide = x.wide /\ y.pinned = x.pinned /\ y.top = x.top
      /\ y.width = x.width /\ y.saved = x.saved /\ y.tall = x.tall /\ y.rows = x.rows
      /\ y.anchor = x.anchor /\ y.home = x.home /\ y.reopened = x.reopened
  BY <1>2, <1>3 DEF PanelState
<1>5. /\ z \in PanelState
      /\ z.kind = x.kind /\ z.shown /\ z.mode = y.mode /\ z.minRestore = y.minRestore
      /\ z.maxRestore = y.maxRestore /\ z.anchor = x.anchor /\ z.home = x.home
      /\ z.reopened = x.reopened
      /\ z.wide => Full(y) /\ z.top = 0
      /\ Full(y) /\ ~x.reopened => z.wide
      /\ ~Full(x) /\ Full(y) => z.top = 0
      /\ (Full(x) <=> Full(y)) => z.top = x.top /\ z.width = x.width /\ z.saved = x.saved
      /\ ~Full(x) /\ Full(y) => z.saved = {Rect(x)}
      /\ Full(x) /\ ~Full(y) => z.saved = {} /\ \A s : x.saved = {s} => z.top = s.top /\ z.width = s.width
  <2>1. CASE ~Full(x) /\ Full(y)
    <3>1. z \in PanelState /\ z = [y EXCEPT !.saved = {Rect(x)}, !.top = 0, !.wide = TRUE, !.width = "auto"]
      BY <1>2, <1>3, <2>1, SpannedParts
    <3> HIDE DEF z
    <3> QED
      BY <1>2, <1>3, <1>4, <2>1, <3>1 DEF PanelState, Fits
  <2>2. CASE Full(x) /\ ~Full(y)
    <3>1. z \in PanelState /\ GoneBack(x, y, z)
      BY <1>2, <1>3, <2>2, SpannedParts
    <3> HIDE DEF z
    <3>2. PICK r \in Rects : /\ \A s : x.saved = {s} => r = s
                             /\ z = [y EXCEPT !.top = r.top, !.wide = FALSE, !.width = r.width,
                                              !.saved = {}]
      BY <3>1 DEF GoneBack
    <3>3. /\ z.kind = y.kind /\ z.shown = y.shown /\ z.mode = y.mode /\ z.minRestore = y.minRestore
          /\ z.maxRestore = y.maxRestore /\ z.anchor = y.anchor /\ z.home = y.home
          /\ z.reopened = y.reopened /\ ~z.wide /\ z.saved = {} /\ z.top = r.top
          /\ z.width = r.width
      BY <1>3, <3>2 DEF PanelState
    <3> QED
      BY <1>4, <2>2, <3>1, <3>2, <3>3
  <2>3. CASE Full(x) <=> Full(y)
    <3>1. z = y
      BY <1>2, <1>3, <2>3, SpannedParts
    <3> HIDE DEF z
    <3> QED
      BY <1>2, <1>3, <1>4, <2>3, <3>1 DEF Fits
  <2> QED
    BY <2>1, <2>2, <2>3
<1>6. Full(z) <=> Full(y)
  BY <1>5 DEF Full
<1> HIDE DEF z
<1>7. /\ p \in PanelState
      /\ p.kind = x.kind /\ p.shown /\ p.mode = y.mode /\ p.minRestore = y.minRestore
      /\ p.maxRestore = y.maxRestore /\ p.anchor = x.anchor /\ p.home = x.home
      /\ p.wide = z.wide /\ p.top = z.top /\ p.width = z.width /\ p.saved = z.saved
      /\ p.pinned <=> p.mode = "maximized"
      /\ p.reopened <=> x.reopened /\ Full(y)
  <2> DEFINE o == z.reopened /\ Full(z)
  <2>1. o \in BOOLEAN /\ (o <=> x.reopened /\ Full(y))
    BY <1>5, <1>6
  <2>2. p = [z EXCEPT !.pinned = (z.mode = "maximized"), !.reopened = o]
    OBVIOUS
  <2> HIDE DEF o, p
  <2> QED
    BY <1>5, <2>1, <2>2 DEF PanelState
<1>8. Full(p) <=> Full(y)
  BY <1>7 DEF Full
<1> HIDE DEF p
<1>9. n \in PanelState
  BY <1>7, SettledParts
<1>10. CASE p.kind = "chat" /\ p.shown /\ ~Full(p)
  <2>1. n = [p EXCEPT !.top = p.anchor - Height(p), !.pinned = FALSE]
    BY <1>7, <1>10, SettledParts
  <2> HIDE DEF n
  <2>2. /\ n.kind = "chat" /\ n.shown /\ n.mode = p.mode /\ n.minRestore = p.minRestore
        /\ n.maxRestore = p.maxRestore /\ n.anchor = x.anchor /\ n.wide = p.wide /\ ~n.pinned
        /\ n.tall = p.tall /\ n.rows = p.rows /\ n.top = p.anchor - Height(p)
        /\ n.reopened = p.reopened
    BY <1>7, <1>10, <2>1 DEF PanelState
  <2>3. ~Full(n) /\ n.mode # "maximized"
    BY <1>10, <2>2 DEF Full, IsFull
  <2>4. Height(n) = Height(p)
    BY <2>2, <2>3 DEF Height, Content
  <2>5. Height(p) \in Int /\ Height(x) \in Int /\ x.anchor \in Int
    BY <1>2, <1>7, ContentFits DEF PanelState
  <2>6. n.top + Height(n) = x.anchor
    BY <1>7, <2>2, <2>4, <2>5
  <2>7. WindowInv(n)
    BY <1>5, <1>6, <1>7, <1>8, <1>9, <1>10, <2>2, <2>3, <2>4 DEF WindowInv, Fits, Hangs, AtHome
  <2>8. ~Full(x) => x.top + Height(x) = x.anchor
    BY <1>2, <1>7, <1>10, <2>5 DEF Hangs
  <2> QED
    BY <1>7, <1>10, <2>2, <2>6, <2>7, <2>8
<1>11. CASE ~(p.kind = "chat" /\ p.shown /\ ~Full(p))
  <2>1. n = p
    BY <1>7, <1>11, SettledParts
  <2>2. Fits(p)
    BY <1>2, <1>5, <1>7, <1>8 DEF Fits
  <2>3. Hangs(p)
    BY <1>7, <1>11 DEF Hangs
  <2>4. AtHome(p)
    <3> SUFFICES ASSUME p.kind # "chat"
                 PROVE  /\ p.home.top \in 0 .. ScreenH - 1 /\ p.top \in 0 .. ScreenH - 1
                        /\ IF Full(p) THEN p.saved = {p.home} ELSE Rect(p) = p.home
      BY DEF AtHome
    <3>1. /\ x.home.top \in 0 .. ScreenH - 1 /\ (Full(x) => x.saved = {x.home})
          /\ x.top \in 0 .. ScreenH - 1
          /\ ~Full(x) => Rect(x) = x.home
      BY <1>2, <1>7 DEF AtHome
    <3>2. x.home = [top |-> x.home.top, width |-> x.home.width]
      BY <1>2 DEF PanelState, Rects
    <3> QED
      BY <1>2, <1>5, <1>7, <1>8, <3>1, <3>2 DEF Rect
  <2> QED
    BY <1>7, <1>8, <1>9, <1>11, <2>1, <2>2, <2>3, <2>4 DEF WindowInv
<1> QED
  BY <1>10, <1>11

\* The mouse puts a window somewhere: it is at home there, and hangs from there.
LEMMA PutKeeps ==
    ASSUME NEW x \in PanelState, x.shown, ~Full(x), ~x.wide, ~x.pinned, ~x.reopened,
           x.kind # "chat" => x.top \in 0 .. ScreenH - 1, x.top + Height(x) \in 0 .. 2 * ScreenH
    PROVE  /\ WindowInv(Settled(Homed(Anchored(x))))
           /\ Settled(Homed(Anchored(x))).top = x.top
           /\ Settled(Homed(Anchored(x))).mode = x.mode
           /\ Settled(Homed(Anchored(x))).wide = x.wide
           /\ Settled(Homed(Anchored(x))).minRestore = x.minRestore
           /\ Settled(Homed(Anchored(x))).shown
           /\ Settled(Homed(Anchored(x))).kind = x.kind
<1> DEFINE a == Anchored(x)
           h == Homed(a)
           n == Settled(h)
<1>1. Height(x) \in 1 .. ScreenH /\ ScreenH \in Nat /\ ScreenH >= 2
  BY ContentFits, PanelConstants
<1>2. x.mode # "maximized"
  BY DEF Full, IsFull
<1>3. /\ a \in PanelState /\ a.kind = x.kind /\ a.shown /\ a.mode = x.mode /\ a.minRestore = x.minRestore
      /\ a.top = x.top /\ a.width = x.width /\ a.tall = x.tall /\ a.rows = x.rows /\ a.wide = x.wide
      /\ a.pinned = x.pinned /\ (x.kind = "chat" => a.anchor = x.top + Height(x))
      /\ a.reopened = x.reopened
  BY DEF Anchored, PanelState
<1> HIDE DEF a
<1>4. Rect(a) \in Rects
  BY <1>3 DEF Rect, Rects, PanelState
<1>5. /\ h \in PanelState /\ h.kind = x.kind /\ h.shown /\ h.mode = x.mode /\ h.minRestore = x.minRestore
      /\ h.top = x.top /\ h.width = x.width /\ h.tall = x.tall /\ h.rows = x.rows /\ h.wide = x.wide
      /\ h.pinned = x.pinned /\ (x.kind = "chat" => h.anchor = x.top + Height(x))
      /\ h.home = Rect(a) /\ h.reopened = x.reopened
  BY <1>3, <1>4 DEF Homed, PanelState
<1>6. ~Full(h) /\ Height(h) = Height(x) /\ Rect(h) = h.home
  BY <1>3, <1>5 DEF Full, Height, Content, Rect
<1> HIDE DEF h
<1>7. x.top \in Int
  BY DEF PanelState
<1>8. CASE x.kind = "chat"
  <2>1. n = [h EXCEPT !.top = h.anchor - Height(h), !.pinned = FALSE] /\ n \in PanelState
    BY <1>5, <1>6, <1>8, SettledParts
  <2> HIDE DEF n
  <2>2. /\ n.kind = x.kind /\ n.shown /\ n.mode = x.mode /\ n.minRestore = x.minRestore
        /\ n.tall = x.tall /\ n.rows = x.rows /\ n.wide = x.wide /\ ~n.pinned
        /\ n.anchor = h.anchor /\ n.top = h.anchor - Height(h) /\ ~n.reopened
    BY <1>5, <2>1 DEF PanelState
  <2>3. ~Full(n) /\ Height(n) = Height(x)
    BY <2>2 DEF Full, Height, Content
  <2>4. n.top = x.top
    BY <1>1, <1>5, <1>6, <1>7, <1>8, <2>2
  <2>5. WindowInv(n)
    BY <1>6, <1>8, <1>2, <2>1, <2>2, <2>3 DEF WindowInv, Fits, Hangs, AtHome
  <2> QED
    BY <2>2, <2>4, <2>5 DEF n, h, a
<1>9. CASE x.kind # "chat"
  <2>1. n = h
    BY <1>5, <1>9, SettledParts
  <2>2. x.top \in 0 .. ScreenH - 1 /\ h.home.top = x.top
    BY <1>3, <1>5, <1>9 DEF Rect
  <2>3. WindowInv(h)
    BY <1>5, <1>6, <1>9, <1>2, <2>2 DEF WindowInv, Fits, Hangs, AtHome
  <2> QED
    BY <1>5, <2>1, <2>3 DEF h, a
<1> QED
  BY <1>8, <1>9

\* A drag brings the header to the cursor, out of every mode.
LEMMA DragKeeps ==
    ASSUME NEW x, WindowInv(x), x.shown, NEW t \in Int
    PROVE  /\ WindowInv(Settled(Moved(x, t)))
           /\ t \in 0 .. ScreenH - 1 => Settled(Moved(x, t)).top = t
           /\ ~Settled(Moved(x, t)).wide /\ Settled(Moved(x, t)).shown
           /\ \/ Settled(Moved(x, t)).mode = "normal"
              \/ Settled(Moved(x, t)).mode = "minimized" /\ Settled(Moved(x, t)).minRestore = Unset
<1> DEFINE f == Freed(x)
           y == [f EXCEPT !.top = DragTop(t), !.wide = FALSE, !.pinned = FALSE]
<1>1. Moved(x, t) = Homed(Anchored(y))
  BY DEF Moved
<1>2. x \in PanelState /\ Fits(x) /\ ScreenH \in Nat /\ ScreenH >= 2
  BY PanelConstants DEF WindowInv
<1>3. f \in PanelState /\ f.shown /\ ~f.reopened /\ (f.mode = "normal" \/ (f.mode = "minimized" /\ f.minRestore = Unset))
  <2>1. Content(x) \in 0 .. ScreenH - 1
    BY <1>2, ContentFits
  <2>2. Forgetting(x) \in PanelState /\ Forgetting(x).shown /\ Forgetting(x).mode = x.mode
        /\ Forgetting(x).minRestore = Unset /\ ~Forgetting(x).reopened
    BY <1>2 DEF Forgetting, PanelState
  <2> DEFINE g == Forgetting(x)
  <2> HIDE DEF g
  <2>3. CASE x.mode = "maximized"
    <3>1. f = [g EXCEPT !.tall = Content(x), !.mode = "normal", !.width = "px"]
      BY <2>3 DEF Freed, g
    <3> HIDE DEF f
    <3> QED
      BY <2>1, <2>2, <3>1 DEF PanelState, Modes, Widths, g
  <2>4. CASE x.mode = "minimized"
    BY <2>2, <2>4 DEF Freed
  <2>5. CASE x.mode = "normal"
    BY <1>2, <2>5 DEF Freed, Fits, Full, IsFull
  <2> QED
    BY <1>2, <2>3, <2>4, <2>5 DEF PanelState, Modes
<1> HIDE DEF f
<1>4. /\ DragTop(t) \in 0 .. ScreenH - 1 /\ DragTop(t) \in -ScreenH .. 2 * ScreenH
      /\ t \in 0 .. ScreenH - 1 => DragTop(t) = t
  BY <1>2 DEF DragTop
<1>5. /\ y \in PanelState /\ y.shown /\ y.mode = f.mode /\ y.minRestore = f.minRestore
      /\ y.top = DragTop(t) /\ ~y.wide /\ ~y.pinned /\ ~y.reopened
  BY <1>2, <1>3, <1>4 DEF PanelState
<1> HIDE DEF y
<1>6. ~Full(y)
  BY <1>3, <1>5 DEF Full, IsFull, Unset
<1>7. Height(y) \in 1 .. ScreenH
  BY <1>5, ContentFits
<1>8. y.top + Height(y) \in 0 .. 2 * ScreenH
  BY <1>2, <1>4, <1>5, <1>7
<1> QED
  BY <1>1, <1>3, <1>4, <1>5, <1>6, <1>8, PutKeeps

\* An edge is dragged: of a window that neither is full nor a header.
LEMMA BottomKeeps ==
    ASSUME WindowInv(panel), NEW c \in Sizes, ResizeBottom(c)
    PROVE  WindowInv(panel')
<1> DEFINE y == [panel EXCEPT !.tall = c]
<1>1. /\ panel \in PanelState /\ ScreenH \in Nat /\ ScreenH >= 2 /\ c \in 1 .. ScreenH - 1
      /\ Fits(panel) /\ AtHome(panel)
  BY PanelConstants DEF WindowInv, Sizes
<1>2. /\ panel.shown /\ panel.top + Height(panel) - 1 \in 0 .. ScreenH - 1 /\ panel.mode = "normal"
      /\ c <= (IF ScreenH - panel.top - 1 > 1 THEN ScreenH - panel.top - 1 ELSE 1)
      /\ panel.top + c >= 0
      /\ panel' = Settled(Homed(Anchored(y)))
  BY DEF ResizeBottom, OnScreen
<1>3. ~Full(panel) /\ ~panel.wide /\ ~panel.pinned /\ ~panel.reopened /\ panel.top \in Int /\ Height(panel) \in 1 .. ScreenH
  BY <1>1, <1>2, ContentFits DEF Full, IsFull, Fits, PanelState
<1>4. /\ y \in PanelState /\ y.shown /\ y.mode = "normal" /\ ~y.wide /\ ~y.pinned /\ y.top = panel.top
      /\ y.kind = panel.kind /\ y.tall = c /\ ~y.reopened
  BY <1>1, <1>2, <1>3 DEF PanelState
<1> HIDE DEF y
<1>5. ~Full(y) /\ Height(y) = 1 + c
  BY <1>1, <1>4 DEF Full, IsFull, Height, Content
<1>6. y.kind # "chat" => y.top \in 0 .. ScreenH - 1
  BY <1>1, <1>2, <1>3, <1>4 DEF AtHome, Rect
<1>7. y.top + Height(y) \in 0 .. 2 * ScreenH
  BY <1>1, <1>2, <1>3, <1>4, <1>5
<1> QED
  BY <1>2, <1>4, <1>5, <1>6, <1>7, PutKeeps

\* ... the upper edge, which is kept on the screen.
LEMMA TopKeeps ==
    ASSUME WindowInv(panel), NEW c \in Sizes, ResizeTop(c)
    PROVE  WindowInv(panel')
<1> DEFINE e == panel.top + Height(panel)
           u == IF e - 1 - c > 0 THEN e - 1 - c ELSE 0
           y == [panel EXCEPT !.tall = c, !.pinned = FALSE, !.top = u]
<1>1. /\ panel \in PanelState /\ ScreenH \in Nat /\ ScreenH >= 2 /\ c \in 1 .. ScreenH - 1 /\ Fits(panel)
  BY PanelConstants DEF WindowInv, Sizes
<1>2. /\ panel.shown /\ panel.mode = "normal" /\ e - 1 - c <= ScreenH - 1
      /\ panel' = Settled(Homed(Anchored(y)))
  BY DEF ResizeTop, OnScreen
<1>3. ~Full(panel) /\ ~panel.wide /\ ~panel.reopened /\ panel.top \in Int /\ Height(panel) \in 1 .. ScreenH
  BY <1>1, <1>2, ContentFits DEF Full, IsFull, Fits, PanelState
<1>4. u \in 0 .. ScreenH - 1 /\ u \in -ScreenH .. 2 * ScreenH /\ c \in 0 .. ScreenH - 1
  BY <1>1, <1>2, <1>3
<1> HIDE DEF u
<1>5. /\ y \in PanelState /\ y.shown /\ y.mode = "normal" /\ ~y.wide /\ ~y.pinned /\ y.top = u
      /\ y.tall = c /\ ~y.reopened
  BY <1>1, <1>2, <1>3, <1>4 DEF PanelState
<1> HIDE DEF y
<1>6. ~Full(y) /\ Height(y) = 1 + c
  BY <1>1, <1>5 DEF Full, IsFull, Height, Content
<1>7. y.top + Height(y) \in 0 .. 2 * ScreenH
  BY <1>1, <1>4, <1>5, <1>6
<1> QED
  BY <1>2, <1>4, <1>5, <1>6, <1>7, PutKeeps

\* Content grows or shrinks.
LEMMA RowsKeep ==
    ASSUME WindowInv(panel), NEW r \in 0 .. ContentCap, Rows(r)
    PROVE  /\ WindowInv(panel')
           /\ panel.kind = "chat" /\ ~Full(panel) /\ ~Full(panel') =>
                 panel'.top + Height(panel') = panel.top + Height(panel)
<1> DEFINE x == panel
           y == [x EXCEPT !.rows = r]
           n == Settled(y)
<1>1. x \in PanelState /\ Fits(x) /\ Hangs(x) /\ AtHome(x) /\ x.shown /\ panel' = n
  BY DEF WindowInv, Rows
<1> HIDE DEF x
<1>2. /\ y \in PanelState /\ y.kind = x.kind /\ y.shown = x.shown /\ y.mode = x.mode
      /\ y.minRestore = x.minRestore /\ y.wide = x.wide /\ y.pinned = x.pinned /\ y.top = x.top
      /\ y.width = x.width /\ y.saved = x.saved /\ y.tall = x.tall /\ y.anchor = x.anchor
      /\ y.home = x.home /\ y.reopened = x.reopened
  BY <1>1 DEF PanelState
<1> HIDE DEF y
<1>3. Full(y) <=> Full(x)
  BY <1>2 DEF Full
<1>4. Height(x) \in Int /\ Height(y) \in Int /\ x.anchor \in Int /\ x.top \in Int
  BY <1>1, <1>2, ContentFits DEF PanelState
<1>5. CASE y.kind = "chat" /\ ~Full(y)
  <2>1. n = [y EXCEPT !.top = y.anchor - Height(y), !.pinned = FALSE] /\ n \in PanelState
    BY <1>1, <1>2, <1>5, SettledParts
  <2> HIDE DEF n
  <2>2. /\ n.kind = "chat" /\ n.shown /\ n.mode = y.mode /\ n.minRestore = y.minRestore
        /\ n.tall = y.tall /\ n.rows = y.rows /\ n.wide = y.wide /\ ~n.pinned
        /\ n.anchor = y.anchor /\ n.top = y.anchor - Height(y) /\ n.reopened = y.reopened
    BY <1>1, <1>2, <1>5, <2>1 DEF PanelState
  <2>3. ~Full(n) /\ n.mode # "maximized" /\ ~n.wide /\ ~n.reopened
    BY <1>1, <1>2, <1>3, <1>5, <2>2 DEF Full, IsFull, Fits
  <2>4. Height(n) = Height(y)
    BY <2>2, <2>3 DEF Height, Content
  <2>5. WindowInv(n)
    BY <2>1, <2>2, <2>3, <2>4 DEF WindowInv, Fits, Hangs, AtHome
  <2>6. n.top + Height(n) = x.top + Height(x)
    BY <1>1, <1>2, <1>3, <1>4, <1>5, <2>2, <2>4 DEF Hangs
  <2> QED
    BY <1>1, <2>5, <2>6 DEF x
<1>6. CASE ~(y.kind = "chat" /\ ~Full(y))
  <2>1. n = y
    BY <1>2, <1>6, SettledParts
  <2>2. WindowInv(y)
    BY <1>1, <1>2, <1>3, <1>6 DEF WindowInv, Fits, Hangs, AtHome, Rect
  <2> QED
    BY <1>1, <1>2, <1>3, <1>6, <2>1, <2>2 DEF x
<1> QED
  BY <1>5, <1>6

\* A side is dragged.
LEMMA SideKeeps == WindowInv(panel) /\ ResizeSide => WindowInv(panel')
<1> SUFFICES ASSUME WindowInv(panel), ResizeSide PROVE WindowInv(panel')
  OBVIOUS
<1> DEFINE x == panel
           y == [x EXCEPT !.width = "px"]
           n == Homed(y)
<1>1. /\ x \in PanelState /\ Fits(x) /\ Hangs(x) /\ AtHome(x) /\ x.shown /\ x.mode = "normal"
      /\ panel' = n
  BY DEF WindowInv, ResizeSide
<1> HIDE DEF x
<1>2. /\ y \in PanelState /\ y.kind = x.kind /\ y.shown = x.shown /\ y.mode = x.mode
      /\ y.minRestore = x.minRestore /\ y.wide = x.wide /\ y.pinned = x.pinned /\ y.top = x.top
      /\ y.rows = x.rows /\ y.tall = x.tall /\ y.anchor = x.anchor /\ y.width = "px"
      /\ y.reopened = x.reopened
  BY <1>1 DEF PanelState, Widths
<1> HIDE DEF y
<1>3. Rect(y) \in Rects
  BY <1>2 DEF Rect, Rects, PanelState
<1>4. n = [y EXCEPT !.home = Rect(y)]
  BY DEF Homed
<1> HIDE DEF n
<1>5. /\ n \in PanelState /\ n.kind = x.kind /\ n.shown = x.shown /\ n.mode = x.mode
      /\ n.minRestore = x.minRestore /\ n.wide = x.wide /\ n.pinned = x.pinned /\ n.top = x.top
      /\ n.rows = x.rows /\ n.tall = x.tall /\ n.anchor = x.anchor /\ n.width = "px"
      /\ n.home = Rect(y) /\ n.reopened = x.reopened
  BY <1>2, <1>3, <1>4 DEF PanelState
<1>6. ~Full(x) /\ ~Full(n) /\ Height(n) = Height(x)
  BY <1>1, <1>5 DEF Full, IsFull, Height, Content
<1>7. n.home = Rect(n) /\ n.home.top = x.top /\ (x.kind # "chat" => x.top \in 0 .. ScreenH - 1)
  BY <1>1, <1>2, <1>5, <1>6 DEF Rect, AtHome
<1> QED
  BY <1>1, <1>5, <1>6, <1>7 DEF WindowInv, Fits, Hangs, AtHome

\* A window is hidden, shown again or cloned.
LEMMA MenuKeeps ==
    ASSUME WindowInv(panel), Close \/ \E t \in Tops : Show(t) \/ Clone(t)
    PROVE  WindowInv(panel')
<1>1. /\ panel \in PanelState /\ Fits(panel) /\ Hangs(panel) /\ AtHome(panel)
      /\ ScreenH \in Nat /\ ScreenH >= 2
  BY PanelConstants DEF WindowInv
<1>2. CASE Close
  <2>1. panel' = [panel EXCEPT !.shown = FALSE]
    BY <1>2 DEF Close
  <2>2. /\ panel' \in PanelState /\ panel'.kind = panel.kind /\ panel'.mode = panel.mode
        /\ panel'.minRestore = panel.minRestore /\ panel'.wide = panel.wide /\ panel'.top = panel.top
        /\ panel'.pinned = panel.pinned /\ panel'.tall = panel.tall /\ panel'.rows = panel.rows
        /\ panel'.anchor = panel.anchor /\ panel'.saved = panel.saved /\ panel'.home = panel.home
        /\ panel'.width = panel.width /\ panel'.reopened = panel.reopened
    BY <1>1, <2>1 DEF PanelState
  <2>3. (Full(panel') <=> Full(panel)) /\ Height(panel') = Height(panel) /\ Rect(panel') = Rect(panel)
    BY <2>2 DEF Full, Height, Content, Rect
  <2>4. Fits(panel')
    BY <1>1, <2>2, <2>3 DEF Fits
  <2>5. Hangs(panel')
    BY <1>1, <2>2, <2>3 DEF Hangs
  <2>6. AtHome(panel')
    <3>1. AtHome(panel) /\ Rect(panel') = Rect(panel) /\ (Full(panel') <=> Full(panel))
      BY <1>1, <2>3
    <3>2. /\ panel'.kind = panel.kind /\ panel'.home = panel.home /\ panel'.saved = panel.saved
          /\ panel'.top = panel.top
      BY <2>2
    <3> QED
      BY <3>1, <3>2, Zenon DEF AtHome
  <2> QED
    BY <2>2, <2>4, <2>5, <2>6 DEF WindowInv
<1>3. ASSUME NEW x \in PanelState, x.kind # "chat", ~Full(x), ~x.reopened, NEW t \in Tops
      PROVE  WindowInv(Homed(Spawned(x, t)))
  <2> DEFINE y == Spawned(x, t)
             n == Homed(y)
  <2>1. t \in -ScreenH .. 2 * ScreenH /\ t \in 0 .. ScreenH - 1
    BY <1>1 DEF Tops
  <2>2. /\ y \in PanelState /\ y.kind = x.kind /\ y.shown /\ y.mode = x.mode /\ y.minRestore = x.minRestore
        /\ ~y.wide /\ ~y.pinned /\ y.top = t /\ ~y.reopened
    <3>1. y = [x EXCEPT !.shown = TRUE, !.top = t, !.wide = FALSE, !.pinned = FALSE]
      BY DEF Spawned
    <3> HIDE DEF y
    <3>2. y \in PanelState
      BY <2>1, <3>1 DEF PanelState
    <3>3. /\ y.kind = x.kind /\ y.shown /\ y.mode = x.mode /\ y.minRestore = x.minRestore
          /\ ~y.wide /\ ~y.pinned /\ y.top = t /\ y.reopened = x.reopened
      BY <3>1 DEF PanelState
    <3> QED
      BY <1>3, <3>2, <3>3
  <2> HIDE DEF y
  <2>3. Rect(y) \in Rects /\ Rect(y).top = t
    <3>1. y.width \in Widths /\ y.top \in -ScreenH .. 2 * ScreenH
      BY <2>2 DEF PanelState
    <3> QED
      BY <2>2, <3>1 DEF Rect, Rects
  <2>4. /\ n \in PanelState /\ n.kind = x.kind /\ n.shown /\ n.mode = x.mode /\ n.minRestore = x.minRestore
        /\ ~n.wide /\ ~n.pinned /\ n.top = y.top /\ n.width = y.width /\ n.home = Rect(y)
        /\ ~n.reopened
    BY <2>2, <2>3 DEF Homed, PanelState
  <2> HIDE DEF n
  <2>5. ~Full(n) /\ n.mode # "maximized"
    BY <1>3, <2>4 DEF Full, IsFull
  <2>6. WindowInv(n)
    BY <1>3, <2>1, <2>3, <2>4, <2>5 DEF WindowInv, Fits, Hangs, AtHome, Rect
  <2> QED
    BY <2>6 DEF n, y
<1>4. ASSUME NEW t \in Tops, Show(t) PROVE WindowInv(panel')
  <2>1. panel.kind = "panel" /\ t \in -ScreenH .. 2 * ScreenH /\ t \in 0 .. ScreenH - 1
    BY <1>1, <1>4 DEF Show, Tops
  <2>2. CASE Full(panel)
    <3> DEFINE y == Spawned(panel, t)
    <3>1. panel' = [y EXCEPT !.reopened = TRUE]
      BY <1>4, <2>2 DEF Show
    <3>2. /\ y \in PanelState /\ y.kind = panel.kind /\ y.mode = panel.mode
          /\ y.minRestore = panel.minRestore /\ ~y.wide /\ ~y.pinned /\ y.top = t
          /\ y.saved = panel.saved /\ y.home = panel.home
      BY <1>1, <2>1 DEF Spawned, PanelState
    <3> HIDE DEF y
    <3>3. /\ panel' \in PanelState /\ panel'.kind = panel.kind /\ panel'.mode = panel.mode
          /\ panel'.minRestore = panel.minRestore /\ ~panel'.wide /\ ~panel'.pinned
          /\ panel'.top = t /\ panel'.saved = panel.saved /\ panel'.home = panel.home
          /\ panel'.reopened
      BY <3>1, <3>2 DEF PanelState
    <3>4. Full(panel')
      BY <2>2, <3>3 DEF Full
    <3> QED
      BY <1>1, <2>1, <2>2, <3>3, <3>4 DEF WindowInv, Fits, Hangs, AtHome
  <2>3. CASE ~Full(panel)
    <3>1. ~panel.reopened
      BY <1>1, <2>3 DEF Fits
    <3>2. panel' = Homed(Spawned(panel, t))
      BY <1>4, <2>3 DEF Show
    <3> QED
      BY <1>1, <1>3, <2>1, <2>3, <3>1, <3>2
  <2> QED
    BY <2>2, <2>3
<1>5. ASSUME NEW t \in Tops, Clone(t) PROVE WindowInv(panel')
  <2> DEFINE g == Forgetting(panel)
             y == [g EXCEPT !.kind = "clone", !.mode = "normal", !.tall = 0]
  <2>1. panel' = Homed(Spawned(y, t))
    BY <1>5 DEF Clone
  <2>2. g \in PanelState /\ ~g.reopened
    BY <1>1 DEF Forgetting, PanelState
  <2> HIDE DEF g
  <2>3. 0 \in 0 .. ScreenH - 1
    BY <1>1
  <2>4. y \in PanelState /\ y.kind = "clone" /\ y.mode = "normal" /\ ~y.reopened
    BY <2>2, <2>3 DEF PanelState, Modes
  <2> HIDE DEF y
  <2>5. ~Full(y)
    BY <2>4 DEF Full, IsFull
  <2> QED
    BY <1>3, <2>1, <2>4, <2>5
<1> QED
  BY <1>2, <1>4, <1>5

\* A window opens where it is at home.
LEMMA PanelStarts == PanelInit => WindowInv(panel)
<1> SUFFICES ASSUME PanelInit PROVE WindowInv(panel)
  OBVIOUS
<1>1. PICK kind \in PanelKinds \ {"clone"} :
         panel = [kind |-> kind, shown |-> TRUE, mode |-> "normal", minRestore |-> Unset,
                  maxRestore |-> Unset, wide |-> FALSE, pinned |-> FALSE, top |-> ScreenH - 2,
                  width |-> "plain", saved |-> {}, reopened |-> FALSE, tall |-> 0, rows |-> 0,
                  anchor |-> ScreenH - 1, home |-> [top |-> ScreenH - 2, width |-> "plain"]]
  BY DEF PanelInit
<1>2. /\ ScreenH - 2 \in -ScreenH .. 2 * ScreenH /\ ScreenH - 2 \in 0 .. ScreenH - 1
      /\ ScreenH - 1 \in 0 .. 2 * ScreenH /\ 0 \in 0 .. ScreenH - 1 /\ 0 \in 0 .. ContentCap
      /\ (ScreenH - 1) - 1 = ScreenH - 2
  BY PanelConstants
<1>3. kind \in {"chat", "panel", "clone"}
  BY PanelConstants
<1>4. panel \in PanelState
  BY <1>1, <1>2, <1>3 DEF PanelState, Modes, Widths, Rects
<1>5. ~Full(panel) /\ Height(panel) = 1
  BY <1>1 DEF Full, IsFull, Height, Content
<1> QED
  BY <1>1, <1>2, <1>4, <1>5 DEF WindowInv, Fits, Hangs, AtHome, Rect

\* Every step.
LEMMA PanelSteps == WindowInv(panel) /\ [PanelNext]_panelVars => WindowInv(panel')
<1> SUFFICES ASSUME WindowInv(panel), [PanelNext]_panelVars PROVE WindowInv(panel')
  OBVIOUS
<1>1. CASE UNCHANGED panelVars
  BY <1>1 DEF panelVars
<1>2. ASSUME NEW button \in Buttons, Click(button) PROVE WindowInv(panel')
  BY <1>2, TransitionKeeps DEF Click, OnScreen
<1>3. CASE DragAny
  BY <1>3, DragKeeps DEF DragAny, Drag, OnScreen
<1>4. CASE ResizeAny
  BY <1>4, BottomKeeps, TopKeeps, SideKeeps DEF ResizeAny
<1>5. ASSUME NEW r \in 0 .. ContentCap, Rows(r) PROVE WindowInv(panel')
  BY <1>5, RowsKeep
<1>6. CASE Close \/ \E t \in Tops : Show(t) \/ Clone(t)
  BY <1>6, MenuKeeps
<1> QED
  BY <1>1, <1>2, <1>3, <1>4, <1>5, <1>6 DEF PanelNext

\* Two clicks lead back to the small window, unless each button remembers the other's
\* mode.
LEMMA ClicksLeadBack ==
    ASSUME NEW x, WindowInv(x), x.shown
    PROVE  \/ \E y \in Clicked(Clicked({x})) : y.mode = "normal"
           \/ x.mode # "normal" /\ x.minRestore = "maximized" /\ x.maxRestore = "minimized"
<1>1. /\ x \in Clicked(Clicked({x}))
      /\ \A b \in Buttons : Transition(x, b) \in Clicked(Clicked({x}))
      /\ \A b, c \in Buttons : Transition(Transition(x, b), c) \in Clicked(Clicked({x}))
  BY DEF Clicked
<1>2. /\ x.mode \in {"normal", "minimized", "maximized"}
      /\ x.minRestore \in {Unset, "normal", "maximized"} /\ x.maxRestore \in {Unset, "normal", "minimized"}
      /\ "minimize" \in Buttons /\ "maximize" \in Buttons /\ x \in PanelState
  BY DEF WindowInv, PanelState, Modes, Buttons
<1>3. ASSUME NEW y \in PanelState
      PROVE  /\ y.mode = "minimized" =>
                    /\ Toggled(y, "minimize").mode
                           = IF y.minRestore = Unset THEN "normal" ELSE y.minRestore
                    /\ Toggled(y, "minimize").maxRestore = y.maxRestore
             /\ y.mode = "maximized" =>
                    /\ Toggled(y, "maximize").mode
                           = IF y.maxRestore = Unset THEN "normal" ELSE y.maxRestore
                    /\ Toggled(y, "maximize").minRestore = y.minRestore
  BY DEF Toggled, Mine, Restored, PanelState
<1>4. CASE x.mode = "minimized"
  <2> DEFINE y == Transition(x, "minimize")
  <2>1. /\ WindowInv(y) /\ y.shown /\ y.mode = Toggled(x, "minimize").mode
        /\ y.maxRestore = Toggled(x, "minimize").maxRestore
    BY <1>2, TransitionKeeps
  <2>2. /\ y.mode = IF x.minRestore = Unset THEN "normal" ELSE x.minRestore
        /\ y.maxRestore = x.maxRestore
    BY <1>2, <1>3, <1>4, <2>1
  <2>3. Transition(y, "maximize").mode = Toggled(y, "maximize").mode
    BY <1>2, <2>1, TransitionKeeps
  <2>4. y \in PanelState
    BY <2>1 DEF WindowInv
  <2>5. y \in Clicked(Clicked({x})) /\ Transition(y, "maximize") \in Clicked(Clicked({x}))
    BY <1>1, <1>2
  <2> HIDE DEF y
  <2> QED
    BY <1>2, <1>3, <1>4, <2>2, <2>3, <2>4, <2>5
<1>5. CASE x.mode = "maximized"
  <2> DEFINE y == Transition(x, "maximize")
  <2>1. /\ WindowInv(y) /\ y.shown /\ y.mode = Toggled(x, "maximize").mode
        /\ y.minRestore = Toggled(x, "maximize").minRestore
    BY <1>2, TransitionKeeps
  <2>2. /\ y.mode = IF x.maxRestore = Unset THEN "normal" ELSE x.maxRestore
        /\ y.minRestore = x.minRestore
    BY <1>2, <1>3, <1>5, <2>1
  <2>3. Transition(y, "minimize").mode = Toggled(y, "minimize").mode
    BY <1>2, <2>1, TransitionKeeps
  <2>4. y \in PanelState
    BY <2>1 DEF WindowInv
  <2>5. y \in Clicked(Clicked({x})) /\ Transition(y, "minimize") \in Clicked(Clicked({x}))
    BY <1>1, <1>2
  <2> HIDE DEF y
  <2> QED
    BY <1>2, <1>3, <1>5, <2>2, <2>3, <2>4, <2>5
<1> QED
  BY <1>1, <1>2, <1>4, <1>5

\* What the invariant says of a window at rest.
LEMMA InvComesHome == WindowInv(panel) => WindowsComeHome
<1> SUFFICES ASSUME WindowInv(panel) PROVE WindowsComeHome
  OBVIOUS
<1>1. panel \in PanelState /\ Fits(panel) /\ AtHome(panel) /\ ScreenH \in Nat /\ ScreenH >= 2
  BY PanelConstants DEF WindowInv
<1>2. PanelTypeOK
  BY <1>1 DEF PanelTypeOK, PanelState
<1>3. SpanFits
  BY <1>1 DEF SpanFits, Fits
<1>4. HomeIsKept
  BY <1>1 DEF HomeIsKept, AtHome
<1>5. OnlyLoopTraps
  BY ClicksLeadBack DEF OnlyLoopTraps
<1>6. HeaderStays
  BY <1>1 DEF HeaderStays, AtHome, Fits, Rect
<1> QED
  BY <1>2, <1>3, <1>4, <1>5, <1>6 DEF WindowsComeHome

\* The buttons and the rows leave the lower edge of the chat window where it is.
LEMMA EdgeStays == WindowInv(panel) /\ PanelNext => BottomStays
<1> SUFFICES ASSUME WindowInv(panel), PanelNext, ~DragAny, ~ResizeAny, panel.kind = "chat",
                    panel'.kind = "chat", ~Full(panel), ~Full(panel')
             PROVE  panel'.top + Height(panel') = panel.top + Height(panel)
  BY DEF BottomStays
<1>1. ASSUME NEW button \in Buttons, Click(button)
      PROVE  panel'.top + Height(panel') = panel.top + Height(panel)
  BY <1>1, TransitionKeeps DEF Click, OnScreen
<1>2. ASSUME NEW r \in 0 .. ContentCap, Rows(r)
      PROVE  panel'.top + Height(panel') = panel.top + Height(panel)
  BY <1>2, RowsKeep
<1>3. CASE Close
  <2>1. panel \in PanelState /\ panel' = [panel EXCEPT !.shown = FALSE]
    BY <1>3 DEF Close, WindowInv
  <2>2. /\ panel'.top = panel.top /\ panel'.mode = panel.mode /\ panel'.pinned = panel.pinned
        /\ panel'.rows = panel.rows /\ panel'.tall = panel.tall
    BY <2>1 DEF PanelState
  <2> QED
    BY <2>2 DEF Height, Content
<1>4. ASSUME NEW t \in Tops, Show(t) \/ Clone(t) PROVE FALSE
  <2>1. ~Show(t)
    BY DEF Show
  <2>2. Clone(t)
    BY <1>4, <2>1
  <2> DEFINE y == [Forgetting(panel) EXCEPT !.kind = "clone", !.mode = "normal", !.tall = 0]
  <2>3. panel' = Homed(Spawned(y, t)) /\ panel \in PanelState
    BY <2>2 DEF Clone, WindowInv
  <2>4. y \in PanelState /\ y.kind = "clone"
    <3>1. Forgetting(panel) \in PanelState
      BY <2>3 DEF Forgetting, PanelState
    <3>2. 0 \in 0 .. ScreenH - 1
      BY PanelConstants
    <3> QED
      BY <3>1, <3>2 DEF PanelState, Modes
  <2> HIDE DEF y
  <2>5. panel'.kind = "clone"
    BY <2>3, <2>4 DEF Homed, Spawned, PanelState
  <2> QED
    BY <2>5
<1> QED
  BY <1>1, <1>2, <1>3, <1>4 DEF PanelNext

\* A header that is dragged stays with the cursor, and a click leads back.
LEMMA HeaderFollows == WindowInv(panel) => DraggedStays
<1> SUFFICES ASSUME WindowInv(panel), NEW t \in 0 .. ScreenH - 1, Drag(t)
             PROVE  /\ panel'.top = t /\ ~panel'.wide
                    /\ \E x \in {panel'} \cup {Transition(panel', button) : button \in Buttons} :
                          x.mode = "normal"
  BY DEF DraggedStays
<1>1. /\ panel.shown /\ panel' = Settled(Moved(panel, t)) /\ t \in Int
  BY PanelConstants DEF Drag, OnScreen
<1>2. /\ WindowInv(panel') /\ panel'.top = t /\ ~panel'.wide /\ panel'.shown
      /\ panel'.mode = "normal" \/ (panel'.mode = "minimized" /\ panel'.minRestore = Unset)
  BY <1>1, DragKeeps
<1>3. CASE panel'.mode = "minimized" /\ panel'.minRestore = Unset
  <2>1. "minimize" \in Buttons /\ panel' \in PanelState
    BY <1>2 DEF Buttons, WindowInv
  <2>2. Transition(panel', "minimize").mode = Toggled(panel', "minimize").mode
    BY <1>2, <2>1, TransitionKeeps
  <2>3. Toggled(panel', "minimize").mode = "normal"
    BY <1>3, <2>1 DEF Toggled, Mine, Restored, PanelState
  <2> QED
    BY <1>2, <2>1, <2>2, <2>3
<1> QED
  BY <1>2, <1>3

\* However the buttons, the mouse, the menu and the content take turns, a window comes
\* back to where it was put and moves only by the mouse (transitionPanel, makeDraggable
\* and reanchorChatBottom of main.js); also one that was closed full and shown again.
THEOREM WindowsAlwaysBehave == PanelSpec => WindowsBehave
<1>1. PanelInit => WindowInv(panel)
  BY PanelStarts
<1>2. WindowInv(panel) /\ [PanelNext]_panelVars => WindowInv(panel)'
  BY PanelSteps
<1>3. WindowInv(panel) => WindowsComeHome
  BY InvComesHome
<1>4. WindowInv(panel) /\ [PanelNext]_panelVars => [panel' # panel => MouseMoves]_panelVars
  BY EdgeStays, HeaderFollows DEF MouseMoves
<1> QED
  BY <1>1, <1>2, <1>3, <1>4, PTL DEF PanelSpec, WindowsBehave
=============================================================================
