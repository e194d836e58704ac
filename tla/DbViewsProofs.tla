--------------------------- MODULE DbViewsProofs ---------------------------
(***************************************************************************)
(* What the connection keeps of the data it once derived is never told as  *)
(* something else: the three invariants of DbViews, for any number of      *)
(* battles and ticks, any length of a session and any number of refusals.  *)
(*                                                                         *)
(* One invariant of the engine record (db, view, cache) carries all three. *)
(* The operators that rebuild a schema keep it, whatever the battle, the   *)
(* script and the outcome, so the actions have little left to show.        *)
(***************************************************************************)
EXTENDS DbViews, TLAPS

Databases == [main : Version, r : Content, b : Content, bc : [Battle -> Content]]

Keys   == [attached : BOOLEAN, match : Battle \cup {None},
           script : Scripts, fresh : BOOLEAN]

Views  == [Kinds -> Keys]

Engines == [db : Databases, view : Views,
            cache : [Battle -> {"invalid", "stale", "fresh"}]]

\* A schema under a key is of the battle of the key and of data nobody has
\* undone; if every write was counted and none came since, it is what the
\* script derives from the data as they are now.
ViewOk(e, k, gone, dirty) ==
    e.view[k].attached =>
        /\ e.db[k].battle = e.view[k].match
        /\ e.db[k].source \notin gone
        /\ e.view[k].fresh /\ ~dirty =>
               e.db[k] = [battle |-> e.view[k].match, source |-> e.db.main,
                          script |-> e.view[k].script]

\* The same of a cache slot that would be copied.
SlotOk(e, i, gone, dirty) ==
    e.cache[i] = "fresh" =>
        /\ e.db.bc[i].battle = i
        /\ e.db.bc[i].source \notin gone
        /\ ~dirty => e.db.bc[i] = [battle |-> i, source |-> e.db.main,
                                   script |-> "default"]

EngineOk(e, gone, dirty) ==
    /\ e \in Engines
    /\ e.db.main \notin gone
    /\ \A k \in Kinds : ViewOk(e, k, gone, dirty)
    /\ \A i \in Battle : SlotOk(e, i, gone, dirty)

\* Writes are numbered upwards, and so are the contents of main that the open
\* savepoints would restore, the outermost first: what a revert undoes is not
\* in what it restores, nor in what a later revert restores.
Savepoints == [id : Known, db : Databases]

HistoryOk ==
    /\ stack \in Seq(Savepoints)
    /\ \A n \in DOMAIN stack : stack[n].db.main \notin undone
    /\ \A n \in DOMAIN stack : stack[n].db.main <= db.main
    /\ \A m, n \in DOMAIN stack : m <= n => stack[m].db.main <= stack[n].db.main
    /\ db.main <= writes
    /\ undone \subseteq 1 .. writes
    /\ writes <= acts /\ seq <= acts

\* b is of the battle on screen and of data nobody has undone, from the frame
\* that attached it until the next, unless a rebuild of it failed or an export
\* took it over.
ScreenOk ==
    /\ synced # None => active = ActiveAt[synced]
    /\ sound /\ synced # None /\ active # None =>
           db.b.battle = active /\ db.b.source \notin undone

\* A slot with rows was filled for the battle on screen.
RowsOk ==
    \A m \in Modes : slots[m].tick # None =>
        /\ slots[m].match = active
        /\ slots[m].match = ActiveAt[slots[m].tick]
        /\ slots[m].sound /\ active # None =>
               /\ slots[m].rows.battle = active
               /\ slots[m].rows.source \notin undone

IInv ==
    /\ TypeOK
    /\ EngineOk(Engine, undone, unhooked)
    /\ HistoryOk
    /\ ScreenOk
    /\ RowsOk

-----------------------------------------------------------------------------
(* The operators that rebuild.                                             *)

LEMMA ContentFields ==
    /\ None \notin Battle /\ None \notin Ticks
    /\ Empty \in Content
    /\ \A c \in Content : c.battle \in Battle \cup {None} /\ c.source \in Version
    /\ \A e \in Engines, i \in Battle, script \in Scripts :
           Derived(e, i, script) \in Content
<1>1. 0 \in Version
  BY DbViewsConstants DEF Version
<1> QED
  BY <1>1, DbViewsConstants
  DEF None, Battle, Ticks, Empty, Content, Version, Scripts, Derived, Engines, Databases

\* A counted write leaves nothing fresh, so that nothing is claimed of main.
LEMMA CountedOk ==
    ASSUME NEW e, NEW gone, NEW dirty \in BOOLEAN, EngineOk(e, gone, dirty)
    PROVE  /\ EngineOk(Counted(e), gone, dirty)
           /\ Counted(e).db = e.db
           /\ \A k \in Kinds : ~Counted(e).view[k].fresh
           /\ \A i \in Battle : Counted(e).cache[i] # "fresh"
<1> DEFINE c == Counted(e)
<1>1. e \in Engines
  BY DEF EngineOk
<1>2. /\ c.db = e.db
      /\ c.view = [k \in Kinds |-> [e.view[k] EXCEPT !.fresh = FALSE]]
      /\ c.cache = [i \in Battle |-> IF e.cache[i] = "fresh" THEN "stale" ELSE e.cache[i]]
  BY <1>1 DEF Engines, Counted
<1>3. c.view \in Views
  <2>1. ASSUME NEW k \in Kinds
        PROVE  [e.view[k] EXCEPT !.fresh = FALSE] \in Keys
    <3>1. e.view[k] \in Keys
      BY <1>1 DEF Engines, Views
    <3> QED
      BY <3>1 DEF Keys
  <2> QED
    BY <1>2, <2>1 DEF Views
<1>4. c \in Engines
  <2>1. c.cache \in [Battle -> {"invalid", "stale", "fresh"}]
    BY <1>1, <1>2 DEF Engines
  <2>2. c = [e EXCEPT !.view = c.view, !.cache = c.cache]
    BY <1>1, <1>2 DEF Engines, Counted
  <2> HIDE DEF c
  <2> QED
    BY <1>1, <1>3, <2>1, <2>2 DEF Engines
<1>5. \A k \in Kinds : /\ c.view[k].attached = e.view[k].attached
                       /\ c.view[k].match = e.view[k].match
                       /\ ~c.view[k].fresh
  BY <1>1, <1>2 DEF Engines, Views, Keys
<1>6. \A i \in Battle : c.cache[i] # "fresh"
  BY DEF EngineOk, Engines, Counted
<1>7. \A k \in Kinds : ViewOk(c, k, gone, dirty)
  BY <1>2, <1>5 DEF EngineOk, ViewOk
<1>8. \A i \in Battle : SlotOk(c, i, gone, dirty)
  BY <1>6 DEF SlotOk
<1> HIDE DEF c
<1>9. EngineOk(c, gone, dirty)
  BY <1>4, <1>2, <1>7, <1>8 DEF EngineOk
<1> QED
  BY <1>2, <1>5, <1>6, <1>9 DEF c

\* bc_compute fills one slot and touches nothing else.
LEMMA ComputeOk ==
    ASSUME NEW e, NEW gone, NEW dirty \in BOOLEAN, EngineOk(e, gone, dirty),
           NEW i \in Battle, NEW onScreen
    PROVE  /\ EngineOk(Compute(e, i, onScreen), gone, dirty)
           /\ Compute(e, i, onScreen).cache[i] = "fresh"
           /\ Compute(e, i, onScreen).db.bc[i] = Derived(e, i, "default")
           /\ Compute(e, i, onScreen).db.b = e.db.b
           /\ Compute(e, i, onScreen).db.main = e.db.main
           /\ Compute(e, i, onScreen).view = e.view
<1> DEFINE c == Compute(e, i, onScreen)
<1>1. Derived(e, i, "default") \in Content
  BY ContentFields DEF EngineOk, Scripts
<1>2. c \in Engines /\ c.view = e.view
  BY <1>1 DEF EngineOk, Engines, Databases, Compute
<1>3. /\ c.db.main = e.db.main /\ c.db.b = e.db.b /\ c.db.r = e.db.r
      /\ \A j \in Battle : /\ j # i => c.db.bc[j] = e.db.bc[j] /\ c.cache[j] = e.cache[j]
                           /\ j = i => /\ c.cache[j] = "fresh"
                                       /\ c.db.bc[j] = Derived(e, i, "default")
  BY DEF EngineOk, Engines, Databases, Compute
<1>4. \A k \in Kinds : ViewOk(c, k, gone, dirty)
  <2>1. \A k \in Kinds : c.db[k] = e.db[k]
    BY <1>3 DEF Kinds
  <2> QED
    BY <1>2, <1>3, <2>1 DEF EngineOk, ViewOk
<1>5. ASSUME NEW j \in Battle PROVE SlotOk(c, j, gone, dirty)
  BY <1>3 DEF EngineOk, SlotOk, Derived
<1> HIDE DEF c
<1>6. EngineOk(c, gone, dirty)
  BY <1>2, <1>3, <1>4, <1>5 DEF EngineOk
<1> QED
  BY <1>2, <1>3, <1>6 DEF c

LEMMA EvictOk ==
    ASSUME NEW e, NEW gone, NEW dirty \in BOOLEAN, EngineOk(e, gone, dirty),
           NEW i \in Battle
    PROVE  /\ EngineOk(Evict(e, i), gone, dirty)
           /\ Evict(e, i).db.b = e.db.b
           /\ Evict(e, i).db.main = e.db.main
           /\ Evict(e, i).view = e.view
           /\ Evict(e, i).cache[i] = "invalid"
           /\ \A j \in Battle : j # i => Evict(e, i).cache[j] = e.cache[j]
<1> DEFINE c == Evict(e, i)
<1>1. c \in Engines /\ c.view = e.view
  BY ContentFields DEF EngineOk, Engines, Databases, Evict
<1>2. /\ c.db.main = e.db.main /\ c.db.b = e.db.b /\ c.db.r = e.db.r
      /\ \A j \in Battle : /\ j # i => c.db.bc[j] = e.db.bc[j] /\ c.cache[j] = e.cache[j]
                           /\ j = i => c.cache[j] = "invalid"
  BY DEF EngineOk, Engines, Databases, Evict
<1>3. \A k \in Kinds : ViewOk(c, k, gone, dirty)
  <2>1. \A k \in Kinds : c.db[k] = e.db[k]
    BY <1>2 DEF Kinds
  <2> QED
    BY <1>1, <1>2, <2>1 DEF EngineOk, ViewOk
<1>4. ASSUME NEW j \in Battle PROVE SlotOk(c, j, gone, dirty)
  BY <1>2 DEF EngineOk, SlotOk
<1> HIDE DEF c
<1>5. EngineOk(c, gone, dirty)
  BY <1>1, <1>2, <1>3, <1>4 DEF EngineOk
<1> QED
  BY <1>1, <1>2, <1>5 DEF c

\* attach_battledb_view finds or makes a summary of the battle.
LEMMA CachedOk ==
    ASSUME NEW e, NEW gone, NEW dirty \in BOOLEAN, EngineOk(e, gone, dirty),
           NEW i \in Battle
    PROVE  /\ EngineOk(Cached(e, i), gone, dirty)
           /\ Cached(e, i).cache[i] = "fresh"
           /\ Cached(e, i).db.b = e.db.b
           /\ Cached(e, i).db.main = e.db.main
           /\ Cached(e, i).view = e.view
<1>1. CASE e.cache[i] = "fresh"
  BY <1>1 DEF Cached
<1>2. CASE e.cache[i] = "stale"
  <2>1. EngineOk(Evict(e, i), gone, dirty)
    BY EvictOk
  <2>2. Cached(e, i) = Compute(Evict(e, i), i, i)
    BY <1>2 DEF Cached
  <2> QED
    BY <2>1, <2>2, ComputeOk, EvictOk
<1>3. CASE e.cache[i] = "invalid"
  <2>1. Cached(e, i) = Compute(e, i, i)
    BY <1>3 DEF Cached
  <2> QED
    BY <2>1, ComputeOk
<1> QED
  BY <1>1, <1>2, <1>3 DEF EngineOk, Engines

\* A schema and its key, replaced together.
Replaced(e, k, c, key) == [e EXCEPT !.db[k] = c, !.view[k] = key]

\* That is right if the key claims no more than is so.
LEMMA ReplacedOk ==
    ASSUME NEW e, NEW gone, NEW dirty \in BOOLEAN, EngineOk(e, gone, dirty),
           NEW k \in Kinds, NEW c \in Content, NEW key \in Keys,
           key.attached =>
               /\ c.battle = key.match /\ c.source \notin gone
               /\ key.fresh /\ ~dirty =>
                      c = [battle |-> key.match, source |-> e.db.main,
                           script |-> key.script]
    PROVE  /\ EngineOk(Replaced(e, k, c, key), gone, dirty)
           /\ Replaced(e, k, c, key).db[k] = c
           /\ \A j \in Kinds : j # k => Replaced(e, k, c, key).db[j] = e.db[j]
           /\ Replaced(e, k, c, key).db.main = e.db.main
<1> DEFINE f == Replaced(e, k, c, key)
<1>1. e \in Engines
  BY DEF EngineOk
<1>2. f \in Engines /\ f.db.main = e.db.main /\ f.db.bc = e.db.bc /\ f.cache = e.cache
  <2>1. CASE k = "r"
    BY <1>1, <2>1 DEF Replaced, Engines, Databases, Views, Kinds
  <2>2. CASE k = "b"
    BY <1>1, <2>2 DEF Replaced, Engines, Databases, Views, Kinds
  <2> QED
    BY <2>1, <2>2 DEF Kinds
<1>3. /\ f.db[k] = c /\ f.view[k] = key
      /\ \A j \in Kinds : j # k => f.db[j] = e.db[j] /\ f.view[j] = e.view[j]
  <2>1. CASE k = "r"
    BY <1>1, <2>1 DEF Replaced, Engines, Databases, Views, Kinds
  <2>2. CASE k = "b"
    BY <1>1, <2>2 DEF Replaced, Engines, Databases, Views, Kinds
  <2> QED
    BY <2>1, <2>2 DEF Kinds
<1> HIDE DEF f
<1>4. \A j \in Kinds : ViewOk(f, j, gone, dirty)
  BY <1>2, <1>3 DEF EngineOk, ViewOk
<1>5. \A i \in Battle : SlotOk(f, i, gone, dirty)
  BY <1>2 DEF EngineOk, SlotOk
<1>6. EngineOk(f, gone, dirty)
  BY <1>2, <1>4, <1>5 DEF EngineOk
<1> QED
  BY <1>2, <1>3, <1>6 DEF f

\* No key claims nothing.
LEMMA NoKeyClaimsNothing == NoKey \in Keys /\ ~NoKey.attached
BY DEF NoKey, Keys, Scripts

WithoutKey(e, k) == [e EXCEPT !.view[k] = NoKey]

LEMMA WithoutKeyOk ==
    ASSUME NEW e, NEW gone, NEW dirty \in BOOLEAN, EngineOk(e, gone, dirty),
           NEW k \in Kinds
    PROVE  /\ EngineOk(WithoutKey(e, k), gone, dirty)
           /\ WithoutKey(e, k).db = e.db
<1> DEFINE f == WithoutKey(e, k)
<1>1. e \in Engines
  BY DEF EngineOk
<1>2. /\ f \in Engines /\ f.db = e.db /\ f.cache = e.cache /\ f.view[k] = NoKey
      /\ \A j \in Kinds : j # k => f.view[j] = e.view[j]
  BY <1>1, NoKeyClaimsNothing DEF WithoutKey, Engines, Views
<1> HIDE DEF f
<1>3. \A j \in Kinds : ViewOk(f, j, gone, dirty)
  BY <1>2, NoKeyClaimsNothing DEF EngineOk, ViewOk
<1>4. \A i \in Battle : SlotOk(f, i, gone, dirty)
  BY <1>2 DEF EngineOk, SlotOk
<1>5. EngineOk(f, gone, dirty)
  BY <1>2, <1>3, <1>4 DEF EngineOk
<1> QED
  BY <1>2, <1>5 DEF f

\* An attach that succeeds, with the key that goes with it.
Claim(k, script, i) == [attached |-> TRUE, match |-> i, script |-> script, fresh |-> TRUE]

Attached(e, k, script, i) ==
    [Attach(e, k, script, i) EXCEPT !.view[k] = Claim(k, script, i)]

LEMMA AttachedIsReplaced ==
    ASSUME NEW e, NEW gone, NEW dirty \in BOOLEAN, EngineOk(e, gone, dirty),
           NEW k \in Kinds, NEW script \in Scripts, NEW i \in Battle
    PROVE  Attached(e, k, script, i) =
               IF k = "r"
               THEN Replaced(Counted(e), k, Derived(e, i, script), Claim(k, script, i))
               ELSE IF script = "default"
               THEN Replaced(Cached(e, i), k, Cached(e, i).db.bc[i], Claim(k, script, i))
               ELSE Replaced(e, k, Derived(e, i, script), Claim(k, script, i))
<1> DEFINE f   == Attached(e, k, script, i)
           c   == Derived(e, i, script)
           key == Claim(k, script, i)
<1>2. CASE k = "r"
  <2> DEFINE n == Counted(e)
  <2>1. EngineOk(n, gone, dirty)
    BY CountedOk
  <2>2. n \in Engines
    BY <2>1 DEF EngineOk
  <2>3. f = [[n EXCEPT !.db.r = c] EXCEPT !.view[k] = key]
    BY <1>2 DEF Attached, Attach, AttachR
  <2> HIDE DEF f, n, c, key
  <2>4. f = Replaced(n, k, c, key)
    BY <1>2, <2>2, <2>3 DEF Engines, Replaced
  <2> QED
    BY <1>2, <2>4 DEF f, n, c, key
<1>3. CASE k = "b" /\ script = "default"
  <2> DEFINE n == Cached(e, i)
             x == n.db.bc[i]
  <2>1. EngineOk(n, gone, dirty)
    BY CachedOk
  <2>2. n \in Engines
    BY <2>1 DEF EngineOk
  <2>3. f = [[n EXCEPT !.db.b = x] EXCEPT !.view[k] = key]
    BY <1>3, ContentFields DEF Attached, Attach, AttachB
  <2> HIDE DEF f, n, x, key
  <2>4. f = Replaced(n, k, x, key)
    BY <1>3, <2>2, <2>3 DEF Engines, Replaced
  <2> QED
    BY <1>3, <2>4 DEF f, n, x, key
<1>4. CASE k = "b" /\ script # "default"
  <2>1. e \in Engines
    BY DEF EngineOk
  <2>2. f = [[e EXCEPT !.db.b = c] EXCEPT !.view[k] = key]
    BY <1>4 DEF Attached, Attach, AttachB
  <2> HIDE DEF f, c, key
  <2>3. f = Replaced(e, k, c, key)
    BY <1>4, <2>1, <2>2 DEF Engines, Replaced
  <2> QED
    BY <1>4, <2>3 DEF f, c, key
<1> QED
  BY <1>2, <1>3, <1>4 DEF Kinds

LEMMA AttachedOk ==
    ASSUME NEW e, NEW gone, NEW dirty \in BOOLEAN, EngineOk(e, gone, dirty),
           NEW k \in Kinds, NEW script \in Scripts, NEW i \in Battle
    PROVE  /\ EngineOk(Attached(e, k, script, i), gone, dirty)
           /\ Attached(e, k, script, i).db[k].battle = i
           /\ Attached(e, k, script, i).db[k].source \notin gone
           /\ Attached(e, k, script, i).db.main = e.db.main
           /\ k = "r" => Attached(e, k, script, i).db.b = e.db.b
<1> DEFINE f   == Attached(e, k, script, i)
           c   == Derived(e, i, script)
           key == Claim(k, script, i)
<1>1. key \in Keys /\ key.match = i /\ key.script = script
  BY DEF Keys, Claim
<1>2. /\ c \in Content /\ c.battle = i /\ c.source \notin gone
      /\ c = [battle |-> i, source |-> e.db.main, script |-> script]
  BY ContentFields DEF Derived, EngineOk
<1>3. CASE k = "r"
  <2> DEFINE n == Counted(e)
  <2>1. EngineOk(n, gone, dirty) /\ n.db = e.db
    BY CountedOk
  <2>2. f = Replaced(n, k, c, key)
    BY <1>3, AttachedIsReplaced
  <2> HIDE DEF f, n, key, c
  <2>3. /\ EngineOk(f, gone, dirty) /\ f.db[k] = c /\ f.db.main = n.db.main
        /\ \A j \in Kinds : j # k => f.db[j] = n.db[j]
    BY <1>1, <1>2, <2>1, <2>2, ReplacedOk
  <2> QED
    BY <1>2, <1>3, <2>1, <2>3 DEF f, Kinds
<1>4. CASE k = "b" /\ script = "default"
  <2> DEFINE n == Cached(e, i)
             x == n.db.bc[i]
  <2>1. /\ EngineOk(n, gone, dirty) /\ n.db.main = e.db.main
        /\ n.cache[i] = "fresh"
    BY CachedOk
  <2>2. /\ x \in Content /\ x.battle = i /\ x.source \notin gone
        /\ ~dirty => x = [battle |-> i, source |-> n.db.main, script |-> "default"]
    BY <2>1 DEF EngineOk, SlotOk, Engines, Databases
  <2>3. f = Replaced(n, k, x, key)
    BY <1>4, AttachedIsReplaced
  <2> HIDE DEF f, n, x, key
  <2>4. EngineOk(f, gone, dirty) /\ f.db[k] = x /\ f.db.main = n.db.main
    BY <1>1, <1>4, <2>1, <2>2, <2>3, ReplacedOk
  <2> QED
    BY <1>4, <2>1, <2>2, <2>4 DEF f
<1>5. CASE k = "b" /\ script # "default"
  <2>1. f = Replaced(e, k, c, key)
    BY <1>5, AttachedIsReplaced
  <2> HIDE DEF f, key, c
  <2>2. EngineOk(f, gone, dirty) /\ f.db[k] = c /\ f.db.main = e.db.main
    BY <1>1, <1>2, <2>1, ReplacedOk
  <2> QED
    BY <1>2, <1>5, <2>2 DEF f
<1> QED
  BY <1>3, <1>4, <1>5 DEF Kinds

\* A refused one, whose key is dropped.
LEMMA RefusedOk ==
    ASSUME NEW e, NEW gone, NEW dirty \in BOOLEAN, EngineOk(e, gone, dirty),
           NEW k \in Kinds, NEW script \in Scripts, NEW i \in Battle,
           NEW f \in Refusals(e, k, script, i)
    PROVE  /\ EngineOk(WithoutKey(f, k), gone, dirty)
           /\ WithoutKey(f, k).db.main = e.db.main
           /\ k = "r" => WithoutKey(f, k).db.b = e.db.b
<1> DEFINE g == WithoutKey(f, k)
<1>1. PICK h \in {e, Counted(e), Cached(e, i)} :
          f = h \/ f = [h EXCEPT !.db[k] = Empty]
  <2> DEFINE Reached == CASE k = "r" -> {e, Counted(e)}
                          [] k = "b" /\ script = "default" -> {e, Cached(e, i)}
                          [] OTHER -> {e}
  <2>1. f \in Reached \cup {[h EXCEPT !.db[k] = Empty] : h \in Reached}
    BY DEF Refusals
  <2>2. Reached \subseteq {e, Counted(e), Cached(e, i)}
    BY DEF Kinds
  <2> HIDE DEF Reached
  <2> QED
    BY <2>1, <2>2
<1>2. /\ EngineOk(h, gone, dirty) /\ h.db.main = e.db.main
      /\ h.db.b = e.db.b
  <2>1. CASE h = e
    BY <2>1
  <2>2. CASE h = Counted(e)
    BY <2>2, CountedOk
  <2>3. CASE h = Cached(e, i)
    BY <2>3, CachedOk
  <2> QED
    BY <2>1, <2>2, <2>3
<1>3. CASE f = h
  BY <1>2, <1>3, WithoutKeyOk
<1>4. CASE f = [h EXCEPT !.db[k] = Empty]
  <2>0. h \in Engines
    BY <1>2 DEF EngineOk
  <2>1. g = Replaced(h, k, Empty, NoKey)
    BY <2>0, <1>4 DEF Engines, WithoutKey, Replaced
  <2> HIDE DEF g
  <2>2. /\ EngineOk(g, gone, dirty) /\ g.db.main = h.db.main
        /\ \A j \in Kinds : j # k => g.db[j] = h.db[j]
    BY <1>2, <2>1, ContentFields, NoKeyClaimsNothing, ReplacedOk
  <2> QED
    BY <1>2, <2>2 DEF g, Kinds
<1> QED
  BY <1>1, <1>3, <1>4

\* Whatever replay_ensure_db_view comes to: nothing claimed that is not so, and
\* after a success b is of the battle on screen.
LEMMA EnsuredOk ==
    ASSUME NEW e, NEW gone, NEW dirty \in BOOLEAN, EngineOk(e, gone, dirty),
           NEW k \in Kinds, NEW script \in Scripts, NEW i \in Battle \cup {None},
           NEW ok \in BOOLEAN, NEW f \in Ensured(e, k, script, i, ok)
    PROVE  /\ EngineOk(f, gone, dirty)
           /\ f.db.main = e.db.main
           /\ k = "r" \/ i = None => f.db.b = e.db.b
           /\ k = "b" /\ i # None /\ ok => f.db.b.battle = i /\ f.db.b.source \notin gone
<1>1. CASE i = None
  BY <1>1 DEF Ensured
<1>2. CASE Hit(e, k, script, i)
  <2>1. f = e
    BY <1>2 DEF Ensured
  <2>2. e.db[k].battle = i /\ e.db[k].source \notin gone
    BY <1>2 DEF Hit, EngineOk, ViewOk
  <2> QED
    BY <2>1, <2>2
<1>3. CASE i # None /\ ~Hit(e, k, script, i) /\ ok
  <2>1. f = Attached(e, k, script, i)
    BY <1>3 DEF Ensured, Attached, Claim
  <2> QED
    BY <1>3, <2>1, AttachedOk
<1>4. CASE i # None /\ ~Hit(e, k, script, i) /\ ~ok
  <2>1. PICK g \in Refusals(e, k, script, i) : f = WithoutKey(g, k)
    BY <1>4 DEF Ensured, WithoutKey
  <2> QED
    BY <1>4, <2>1, RefusedOk
<1> QED
  BY <1>1, <1>2, <1>3, <1>4

\* Both keys dropped: an export, or the teardown before a revert.
LEMMA DisownedOk ==
    ASSUME NEW e, NEW gone, NEW dirty \in BOOLEAN, EngineOk(e, gone, dirty)
    PROVE  /\ EngineOk(Disowned(e), gone, dirty)
           /\ Disowned(e).db = e.db
           /\ \A k \in Kinds : ~Disowned(e).view[k].attached
<1> DEFINE f == Disowned(e)
<1>1. e \in Engines
  BY DEF EngineOk
<1>2. /\ f \in Engines /\ f.db = e.db /\ f.cache = e.cache
      /\ \A k \in Kinds : f.view[k] = NoKey
  BY <1>1, NoKeyClaimsNothing DEF Engines, Views, Disowned
<1> HIDE DEF f
<1>3. \A k \in Kinds : ViewOk(f, k, gone, dirty)
  BY <1>2, NoKeyClaimsNothing DEF ViewOk
<1>4. \A i \in Battle : SlotOk(f, i, gone, dirty)
  BY <1>2 DEF EngineOk, SlotOk
<1>5. EngineOk(f, gone, dirty)
  BY <1>2, <1>3, <1>4 DEF EngineOk
<1> QED
  BY <1>2, <1>5, NoKeyClaimsNothing DEF f

\* Without keys any content will do in r and b.
Overwritten(e, x, y) == [e EXCEPT !.db.r = x, !.db.b = y]

LEMMA OverwrittenOk ==
    ASSUME NEW e, NEW gone, NEW dirty \in BOOLEAN, EngineOk(e, gone, dirty),
           \A k \in Kinds : ~e.view[k].attached,
           NEW x \in Content, NEW y \in Content
    PROVE  /\ EngineOk(Overwritten(e, x, y), gone, dirty)
           /\ Overwritten(e, x, y).db.main = e.db.main
<1> DEFINE f == Overwritten(e, x, y)
<1>1. e \in Engines
  BY DEF EngineOk
<1>2. /\ f \in Engines /\ f.db.main = e.db.main /\ f.db.bc = e.db.bc
      /\ f.cache = e.cache /\ f.view = e.view
  BY <1>1 DEF Overwritten, Engines, Databases
<1> HIDE DEF f
<1>3. \A k \in Kinds : ViewOk(f, k, gone, dirty)
  BY <1>2 DEF ViewOk
<1>4. \A i \in Battle : SlotOk(f, i, gone, dirty)
  BY <1>2 DEF EngineOk, SlotOk
<1>5. EngineOk(f, gone, dirty)
  BY <1>2, <1>3, <1>4 DEF EngineOk
<1> QED
  BY <1>2, <1>5 DEF f

-----------------------------------------------------------------------------
(* The invariant, action by action.                                        *)

\* The engine record is what an action made of it.
LEMMA EngineBecomes ==
    ASSUME NEW e, NEW gone, NEW dirty, EngineOk(e, gone, dirty), Becomes(e)
    PROVE  /\ Engine' = e
           /\ db' = e.db
           /\ db' \in Databases /\ view' \in Views
           /\ cache' \in [Battle -> {"invalid", "stale", "fresh"}]
<1>1. e \in Engines
  BY DEF EngineOk
<1>2. e = [db |-> e.db, view |-> e.view, cache |-> e.cache]
  BY <1>1 DEF Engines
<1> QED
  BY <1>1, <1>2 DEF Becomes, Engine, Engines

\* The rest of the typing.
Filling == [tick : Ticks \cup {None}, match : Battle \cup {None},
            rows : Content, sound : BOOLEAN]

Typed ==
    /\ custom \in [Kinds -> Scripts]
    /\ active \in Battle \cup {None}
    /\ synced \in Ticks \cup {None}
    /\ shown \in Seq(Battle \cup {None}) /\ Len(shown) = 2
    /\ slots \in [Modes -> Filling]
    /\ seq \in 0 .. MaxActs /\ acts \in 0 .. MaxActs /\ mishaps \in 0 .. MaxMishaps
    /\ writes \in Version /\ undone \subseteq Version
    /\ unhooked \in BOOLEAN /\ sound \in BOOLEAN

LEMMA TypeParts ==
    IInv <=> /\ Typed /\ EngineOk(Engine, undone, unhooked)
             /\ HistoryOk /\ ScreenOk /\ RowsOk
<1>1. ASSUME HistoryOk PROVE \A n \in DOMAIN stack : stack[n].id \in Known
  <2>1. \A n \in DOMAIN stack : stack[n] \in Savepoints
    BY <1>1 DEF HistoryOk
  <2> QED
    BY <2>1 DEF Savepoints
<1>2. Engine \in Engines <=> /\ db \in Databases /\ view \in Views
                            /\ cache \in [Battle -> {"invalid", "stale", "fresh"}]
  BY DEF Engine, Engines
<1>3. TypeOK <=> /\ Typed /\ db \in Databases /\ view \in Views
                 /\ cache \in [Battle -> {"invalid", "stale", "fresh"}]
                 /\ \A n \in DOMAIN stack : stack[n].id \in Known
  BY Zenon DEF TypeOK, Typed, Filling, Databases, Views, Keys
<1> QED
  BY <1>1, <1>2, <1>3, Zenon DEF IInv, EngineOk

LEMMA ShiftedPair ==
    ASSUME NEW S, NEW p \in Seq(S), Len(p) = 2
    PROVE  p[2] \in S
<1>1. 2 \in 1 .. Len(p)
  OBVIOUS
<1>2. \A n \in 1 .. Len(p) : p[n] \in S
  OBVIOUS
<1> QED
  BY <1>1, <1>2

LEMMA FrameKeeps ==
    ASSUME IInv, NEW t \in Ticks, NEW ok \in BOOLEAN, Frame(t, ok)
    PROVE  IInv'
<1> DEFINE i == ActiveAt[t]
<1>1. i \in Battle \cup {None} /\ t # None
  BY DbViewsConstants, ContentFields DEF Ticks
<1>2. Typed /\ EngineOk(Engine, undone, unhooked) /\ HistoryOk /\ ScreenOk /\ RowsOk
  BY TypeParts
<1>3. /\ active' = i /\ synced' = t /\ shown' = <<shown[2], i>>
      /\ custom' = custom /\ stack' = stack /\ seq' = seq /\ acts' = acts
      /\ writes' = writes /\ undone' = undone /\ unhooked' = unhooked
  BY DEF Frame, history
<1>4. /\ db' \in Databases /\ Engine'.db = db'
      /\ EngineOk(Engine, undone, unhooked)'
      /\ db'.main = db.main
      /\ sound' \in BOOLEAN /\ mishaps' \in 0 .. MaxMishaps
      /\ sound' /\ i # None => db'.b.battle = i /\ db'.b.source \notin undone
  <2>1. CASE t # synced
    <3>1. PICK e \in Ensured(Engine, "b", custom["b"], i, ok) : Becomes(e)
      BY <2>1 DEF Frame
    <3>2. custom["b"] \in Scripts /\ "b" \in Kinds
      BY <1>2 DEF Typed, Kinds
    <3>3. /\ EngineOk(e, undone, unhooked) /\ e.db.main = db.main
          /\ i # None /\ ok => e.db.b.battle = i /\ e.db.b.source \notin undone
      <4>1. Engine.db = db /\ unhooked \in BOOLEAN
        BY <1>2 DEF Engine, Typed
      <4> HIDE DEF i
      <4> QED
        BY <1>1, <1>2, <3>1, <3>2, <4>1, EnsuredOk
    <3>4. sound' = SoundAfter("b", i, ok) /\ Refuse(Engine, "b", custom["b"], i, ok)
      BY <2>1 DEF Frame
    <3>5. sound' \in BOOLEAN /\ (sound' /\ i # None => ok)
      BY <1>2, <3>4 DEF SoundAfter, Typed
    <3>6. mishaps' \in 0 .. MaxMishaps
      BY <1>2, <3>4, DbViewsConstants DEF Refuse, Typed
    <3> QED
      BY <1>3, <3>1, <3>3, <3>5, <3>6, EngineBecomes DEF Engine
  <2>2. CASE t = synced
    <3>1. db' = db /\ view' = view /\ cache' = cache /\ mishaps' = mishaps /\ sound' = sound
      BY <2>2 DEF Frame, engine
    <3>2. active = i
      BY <1>1, <1>2, <2>2 DEF ScreenOk
    <3> QED
      BY <1>1, <1>2, <1>3, <2>2, <3>1, <3>2 DEF ScreenOk, Typed, Engine, EngineOk, Engines
  <2> QED
    BY <2>1, <2>2
<1>5. \A m \in Modes :
          slots'[m] = IF Requery(m, t, i)
                      THEN [tick |-> t, match |-> i, rows |-> db'.b, sound |-> sound']
                      ELSE slots[m]
  BY DEF Frame
<1>6. ASSUME NEW m \in Modes, ~Requery(m, t, i)
      PROVE  /\ slots[m].match = i /\ active = i
             /\ slots[m].tick # None
  BY <1>1, <1>2, <1>6 DEF Requery, Modes, RowsOk
<1>7. RowsOk'
  <2> HIDE DEF i
  <2>1. ASSUME NEW m \in Modes
        PROVE  /\ slots'[m].match = i
               /\ slots'[m].match = ActiveAt[slots'[m].tick]
               /\ slots'[m].sound /\ i # None =>
                      slots'[m].rows.battle = i /\ slots'[m].rows.source \notin undone
    <3>1. CASE Requery(m, t, i)
      BY <1>4, <1>5, <3>1 DEF i
    <3>2. CASE ~Requery(m, t, i)
      BY <1>2, <1>5, <1>6, <3>2 DEF RowsOk
    <3> QED
      BY <3>1, <3>2
  <2> QED
    BY <1>3, <2>1 DEF RowsOk
<1>8. ScreenOk'
  BY <1>3, <1>4 DEF ScreenOk
<1>9. HistoryOk'
  BY <1>2, <1>3, <1>4 DEF HistoryOk, Savepoints, Known
<1>10. Typed'
  <2>1. slots' \in [Modes -> Filling]
    <3>1. slots' = [m \in Modes |->
                      IF Requery(m, t, i)
                      THEN [tick |-> t, match |-> i, rows |-> db'.b, sound |-> sound']
                      ELSE slots[m]]
      BY DEF Frame
    <3>2. db'.b \in Content
      BY <1>4 DEF Databases
    <3>3. [tick |-> t, match |-> i, rows |-> db'.b, sound |-> sound'] \in Filling
      BY <1>1, <1>4, <3>2 DEF Filling
    <3>4. slots \in [Modes -> Filling]
      BY <1>2 DEF Typed
    <3> QED
      BY <3>1, <3>3, <3>4
  <2>2. shown' \in Seq(Battle \cup {None}) /\ Len(shown') = 2
    <3>1. shown[2] \in Battle \cup {None}
      BY <1>2, ShiftedPair DEF Typed
    <3> HIDE DEF i
    <3> QED
      BY <1>1, <1>3, <3>1
  <2> QED
    BY <1>1, <1>2, <1>3, <1>4, <2>1, <2>2 DEF Typed
<1> QED
  BY <1>4, <1>7, <1>8, <1>9, <1>10, TypeParts, PTL

\* The terminal's writes are numbered higher than whatever was undone.
LEMMA WriteKeeps ==
    ASSUME IInv, NEW hooked \in BOOLEAN, Write(hooked)
    PROVE  IInv'
<1> DEFINE e == [Engine EXCEPT !.db.main = writes + 1]
<1>1. Typed /\ EngineOk(Engine, undone, unhooked) /\ HistoryOk /\ ScreenOk /\ RowsOk
  BY TypeParts
<1>2. /\ writes' = writes + 1 /\ acts' = acts + 1 /\ acts < MaxActs
      /\ custom' = custom /\ active' = active /\ synced' = synced /\ shown' = shown
      /\ slots' = slots /\ stack' = stack /\ seq' = seq /\ mishaps' = mishaps
      /\ undone' = undone /\ sound' = sound
      /\ unhooked' = (unhooked \/ ~hooked)
      /\ acts \in Nat /\ writes \in Nat /\ db.main <= writes
  BY <1>1, DbViewsConstants DEF Write, Act, history, Typed, HistoryOk, Version
<1>3. /\ writes + 1 \in Version /\ writes + 1 \notin undone
  BY <1>1, <1>2, DbViewsConstants DEF Version, HistoryOk, Typed
<1>4. /\ e \in Engines /\ e.db.main = writes + 1 /\ e.db.b = db.b
      /\ \A k \in Kinds : e.db[k] = db[k] /\ e.view[k] = view[k]
      /\ e.db.bc = db.bc /\ e.cache = cache
  <2>1. Engine \in Engines /\ Engine.db = db /\ Engine.view = view /\ Engine.cache = cache
    BY <1>1 DEF EngineOk, Engine
  <2>2. /\ e \in Engines /\ e.db.main = writes + 1 /\ e.db.b = db.b /\ e.db.r = db.r
        /\ e.db.bc = db.bc /\ e.cache = cache /\ e.view = view
    <3> HIDE DEF Engine
    <3> QED
      BY <1>3, <2>1 DEF Engines, Databases
  <2> HIDE DEF e
  <2> QED
    BY <2>2 DEF Kinds
<1>5. EngineOk(e, undone, TRUE)
  <2>1. Engine.db = db /\ Engine.view = view /\ Engine.cache = cache
    BY DEF Engine
  <2> HIDE DEF e
  <2>2. ASSUME NEW k \in Kinds PROVE ViewOk(e, k, undone, TRUE)
    <3>1. ViewOk(Engine, k, undone, unhooked)
      BY <1>1 DEF EngineOk
    <3>2. e.db[k] = Engine.db[k] /\ e.view[k] = Engine.view[k]
      BY <1>4, <2>1
    <3> QED
      BY <3>1, <3>2 DEF ViewOk
  <2>3. ASSUME NEW i \in Battle PROVE SlotOk(e, i, undone, TRUE)
    <3>1. SlotOk(Engine, i, undone, unhooked)
      BY <1>1 DEF EngineOk
    <3>2. e.db.bc = Engine.db.bc /\ e.cache = Engine.cache
      BY <1>4, <2>1
    <3> QED
      BY <3>1, <3>2 DEF SlotOk
  <2> QED
    BY <1>3, <1>4, <2>2, <2>3 DEF EngineOk
<1>6. EngineOk(Engine, undone, unhooked)' /\ db'.main = writes + 1 /\ db'.b = db.b
  <2>1. CASE hooked
    <3> DEFINE c == Counted(e)
    <3>1. /\ EngineOk(c, undone, TRUE) /\ c.db = e.db
          /\ \A k \in Kinds : ~c.view[k].fresh
          /\ \A i \in Battle : c.cache[i] # "fresh"
      BY <1>5, CountedOk
    <3>2. Becomes(c)
      BY <2>1 DEF Write
    <3> HIDE DEF c, e
    <3>3. EngineOk(c, undone, unhooked)
      BY <3>1 DEF EngineOk, ViewOk, SlotOk
    <3>4. unhooked' = unhooked /\ undone' = undone
      BY <1>1, <1>2, <2>1 DEF Typed
    <3>5. Engine' = c /\ db' = c.db
      BY <3>2, <3>3, EngineBecomes
    <3> QED
      BY <1>4, <3>1, <3>3, <3>4, <3>5
  <2>2. CASE ~hooked
    <3>1. Becomes(e) /\ unhooked' = TRUE
      BY <1>2, <2>2 DEF Write
    <3> HIDE DEF e
    <3> QED
      BY <1>2, <1>4, <1>5, <3>1, EngineBecomes
  <2> QED
    BY <2>1, <2>2
<1>7. HistoryOk'
  <2>1. \A n \in DOMAIN stack : stack[n] \in Savepoints
    BY <1>1 DEF HistoryOk
  <2>2. \A n \in DOMAIN stack : stack[n].db.main \in Int
    BY <2>1 DEF Savepoints, Databases, Version
  <2>3. db.main \in Int
    BY <1>1 DEF EngineOk, Engine, Engines, Databases, Version
  <2>4. \A n \in DOMAIN stack : stack[n].db.main <= writes + 1
    BY <1>1, <1>2, <2>2, <2>3 DEF HistoryOk
  <2>5. /\ stack' \in Seq(Savepoints') /\ undone' \subseteq 1 .. writes'
        /\ writes' <= acts' /\ seq' <= acts'
    BY <1>1, <1>2 DEF HistoryOk, Typed, Savepoints, Known
  <2> QED
    BY <1>1, <1>2, <1>6, <2>4, <2>5 DEF HistoryOk
<1>8. ScreenOk' /\ RowsOk'
  BY <1>1, <1>2, <1>6 DEF ScreenOk, RowsOk
<1>9. Typed'
  BY <1>1, <1>2, <1>3, DbViewsConstants DEF Typed
<1> QED
  BY <1>6, <1>7, <1>8, <1>9, TypeParts, PTL

\* replay_ensure_db_view from the terminal, with the key dropped first or not.
LEMMA TerminalRebuildKeeps ==
    ASSUME IInv, NEW e, EngineOk(e, undone, unhooked), e.db = db,
           NEW k \in Kinds, NEW script \in Scripts, NEW ok \in BOOLEAN,
           NEW f \in Ensured(e, k, script, active, ok), Becomes(f),
           Refuse(e, k, script, active, ok),
           sound' = SoundAfter(k, active, ok),
           Act, custom' \in [Kinds -> Scripts],
           UNCHANGED <<active, synced, shown, slots, history, writes, undone, unhooked>>
    PROVE  IInv'
<1>1. Typed /\ EngineOk(Engine, undone, unhooked) /\ HistoryOk /\ ScreenOk /\ RowsOk
  BY TypeParts
<1>2. /\ active' = active /\ synced' = synced /\ shown' = shown
      /\ slots' = slots /\ stack' = stack /\ seq' = seq
      /\ writes' = writes /\ undone' = undone /\ unhooked' = unhooked
      /\ acts' = acts + 1 /\ acts < MaxActs /\ acts \in Nat
  BY <1>1, DbViewsConstants DEF history, Act, Typed, Refuse
<1>3. /\ EngineOk(f, undone, unhooked) /\ f.db.main = db.main
      /\ k = "r" \/ active = None => f.db.b = db.b
      /\ k = "b" /\ active # None /\ ok => f.db.b.battle = active /\ f.db.b.source \notin undone
  <2>1. active \in Battle \cup {None} /\ unhooked \in BOOLEAN
    BY <1>1 DEF Typed
  <2> QED
    BY <2>1, EnsuredOk
<1>4. EngineOk(Engine, undone, unhooked)' /\ db' = f.db
  BY <1>2, <1>3, EngineBecomes
<1>5. sound' \in BOOLEAN /\ mishaps' \in 0 .. MaxMishaps
  BY <1>1, DbViewsConstants DEF SoundAfter, Refuse, Typed
<1>6. ScreenOk'
  BY <1>1, <1>2, <1>3, <1>4 DEF ScreenOk, SoundAfter, Kinds
<1>7. RowsOk'
  BY <1>1, <1>2 DEF RowsOk
<1>8. HistoryOk'
  BY <1>1, <1>2, <1>3, <1>4 DEF HistoryOk, Savepoints, Known, Typed
<1>9. Typed'
  BY <1>1, <1>2, <1>5, DbViewsConstants DEF Typed
<1> QED
  BY <1>4, <1>6, <1>7, <1>8, <1>9, TypeParts, PTL

LEMMA EnsureViewKeeps ==
    ASSUME IInv, NEW k \in Kinds, NEW ok \in BOOLEAN, EnsureView(k, ok)
    PROVE  IInv'
<1>1. EngineOk(Engine, undone, unhooked) /\ Engine.db = db /\ custom \in [Kinds -> Scripts]
  BY TypeParts DEF Engine, Typed
<1>2. PICK f \in Ensured(Engine, k, custom[k], active, ok) : Becomes(f)
  BY DEF EnsureView
<1>3. custom[k] \in Scripts
  BY <1>1
<1> QED
  BY <1>1, <1>2, <1>3, TerminalRebuildKeeps DEF EnsureView

LEMMA SetScriptKeeps ==
    ASSUME IInv, NEW k \in Kinds, NEW script \in Scripts, NEW ok \in BOOLEAN,
           SetScript(k, script, ok)
    PROVE  IInv'
<1> DEFINE e == WithoutKey(Engine, k)
<1>1. /\ EngineOk(Engine, undone, unhooked) /\ Engine.db = db
      /\ unhooked \in BOOLEAN /\ custom \in [Kinds -> Scripts]
  BY TypeParts DEF Engine, Typed
<1>2. EngineOk(e, undone, unhooked) /\ e.db = db
  BY <1>1, WithoutKeyOk
<1>3. custom' \in [Kinds -> Scripts]
  BY <1>1 DEF SetScript
<1>4. PICK f \in Ensured(e, k, script, active, ok) : Becomes(f)
  BY DEF SetScript, WithoutKey
<1>5. Refuse(e, k, script, active, ok) /\ sound' = SoundAfter(k, active, ok) /\ Act
  BY DEF SetScript, WithoutKey
<1>6. UNCHANGED <<active, synced, shown, slots, history, writes, undone, unhooked>>
  BY DEF SetScript
<1> HIDE DEF e
<1> QED
  BY <1>2, <1>3, <1>4, <1>5, <1>6, TerminalRebuildKeeps

\* Nothing of the history is lost by an action that touches neither main nor
\* the savepoints.
LEMMA HistoryKept ==
    ASSUME Typed, HistoryOk, db'.main = db.main, stack' = stack, seq' = seq,
           writes' = writes, undone' = undone, acts' = acts + 1
    PROVE  HistoryOk'
<1>1. writes \in Nat /\ seq \in Nat /\ acts \in Nat
  BY DbViewsConstants DEF Typed, Version
<1>2. writes' <= acts' /\ seq' <= acts'
  BY <1>1 DEF HistoryOk
<1>3. Savepoints' = Savepoints
  BY DEF Savepoints, Known
<1> QED
  BY <1>2, <1>3 DEF HistoryOk

LEMMA ConfigureKeeps ==
    ASSUME IInv, Configure
    PROVE  IInv'
<1>1. Typed /\ EngineOk(Engine, undone, unhooked) /\ HistoryOk /\ ScreenOk /\ RowsOk
  BY TypeParts
<1>2. /\ db' = db /\ view' = view /\ cache' = cache /\ custom' = custom
      /\ active' = active /\ synced' = synced /\ shown' = shown
      /\ stack' = stack /\ seq' = seq /\ mishaps' = mishaps
      /\ writes' = writes /\ undone' = undone /\ unhooked' = unhooked /\ sound' = sound
      /\ acts' = acts + 1 /\ acts < MaxActs
      /\ slots' = [m \in Modes |-> NewSlot]
  BY <1>1, DbViewsConstants DEF Configure, engine, history, ghosts, Act, Typed
<1>3. EngineOk(Engine, undone, unhooked)'
  <2>1. Engine' = Engine
    BY <1>2 DEF Engine
  <2> QED
    BY <1>1, <1>2, <2>1
<1>4. HistoryOk'
  BY <1>1, <1>2, HistoryKept
<1>5. RowsOk'
  BY <1>2 DEF RowsOk, NewSlot
<1>6. ScreenOk'
  BY <1>1, <1>2 DEF ScreenOk
<1>7. Typed'
  <2>1. NewSlot \in Filling
    BY ContentFields DEF Filling, NewSlot
  <2>2. slots' \in [Modes -> Filling]
    BY <1>2, <2>1
  <2> QED
    BY <1>1, <1>2, <2>2, DbViewsConstants DEF Typed
<1> QED
  BY <1>3, <1>4, <1>5, <1>6, <1>7, TypeParts, PTL

\* An action that only rewrites the engine, and leaves main and b alone or b
\* to nobody.
LEMMA RewriteKeeps ==
    ASSUME IInv, NEW e, EngineOk(e, undone, unhooked), Becomes(e),
           e.db.main = db.main, e.db.b = db.b \/ sound' = FALSE,
           sound' \in {sound, FALSE},
           mishaps' \in 0 .. MaxMishaps, Act,
           UNCHANGED <<custom, active, synced, shown, slots, history, writes, undone, unhooked>>
    PROVE  IInv'
<1>1. Typed /\ EngineOk(Engine, undone, unhooked) /\ HistoryOk /\ ScreenOk /\ RowsOk
  BY TypeParts
<1>2. /\ custom' = custom /\ active' = active /\ synced' = synced /\ shown' = shown
      /\ slots' = slots /\ stack' = stack /\ seq' = seq
      /\ writes' = writes /\ undone' = undone /\ unhooked' = unhooked
      /\ acts' = acts + 1 /\ acts' \in 0 .. MaxActs /\ acts \in Nat
  BY <1>1, DbViewsConstants DEF history, Act, Typed
<1>3. EngineOk(Engine, undone, unhooked)' /\ db' = e.db
  BY <1>2, EngineBecomes
<1>4. HistoryOk'
  BY <1>1, <1>2, <1>3, HistoryKept
<1>5. RowsOk'
  BY <1>1, <1>2 DEF RowsOk
<1>6. ScreenOk'
  <2>1. sound' => sound /\ db'.b = db.b
    BY <1>1, <1>3 DEF Typed
  <2> QED
    BY <1>1, <1>2, <2>1 DEF ScreenOk
<1>7. Typed'
  BY <1>1, <1>2 DEF Typed
<1> QED
  BY <1>3, <1>4, <1>5, <1>6, <1>7, TypeParts, PTL

LEMMA PrewarmKeeps ==
    ASSUME IInv, NEW i \in Battle, NEW victim \in Battle \cup {None}, NEW ok \in BOOLEAN,
           Prewarm(i, victim, ok)
    PROVE  IInv'
<1> DEFINE spared == IF victim = None THEN Engine ELSE Evict(Engine, victim)
<1>1. /\ EngineOk(Engine, undone, unhooked) /\ Engine.db = db
      /\ unhooked \in BOOLEAN /\ mishaps \in 0 .. MaxMishaps
  BY TypeParts DEF Engine, Typed
<1>2. /\ EngineOk(spared, undone, unhooked)
      /\ spared.db.main = db.main /\ spared.db.b = db.b
      /\ spared.cache[i] # "fresh"
  <2>1. CASE victim = None
    BY <1>1, <2>1 DEF Prewarm, Engine
  <2>2. CASE victim # None
    <3>1. Engine.cache[i] # "fresh" /\ victim # i /\ victim \in Battle
      BY <2>2 DEF Prewarm, Engine
    <3> QED
      BY <1>1, <2>2, <3>1, EvictOk
  <2> QED
    BY <2>1, <2>2
<1>3. /\ Act /\ sound' = sound
      /\ UNCHANGED <<custom, active, synced, shown, slots, history, writes, undone, unhooked>>
  BY DEF Prewarm, ghosts
<1>4. CASE ok
  <2> DEFINE e == Compute(spared, i, active)
  <2>1. Becomes(e) /\ mishaps' = mishaps
    BY <1>4 DEF Prewarm
  <2> HIDE DEF spared
  <2>2. /\ EngineOk(e, undone, unhooked)
        /\ e.db.main = db.main /\ e.db.b = db.b
    BY <1>1, <1>2, ComputeOk
  <2> HIDE DEF e
  <2> QED
    BY <1>1, <1>3, <2>1, <2>2, RewriteKeeps
<1>5. CASE ~ok
  <2> DEFINE e == [spared EXCEPT !.db.bc[i] = Empty]
  <2>1. Becomes(e) /\ mishaps' = mishaps + 1 /\ mishaps < MaxMishaps
    BY <1>5 DEF Prewarm
  <2> HIDE DEF spared
  <2>2. /\ e \in Engines /\ e.view = spared.view /\ e.cache = spared.cache
        /\ e.db.main = db.main /\ e.db.b = db.b /\ e.db.r = spared.db.r
        /\ \A j \in Battle : j # i => e.db.bc[j] = spared.db.bc[j]
    BY <1>2, ContentFields DEF EngineOk, Engines, Databases
  <2>3. \A k \in Kinds : e.db[k] = spared.db[k]
    BY <1>2, <2>2 DEF Kinds
  <2> HIDE DEF e
  <2>4. ASSUME NEW k \in Kinds PROVE ViewOk(e, k, undone, unhooked)
    <3>1. ViewOk(spared, k, undone, unhooked)
      BY <1>2 DEF EngineOk
    <3> QED
      BY <1>2, <2>2, <2>3, <3>1 DEF ViewOk
  <2>5. ASSUME NEW j \in Battle PROVE SlotOk(e, j, undone, unhooked)
    <3>1. SlotOk(spared, j, undone, unhooked)
      BY <1>2 DEF EngineOk
    <3> QED
      BY <1>2, <2>2, <3>1 DEF SlotOk
  <2>6. EngineOk(e, undone, unhooked)
    BY <1>2, <2>2, <2>4, <2>5 DEF EngineOk
  <2>7. mishaps' \in 0 .. MaxMishaps
    BY <1>1, <2>1, DbViewsConstants
  <2> QED
    BY <1>1, <1>3, <2>1, <2>2, <2>6, <2>7, RewriteKeeps
<1> QED
  BY <1>4, <1>5

LEMMA ExportKeeps ==
    ASSUME IInv, NEW i \in Battle, NEW ok \in BOOLEAN, Export(i, ok)
    PROVE  IInv'
<1> DEFINE d == Disowned(Engine)
           n == Counted(d)
           c == Derived(d, i, "default")
<1>1. /\ EngineOk(Engine, undone, unhooked) /\ Engine.db = db
      /\ unhooked \in BOOLEAN /\ mishaps \in 0 .. MaxMishaps
  BY TypeParts DEF Engine, Typed
<1>2. /\ EngineOk(d, undone, unhooked) /\ d.db = db
      /\ \A k \in Kinds : ~d.view[k].attached
  BY <1>1, DisownedOk
<1>3. /\ EngineOk(n, undone, unhooked) /\ n.db = db
      /\ \A k \in Kinds : ~n.view[k].attached
  <2>1. EngineOk(n, undone, unhooked) /\ n.db = db
    BY <1>1, <1>2, CountedOk
  <2>2. \A k \in Kinds : n.view[k].attached = d.view[k].attached
    BY <1>2 DEF Counted, EngineOk, Engines, Views, Keys
  <2> QED
    BY <1>2, <2>1, <2>2
<1>4. c \in Content /\ Empty \in Content /\ d.db.b \in Content /\ n.db.b \in Content
  BY <1>2, <1>3, ContentFields DEF EngineOk, Engines, Databases, Scripts
<1>5. PICK e \in {Exported(d, i)} \cup ExportFailures(d, i) :
          Becomes(e) /\ mishaps' \in 0 .. MaxMishaps
  <2>1. CASE ok
    BY <1>1, <2>1 DEF Export
  <2>2. CASE ~ok
    BY <1>1, <2>2, DbViewsConstants DEF Export
  <2> QED
    BY <2>1, <2>2
<1>6. EngineOk(e, undone, unhooked) /\ e.db.main = db.main
  <2>1. CASE e = Exported(d, i)
    <3>1. e = Overwritten(n, c, c)
      BY <2>1 DEF Exported, Overwritten
    <3> HIDE DEF d, n, c
    <3> QED
      BY <1>1, <1>3, <1>4, <3>1, OverwrittenOk
  <2>2. CASE e = d
    <3> HIDE DEF d
    <3> QED
      BY <1>2, <2>2
  <2>3. CASE e = [d EXCEPT !.db.r = Empty]
    <3>1. d.db = [main |-> d.db.main, r |-> d.db.r, b |-> d.db.b, bc |-> d.db.bc]
      BY <1>2 DEF EngineOk, Engines, Databases
    <3>2. d \in Engines
      BY <1>2 DEF EngineOk
    <3> HIDE DEF d
    <3>3. e = Overwritten(d, Empty, d.db.b)
      BY <2>3, <3>1, <3>2 DEF Engines, Databases, Overwritten
    <3> QED
      BY <1>1, <1>2, <1>4, <3>3, OverwrittenOk
  <2>4. CASE e = [n EXCEPT !.db.r = c, !.db.b = Empty]
    <3>1. e = Overwritten(n, c, Empty)
      BY <2>4 DEF Overwritten
    <3> HIDE DEF d, n, c
    <3> QED
      BY <1>1, <1>3, <1>4, <3>1, OverwrittenOk
  <2> QED
    BY <1>5, <2>1, <2>2, <2>3, <2>4 DEF ExportFailures
<1>7. /\ Act /\ sound' = FALSE
      /\ UNCHANGED <<custom, active, synced, shown, slots, history, writes, undone, unhooked>>
  BY DEF Export
<1> HIDE DEF d, n, c
<1> QED
  BY <1>5, <1>6, <1>7, RewriteKeeps

-----------------------------------------------------------------------------
(* Checkpoints.                                                            *)

LEMMA SaveKeeps ==
    ASSUME IInv, Save
    PROVE  IInv'
<1> DEFINE s == [id |-> NextId, db |-> db]
<1>1. Typed /\ EngineOk(Engine, undone, unhooked) /\ HistoryOk /\ ScreenOk /\ RowsOk
  BY TypeParts
<1>2. /\ db' = db /\ view' = view /\ cache' = cache /\ custom' = custom
      /\ active' = active /\ synced' = synced /\ shown' = shown /\ slots' = slots
      /\ mishaps' = mishaps
      /\ writes' = writes /\ undone' = undone /\ unhooked' = unhooked /\ sound' = sound
      /\ seq' = seq + 1 /\ acts' = acts + 1 /\ acts' \in 0 .. MaxActs
      /\ stack' = Append(stack, s)
      /\ writes \in Nat /\ seq \in Nat /\ acts \in Nat
  BY <1>1, DbViewsConstants DEF Save, engine, ghosts, Act, Typed, Version
<1>3. EngineOk(Engine, undone, unhooked)'
  <2>1. Engine' = Engine
    BY <1>2 DEF Engine
  <2> QED
    BY <1>1, <1>2, <2>1
<1>4. db \in Databases /\ db.main \in Nat /\ db.main \notin undone
  BY <1>1, DbViewsConstants DEF EngineOk, Engine, Engines, Databases, Version
<1>5. HistoryOk'
  <2>1. s \in Savepoints' /\ Savepoints \subseteq Savepoints'
    BY <1>2, <1>4 DEF Savepoints, Known, NextId
  <2>2. stack \in Seq(Savepoints)
    BY <1>1 DEF HistoryOk
  <2> HIDE DEF s
  <2>3. stack' \in Seq(Savepoints')
    BY <1>2, <2>1, <2>2
  <2>4. /\ DOMAIN stack' = DOMAIN stack \cup {Len(stack) + 1}
        /\ \A n \in DOMAIN stack : stack'[n] = stack[n] /\ n < Len(stack) + 1
        /\ stack'[Len(stack) + 1] = s /\ s.db = db
        /\ \A n \in DOMAIN stack : n \in Nat
        /\ Len(stack) \in Nat
    BY <1>2, <2>2 DEF s
  <2>5. \A n \in DOMAIN stack' : stack'[n].db.main \notin undone'
    BY <1>1, <1>2, <1>4, <2>4 DEF HistoryOk
  <2>6. \A n \in DOMAIN stack' : stack'[n].db.main <= db'.main
    BY <1>1, <1>2, <1>4, <2>4 DEF HistoryOk
  <2>7. \A m, n \in DOMAIN stack' : m <= n => stack'[m].db.main <= stack'[n].db.main
    BY <1>1, <1>2, <1>4, <2>4, <2>6 DEF HistoryOk
  <2>8. writes' <= acts' /\ seq' <= acts'
    BY <1>1, <1>2 DEF HistoryOk
  <2> QED
    BY <1>1, <1>2, <2>3, <2>5, <2>6, <2>7, <2>8 DEF HistoryOk
<1>6. RowsOk'
  BY <1>1, <1>2 DEF RowsOk
<1>7. ScreenOk'
  BY <1>1, <1>2 DEF ScreenOk
<1>8. Typed'
  <2>1. seq' \in 0 .. MaxActs
    BY <1>1, <1>2, DbViewsConstants DEF HistoryOk
  <2> QED
    BY <1>1, <1>2, <2>1 DEF Typed
<1> QED
  BY <1>3, <1>5, <1>6, <1>7, <1>8, TypeParts, PTL

\* A connection whose keys are all dropped claims nothing, whatever is in its
\* schemas.
LEMMA TornDownOk ==
    ASSUME NEW e \in Engines
    PROVE  /\ TornDown(e) \in Engines /\ TornDown(e).db = e.db
           /\ \A k \in Kinds : ~TornDown(e).view[k].attached
           /\ \A i \in Battle : TornDown(e).cache[i] = "invalid"
BY NoKeyClaimsNothing DEF TornDown, Disowned, Engines, Views

LEMMA ClaimsNothingOk ==
    ASSUME NEW e \in Engines, NEW gone, NEW dirty, e.db.main \notin gone,
           \A k \in Kinds : ~e.view[k].attached,
           \A i \in Battle : e.cache[i] = "invalid"
    PROVE  EngineOk(e, gone, dirty)
BY DEF EngineOk, ViewOk, SlotOk

\* What a revert undoes is not in what it restores: the savepoints around it
\* are older still.
LEMMA RevertKeeps ==
    ASSUME IInv, NEW id \in Known, Revert(id)
    PROVE  IInv'
<1>1. Typed /\ EngineOk(Engine, undone, unhooked) /\ HistoryOk
  BY TypeParts
<1>2. PICK n \in Found(id) :
        /\ Becomes([TornDown(Engine) EXCEPT !.db = stack[n].db])
        /\ stack' = Kept(n)
        /\ undone' = undone \cup {v \in 1 .. writes : v > stack[n].db.main}
  BY DEF Revert
<1>3. /\ active' = None /\ synced' = None /\ slots' = Forgotten
      /\ custom' = custom /\ shown' = shown /\ seq' = seq /\ mishaps' = mishaps
      /\ writes' = writes /\ unhooked' = unhooked /\ sound' = sound
      /\ acts' = acts + 1 /\ acts' \in 0 .. MaxActs
      /\ writes \in Nat /\ seq \in Nat /\ acts \in Nat
  BY <1>1, DbViewsConstants DEF Revert, Act, Typed, Version
<1>4. /\ n \in DOMAIN stack /\ n \in 1 .. Len(stack) /\ Len(stack) \in Nat
      /\ \A m \in DOMAIN stack : stack[m] \in Savepoints
      /\ \A m \in DOMAIN stack : stack[m].db \in Databases /\ stack[m].db.main \in Nat
      /\ stack[n].db \in Databases
  <2>1. n \in DOMAIN stack /\ stack \in Seq(Savepoints)
    BY <1>1 DEF Found, HistoryOk
  <2>2. \A m \in DOMAIN stack : stack[m] \in Savepoints
    BY <2>1
  <2>3. \A m \in DOMAIN stack : stack[m].db \in Databases
    BY <2>2 DEF Savepoints
  <2>4. \A m \in DOMAIN stack : stack[m].db.main \in Nat
    BY <2>3, DbViewsConstants DEF Databases, Version
  <2> QED
    BY <2>1, <2>2, <2>3, <2>4
<1> DEFINE d == stack[n].db
           e == [TornDown(Engine) EXCEPT !.db = d]
<1>5. d.main <= writes /\ d.main \notin undone' /\ d.main \in Nat
  <2>1. d.main <= db.main /\ db.main <= writes /\ d.main \notin undone
    BY <1>1, <1>4 DEF HistoryOk
  <2>2. db.main \in Nat
    BY <1>1, DbViewsConstants DEF EngineOk, Engine, Engines, Databases, Version
  <2> QED
    BY <1>2, <1>3, <1>4, <2>1, <2>2
<1>6. EngineOk(Engine, undone, unhooked)' /\ db' = d
  <2>1. /\ TornDown(Engine) \in Engines
        /\ \A k \in Kinds : ~TornDown(Engine).view[k].attached
        /\ \A i \in Battle : TornDown(Engine).cache[i] = "invalid"
    BY <1>1, TornDownOk DEF EngineOk
  <2>2. /\ e \in Engines /\ e.db = d
        /\ \A k \in Kinds : ~e.view[k].attached
        /\ \A i \in Battle : e.cache[i] = "invalid"
    BY <1>4, <2>1 DEF Engines
  <2> HIDE DEF e
  <2>3. EngineOk(e, undone', unhooked')
    BY <1>5, <2>2, ClaimsNothingOk
  <2> QED
    BY <1>2, <2>2, <2>3, EngineBecomes DEF e
<1>7. HistoryOk'
  <2>1. /\ stack' \in Seq(Savepoints) /\ DOMAIN stack' = 1 .. n
        /\ \A m \in 1 .. n : m \in DOMAIN stack /\ m <= n /\ stack'[m] = stack[m]
    BY <1>1, <1>2, <1>4 DEF Kept, HistoryOk
  <2>2. \A m \in 1 .. n : stack[m].db.main <= d.main
    BY <1>1, <1>4, <2>1 DEF HistoryOk
  <2> HIDE DEF d
  <2>3. \A m \in 1 .. n : stack[m].db.main \notin undone'
    BY <1>1, <1>2, <1>4, <1>5, <2>1, <2>2 DEF HistoryOk, d
  <2>4. \A m, l \in 1 .. n : m <= l => stack'[m].db.main <= stack'[l].db.main
    BY <1>1, <2>1 DEF HistoryOk
  <2>5. undone' \subseteq 1 .. writes'
    BY <1>1, <1>2, <1>3 DEF HistoryOk
  <2>6. writes' <= acts' /\ seq' <= acts' /\ Savepoints' = Savepoints
    BY <1>1, <1>3 DEF HistoryOk, Savepoints, Known
  <2> QED
    BY <1>3, <1>5, <1>6, <2>1, <2>2, <2>3, <2>4, <2>5, <2>6 DEF HistoryOk
<1>8. ScreenOk' /\ RowsOk'
  BY <1>3 DEF ScreenOk, RowsOk, Forgotten, NewSlot
<1>9. Typed'
  <2>1. NewSlot \in Filling
    BY ContentFields DEF Filling, NewSlot
  <2>2. slots' \in [Modes -> Filling]
    BY <1>3, <2>1 DEF Forgotten
  <2>3. undone' \subseteq Version
    BY <1>1, <1>2, DbViewsConstants DEF Typed, Version
  <2> QED
    BY <1>1, <1>3, <2>2, <2>3 DEF Typed
<1> QED
  BY <1>6, <1>7, <1>8, <1>9, TypeParts, PTL

LEMMA RevertFailsKeeps ==
    ASSUME IInv, NEW id \in Known, RevertFails(id)
    PROVE  IInv'
<1>1. /\ EngineOk(Engine, undone, unhooked) /\ Engine.db = db
      /\ mishaps \in 0 .. MaxMishaps
  BY TypeParts DEF Engine, Typed
<1> DEFINE e == TornDown(Engine)
<1>2. /\ e \in Engines /\ e.db = db
      /\ \A k \in Kinds : ~e.view[k].attached
      /\ \A i \in Battle : e.cache[i] = "invalid"
  BY <1>1, TornDownOk DEF EngineOk
<1>3. /\ Becomes(e) /\ Act /\ sound' = sound /\ mishaps' = mishaps
      /\ UNCHANGED <<custom, active, synced, shown, slots, history, writes, undone, unhooked>>
  BY DEF RevertFails, ghosts
<1> HIDE DEF e
<1>4. EngineOk(e, undone, unhooked)
  BY <1>1, <1>2, ClaimsNothingOk DEF EngineOk
<1> QED
  BY <1>1, <1>2, <1>3, <1>4, RewriteKeeps

-----------------------------------------------------------------------------
LEMMA InitOk == Init => IInv
<1> SUFFICES ASSUME Init PROVE IInv
  OBVIOUS
<1>1. LoadedDb \in Databases /\ LoadedDb.main = 0 /\ 0 \in Version
  BY ContentFields, DbViewsConstants DEF LoadedDb, Databases, Version
<1>2. EngineOk(Engine, undone, unhooked)
  <2>1. Engine \in Engines /\ Engine.db.main = 0
    BY <1>1, NoKeyClaimsNothing DEF Init, Engine, Engines, Views
  <2>2. /\ \A k \in Kinds : ~Engine.view[k].attached
        /\ \A i \in Battle : Engine.cache[i] = "invalid"
    BY NoKeyClaimsNothing DEF Init, Engine
  <2> QED
    BY <2>1, <2>2, ClaimsNothingOk DEF Init
<1>3. HistoryOk
  <2> DEFINE s == [id |-> 0, db |-> LoadedDb]
  <2>1. s \in Savepoints /\ s.db.main = 0
    BY <1>1 DEF Savepoints, Known, Init
  <2> HIDE DEF s
  <2>2. stack = <<s>> /\ db.main = 0
    BY <1>1 DEF Init, s
  <2>3. stack \in Seq(Savepoints) /\ DOMAIN stack = {1} /\ stack[1] = s
    BY <2>1, <2>2
  <2> QED
    BY <2>1, <2>2, <2>3 DEF HistoryOk, Init
<1>4. ScreenOk /\ RowsOk
  BY DEF Init, ScreenOk, RowsOk, NewSlot
<1>5. Typed
  <2>1. NewSlot \in Filling
    BY ContentFields DEF Filling, NewSlot
  <2>2. shown \in Seq(Battle \cup {None}) /\ Len(shown) = 2
    <3>1. shown = <<None, None>> /\ None \in Battle \cup {None}
      BY DEF Init
    <3> QED
      BY <3>1
  <2>3. slots \in [Modes -> Filling]
    BY <2>1 DEF Init
  <2>4. custom \in [Kinds -> Scripts] /\ undone \subseteq Version
    BY DEF Init, Scripts
  <2>5. /\ active \in Battle \cup {None} /\ synced \in Ticks \cup {None}
        /\ unhooked \in BOOLEAN /\ sound \in BOOLEAN
    BY DEF Init
  <2>6. /\ seq \in 0 .. MaxActs /\ acts \in 0 .. MaxActs /\ mishaps \in 0 .. MaxMishaps
        /\ writes \in Version
    BY <1>1, DbViewsConstants DEF Init
  <2> QED
    BY <2>2, <2>3, <2>4, <2>5, <2>6 DEF Typed
<1> QED
  BY <1>2, <1>3, <1>4, <1>5, TypeParts

\* The strengthened invariant holds of every session.
THEOREM InvariantHolds == Spec => []IInv
<1>1. Init => IInv
  BY InitOk
<1>2. IInv /\ [Next]_vars => IInv'
  <2> SUFFICES ASSUME IInv, [Next]_vars PROVE IInv'
    OBVIOUS
  <2>1. ASSUME NEW t \in Ticks, NEW ok \in BOOLEAN, Frame(t, ok) PROVE IInv'
    BY <2>1, FrameKeeps
  <2>2. CASE Terminal
    <3>1. ASSUME NEW hooked \in BOOLEAN, Write(hooked) PROVE IInv'
      BY <3>1, WriteKeeps
    <3>2. ASSUME NEW k \in Kinds, NEW ok \in BOOLEAN, EnsureView(k, ok) PROVE IInv'
      BY <3>2, EnsureViewKeeps
    <3>3. ASSUME NEW k \in Kinds, NEW ok \in BOOLEAN, NEW script \in Scripts,
                 SetScript(k, script, ok)
          PROVE  IInv'
      BY <3>3, SetScriptKeeps
    <3>4. CASE Save
      BY <3>4, SaveKeeps
    <3>5. ASSUME NEW id \in Known, Revert(id) PROVE IInv'
      BY <3>5, RevertKeeps
    <3>6. ASSUME NEW id \in Known, RevertFails(id) PROVE IInv'
      BY <3>6, RevertFailsKeeps
    <3> QED
      BY <2>2, <3>1, <3>2, <3>3, <3>4, <3>5, <3>6 DEF Terminal
  <2>3. CASE Configure
    BY <2>3, ConfigureKeeps
  <2>4. ASSUME NEW i \in Battle, NEW ok \in BOOLEAN, Export(i, ok) PROVE IInv'
    BY <2>4, ExportKeeps
  <2>5. ASSUME NEW i \in Battle, NEW ok \in BOOLEAN, NEW victim \in Battle \cup {None},
               Prewarm(i, victim, ok)
        PROVE  IInv'
    BY <2>5, PrewarmKeeps
  <2>6. CASE UNCHANGED vars
    <3>1. /\ Engine' = Engine /\ Savepoints' = Savepoints
          /\ UNCHANGED <<db, custom, active, synced, shown, slots, stack, seq, acts, mishaps,
                         writes, undone, unhooked, sound>>
      BY <2>6 DEF vars, engine, history, ghosts, Engine, Savepoints, Known
    <3>2. Typed /\ EngineOk(Engine, undone, unhooked) /\ HistoryOk /\ ScreenOk /\ RowsOk
      BY TypeParts
    <3>3. Typed' /\ EngineOk(Engine, undone, unhooked)'
      BY <3>1, <3>2 DEF Typed
    <3>4. HistoryOk' /\ ScreenOk' /\ RowsOk'
      BY <3>1, <3>2 DEF HistoryOk, ScreenOk, RowsOk
    <3> QED
      BY <3>3, <3>4, TypeParts, PTL
  <2> QED
    BY <2>1, <2>2, <2>3, <2>4, <2>5, <2>6 DEF Next
<1> QED
  BY <1>1, <1>2, PTL DEF Spec

-----------------------------------------------------------------------------
\* What may be reused of what was derived from the database is what deriving it
\* again would give (replay_export.c:385-394, 839-847), whatever is written,
\* edited, exported, refused or reverted in between.
THEOREM ReuseIsTruthful == Spec => []CachesAreTruthful
<1>1. IInv => CachesAreTruthful
  <2> SUFFICES ASSUME IInv PROVE CachesAreTruthful
    OBVIOUS
  <2>1. /\ TypeOK /\ EngineOk(Engine, undone, unhooked)
        /\ Engine.db = db /\ Engine.view = view /\ Engine.cache = cache
    BY DEF IInv, Engine
  <2>2. KeysAreTruthful
    BY <2>1 DEF KeysAreTruthful, KeyIsCurrent, EngineOk, ViewOk
  <2>3. SummariesAreTruthful
    BY <2>1 DEF SummariesAreTruthful, EngineOk, SlotOk
  <2> QED
    BY <2>1, <2>2, <2>3 DEF CachesAreTruthful
<1> QED
  BY <1>1, InvariantHolds, PTL

\* The rows the map draws are of the battle on screen in every cache mode.
THEOREM MapShowsTheBattle == Spec => []ShowsBattleOnScreen
<1>1. IInv => ShowsBattleOnScreen
  BY DEF IInv, RowsOk, ShowsBattleOnScreen, Filled
<1> QED
  BY <1>1, InvariantHolds, PTL

\* Whatever a revert undid is gone for good, however deep it went and however
\* many reverts there were.
THEOREM UndoneIsGone == Spec => []NothingUndoneRemains
<1>1. IInv => NothingUndoneRemains
  <2> SUFFICES ASSUME IInv PROVE NothingUndoneRemains
    OBVIOUS
  <2>1. /\ EngineOk(Engine, undone, unhooked) /\ RowsOk
        /\ Engine.db = db /\ Engine.view = view
    BY DEF IInv, Engine
  <2>2. db.main \notin undone
    BY <2>1 DEF EngineOk
  <2>3. \A k \in Kinds : view[k].attached => db[k].source \notin undone
    BY <2>1 DEF EngineOk, ViewOk
  <2>4. \A m \in Filled : slots[m].sound => slots[m].rows.source \notin undone
    BY <2>1 DEF RowsOk, Filled
  <2> QED
    BY <2>2, <2>3, <2>4 DEF NothingUndoneRemains
<1> QED
  BY <1>1, InvariantHolds, PTL
=============================================================================
