------------------------------ MODULE DbViews ------------------------------
(***************************************************************************)
(* One SQLite connection of the playback worker: the loaded data (main),   *)
(* the checkpoints of the SQL terminal (src/sql_terminal.c), the schemas   *)
(* derived from main on demand, r, b and one cache slot bc<N> per battle   *)
(* (src/replay_export.c), and the render queries that read b once per      *)
(* frame (src/replay_worker.c).                                            *)
(*                                                                         *)
(* The content of main is the number of the write that made it.  A derived *)
(* schema is the battle, the content of main and the script it was derived *)
(* from, or Empty: without rows, or with part of them only.  All of that   *)
(* is inside the savepoints; what C keeps beside it (cache keys) is not.   *)
(* g_data_generation only grows, so built_at_generation = g_data_generation*)
(* is a flag, fresh, that every counted write lowers.  The rest of a key   *)
(* that is not attached is never read: NoKey.                              *)
(*                                                                         *)
(* The user's writes go to main and move no border between battles; no     *)
(* script writes to main.  MaxActs bounds what the user and the scheduler  *)
(* do beside frames, MaxMishaps how often SQLite refuses a rebuild.        *)
(***************************************************************************)
EXTENDS Integers, Sequences, FiniteSets, SequencesExt

CONSTANTS MatchCount,   \* g_match_count
          ActiveAt,     \* battle on screen at each tick, a sequence
          Edited,       \* bounds of the model: the views whose script is edited,
          MaxActs,
          MaxMishaps

Battle == 0 .. MatchCount - 1
None   == -1
Ticks  == DOMAIN ActiveAt

ASSUME DbViewsConstants ==
    /\ MatchCount \in Nat \ {0}
    /\ ActiveAt \in Seq(Battle \cup {None})
    /\ Edited \subseteq {"r", "b"}
    /\ MaxActs \in Nat
    /\ MaxMishaps \in Nat

Kinds   == {"r", "b"}                 \* viewKind 1 and 2
Scripts == {"default", "edited"}      \* custom_sql: NULL, or the user's text
Modes   == {"tick", "live", "none"}   \* RENDER_CACHE_TICK, _LIVE, _NONE
Version == 0 .. MaxActs

Empty   == [battle |-> None, source |-> 0, script |-> "default"]
Content == {Empty} \cup [battle : Battle, source : Version, script : Scripts]

VARIABLES db,       \* main, r, b and the bc slots: what a savepoint restores
          view,     \* DbViewState of r and of b, but for custom_sql
          custom,   \* DbViewState.custom_sql
          cache,    \* g_bc_valid and g_bc_built_at_generation: "invalid", or
                    \* valid and "stale" or "fresh"
          active,   \* g_active_match_index
          synced,   \* g_battledb_synced_tick_id
          shown,    \* activeMatchIndex of the last two frames: what the page
                    \* may take for the battle on screen
          slots,    \* one render query slot of each mode
          stack,    \* the open savepoints with what they restore
          seq,      \* g_checkpoint_seq
          acts, mishaps,
          writes,   \* ghost: number of writes to main so far
          undone,   \* ghost: those a revert has undone
          unhooked, \* ghost: did a write escape the update hook?
          sound     \* ghost: did the last rebuild of b go well, and has
                    \* nobody taken b over since?

engine  == <<db, view, cache>>
history == <<stack, seq>>
ghosts  == <<writes, undone, unhooked, sound>>
vars    == <<engine, custom, active, synced, shown, slots, history, acts, mishaps, ghosts>>

NoKey    == [attached |-> FALSE, match |-> None, script |-> "default", fresh |-> FALSE]
NewSlot  == [tick |-> None, match |-> None, rows |-> Empty, sound |-> TRUE]
LoadedDb == [main |-> 0, r |-> Empty, b |-> Empty, bc |-> [i \in Battle |-> Empty]]

\* After a load: sql_checkpoint_init_baseline has opened cp0.
Init == /\ db = LoadedDb
        /\ view = [k \in Kinds |-> NoKey]
        /\ custom = [k \in Kinds |-> "default"]
        /\ cache = [i \in Battle |-> "invalid"]
        /\ active = None
        /\ synced = None
        /\ shown = <<None, None>>
        /\ slots = [m \in Modes |-> NewSlot]
        /\ stack = <<[id |-> 0, db |-> LoadedDb]>>
        /\ seq = 0
        /\ acts = 0 /\ mishaps = 0
        /\ writes = 0 /\ undone = {} /\ unhooked = FALSE /\ sound = TRUE

-----------------------------------------------------------------------------
(* Rebuilding.  The operators map a record e of db, view and cache to the  *)
(* record after the call.                                                  *)

Engine == [db |-> db, view |-> view, cache |-> cache]

\* on_row_changed: a write outside b and the bc slots makes every key stale.
Counted(e) == [e EXCEPT !.view = [k \in Kinds |-> [e.view[k] EXCEPT !.fresh = FALSE]],
                        !.cache = [i \in Battle |->
                            IF e.cache[i] = "fresh" THEN "stale" ELSE e.cache[i]]]

Derived(e, i, script) == [battle |-> i, source |-> e.db.main, script |-> script]

\* bc_compute
Compute(e, i, onScreen) ==
    [e EXCEPT !.db.bc[i] = Derived(e, i, "default"),
              !.cache[i] = "fresh"]

\* bc_evict
Evict(e, i) == [e EXCEPT !.db.bc[i] = Empty, !.cache[i] = "invalid"]

\* attach_battledb_view's use of the cache: a stale slot is derived again.
Cached(e, i) ==
    IF e.cache[i] = "fresh" THEN e
    ELSE Compute(IF e.cache[i] = "stale" THEN Evict(e, i) ELSE e, i, i)

\* attach_replaydb_view
AttachR(e, script, i) == [Counted(e) EXCEPT !.db.r = Derived(e, i, script)]

\* attach_battledb_view
AttachB(e, script, i) ==
    IF script = "default" /\ i # None
    THEN LET c == Cached(e, i) IN [c EXCEPT !.db.b = c.db.bc[i]]
    ELSE [e EXCEPT !.db.b = Derived(e, i, script)]

Attach(e, k, script, i) ==
    IF k = "r" THEN AttachR(e, script, i) ELSE AttachB(e, script, i)

\* What a refused attach may leave: the schema as it was or Empty; rows of r
\* already counted, or the cache slot of b already computed.
Refusals(e, k, script, i) ==
    LET reached == CASE k = "r" -> {e, Counted(e)}
                     [] k = "b" /\ script = "default" -> {e, Cached(e, i)}
                     [] OTHER -> {e}
    IN  reached \cup {[f EXCEPT !.db[k] = Empty] : f \in reached}

\* The three-part cache key of replay_ensure_db_view.
Hit(e, k, script, i) == /\ e.view[k].attached
                        /\ e.view[k].match = i
                        /\ e.view[k].fresh
                        /\ e.view[k].script = script

\* Mutated form of Ensured: a refused rebuild keeps the key.
EnsuredKeepsKey(e, k, script, i, ok) ==
    IF i = None \/ Hit(e, k, script, i) THEN {e}
    ELSE IF ok
         THEN {[Attach(e, k, script, i) EXCEPT
                   !.view[k] = [attached |-> TRUE, match |-> i,
                                script |-> script, fresh |-> TRUE]]}
         ELSE Refusals(e, k, script, i)

\* replay_ensure_db_view with battle i active: the possible outcomes, those of
\* a refused rebuild unless ok.
Ensured(e, k, script, i, ok) ==
    IF i = None \/ Hit(e, k, script, i) THEN {e}
    ELSE IF ok
         THEN {[Attach(e, k, script, i) EXCEPT
                   !.view[k] = [attached |-> TRUE, match |-> i,
                                script |-> script, fresh |-> TRUE]]}
         ELSE {[f EXCEPT !.view[k] = NoKey] : f \in Refusals(e, k, script, i)}

Becomes(e) == db' = e.db /\ view' = e.view /\ cache' = e.cache

\* ok is FALSE only for a rebuild that is attempted and refused.
Refuse(e, k, script, i, ok) ==
    IF ok THEN UNCHANGED mishaps
    ELSE /\ i # None /\ ~Hit(e, k, script, i)
         /\ mishaps < MaxMishaps /\ acts + mishaps < MaxActs
         /\ mishaps' = mishaps + 1

\* The ghost after replay_ensure_db_view(k) with battle i active.
SoundAfter(k, i, ok) == IF k = "r" \/ i = None THEN sound ELSE ok

Act == acts + mishaps < MaxActs /\ acts' = acts + 1

-----------------------------------------------------------------------------
(* Frames.                                                                 *)

\* Mutated form of Requery: mode none forgets that battles change.
RequeryNoneOnce(mode, t, i) ==
    CASE mode = "live" -> TRUE
      [] mode = "tick" -> slots[mode].tick # t
      [] mode = "none" -> slots[mode].tick = None

\* Does ensure_render_query_rows run the slot's query again?
Requery(mode, t, i) ==
    CASE mode = "live" -> TRUE
      [] mode = "tick" -> slots[mode].tick # t
      [] mode = "none" -> slots[mode].tick = None \/ slots[mode].match # i

\* build_frame_at_time at tick t.
Frame(t, ok) ==
    LET i == ActiveAt[t]
    IN  /\ active' = i
        /\ synced' = t
        /\ shown' = <<shown[2], i>>
        /\ IF t # synced
           THEN /\ \E e \in Ensured(Engine, "b", custom["b"], i, ok) : Becomes(e)
                /\ Refuse(Engine, "b", custom["b"], i, ok)
                /\ sound' = SoundAfter("b", i, ok)
           ELSE ok /\ UNCHANGED <<engine, mishaps, sound>>
        /\ slots' = [m \in Modes |->
               IF Requery(m, t, i)
               THEN [tick |-> t, match |-> i, rows |-> db'.b, sound |-> sound']
               ELSE slots[m]]
        /\ UNCHANGED <<custom, history, acts, writes, undone, unhooked>>

-----------------------------------------------------------------------------
(* The SQL terminal and the schema explorer.                               *)

\* A write to main from the terminal.  The update hook misses a DELETE without
\* WHERE, which SQLite turns into a truncation, and every DDL statement.
Write(hooked) ==
    /\ Act
    /\ writes' = writes + 1
    /\ Becomes(LET e == [Engine EXCEPT !.db.main = writes + 1]
               IN  IF hooked THEN Counted(e) ELSE e)
    /\ unhooked' = (unhooked \/ ~hooked)
    /\ UNCHANGED <<custom, active, synced, shown, slots, history, mishaps, undone, sound>>

\* ensureDbView: the terminal or the explorer looks at r or b.
EnsureView(k, ok) ==
    /\ Act
    /\ \E e \in Ensured(Engine, k, custom[k], active, ok) : Becomes(e)
    /\ Refuse(Engine, k, custom[k], active, ok)
    /\ sound' = SoundAfter(k, active, ok)
    /\ UNCHANGED <<custom, active, synced, shown, slots, history, writes, undone, unhooked>>

\* replay_run_generator_script and replay_reset_generator_script.
SetScript(k, script, ok) ==
    LET forced == [Engine EXCEPT !.view[k] = NoKey]
    IN  /\ Act
        /\ script = "edited" => k \in Edited
        /\ custom' = [custom EXCEPT ![k] = script]
        /\ \E e \in Ensured(forced, k, script, active, ok) : Becomes(e)
        /\ Refuse(forced, k, script, active, ok)
        /\ sound' = SoundAfter(k, active, ok)
        /\ UNCHANGED <<active, synced, shown, slots, history, writes, undone, unhooked>>

\* replay_render_query_configure of every slot: the page resubmits its list.
Configure ==
    /\ Act
    /\ slots' = [m \in Modes |-> NewSlot]
    /\ UNCHANGED <<engine, custom, active, synced, shown, history, mishaps, ghosts>>

\* replay_prewarm_battle_summary, which may sacrifice another battle's slot and
\* may be refused (a decline changes nothing).
Prewarm(i, victim, ok) ==
    LET spared == IF victim = None THEN Engine ELSE Evict(Engine, victim)
    IN  /\ Act
        /\ cache[i] # "fresh"
        /\ victim # None => victim \notin {i, active} /\ cache[victim] # "invalid"
        /\ IF ok
           THEN Becomes(Compute(spared, i, active)) /\ UNCHANGED mishaps
           ELSE /\ mishaps < MaxMishaps /\ mishaps' = mishaps + 1
                /\ Becomes([spared EXCEPT !.db.bc[i] = Empty])
        /\ UNCHANGED <<custom, active, synced, shown, slots, history, ghosts>>

\* What replay_export_battle leaves in r and b: the exported battle's data,
\* since the DETACH at its end is refused inside a savepoint.
Exported(e, i) == [Counted(e) EXCEPT !.db.r = Derived(e, i, "default"),
                                     !.db.b = Derived(e, i, "default")]
ExportFailures(e, i) ==
    {e, [e EXCEPT !.db.r = Empty],
     [Counted(e) EXCEPT !.db.r = Derived(e, i, "default"), !.db.b = Empty]}

\* Both views lose their claim on what their schema holds.
Disowned(e) == [e EXCEPT !.view = [k \in Kinds |-> NoKey]]

\* replay_export_battle of the page's battle on screen, which is the worker's
\* unless a frame was pending at the click.
Export(i, ok) ==
    /\ Act
    /\ i \in {shown[1], shown[2]}
    /\ IF ok THEN Becomes(Exported(Disowned(Engine), i)) /\ UNCHANGED mishaps
       ELSE /\ mishaps < MaxMishaps /\ mishaps' = mishaps + 1
            /\ \E e \in ExportFailures(Disowned(Engine), i) : Becomes(e)
    /\ sound' = FALSE
    /\ UNCHANGED <<custom, active, synced, shown, slots, history, writes, undone, unhooked>>

-----------------------------------------------------------------------------
(* Checkpoints.                                                            *)

\* The number of the next checkpoint.
NextId == seq + 1

\* sql_checkpoint_save: SAVEPOINT cp<id>.
Save == /\ Act
        /\ stack' = Append(stack, [id |-> NextId, db |-> db])
        /\ seq' = seq + 1
        /\ UNCHANGED <<engine, custom, active, synced, shown, slots, mishaps, ghosts>>

\* replay_detach_generator_views
TornDown(e) == [Disowned(e) EXCEPT !.cache = [i \in Battle |-> "invalid"]]

\* The innermost open savepoint named cp<id>, in a set of at most one.
Found(id) == {n \in DOMAIN stack : /\ stack[n].id = id
                                   /\ \A m \in DOMAIN stack : stack[m].id = id => m <= n}

\* What stays open after ROLLBACK TO the n-th: it and those around it.
Kept(n) == SubSeq(stack, 1, n)

\* Mutated form of Forgotten: only the slots keyed by tick.
ForgottenByTick == [slots EXCEPT !["tick"] = NewSlot]

\* replay_invalidate_caches_after_revert: the slots.  The rows stay allocated,
\* but a slot without a tick is queried again before they are read: NewSlot.
Forgotten == [m \in Modes |-> NewSlot]

\* sql_checkpoint_revert of a checkpoint that is still open.
Revert(id) ==
    /\ Act
    /\ \E n \in Found(id) :
          /\ Becomes([TornDown(Engine) EXCEPT !.db = stack[n].db])
          /\ stack' = Kept(n)
          /\ undone' = undone \cup {v \in 1 .. writes : v > stack[n].db.main}
    /\ active' = None
    /\ synced' = None
    /\ slots' = Forgotten
    /\ UNCHANGED <<custom, shown, seq, mishaps, writes, unhooked, sound>>

\* ROLLBACK TO fails: the savepoint is gone, but the views are torn down.
RevertFails(id) ==
    /\ Act
    /\ Found(id) = {}
    /\ Becomes(TornDown(Engine))
    /\ UNCHANGED <<custom, active, synced, shown, slots, history, mishaps, ghosts>>

\* knownCheckpointIds: the page lists every checkpoint ever saved.
Known == 0 .. seq

-----------------------------------------------------------------------------
Terminal ==
    \/ \E hooked \in BOOLEAN : Write(hooked)
    \/ \E k \in Kinds, ok \in BOOLEAN :
          EnsureView(k, ok) \/ \E script \in Scripts : SetScript(k, script, ok)
    \/ Save
    \/ \E id \in Known : Revert(id) \/ RevertFails(id)

Next ==
    \/ \E t \in Ticks, ok \in BOOLEAN : Frame(t, ok)
    \/ Terminal
    \/ Configure
    \/ \E i \in Battle, ok \in BOOLEAN :
          Export(i, ok) \/ \E victim \in Battle \cup {None} : Prewarm(i, victim, ok)

Spec == Init /\ [][Next]_vars

-----------------------------------------------------------------------------
TypeOK ==
    /\ db \in [main : Version, r : Content, b : Content, bc : [Battle -> Content]]
    /\ view \in [Kinds -> [attached : BOOLEAN, match : Battle \cup {None},
                           script : Scripts, fresh : BOOLEAN]]
    /\ custom \in [Kinds -> Scripts]
    /\ cache \in [Battle -> {"invalid", "stale", "fresh"}]
    /\ active \in Battle \cup {None}
    /\ synced \in Ticks \cup {None}
    /\ shown \in Seq(Battle \cup {None}) /\ Len(shown) = 2
    /\ slots \in [Modes -> [tick : Ticks \cup {None}, match : Battle \cup {None},
                            rows : Content, sound : BOOLEAN]]
    /\ \A n \in DOMAIN stack : stack[n].id \in Known
    /\ seq \in 0 .. MaxActs /\ acts \in 0 .. MaxActs /\ mishaps \in 0 .. MaxMishaps
    /\ writes \in Version /\ undone \subseteq Version
    /\ unhooked \in BOOLEAN /\ sound \in BOOLEAN

\* A view whose key would hit is what its script derives from the data as they
\* are now, for the battle of the key: through battle switches, edits, refused
\* rebuilds, exports that take the schema over, and reverts that roll the schema
\* back under a key that is not rolled back (replay_export.c:839-847).
KeyIsCurrent(k) ==
    view[k].attached /\ view[k].fresh =>
        db[k] = [battle |-> view[k].match, source |-> db.main, script |-> view[k].script]

\* Not so after a write that SQLite's update hook does not report.
KeysAreTruthful == unhooked \/ \A k \in Kinds : KeyIsCurrent(k)

\* A cache slot that attach_battledb_view would copy from is its own battle's
\* summary of the data as they are now (replay_export.c:385-394), although it
\* is derived while another battle may be on screen.
SummariesAreTruthful ==
    \A i \in Battle : cache[i] = "fresh" /\ ~unhooked =>
        db.bc[i] = [battle |-> i, source |-> db.main, script |-> "default"]

\* What may be reused of what was derived from the database is what deriving it
\* again would give.
CachesAreTruthful == TypeOK /\ KeysAreTruthful /\ SummariesAreTruthful

\* The slots a frame has filled since they were last reset.
Filled == {m \in Modes : active # None /\ slots[m].tick # None}

\* What the map shows is of the battle on screen, in every cache mode, as far
\* as b was this battle's when the slot was queried: an export that was clicked
\* before a pending frame was answered leaves b to the battle of the click.
ShowsBattleOnScreen ==
    \A m \in Filled : slots[m].sound => slots[m].rows.battle = active

\* What a revert undid is gone for good: it is neither in main, nor in a view
\* that would be reused, nor on the map once a frame was drawn.
NothingUndoneRemains ==
    /\ db.main \notin undone
    /\ \A k \in Kinds : view[k].attached => db[k].source \notin undone
    /\ \A m \in Filled : slots[m].sound => slots[m].rows.source \notin undone
=============================================================================
