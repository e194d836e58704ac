---------------------------- MODULE Checkpoints ----------------------------
(***************************************************************************)
(* The checkpoints of the SQL terminal: SQLite's stack of savepoints on    *)
(* the playback worker's connection (src/sql_terminal.c), the page's list  *)
(* and selection (src/main.js), and the messages between them.             *)
(*                                                                         *)
(* The data are the set of the writes made so far.  The terminal executes  *)
(* whatever the user types, so besides writes there are the statements     *)
(* that end savepoints behind the checkpoints' back, those in Typed.  Page *)
(* and worker keep statements apart from checkpoint messages (a statement  *)
(* may wait in the page's queue, which Session models, while a click on    *)
(* Save overtakes it), so a statement may come at any moment.  A statement *)
(* that fails changes nothing.  What a revert does to caches is DbViews.   *)
(*                                                                         *)
(* Bounds of the model: MaxWrites, MaxSaves and MaxWaiting messages.       *)
(***************************************************************************)
EXTENDS Integers, Sequences

CONSTANTS Typed,        \* statements the user types beside writes
          MaxWrites,
          MaxSaves,
          MaxWaiting

Statements == {"commit", "rollback", "release", "rollback to"}

ASSUME CheckpointsConstants ==
    /\ Typed \subseteq Statements
    /\ MaxWrites \in Nat
    /\ MaxSaves \in Nat
    /\ MaxWaiting \in Nat

VARIABLES data,      \* the writes in the database
          writes,    \* how many were made
          stack,     \* open savepoints, outermost first
          seq,       \* g_checkpoint_seq
          toWorker,  \* checkpointSave and checkpointRevert on their way
          toPage,    \* checkpointSaved answers on their way: their numbers
          listed,    \* knownCheckpointIds
          current,   \* currentCheckpointId
          saved,     \* ghost: every checkpoint saved, with the data it saved
          undone,    \* ghost: the writes that a revert or rollback undid
          ended      \* ghost: has a typed statement ended cp0?

base   == <<data, writes, stack, seq>>
page   == <<toPage, listed, current>>
ghosts == <<saved, undone, ended>>
checkpointsVars == <<base, toWorker, page, ghosts>>

Numbers    == 0 .. MaxSaves
Writes     == 1 .. MaxWrites
Checkpoint == [id : Numbers, data : SUBSET Writes]
Message    == [type : {"save", "revert"}, id : Numbers]

Initial == [id |-> 0, data |-> {}]

\* After a load: sql_checkpoint_init_baseline has opened cp0, and the page has
\* listed it.
CheckpointsInit ==
    /\ data = {} /\ writes = 0
    /\ stack = <<Initial>>
    /\ seq = 0
    /\ toWorker = <<>> /\ toPage = <<>>
    /\ listed = <<0>> /\ current = 0
    /\ saved = <<Initial>> /\ undone = {} /\ ended = FALSE

-----------------------------------------------------------------------------
(* The connection.                                                         *)

\* The number of the next checkpoint.
NextId == seq + 1

\* Is the n-th savepoint the one that cp<id> names, the innermost of that name?
Names(n, id) == /\ n \in 1 .. Len(stack)
                /\ stack[n].id = id
                /\ \A m \in 1 .. Len(stack) : stack[m].id = id => m <= n

IsOpen(id) == \E n \in 1 .. Len(stack) : stack[n].id = id

BackTo(n) == stack[n].data

\* What is open after ROLLBACK TO the n-th savepoint: it and those around it.
Kept(n) == SubSeq(stack, 1, n)

Undo(n) == /\ data' = BackTo(n)
           /\ stack' = Kept(n)
           /\ undone' = undone \cup (data \ stack[n].data)

\* The user's statements.
Write ==
    /\ writes < MaxWrites
    /\ writes' = writes + 1
    /\ data' = data \cup {writes + 1}
    /\ UNCHANGED <<stack, seq, toWorker, page, ghosts>>

\* COMMIT, while there is a transaction to commit.
Commit ==
    /\ "commit" \in Typed
    /\ stack # <<>>
    /\ stack' = <<>>
    /\ ended' = TRUE
    /\ UNCHANGED <<data, writes, seq, toWorker, page, saved, undone>>

\* ROLLBACK: the transaction began with the outermost savepoint.
Rollback ==
    /\ "rollback" \in Typed
    /\ stack # <<>>
    /\ data' = stack[1].data
    /\ stack' = <<>>
    /\ undone' = undone \cup (data \ stack[1].data)
    /\ ended' = TRUE
    /\ UNCHANGED <<writes, seq, toWorker, page, saved>>

\* RELEASE cp<id>: it and the savepoints in it are merged into those around.
Release(id) ==
    /\ "release" \in Typed
    /\ \E n \in 1 .. Len(stack) : /\ Names(n, id)
                                  /\ stack' = SubSeq(stack, 1, n - 1)
    /\ ended' = (ended \/ id = 0)
    /\ UNCHANGED <<data, writes, seq, toWorker, page, saved, undone>>

\* ROLLBACK TO cp<id>.
RollbackTo(id) ==
    /\ "rollback to" \in Typed
    /\ \E n \in 1 .. Len(stack) : Names(n, id) /\ Undo(n)
    /\ UNCHANGED <<writes, seq, toWorker, page, saved, ended>>

Statement == \/ Write \/ Commit \/ Rollback
             \/ \E id \in Numbers : Release(id) \/ RollbackTo(id)

-----------------------------------------------------------------------------
(* The worker's two messages.                                              *)

Take(type) == /\ toWorker # <<>>
              /\ Head(toWorker).type = type
              /\ toWorker' = Tail(toWorker)

\* runCheckpointSave
Save ==
    /\ Take("save")
    /\ seq < MaxSaves
    /\ stack' = Append(stack, [id |-> NextId, data |-> data])
    /\ seq' = seq + 1
    /\ toPage' = Append(toPage, NextId)
    /\ saved' = Append(saved, [id |-> NextId, data |-> data])
    /\ UNCHANGED <<data, writes, listed, current, undone, ended>>

\* Mutated form of Numbering: saving goes on after the checkpoint reverted to.
NumberingFrom(id) == seq' = id

\* What a revert to checkpoint id does to the numbering: nothing.
Numbering(id) == UNCHANGED seq

\* runCheckpointRevert: the page is told, which then re-reads the data.
Revert(id) ==
    /\ Take("revert")
    /\ Head(toWorker).id = id
    /\ id <= seq
    /\ \E n \in 1 .. Len(stack) : Names(n, id) /\ Undo(n)
    /\ Numbering(id)
    /\ UNCHANGED <<writes, page, saved, ended>>

\* No such savepoint: the page is told the error.
RevertFails(id) ==
    /\ Take("revert")
    /\ Head(toWorker).id = id
    /\ ~IsOpen(id)
    /\ UNCHANGED <<base, page, ghosts>>

-----------------------------------------------------------------------------
(* The page.                                                               *)

Post(type, id) == /\ Len(toWorker) < MaxWaiting
                  /\ toWorker' = Append(toWorker, [type |-> type, id |-> id])

\* Saves asked for and not yet made, for the bound on them.
Asked == Len(SelectSeq(toWorker, LAMBDA m : m.type = "save"))

\* checkpointSave
ClickSave == /\ seq + Asked < MaxSaves
             /\ Post("save", 0)
             /\ UNCHANGED <<base, page, ghosts>>

\* checkpointRevert
ClickRevert == /\ Post("revert", current)
               /\ UNCHANGED <<base, page, ghosts>>

\* setCurrentCheckpoint: a pick in any window's dropdown.
Select == /\ \E k \in DOMAIN listed : current' = listed[k]
          /\ UNCHANGED <<base, toWorker, toPage, listed, ghosts>>

\* Mutated form of Listing: only the latest checkpoint beside the baseline.
ListingLatest(id) == <<0, id>>

\* The list when checkpoint id has been saved.
Listing(id) == Append(listed, id)

\* onCheckpointSaved
OnSaved == /\ toPage # <<>>
           /\ toPage' = Tail(toPage)
           /\ listed' = Listing(Head(toPage))
           /\ current' = Head(toPage)
           /\ UNCHANGED <<base, toWorker, ghosts>>

Worker == Save \/ \E id \in Numbers : Revert(id) \/ RevertFails(id)
Page   == ClickSave \/ ClickRevert \/ Select \/ OnSaved

CheckpointsNext == Statement \/ Worker \/ Page

CheckpointsSpec == CheckpointsInit /\ [][CheckpointsNext]_checkpointsVars

-----------------------------------------------------------------------------
CheckpointsTypeOK ==
    /\ writes \in 0 .. MaxWrites /\ data \subseteq 1 .. writes
    /\ stack \in Seq(Checkpoint)
    /\ seq \in Numbers
    /\ toWorker \in Seq(Message) /\ toPage \in Seq(Numbers)
    /\ listed \in Seq(Numbers) /\ current \in Numbers
    /\ saved \in Seq(Checkpoint)
    /\ undone \subseteq 1 .. writes /\ ended \in BOOLEAN

\* A revert that succeeds brings back what was saved under that number, however
\* often it was reverted to before, whatever was saved, reverted, committed or
\* released since (sql_terminal.c:170-172): no number ever means two checkpoints.
RevertRestores ==
    [][\A id \in Numbers : Revert(id) =>
          \A k \in DOMAIN saved : saved[k].id = id => data' = saved[k].data]_checkpointsVars

\* What a revert undid does not come back with a later revert, neither from the
\* data nor from a checkpoint still open.
NothingResurfaces ==
    /\ data \cap undone = {}
    /\ \A n \in DOMAIN stack : stack[n].data \cap undone = {}

\* Every checkpoint that could be reverted to can be picked, or is about to be:
\* the dropdowns of all windows share one list that is only appended to.
OpenAreOffered ==
    \A n \in DOMAIN stack : \/ \E k \in DOMAIN listed : listed[k] = stack[n].id
                            \/ \E k \in DOMAIN toPage : toPage[k] = stack[n].id

\* Checkpoint #0 can be reverted to for as long as the user has not ended it by
\* hand: no number of saves and reverts does.
BaselineUnlessEnded == ended \/ IsOpen(0)

\* A checkpoint that is open can be picked and is what it was saved as, and the
\* first one stays.
CheckpointsAreSound ==
    CheckpointsTypeOK /\ NothingResurfaces /\ OpenAreOffered /\ BaselineUnlessEnded
=============================================================================
