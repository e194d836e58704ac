----------------------------- MODULE MCLibrary -----------------------------
(***************************************************************************)
(* The parts below SQLite for TLC: the heap, the mutexes and the files     *)
(* that are not main.db.  They share no state, so a behaviour is one of    *)
(* one part, and the others stay as they are.                              *)
(*                                                                         *)
(* The heap has room for a few chunks and for two grows.  Slots of the     *)
(* scratch pool are given back in any order, and the pool runs dry with    *)
(* the third anonymous file; two units make a buffer grow twice, and let a *)
(* write beyond the end expose a part cut off.                             *)
(*                                                                         *)
(* A static mutex that misled the loader has two threads inside: what they *)
(* do from there on is not followed.                                       *)
(***************************************************************************)
EXTENDS Heap, Mutex, MemFile

CONSTANTS f1, f2, f3

VARIABLE part

\* The second is refused: its product does not fit in size_t.
MCArrays == {<<1, 2>>, <<2, 9>>}

allVars == <<part, heapVars, mutexVars, filesVars>>

LibraryInit ==
    /\ part \in {"heap", "mutex", "files"}
    /\ HeapInit /\ MutexInit /\ FilesInit
    /\ part # "heap" => build = "single"

LibraryNext ==
    \/ part = "heap"  /\ HeapNext  /\ UNCHANGED <<part, mutexVars, filesVars>>
    \/ part = "mutex" /\ UNCHANGED <<part, heapVars, filesVars>>
                      /\ IF misled = {} THEN MutexNext ELSE UNCHANGED mutexVars
    \/ part = "files" /\ FilesNext /\ UNCHANGED <<part, heapVars, mutexVars>>

LibrarySpec == LibraryInit /\ [][LibraryNext]_allVars
=============================================================================
