-------------------------------- MODULE Heap --------------------------------
(***************************************************************************)
(* The heap of one thread (src/goyslopless-c/lib/heap.c), in both builds:  *)
(* "threads", where the heap is a list of disjoint regions because every   *)
(* grow of the shared memory may land beyond another thread's, and         *)
(* "single", where one region grows at its end.                            *)
(*                                                                         *)
(* Memory is counted in words of four bytes: a chunk is a header word, its *)
(* payload and a footer word, and payloads are a multiple of two words     *)
(* (ALIGN8, which is also MIN_PAYLOAD).  A word holds a tag or anything    *)
(* else, Data.  The free list, whose links live in the payloads of free    *)
(* chunks, is the sequence of these chunks from free_head on.              *)
(*                                                                         *)
(* Callers give back what they were given, once, and write inside it only. *)
(* Requests leave room to be rounded up in size_t: Sizes < Wrap - 1.       *)
(***************************************************************************)
EXTENDS Integers, Sequences, FiniteSets, Functions, SequencesExt

CONSTANTS Base,        \* where the first region begins, behind what others own
          Slab,        \* words of the first region
          PageWords,   \* words of a page of linear memory
          MinPages,    \* pages a grow asks for at least
          MaxRegions,  \* MAX_HEAP_REGIONS
          MaxWords,    \* the ceiling of the linear memory (--max-memory)
          Wrap,        \* size_t counts modulo Wrap
          Sizes,       \* bounds of the model: what malloc and realloc are asked
          Arrays       \* for, and the pairs calloc is

Overhead == 2

ASSUME HeapConstants ==
    /\ Base \in Nat /\ Slab \in Nat /\ PageWords \in Nat
    /\ Base % 2 = 0 /\ Slab % 2 = 0 /\ PageWords % 2 = 0
    /\ Slab > Overhead /\ PageWords > Overhead
    /\ MinPages \in Nat \ {0} /\ MaxRegions \in Nat \ {0}
    /\ MaxWords \in Nat /\ MaxWords >= Base + Slab
    /\ Wrap \in Nat \ {0}
    /\ Sizes \subseteq 1 .. Wrap - 2
    /\ Arrays \subseteq (0 .. Wrap - 1) \X (0 .. Wrap - 1)
    /\ \A a \in Arrays : (a[1] * a[2]) % Wrap < Wrap - 1

Words == 0 .. MaxWords - 1
Tag   == [size : 0 .. MaxWords, inuse : BOOLEAN]
Data  == [size |-> 0, inuse |-> FALSE]   \* no tag: what a zeroed word reads as

VARIABLES build,    \* "threads" or "single"
          mem,      \* the words of the linear memory
          brk,      \* its size
          regions,  \* HeapState.regions
          free,     \* the free list
          inuse,    \* g_heap_bytes_inuse, in words
          asked     \* the caller's live blocks: payload address to words asked

heapVars == <<build, mem, brk, regions, free, inuse, asked>>

\* The operators map a record h of the heap to the record after the call.
State == [mem |-> mem, brk |-> brk, regions |-> regions, free |-> free, inuse |-> inuse]
Becomes(h) == /\ mem' = h.mem /\ brk' = h.brk /\ regions' = h.regions
              /\ free' = h.free /\ inuse' = h.inuse

-----------------------------------------------------------------------------
(* Chunks                                                                  *)

Size(h, c)  == h.mem[c].size
After(h, c) == c + Overhead + Size(h, c)   \* chunk_next_phys
Payload(c)  == c + 1
Chunk(p)    == p - 1

\* chunk_set; what is then in the payload, the caller's or links, is no tag.
ChunkSet(h, c, size, used) ==
    [h EXCEPT !.mem = [w \in Words |->
        IF w \in {c, c + 1 + size} THEN [size |-> size, inuse |-> used]
        ELSE IF w \in c .. c + size THEN Data ELSE h.mem[w]]]

\* A free chunk is marked, and pushed at the head of the free list.
PutFree(h, c, size) == [ChunkSet(h, c, size, FALSE) EXCEPT !.free = <<c>> \o h.free]

\* free_chunk_remove: the neighbours of c in the free list become neighbours.
TakeFree(h, c) == LET i == CHOOSE j \in DOMAIN h.free : h.free[j] = c
                  IN  [h EXCEPT !.free = RemoveAt(h.free, i)]

\* heap_region_containing, in a set of at most one.
RegionOf(h, c) == {r \in ToSet(h.regions) : c \in r.base .. r.limit - 1}

\* The chunk after c, unless c is the last of its region.
NextPhys(h, c) == {n \in {After(h, c)} : \E r \in RegionOf(h, c) : n < r.limit}

\* chunk_prev_phys: found through the footer in front of c, unless c is the
\* first of its region.
PrevPhys(h, c) == IF \E r \in RegionOf(h, c) : c > r.base
                  THEN {c - Overhead - Size(h, c - 1)} ELSE {}

FreeIn(h, chunks) == {c \in chunks : ~h.mem[c].inuse}

\* The chunk that joins another, of a set of at most one: it leaves the free
\* list, and brings its words.
Joining(s)   == CHOOSE c \in s : TRUE
Left(h, s)   == IF s = {} THEN h ELSE TakeFree(h, Joining(s))
Brings(h, s) == IF s = {} THEN 0 ELSE Overhead + Size(h, Joining(s))

\* The free chunk that c becomes with those of next and prev.
Merged(h, c, next, prev) ==
    PutFree(Left(Left(h, next), prev), IF prev = {} THEN c ELSE Joining(prev),
            Size(h, c) + Brings(h, next) + Brings(h, prev))

\* Mutated form of Coalesce: the chunk before is not looked at.
CoalesceForward(h, c) == Merged(h, c, FreeIn(h, NextPhys(h, c)), {})

\* c becomes free, and one with its free neighbours in the region.
Coalesce(h, c) == Merged(h, c, FreeIn(h, NextPhys(h, c)), FreeIn(h, PrevPhys(h, c)))

-----------------------------------------------------------------------------
(* Regions                                                                 *)

\* The pages a grow asks for.
Pages(need) == LET n == (need + Overhead + PageWords - 1) \div PageWords
               IN  IF n < MinPages THEN MinPages ELSE n

\* Does a grow succeed: is there a slot for the region, and memory?
CanExtend(h, need) ==
    /\ build = "threads" => Len(h.regions) < MaxRegions
    /\ h.brk + Pages(need) * PageWords <= MaxWords

\* heap_extend_threaded: a new region, wherever the memory ends.
ExtendThreaded(h, words) ==
    PutFree([h EXCEPT !.brk = @ + words,
                      !.regions = Append(@, [base |-> h.brk, limit |-> h.brk + words])],
            h.brk, words - Overhead)

\* heap_extend: the one region grows, and its last chunk with it if it is free.
ExtendSingle(h, words) ==
    LET new   == h.regions[1].limit
        grown == [h EXCEPT !.brk = @ + words,
                           !.regions = <<[base |-> h.regions[1].base, limit |-> new + words]>>]
    IN  Coalesce(ChunkSet(grown, new, words - Overhead, FALSE), new)

Extended(h, need) ==
    LET words == Pages(need) * PageWords
    IN  IF build = "threads" THEN ExtendThreaded(h, words) ELSE ExtendSingle(h, words)

-----------------------------------------------------------------------------
(* The library's functions                                                 *)

\* ALIGN8
Align(n) == n + (n % 2)

\* The first chunk of the free list that is large enough, in a set of at most one.
FirstFit(h, need) ==
    {h.free[i] : i \in {j \in DOMAIN h.free :
        /\ Size(h, h.free[j]) >= need
        /\ \A k \in 1 .. j - 1 : Size(h, h.free[k]) < need}}

\* Chunk c, with a payload of avail words, is handed out for need words: what
\* is left becomes a free chunk if it can hold one.
Place(h, c, avail, need) ==
    IF avail - need >= Overhead + 2
    THEN PutFree(ChunkSet(h, c, need, TRUE), c + Overhead + need, avail - need - Overhead)
    ELSE ChunkSet(h, c, avail, TRUE)

\* g_heap_bytes_inuse after c, which held before words, was placed.
Accounted(h, c, before) == [h EXCEPT !.inuse = @ + Size(h, c) - before]

\* A free chunk c of the list is handed out.
HandOut(h, c, need) ==
    Accounted(Place(TakeFree(h, c), c, Size(h, c), need), c, 0)

\* malloc: the outcomes [heap, at], none if there is no memory left.
Mallocs(h, need) ==
    LET room == IF FirstFit(h, need) = {} /\ CanExtend(h, need) THEN Extended(h, need) ELSE h
    IN  {[heap |-> HandOut(room, c, need), at |-> Payload(c)] : c \in FirstFit(room, need)}

\* free
Freed(h, p) == Coalesce([h EXCEPT !.inuse = @ - Size(h, Chunk(p))], Chunk(p))

\* The free chunk after c with which realloc can grow c in place.
Neighbour(h, c, need) ==
    {n \in FreeIn(h, NextPhys(h, c)) : Size(h, c) + Overhead + Size(h, n) >= need}

\* realloc in place
Grown(h, c, n, need) ==
    Accounted(Place(TakeFree(h, n), c, Size(h, c) + Overhead + Size(h, n), need),
              c, Size(h, c))

-----------------------------------------------------------------------------
(* The program's calls.                                                    *)

Live == DOMAIN asked

\* malloc(n) and p = realloc(NULL, n); a NULL for want of memory changes nothing.
Malloc(n) ==
    /\ \E m \in Mallocs(State, Align(n)) :
          /\ Becomes(m.heap)
          /\ asked' = [q \in Live \cup {m.at} |-> IF q = m.at THEN n ELSE asked[q]]
    /\ UNCHANGED build

\* Mutated form of CallocTotal: without the check for overflow.
CallocTotalWrapped(n, size) == (n * size) % Wrap

\* calloc's total, 0 if it is refused.
CallocTotal(n, size) ==
    LET total == (n * size) % Wrap
    IN  IF n # 0 /\ total \div n # size THEN 0 ELSE total

\* calloc(n, size)
Calloc(n, size) ==
    /\ CallocTotal(n, size) # 0
    /\ \E m \in Mallocs(State, Align(CallocTotal(n, size))) :
          /\ Becomes(m.heap)
          /\ asked' = [q \in Live \cup {m.at} |-> IF q = m.at THEN n * size ELSE asked[q]]
    /\ UNCHANGED build

\* free(p) and realloc(p, 0)
Free(p) == /\ Becomes(Freed(State, p))
           /\ asked' = Restrict(asked, Live \ {p})
           /\ UNCHANGED build

\* realloc(p, n) of a block that stays where it is.
ReallocStays(p, n) ==
    /\ IF Align(n) <= Size(State, Chunk(p))
       THEN UNCHANGED <<mem, brk, regions, free, inuse>>
       ELSE \E c \in Neighbour(State, Chunk(p), Align(n)) :
               Becomes(Grown(State, Chunk(p), c, Align(n)))
    /\ asked' = [asked EXCEPT ![p] = n]
    /\ UNCHANGED build

\* realloc(p, n) of a block that is copied: malloc, then free.
ReallocMoves(p, n) ==
    /\ Align(n) > Size(State, Chunk(p))
    /\ Neighbour(State, Chunk(p), Align(n)) = {}
    /\ \E m \in Mallocs(State, Align(n)) :
          /\ Becomes(Freed(m.heap, p))
          /\ asked' = [q \in (Live \ {p}) \cup {m.at} |-> IF q = m.at THEN n ELSE asked[q]]
    /\ UNCHANGED build

\* Another thread grows the shared memory.
OthersGrow == /\ build = "threads"
              /\ brk + PageWords <= MaxWords
              /\ brk' = brk + PageWords
              /\ UNCHANGED <<build, mem, regions, free, inuse, asked>>

\* heap_thread_init, and heap_lazy_init of a memory with room for a heap.
HeapInit ==
    /\ build \in {"threads", "single"}
    /\ brk = Base + Slab
    /\ regions = <<[base |-> Base, limit |-> brk]>>
    /\ LET none == [mem |-> [w \in Words |-> Data], free |-> <<>>]
           h == PutFree(none, Base, Slab - Overhead)
       IN  mem = h.mem /\ free = h.free
    /\ inuse = 0
    /\ asked = << >>

HeapNext ==
    \/ \E n \in Sizes : Malloc(n)
    \/ \E a \in Arrays : Calloc(a[1], a[2])
    \/ \E p \in Live : Free(p) \/ \E n \in Sizes : ReallocStays(p, n) \/ ReallocMoves(p, n)
    \/ OthersGrow

HeapSpec == HeapInit /\ [][HeapNext]_heapVars

-----------------------------------------------------------------------------
Region == [base : 0 .. MaxWords, limit : 0 .. MaxWords]

HeapTypeOK ==
    /\ build \in {"threads", "single"}
    /\ mem \in [Words -> Tag]
    /\ brk \in 0 .. MaxWords
    /\ regions \in Seq(Region)
    /\ free \in Seq(Words)
    /\ inuse \in 0 .. MaxWords
    /\ Live \subseteq Words /\ \A p \in Live : asked[p] \in 1 .. Wrap

\* The chunks of a region, as chunk_next_phys finds them from its base.
ChunksOf(r) ==
    LET from[w \in Nat] ==
            IF w >= r.limit THEN {} ELSE {w} \cup from[After(State, w)]
    IN  from[r.base]

Chunks == UNION {ChunksOf(r) : r \in ToSet(regions)}
Used   == {c \in Chunks : mem[c].inuse}

\* Boundary tags: in every region the chunks lie end to end up to its limit,
\* each with a footer that says what its header says, so that walking either
\* way finds the same chunks.
Tiled ==
    \A r \in ToSet(regions) : \A c \in ChunksOf(r) :
        /\ After(State, c) <= r.limit
        /\ Size(State, c) % 2 = 0 /\ Size(State, c) >= 2
        /\ mem[After(State, c) - 1] = mem[c]

\* Free neighbours have become one, yet never across the end of a region, also
\* where two regions of one thread touch.
NoFreeNeighbours ==
    \A c \in Chunks \ Used : FreeIn(State, NextPhys(State, c)) = {}

\* The free list holds every free chunk once.
FreeListExact == /\ ToSet(free) = Chunks \ Used
                 /\ IsInjective(free)

\* What the priming budget is held against is what is handed out: the payloads
\* of the chunks in use, which are the caller's blocks (heap.c:141-158).
InUseExact == /\ Used = {Chunk(p) : p \in Live}
              /\ inuse = Cardinality(UNION {Payload(c) .. c + Size(State, c) : c \in Used})

\* Walking the chunks, the free list and the counter all tell of the same heap.
HeapIsExact == HeapTypeOK /\ Tiled /\ NoFreeNeighbours /\ FreeListExact /\ InUseExact

\* The heap is an allocator.
Promise == INSTANCE Allocator WITH
    owned <- UNION {r.base .. r.limit - 1 : r \in ToSet(regions)},
    room  <- [p \in Live |-> mem[Chunk(p)].size]

ImplementsAllocator == Promise!Spec
=============================================================================
