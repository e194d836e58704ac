----------------------------- MODULE Allocator -----------------------------
(***************************************************************************)
(* What a caller of malloc, free, realloc and calloc is promised, whatever *)
(* the heap behind them (src/goyslopless-c/lib/heap.c) does: blocks lie in *)
(* the thread's own memory, apart from each other, are as long as asked    *)
(* for, and stay where they are until the caller gives them back.          *)
(***************************************************************************)
EXTENDS Integers

VARIABLES owned,  \* the words this thread may use
          asked,  \* for each live block, by its address, the words asked for
          room    \* ... and the words it really has

vars == <<owned, asked, room>>

Live == DOMAIN asked
Span(p, n) == p .. p + n - 1

Init == /\ owned \subseteq Nat
        /\ asked = << >>
        /\ room = << >>

\* Words p .. p + n - 1 are the caller's alone.
Vacant(p, n, others) ==
    /\ Span(p, n) \subseteq owned'
    /\ \A q \in others : Span(p, n) \cap Span(q, room[q]) = {}

\* The live blocks become those of keep, unchanged, and p with n words.
Become(keep, p, n, len) ==
    /\ asked' = [q \in keep \cup {p} |-> IF q = p THEN n ELSE asked[q]]
    /\ room' = [q \in keep \cup {p} |-> IF q = p THEN len ELSE room[q]]

Alloc(p, n, len) == /\ p \notin Live
                    /\ len >= n
                    /\ Vacant(p, len, Live)
                    /\ Become(Live, p, n, len)

Release(p) == /\ asked' = [q \in Live \ {p} |-> asked[q]]
              /\ room' = [q \in Live \ {p} |-> room[q]]

\* realloc: where it is, with at least the words it had,
Resize(p, n, len) == /\ len >= n /\ len >= room[p]
                     /\ Vacant(p, len, Live \ {p})
                     /\ Become(Live \ {p}, p, n, len)

\* or somewhere else, apart from the block it is copied from.
Move(p, q, n, len) == /\ q \notin Live
                      /\ len >= n /\ len >= room[p]
                      /\ Vacant(q, len, Live)
                      /\ Become(Live \ {p}, q, n, len)

\* The one block that a step added or changed is the caller's only choice.
New == {p \in DOMAIN asked' : p \notin Live \/ asked'[p] # asked[p] \/ room'[p] # room[p]}

Next ==
    /\ owned \subseteq owned'
    /\ \/ \E p \in New : \/ Alloc(p, asked'[p], room'[p])
                         \/ p \in Live /\ Resize(p, asked'[p], room'[p])
                         \/ \E q \in Live : Move(q, p, asked'[p], room'[p])
       \/ \E p \in Live : Release(p)
       \/ UNCHANGED <<asked, room>>

Spec == Init /\ [][Next]_vars
=============================================================================
