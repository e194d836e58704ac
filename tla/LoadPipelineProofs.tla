------------------------- MODULE LoadPipelineProofs -------------------------
(***************************************************************************)
(* Proofs about LoadPipeline, for any number of loads, readers and         *)
(* mishaps: a load starts when all of it is there, and no load before it   *)
(* holds its file.                                                         *)
(***************************************************************************)
EXTENDS LoadPipeline, FiniteSetTheorems, TLAPS

\* Is a message of M in the queue q, and is it the only one?
Has(q, M)  == \E i \in DOMAIN q : q[i] \in M
Once(q, M) == \A i, j \in DOMAIN q : q[i] \in M /\ q[j] \in M => i = j

At == {"none", "opening", "up", "streaming", "failed", "stopped", "gone"}

Workers == [at : At, holds : BOOLEAN, down : BOOLEAN, mem : Load \cup {NoMemory},
            ear : {"role", "closing"}, inbox : Seq(ToWorker), outbox : Seq(ToPage),
            killed : BOOLEAN]

Pages == [load : Nat, chain : {"none", "decompressing", "waiting"}, upload : BOOLEAN,
          running : BOOLEAN, matches : {"none", "some", "empty"},
          memory : Load \cup {NoMemory}, remaining : Int,
          playback : Worker \cup {None}, prefetch : Worker \cup {None}]

Ghosts == [stray : BOOLEAN, finished : Nat, combined : SUBSET Reader, dropped : SUBSET Worker]

TypeInv ==
    /\ worker \in [Worker -> Workers] /\ page \in Pages
    /\ timers \in SUBSET Worker /\ waits \in SUBSET Worker
    /\ browser \in [grants : {"one", "many"}, readers : ReaderCounts]
    /\ slots \in [Load -> SUBSET Reader]
    /\ mishaps \in Nat /\ ghost \in Ghosts

-----------------------------------------------------------------------------
(* What each worker keeps to, whatever the page does.                      *)

Alive(w) == w.at \notin {"none", "gone"}

\* Its life: queues and flags are those of a fresh worker outside of it; once
\* told to stop it has no handle; only a killed one leaves its handle behind.
LifeOk(w) ==
    /\ w.at = "none" => w = Absent
    /\ w.at = "gone" => /\ w.ear = "role" /\ w.inbox = <<>> /\ w.outbox = <<>> /\ ~w.down
                        /\ w.holds => w.killed
    /\ w.down => ~w.holds
    /\ w.at \in {"up", "streaming"} => w.mem # NoMemory
    /\ w.ear = "closing" => /\ ~Has(w.outbox, ToPage \ {"shutdownComplete"})
                            /\ w.outbox # <<>> => w.down
    /\ w.ear = "role" => /\ ~w.down /\ ~Has(w.inbox, {"shutdown"})
                         /\ ~Has(w.outbox, {"shutdownComplete"})

\* What it is asked and what it says, by its role.
RoleOk(id, w) ==
    /\ id \in Reader => /\ ~Has(w.inbox, {"load", "combineBounds"}) /\ w.at # "streaming"
                        /\ ~Has(w.outbox, {"loaded", "loadedEmpty", "boundsCombined"})
    /\ id = Loader => ~Has(w.inbox, {"computeBounds"}) /\ ~Has(w.outbox, {"boundsReady"})
    /\ id = Prefetch => /\ ~Has(w.inbox, ToWorker \ {"shutdown"}) /\ w.at # "streaming"
                        /\ ~Has(w.outbox, ToPage \ {"shutdownComplete"})

\* A reader is asked once, and does not compute any more when it has reported.
Asked(w)    == Has(w.inbox, {"computeBounds"})
Ready(w)    == Has(w.outbox, {"ready"})
Answered(w) == Has(w.outbox, {"boundsReady", "error"})

ReaderOk(w) ==
    /\ w.ear = "closing" => ~Asked(w)
    /\ w.at \in {"opening", "failed"} => ~Asked(w) /\ ~Ready(w)
    /\ w.at = "opening" => ~Answered(w)
    /\ Ready(w) => ~Asked(w) /\ ~Answered(w)
    /\ Asked(w) => ~Answered(w)
    /\ Once(w.inbox, {"computeBounds"}) /\ Once(w.outbox, {"ready"})

WorkerOk(x, w) == LifeOk(w) /\ RoleOk(x[2], w) /\ (x[2] \in Reader => ReaderOk(w))

WorkersOk == \A x \in Worker : WorkerOk(x, worker[x])

-----------------------------------------------------------------------------
(* What the page's globals say of each other, and of the workers.          *)

PageOk ==
    /\ page.memory # NoMemory => page.memory = page.load
    /\ page.upload \/ page.chain = "decompressing" => page.memory = NoMemory
    /\ page.upload => page.chain = "none"
    /\ page.chain = "decompressing" => page.load < MaxLoads[browser.readers]
    /\ page.chain = "waiting" => page.memory # NoMemory /\ ghost.finished = 0
    /\ page.chain # "none" => page.playback = None
    /\ page.playback # None => /\ page.playback = <<page.load, Loader>>
                               /\ page.memory = page.load /\ ~page.upload
    /\ page.playback = None => ~page.running /\ page.matches = "none"
    /\ page.remaining <= browser.readers

NamesOk ==
    /\ page.playback # None => /\ Live(worker, page.playback) /\ worker[page.playback].ear = "role"
                               /\ worker[page.playback].mem = page.load
    /\ page.prefetch # None => /\ Live(worker, page.prefetch) /\ worker[page.prefetch].ear = "role"
                               /\ page.prefetch[2] = Prefetch
                               /\ Late(page.prefetch) \/ page.prefetch[1] = page.memory
    /\ \A x \in Worker : worker[x].at # "none" \/ x \in timers =>
                            /\ x[1] <= page.load
                            /\ x[2] \in Reader => x[2] <= browser.readers
    /\ page.chain = "waiting" => worker[<<page.load, Loader>>].at = "none"
    /\ \A x \in Worker : x[2] = Loader /\ Live(worker, x) /\ worker[x].ear = "role" => x = page.playback

\* Timers: each creates its worker once, in the order of their delays.
TimersOk ==
    /\ \A x \in timers : x[2] # Loader /\ worker[x].at = "none"
    /\ \A x \in Worker : x[2] # Loader /\ worker[x].at # "none" =>
          \A y \in timers : ~(y[1] <= x[1] /\ y[2] <= x[2])
    /\ page.memory # NoMemory /\ page.matches = "none" =>
          \A x \in Worker : x[1] = page.load /\ x[2] # Loader => worker[x].at = "none" /\ x \notin timers
    /\ page.matches = "empty" =>
          \A x \in Worker : x[1] = page.load /\ x[2] \in Reader => worker[x].at = "none" /\ x \notin timers

\* Handles: who may still have one is waited for, or is one of the exceptions.
HandlesOk ==
    /\ \A x \in Worker : x[2] \notin Reader /\ Live(worker, x) =>
          Late(x) \/ x \in ghost.dropped \/ x \in waits \/ x \in {page.playback, page.prefetch}
    /\ \A x \in waits : /\ worker[x].at # "none"
                        /\ Live(worker, x) => worker[x].ear = "closing"
    /\ page.playback # None /\ worker[page.playback].at = "opening" =>
          \A x \in waits : worker[x].at = "gone"

-----------------------------------------------------------------------------
(* The load under way: one token goes round from the loader's start to the *)
(* matches, and another from the readers' last report to playback.         *)

Fed(w)    == Has(w.inbox, {"load"})
Loaded(w) == Has(w.outbox, {"loaded", "loadedEmpty"})

LoaderOk(w, matches) ==
    /\ w.at = "opening" => ~Ready(w) /\ ~Fed(w) /\ ~Loaded(w) /\ matches = "none"
    /\ Ready(w) => ~Fed(w) /\ w.at # "streaming" /\ ~Loaded(w) /\ matches = "none"
    /\ Fed(w) => w.at # "streaming" /\ ~Loaded(w) /\ matches = "none"
    /\ w.at = "streaming" => ~Loaded(w) /\ matches = "none"
    /\ Loaded(w) => matches = "none"
    /\ Once(w.outbox, {"ready"}) /\ Once(w.inbox, {"load"})
    /\ Once(w.outbox, {"loaded", "loadedEmpty"})

LoadingOk == page.playback # None => LoaderOk(worker[page.playback], page.matches)

Told(w)     == Has(w.inbox, {"combineBounds"})
Finished(w) == Has(w.outbox, {"boundsCombined"})

CombineOk(w, matches, finished) ==
    /\ matches = "none"  => finished = 0 /\ ~Told(w) /\ ~Finished(w)
    /\ matches = "empty" => finished = 1 /\ ~Told(w) /\ ~Finished(w)
    /\ Told(w) => ~Finished(w) /\ finished = 0
    /\ Finished(w) => finished = 0
    /\ finished <= 1
    /\ Once(w.inbox, {"combineBounds"}) /\ Once(w.outbox, {"boundsCombined"})

\* The readers of this load that have not been counted.
Silent == {k \in 1 .. browser.readers : ~Reported(<<page.load, k>>)}

CountOk == page.playback # None /\ ~ghost.stray =>
    LET w == worker[page.playback]
    IN  /\ CombineOk(w, page.matches, ghost.finished)
        /\ page.running => ghost.finished = 1
        /\ page.matches = "some" =>
              /\ page.remaining = Cardinality(Silent)
              /\ Told(w) \/ Finished(w) \/ ghost.finished # 0 => Silent = {}
              /\ Finished(w) \/ ghost.finished # 0 =>
                    \A k \in 1 .. browser.readers : k \in slots[page.load] => k \in ghost.combined

IInv == /\ TypeInv /\ WorkersOk /\ PageOk /\ NamesOk /\ TimersOk /\ HandlesOk /\ LoadingOk /\ CountOk
-----------------------------------------------------------------------------
(* The queues.                                                             *)

LEMMA HasEmpty == \A M : ~Has(<<>>, M) /\ Once(<<>>, M)
BY DEF Has, Once

LEMMA HasAppend ==
    ASSUME NEW S, NEW q \in Seq(S), NEW e \in S, NEW M
    PROVE  Has(Append(q, e), M) <=> Has(q, M) \/ e \in M
<1>1. /\ DOMAIN Append(q, e) = 1 .. Len(q) + 1 /\ DOMAIN q = 1 .. Len(q) /\ Len(q) \in Nat
      /\ \A i \in 1 .. Len(q) : Append(q, e)[i] = q[i]
      /\ Append(q, e)[Len(q) + 1] = e
  OBVIOUS
<1> QED
  BY <1>1 DEF Has

LEMMA OnceAppend ==
    ASSUME NEW S, NEW q \in Seq(S), NEW e \in S, NEW M, Once(q, M), e \in M => ~Has(q, M)
    PROVE  Once(Append(q, e), M)
<1>1. /\ DOMAIN Append(q, e) = 1 .. Len(q) + 1 /\ DOMAIN q = 1 .. Len(q) /\ Len(q) \in Nat
      /\ \A i \in 1 .. Len(q) : Append(q, e)[i] = q[i]
      /\ Append(q, e)[Len(q) + 1] = e
  OBVIOUS
<1> QED
  BY <1>1 DEF Has, Once

LEMMA TailFacts ==
    ASSUME NEW S, NEW q \in Seq(S), q # <<>>
    PROVE  /\ Head(q) \in S /\ Head(q) = q[1] /\ Tail(q) \in Seq(S)
           /\ DOMAIN q = 1 .. Len(q) /\ DOMAIN Tail(q) = 1 .. Len(q) - 1
           /\ Len(q) \in Nat \ {0}
           /\ \A i \in 1 .. Len(q) - 1 : Tail(q)[i] = q[i + 1]
OBVIOUS

LEMMA HasTail ==
    ASSUME NEW S, NEW q \in Seq(S), q # <<>>, NEW M
    PROVE  Has(q, M) <=> Head(q) \in M \/ Has(Tail(q), M)
<1>1. ASSUME Has(Tail(q), M) PROVE Has(q, M)
  <2>1. PICK i \in DOMAIN Tail(q) : Tail(q)[i] \in M
    BY <1>1 DEF Has
  <2>2. i + 1 \in DOMAIN q /\ q[i + 1] \in M
    BY <2>1, TailFacts
  <2> QED
    BY <2>2 DEF Has
<1>2. ASSUME Has(q, M), Head(q) \notin M PROVE Has(Tail(q), M)
  <2>1. PICK i \in DOMAIN q : q[i] \in M
    BY <1>2 DEF Has
  <2>2. i # 1 /\ i - 1 \in DOMAIN Tail(q) /\ Tail(q)[i - 1] = q[i]
    BY <1>2, <2>1, TailFacts
  <2> QED
    BY <2>1, <2>2 DEF Has
<1>3. Head(q) \in M => Has(q, M)
  BY TailFacts DEF Has
<1> QED
  BY <1>1, <1>2, <1>3

LEMMA OnceTail ==
    ASSUME NEW S, NEW q \in Seq(S), q # <<>>, NEW M, Once(q, M)
    PROVE  Once(Tail(q), M) /\ (Head(q) \in M => ~Has(Tail(q), M))
<1>1. Once(Tail(q), M)
  <2> SUFFICES ASSUME NEW i \in DOMAIN Tail(q), NEW j \in DOMAIN Tail(q),
                      Tail(q)[i] \in M, Tail(q)[j] \in M
               PROVE  i = j
    BY DEF Once
  <2>1. /\ i \in Nat /\ j \in Nat /\ i + 1 \in DOMAIN q /\ j + 1 \in DOMAIN q
        /\ q[i + 1] \in M /\ q[j + 1] \in M
    BY TailFacts
  <2>2. i + 1 = j + 1
    BY <2>1 DEF Once
  <2> QED
    BY <2>1, <2>2
<1>2. ASSUME Head(q) \in M, Has(Tail(q), M) PROVE FALSE
  <2>1. PICK i \in DOMAIN Tail(q) : Tail(q)[i] \in M
    BY <1>2 DEF Has
  <2>2. i \in Nat \ {0} /\ i + 1 \in DOMAIN q /\ q[i + 1] \in M /\ 1 \in DOMAIN q /\ q[1] \in M
    BY <1>2, <2>1, TailFacts
  <2>3. i + 1 = 1
    BY <2>2 DEF Once
  <2> QED
    BY <2>2, <2>3
<1> QED
  BY <1>1, <1>2

\* The same for every set of messages at once.
LEMMA Appended ==
    ASSUME NEW S, NEW q \in Seq(S), NEW e \in S
    PROVE  /\ Append(q, e) \in Seq(S) /\ Append(q, e) # <<>>
           /\ \A M : Has(Append(q, e), M) <=> Has(q, M) \/ e \in M
           /\ \A M : Once(q, M) /\ (e \in M => ~Has(q, M)) => Once(Append(q, e), M)
<1>1. \A M : Has(Append(q, e), M) <=> Has(q, M) \/ e \in M
  BY HasAppend
<1>2. \A M : Once(q, M) /\ (e \in M => ~Has(q, M)) => Once(Append(q, e), M)
  BY OnceAppend
<1>3. Append(q, e) \in Seq(S) /\ Len(Append(q, e)) = Len(q) + 1 /\ Len(q) \in Nat /\ Len(<<>>) = 0
  OBVIOUS
<1> QED
  BY <1>1, <1>2, <1>3

LEMMA Taken ==
    ASSUME NEW S, NEW q \in Seq(S), q # <<>>
    PROVE  /\ Head(q) \in S /\ Tail(q) \in Seq(S)
           /\ \A M : Has(q, M) <=> Head(q) \in M \/ Has(Tail(q), M)
           /\ \A M : Once(q, M) => Once(Tail(q), M) /\ (Head(q) \in M => ~Has(Tail(q), M))
<1>1. \A M : Has(q, M) <=> Head(q) \in M \/ Has(Tail(q), M)
  BY HasTail
<1>2. \A M : Once(q, M) => Once(Tail(q), M) /\ (Head(q) \in M => ~Has(Tail(q), M))
  BY OnceTail
<1>3. Head(q) \in S /\ Tail(q) \in Seq(S)
  BY TailFacts
<1> QED
  BY <1>1, <1>2, <1>3

-----------------------------------------------------------------------------
(* Names.                                                                  *)

LEMMA Names ==
    /\ Reader \subseteq 1 .. 8 /\ Loader \notin Reader /\ Prefetch \notin Reader
    /\ Load \subseteq Nat \ {0}
    /\ \A x \in Worker : /\ x = <<x[1], x[2]>> /\ x[1] \in Load
                         /\ x[2] \in {Loader, Prefetch} \cup Reader
                         /\ x[1] \in Nat \ {0} /\ x[2] \in 0 .. 9 /\ x # None
    /\ \A g \in Load : \A k \in {Loader, Prefetch} \cup Reader :
          <<g, k>> \in Worker /\ <<g, k>>[1] = g /\ <<g, k>>[2] = k
    /\ \A n \in ReaderCounts : /\ n \in 1 .. 8 /\ 1 .. n \subseteq Reader
                               /\ MaxLoads[n] \in Nat /\ 1 .. MaxLoads[n] \subseteq Load
<1>1. /\ ReaderCounts \subseteq 1 .. 8 /\ MaxLoads \in [ReaderCounts -> Nat \ {0}]
  BY LoadConstants
<1>2. Reader \subseteq 1 .. 8 /\ Loader \notin Reader /\ Prefetch \notin Reader
  <2>1. Reader \subseteq 1 .. 8
    BY <1>1 DEF Reader
  <2> QED
    BY <2>1 DEF Loader, Prefetch
<1>3. Load \subseteq Nat \ {0}
  BY <1>1 DEF Load
<1>4. \A x \in Worker : /\ x = <<x[1], x[2]>> /\ x[1] \in Load
                        /\ x[2] \in {Loader, Prefetch} \cup Reader
  BY DEF Worker
<1>5. \A x \in Worker : x[1] \in Nat \ {0} /\ x[2] \in 0 .. 9 /\ x # None
  <2> SUFFICES ASSUME NEW x \in Worker PROVE x[1] \in Nat \ {0} /\ x[2] \in 0 .. 9 /\ x # None
    OBVIOUS
  <2>1. x[1] \in Nat \ {0} /\ x[2] \in 0 .. 9
    BY <1>2, <1>3, <1>4 DEF Loader, Prefetch
  <2>2. None[1] = 0
    BY DEF None
  <2> QED
    BY <2>1, <2>2
<1>6. \A g \in Load : \A k \in {Loader, Prefetch} \cup Reader :
          <<g, k>> \in Worker /\ <<g, k>>[1] = g /\ <<g, k>>[2] = k
  BY DEF Worker
<1>7. \A n \in ReaderCounts : /\ n \in 1 .. 8 /\ 1 .. n \subseteq Reader
                              /\ MaxLoads[n] \in Nat /\ 1 .. MaxLoads[n] \subseteq Load
  BY <1>1 DEF Reader, Load
<1> QED
  BY <1>2, <1>3, <1>4, <1>5, <1>6, <1>7

-----------------------------------------------------------------------------
(* Workers, one change at a time.                                          *)

\* The worker after it has posted m.
PostedTo(x, w, m) ==
    IF (w.ear = "closing" \/ x[2] = Prefetch) /\ m # "shutdownComplete" THEN w
    ELSE [w EXCEPT !.outbox = Append(@, m)]

Heard(w)     == [w EXCEPT !.outbox = Tail(@)]
SentTo(w, m) == [w EXCEPT !.inbox = Append(@, m)]
Closed(w)    == [w EXCEPT !.ear = "closing", !.outbox = <<>>, !.inbox = Append(@, "shutdown")]
Ended(w, killed) ==
    IF ~ w.holds THEN Gone ELSE [Gone EXCEPT !.holds = TRUE, !.mem = w.mem, !.killed = killed]

LEMMA PostedKeeps ==
    ASSUME NEW x \in Worker, NEW w \in Workers, NEW m \in ToPage
    PROVE  LET v == PostedTo(x, w, m)
           IN  /\ v \in Workers /\ v.at = w.at /\ v.holds = w.holds /\ v.down = w.down
               /\ v.mem = w.mem /\ v.ear = w.ear /\ v.inbox = w.inbox /\ v.killed = w.killed
               /\ (w.ear = "closing" \/ x[2] = Prefetch) /\ m # "shutdownComplete" => v = w
               /\ (w.ear = "role" /\ x[2] # Prefetch) \/ m = "shutdownComplete" =>
                    /\ v.outbox # <<>>
                    /\ \A M : Has(v.outbox, M) <=> Has(w.outbox, M) \/ m \in M
                    /\ \A M : Once(w.outbox, M) /\ (m \in M => ~Has(w.outbox, M)) => Once(v.outbox, M)
<1> DEFINE s == Append(w.outbox, m)
<1>1. /\ s \in Seq(ToPage) /\ s # <<>>
      /\ \A M : Has(s, M) <=> Has(w.outbox, M) \/ m \in M
      /\ \A M : Once(w.outbox, M) /\ (m \in M => ~Has(w.outbox, M)) => Once(s, M)
  BY Appended DEF Workers
<1>2. CASE (w.ear = "closing" \/ x[2] = Prefetch) /\ m # "shutdownComplete"
  BY <1>2 DEF PostedTo, Workers
<1>3. CASE ~((w.ear = "closing" \/ x[2] = Prefetch) /\ m # "shutdownComplete")
  <2> HIDE DEF s
  <2>1. PostedTo(x, w, m) = [w EXCEPT !.outbox = s]
    BY <1>3 DEF PostedTo, s
  <2>2. PostedTo(x, w, m) \in Workers
    BY <1>1, <2>1 DEF Workers
  <2>3. LET v == PostedTo(x, w, m)
        IN  /\ v.at = w.at /\ v.holds = w.holds /\ v.down = w.down
            /\ v.mem = w.mem /\ v.ear = w.ear /\ v.inbox = w.inbox /\ v.killed = w.killed
            /\ v.outbox = s
    BY <2>1 DEF Workers
  <2> QED
    BY <1>1, <1>3, <2>2, <2>3
<1> QED
  BY <1>2, <1>3

LEMMA CreatedIsOk ==
    ASSUME NEW x \in Worker, NEW mem \in Load \cup {NoMemory}
    PROVE  LET w == [Absent EXCEPT !.at = "opening", !.mem = mem]
           IN  /\ w \in Workers /\ WorkerOk(x, w) /\ w.at = "opening" /\ w.mem = mem
               /\ w.ear = "role" /\ w.inbox = <<>> /\ w.outbox = <<>>
<1> DEFINE w == [Absent EXCEPT !.at = "opening", !.mem = mem]
<1>1. /\ w.at = "opening" /\ w.mem = mem /\ w.ear = "role" /\ w.inbox = <<>> /\ w.outbox = <<>>
      /\ w.holds = FALSE /\ w.down = FALSE /\ w.killed = FALSE
  BY DEF Absent
<1>2. w \in Workers
  <2>1. <<>> \in Seq(ToWorker) /\ <<>> \in Seq(ToPage)
    OBVIOUS
  <2>2. Absent \in Workers
    BY <2>1 DEF Absent, Workers, At
  <2> QED
    BY <2>2 DEF Workers, At
<1> HIDE DEF w
<1>3. /\ \A M : ~Has(w.inbox, M) /\ ~Has(w.outbox, M)
      /\ \A M : Once(w.inbox, M) /\ Once(w.outbox, M)
  BY <1>1, HasEmpty
<1>4. LifeOk(w)
  BY <1>1, <1>3 DEF LifeOk
<1>5. RoleOk(x[2], w)
  BY <1>1, <1>3 DEF RoleOk
<1>6. ReaderOk(w)
  BY <1>1, <1>3 DEF ReaderOk, Asked, Ready, Answered
<1> QED
  BY <1>1, <1>2, <1>4, <1>5, <1>6 DEF WorkerOk, w

\* The page takes the oldest message of a worker.
LEMMA HeardIsOk ==
    ASSUME NEW x \in Worker, NEW w \in Workers, WorkerOk(x, w), w.outbox # <<>>
    PROVE  LET v == Heard(w)
           IN  /\ v \in Workers /\ WorkerOk(x, v) /\ Head(w.outbox) \in ToPage
               /\ v.at = w.at /\ v.holds = w.holds /\ v.down = w.down
               /\ v.mem = w.mem /\ v.ear = w.ear /\ v.inbox = w.inbox /\ v.killed = w.killed
               /\ \A M : Has(w.outbox, M) <=> Head(w.outbox) \in M \/ Has(v.outbox, M)
               /\ \A M : Once(w.outbox, M) =>
                     Once(v.outbox, M) /\ (Head(w.outbox) \in M => ~Has(v.outbox, M))
<1> DEFINE v == Heard(w)
<1>1. /\ Head(w.outbox) \in ToPage /\ Tail(w.outbox) \in Seq(ToPage)
      /\ \A M : Has(w.outbox, M) <=> Head(w.outbox) \in M \/ Has(Tail(w.outbox), M)
      /\ \A M : Once(w.outbox, M) =>
            Once(Tail(w.outbox), M) /\ (Head(w.outbox) \in M => ~Has(Tail(w.outbox), M))
  BY Taken DEF Workers
<1>2. /\ v.at = w.at /\ v.holds = w.holds /\ v.down = w.down /\ v.outbox = Tail(w.outbox)
      /\ v.mem = w.mem /\ v.ear = w.ear /\ v.inbox = w.inbox /\ v.killed = w.killed
  BY DEF Heard, Workers
<1>3. v \in Workers
  BY <1>1 DEF Heard, Workers
<1> HIDE DEF v
<1>4. w.at \notin {"none", "gone"} /\ LifeOk(w) /\ RoleOk(x[2], w)
  BY DEF WorkerOk, LifeOk, Absent
<1>5. LifeOk(v)
  BY <1>1, <1>2, <1>4 DEF LifeOk
<1>6. RoleOk(x[2], v)
  BY <1>1, <1>2, <1>4 DEF RoleOk
<1>7. x[2] \in Reader => ReaderOk(v)
  BY <1>1, <1>2 DEF WorkerOk, ReaderOk, Asked, Ready, Answered
<1> QED
  BY <1>1, <1>2, <1>3, <1>5, <1>6, <1>7 DEF WorkerOk, v

LEMMA SentIsOk ==
    ASSUME NEW x \in Worker, NEW w \in Workers, WorkerOk(x, w), Alive(w),
           NEW m \in ToWorker \ {"shutdown"}, x[2] # Prefetch,
           x[2] = Loader => m # "computeBounds",
           x[2] \in Reader => /\ m = "computeBounds" /\ w.ear = "role" /\ w.at \notin {"opening", "failed"}
                              /\ ~Asked(w) /\ ~Ready(w) /\ ~Answered(w)
    PROVE  LET v == SentTo(w, m)
           IN  /\ v \in Workers /\ WorkerOk(x, v)
               /\ v.at = w.at /\ v.holds = w.holds /\ v.down = w.down /\ v.mem = w.mem
               /\ v.ear = w.ear /\ v.outbox = w.outbox /\ v.killed = w.killed
               /\ \A M : Has(v.inbox, M) <=> Has(w.inbox, M) \/ m \in M
               /\ \A M : Once(w.inbox, M) /\ (m \in M => ~Has(w.inbox, M)) => Once(v.inbox, M)
<1> DEFINE v == SentTo(w, m)
<1>1. /\ Append(w.inbox, m) \in Seq(ToWorker)
      /\ \A M : Has(Append(w.inbox, m), M) <=> Has(w.inbox, M) \/ m \in M
      /\ \A M : Once(w.inbox, M) /\ (m \in M => ~Has(w.inbox, M)) => Once(Append(w.inbox, m), M)
  BY Appended DEF Workers
<1>2. /\ v.at = w.at /\ v.holds = w.holds /\ v.down = w.down /\ v.outbox = w.outbox
      /\ v.mem = w.mem /\ v.ear = w.ear /\ v.inbox = Append(w.inbox, m) /\ v.killed = w.killed
  BY DEF SentTo, Workers
<1>3. v \in Workers
  BY <1>1 DEF SentTo, Workers
<1> HIDE DEF v
<1>4. LifeOk(v)
  BY <1>1, <1>2 DEF WorkerOk, LifeOk, Alive
<1>5. RoleOk(x[2], v)
  BY <1>1, <1>2, Names DEF WorkerOk, RoleOk, ToWorker
<1>6. x[2] \in Reader => ReaderOk(v)
  BY <1>1, <1>2 DEF WorkerOk, ReaderOk, Asked, Ready, Answered
<1> QED
  BY <1>1, <1>2, <1>3, <1>4, <1>5, <1>6 DEF WorkerOk, v

LEMMA ClosedIsOk ==
    ASSUME NEW x \in Worker, NEW w \in Workers, WorkerOk(x, w), Alive(w), w.ear = "role",
           x[2] \in Reader => ~Asked(w)
    PROVE  LET v == Closed(w)
           IN  /\ v \in Workers /\ WorkerOk(x, v)
               /\ v.at = w.at /\ v.mem = w.mem /\ v.ear = "closing"
<1> DEFINE v == Closed(w)
<1>1. /\ Append(w.inbox, "shutdown") \in Seq(ToWorker) /\ <<>> \in Seq(ToPage)
      /\ \A M : Has(Append(w.inbox, "shutdown"), M) <=> Has(w.inbox, M) \/ "shutdown" \in M
      /\ \A M : Once(w.inbox, M) /\ ("shutdown" \in M => ~Has(w.inbox, M)) =>
                   Once(Append(w.inbox, "shutdown"), M)
  BY Appended DEF Workers, ToWorker
<1>2. /\ v.at = w.at /\ v.holds = w.holds /\ v.down = w.down /\ v.outbox = <<>>
      /\ v.mem = w.mem /\ v.ear = "closing" /\ v.inbox = Append(w.inbox, "shutdown")
      /\ v.killed = w.killed
  BY DEF Closed, Workers
<1>3. v \in Workers
  BY <1>1 DEF Closed, Workers
<1>4. (\A M : ~Has(<<>>, M)) /\ (\A M : Once(<<>>, M))
  BY HasEmpty
<1> HIDE DEF v
<1>5. LifeOk(v)
  BY <1>1, <1>2, <1>4 DEF WorkerOk, LifeOk, Alive
<1>6. RoleOk(x[2], v)
  BY <1>1, <1>2, <1>4, Names DEF WorkerOk, RoleOk, ToWorker
<1>7. x[2] \in Reader => ReaderOk(v)
  BY <1>1, <1>2, <1>4 DEF WorkerOk, ReaderOk, Asked, Ready, Answered
<1> QED
  BY <1>2, <1>3, <1>5, <1>6, <1>7 DEF WorkerOk, v

LEMMA EndedIsOk ==
    ASSUME NEW x \in Worker, NEW w \in Workers, NEW killed \in BOOLEAN, killed \/ ~w.holds
    PROVE  LET v == Ended(w, killed)
           IN  /\ v \in Workers /\ WorkerOk(x, v) /\ v.at = "gone" /\ v.ear = "role"
               /\ v.inbox = <<>> /\ v.outbox = <<>>
<1> DEFINE v == Ended(w, killed)
<1>1. v \in Workers
  <2>1. <<>> \in Seq(ToWorker) /\ <<>> \in Seq(ToPage)
    OBVIOUS
  <2>2. Absent \in Workers
    BY <2>1 DEF Absent, Workers, At
  <2>3. Gone \in Workers
    BY <2>2 DEF Gone, Workers, At
  <2> QED
    BY <2>3 DEF Ended, Workers
<1>2. /\ v.at = "gone" /\ v.ear = "role" /\ v.inbox = <<>> /\ v.outbox = <<>> /\ v.down = FALSE
      /\ v.holds => v.killed
  BY DEF Ended, Gone, Absent, Workers
<1> HIDE DEF v
<1>3. /\ \A M : ~Has(v.inbox, M) /\ ~Has(v.outbox, M)
      /\ \A M : Once(v.inbox, M) /\ Once(v.outbox, M)
  BY <1>2, HasEmpty
<1>4. LifeOk(v) /\ RoleOk(x[2], v) /\ ReaderOk(v)
  BY <1>2, <1>3 DEF LifeOk, RoleOk, ReaderOk, Asked, Ready, Answered
<1> QED
  BY <1>1, <1>2, <1>4 DEF WorkerOk, v

-----------------------------------------------------------------------------
(* What a worker's own steps, and its end, leave as it was.                *)

Turned(x, w, v) ==
    /\ w.at # "none" /\ v.at # "none"
    /\ v.at = "opening" => w.at = "opening"
    /\ Alive(v) => Alive(w) /\ v.ear = w.ear /\ v.mem = w.mem
    /\ Alive(w) /\ w.ear = "role" => Alive(v)
    /\ \A m : x[2] = Loader /\ LoaderOk(w, m) => LoaderOk(v, m)
    /\ \A m, f : CombineOk(w, m, f) => CombineOk(v, m, f)
    /\ Told(v) \/ Finished(v) => Told(w) \/ Finished(w)

\* One worker takes a turn that leaves it as v.
Turns(x, v) ==
    /\ worker' = [worker EXCEPT ![x] = v]
    /\ v \in Workers /\ WorkerOk(x, v) /\ Turned(x, worker[x], v)

LEMMA OpensTurns ==
    ASSUME TypeInv, WorkersOk, NEW x \in Worker, Opens(x)
    PROVE  \E v \in Workers : Turns(x, v) /\ (Finished(v) => Finished(worker[x]))
<1> DEFINE w == worker[x]
<1>1. w \in Workers /\ WorkerOk(x, w) /\ w.at = "opening"
  BY DEF TypeInv, WorkersOk, Opens
<1>2. CASE Bailed(x) /\ worker' = [worker EXCEPT ![x].at = "stopped"]
  <2> DEFINE v == [w EXCEPT !.at = "stopped"]
  <2>1. worker' = [worker EXCEPT ![x] = v]
    BY <1>2 DEF TypeInv
  <2>2. /\ v \in Workers /\ v.at = "stopped" /\ v.holds = w.holds /\ v.down = w.down
        /\ v.mem = w.mem /\ v.ear = w.ear /\ v.inbox = w.inbox /\ v.outbox = w.outbox
    BY <1>1 DEF Workers, At
  <2> HIDE DEF v
  <2>3. WorkerOk(x, v)
    BY <1>1, <2>2 DEF WorkerOk, LifeOk, RoleOk, ReaderOk, Asked, Ready, Answered
  <2>4. Turned(x, w, v) /\ (Finished(v) => Finished(w))
    BY <1>1, <2>2 DEF Turned, Alive, LoaderOk, CombineOk, Ready, Fed, Loaded, Told, Finished
  <2> QED
    BY <2>1, <2>2, <2>3, <2>4 DEF Turns
<1>3. ASSUME NEW at \in {"up", "failed"}, NEW m \in {"ready", "error"}, ~Bailed(x),
             at = "up" <=> m = "ready", at = "up" => w.mem # NoMemory,
             worker' = Posted([[worker EXCEPT ![x].holds = TRUE] EXCEPT ![x].at = at], x, m)
      PROVE  \E v \in Workers : Turns(x, v) /\ (Finished(v) => Finished(w))
  <2> DEFINE u == [w EXCEPT !.holds = TRUE, !.at = at]
             v == PostedTo(x, u, m)
  <2>1. /\ u \in Workers /\ u.at = at /\ u.holds /\ u.down = w.down /\ u.mem = w.mem /\ u.ear = w.ear
        /\ u.inbox = w.inbox /\ u.outbox = w.outbox /\ u.killed = w.killed
    BY <1>1 DEF Workers, At
  <2>2. /\ [[worker EXCEPT ![x].holds = TRUE] EXCEPT ![x].at = at] = [worker EXCEPT ![x] = u]
        /\ [worker EXCEPT ![x] = u] \in [Worker -> Workers]
        /\ [worker EXCEPT ![x] = u][x] = u
    BY <2>1 DEF TypeInv
  <2> HIDE DEF u
  <2>3. worker' = [worker EXCEPT ![x] = v]
    <3>1. Posted([worker EXCEPT ![x] = u], x, m) = [worker EXCEPT ![x] = v]
      BY <2>1 DEF TypeInv, Posted, PostedTo
    <3> QED
      BY <1>3, <2>2, <3>1
  <2>4. /\ v \in Workers /\ v.at = u.at /\ v.holds = u.holds /\ v.down = u.down
        /\ v.mem = u.mem /\ v.ear = u.ear /\ v.inbox = u.inbox
        /\ u.ear = "closing" \/ x[2] = Prefetch => v = u
        /\ u.ear = "role" /\ x[2] # Prefetch =>
             /\ \A M : Has(v.outbox, M) <=> Has(u.outbox, M) \/ m \in M
             /\ \A M : Once(u.outbox, M) /\ (m \in M => ~Has(u.outbox, M)) => Once(v.outbox, M)
    <3>1. m \in ToPage /\ m # "shutdownComplete"
      BY DEF ToPage
    <3>2. u \in Workers
      BY <2>1
    <3>3. v = PostedTo(x, u, m)
      OBVIOUS
    <3> HIDE DEF v
    <3> QED
      BY <3>1, <3>2, <3>3, PostedKeeps
  <2> HIDE DEF v
  <2>5. ~w.down /\ u.ear \in {"role", "closing"}
    BY <1>3, <2>1 DEF Bailed, Workers
  <2>6. WorkerOk(x, v)
    <3>1. LifeOk(v)
      BY <1>1, <1>3, <2>1, <2>4, <2>5 DEF WorkerOk, LifeOk, RoleOk
    <3>2. RoleOk(x[2], v)
      BY <1>1, <1>3, <2>1, <2>4, <2>5 DEF WorkerOk, RoleOk
    <3>3. x[2] \in Reader => ReaderOk(v)
      BY <1>1, <1>3, <2>1, <2>4, <2>5, Names DEF WorkerOk, ReaderOk, Asked, Ready, Answered
    <3> QED
      BY <3>1, <3>2, <3>3 DEF WorkerOk
  <2>7. Turned(x, w, v) /\ (Finished(v) => Finished(w))
    BY <1>1, <1>3, <2>1, <2>4, <2>5 DEF Turned, Alive, LoaderOk, CombineOk, Ready, Fed, Loaded, Told, Finished
  <2> QED
    BY <2>3, <2>4, <2>6, <2>7 DEF Turns
<1> QED
  BY <1>2, <1>3 DEF Opens

LEMMA OpenFailsTurns ==
    ASSUME TypeInv, WorkersOk, NEW x \in Worker, OpenFails(x)
    PROVE  \E v \in Workers : Turns(x, v) /\ (Finished(v) => Finished(worker[x]))
<1> DEFINE w == worker[x]
           u == [w EXCEPT !.at = "failed"]
           v == PostedTo(x, u, "error")
<1>1. w \in Workers /\ WorkerOk(x, w) /\ w.at = "opening"
  BY DEF TypeInv, WorkersOk, OpenFails
<1>2. /\ u \in Workers /\ u.at = "failed" /\ u.holds = w.holds /\ u.down = w.down /\ u.mem = w.mem
      /\ u.ear = w.ear /\ u.inbox = w.inbox /\ u.outbox = w.outbox /\ u.killed = w.killed
  BY <1>1 DEF Workers, At
<1>3. [worker EXCEPT ![x].at = "failed"] = [worker EXCEPT ![x] = u]
  OBVIOUS
<1> HIDE DEF u
<1>4. worker' = [worker EXCEPT ![x] = v]
  <2>1. Posted([worker EXCEPT ![x] = u], x, "error") = [worker EXCEPT ![x] = v]
    BY <1>2 DEF TypeInv, Posted, PostedTo
  <2> QED
    BY <1>3, <2>1 DEF OpenFails
<1>5. /\ v \in Workers /\ v.at = u.at /\ v.holds = u.holds /\ v.down = u.down
      /\ v.mem = u.mem /\ v.ear = u.ear /\ v.inbox = u.inbox
      /\ u.ear = "closing" \/ x[2] = Prefetch => v = u
      /\ u.ear = "role" /\ x[2] # Prefetch =>
           /\ \A M : Has(v.outbox, M) <=> Has(u.outbox, M) \/ "error" \in M
           /\ \A M : Once(u.outbox, M) /\ ("error" \in M => ~Has(u.outbox, M)) => Once(v.outbox, M)
  <2>1. "error" \in ToPage /\ v = PostedTo(x, u, "error")
    BY DEF ToPage
  <2> HIDE DEF v
  <2> QED
    BY <1>2, <2>1, PostedKeeps
<1> HIDE DEF v
<1>6. u.ear \in {"role", "closing"}
  BY <1>2 DEF Workers
<1>7. WorkerOk(x, v)
  <2>1. LifeOk(v)
    BY <1>1, <1>2, <1>5, <1>6 DEF WorkerOk, LifeOk, RoleOk
  <2>2. RoleOk(x[2], v)
    BY <1>1, <1>2, <1>5, <1>6 DEF WorkerOk, RoleOk
  <2>3. x[2] \in Reader => ReaderOk(v)
    BY <1>1, <1>2, <1>5, <1>6, Names DEF WorkerOk, ReaderOk, Asked, Ready, Answered
  <2> QED
    BY <2>1, <2>2, <2>3 DEF WorkerOk
<1>8. Turned(x, w, v) /\ (Finished(v) => Finished(w))
  BY <1>1, <1>2, <1>5, <1>6 DEF Turned, Alive, LoaderOk, CombineOk, Ready, Fed, Loaded, Told, Finished
<1> QED
  BY <1>4, <1>5, <1>7, <1>8 DEF Turns

LEMMA StreamsTurns ==
    ASSUME TypeInv, WorkersOk, NEW x \in Worker, Streams(x)
    PROVE  \E v \in Workers : Turns(x, v) /\ (Finished(v) => Finished(worker[x]))
<1> DEFINE w == worker[x]
           u == [w EXCEPT !.at = "up"]
<1>1. w \in Workers /\ WorkerOk(x, w) /\ w.at = "streaming"
  BY DEF TypeInv, WorkersOk, Streams
<1>2. /\ u \in Workers /\ u.at = "up" /\ u.holds = w.holds /\ u.down = w.down /\ u.mem = w.mem
      /\ u.ear = w.ear /\ u.inbox = w.inbox /\ u.outbox = w.outbox /\ u.killed = w.killed
  BY <1>1 DEF Workers, At
<1>3. [worker EXCEPT ![x].at = "up"] = [worker EXCEPT ![x] = u]
  OBVIOUS
<1> HIDE DEF u
<1>4. x[2] = Loader
  BY <1>1, Names DEF WorkerOk, RoleOk
<1>5. PICK m \in {"loaded", "loadedEmpty", "error"} : worker' = Posted([worker EXCEPT ![x] = u], x, m)
  BY <1>3 DEF Streams
<1> DEFINE v == PostedTo(x, u, m)
<1>6. worker' = [worker EXCEPT ![x] = v]
  BY <1>2, <1>5 DEF TypeInv, Posted, PostedTo
<1>7. /\ v \in Workers /\ v.at = u.at /\ v.holds = u.holds /\ v.down = u.down
      /\ v.mem = u.mem /\ v.ear = u.ear /\ v.inbox = u.inbox
      /\ u.ear = "closing" => v = u
      /\ u.ear = "role" =>
           /\ \A M : Has(v.outbox, M) <=> Has(u.outbox, M) \/ m \in M
           /\ \A M : Once(u.outbox, M) /\ (m \in M => ~Has(u.outbox, M)) => Once(v.outbox, M)
  <2>1. m \in ToPage /\ m # "shutdownComplete" /\ v = PostedTo(x, u, m) /\ x[2] # Prefetch
    BY <1>4 DEF ToPage, Loader, Prefetch
  <2> HIDE DEF v
  <2> QED
    BY <1>2, <2>1, PostedKeeps
<1> HIDE DEF v
<1>8. u.ear \in {"role", "closing"}
  BY <1>2 DEF Workers
<1>9. WorkerOk(x, v)
  BY <1>1, <1>2, <1>4, <1>7, <1>8, Names DEF WorkerOk, LifeOk, RoleOk, Loader, Prefetch
<1>10. Turned(x, w, v) /\ (Finished(v) => Finished(w))
  BY <1>1, <1>2, <1>7, <1>8 DEF Turned, Alive, LoaderOk, CombineOk, Ready, Fed, Loaded, Told, Finished
<1> QED
  BY <1>6, <1>7, <1>9, <1>10 DEF Turns

LEMMA ThrowsTurns ==
    ASSUME TypeInv, WorkersOk, NEW x \in Worker, Throws(x)
    PROVE  \E v \in Workers : Turns(x, v) /\ (Finished(v) => Finished(worker[x]))
<1> DEFINE w == worker[x]
<1>1. w \in Workers /\ WorkerOk(x, w) /\ w.at = "up"
  BY DEF TypeInv, WorkersOk, Throws
<1>2. PICK u \in Workers :
        /\ worker' = Posted([worker EXCEPT ![x] = u], x, "error")
        /\ u.at = "up" /\ u.holds = w.holds /\ u.down = w.down /\ u.mem = w.mem
        /\ u.ear = w.ear /\ u.outbox = w.outbox /\ u.killed = w.killed
        /\ x[2] \in Reader => Asked(w) /\ ~Asked(u)
        /\ \A M : Has(u.inbox, M) => Has(w.inbox, M)
        /\ \A M : Once(w.inbox, M) => Once(u.inbox, M)
        /\ x[2] # Prefetch
  <2>1. CASE x[2] = Loader
    <3>1. [worker EXCEPT ![x] = w] = worker
      BY DEF TypeInv
    <3>2. worker' = Posted([worker EXCEPT ![x] = w], x, "error")
      BY <2>1, <3>1 DEF Throws
    <3> QED
      BY <1>1, <2>1, <3>2, Names DEF Loader, Prefetch
  <2>2. CASE /\ x[2] \in Reader /\ w.inbox # <<>> /\ Head(w.inbox) = "computeBounds"
    <3> DEFINE u == [w EXCEPT !.inbox = Tail(@)]
    <3>1. /\ Tail(w.inbox) \in Seq(ToWorker)
          /\ \A M : Has(w.inbox, M) <=> Head(w.inbox) \in M \/ Has(Tail(w.inbox), M)
          /\ \A M : Once(w.inbox, M) =>
                Once(Tail(w.inbox), M) /\ (Head(w.inbox) \in M => ~Has(Tail(w.inbox), M))
      BY <1>1, <2>2, Taken DEF Workers
    <3>2. /\ u \in Workers /\ u.at = w.at /\ u.holds = w.holds /\ u.down = w.down /\ u.mem = w.mem
          /\ u.ear = w.ear /\ u.inbox = Tail(w.inbox) /\ u.outbox = w.outbox /\ u.killed = w.killed
      BY <1>1, <3>1 DEF Workers
    <3>3. [worker EXCEPT ![x].inbox = Tail(@)] = [worker EXCEPT ![x] = u]
      OBVIOUS
    <3> HIDE DEF u
    <3>4. worker' = Posted([worker EXCEPT ![x] = u], x, "error")
      <4>1. x[2] # Loader
        BY <2>2, Names
      <4>2. worker' = Posted([worker EXCEPT ![x].inbox = Tail(@)], x, "error")
        BY <4>1 DEF Throws
      <4> QED
        BY <3>3, <4>2
    <3>5. Asked(w) /\ ~Asked(u)
      BY <1>1, <2>2, <3>1, <3>2 DEF Asked, WorkerOk, ReaderOk
    <3>6. x[2] # Prefetch
      BY <2>2, Names
    <3> QED
      BY <1>1, <2>2, <3>1, <3>2, <3>4, <3>5, <3>6
  <2> QED
    BY <2>1, <2>2 DEF Throws
<1> DEFINE v == PostedTo(x, u, "error")
<1>3. worker' = [worker EXCEPT ![x] = v]
  BY <1>2 DEF TypeInv, Posted, PostedTo
<1>4. /\ v \in Workers /\ v.at = u.at /\ v.holds = u.holds /\ v.down = u.down
      /\ v.mem = u.mem /\ v.ear = u.ear /\ v.inbox = u.inbox
      /\ u.ear = "closing" => v = u
      /\ u.ear = "role" =>
           /\ \A M : Has(v.outbox, M) <=> Has(u.outbox, M) \/ "error" \in M
           /\ \A M : Once(u.outbox, M) /\ ("error" \in M => ~Has(u.outbox, M)) => Once(v.outbox, M)
  <2>1. "error" \in ToPage /\ v = PostedTo(x, u, "error")
    BY DEF ToPage
  <2> HIDE DEF v
  <2> QED
    BY <1>2, <2>1, PostedKeeps
<1> HIDE DEF v
<1>5. u.ear \in {"role", "closing"}
  BY <1>2 DEF Workers
<1>6. WorkerOk(x, v)
  <2>1. LifeOk(v)
    BY <1>1, <1>2, <1>4, <1>5 DEF WorkerOk, LifeOk
  <2>2. RoleOk(x[2], v)
    BY <1>1, <1>2, <1>4, <1>5 DEF WorkerOk, RoleOk
  <2>3. x[2] \in Reader => ReaderOk(v)
    BY <1>1, <1>2, <1>4, <1>5 DEF WorkerOk, ReaderOk, Asked, Ready, Answered
  <2> QED
    BY <2>1, <2>2, <2>3 DEF WorkerOk
<1>7. Turned(x, w, v) /\ (Finished(v) => Finished(w))
  BY <1>1, <1>2, <1>4, <1>5 DEF Turned, Alive, LoaderOk, CombineOk, Ready, Fed, Loaded, Told, Finished
<1> QED
  BY <1>3, <1>4, <1>6, <1>7 DEF Turns

\* A message taken, or thrown at: w without it.
Taking(w) == [w EXCEPT !.inbox = Tail(@)]

LEMMA TakingKeeps ==
    ASSUME NEW x \in Worker, NEW w \in Workers, WorkerOk(x, w), w.inbox # <<>>
    PROVE  LET u == Taking(w)
           IN  /\ u \in Workers /\ u.at = w.at /\ u.holds = w.holds /\ u.down = w.down
               /\ u.mem = w.mem /\ u.ear = w.ear /\ u.outbox = w.outbox /\ u.killed = w.killed
               /\ Head(w.inbox) \in ToWorker
               /\ \A M : Has(w.inbox, M) <=> Head(w.inbox) \in M \/ Has(u.inbox, M)
               /\ \A M : Once(w.inbox, M) =>
                     Once(u.inbox, M) /\ (Head(w.inbox) \in M => ~Has(u.inbox, M))
<1> DEFINE u == Taking(w)
<1>1. /\ Head(w.inbox) \in ToWorker /\ Tail(w.inbox) \in Seq(ToWorker)
      /\ \A M : Has(w.inbox, M) <=> Head(w.inbox) \in M \/ Has(Tail(w.inbox), M)
      /\ \A M : Once(w.inbox, M) =>
            Once(Tail(w.inbox), M) /\ (Head(w.inbox) \in M => ~Has(Tail(w.inbox), M))
  BY Taken DEF Workers
<1>2. /\ u.at = w.at /\ u.holds = w.holds /\ u.down = w.down /\ u.mem = w.mem
      /\ u.ear = w.ear /\ u.inbox = Tail(w.inbox) /\ u.outbox = w.outbox /\ u.killed = w.killed
  BY DEF Taking, Workers
<1>3. u \in Workers
  BY <1>1 DEF Taking, Workers
<1> HIDE DEF u
<1> QED
  BY <1>1, <1>2, <1>3 DEF u

LEMMA TakesTurns ==
    ASSUME TypeInv, WorkersOk, NEW x \in Worker, Takes(x)
    PROVE  \E v \in Workers :
              /\ Turns(x, v)
              /\ Finished(v) => \/ Finished(worker[x])
                                \/ /\ Told(worker[x])
                                   /\ x = page.playback => ghost'.combined = slots[worker[x].mem]
<1> DEFINE w == worker[x]
           first == Head(w.inbox)
           u == Taking(w)
<1>1. /\ w \in Workers /\ WorkerOk(x, w) /\ w.inbox # <<>> /\ w.at \notin {"none", "gone"}
      /\ w.ear \in {"role", "closing"}
  BY DEF TypeInv, WorkersOk, Takes, Live, Workers
<1>2. /\ u \in Workers /\ u.at = w.at /\ u.holds = w.holds /\ u.down = w.down
      /\ u.mem = w.mem /\ u.ear = w.ear /\ u.outbox = w.outbox /\ u.killed = w.killed
      /\ first \in ToWorker
      /\ \A M : Has(w.inbox, M) <=> first \in M \/ Has(u.inbox, M)
      /\ \A M : Once(w.inbox, M) => Once(u.inbox, M) /\ (first \in M => ~Has(u.inbox, M))
  BY <1>1, TakingKeeps
<1>3. [worker EXCEPT ![x].inbox = Tail(@)] = [worker EXCEPT ![x] = u]
  BY DEF Taking
<1> HIDE DEF u
<1> DEFINE ws == [worker EXCEPT ![x] = u]
           up == w.at \in {"up", "streaming"}
<1>4. ws \in [Worker -> Workers] /\ ws[x] = u
  BY <1>2 DEF TypeInv
<1>5. CASE first = "shutdown"
  <2> DEFINE t == [u EXCEPT !.down = TRUE, !.holds = FALSE, !.at = IF up THEN "stopped" ELSE @]
             v == PostedTo(x, t, "shutdownComplete")
  <2>1. /\ t \in Workers /\ t.at = (IF up THEN "stopped" ELSE w.at) /\ ~t.holds /\ t.down
        /\ t.mem = w.mem /\ t.ear = w.ear /\ t.inbox = u.inbox /\ t.outbox = w.outbox
        /\ t.killed = w.killed
    BY <1>2 DEF Workers, At
  <2>2. worker' = Posted([ws EXCEPT ![x].down = TRUE, ![x].holds = FALSE,
                                    ![x].at = IF up THEN "stopped" ELSE @], x, "shutdownComplete")
    BY <1>3, <1>5 DEF Takes
  <2>3. [ws EXCEPT ![x].down = TRUE, ![x].holds = FALSE, ![x].at = IF up THEN "stopped" ELSE @]
            = [worker EXCEPT ![x] = t]
    BY <1>4 DEF TypeInv
  <2> HIDE DEF t
  <2>4. worker' = [worker EXCEPT ![x] = v]
    <3>1. Posted([worker EXCEPT ![x] = t], x, "shutdownComplete") = [worker EXCEPT ![x] = v]
      BY <2>1 DEF TypeInv, Posted, PostedTo
    <3> QED
      BY <2>2, <2>3, <3>1
  <2>5. /\ v \in Workers /\ v.at = t.at /\ v.holds = t.holds /\ v.down = t.down
        /\ v.mem = t.mem /\ v.ear = t.ear /\ v.inbox = t.inbox /\ v.outbox # <<>>
        /\ \A M : Has(v.outbox, M) <=> Has(t.outbox, M) \/ "shutdownComplete" \in M
        /\ \A M : Once(t.outbox, M) /\ ("shutdownComplete" \in M => ~Has(t.outbox, M)) => Once(v.outbox, M)
    <3>1. "shutdownComplete" \in ToPage /\ v = PostedTo(x, t, "shutdownComplete")
      BY DEF ToPage
    <3> HIDE DEF v
    <3>2. /\ v \in Workers /\ v.at = t.at /\ v.holds = t.holds /\ v.down = t.down
          /\ v.mem = t.mem /\ v.ear = t.ear /\ v.inbox = t.inbox
      <4>1. t \in Workers
        BY <2>1
      <4> QED
        BY <3>1, <4>1, PostedKeeps
    <3>3. v.outbox # <<>>
      BY <2>1, <3>1, PostedKeeps
    <3>4. \A M : Has(v.outbox, M) <=> Has(t.outbox, M) \/ "shutdownComplete" \in M
      BY <2>1, <3>1, PostedKeeps
    <3>5. \A M : Once(t.outbox, M) /\ ("shutdownComplete" \in M => ~Has(t.outbox, M)) => Once(v.outbox, M)
      BY <2>1, <3>1, PostedKeeps
    <3> QED
      BY <3>2, <3>3, <3>4, <3>5
  <2> HIDE DEF v
  <2>6. w.ear = "closing"
    BY <1>1, <1>2, <1>5 DEF WorkerOk, LifeOk
  <2>7. LifeOk(v)
    BY <1>1, <1>2, <2>1, <2>5, <2>6 DEF WorkerOk, LifeOk, ToPage
  <2>8. RoleOk(x[2], v)
    BY <1>1, <1>2, <2>1, <2>5 DEF WorkerOk, RoleOk
  <2>9. x[2] \in Reader => ReaderOk(v)
    BY <1>1, <1>2, <2>1, <2>5 DEF WorkerOk, ReaderOk, Asked, Ready, Answered
  <2>10. Turned(x, w, v) /\ (Finished(v) => Finished(w))
    BY <1>1, <1>2, <2>1, <2>5 DEF Turned, Alive, LoaderOk, CombineOk, Ready, Fed, Loaded, Told, Finished
  <2> QED
    BY <2>4, <2>5, <2>7, <2>8, <2>9, <2>10 DEF Turns, WorkerOk
<1>6. CASE first = "load" /\ up
  <2> DEFINE v == [u EXCEPT !.at = "streaming"]
  <2>1. worker' = [ws EXCEPT ![x].at = "streaming"]
    BY <1>3, <1>6 DEF Takes
  <2>2. /\ v \in Workers /\ v.at = "streaming" /\ v.holds = w.holds /\ v.down = w.down
        /\ v.mem = w.mem /\ v.ear = w.ear /\ v.inbox = u.inbox /\ v.outbox = w.outbox
        /\ v.killed = w.killed
    BY <1>2 DEF Workers, At
  <2>3. worker' = [worker EXCEPT ![x] = v]
    BY <1>4, <2>1 DEF TypeInv
  <2> HIDE DEF v
  <2>4. x[2] = Loader
    BY <1>1, <1>2, <1>6, Names DEF WorkerOk, RoleOk, ToWorker
  <2>5. WorkerOk(x, v)
    BY <1>1, <1>2, <1>6, <2>2, <2>4, Names DEF WorkerOk, LifeOk, RoleOk, Loader, Prefetch
  <2>6. Turned(x, w, v) /\ (Finished(v) => Finished(w))
    BY <1>1, <1>2, <1>6, <2>2 DEF Turned, Alive, LoaderOk, CombineOk, Ready, Fed, Loaded, Told, Finished
  <2> QED
    BY <2>2, <2>3, <2>5, <2>6 DEF Turns
<1>7. ASSUME NEW m \in {"boundsReady", "boundsCombined", "error"}, worker' = Posted(ws, x, m),
             m = "boundsReady" => first = "computeBounds" /\ up,
             m = "boundsCombined" => /\ first = "combineBounds" /\ up
                                     /\ x = page.playback => ghost'.combined = slots[worker[x].mem],
             m = "error" => first # "shutdown" /\ ~up
      PROVE  \E v \in Workers :
              /\ Turns(x, v)
              /\ Finished(v) => \/ Finished(w)
                                \/ /\ Told(w)
                                   /\ x = page.playback => ghost'.combined = slots[worker[x].mem]
  <2> DEFINE v == PostedTo(x, u, m)
  <2>1. worker' = [worker EXCEPT ![x] = v]
    BY <1>2, <1>7 DEF TypeInv, Posted, PostedTo
  <2>2. /\ v \in Workers /\ v.at = u.at /\ v.holds = u.holds /\ v.down = u.down
        /\ v.mem = u.mem /\ v.ear = u.ear /\ v.inbox = u.inbox
        /\ u.ear = "closing" \/ x[2] = Prefetch => v = u
        /\ u.ear = "role" /\ x[2] # Prefetch =>
             /\ \A M : Has(v.outbox, M) <=> Has(u.outbox, M) \/ m \in M
             /\ \A M : Once(u.outbox, M) /\ (m \in M => ~Has(u.outbox, M)) => Once(v.outbox, M)
    <3>1. m \in ToPage /\ m # "shutdownComplete" /\ v = PostedTo(x, u, m)
      BY DEF ToPage
    <3> HIDE DEF v
    <3> QED
      BY <1>2, <3>1, PostedKeeps
  <2> HIDE DEF v
  <2>3. LifeOk(v)
    BY <1>1, <1>2, <1>7, <2>2 DEF WorkerOk, LifeOk, RoleOk
  <2>4. RoleOk(x[2], v)
    BY <1>1, <1>2, <1>7, <2>2, Names DEF WorkerOk, RoleOk
  <2>5. x[2] \in Reader => ReaderOk(v)
    BY <1>1, <1>2, <1>7, <2>2, Names DEF WorkerOk, RoleOk, ReaderOk, Asked, Ready, Answered, ToWorker
  <2>6. Turned(x, w, v)
    BY <1>1, <1>2, <1>7, <2>2 DEF Turned, Alive, LoaderOk, CombineOk, Ready, Fed, Loaded, Told, Finished
  <2>7. Finished(v) => Finished(w) \/ m = "boundsCombined"
    BY <1>1, <1>2, <2>2 DEF Finished
  <2>8. m = "boundsCombined" => Told(w)
    BY <1>2, <1>7 DEF Told
  <2> QED
    BY <1>7, <2>1, <2>2, <2>3, <2>4, <2>5, <2>6, <2>7, <2>8 DEF Turns, WorkerOk
<1> QED
  <2>1. \/ first = "shutdown"
        \/ first = "load" /\ up
        \/ first = "computeBounds" /\ up /\ worker' = Posted(ws, x, "boundsReady")
        \/ /\ first = "combineBounds" /\ up /\ worker' = Posted(ws, x, "boundsCombined")
           /\ x = page.playback => ghost'.combined = slots[worker[x].mem]
        \/ first # "shutdown" /\ ~up /\ worker' = Posted(ws, x, "error")
    BY <1>3 DEF Takes, Combined, TypeInv, Ghosts
  <2> QED
    BY <1>5, <1>6, <1>7, <2>1

LEMMA BrowserReleasesTurns ==
    ASSUME TypeInv, WorkersOk, NEW x \in Worker, BrowserReleases(x)
    PROVE  \E v \in Workers : Turns(x, v) /\ ~Finished(v)
<1> DEFINE w == worker[x]
           v == Ended([w EXCEPT !.holds = FALSE], FALSE)
<1>1. w \in Workers /\ WorkerOk(x, w) /\ w.at = "gone" /\ worker' = [worker EXCEPT ![x] = Gone]
  BY DEF TypeInv, WorkersOk, BrowserReleases
<1>2. v = Gone
  BY <1>1 DEF Ended, Workers
<1>3. /\ v \in Workers /\ WorkerOk(x, v) /\ v.at = "gone" /\ v.ear = "role"
      /\ v.inbox = <<>> /\ v.outbox = <<>>
  <2>1. [w EXCEPT !.holds = FALSE] \in Workers /\ ~[w EXCEPT !.holds = FALSE].holds
    BY <1>1 DEF Workers
  <2> QED
    BY <2>1, EndedIsOk
<1> HIDE DEF v
<1>4. Turned(x, w, v) /\ ~Finished(v)
  BY <1>1, <1>3, HasEmpty DEF Turned, Alive, LoaderOk, CombineOk, Ready, Fed, Loaded, Told, Finished
<1> QED
  BY <1>1, <1>2, <1>3, <1>4 DEF Turns

-----------------------------------------------------------------------------
(* The invariant, when one worker takes a turn.                            *)

LEMMA TurnKeeps ==
    ASSUME IInv, NEW x \in Worker, NEW v, Turns(x, v),
           page' = page, timers' = timers, waits' = waits, browser' = browser,
           ghost'.dropped = ghost.dropped, ghost'.finished = ghost.finished
    PROVE  /\ worker' \in [Worker -> Workers] /\ WorkersOk' /\ PageOk' /\ NamesOk'
           /\ TimersOk' /\ HandlesOk' /\ LoadingOk'
<1> DEFINE w == worker[x]
<1>1. /\ worker' = [worker EXCEPT ![x] = v] /\ v \in Workers /\ WorkerOk(x, v) /\ Turned(x, w, v)
      /\ worker \in [Worker -> Workers]
      /\ TypeInv /\ WorkersOk /\ PageOk /\ NamesOk /\ TimersOk /\ HandlesOk /\ LoadingOk
  BY DEF IInv, TypeInv, Turns
<1>2. /\ worker' \in [Worker -> Workers] /\ worker'[x] = v
      /\ \A y \in Worker : y # x => worker'[y] = worker[y]
  BY <1>1
<1>3. /\ w.at # "none" /\ v.at # "none"
      /\ v.at = "opening" => w.at = "opening"
      /\ Alive(v) => Alive(w) /\ v.ear = w.ear /\ v.mem = w.mem
      /\ Alive(w) /\ w.ear = "role" => Alive(v)
  BY <1>1 DEF Turned
<1>4. \A y \in Worker : /\ worker'[y].at = "none" <=> worker[y].at = "none"
                        /\ worker'[y].at = "opening" => worker[y].at = "opening"
                        /\ Live(worker', y) => /\ Live(worker, y) /\ worker'[y].ear = worker[y].ear
                                               /\ worker'[y].mem = worker[y].mem
                        /\ Live(worker, y) /\ worker[y].ear = "role" => Live(worker', y)
  BY <1>2, <1>3 DEF Live, Alive
<1>5. /\ page.playback \in Worker \cup {None} /\ page.prefetch \in Worker \cup {None}
      /\ timers \subseteq Worker /\ waits \subseteq Worker
      /\ page.load \in Load \cup {0} \/ page.chain # "waiting"
  <2>1. page \in Pages /\ timers \subseteq Worker /\ waits \subseteq Worker
    BY <1>1 DEF TypeInv
  <2>2. page.chain = "waiting" => page.load \in Load
    BY <1>1, <2>1 DEF PageOk, Pages
  <2> QED
    BY <2>1, <2>2 DEF Pages
<1>6. WorkersOk'
  BY <1>1, <1>2 DEF WorkersOk
<1>7. PageOk'
  BY <1>1 DEF PageOk
<1>8. NamesOk'
  <2>1. /\ page.playback # None => /\ Live(worker', page.playback) /\ worker'[page.playback].ear = "role"
                                   /\ worker'[page.playback].mem = page.load
    BY <1>1, <1>4, <1>5 DEF NamesOk
  <2>2. page.prefetch # None => /\ Live(worker', page.prefetch) /\ worker'[page.prefetch].ear = "role"
                                /\ page.prefetch[2] = Prefetch
                                /\ worker'[page.prefetch].mem # page.prefetch[1] \/ page.prefetch[1] = page.memory
    BY <1>1, <1>4, <1>5 DEF NamesOk, Late
  <2>3. \A y \in Worker : worker'[y].at # "none" \/ y \in timers =>
                             y[1] <= page.load /\ (y[2] \in Reader => y[2] <= browser.readers)
    BY <1>1, <1>4 DEF NamesOk
  <2>4. page.chain = "waiting" => worker'[<<page.load, Loader>>].at = "none"
    <3>1. page.chain = "waiting" => page.load \in Load
      BY <1>1 DEF PageOk, TypeInv, Pages
    <3>2. page.chain = "waiting" => <<page.load, Loader>> \in Worker
      BY <3>1, Names
    <3> QED
      BY <1>1, <1>4, <3>2 DEF NamesOk
  <2>5. \A y \in Worker : y[2] = Loader /\ Live(worker', y) /\ worker'[y].ear = "role" => y = page.playback
    BY <1>1, <1>4 DEF NamesOk
  <2> QED
    BY <1>1, <2>1, <2>2, <2>3, <2>4, <2>5 DEF NamesOk, Late
<1>9. TimersOk'
  <2>1. \A y \in timers : y[2] # Loader /\ worker'[y].at = "none"
    BY <1>1, <1>4, <1>5 DEF TimersOk
  <2>2. \A y \in Worker : y[2] # Loader /\ worker'[y].at # "none" =>
           \A z \in timers : ~(z[1] <= y[1] /\ z[2] <= y[2])
    BY <1>1, <1>4 DEF TimersOk
  <2>3. page.memory # NoMemory /\ page.matches = "none" =>
          \A y \in Worker : y[1] = page.load /\ y[2] # Loader => worker'[y].at = "none" /\ y \notin timers
    BY <1>1, <1>4 DEF TimersOk
  <2>4. page.matches = "empty" =>
          \A y \in Worker : y[1] = page.load /\ y[2] \in Reader => worker'[y].at = "none" /\ y \notin timers
    BY <1>1, <1>4 DEF TimersOk
  <2> QED
    BY <2>1, <2>2, <2>3, <2>4 DEF TimersOk
<1>10. HandlesOk'
  <2>1. \A y \in Worker : y[2] \notin Reader /\ Live(worker', y) =>
          \/ worker'[y].mem # y[1] \/ y \in ghost'.dropped \/ y \in waits
          \/ y \in {page.playback, page.prefetch}
    BY <1>1, <1>4 DEF HandlesOk, Late
  <2>2. \A y \in waits : /\ worker'[y].at # "none"
                         /\ Live(worker', y) => worker'[y].ear = "closing"
    BY <1>1, <1>4, <1>5 DEF HandlesOk
  <2>3. page.playback # None /\ worker'[page.playback].at = "opening" =>
          \A y \in waits : worker'[y].at = "gone"
    <3> SUFFICES ASSUME page.playback # None, worker'[page.playback].at = "opening", NEW y \in waits
                 PROVE  worker'[y].at = "gone"
      OBVIOUS
    <3>1. worker[page.playback].at = "opening"
      BY <1>4, <1>5
    <3>2. worker[y].at = "gone"
      BY <1>1, <3>1 DEF HandlesOk
    <3> QED
      BY <1>4, <1>5, <3>2 DEF Live
  <2> QED
    BY <1>1, <2>1, <2>2, <2>3 DEF HandlesOk, Late
<1>11. LoadingOk'
  <2> SUFFICES ASSUME page.playback # None PROVE LoaderOk(worker'[page.playback], page.matches)
    BY DEF LoadingOk
  <2>1. page.playback \in Worker /\ LoaderOk(worker[page.playback], page.matches)
    BY <1>1, <1>5 DEF LoadingOk
  <2>2. page.playback[2] = Loader
    BY <1>1 DEF PageOk
  <2>3. page.playback = x => LoaderOk(v, page.matches)
    BY <1>1, <2>1, <2>2 DEF Turned
  <2> QED
    BY <1>2, <2>1, <2>3
<1> QED
  BY <1>2, <1>6, <1>7, <1>8, <1>9, <1>10, <1>11

LEMMA TurnCounts ==
    ASSUME IInv, NEW x \in Worker, NEW v, Turns(x, v), page' = page, browser' = browser,
           ghost.stray => ghost'.stray, ghost'.finished = ghost.finished,
           page.playback # None /\ ~ghost'.stray =>
              /\ \A k \in 1 .. browser.readers :
                    k \in slots'[page.load] => k \in slots[page.load] \/ k \in Silent
              /\ \/ /\ ghost'.combined = ghost.combined
                    /\ Finished(worker'[page.playback]) => Finished(worker[page.playback])
                 \/ ghost'.combined = slots[page.load]
    PROVE  CountOk'
<1>1. /\ worker' = [worker EXCEPT ![x] = v] /\ v \in Workers /\ Turned(x, worker[x], v)
      /\ worker \in [Worker -> Workers] /\ CountOk /\ PageOk /\ TypeInv
  BY DEF IInv, TypeInv, Turns
<1>2. worker'[x] = v /\ \A y \in Worker : y # x => worker'[y] = worker[y]
  BY <1>1
<1> SUFFICES ASSUME page.playback # None, ~ghost'.stray PROVE CountOk'
  BY DEF CountOk
<1> DEFINE p == page.playback
           old == worker[p]
           new == worker'[p]
           old_answer == Told(old) \/ Finished(old) \/ ghost.finished # 0
<1>3. ~ghost.stray /\ p \in Worker
  BY <1>1 DEF TypeInv, Pages
<1>4. /\ CombineOk(old, page.matches, ghost.finished)
      /\ page.running => ghost.finished = 1
      /\ page.matches = "some" =>
              /\ page.remaining = Cardinality(Silent)
              /\ old_answer => Silent = {}
              /\ Finished(old) \/ ghost.finished # 0 =>
                    \A k \in 1 .. browser.readers : k \in slots[page.load] => k \in ghost.combined
  BY <1>1, <1>3 DEF CountOk
<1>5. Silent' = Silent
  <2>1. \A y \in Worker : (worker'[y].ear = "closing" \/ worker'[y].at = "gone")
                             <=> (worker[y].ear = "closing" \/ worker[y].at = "gone")
    <3>1. \A y \in Worker : worker[y] \in Workers /\ worker'[y] \in Workers
      BY <1>1
    <3>2. /\ worker[x].at # "none" /\ v.at # "none"
          /\ Alive(v) => Alive(worker[x]) /\ v.ear = worker[x].ear
          /\ Alive(worker[x]) /\ worker[x].ear = "role" => Alive(v)
      BY <1>1 DEF Turned
    <3> QED
      BY <1>2, <3>1, <3>2 DEF Alive, Workers
  <2>2. page.load \in Load
    BY <1>1 DEF PageOk, TypeInv, Pages, Worker, Loader
  <2>3. \A k \in 1 .. browser.readers : <<page.load, k>> \in Worker
    BY <1>1, <2>2, Names DEF TypeInv
  <2> QED
    BY <2>1, <2>3 DEF Silent, Reported
<1>6. /\ CombineOk(new, page.matches, ghost.finished)
      /\ Told(new) \/ Finished(new) => Told(old) \/ Finished(old)
  BY <1>1, <1>2, <1>3, <1>4 DEF Turned
<1>7. page.matches = "some" /\ (Finished(new) \/ ghost.finished # 0) =>
         \A k \in 1 .. browser.readers : k \in slots'[page.load] => k \in ghost'.combined
  <2> SUFFICES ASSUME page.matches = "some", Finished(new) \/ ghost.finished # 0,
                      NEW k \in 1 .. browser.readers, k \in slots'[page.load]
               PROVE  k \in ghost'.combined
    OBVIOUS
  <2>1. Silent = {}
    BY <1>4, <1>6
  <2>2. k \in slots[page.load]
    BY <2>1
  <2> QED
    BY <1>4, <2>2
<1> QED
  BY <1>4, <1>5, <1>6, <1>7 DEF CountOk

-----------------------------------------------------------------------------
(* The workers' own actions.                                               *)

\* A turn in which nothing is computed or combined.
LEMMA QuietTurnKeeps ==
    ASSUME IInv, NEW x \in Worker, NEW v, Turns(x, v), Finished(v) => Finished(worker[x]),
           UNCHANGED <<page, timers, waits, browser, slots, ghost>>, mishaps' \in Nat
    PROVE  IInv'
<1>1. /\ page' = page /\ timers' = timers /\ waits' = waits /\ browser' = browser
      /\ slots' = slots /\ ghost' = ghost
  OBVIOUS
<1>2. /\ worker' \in [Worker -> Workers] /\ WorkersOk' /\ PageOk' /\ NamesOk'
      /\ TimersOk' /\ HandlesOk' /\ LoadingOk'
  BY <1>1, TurnKeeps
<1>3. TypeInv'
  BY <1>1, <1>2 DEF IInv, TypeInv
<1>4. page.playback # None =>
         (Finished(worker'[page.playback]) => Finished(worker[page.playback]))
  <2>1. worker' = [worker EXCEPT ![x] = v] /\ worker \in [Worker -> Workers]
    BY DEF Turns, IInv, TypeInv
  <2>2. page.playback # None => page.playback \in Worker
    BY DEF IInv, TypeInv, Pages
  <2> QED
    BY <2>1, <2>2
<1>5. CountOk'
  BY <1>1, <1>4, TurnCounts
<1> QED
  BY <1>2, <1>3, <1>5 DEF IInv

LEMMA OpensKeeps == ASSUME IInv, NEW x \in Worker, Opens(x) PROVE IInv'
<1>1. PICK v \in Workers : Turns(x, v) /\ (Finished(v) => Finished(worker[x]))
  BY OpensTurns DEF IInv
<1>2. UNCHANGED <<page, timers, waits, browser, slots, ghost>> /\ mishaps' \in Nat
  BY DEF Opens, WorkerOnly, IInv, TypeInv
<1> QED
  BY <1>1, <1>2, QuietTurnKeeps

LEMMA OpenFailsKeeps == ASSUME IInv, NEW x \in Worker, OpenFails(x) PROVE IInv'
<1>1. PICK v \in Workers : Turns(x, v) /\ (Finished(v) => Finished(worker[x]))
  BY OpenFailsTurns DEF IInv
<1>2. UNCHANGED <<page, timers, waits, browser, slots, ghost>> /\ mishaps' \in Nat
  BY DEF OpenFails, WorkerOnly, IInv, TypeInv
<1> QED
  BY <1>1, <1>2, QuietTurnKeeps

LEMMA StreamsKeeps == ASSUME IInv, NEW x \in Worker, Streams(x) PROVE IInv'
<1>1. PICK v \in Workers : Turns(x, v) /\ (Finished(v) => Finished(worker[x]))
  BY StreamsTurns DEF IInv
<1>2. UNCHANGED <<page, timers, waits, browser, slots, ghost>> /\ mishaps' \in Nat
  BY DEF Streams, WorkerOnly, IInv, TypeInv
<1> QED
  BY <1>1, <1>2, QuietTurnKeeps

LEMMA ThrowsKeeps == ASSUME IInv, NEW x \in Worker, Throws(x) PROVE IInv'
<1>1. PICK v \in Workers : Turns(x, v) /\ (Finished(v) => Finished(worker[x]))
  BY ThrowsTurns DEF IInv
<1>2. UNCHANGED <<page, timers, waits, browser, slots, ghost>> /\ mishaps' \in Nat
  BY DEF Throws, WorkerOnly, IInv, TypeInv
<1> QED
  BY <1>1, <1>2, QuietTurnKeeps

LEMMA BrowserReleasesKeeps == ASSUME IInv, NEW x \in Worker, BrowserReleases(x) PROVE IInv'
<1>1. PICK v \in Workers : Turns(x, v) /\ ~Finished(v)
  BY BrowserReleasesTurns DEF IInv
<1>2. UNCHANGED <<page, timers, waits, browser, slots, ghost>> /\ mishaps' \in Nat
  BY DEF BrowserReleases, WorkerOnly, IInv, TypeInv
<1> QED
  BY <1>1, <1>2, QuietTurnKeeps

\* What a reader computes goes to the load whose memory it has; into another
\* load's, that load is marked.
LEMMA TakesKeeps == ASSUME IInv, NEW x \in Worker, Takes(x) PROVE IInv'
<1> DEFINE w == worker[x]
           first == Head(w.inbox)
           p == page.playback
<1>1. PICK v \in Workers :
         /\ Turns(x, v)
         /\ Finished(v) => \/ Finished(w)
                           \/ /\ Told(w)
                              /\ x = p => ghost'.combined = slots[w.mem]
  BY TakesTurns DEF IInv
<1>2. /\ page' = page /\ timers' = timers /\ waits' = waits /\ browser' = browser
      /\ mishaps' = mishaps
  BY DEF Takes, WorkerOnly
<1>3. /\ TypeInv /\ WorkersOk /\ PageOk /\ NamesOk
      /\ w \in Workers /\ WorkerOk(x, w) /\ w.at \notin {"none", "gone"} /\ w.inbox # <<>>
      /\ first \in ToWorker /\ \A M : Has(w.inbox, M) <=> first \in M \/ Has(Tail(w.inbox), M)
  <2>1. TypeInv /\ WorkersOk /\ PageOk /\ NamesOk
    BY DEF IInv
  <2>2. w \in Workers /\ WorkerOk(x, w) /\ w.at \notin {"none", "gone"} /\ w.inbox # <<>>
    BY <2>1 DEF TypeInv, WorkersOk, Takes, Live
  <2> QED
    BY <2>1, <2>2, Taken DEF Workers
<1>4. \/ UNCHANGED <<slots, ghost>>
      \/ /\ first = "computeBounds" /\ w.at \in {"up", "streaming"}
         /\ slots' = [slots EXCEPT ![w.mem] = @ \cup {x[2]}]
         /\ ghost' = [ghost EXCEPT !.stray = @ \/ (Late(x) /\ w.mem = page.load)]
      \/ /\ first = "combineBounds" /\ w.at \in {"up", "streaming"} /\ slots' = slots
         /\ ghost' = [ghost EXCEPT !.combined = IF x = p THEN slots[w.mem] ELSE @]
  BY DEF Takes, Computed, Combined
<1>5. w.at \in {"up", "streaming"} => w.mem \in Load
  BY <1>3 DEF WorkerOk, LifeOk, Workers
<1>6. first = "computeBounds" => x[2] \in Reader
  BY <1>3, Names DEF WorkerOk, RoleOk, ToWorker
<1>7. slots' \in [Load -> SUBSET Reader] /\ ghost' \in Ghosts
  <2>1. slots \in [Load -> SUBSET Reader] /\ ghost \in Ghosts
    BY <1>3 DEF TypeInv
  <2>2. CASE UNCHANGED <<slots, ghost>>
    BY <2>1, <2>2
  <2>3. CASE /\ first = "computeBounds" /\ w.at \in {"up", "streaming"}
             /\ slots' = [slots EXCEPT ![w.mem] = @ \cup {x[2]}]
             /\ ghost' = [ghost EXCEPT !.stray = @ \/ (Late(x) /\ w.mem = page.load)]
    <3>1. slots[w.mem] \cup {x[2]} \in SUBSET Reader
      BY <1>5, <1>6, <2>1, <2>3
    <3>2. slots' \in [Load -> SUBSET Reader]
      BY <2>1, <2>3, <3>1
    <3>3. ghost' \in Ghosts
      BY <2>1, <2>3 DEF Ghosts
    <3> QED
      BY <3>2, <3>3
  <2>4. CASE /\ first = "combineBounds" /\ w.at \in {"up", "streaming"} /\ slots' = slots
             /\ ghost' = [ghost EXCEPT !.combined = IF x = p THEN slots[w.mem] ELSE @]
    <3>1. slots[w.mem] \in SUBSET Reader
      BY <1>5, <2>1, <2>4
    <3> QED
      BY <2>1, <2>4, <3>1 DEF Ghosts
  <2> QED
    BY <1>4, <2>2, <2>3, <2>4
<1>8. /\ ghost'.dropped = ghost.dropped /\ ghost'.finished = ghost.finished
      /\ ghost.stray => ghost'.stray
  BY <1>3, <1>4 DEF TypeInv, Ghosts
<1>9. /\ worker' \in [Worker -> Workers] /\ WorkersOk' /\ PageOk' /\ NamesOk'
      /\ TimersOk' /\ HandlesOk' /\ LoadingOk'
  BY <1>1, <1>2, <1>8, TurnKeeps
<1>10. TypeInv'
  BY <1>2, <1>3, <1>7, <1>9 DEF TypeInv
<1>11. ASSUME p # None, ~ghost'.stray
       PROVE  /\ \A k \in 1 .. browser.readers :
                    k \in slots'[page.load] => k \in slots[page.load] \/ k \in Silent
              /\ \/ /\ ghost'.combined = ghost.combined
                    /\ Finished(worker'[p]) => Finished(worker[p])
                 \/ ghost'.combined = slots[page.load]
  <2>1. p \in Worker /\ page.load \in Load /\ worker[p].mem = page.load /\ p[1] = page.load
    BY <1>3, <1>11, Names DEF TypeInv, Pages, PageOk, NamesOk
  <2>2. ASSUME NEW k \in 1 .. browser.readers, k \in slots'[page.load], k \notin slots[page.load]
        PROVE  k \in Silent
    <3>1. /\ first = "computeBounds" /\ w.at \in {"up", "streaming"} /\ w.mem = page.load
          /\ k = x[2] /\ ghost'.stray = (ghost.stray \/ (Late(x) /\ w.mem = page.load))
      BY <1>3, <1>4, <1>5, <2>1, <2>2 DEF TypeInv, Ghosts
    <3>2. ~Late(x)
      BY <1>11, <3>1
    <3>3. x = <<page.load, k>>
      BY <3>1, <3>2, Names DEF Late
    <3>4. w.ear # "closing" /\ w.at # "gone"
      BY <1>3, <1>6, <3>1 DEF WorkerOk, ReaderOk, Asked
    <3> QED
      BY <2>2, <3>3, <3>4 DEF Silent, Reported
  <2>3. ghost'.combined = ghost.combined \/ (x = p /\ ghost'.combined = slots[page.load])
    <3>1. ghost \in Ghosts /\ (x = p => w.mem = page.load)
      BY <1>3, <2>1 DEF TypeInv
    <3>2. \/ ghost'.combined = ghost.combined
          \/ ghost'.combined = IF x = p THEN slots[w.mem] ELSE ghost.combined
      BY <1>4, <3>1 DEF Ghosts
    <3> QED
      BY <3>1, <3>2
  <2>4. worker' = [worker EXCEPT ![x] = v] /\ worker \in [Worker -> Workers]
    BY <1>1, <1>3 DEF Turns, TypeInv
  <2>5. Finished(worker'[p]) => Finished(worker[p]) \/ ghost'.combined = slots[page.load]
    BY <1>1, <2>1, <2>4
  <2> QED
    BY <2>2, <2>3, <2>5
<1>12. CountOk'
  BY <1>1, <1>2, <1>8, <1>11, TurnCounts
<1> QED
  BY <1>9, <1>10, <1>12 DEF IInv

-----------------------------------------------------------------------------
(* The end of a worker: it has acknowledged, or it took too long.          *)

LEMMA EndedTurns ==
    ASSUME TypeInv, WorkersOk, NEW x \in Worker, NEW killed \in BOOLEAN, Live(worker, x),
           killed \/ ~worker[x].holds, worker[x].ear = "closing",
           worker' = [worker EXCEPT ![x] = Ended(@, killed)]
    PROVE  \E v \in Workers : Turns(x, v) /\ ~Finished(v)
<1> DEFINE w == worker[x]
           v == Ended(w, killed)
<1>1. w \in Workers
  BY DEF TypeInv
<1>2. /\ v \in Workers /\ WorkerOk(x, v) /\ v.at = "gone" /\ v.ear = "role"
      /\ v.inbox = <<>> /\ v.outbox = <<>>
  BY <1>1, EndedIsOk
<1>3. worker' = [worker EXCEPT ![x] = v] /\ w.at # "none" /\ w.ear # "role"
  BY DEF Live
<1> HIDE DEF v
<1>4. Turned(x, w, v) /\ ~Finished(v)
  BY <1>2, <1>3, HasEmpty DEF Turned, Alive, LoaderOk, CombineOk, Ready, Fed, Loaded, Told, Finished
<1> QED
  BY <1>2, <1>3, <1>4 DEF Turns

LEMMA ShutdownTimesOutKeeps == ASSUME IInv, NEW x \in Worker, ShutdownTimesOut(x) PROVE IInv'
<1>1. worker' = [worker EXCEPT ![x] = Ended(@, TRUE)] /\ Live(worker, x) /\ worker[x].ear = "closing"
  BY DEF ShutdownTimesOut, Terminated, Ended, IInv, TypeInv
<1>2. PICK v \in Workers : Turns(x, v) /\ ~Finished(v)
  BY <1>1, EndedTurns DEF IInv
<1>3. UNCHANGED <<page, timers, waits, browser, slots, ghost>> /\ mishaps' \in Nat
  BY DEF ShutdownTimesOut, IInv, TypeInv
<1> QED
  BY <1>2, <1>3, QuietTurnKeeps

LEMMA AcknowledgedKeeps ==
    ASSUME IInv, NEW x \in Worker, worker[x].outbox # <<>>, worker[x].ear = "closing",
           worker' = Terminated([worker EXCEPT ![x].outbox = Tail(@)], x, FALSE),
           UNCHANGED <<page, timers, waits, slots, ghost>>, UNCHANGED <<browser, mishaps>>
    PROVE  IInv'
<1>1. /\ TypeInv /\ WorkersOk /\ worker[x] \in Workers /\ LifeOk(worker[x])
      /\ worker \in [Worker -> Workers]
  BY DEF IInv, TypeInv, WorkersOk, WorkerOk
<1>2. ~worker[x].holds /\ Live(worker, x)
  BY <1>1 DEF LifeOk, Live, Absent
<1>3. worker' = [worker EXCEPT ![x] = Ended(@, FALSE)]
  BY <1>1, <1>2 DEF Terminated, Ended, Workers
<1>4. PICK v \in Workers : Turns(x, v) /\ ~Finished(v)
  BY <1>1, <1>2, <1>3, EndedTurns
<1>5. UNCHANGED <<page, timers, waits, browser, slots, ghost>> /\ mishaps' \in Nat
  BY <1>1 DEF TypeInv
<1> QED
  BY <1>4, <1>5, QuietTurnKeeps

-----------------------------------------------------------------------------
(* The page: reset.                                                        *)

\* What a message taken off its queue leaves of a worker.
Alike(w, v) == v.at = w.at /\ v.holds = w.holds /\ v.mem = w.mem /\ v.ear = w.ear

LEMMA ResetKeeps ==
    ASSUME IInv, NEW ws \in [Worker -> Workers],
           \A y \in Worker : WorkerOk(y, ws[y]) /\ Alike(worker[y], ws[y]),
           Reset(ws), browser' = browser, mishaps' \in Nat
    PROVE  IInv'
<1>1. TypeInv /\ WorkersOk /\ PageOk /\ NamesOk /\ TimersOk /\ HandlesOk
  BY DEF IInv
<1>2. /\ worker' = [y \in Worker |-> IF y \in Outgoing THEN Closing(ws, y)[y] ELSE ws[y]]
      /\ waits' = Outgoing /\ timers' = timers /\ slots' = slots
      /\ page' = [page EXCEPT !.chain = "none", !.upload = TRUE, !.running = FALSE,
                              !.matches = "none", !.memory = NoMemory,
                              !.playback = None, !.prefetch = None]
      /\ ghost' = [ghost EXCEPT !.dropped = @ \cup {y \in waits : Live(ws, y)}]
  BY DEF Reset
<1>3. /\ page \in Pages /\ page' \in Pages
      /\ page'.chain = "none" /\ page'.upload = TRUE /\ page'.running = FALSE
      /\ page'.matches = "none" /\ page'.memory = NoMemory /\ page'.playback = None
      /\ page'.prefetch = None /\ page'.load = page.load /\ page'.remaining = page.remaining
  BY <1>1, <1>2 DEF TypeInv, Pages
<1>4. /\ ghost' \in Ghosts
      /\ ghost'.dropped = ghost.dropped \cup {y \in waits : Live(ws, y)}
  <2>1. ghost \in Ghosts /\ waits \subseteq Worker
    BY <1>1 DEF TypeInv
  <2>2. ghost.dropped \cup {y \in waits : Live(ws, y)} \in SUBSET Worker
    BY <2>1 DEF Ghosts
  <2> QED
    BY <1>2, <2>1, <2>2 DEF Ghosts
<1>5. \A y \in Outgoing : /\ y \in Worker /\ y[2] \notin Reader /\ y \in {page.playback, page.prefetch}
                          /\ Live(worker, y) /\ worker[y].ear = "role"
  <2> SUFFICES ASSUME NEW y \in Outgoing
               PROVE  /\ y \in Worker /\ y[2] \notin Reader /\ y \in {page.playback, page.prefetch}
                      /\ Live(worker, y) /\ worker[y].ear = "role"
    OBVIOUS
  <2>1. y \in Worker /\ y # None /\ y \in {page.playback, page.prefetch}
    BY <1>3 DEF Outgoing, Pages
  <2>2. y[2] \in {Loader, Prefetch}
    BY <1>1, <2>1 DEF PageOk, NamesOk
  <2> QED
    BY <1>1, <2>1, <2>2, Names DEF NamesOk
<1>6. \A y \in Outgoing : LET v == worker'[y]
                          IN  /\ v \in Workers /\ WorkerOk(y, v)
                              /\ v.at = worker[y].at /\ v.mem = worker[y].mem /\ v.ear = "closing"
  <2> SUFFICES ASSUME NEW y \in Outgoing
               PROVE  LET v == worker'[y]
                      IN  /\ v \in Workers /\ WorkerOk(y, v)
                          /\ v.at = worker[y].at /\ v.mem = worker[y].mem /\ v.ear = "closing"
    OBVIOUS
  <2>1. /\ y \in Worker /\ y # None /\ y[2] \notin Reader
        /\ ws[y] \in Workers /\ WorkerOk(y, ws[y]) /\ Alive(ws[y]) /\ ws[y].ear = "role"
        /\ ws[y].at = worker[y].at /\ ws[y].mem = worker[y].mem
    BY <1>5, Names DEF Alike, Live, Alive
  <2>2. worker'[y] = Closed(ws[y])
    <3>1. worker'[y] = Closing(ws, y)[y]
      BY <1>2, <2>1
    <3> QED
      BY <2>1, <3>1 DEF Closing, Closed, Workers
  <2> QED
    BY <2>1, <2>2, ClosedIsOk
<1>7. \A y \in Worker \ Outgoing : worker'[y] = ws[y]
  BY <1>2
<1>8. \A y \in Worker : /\ worker'[y] \in Workers /\ WorkerOk(y, worker'[y])
                        /\ worker'[y].at = worker[y].at /\ worker'[y].mem = worker[y].mem
                        /\ worker'[y].ear = IF y \in Outgoing THEN "closing" ELSE worker[y].ear
  BY <1>6, <1>7 DEF Alike
<1>9. worker' \in [Worker -> Workers]
  <2>1. worker' = [y \in Worker |-> worker'[y]]
    BY <1>2
  <2> QED
    BY <1>8, <2>1
<1>10. TypeInv'
  <2>1. Outgoing \subseteq Worker
    BY <1>5
  <2> QED
    BY <1>1, <1>2, <1>3, <1>4, <1>9, <2>1 DEF TypeInv
<1>11. WorkersOk'
  BY <1>8 DEF WorkersOk
<1>12. PageOk'
  BY <1>1, <1>3 DEF PageOk
<1>13. NamesOk'
  <2>1. \A y \in Worker : worker'[y].at # "none" \/ y \in timers' =>
                             y[1] <= page'.load /\ (y[2] \in Reader => y[2] <= browser'.readers)
    BY <1>1, <1>2, <1>3, <1>8 DEF NamesOk
  <2>2. ASSUME NEW y \in Worker, y[2] = Loader, Live(worker', y), worker'[y].ear = "role"
        PROVE  FALSE
    <3>1. Live(worker, y) /\ worker[y].ear = "role" /\ y \notin Outgoing
      BY <1>8, <2>2 DEF Live
    <3>2. y = page.playback
      BY <1>1, <2>2, <3>1 DEF NamesOk
    <3> QED
      BY <3>1, <3>2, Names DEF Outgoing
  <2> QED
    BY <1>3, <2>1, <2>2 DEF NamesOk
<1>14. TimersOk'
  <2>1. \A y \in timers' : y[2] # Loader /\ worker'[y].at = "none"
    BY <1>1, <1>2, <1>8 DEF TimersOk, TypeInv
  <2>2. \A y \in Worker : y[2] # Loader /\ worker'[y].at # "none" =>
           \A z \in timers' : ~(z[1] <= y[1] /\ z[2] <= y[2])
    BY <1>1, <1>2, <1>8 DEF TimersOk
  <2> QED
    BY <1>3, <2>1, <2>2 DEF TimersOk
<1>15. HandlesOk'
  <2>1. ASSUME NEW y \in Worker, y[2] \notin Reader, Live(worker', y)
        PROVE  worker'[y].mem # y[1] \/ y \in ghost'.dropped \/ y \in waits'
    <3>1. Live(worker, y)
      BY <1>8, <2>1 DEF Live
    <3>2. Late(y) \/ y \in ghost.dropped \/ y \in waits \/ y \in {page.playback, page.prefetch}
      BY <1>1, <2>1, <3>1 DEF HandlesOk
    <3>3. y \in waits => y \in ghost'.dropped
      BY <1>4, <3>1 DEF Live, Alike
    <3>4. y \in {page.playback, page.prefetch} => y \in waits'
      BY <1>2, Names DEF Outgoing
    <3> QED
      BY <1>4, <1>8, <3>2, <3>3, <3>4 DEF Late
  <2>2. \A y \in waits' : /\ worker'[y].at # "none"
                          /\ Live(worker', y) => worker'[y].ear = "closing"
    BY <1>2, <1>5, <1>6 DEF Live
  <2> QED
    BY <1>3, <2>1, <2>2 DEF HandlesOk, Late
<1>16. LoadingOk' /\ CountOk'
  BY <1>3 DEF LoadingOk, CountOk
<1> QED
  BY <1>10, <1>11, <1>12, <1>13, <1>14, <1>15, <1>16 DEF IInv

LEMMA PlainResetKeeps ==
    ASSUME IInv, Reset(worker), browser' = browser, mishaps' \in Nat PROVE IInv'
<1>1. /\ worker \in [Worker -> Workers]
      /\ \A y \in Worker : WorkerOk(y, worker[y]) /\ Alike(worker[y], worker[y])
  BY DEF IInv, TypeInv, WorkersOk, Alike
<1> QED
  BY <1>1, ResetKeeps

LEMMA UserResetKeeps == ASSUME IInv, UserReset PROVE IInv'
BY PlainResetKeeps DEF UserReset, IInv, TypeInv

-----------------------------------------------------------------------------
(* The page: a load begins.                                                *)

LEMMA BeginsKeeps ==
    ASSUME IInv, page.upload \/ page.chain = "decompressing",
           page.load < MaxLoads[browser.readers], Begins,
           waits' = waits, browser' = browser, mishaps' = mishaps
    PROVE  IInv'
<1>1. TypeInv /\ WorkersOk /\ PageOk /\ NamesOk /\ TimersOk /\ HandlesOk
  BY DEF IInv
<1>2. /\ worker' = worker /\ timers' = timers /\ slots' = slots
      /\ page' = [page EXCEPT !.load = @ + 1, !.memory = page.load + 1, !.upload = FALSE,
                              !.chain = "waiting"]
      /\ ghost' = [ghost EXCEPT !.stray = FALSE, !.finished = 0, !.combined = {}]
  BY DEF Begins
<1>3. page \in Pages /\ page.load \in Nat /\ page.load + 1 \in Load
  <2>1. page \in Pages /\ browser.readers \in ReaderCounts
    BY <1>1 DEF TypeInv
  <2>2. page.load \in Nat
    BY <2>1 DEF Pages
  <2> QED
    BY <2>1, <2>2, Names
<1>4. page.memory = NoMemory /\ page.playback = None /\ ~page.running /\ page.matches = "none"
  BY <1>1 DEF PageOk
<1>5. /\ page' \in Pages /\ page'.load = page.load + 1 /\ page'.memory = page.load + 1
      /\ page'.upload = FALSE /\ page'.chain = "waiting" /\ page'.running = page.running
      /\ page'.matches = page.matches /\ page'.remaining = page.remaining
      /\ page'.playback = page.playback /\ page'.prefetch = page.prefetch
  <2> DEFINE n == page.load + 1
  <2>1. page' = [page EXCEPT !.load = n, !.memory = n, !.upload = FALSE, !.chain = "waiting"]
    BY <1>2
  <2>2. n \in Nat /\ n \in Load
    BY <1>3
  <2> HIDE DEF n
  <2>3. page' \in Pages
    BY <1>3, <2>1, <2>2 DEF Pages
  <2>4. /\ page'.load = n /\ page'.memory = n
        /\ page'.upload = FALSE /\ page'.chain = "waiting" /\ page'.running = page.running
        /\ page'.matches = page.matches /\ page'.remaining = page.remaining
        /\ page'.playback = page.playback /\ page'.prefetch = page.prefetch
    BY <1>3, <2>1 DEF Pages
  <2> QED
    BY <2>3, <2>4 DEF n
<1>6. ghost' \in Ghosts /\ ghost'.finished = 0 /\ ghost'.dropped = ghost.dropped
  BY <1>1, <1>2 DEF TypeInv, Ghosts
<1>7. \A x \in Worker : worker[x].at # "none" \/ x \in timers => x[1] <= page.load
  BY <1>1 DEF NamesOk
<1>8. \A x \in Worker : x[1] \in Nat \ {0}
  BY Names
<1>9. TypeInv'
  BY <1>1, <1>2, <1>5, <1>6 DEF TypeInv
<1>10. WorkersOk'
  BY <1>1, <1>2 DEF WorkersOk
<1>11. PageOk'
  BY <1>1, <1>3, <1>4, <1>5, <1>6 DEF PageOk, NoMemory
<1>12. NamesOk'
  <2>1. page.prefetch # None =>
            /\ Live(worker, page.prefetch) /\ worker[page.prefetch].ear = "role"
            /\ page.prefetch[2] = Prefetch /\ Late(page.prefetch)
    <3>1. page.prefetch # None => page.prefetch \in Worker
      BY <1>3 DEF Pages
    <3> QED
      BY <1>1, <1>4, <1>8, <3>1 DEF NamesOk, NoMemory
  <2>2. \A x \in Worker : worker[x].at # "none" \/ x \in timers =>
            x[1] <= page.load + 1 /\ (x[2] \in Reader => x[2] <= browser.readers)
    BY <1>1, <1>3, <1>8 DEF NamesOk
  <2>3. worker[<<page.load + 1, Loader>>].at = "none"
    <3>1. <<page.load + 1, Loader>> \in Worker /\ <<page.load + 1, Loader>>[1] = page.load + 1
      BY <1>3, Names
    <3> QED
      BY <1>3, <1>7, <3>1
  <2> QED
    BY <1>1, <1>2, <1>4, <1>5, <2>1, <2>2, <2>3 DEF NamesOk, Late
<1>13. TimersOk'
  <2>1. \A x \in Worker : x[1] = page.load + 1 => worker[x].at = "none" /\ x \notin timers
    BY <1>3, <1>7
  <2> QED
    BY <1>1, <1>2, <1>4, <1>5, <2>1 DEF TimersOk
<1>14. HandlesOk'
  BY <1>1, <1>2, <1>4, <1>5, <1>6 DEF HandlesOk, Late
<1>15. LoadingOk' /\ CountOk'
  BY <1>4, <1>5 DEF LoadingOk, CountOk
<1> QED
  BY <1>9, <1>10, <1>11, <1>12, <1>13, <1>14, <1>15 DEF IInv

LEMMA PickFileKeeps == ASSUME IInv, NEW battleFile \in BOOLEAN, PickFile(battleFile) PROVE IInv'
<1>1. CASE ~battleFile
  BY <1>1, BeginsKeeps DEF PickFile
<1>2. CASE battleFile
  <2>1. TypeInv /\ WorkersOk /\ PageOk /\ NamesOk /\ TimersOk /\ HandlesOk
    BY DEF IInv
  <2>2. /\ page.upload /\ page.load < MaxLoads[browser.readers]
        /\ page' = [page EXCEPT !.upload = FALSE, !.chain = "decompressing"]
        /\ worker' = worker /\ timers' = timers /\ slots' = slots /\ ghost' = ghost
        /\ waits' = waits /\ browser' = browser /\ mishaps' = mishaps
    BY <1>2 DEF PickFile
  <2>3. /\ page' \in Pages /\ page'.load = page.load /\ page'.memory = page.memory
        /\ page'.upload = FALSE /\ page'.chain = "decompressing" /\ page'.running = page.running
        /\ page'.matches = page.matches /\ page'.remaining = page.remaining
        /\ page'.playback = page.playback /\ page'.prefetch = page.prefetch
    BY <2>1, <2>2 DEF TypeInv, Pages
  <2>4. page.memory = NoMemory /\ page.playback = None /\ page.chain = "none"
    BY <2>1, <2>2 DEF PageOk
  <2>5. TypeInv' /\ WorkersOk'
    BY <2>1, <2>2, <2>3 DEF TypeInv, WorkersOk
  <2>6. PageOk'
    BY <2>1, <2>2, <2>3, <2>4 DEF PageOk
  <2>7. NamesOk'
    BY <2>1, <2>2, <2>3, <2>4 DEF NamesOk, Late
  <2>8. TimersOk' /\ HandlesOk'
    BY <2>1, <2>2, <2>3, <2>4 DEF TimersOk, HandlesOk, Late
  <2>9. LoadingOk' /\ CountOk'
    BY <2>3, <2>4 DEF LoadingOk, CountOk
  <2> QED
    BY <2>5, <2>6, <2>7, <2>8, <2>9 DEF IInv
<1> QED
  BY <1>1, <1>2

LEMMA DecompressedKeeps == ASSUME IInv, Decompressed PROVE IInv'
<1>1. page.chain = "decompressing" /\ page.load < MaxLoads[browser.readers] /\ browser' = browser
  BY DEF IInv, PageOk, Decompressed
<1>2. CASE Begins /\ UNCHANGED <<waits, mishaps>>
  BY <1>1, <1>2, BeginsKeeps
<1>3. CASE mishaps > 0 /\ mishaps' = mishaps - 1 /\ Reset(worker)
  <2>1. mishaps' \in Nat
    BY <1>3 DEF IInv, TypeInv
  <2> QED
    BY <1>1, <1>3, <2>1, PlainResetKeeps
<1> QED
  BY <1>2, <1>3 DEF Decompressed

-----------------------------------------------------------------------------
(* The page: workers come to be.                                           *)

LEMMA StartLoaderKeeps == ASSUME IInv, StartLoader PROVE IInv'
<1>1. /\ TypeInv /\ WorkersOk /\ PageOk /\ NamesOk /\ TimersOk /\ HandlesOk
      /\ page \in Pages /\ ghost \in Ghosts /\ worker \in [Worker -> Workers]
  BY DEF IInv, TypeInv
<1>2. CASE mishaps > 0 /\ mishaps' = mishaps - 1 /\ Reset(worker) /\ UNCHANGED browser
  <2>1. mishaps' \in Nat
    BY <1>1, <1>2 DEF TypeInv
  <2> QED
    BY <1>2, <2>1, PlainResetKeeps
<1>3. CASE /\ page' = [page EXCEPT !.chain = "none", !.playback = <<page.load, Loader>>]
           /\ worker' = Created(worker, <<page.load, Loader>>, page.memory)
           /\ UNCHANGED <<timers, waits, browser, slots, mishaps, ghost>>
  <2> DEFINE p == <<page.load, Loader>>
             v == [Absent EXCEPT !.at = "opening", !.mem = page.memory]
  <2>1. /\ page.chain = "waiting" /\ \A x \in waits : worker[x].at = "gone"
        /\ page.memory = page.load /\ page.load \in Load /\ ghost.finished = 0
        /\ page.playback = None /\ ~page.upload /\ ~page.running /\ page.matches = "none"
    BY <1>1 DEF StartLoader, TornDown, PageOk, Pages
  <2>2. p \in Worker /\ p[1] = page.load /\ p[2] = Loader /\ p # None
    BY <2>1, Names
  <2>3. worker[p].at = "none"
    BY <1>1, <2>1 DEF NamesOk
  <2>4. /\ v \in Workers /\ WorkerOk(p, v) /\ v.at = "opening" /\ v.mem = page.load
        /\ v.ear = "role" /\ v.inbox = <<>> /\ v.outbox = <<>>
    <3>1. p \in Worker /\ page.memory \in Load \cup {NoMemory}
      BY <2>1, <2>2
    <3> HIDE DEF p
    <3>2. /\ v \in Workers /\ WorkerOk(p, v) /\ v.at = "opening" /\ v.mem = page.memory
          /\ v.ear = "role" /\ v.inbox = <<>> /\ v.outbox = <<>>
      BY <3>1, CreatedIsOk
    <3> QED
      BY <2>1, <3>2
  <2>5. /\ worker' \in [Worker -> Workers] /\ worker'[p] = v
        /\ \A y \in Worker : y # p => worker'[y] = worker[y]
    BY <1>1, <1>3, <2>2, <2>4 DEF Created
  <2> HIDE DEF v
  <2>6. /\ page' \in Pages /\ page'.load = page.load /\ page'.memory = page.memory
        /\ page'.upload = page.upload /\ page'.chain = "none" /\ page'.running = page.running
        /\ page'.matches = page.matches /\ page'.remaining = page.remaining
        /\ page'.playback = p /\ page'.prefetch = page.prefetch
    BY <1>1, <1>3, <2>2 DEF Pages
  <2> HIDE DEF p
  <2>7. TypeInv'
    BY <1>1, <1>3, <2>5, <2>6 DEF TypeInv
  <2>8. WorkersOk'
    BY <1>1, <2>4, <2>5 DEF WorkersOk
  <2>9. PageOk'
    BY <1>1, <1>3, <2>1, <2>2, <2>6 DEF PageOk, p
  <2>10. NamesOk'
    <3>1. Live(worker', p) /\ worker'[p].ear = "role" /\ worker'[p].mem = page.load
      BY <2>4, <2>5 DEF Live
    <3>2. page.prefetch # None => page.prefetch \in Worker /\ page.prefetch # p
      BY <1>1, <2>2, Names DEF NamesOk, Pages, Loader, Prefetch
    <3>3. page.prefetch # None =>
            /\ Live(worker', page.prefetch) /\ worker'[page.prefetch].ear = "role"
            /\ page.prefetch[2] = Prefetch
            /\ worker'[page.prefetch].mem # page.prefetch[1] \/ page.prefetch[1] = page.memory
      BY <1>1, <2>5, <3>2 DEF NamesOk, Live, Late
    <3>4. \A x \in Worker : worker'[x].at # "none" \/ x \in timers =>
                              x[1] <= page.load /\ (x[2] \in Reader => x[2] <= browser.readers)
      <4>1. p[1] <= page.load /\ p[2] \notin Reader
        BY <1>1, <2>2, Names DEF Pages
      <4> QED
        BY <1>1, <2>5, <4>1 DEF NamesOk
    <3>5. \A x \in Worker : x[2] = Loader /\ Live(worker', x) /\ worker'[x].ear = "role" => x = p
      BY <1>1, <2>1, <2>5, Names DEF NamesOk, Live
    <3> QED
      BY <1>3, <2>6, <3>1, <3>3, <3>4, <3>5 DEF NamesOk, Late
  <2>11. TimersOk'
    <3>1. \A x \in Worker : x[2] # Loader => worker'[x] = worker[x]
      BY <2>2, <2>5
    <3>2. \A x \in timers : x \in Worker
      BY <1>1 DEF TypeInv
    <3>3. \A x \in timers : x[2] # Loader /\ worker'[x].at = "none"
      BY <1>1, <3>1, <3>2 DEF TimersOk
    <3>4. \A x \in Worker : x[2] # Loader /\ worker'[x].at # "none" =>
             \A y \in timers : ~(y[1] <= x[1] /\ y[2] <= x[2])
      BY <1>1, <3>1 DEF TimersOk
    <3>5. page.memory # NoMemory /\ page.matches = "none" =>
             \A x \in Worker : x[1] = page.load /\ x[2] # Loader => worker'[x].at = "none" /\ x \notin timers
      BY <1>1, <3>1 DEF TimersOk
    <3> QED
      BY <1>3, <2>1, <2>6, <3>3, <3>4, <3>5 DEF TimersOk
  <2>12. HandlesOk'
    <3>1. \A x \in Worker : x[2] \notin Reader /\ Live(worker', x) =>
            \/ worker'[x].mem # x[1] \/ x \in ghost.dropped \/ x \in waits \/ x \in {p, page.prefetch}
      BY <1>1, <2>1, <2>5, Names DEF HandlesOk, Live, Late
    <3>2. \A x \in waits : x \in Worker /\ x # p
      BY <1>1, <2>3 DEF HandlesOk, TypeInv
    <3>3. \A x \in waits : worker'[x].at = "gone"
      BY <2>1, <2>5, <3>2
    <3> QED
      BY <1>3, <2>6, <3>1, <3>3 DEF HandlesOk, Live, Late
  <2>13. LoadingOk' /\ CountOk'
    <3>1. LoaderOk(v, "none") /\ CombineOk(v, "none", 0)
      BY <2>4, HasEmpty DEF LoaderOk, CombineOk, Ready, Fed, Loaded, Told, Finished
    <3> QED
      BY <1>3, <2>1, <2>5, <2>6, <3>1 DEF LoadingOk, CountOk
  <2> QED
    BY <2>7, <2>8, <2>9, <2>10, <2>11, <2>12, <2>13 DEF IInv
<1> QED
  BY <1>2, <1>3 DEF StartLoader

\* Nothing that CountOk is about has changed for the worse.
LEMMA CountSame ==
    ASSUME IInv, browser' = browser, slots' = slots, ghost' = ghost,
           page'.load = page.load, page'.playback = page.playback, page'.running = page.running,
           page'.matches = page.matches, page'.remaining = page.remaining,
           page.playback # None => worker'[page.playback] = worker[page.playback],
           \A y \in Worker : y[2] \in Reader => (Reported(y)' <=> Reported(y))
    PROVE  CountOk'
<1>1. TypeInv /\ PageOk /\ CountOk
  BY DEF IInv
<1> SUFFICES ASSUME page.playback # None, ~ghost.stray PROVE CountOk'
  BY DEF CountOk
<1>2. Silent' = Silent
  <2>1. page.load \in Load
    BY <1>1 DEF PageOk, TypeInv, Pages, Worker, Loader
  <2>2. \A k \in 1 .. browser.readers : <<page.load, k>> \in Worker /\ <<page.load, k>>[2] \in Reader
    BY <1>1, <2>1, Names DEF TypeInv
  <2>3. \A k \in 1 .. browser.readers : Reported(<<page.load, k>>)' <=> Reported(<<page.load, k>>)
    BY <2>2
  <2> QED
    BY <2>3 DEF Silent, Reported
<1> QED
  BY <1>1, <1>2 DEF CountOk

LEMMA TimerFiresKeeps == ASSUME IInv, NEW x \in Worker, TimerFires(x) PROVE IInv'
<1> DEFINE v == [Absent EXCEPT !.at = "opening", !.mem = page.memory]
<1>1. /\ TypeInv /\ WorkersOk /\ PageOk /\ NamesOk /\ TimersOk /\ HandlesOk /\ LoadingOk
      /\ page \in Pages /\ ghost \in Ghosts /\ worker \in [Worker -> Workers]
      /\ timers \subseteq Worker
  BY DEF IInv, TypeInv
<1>2. /\ x \in timers /\ timers' = timers \ {x}
      /\ \A y \in timers : y[1] <= x[1] /\ y[2] <= x[2] => y = x
      /\ page' = IF x[2] = Prefetch THEN [page EXCEPT !.prefetch = x] ELSE page
      /\ waits' = waits /\ browser' = browser /\ slots' = slots
      /\ mishaps' = mishaps /\ ghost' = ghost
      /\ worker' = [worker EXCEPT ![x] = v]
  BY DEF TimerFires, Created
<1>3. /\ v \in Workers /\ WorkerOk(x, v) /\ v.at = "opening" /\ v.mem = page.memory
      /\ v.ear = "role" /\ v.inbox = <<>> /\ v.outbox = <<>>
  BY <1>1, CreatedIsOk DEF Pages
<1> HIDE DEF v
<1>4. /\ worker' \in [Worker -> Workers] /\ worker'[x] = v
      /\ \A y \in Worker : y # x => worker'[y] = worker[y]
  BY <1>1, <1>2, <1>3
<1>5. worker[x].at = "none" /\ worker[x].ear = "role" /\ x[2] # Loader /\ x # None
  <2>1. worker[x].at = "none" /\ x[2] # Loader
    BY <1>1, <1>2 DEF TimersOk
  <2>2. worker[x] = Absent
    BY <1>1, <2>1 DEF WorkersOk, WorkerOk, LifeOk
  <2> QED
    BY <2>1, <2>2, Names DEF Absent
<1>6. /\ page' \in Pages /\ page'.load = page.load /\ page'.memory = page.memory
      /\ page'.upload = page.upload /\ page'.chain = page.chain /\ page'.running = page.running
      /\ page'.matches = page.matches /\ page'.remaining = page.remaining
      /\ page'.playback = page.playback
      /\ page'.prefetch = IF x[2] = Prefetch THEN x ELSE page.prefetch
  BY <1>1, <1>2 DEF Pages
<1>7. page.playback # None => page.playback \in Worker /\ page.playback # x
  BY <1>1, <1>5 DEF NamesOk, Live, Pages
<1>8. page.prefetch # None => page.prefetch \in Worker /\ page.prefetch # x
  BY <1>1, <1>5 DEF NamesOk, Live, Pages
<1>9. TypeInv' /\ WorkersOk' /\ PageOk'
  <2>1. TypeInv'
    BY <1>1, <1>2, <1>4, <1>6 DEF TypeInv
  <2>2. WorkersOk'
    BY <1>1, <1>3, <1>4 DEF WorkersOk
  <2>3. PageOk'
    BY <1>1, <1>2, <1>6 DEF PageOk
  <2> QED
    BY <2>1, <2>2, <2>3
<1>10. NamesOk'
  <2>1. page.playback # None => /\ Live(worker', page.playback) /\ worker'[page.playback].ear = "role"
                                /\ worker'[page.playback].mem = page.load
    BY <1>1, <1>4, <1>7 DEF NamesOk, Live
  <2>2. page'.prefetch # None =>
            /\ Live(worker', page'.prefetch) /\ worker'[page'.prefetch].ear = "role"
            /\ page'.prefetch[2] = Prefetch
            /\ \/ worker'[page'.prefetch].mem # page'.prefetch[1]
               \/ page'.prefetch[1] = page.memory
    <3>1. CASE x[2] = Prefetch
      BY <1>3, <1>4, <1>6, <3>1 DEF Live
    <3>2. CASE x[2] # Prefetch
      BY <1>1, <1>4, <1>6, <1>8, <3>2 DEF NamesOk, Live, Late
    <3> QED
      BY <3>1, <3>2
  <2>3. \A y \in Worker : worker'[y].at # "none" \/ y \in timers' =>
                             y[1] <= page.load /\ (y[2] \in Reader => y[2] <= browser.readers)
    BY <1>1, <1>2, <1>4 DEF NamesOk
  <2>4. page.chain = "waiting" => worker'[<<page.load, Loader>>].at = "none"
    <3>1. page.chain = "waiting" => page.load \in Load
      BY <1>1 DEF PageOk, Pages
    <3>2. page.chain = "waiting" => <<page.load, Loader>> \in Worker /\ <<page.load, Loader>> # x
      BY <1>5, <3>1, Names
    <3> QED
      BY <1>1, <1>4, <3>2 DEF NamesOk
  <2>5. \A y \in Worker : y[2] = Loader /\ Live(worker', y) /\ worker'[y].ear = "role" => y = page.playback
    BY <1>1, <1>4, <1>5 DEF NamesOk, Live
  <2> QED
    BY <1>2, <1>6, <2>1, <2>2, <2>3, <2>4, <2>5 DEF NamesOk, Late
<1>11. TimersOk'
  <2>1. \A y \in timers' : y[2] # Loader /\ worker'[y].at = "none"
    BY <1>1, <1>2, <1>4 DEF TimersOk
  <2>2. \A y \in Worker : y[2] # Loader /\ worker'[y].at # "none" =>
           \A z \in timers' : ~(z[1] <= y[1] /\ z[2] <= y[2])
    BY <1>1, <1>2, <1>4 DEF TimersOk
  <2>3. page.memory # NoMemory /\ page.matches = "none" =>
          \A y \in Worker : y[1] = page.load /\ y[2] # Loader => worker'[y].at = "none" /\ y \notin timers'
    BY <1>1, <1>2, <1>4 DEF TimersOk
  <2>4. page.matches = "empty" =>
          \A y \in Worker : y[1] = page.load /\ y[2] \in Reader => worker'[y].at = "none" /\ y \notin timers'
    BY <1>1, <1>2, <1>4 DEF TimersOk
  <2> QED
    BY <1>6, <2>1, <2>2, <2>3, <2>4 DEF TimersOk
<1>12. HandlesOk'
  <2>1. ASSUME NEW y \in Worker, y[2] \notin Reader, Live(worker', y), y # x
        PROVE  \/ Late(y) \/ y \in ghost.dropped \/ y \in waits
               \/ y \in {page'.playback, page'.prefetch}
    <3>1. Live(worker, y)
      BY <1>4, <2>1 DEF Live
    <3>2. \/ Late(y) \/ y \in ghost.dropped \/ y \in waits
          \/ y \in {page.playback, page.prefetch}
      BY <1>1, <2>1, <3>1 DEF HandlesOk
    <3>3. CASE y = page.prefetch /\ x[2] = Prefetch
      <4>1. y[2] = Prefetch /\ (Late(y) \/ y[1] = page.memory)
        BY <1>1, <3>3, Names DEF NamesOk
      <4>2. ~(x[1] <= y[1] /\ x[2] <= y[2])
        BY <1>1, <1>2, <3>1, <4>1 DEF TimersOk, Live, Prefetch, Loader
      <4>3. x[1] <= page.load /\ y[1] # NoMemory
        BY <1>1, <1>2, Names DEF NamesOk, NoMemory
      <4>4. y[1] # page.memory
        BY <1>1, <3>3, <4>1, <4>2, <4>3 DEF PageOk, Prefetch
      <4> QED
        BY <4>1, <4>4
    <3> QED
      BY <1>6, <3>2, <3>3
  <2>2. x[2] \notin Reader => x = page'.prefetch
    BY <1>5, <1>6, Names
  <2>3. \A y \in waits : y \in Worker /\ y # x
    BY <1>1, <1>5 DEF HandlesOk, TypeInv
  <2>4. \A y \in waits : worker'[y].at # "none" /\ (Live(worker', y) => worker'[y].ear = "closing")
    BY <1>1, <1>4, <2>3 DEF HandlesOk, Live
  <2>5. page.playback # None /\ worker'[page.playback].at = "opening" =>
           \A y \in waits : worker'[y].at = "gone"
    BY <1>1, <1>4, <1>7, <2>3 DEF HandlesOk
  <2>6. \A y \in Worker : y # x => (Late(y)' <=> Late(y))
    BY <1>4 DEF Late
  <2> QED
    BY <1>2, <1>6, <2>1, <2>2, <2>4, <2>5, <2>6 DEF HandlesOk
<1>13. LoadingOk'
  BY <1>1, <1>4, <1>6, <1>7 DEF LoadingOk
<1>14. CountOk'
  <2>1. \A y \in Worker : Reported(y)' <=> Reported(y)
    BY <1>3, <1>4, <1>5 DEF Reported
  <2> QED
    BY <1>2, <1>4, <1>6, <1>7, <2>1, CountSame
<1> QED
  BY <1>9, <1>10, <1>11, <1>12, <1>13, <1>14 DEF IInv

-----------------------------------------------------------------------------
(* The page: messages it only answers, or ignores.                         *)

LEMMA HeardTurned ==
    ASSUME NEW x \in Worker, NEW w \in Workers, WorkerOk(x, w), w.outbox # <<>>
    PROVE  Alive(w) /\ Turned(x, w, Heard(w))
<1> DEFINE v == Heard(w)
<1>1. /\ v \in Workers /\ WorkerOk(x, v) /\ Head(w.outbox) \in ToPage
      /\ v.at = w.at /\ v.mem = w.mem /\ v.ear = w.ear /\ v.inbox = w.inbox
      /\ \A M : Has(w.outbox, M) <=> Head(w.outbox) \in M \/ Has(v.outbox, M)
      /\ \A M : Once(w.outbox, M) => Once(v.outbox, M)
  BY HeardIsOk
<1>2. Alive(w)
  BY DEF Alive, WorkerOk, LifeOk, Absent
<1> HIDE DEF v
<1>3. \A m : LoaderOk(w, m) => LoaderOk(v, m)
  BY <1>1 DEF LoaderOk, Ready, Fed, Loaded
<1>4. \A m, f : CombineOk(w, m, f) => CombineOk(v, m, f)
  BY <1>1 DEF CombineOk, Told, Finished
<1>5. Told(v) \/ Finished(v) => Told(w) \/ Finished(w)
  BY <1>1 DEF Told, Finished
<1>6. Turned(x, w, v)
  BY <1>1, <1>2, <1>3, <1>4, <1>5 DEF Turned, Alive
<1> QED
  BY <1>2, <1>6 DEF v

LEMMA AnsweredTurned ==
    ASSUME NEW x \in Worker, NEW w \in Workers, WorkerOk(x, w), w.outbox # <<>>, w.ear = "role",
           Head(w.outbox) = "ready", NEW m \in {"load", "computeBounds"},
           m = "load" => x[2] = Loader, m = "computeBounds" => x[2] \in Reader,
           x[2] = Loader => \E matches : LoaderOk(w, matches)
    PROVE  LET v == SentTo(Heard(w), m)
           IN  v \in Workers /\ WorkerOk(x, v) /\ Turned(x, w, v) /\ (Finished(v) => Finished(w))
<1> DEFINE u == Heard(w)
           v == SentTo(u, m)
<1>1. /\ u \in Workers /\ WorkerOk(x, u)
      /\ u.at = w.at /\ u.mem = w.mem /\ u.ear = w.ear /\ u.inbox = w.inbox
      /\ \A M : Has(w.outbox, M) <=> "ready" \in M \/ Has(u.outbox, M)
      /\ \A M : Once(w.outbox, M) => Once(u.outbox, M) /\ ("ready" \in M => ~Has(u.outbox, M))
  BY HeardIsOk
<1>2. Alive(w) /\ Turned(x, w, u)
  BY HeardTurned
<1> HIDE DEF u
<1>3. x[2] # Prefetch /\ (x[2] = Loader => x[2] \notin Reader /\ m = "load")
  BY Names DEF Loader, Prefetch
<1>4. x[2] \in Reader => /\ u.at \notin {"opening", "failed"} /\ ~Asked(u) /\ ~Ready(u) /\ ~Answered(u)
  BY <1>1 DEF WorkerOk, ReaderOk, Asked, Ready, Answered
<1>5. /\ v \in Workers /\ WorkerOk(x, v) /\ v.at = u.at /\ v.mem = u.mem /\ v.ear = u.ear
      /\ v.outbox = u.outbox
      /\ \A M : Has(v.inbox, M) <=> Has(u.inbox, M) \/ m \in M
      /\ \A M : Once(u.inbox, M) /\ (m \in M => ~Has(u.inbox, M)) => Once(v.inbox, M)
  <2>1. /\ Alive(u) /\ m \in ToWorker \ {"shutdown"} /\ (x[2] = Loader => m # "computeBounds")
        /\ x[2] \in Reader => m = "computeBounds" /\ u.ear = "role"
    BY <1>1, <1>2, <1>3 DEF Alive, ToWorker
  <2> QED
    BY <1>1, <1>3, <1>4, <2>1, SentIsOk
<1> HIDE DEF v
<1>6. ASSUME x[2] = Loader, NEW n, LoaderOk(w, n) PROVE LoaderOk(v, n)
  <2>1. /\ ~Fed(w) /\ w.at \notin {"opening", "streaming"} /\ ~Loaded(w) /\ n = "none"
    BY <1>1, <1>6 DEF LoaderOk, Ready
  <2>2. /\ ~Ready(v) /\ ~Loaded(v)
    BY <1>1, <1>5, <1>6, <2>1 DEF LoaderOk, Ready, Loaded
  <2>3. Once(v.inbox, {"load"})
    BY <1>1, <1>5, <1>6, <2>1 DEF LoaderOk, Fed
  <2>4. Once(v.outbox, {"ready"}) /\ Once(v.outbox, {"loaded", "loadedEmpty"})
    BY <1>1, <1>5, <1>6 DEF LoaderOk
  <2> QED
    BY <1>1, <1>5, <2>1, <2>2, <2>3, <2>4 DEF LoaderOk
<1>7. ASSUME NEW n, NEW f, CombineOk(w, n, f) PROVE CombineOk(v, n, f)
  BY <1>1, <1>5, <1>7 DEF CombineOk, Told, Finished
<1>8. /\ Told(v) => Told(w)
      /\ Finished(v) => Finished(w)
  BY <1>1, <1>5 DEF Told, Finished
<1>9. Turned(x, w, v)
  BY <1>1, <1>2, <1>5, <1>6, <1>7, <1>8 DEF Turned, Alive
<1> QED
  BY <1>5, <1>8, <1>9 DEF v, u

\* Who speaks for the loader, and what is left of a worker's messages.
LEMMA Speaker ==
    ASSUME IInv, NEW x \in Worker, worker[x].outbox # <<>>, worker[x].ear = "role", x[2] = Loader
    PROVE  x = page.playback /\ page.playback # None /\ LoaderOk(worker[x], page.matches)
<1>1. worker[x] \in Workers /\ WorkerOk(x, worker[x]) /\ NamesOk /\ LoadingOk
  BY DEF IInv, TypeInv, WorkersOk
<1>2. Live(worker, x)
  BY <1>1 DEF WorkerOk, LifeOk, Absent, Live
<1>3. x = page.playback /\ x # None
  BY <1>1, <1>2, Names DEF NamesOk
<1> QED
  BY <1>1, <1>3 DEF LoadingOk

LEMMA AnswerKeeps ==
    ASSUME IInv, NEW x \in Worker, worker[x].outbox # <<>>, worker[x].ear = "role",
           Head(worker[x].outbox) = "ready", NEW m \in {"load", "computeBounds"},
           m = "load" => x[2] = Loader, m = "computeBounds" => x[2] \in Reader,
           worker' = Sent([worker EXCEPT ![x].outbox = Tail(@)], x, m),
           UNCHANGED <<page, timers, waits, browser, slots, mishaps, ghost>>
    PROVE  IInv'
<1> DEFINE w == worker[x]
           v == SentTo(Heard(w), m)
<1>1. worker \in [Worker -> Workers] /\ w \in Workers /\ WorkerOk(x, w) /\ mishaps' \in Nat
  BY DEF IInv, TypeInv, WorkersOk
<1>2. worker' = [worker EXCEPT ![x] = v]
  BY <1>1 DEF Sent, SentTo, Heard, Workers
<1>3. x[2] = Loader => \E matches : LoaderOk(w, matches)
  BY Speaker
<1>4. v \in Workers /\ WorkerOk(x, v) /\ Turned(x, w, v) /\ (Finished(v) => Finished(w))
  BY <1>1, <1>3, AnsweredTurned
<1> HIDE DEF v
<1>5. Turns(x, v)
  BY <1>2, <1>4 DEF Turns
<1> QED
  BY <1>1, <1>4, <1>5, QuietTurnKeeps

LEMMA IgnoredKeeps ==
    ASSUME IInv, NEW x \in Worker, worker[x].outbox # <<>>,
           worker' = [worker EXCEPT ![x].outbox = Tail(@)],
           UNCHANGED <<page, timers, waits, browser, slots, mishaps, ghost>>
    PROVE  IInv'
<1> DEFINE w == worker[x]
           v == Heard(w)
<1>1. worker \in [Worker -> Workers] /\ w \in Workers /\ WorkerOk(x, w) /\ mishaps' \in Nat
  BY DEF IInv, TypeInv, WorkersOk
<1>2. worker' = [worker EXCEPT ![x] = v]
  BY <1>1 DEF Heard, Workers
<1>3. /\ v \in Workers /\ WorkerOk(x, v)
      /\ \A M : Has(w.outbox, M) <=> Head(w.outbox) \in M \/ Has(v.outbox, M)
  BY <1>1, HeardIsOk
<1>4. Turned(x, w, v)
  BY <1>1, HeardTurned
<1> HIDE DEF v
<1>5. Turns(x, v) /\ (Finished(v) => Finished(w))
  BY <1>2, <1>3, <1>4 DEF Turns, Finished
<1> QED
  BY <1>1, <1>5, QuietTurnKeeps

LEMMA FailedLoadKeeps ==
    ASSUME IInv, NEW x \in Worker, worker[x].outbox # <<>>,
           Reset([worker EXCEPT ![x].outbox = Tail(@)]), UNCHANGED <<browser, mishaps>>
    PROVE  IInv'
<1> DEFINE w == worker[x]
           v == Heard(w)
           ws == [worker EXCEPT ![x] = v]
<1>1. worker \in [Worker -> Workers] /\ w \in Workers /\ WorkersOk /\ mishaps' \in Nat /\ WorkerOk(x, w)
  BY DEF IInv, TypeInv, WorkersOk
<1>2. ws = [worker EXCEPT ![x].outbox = Tail(@)]
  BY <1>1 DEF Heard, Workers
<1>3. v \in Workers /\ WorkerOk(x, v) /\ Alike(w, v)
  BY <1>1, HeardIsOk DEF Alike
<1> HIDE DEF v
<1>4. /\ ws \in [Worker -> Workers] /\ \A y \in Worker : WorkerOk(y, ws[y]) /\ Alike(worker[y], ws[y])
  BY <1>1, <1>3 DEF WorkersOk, Alike
<1>5. Reset(ws)
  BY <1>2
<1> HIDE DEF ws
<1> QED
  BY <1>1, <1>4, <1>5, ResetKeeps

-----------------------------------------------------------------------------
(* The page: messages that move the load on.                               *)

\* While workers stay as far as they are, and no reader's end is a loader's.
LEMMA Steady ==
    ASSUME IInv, worker' \in [Worker -> Workers],
           \A y \in Worker : /\ worker'[y].at = worker[y].at /\ worker'[y].mem = worker[y].mem
                             /\ \/ worker'[y].ear = worker[y].ear
                                \/ y[2] \in Reader /\ worker'[y].ear = "closing",
           page'.load = page.load, page'.memory = page.memory, page'.chain = page.chain,
           page'.playback = page.playback, page'.prefetch = page.prefetch,
           \A y \in timers' \ timers : y[1] = page.load /\ (y[2] \in Reader => y[2] <= browser.readers),
           waits' = waits, browser' = browser, ghost'.dropped = ghost.dropped
    PROVE  NamesOk' /\ HandlesOk'
<1>1. TypeInv /\ PageOk /\ NamesOk /\ HandlesOk /\ page \in Pages /\ waits \subseteq Worker
  BY DEF IInv, TypeInv
<1>2. /\ page.playback # None => page.playback \in Worker /\ page.playback[2] \notin Reader
      /\ page.prefetch # None => page.prefetch \in Worker /\ page.prefetch[2] \notin Reader
  <2>1. page.playback # None => page.playback[2] = Loader
    BY <1>1 DEF PageOk
  <2>2. page.prefetch # None => page.prefetch[2] = Prefetch
    BY <1>1 DEF NamesOk
  <2> QED
    BY <1>1, <2>1, <2>2, Names DEF Pages
<1>3. NamesOk'
  <2>1. page.playback # None => /\ Live(worker', page.playback) /\ worker'[page.playback].ear = "role"
                                /\ worker'[page.playback].mem = page.load
    BY <1>1, <1>2 DEF NamesOk, Live
  <2>2. page.prefetch # None => /\ Live(worker', page.prefetch) /\ worker'[page.prefetch].ear = "role"
                                /\ page.prefetch[2] = Prefetch
                                /\ worker'[page.prefetch].mem # page.prefetch[1] \/ page.prefetch[1] = page.memory
    BY <1>1, <1>2 DEF NamesOk, Live, Late
  <2>3. \A y \in Worker : worker'[y].at # "none" \/ y \in timers' =>
                             y[1] <= page.load /\ (y[2] \in Reader => y[2] <= browser.readers)
    <3> SUFFICES ASSUME NEW y \in Worker, worker'[y].at # "none" \/ y \in timers'
                 PROVE  y[1] <= page.load /\ (y[2] \in Reader => y[2] <= browser.readers)
      OBVIOUS
    <3>1. CASE worker[y].at # "none" \/ y \in timers
      BY <1>1, <3>1 DEF NamesOk
    <3>2. CASE y \in timers' \ timers
      BY <1>1, <3>2 DEF Pages
    <3> QED
      BY <3>1, <3>2
  <2>4. page.chain = "waiting" => worker'[<<page.load, Loader>>].at = "none"
    <3>1. page.chain = "waiting" => page.load \in Load
      BY <1>1 DEF PageOk, Pages
    <3>2. page.chain = "waiting" => <<page.load, Loader>> \in Worker
      BY <3>1, Names
    <3> QED
      BY <1>1, <3>2 DEF NamesOk
  <2>5. \A y \in Worker : y[2] = Loader /\ Live(worker', y) /\ worker'[y].ear = "role" => y = page.playback
    BY <1>1, Names DEF NamesOk, Live
  <2> QED
    BY <2>1, <2>2, <2>3, <2>4, <2>5 DEF NamesOk, Late
<1>4. HandlesOk'
  <2>1. \A y \in Worker : y[2] \notin Reader /\ Live(worker', y) =>
           \/ worker'[y].mem # y[1] \/ y \in ghost.dropped \/ y \in waits
           \/ y \in {page.playback, page.prefetch}
    BY <1>1 DEF HandlesOk, Late, Live
  <2>2. \A y \in waits : worker'[y].at # "none" /\ (Live(worker', y) => worker'[y].ear = "closing")
    BY <1>1 DEF HandlesOk, Live
  <2>3. page.playback # None /\ worker'[page.playback].at = "opening" =>
           \A y \in waits : worker'[y].at = "gone"
    BY <1>1, <1>2 DEF HandlesOk
  <2> QED
    BY <2>1, <2>2, <2>3 DEF HandlesOk, Late
<1> QED
  BY <1>3, <1>4

LEMMA LoadedKeeps ==
    ASSUME IInv, NEW x \in Worker, worker[x].outbox # <<>>, worker[x].ear = "role", x[2] = Loader,
           Head(worker[x].outbox) \in {"loaded", "loadedEmpty"}, NEW matches \in {"some", "empty"},
           OnLoaded([worker EXCEPT ![x].outbox = Tail(@)], matches), UNCHANGED <<browser, mishaps>>
    PROVE  IInv'
<1> DEFINE w == worker[x]
           v == Heard(w)
           fresh == {<<page.load, Prefetch>>}
                      \cup (IF matches = "some" THEN {<<page.load, k>> : k \in 1 .. browser.readers} ELSE {})
<1>1. /\ TypeInv /\ WorkersOk /\ PageOk /\ NamesOk /\ TimersOk /\ CountOk
      /\ worker \in [Worker -> Workers] /\ w \in Workers /\ WorkerOk(x, w)
      /\ page \in Pages /\ ghost \in Ghosts /\ timers \subseteq Worker
  BY DEF IInv, TypeInv, WorkersOk
<1>2. x = page.playback /\ page.playback # None /\ LoaderOk(w, page.matches)
  BY Speaker
<1>3. /\ worker' = [worker EXCEPT ![x] = v] /\ timers' = timers \cup fresh
      /\ matches = "some" => /\ page' = [page EXCEPT !.matches = matches, !.remaining = browser.readers]
                             /\ ghost' = ghost
      /\ matches = "empty" => /\ page' = [page EXCEPT !.matches = matches, !.running = TRUE]
                              /\ ghost' = [ghost EXCEPT !.finished = @ + 1]
      /\ waits' = waits /\ slots' = slots /\ browser' = browser /\ mishaps' = mishaps
  BY <1>1 DEF OnLoaded, Finish, Heard, Workers, Pages
<1>4. /\ v \in Workers /\ WorkerOk(x, v) /\ v.at = w.at /\ v.mem = w.mem /\ v.ear = w.ear
      /\ v.inbox = w.inbox
      /\ \A M : Has(w.outbox, M) <=> Head(w.outbox) \in M \/ Has(v.outbox, M)
      /\ \A M : Once(w.outbox, M) =>
            Once(v.outbox, M) /\ (Head(w.outbox) \in M => ~Has(v.outbox, M))
  BY <1>1, HeardIsOk
<1> HIDE DEF v, fresh
<1>5. /\ worker' \in [Worker -> Workers] /\ worker'[x] = v
      /\ \A y \in Worker : y # x => worker'[y] = worker[y]
  BY <1>1, <1>3, <1>4
<1>6. /\ page.matches = "none" /\ page.load \in Load /\ page.memory = page.load
      /\ page.memory # NoMemory /\ page.chain = "none" /\ ~page.upload
      /\ browser.readers \in ReaderCounts /\ page.load \in Nat
  <2>1. page.matches = "none"
    BY <1>2, <1>4 DEF LoaderOk, Loaded
  <2>2. page.load \in Load
    BY <1>1, <1>2, Names DEF PageOk, Loader
  <2> QED
    BY <1>1, <1>2, <2>1, <2>2, Names DEF PageOk, TypeInv, NoMemory, Pages
<1>7. /\ page' \in Pages /\ page'.load = page.load /\ page'.memory = page.memory
      /\ page'.upload = page.upload /\ page'.chain = page.chain
      /\ matches = "some" => page'.running = page.running
      /\ matches = "empty" => page'.running = TRUE
      /\ page'.matches = matches
      /\ page'.remaining = (IF matches = "some" THEN browser.readers ELSE page.remaining)
      /\ page'.playback = page.playback /\ page'.prefetch = page.prefetch
  <2>1. browser.readers \in Int
    BY <1>6, Names
  <2>2. CASE matches = "some"
    BY <1>1, <1>3, <2>1, <2>2 DEF Pages
  <2>3. CASE matches = "empty"
    BY <1>1, <1>3, <2>3 DEF Pages
  <2> QED
    BY <2>2, <2>3
<1>8. /\ ghost' \in Ghosts /\ ghost'.stray = ghost.stray /\ ghost'.dropped = ghost.dropped
      /\ ghost'.combined = ghost.combined
      /\ ghost'.finished = (IF matches = "some" THEN ghost.finished ELSE ghost.finished + 1)
  BY <1>1, <1>3 DEF Ghosts
<1>9. /\ \A z \in fresh : /\ z \in Worker /\ z[1] = page.load /\ z[2] # Loader
                          /\ z[2] \in Reader => z[2] <= browser.readers
      /\ matches = "empty" => \A z \in fresh : z[2] \notin Reader
  <2>1. LET z == <<page.load, Prefetch>>
        IN  z \in Worker /\ z[1] = page.load /\ z[2] # Loader /\ z[2] \notin Reader
    BY <1>6, Names DEF Loader, Prefetch
  <2>2. ASSUME NEW k \in 1 .. browser.readers
        PROVE  LET z == <<page.load, k>>
               IN  z \in Worker /\ z[1] = page.load /\ z[2] # Loader /\ z[2] <= browser.readers
    BY <1>6, Names DEF Loader
  <2> QED
    BY <2>1, <2>2 DEF fresh
<1>10. \A y \in Worker : y[1] = page.load /\ y[2] # Loader => worker[y].at = "none" /\ y \notin timers
  BY <1>1, <1>6 DEF TimersOk
<1>11. TypeInv' /\ WorkersOk' /\ PageOk'
  <2>1. TypeInv'
    BY <1>1, <1>3, <1>5, <1>7, <1>8, <1>9 DEF TypeInv
  <2>2. WorkersOk'
    BY <1>1, <1>4, <1>5 DEF WorkersOk
  <2>3. PageOk'
    <3>1. browser.readers <= browser.readers
      BY <1>6, Names
    <3> QED
      BY <1>1, <1>2, <1>3, <1>6, <1>7, <3>1 DEF PageOk
  <2> QED
    BY <2>1, <2>2, <2>3
<1>12. NamesOk' /\ HandlesOk'
  <2>1. \A y \in Worker : /\ worker'[y].at = worker[y].at /\ worker'[y].mem = worker[y].mem
                          /\ worker'[y].ear = worker[y].ear
    BY <1>4, <1>5
  <2>2. \A y \in timers' \ timers : y[1] = page.load /\ (y[2] \in Reader => y[2] <= browser.readers)
    BY <1>3, <1>9
  <2> QED
    BY <1>3, <1>5, <1>7, <1>8, <2>1, <2>2, Steady
<1>13. TimersOk'
  <2>1. \A y \in Worker : worker'[y].at = worker[y].at
    BY <1>4, <1>5
  <2>2. \A y \in timers' : y[2] # Loader /\ worker'[y].at = "none"
    BY <1>1, <1>3, <1>9, <1>10, <2>1 DEF TimersOk
  <2>3. ASSUME NEW y \in Worker, y[2] # Loader, worker'[y].at # "none", NEW z \in timers',
               z[1] <= y[1], z[2] <= y[2]
        PROVE  FALSE
    <3>1. CASE z \in timers
      BY <1>1, <2>1, <2>3, <3>1 DEF TimersOk
    <3>2. CASE z \in fresh
      <4>1. y[1] <= page.load /\ page.load <= y[1] /\ y[1] \in Nat
        BY <1>1, <1>9, <2>1, <2>3, <3>2, Names DEF NamesOk
      <4>2. y[1] = page.load
        BY <1>6, <4>1
      <4> QED
        BY <1>10, <2>1, <2>3, <4>2
    <3> QED
      BY <1>3, <3>1, <3>2
  <2>4. matches = "empty" =>
          \A y \in Worker : y[1] = page.load /\ y[2] \in Reader => worker'[y].at = "none" /\ y \notin timers'
    BY <1>3, <1>9, <1>10, <2>1, Names
  <2>5. page'.matches # "none"
    BY <1>7
  <2> QED
    BY <1>7, <2>2, <2>3, <2>4, <2>5 DEF TimersOk
<1>14. LoadingOk'
  <2>1. LoaderOk(v, matches)
    <3>1. ~Ready(w) /\ ~Fed(w) /\ w.at \notin {"opening", "streaming"}
      BY <1>2, <1>4 DEF LoaderOk, Loaded
    <3>2. ~Ready(v) /\ ~Fed(v) /\ ~Loaded(v)
      BY <1>2, <1>4, <3>1 DEF LoaderOk, Ready, Fed, Loaded
    <3>3. Once(v.outbox, {"ready"}) /\ Once(v.inbox, {"load"}) /\ Once(v.outbox, {"loaded", "loadedEmpty"})
      BY <1>2, <1>4 DEF LoaderOk
    <3> QED
      BY <1>4, <3>1, <3>2, <3>3 DEF LoaderOk
  <2> QED
    BY <1>2, <1>5, <1>7, <2>1 DEF LoadingOk
<1>15. CountOk'
  <2> SUFFICES ASSUME ~ghost.stray PROVE CountOk'
    BY <1>8 DEF CountOk
  <2>1. /\ CombineOk(w, "none", ghost.finished) /\ ~page.running
        /\ ghost.finished = 0 /\ ~Told(w) /\ ~Finished(w)
    <3>1. CombineOk(w, "none", ghost.finished) /\ (page.running => ghost.finished = 1)
      BY <1>1, <1>2, <1>6 DEF CountOk
    <3>2. page.running \in BOOLEAN
      BY <1>1 DEF Pages
    <3> QED
      BY <3>1, <3>2 DEF CombineOk
  <2>2. ~Told(v) /\ ~Finished(v)
    BY <1>4, <2>1 DEF Told, Finished
  <2>3. CombineOk(v, matches, ghost'.finished)
    <3>1. Once(v.inbox, {"combineBounds"}) /\ Once(v.outbox, {"boundsCombined"})
      BY <1>4, <2>1 DEF CombineOk
    <3>2. ghost'.finished = (IF matches = "some" THEN 0 ELSE 1)
      BY <1>8, <2>1
    <3> QED
      BY <2>2, <3>1, <3>2 DEF CombineOk
  <2>4. page'.running => ghost'.finished = 1
    <3>1. matches = "some" => ~page'.running
      BY <1>7, <2>1
    <3>2. matches = "empty" => ghost'.finished = 1
      BY <1>8, <2>1
    <3> QED
      BY <3>1, <3>2
  <2>5. ASSUME matches = "some" PROVE page'.remaining = Cardinality(Silent')
    <3>1. \A k \in 1 .. browser.readers : ~Reported(<<page.load, k>>)'
      <4> SUFFICES ASSUME NEW k \in 1 .. browser.readers PROVE ~Reported(<<page.load, k>>)'
        OBVIOUS
      <4> DEFINE y == <<page.load, k>>
      <4>1. y \in Worker /\ y[1] = page.load /\ y[2] # Loader
        BY <1>6, Names DEF Loader
      <4>2. worker[y].at = "none" /\ WorkerOk(y, worker[y]) /\ y # x
        BY <1>1, <1>10, <4>1 DEF WorkersOk
      <4>3. worker'[y] = Absent
        BY <1>5, <4>1, <4>2 DEF WorkerOk, LifeOk
      <4> QED
        BY <1>7, <4>3 DEF Reported, Absent
    <3>2. Silent' = 1 .. browser.readers
      BY <1>3, <1>7, <3>1 DEF Silent, Reported
    <3>3. Cardinality(1 .. browser.readers) = browser.readers
      <4> DEFINE n == browser.readers
      <4>1. n \in 1 .. 8
        BY <1>6, Names
      <4> HIDE DEF n
      <4>2. Cardinality(1 .. n) = IF 1 > n THEN 0 ELSE n - 1 + 1
        <5>1. 1 \in Int /\ n \in Int
          BY <4>1
        <5> QED
          BY <5>1, FS_Interval, Zenon
      <4>3. Cardinality(1 .. n) = n
        BY <4>1, <4>2
      <4> QED
        BY <4>3 DEF n
    <3> QED
      BY <1>7, <2>5, <3>2, <3>3
  <2>6. matches = "some" => ghost'.finished = 0
    BY <1>8, <2>1
  <2> QED
    BY <1>2, <1>5, <1>7, <2>2, <2>3, <2>4, <2>5, <2>6 DEF CountOk
<1> QED
  BY <1>11, <1>12, <1>13, <1>14, <1>15 DEF IInv

LEMMA BoundsCombinedKeeps ==
    ASSUME IInv, NEW x \in Worker, worker[x].outbox # <<>>, worker[x].ear = "role", x[2] = Loader,
           Head(worker[x].outbox) = "boundsCombined",
           worker' = [worker EXCEPT ![x].outbox = Tail(@)], Finish(page),
           UNCHANGED <<timers, waits, slots>>, UNCHANGED <<browser, mishaps>>
    PROVE  IInv'
<1> DEFINE w == worker[x]
           v == Heard(w)
<1>1. /\ TypeInv /\ WorkersOk /\ PageOk /\ NamesOk /\ TimersOk /\ CountOk
      /\ worker \in [Worker -> Workers] /\ w \in Workers /\ WorkerOk(x, w)
      /\ page \in Pages /\ ghost \in Ghosts /\ timers \subseteq Worker
  BY DEF IInv, TypeInv, WorkersOk
<1>2. x = page.playback /\ page.playback # None /\ LoaderOk(w, page.matches)
  BY Speaker
<1>3. /\ worker' = [worker EXCEPT ![x] = v] /\ timers' = timers
      /\ page' = [page EXCEPT !.running = TRUE]
      /\ ghost' = [ghost EXCEPT !.finished = @ + 1]
      /\ waits' = waits /\ slots' = slots /\ browser' = browser /\ mishaps' = mishaps
  BY <1>1 DEF Finish, Heard, Workers
<1>4. /\ v \in Workers /\ WorkerOk(x, v) /\ v.at = w.at /\ v.mem = w.mem /\ v.ear = w.ear
      /\ v.inbox = w.inbox
      /\ \A M : Has(w.outbox, M) <=> Head(w.outbox) \in M \/ Has(v.outbox, M)
      /\ \A M : Once(w.outbox, M) =>
            Once(v.outbox, M) /\ (Head(w.outbox) \in M => ~Has(v.outbox, M))
  BY <1>1, HeardIsOk
<1>5. Turned(x, w, v)
  BY <1>1, HeardTurned
<1> HIDE DEF v
<1>6. /\ worker' \in [Worker -> Workers] /\ worker'[x] = v
      /\ \A y \in Worker : y # x => worker'[y] = worker[y]
  BY <1>1, <1>3, <1>4
<1>7. /\ page' \in Pages /\ page'.load = page.load /\ page'.memory = page.memory
      /\ page'.upload = page.upload /\ page'.chain = page.chain /\ page'.running = TRUE
      /\ page'.matches = page.matches /\ page'.remaining = page.remaining
      /\ page'.playback = page.playback /\ page'.prefetch = page.prefetch
  BY <1>1, <1>3 DEF Pages
<1>8. /\ ghost' \in Ghosts /\ ghost'.stray = ghost.stray /\ ghost'.dropped = ghost.dropped
      /\ ghost'.combined = ghost.combined /\ ghost'.finished = ghost.finished + 1
  BY <1>1, <1>3 DEF Ghosts
<1>9. \A y \in Worker : /\ worker'[y].at = worker[y].at /\ worker'[y].mem = worker[y].mem
                        /\ worker'[y].ear = worker[y].ear
  BY <1>4, <1>6
<1>10. TypeInv' /\ WorkersOk' /\ PageOk'
  <2>1. TypeInv'
    BY <1>1, <1>3, <1>6, <1>7, <1>8 DEF TypeInv
  <2>2. WorkersOk'
    BY <1>1, <1>4, <1>6 DEF WorkersOk
  <2>3. PageOk'
    BY <1>1, <1>2, <1>3, <1>7 DEF PageOk
  <2> QED
    BY <2>1, <2>2, <2>3
<1>11. NamesOk' /\ HandlesOk'
  <2>1. timers' \ timers = {}
    BY <1>3
  <2> QED
    BY <1>3, <1>6, <1>7, <1>8, <1>9, <2>1, Steady
<1>12. TimersOk'
  BY <1>1, <1>3, <1>7, <1>9 DEF TimersOk
<1>13. LoadingOk'
  BY <1>2, <1>5, <1>6, <1>7 DEF LoadingOk, Turned
<1>14. CountOk'
  <2> SUFFICES ASSUME ~ghost.stray PROVE CountOk'
    BY <1>8 DEF CountOk
  <2>1. Finished(w)
    BY <1>4 DEF Finished
  <2>2. /\ CombineOk(w, page.matches, ghost.finished)
        /\ page.matches = "some" =>
              /\ page.remaining = Cardinality(Silent) /\ Silent = {}
              /\ \A k \in 1 .. browser.readers : k \in slots[page.load] => k \in ghost.combined
    BY <1>1, <1>2, <2>1 DEF CountOk
  <2>3. page.matches = "some" /\ ghost.finished = 0 /\ ~Told(w) /\ ~Finished(v) /\ ~Told(v)
    BY <1>1, <1>4, <2>1, <2>2 DEF CombineOk, Finished, Told, Pages
  <2>4. CombineOk(v, "some", 1)
    BY <1>4, <2>2, <2>3 DEF CombineOk
  <2>5. Silent' = Silent
    <3>1. \A y \in Worker : Reported(y)' <=> Reported(y)
      BY <1>9 DEF Reported
    <3>2. page.load \in Load
      BY <1>1, <1>2, Names DEF PageOk, Loader
    <3>3. \A k \in 1 .. browser.readers : <<page.load, k>> \in Worker
      BY <1>1, <3>2, Names DEF TypeInv
    <3>4. \A k \in 1 .. browser.readers : Reported(<<page.load, k>>)' <=> Reported(<<page.load, k>>)
      BY <1>7, <3>1, <3>3 DEF Reported
    <3> QED
      BY <1>3, <1>7, <3>4 DEF Silent, Reported
  <2> QED
    <3>1. ghost'.finished = 1
      BY <1>8, <2>3
    <3>2. page'.playback = x /\ page'.matches = "some" /\ worker'[x] = v /\ CombineOk(v, "some", 1)
      BY <1>2, <1>6, <1>7, <2>3, <2>4
    <3>3. page'.remaining = Cardinality(Silent') /\ Silent' = {}
      BY <1>7, <2>2, <2>3, <2>5
    <3>4. \A k \in 1 .. browser'.readers : k \in slots'[page'.load] => k \in ghost'.combined
      BY <1>3, <1>7, <1>8, <2>2, <2>3
    <3> QED
      BY <3>1, <3>2, <3>3, <3>4 DEF CountOk
<1> QED
  BY <1>10, <1>11, <1>12, <1>13, <1>14 DEF IInv

\* A reader reports, and is closed; the last report has the parts combined.
LEMMA ReportKeeps ==
    ASSUME IInv, NEW x \in Worker, worker[x].outbox # <<>>, worker[x].ear = "role", x[2] \in Reader,
           Head(worker[x].outbox) \in {"boundsReady", "error"},
           worker' = IF LastReport /\ page.playback # None
                     THEN Sent(Closing([worker EXCEPT ![x].outbox = Tail(@)], x), page.playback, "combineBounds")
                     ELSE Closing([worker EXCEPT ![x].outbox = Tail(@)], x),
           page' = [page EXCEPT !.remaining = @ - 1],
           ghost' = [ghost EXCEPT !.stray = @ \/ x[1] < page.load],
           UNCHANGED <<timers, waits, slots>>, UNCHANGED <<browser, mishaps>>
    PROVE  IInv'
<1> DEFINE w == worker[x]
           u == Heard(w)
           v == Closed(u)
           p == page.playback
           asks == LastReport /\ p # None
           pw == SentTo(worker[p], "combineBounds")
<1>1. /\ TypeInv /\ WorkersOk /\ PageOk /\ NamesOk /\ TimersOk /\ LoadingOk /\ CountOk
      /\ worker \in [Worker -> Workers] /\ w \in Workers /\ WorkerOk(x, w)
      /\ page \in Pages /\ ghost \in Ghosts /\ timers \subseteq Worker
  BY DEF IInv, TypeInv, WorkersOk
<1>2. /\ u \in Workers /\ WorkerOk(x, u) /\ u.at = w.at /\ u.mem = w.mem /\ u.ear = "role"
      /\ u.inbox = w.inbox
  BY <1>1, HeardIsOk
<1>3. Alive(w) /\ Answered(w) /\ ~Asked(u)
  <2>1. Answered(w)
    BY <1>1, HeardIsOk DEF Answered
  <2> QED
    BY <1>1, <1>2, <2>1, HeardTurned DEF WorkerOk, ReaderOk, Asked
<1>4. /\ v \in Workers /\ WorkerOk(x, v) /\ v.at = w.at /\ v.mem = w.mem /\ v.ear = "closing"
  <2> HIDE DEF u
  <2>1. Alive(u)
    BY <1>2, <1>3 DEF Alive
  <2> QED
    BY <1>2, <1>3, <2>1, ClosedIsOk
<1>5. Closing([worker EXCEPT ![x].outbox = Tail(@)], x) = [worker EXCEPT ![x] = v]
  <2>1. [worker EXCEPT ![x].outbox = Tail(@)] = [worker EXCEPT ![x] = u] /\ x # None
    BY <1>1, Names DEF Heard
  <2> HIDE DEF u
  <2>2. Closing([worker EXCEPT ![x] = u], x) = [worker EXCEPT ![x] = v]
    BY <1>1, <1>2, <2>1 DEF Closing, Closed
  <2> QED
    BY <2>1, <2>2
<1> HIDE DEF u, v
<1>6. p # None => /\ p \in Worker /\ p # x /\ p[2] = Loader /\ p[2] \notin Reader /\ Alive(worker[p])
                  /\ worker[p].ear = "role" /\ page.memory = page.load /\ page.load \in Load
                  /\ page.memory # NoMemory
                  /\ worker[p] \in Workers /\ WorkerOk(p, worker[p])
  BY <1>1, Names DEF PageOk, NamesOk, Pages, Live, Alive, WorkersOk, Loader, NoMemory
<1>7. p # None => /\ pw \in Workers /\ WorkerOk(p, pw) /\ pw.at = worker[p].at
                  /\ pw.mem = worker[p].mem /\ pw.ear = worker[p].ear
                  /\ pw.outbox = worker[p].outbox
                  /\ \A M : Has(pw.inbox, M) <=> Has(worker[p].inbox, M) \/ "combineBounds" \in M
                  /\ \A M : Once(worker[p].inbox, M) /\ ("combineBounds" \in M => ~Has(worker[p].inbox, M))
                                => Once(pw.inbox, M)
  <2> SUFFICES ASSUME p # None
               PROVE  /\ pw \in Workers /\ WorkerOk(p, pw) /\ pw.at = worker[p].at
                      /\ pw.mem = worker[p].mem /\ pw.ear = worker[p].ear
                      /\ pw.outbox = worker[p].outbox
                      /\ \A M : Has(pw.inbox, M) <=> Has(worker[p].inbox, M) \/ "combineBounds" \in M
                      /\ \A M : Once(worker[p].inbox, M) /\ ("combineBounds" \in M => ~Has(worker[p].inbox, M))
                                    => Once(pw.inbox, M)
    OBVIOUS
  <2>1. "combineBounds" \in ToWorker \ {"shutdown"} /\ p[2] # Prefetch
    BY <1>6 DEF ToWorker, Loader, Prefetch
  <2> QED
    BY <1>6, <2>1, SentIsOk
<1>8. /\ worker' \in [Worker -> Workers] /\ worker'[x] = v
      /\ asks => worker'[p] = pw
      /\ ~asks /\ p # None => worker'[p] = worker[p]
      /\ \A y \in Worker : y # x /\ y # p => worker'[y] = worker[y]
  <2> DEFINE ws == [worker EXCEPT ![x] = v]
  <2>1. /\ ws \in [Worker -> Workers] /\ ws[x] = v
        /\ \A y \in Worker : y # x => ws[y] = worker[y]
    BY <1>1, <1>4
  <2> HIDE DEF ws
  <2>2. worker' = IF asks THEN Sent(ws, p, "combineBounds") ELSE ws
    BY <1>5 DEF ws
  <2>3. CASE asks
    <3>1. worker' = [ws EXCEPT ![p] = pw]
      BY <1>6, <2>1, <2>2, <2>3 DEF Sent, SentTo
    <3> HIDE DEF pw
    <3> QED
      BY <1>4, <1>6, <1>7, <2>1, <2>3, <3>1
  <2>4. CASE ~asks
    BY <1>6, <2>1, <2>2, <2>4
  <2> QED
    BY <2>3, <2>4
<1> HIDE DEF pw
<1>9. /\ page' \in Pages /\ page'.load = page.load /\ page'.memory = page.memory
      /\ page'.upload = page.upload /\ page'.chain = page.chain /\ page'.running = page.running
      /\ page'.matches = page.matches /\ page'.remaining = page.remaining - 1
      /\ page'.playback = page.playback /\ page'.prefetch = page.prefetch
  <2>1. page.remaining - 1 \in Int
    BY <1>1 DEF Pages
  <2> QED
    BY <1>1, <2>1 DEF Pages
<1>10. /\ ghost' \in Ghosts /\ ghost'.dropped = ghost.dropped /\ ghost'.combined = ghost.combined
       /\ ghost'.finished = ghost.finished
       /\ ghost'.stray <=> ghost.stray \/ x[1] < page.load
  BY <1>1 DEF Ghosts
<1>11. /\ timers' = timers /\ waits' = waits /\ slots' = slots /\ browser' = browser /\ mishaps' = mishaps
  OBVIOUS
<1>12. \A y \in Worker : /\ worker'[y] \in Workers /\ WorkerOk(y, worker'[y])
                         /\ worker'[y].at = worker[y].at /\ worker'[y].mem = worker[y].mem
                         /\ worker'[y].ear = IF y = x THEN "closing" ELSE worker[y].ear
  <2> SUFFICES ASSUME NEW y \in Worker
               PROVE  /\ worker'[y] \in Workers /\ WorkerOk(y, worker'[y])
                      /\ worker'[y].at = worker[y].at /\ worker'[y].mem = worker[y].mem
                      /\ worker'[y].ear = IF y = x THEN "closing" ELSE worker[y].ear
    OBVIOUS
  <2>1. CASE y = x
    BY <1>4, <1>8, <2>1
  <2>2. CASE y # x /\ y = p
    <3>1. p # None
      BY <2>2, Names
    <3> QED
      BY <1>6, <1>7, <1>8, <2>2, <3>1
  <2>3. CASE y # x /\ y # p
    BY <1>1, <1>8, <2>3 DEF WorkersOk
  <2> QED
    BY <2>1, <2>2, <2>3
<1>13. TypeInv' /\ WorkersOk' /\ PageOk'
  <2>1. TypeInv'
    BY <1>1, <1>8, <1>9, <1>10, <1>11 DEF TypeInv
  <2>2. WorkersOk'
    BY <1>12 DEF WorkersOk
  <2>3. PageOk'
    <3>1. page.remaining - 1 <= browser.readers
      <4>1. browser.readers \in ReaderCounts /\ page.remaining \in Int /\ page.remaining <= browser.readers
        BY <1>1 DEF PageOk, TypeInv, Pages
      <4>2. browser.readers \in Int
        BY <4>1, Names
      <4> QED
        BY <4>1, <4>2
    <3> QED
      BY <1>1, <1>9, <1>10, <1>11, <3>1 DEF PageOk
  <2> QED
    BY <2>1, <2>2, <2>3
<1>14. NamesOk' /\ HandlesOk'
  <2>1. timers' \ timers = {}
    BY <1>11
  <2> QED
    BY <1>8, <1>9, <1>10, <1>11, <1>12, <2>1, Steady
<1>15. TimersOk'
  <2>1. \A y \in Worker : worker'[y].at = worker[y].at
    BY <1>12
  <2>2. \A y \in timers : y[2] # Loader /\ worker'[y].at = "none"
    BY <1>1, <2>1 DEF TimersOk
  <2>3. \A y \in Worker : y[2] # Loader /\ worker'[y].at # "none" =>
           \A z \in timers : ~(z[1] <= y[1] /\ z[2] <= y[2])
    BY <1>1, <2>1 DEF TimersOk
  <2>4. page.memory # NoMemory /\ page.matches = "none" =>
          \A y \in Worker : y[1] = page.load /\ y[2] # Loader => worker'[y].at = "none" /\ y \notin timers
    BY <1>1, <2>1 DEF TimersOk
  <2>5. page.matches = "empty" =>
          \A y \in Worker : y[1] = page.load /\ y[2] \in Reader => worker'[y].at = "none" /\ y \notin timers
    BY <1>1, <2>1 DEF TimersOk
  <2> QED
    BY <1>9, <1>11, <2>2, <2>3, <2>4, <2>5 DEF TimersOk
<1>16. LoadingOk'
  <2> SUFFICES ASSUME p # None PROVE LoaderOk(worker'[p], page.matches)
    BY <1>9 DEF LoadingOk
  <2>1. LoaderOk(worker[p], page.matches)
    BY <1>1 DEF LoadingOk
  <2>2. LoaderOk(pw, page.matches)
    BY <1>7, <2>1 DEF LoaderOk, Ready, Fed, Loaded
  <2> QED
    BY <1>8, <2>1, <2>2
<1>17. CountOk'
  <2> SUFFICES ASSUME p # None, ~ghost'.stray PROVE CountOk'
    BY <1>9 DEF CountOk
  <2> DEFINE k == x[2]
             old == worker[p]
  <2>1. ~ghost.stray /\ ~(x[1] < page.load)
    BY <1>10
  <2>2. x[1] = page.load /\ k \in 1 .. browser.readers /\ x = <<page.load, k>>
    <3>1. x[1] <= page.load /\ k <= browser.readers
      BY <1>1, <1>3 DEF NamesOk, Alive
    <3>2. x[1] \in Nat /\ page.load \in Nat /\ k \in 1 .. 8 /\ x = <<x[1], x[2]>>
      BY <1>1, Names DEF Pages
    <3> QED
      BY <2>1, <3>1, <3>2
  <2>3. k \in Silent
    BY <1>3, <2>2 DEF Silent, Reported, Alive
  <2>4. page.matches = "some"
    <3>1. worker[x].at # "none" /\ x[2] # Loader
      BY <1>3, Names DEF Alive
    <3> QED
      BY <1>1, <1>6, <2>2, <3>1 DEF TimersOk, Pages
  <2>5. /\ CombineOk(old, "some", ghost.finished)
        /\ page.running => ghost.finished = 1
        /\ page.remaining = Cardinality(Silent)
        /\ ~Told(old) /\ ~Finished(old) /\ ghost.finished = 0
    BY <1>1, <2>1, <2>3, <2>4 DEF CountOk
  <2>6. Silent' = Silent \ {k}
    <3>1. ASSUME NEW j \in 1 .. browser.readers
          PROVE  Reported(<<page.load, j>>)' <=> Reported(<<page.load, j>>) \/ j = k
      <4> DEFINE y == <<page.load, j>>
      <4>1. y \in Worker /\ y[2] = j
        BY <1>1, <1>6, Names DEF TypeInv
      <4>2. y = x <=> j = k
        BY <2>2, <4>1
      <4>3. Reported(y)' <=> Reported(y) \/ y = x
        BY <1>9, <1>12, <4>1 DEF Reported
      <4> QED
        BY <1>9, <4>2, <4>3
    <3> QED
      BY <1>9, <1>11, <3>1 DEF Silent, Reported
  <2>7. IsFiniteSet(Silent) /\ Cardinality(Silent \ {k}) = Cardinality(Silent) - 1
    <3>1. browser.readers \in Int /\ 1 \in Int
      <4>1. browser.readers \in ReaderCounts
        BY <1>1 DEF TypeInv
      <4> QED
        BY <4>1, LoadConstants
    <3>2. IsFiniteSet(1 .. browser.readers)
      BY <3>1, FS_Interval, Zenon
    <3>3. Silent \in SUBSET (1 .. browser.readers)
      BY DEF Silent
    <3>4. IsFiniteSet(Silent)
      BY <3>2, <3>3, FS_Subset, Zenon
    <3>5. Cardinality(Silent \ {k}) = IF k \in Silent THEN Cardinality(Silent) - 1 ELSE Cardinality(Silent)
      BY <3>4, FS_RemoveElement, Zenon
    <3> QED
      BY <2>3, <3>4, <3>5
  <2>8. page'.remaining = Cardinality(Silent')
    BY <1>9, <2>5, <2>6, <2>7
  <2>9. CASE asks
    <3>1. Cardinality(Silent \ {k}) = 0
      BY <2>5, <2>7, <2>9 DEF LastReport
    <3>2. IsFiniteSet(Silent \ {k})
      BY <2>7, FS_RemoveElement, Zenon
    <3>3. Silent' = {}
      BY <2>6, <3>1, <3>2, FS_EmptySet, Zenon
    <3>4. ~Finished(pw)
      BY <1>7, <2>5 DEF Finished
    <3>5. CombineOk(pw, "some", 0)
      BY <1>7, <2>5, <3>4 DEF CombineOk, Told, Finished
    <3> QED
      BY <1>8, <1>9, <1>10, <2>4, <2>5, <2>8, <2>9, <3>3, <3>4, <3>5 DEF CountOk
  <2>10. CASE ~asks
    BY <1>8, <1>9, <1>10, <2>4, <2>5, <2>8, <2>10 DEF CountOk
  <2> QED
    BY <2>9, <2>10
<1> QED
  BY <1>13, <1>14, <1>15, <1>16, <1>17 DEF IInv

LEMMA LoaderMessageKeeps ==
    ASSUME IInv, NEW x \in Worker, worker[x].outbox # <<>>, worker[x].ear = "role", x[2] = Loader,
           OnLoaderMessage([worker EXCEPT ![x].outbox = Tail(@)], Head(worker[x].outbox)),
           UNCHANGED <<browser, mishaps>>
    PROVE  IInv'
<1> DEFINE ws == [worker EXCEPT ![x].outbox = Tail(@)]
           first == Head(worker[x].outbox)
<1>1. x = page.playback
  BY Speaker
<1>2. first \in {"ready", "loaded", "loadedEmpty", "boundsCombined", "error"}
  <2>1. worker[x] \in Workers /\ WorkerOk(x, worker[x])
    BY DEF IInv, TypeInv, WorkersOk
  <2>2. first \in ToPage /\ \A M : first \in M => Has(worker[x].outbox, M)
    BY <2>1, HeardIsOk
  <2> QED
    BY <2>1, <2>2 DEF WorkerOk, LifeOk, RoleOk, ToPage
<1>3. CASE first = "ready"
  <2>1. worker' = Sent(ws, x, "load") /\ UNCHANGED <<page, timers, waits, slots, ghost>>
    BY <1>1, <1>3 DEF OnLoaderMessage
  <2> QED
    BY <1>3, <2>1, AnswerKeeps
<1>4. CASE first \in {"loaded", "loadedEmpty"}
  <2>1. OnLoaded(ws, IF first = "loaded" THEN "some" ELSE "empty")
    BY <1>4 DEF OnLoaderMessage
  <2> QED
    BY <1>4, <2>1, LoadedKeeps
<1>5. CASE first = "boundsCombined"
  <2>1. worker' = ws /\ Finish(page) /\ UNCHANGED <<timers, waits, slots>>
    BY <1>5 DEF OnLoaderMessage
  <2> QED
    BY <1>5, <2>1, BoundsCombinedKeeps
<1>6. CASE first = "error"
  <2>1. IF page.running THEN worker' = ws /\ UNCHANGED <<page, timers, waits, slots, ghost>> ELSE Reset(ws)
    BY <1>6 DEF OnLoaderMessage
  <2> QED
    BY <2>1, IgnoredKeeps, FailedLoadKeeps
<1> QED
  BY <1>2, <1>3, <1>4, <1>5, <1>6

LEMMA ReaderMessageKeeps ==
    ASSUME IInv, NEW x \in Worker, worker[x].outbox # <<>>, worker[x].ear = "role", x[2] \in Reader,
           OnReaderMessage([worker EXCEPT ![x].outbox = Tail(@)], x, Head(worker[x].outbox)),
           UNCHANGED <<browser, mishaps>>
    PROVE  IInv'
<1> DEFINE ws == [worker EXCEPT ![x].outbox = Tail(@)]
           first == Head(worker[x].outbox)
<1>1. first \in {"ready", "boundsReady", "error"}
  <2>1. worker[x] \in Workers /\ WorkerOk(x, worker[x])
    BY DEF IInv, TypeInv, WorkersOk
  <2>2. first \in ToPage /\ \A M : first \in M => Has(worker[x].outbox, M)
    BY <2>1, HeardIsOk
  <2> QED
    BY <2>1, <2>2 DEF WorkerOk, LifeOk, RoleOk, ToPage
<1>2. CASE first = "ready"
  <2>1. worker' = Sent(ws, x, "computeBounds") /\ UNCHANGED <<page, timers, waits, slots, ghost>>
    BY <1>2 DEF OnReaderMessage
  <2> QED
    BY <1>2, <2>1, AnswerKeeps
<1>3. CASE first \in {"boundsReady", "error"}
  <2>1. /\ worker' = IF LastReport /\ page.playback # None
                     THEN Sent(Closing(ws, x), page.playback, "combineBounds")
                     ELSE Closing(ws, x)
        /\ page' = [page EXCEPT !.remaining = @ - 1]
        /\ ghost' = [ghost EXCEPT !.stray = @ \/ x[1] < page.load]
        /\ UNCHANGED <<timers, waits, slots>>
    BY <1>3 DEF OnReaderMessage, Counts
  <2> QED
    BY <1>3, <2>1, ReportKeeps
<1> QED
  BY <1>1, <1>2, <1>3

LEMMA OnMessageKeeps == ASSUME IInv, NEW x \in Worker, OnMessage(x) PROVE IInv'
<1> DEFINE ws == [worker EXCEPT ![x].outbox = Tail(@)]
           first == Head(worker[x].outbox)
<1>1. worker[x].outbox # <<>> /\ UNCHANGED <<browser, mishaps>>
  BY DEF OnMessage
<1>2. CASE /\ worker[x].ear = "closing" /\ worker' = Terminated(ws, x, FALSE)
           /\ UNCHANGED <<page, timers, waits, slots, ghost>>
  BY <1>1, <1>2, AcknowledgedKeeps
<1>3. CASE worker[x].ear = "role" /\ x[2] = Loader /\ OnLoaderMessage(ws, first)
  BY <1>1, <1>3, LoaderMessageKeeps
<1>4. CASE worker[x].ear = "role" /\ x[2] \in Reader /\ OnReaderMessage(ws, x, first)
  BY <1>1, <1>4, ReaderMessageKeeps
<1> QED
  BY <1>2, <1>3, <1>4 DEF OnMessage

-----------------------------------------------------------------------------
(* The theorem.                                                            *)

LEMMA InitHolds == ASSUME Init PROVE IInv
<1>1. /\ worker = [x \in Worker |-> Absent]
      /\ page.load = 0 /\ page.chain = "none" /\ page.upload = TRUE /\ page.running = FALSE
      /\ page.matches = "none" /\ page.memory = NoMemory /\ page.remaining = 0
      /\ page.playback = None /\ page.prefetch = None
      /\ page \in Pages
      /\ timers = {} /\ waits = {} /\ slots = [g \in Load |-> {}] /\ mishaps = MaxMishaps
      /\ browser \in [grants : {"one", "many"}, readers : ReaderCounts]
      /\ ghost \in Ghosts /\ ghost.dropped = {}
  BY DEF Init, Pages, Ghosts
<1>2. Absent \in Workers
  <2>1. <<>> \in Seq(ToWorker) /\ <<>> \in Seq(ToPage)
    OBVIOUS
  <2> QED
    BY <2>1 DEF Absent, Workers, At
<1>3. \A x \in Worker : worker[x] = Absent
  BY <1>1
<1>4. TypeInv
  BY <1>1, <1>2, LoadConstants DEF TypeInv
<1>5. WorkersOk
  <2>1. /\ Absent.at = "none" /\ Absent.ear = "role" /\ Absent.inbox = <<>> /\ Absent.outbox = <<>>
        /\ Absent.holds = FALSE /\ Absent.down = FALSE
    BY DEF Absent
  <2>2. LifeOk(Absent) /\ ReaderOk(Absent) /\ \A id : RoleOk(id, Absent)
    BY <2>1, HasEmpty DEF LifeOk, RoleOk, ReaderOk, Asked, Ready, Answered
  <2> QED
    BY <1>3, <2>2 DEF WorkersOk, WorkerOk
<1>6. PageOk
  <2>1. 0 <= browser.readers
    <3>1. browser.readers \in ReaderCounts
      BY <1>1
    <3>2. browser.readers \in 1 .. 8
      BY <3>1, LoadConstants
    <3> QED
      BY <3>2
  <2> QED
    BY <1>1, <2>1 DEF PageOk
<1>7. NamesOk /\ TimersOk /\ HandlesOk /\ LoadingOk /\ CountOk
  BY <1>1, <1>3 DEF NamesOk, TimersOk, HandlesOk, LoadingOk, CountOk, Live, Absent
<1> QED
  BY <1>4, <1>5, <1>6, <1>7 DEF IInv

LEMMA NextKeeps == ASSUME IInv, [Next]_vars PROVE IInv'
<1>1. CASE UNCHANGED vars
  <2>1. /\ worker' = worker /\ page' = page /\ timers' = timers /\ waits' = waits
        /\ browser' = browser /\ slots' = slots /\ mishaps' = mishaps /\ ghost' = ghost
    BY <1>1 DEF vars
  <2> QED
    BY <2>1 DEF IInv, TypeInv, WorkersOk, PageOk, NamesOk, TimersOk, HandlesOk, LoadingOk, CountOk,
                Live, Late, Silent, Reported
<1>2. CASE \E battleFile \in BOOLEAN : PickFile(battleFile)
  BY <1>2, PickFileKeeps
<1>3. CASE Decompressed \/ StartLoader \/ UserReset
  BY <1>3, DecompressedKeeps, StartLoaderKeeps, UserResetKeeps
<1>4. ASSUME NEW x \in Worker,
             \/ TimerFires(x) \/ OnMessage(x) \/ ShutdownTimesOut(x)
             \/ WorkerTurn(x) \/ Throws(x) \/ BrowserReleases(x)
      PROVE  IInv'
  BY <1>4, TimerFiresKeeps, OnMessageKeeps, ShutdownTimesOutKeeps, OpensKeeps, OpenFailsKeeps,
     StreamsKeeps, TakesKeeps, ThrowsKeeps, BrowserReleasesKeeps DEF WorkerTurn
<1> QED
  BY <1>1, <1>2, <1>3, <1>4 DEF Next

LEMMA InvariantIsSound == ASSUME IInv PROVE LoadIsSound
<1>1. /\ TypeInv /\ WorkersOk /\ PageOk /\ NamesOk /\ HandlesOk /\ CountOk
      /\ worker \in [Worker -> Workers] /\ page \in Pages
  BY DEF IInv, TypeInv
<1>2. TypeOK
  BY <1>1 DEF TypeOK, TypeInv, PageOk, Pages, Workers, At
<1>3. StartsComplete
  <2> SUFFICES ASSUME page.running, ~ghost.stray
               PROVE  /\ ghost.finished = 1 /\ page.matches # "none"
                      /\ page.matches = "some" =>
                           \A k \in 1 .. browser.readers :
                              /\ Reported(<<page.load, k>>)
                              /\ k \in slots[page.load] => k \in ghost.combined
    BY DEF StartsComplete
  <2>1. page.playback # None
    BY <1>1 DEF PageOk
  <2>2. /\ CombineOk(worker[page.playback], page.matches, ghost.finished) /\ ghost.finished = 1
        /\ page.matches = "some" =>
              /\ Silent = {}
              /\ \A k \in 1 .. browser.readers : k \in slots[page.load] => k \in ghost.combined
    BY <1>1, <2>1 DEF CountOk
  <2>3. page.matches # "none"
    BY <2>2 DEF CombineOk
  <2> QED
    BY <2>2, <2>3 DEF Silent
<1>4. FileIsFree
  <2> SUFFICES ASSUME page.playback # None, worker[page.playback].at = "opening",
                      NEW x \in Worker, x[1] < page.load, x[2] \notin Reader, worker[x].holds
               PROVE  worker[x].killed \/ Late(x) \/ x \in ghost.dropped
    BY DEF FileIsFree
  <2>1. worker[x] \in Workers /\ LifeOk(worker[x]) /\ worker[x].at # "none"
    <3>1. worker[x] \in Workers /\ LifeOk(worker[x])
      BY <1>1 DEF WorkersOk, WorkerOk
    <3>2. worker[x] # Absent
      BY DEF Absent
    <3> QED
      BY <3>1, <3>2 DEF LifeOk
  <2>2. CASE worker[x].at = "gone"
    BY <2>1, <2>2 DEF LifeOk
  <2>3. CASE worker[x].at # "gone"
    <3>1. Late(x) \/ x \in ghost.dropped \/ x \in waits \/ x \in {page.playback, page.prefetch}
      BY <1>1, <2>1, <2>3 DEF HandlesOk, Live
    <3>2. x \notin waits
      BY <1>1, <2>3 DEF HandlesOk
    <3>3. x # page.playback
      <4>1. page.load \in Nat
        BY <1>1 DEF Pages
      <4>2. page.playback # None => page.playback[1] = page.load
        BY <1>1 DEF PageOk
      <4> QED
        BY <4>1, <4>2
    <3>4. x = page.prefetch => Late(x)
      <4>1. page.memory = page.load /\ x # None /\ page.load \in Nat /\ x[1] \in Nat
        BY <1>1, Names DEF PageOk, Pages
      <4> QED
        BY <1>1, <4>1 DEF NamesOk
    <3> QED
      BY <3>1, <3>2, <3>3, <3>4
  <2> QED
    BY <2>2, <2>3
<1> QED
  BY <1>2, <1>3, <1>4 DEF LoadIsSound

\* For any number of loads and readers, whatever fails and however late
\* messages and timers are: a load plays once, with all its parts combined,
\* and opens the file when no earlier loader or prefetch worker has it, but
\* for the three exceptions FileIsFree names.
THEOREM LoadsAreSound == Spec => []LoadIsSound
<1>1. Init => IInv
  BY InitHolds
<1>2. IInv /\ [Next]_vars => IInv'
  BY NextKeeps
<1>3. IInv => LoadIsSound
  BY InvariantIsSound
<1> QED
  BY <1>1, <1>2, <1>3, PTL DEF Spec
=============================================================================
