--------------------------- MODULE SessionProofs ---------------------------
(***************************************************************************)
(* What the page is promised by its queue, its promises and its messages   *)
(* with the worker, for any number of windows, explorers, schemas,         *)
(* sessions and acts of the user: requests go to the worker one by one and *)
(* in the order of the queue, whoever waits in this session waits for what *)
(* is queued or on its way, and what "Save changes" writes to is shown.    *)
(*                                                                         *)
(* The handlers of the page are sequences of small operations, and the     *)
(* model composes them as operators from page to page.  So are the proofs  *)
(* made: the invariant, Sound, is a predicate of a page and of the answers *)
(* on their way to it, in parts that say which windows (Serves, Shows),    *)
(* explorers (Paced) and promises (Promised) are for the moment exempt,    *)
(* because a handler is at work on them.  Every operation has a lemma that *)
(* says which exemptions it needs and which it lifts; a handler is proved  *)
(* by following its operations, the loops over explorers (RefreshAll,      *)
(* Settled) by induction over their rounds.  Goes, Onward and Kept say     *)
(* what holds of a page that comes of another without an answer.           *)
(***************************************************************************)
EXTENDS Session, FiniteSetTheorems, SequenceTheorems, WellFoundedInduction, TLAPS

-----------------------------------------------------------------------------
(* The invariant.                                                          *)

\* The sessions there were, None before the first.
Since == 0 .. loads

\* Requests as they are made: the user's by a window, saves with statements left;
\* the background's by an explorer.
Proper == {r \in Request : IF Background(r) THEN r.of \in Explorers
                           ELSE r.of \in Terminals /\ (r.task = "save" => r.left # 0)}

\* What a window, a refresh and a message are.
Window == [busy : BOOLEAN, since : Since, tables : Seq(Nat), columns : Nat, last : Nat,
           hasty : BOOLEAN]

Stage == [op : {"ensure"}, kind : Kinds] \cup [op : {"query"}, kind : {None}]
Todo  == [since : Since, stages : Seq(Stage)]

Message == [op : {"sql"}, req : Proper] \cup [op : {"ensure", "script"}, kind : Kinds]
           \cup [op : {"revert", "export"}]

Reply == [op : {"sqlDone", "sqlError"}, req : Proper]
         \cup [op : {"sqlColumns"}, req : {r \in Proper : r.task = "run"}, some : BOOLEAN]
         \cup [op : {"viewReady"}, kind : Kinds, rebuilt : BOOLEAN]
         \cup [op : {"viewError"}, kind : Kinds]
         \cup [op : {"reverted", "checkpointError", "exported", "exportError", "error"}]

\* The page, and the types of the variables.
Pages == [active : SUBSET Proper, queue : Seq(Proper), asked : Nat,
          win : [Terminals -> Window], refresh : [Explorers -> Todo],
          inFlight : [Kinds -> Since], toWorker : Seq(Message)]

Typed == /\ loads \in 0 .. MaxSessions /\ worker \in {None, loads} /\ Page \in Pages
         /\ toPage \in Seq(Reply)
         /\ exporting \in Since /\ packing \in BOOLEAN
         /\ stale \subseteq Kinds /\ acts \in 0 .. MaxActs /\ threw \in BOOLEAN

\* SQL on its way to the worker, its end and its columns on their way back.
Sql(m) == m.op = "sql"
End(m) == m.op \in {"sqlDone", "sqlError"}
Col(m) == m.op = "sqlColumns"

\* Of the requests at the worker and the answers on their way there is one, of
\* the request the page waits for, columns before the end of them.
Single(p, replies) ==
    /\ p.active = {} \/ \E r \in Proper : p.active = {r}
    /\ \A i \in DOMAIN p.toWorker : Sql(p.toWorker[i]) => p.active = {p.toWorker[i].req}
    /\ \A i \in DOMAIN replies : End(replies[i]) => p.active = {replies[i].req}
    /\ \A i, j \in DOMAIN p.toWorker : Sql(p.toWorker[i]) /\ Sql(p.toWorker[j]) => i = j
    /\ \A i, j \in DOMAIN replies : End(replies[i]) /\ End(replies[j]) => i = j
    /\ \A i \in DOMAIN p.toWorker, j \in DOMAIN replies :
          ~ (Sql(p.toWorker[i]) /\ End(replies[j]))
    /\ \A i \in DOMAIN replies : Col(replies[i]) =>
          \E j \in DOMAIN replies : i < j /\ End(replies[j]) /\ replies[j].req = replies[i].req
    /\ \A i, j \in DOMAIN replies : Col(replies[i]) /\ Col(replies[j]) => i = j

\* ... and the page does not wait in vain, unless one of the messages threw.
OneSql(p, replies) ==
    /\ Single(p, replies)
    /\ p.active # {} => \/ threw
                        \/ \E i \in DOMAIN p.toWorker : Sql(p.toWorker[i])
                        \/ \E i \in DOMAIN replies : End(replies[i])

\* Requests wait in the queue's order, and each has a number of its own.
Queued(p) ==
    /\ \A i, j \in DOMAIN p.queue : i < j =>
          IF Background(p.queue[i]) = Background(p.queue[j]) THEN p.queue[i].id < p.queue[j].id
          ELSE Background(p.queue[j])
    /\ \A i, j \in DOMAIN p.queue : p.queue[i].id = p.queue[j].id => i = j
    /\ \A i \in DOMAIN p.queue : p.queue[i].id <= p.asked
    /\ \A r \in p.active : r.id <= p.asked /\ \A i \in DOMAIN p.queue : p.queue[i].id # r.id

\* The queue and the request under way.
Lined(p, replies) == OneSql(p, replies) /\ Queued(p)

\* What was asked and has no answer yet.
Pending(p) == p.active \cup {p.queue[i] : i \in DOMAIN p.queue}

-----------------------------------------------------------------------------
(* Places in a sequence.                                                   *)

\* A set of numbers has a least one.
LEMMA LeastElement ==
    ASSUME NEW S \in SUBSET Nat, S # {}
    PROVE  \E m \in S : \A n \in S : m <= n
<1> DEFINE T == {0 .. n : n \in S}
<1>1. T \subseteq FiniteSubsetsOf(Nat) /\ T # {}
  <2>1. ASSUME NEW n \in S PROVE 0 .. n \in SUBSET Nat /\ IsFiniteSet(0 .. n)
    BY FS_Interval
  <2> QED BY <2>1 DEF FiniteSubsetsOf
<1>2. PICK x \in T : \A y \in T : ~ (<<y, x>> \in StrictSubsetOrdering(Nat))
  <2>1. IsWellFoundedOn(StrictSubsetOrdering(Nat), FiniteSubsetsOf(Nat))
    BY FS_StrictSubsetOrderingWellFounded
  <2> HIDE DEF T
  <2> QED BY <1>1, <2>1, WFMin
<1>3. PICK m \in S : x = 0 .. m
  OBVIOUS
<1>4. ASSUME NEW n \in S, n < m PROVE FALSE
  <2>1. 0 .. n \in T  OBVIOUS
  <2>2. 0 .. n \subseteq 0 .. m /\ m \in 0 .. m /\ m \notin 0 .. n
    BY <1>4
  <2>3. 0 .. n \in SUBSET Nat /\ 0 .. m \in SUBSET Nat
    OBVIOUS
  <2>4. <<0 .. n, 0 .. m>> \in StrictSubsetOrdering(Nat)
    BY <2>2, <2>3 DEF StrictSubsetOrdering
  <2> QED BY <2>1, <2>4, <1>2, <1>3
<1> QED BY <1>4

\* findIndex gives the first request of the background, if one waits.
LEMMA FirstOfBackground ==
    ASSUME NEW s \in Seq(Proper)
    PROVE  \/ /\ SelectInSeq(s, Background) = 0
              /\ \A i \in 1 .. Len(s) : ~Background(s[i])
           \/ /\ SelectInSeq(s, Background) \in 1 .. Len(s)
              /\ Background(s[SelectInSeq(s, Background)])
              /\ \A i \in 1 .. Len(s) : i < SelectInSeq(s, Background) => ~Background(s[i])
<1> DEFINE I == {i \in 1 .. Len(s) : Background(s[i])}
           k == Min(I)
<1>1. CASE I = {}
  BY <1>1 DEF SelectInSeq
<1>2. CASE I # {}
  <2>1. SelectInSeq(s, Background) = k
    BY <1>2 DEF SelectInSeq
  <2>2. \E m \in I : \A n \in I : m <= n
    <3>1. I \in SUBSET Nat
      OBVIOUS
    <3> HIDE DEF I
    <3> QED
      BY <1>2, <3>1, LeastElement
  <2>3. k \in I /\ \A n \in I : k <= n
    BY <2>2 DEF Min
  <2> HIDE DEF k
  <2>4. k \in 1 .. Len(s) /\ Background(s[k])
    BY <2>3
  <2>5. ASSUME NEW i \in 1 .. Len(s), i < k PROVE ~Background(s[i])
    BY <2>3, <2>4, <2>5
  <2> QED
    BY <2>1, <2>4, <2>5
<1> QED
  BY <1>1, <1>2

\* n is s with r put at place k.
Placed(n, s, k, r) ==
    /\ Len(n) = Len(s) + 1
    /\ \A i \in 1 .. Len(n) : n[i] = IF i < k THEN s[i] ELSE IF i = k THEN r ELSE s[i - 1]

\* queue.push puts a request last.
LEMMA PlacedLast ==
    ASSUME NEW S, NEW s \in Seq(S), NEW r \in S
    PROVE  /\ Append(s, r) \in Seq(S)
           /\ Placed(Append(s, r), s, Len(s) + 1, r)
  BY DEF Placed

\* queue.splice puts a request at its place, the others before and behind it.
LEMMA PlacedWithin ==
    ASSUME NEW S, NEW s \in Seq(S), NEW r \in S, NEW k \in 1 .. Len(s)
    PROVE  /\ InsertAt(s, k, r) \in Seq(S)
           /\ Placed(InsertAt(s, k, r), s, k, r)
<1> DEFINE a == SubSeq(s, 1, k - 1)
           b == SubSeq(s, k, Len(s))
           ar == a \o <<r>>
<1>1. a \in Seq(S) /\ Len(a) = k - 1 /\ \A i \in 1 .. k - 1 : a[i] = s[i]
  OBVIOUS
<1>2. b \in Seq(S) /\ Len(b) = Len(s) - k + 1 /\ \A i \in 1 .. Len(s) - k + 1 : b[i] = s[k + i - 1]
  OBVIOUS
<1>3. InsertAt(s, k, r) = ar \o b
  BY DEF InsertAt
<1> HIDE DEF a, b
<1>4. <<r>> \in Seq(S) /\ Len(<<r>>) = 1 /\ <<r>>[1] = r /\ Len(s) \in Nat
  OBVIOUS
<1>5. /\ ar \in Seq(S) /\ Len(ar) = k
      /\ \A i \in 1 .. k : ar[i] = IF i < k THEN s[i] ELSE r
  BY <1>1, <1>4
<1> HIDE DEF ar
<1>6. /\ ar \o b \in Seq(S) /\ Len(ar \o b) = Len(s) + 1
      /\ \A i \in 1 .. Len(s) + 1 : (ar \o b)[i] = IF i <= k THEN ar[i] ELSE b[i - k]
  <2>1. /\ ar \o b \in Seq(S) /\ Len(ar \o b) = Len(ar) + Len(b)
        /\ \A i \in 1 .. Len(ar) + Len(b) : (ar \o b)[i] = IF i <= Len(ar) THEN ar[i] ELSE b[i - Len(ar)]
    BY <1>2, <1>5, ConcatProperties
  <2>2. Len(ar) + Len(b) = Len(s) + 1
    BY <1>2, <1>4, <1>5
  <2> QED
    BY <1>5, <2>1, <2>2
<1>7. ASSUME NEW i \in 1 .. Len(s) + 1
      PROVE  (ar \o b)[i] = IF i < k THEN s[i] ELSE IF i = k THEN r ELSE s[i - 1]
  <2>1. CASE i <= k
    BY <2>1, <1>5, <1>6
  <2>2. CASE i > k
    <3>1. i - k \in 1 .. Len(s) - k + 1 /\ k + (i - k) - 1 = i - 1
      BY <2>2
    <3> QED
      BY <2>2, <3>1, <1>2, <1>6
  <2>3. i <= k \/ i > k
    BY <1>4
  <2> QED
    BY <2>1, <2>2, <2>3
<1> QED
  BY <1>3, <1>6, <1>7 DEF Placed

-----------------------------------------------------------------------------
(* The parts of a page.                                                    *)

\* The fields of a page.
LEMMA PartsOfPage ==
    ASSUME NEW p \in Pages
    PROVE  /\ p.active \in SUBSET Proper /\ p.queue \in Seq(Proper) /\ p.asked \in Nat
           /\ p.win \in [Terminals -> Window] /\ p.refresh \in [Explorers -> Todo]
           /\ p.inFlight \in [Kinds -> Since] /\ p.toWorker \in Seq(Message)
  BY DEF Pages

\* postToWorker changes nothing but what is on the way.
LEMMA PostedParts ==
    ASSUME NEW p \in Pages, NEW m \in Message
    PROVE  /\ Posted(p, m) \in Pages
           /\ Posted(p, m).active = p.active /\ Posted(p, m).queue = p.queue
           /\ Posted(p, m).asked = p.asked /\ Posted(p, m).win = p.win
           /\ Posted(p, m).refresh = p.refresh /\ Posted(p, m).inFlight = p.inFlight
           /\ Posted(p, m).toWorker = Append(p.toWorker, m)
<1> DEFINE s == Append(p.toWorker, m)
<1>1. s \in Seq(Message)
  BY PartsOfPage
<1>2. Posted(p, m) = [p EXCEPT !.toWorker = s]
  BY DEF Posted
<1> HIDE DEF s
<1> QED
  BY <1>1, <1>2 DEF Pages, s

\* Windows that show the same, if not the same status.
ShowsSame(a, b) == a.tables = b.tables /\ a.columns = b.columns /\ a.last = b.last /\ a.hasty = b.hasty

\* A window that is busy shows what it showed.
LEMMA BusyParts ==
    ASSUME NEW p \in Pages, NEW t \in Terminals, worker \in Since
    PROVE  /\ Busy(p, t) \in Pages
           /\ Busy(p, t).active = p.active /\ Busy(p, t).queue = p.queue
           /\ Busy(p, t).asked = p.asked /\ Busy(p, t).toWorker = p.toWorker
           /\ Busy(p, t).refresh = p.refresh /\ Busy(p, t).inFlight = p.inFlight
           /\ \A u \in Terminals : ShowsSame(Busy(p, t).win[u], p.win[u])
           /\ \A u \in Terminals \ {t} : Busy(p, t).win[u] = p.win[u]
<1> DEFINE v == [p.win[t] EXCEPT !.busy = TRUE, !.since = worker]
           w == [p.win EXCEPT ![t] = v]
<1>1. Busy(p, t) = [p EXCEPT !.win = w]
  BY DEF Busy, Pages
<1>2. p.win[t] \in Window
  BY DEF Pages
<1>3. v \in Window /\ ShowsSame(v, p.win[t])
  BY <1>2 DEF Window, ShowsSame
<1> HIDE DEF v
<1>4. w \in [Terminals -> Window] /\ w[t] = v /\ \A u \in Terminals \ {t} : w[u] = p.win[u]
  BY <1>3, PartsOfPage
<1> HIDE DEF w
<1>5. Busy(p, t) \in Pages /\ Busy(p, t).win = w
  BY <1>1, <1>4 DEF Pages
<1>6. /\ Busy(p, t).active = p.active /\ Busy(p, t).queue = p.queue
      /\ Busy(p, t).asked = p.asked /\ Busy(p, t).toWorker = p.toWorker
      /\ Busy(p, t).refresh = p.refresh /\ Busy(p, t).inFlight = p.inFlight
  BY <1>1 DEF Pages
<1> QED
  BY <1>3, <1>4, <1>5, <1>6 DEF ShowsSame

\* pumpSqlRequestQueue takes the first of the queue; its window, if any, is busy.
LEMMA PumpedParts ==
    ASSUME NEW p \in Pages, loads \in Nat, worker \in Since, p.active = {}, p.queue # <<>>
    PROVE  /\ Pumped(p) \in Pages
           /\ Head(p.queue) \in Proper
           /\ Pumped(p).active = {Head(p.queue)} /\ Pumped(p).queue = Tail(p.queue)
           /\ Pumped(p).asked = p.asked
           /\ Pumped(p).refresh = p.refresh /\ Pumped(p).inFlight = p.inFlight
           /\ Pumped(p).toWorker = Append(p.toWorker, [op |-> "sql", req |-> Head(p.queue)])
           /\ \A u \in Terminals : ShowsSame(Pumped(p).win[u], p.win[u])
           /\ \A u \in Terminals : \/ Pumped(p).win[u] = p.win[u]
                                   \/ Head(p.queue).of = u /\ ~Background(Head(p.queue))
<1> DEFINE r == Head(p.queue)
           q == [p EXCEPT !.queue = Tail(@), !.active = {r}]
           b == IF r.task = "run" THEN Busy(q, r.of) ELSE q
           m == [op |-> "sql", req |-> r]
<1>1. r \in Proper /\ Tail(p.queue) \in Seq(Proper)
  BY PartsOfPage
<1>2. Pumped(p) = Posted(b, m)
  BY DEF Pumped
<1>3. m \in Message
  BY <1>1 DEF Message
<1> HIDE DEF r, m
<1>4. /\ q \in Pages
      /\ q.active = {r} /\ q.queue = Tail(p.queue) /\ q.asked = p.asked /\ q.win = p.win
      /\ q.refresh = p.refresh /\ q.inFlight = p.inFlight /\ q.toWorker = p.toWorker
  BY <1>1 DEF Pages
<1> HIDE DEF q
<1>5. /\ b \in Pages
      /\ b.active = q.active /\ b.queue = q.queue /\ b.asked = q.asked
      /\ b.refresh = q.refresh /\ b.inFlight = q.inFlight /\ b.toWorker = q.toWorker
      /\ \A u \in Terminals : ShowsSame(b.win[u], q.win[u])
      /\ \A u \in Terminals : b.win[u] = q.win[u] \/ (r.of = u /\ ~Background(r))
  <2>1. CASE r.task = "run"
    <3>1. r.of \in Terminals /\ ~Background(r)
      BY <1>1, <2>1 DEF Proper, Background
    <3>2. b = Busy(q, r.of)
      BY <2>1
    <3> HIDE DEF b
    <3>3. \A u \in Terminals : r.of # u => b.win[u] = q.win[u]
      BY <1>4, <3>1, <3>2, BusyParts
    <3> QED
      BY <1>4, <3>1, <3>2, <3>3, BusyParts
  <2>2. CASE r.task # "run"
    <3>1. b = q
      BY <2>2
    <3> HIDE DEF b
    <3> QED
      BY <1>4, <3>1 DEF ShowsSame
  <2> QED
    BY <2>1, <2>2
<1> HIDE DEF b
<1>6. /\ Posted(b, m) \in Pages
      /\ Posted(b, m).active = b.active /\ Posted(b, m).queue = b.queue
      /\ Posted(b, m).asked = b.asked /\ Posted(b, m).win = b.win
      /\ Posted(b, m).refresh = b.refresh /\ Posted(b, m).inFlight = b.inFlight
      /\ Posted(b, m).toWorker = Append(b.toWorker, m)
  BY <1>3, <1>5, PostedParts
<1>7. /\ Pumped(p) \in Pages
      /\ r \in Proper
      /\ Pumped(p).active = {r} /\ Pumped(p).queue = Tail(p.queue)
      /\ Pumped(p).asked = p.asked
      /\ Pumped(p).refresh = p.refresh /\ Pumped(p).inFlight = p.inFlight
      /\ Pumped(p).toWorker = Append(p.toWorker, m)
      /\ \A u \in Terminals : ShowsSame(Pumped(p).win[u], p.win[u])
      /\ \A u \in Terminals : Pumped(p).win[u] = p.win[u] \/ (r.of = u /\ ~Background(r))
  BY <1>1, <1>2, <1>4, <1>5, <1>6
<1> QED
  BY <1>7 DEF r, m

\* What is on the way to the worker; no SQL is; window u has asked for something.
Posts(p)  == {p.toWorker[i] : i \in DOMAIN p.toWorker}
Silent(p) == \A i \in DOMAIN p.toWorker : ~Sql(p.toWorker[i])
Served(p, u) == \E r \in Pending(p) : r.of = u /\ ~Background(r)

\* q comes of p without an answer: what is asked for still is, the request under
\* way remains so, and a window that has another status has something it awaits.
Goes(p, q) ==
    /\ Pending(p) \subseteq Pending(q)
    /\ Posts(p) \subseteq Posts(q)
    /\ p.active # {} => q.active = p.active /\ (Silent(p) => Silent(q))
    /\ \A u \in Terminals : /\ ShowsSame(q.win[u], p.win[u])
                            /\ q.win[u] = p.win[u] \/ Served(q, u)

\* One thing after the other.
LEMMA GoesOn ==
    ASSUME NEW p, NEW q, NEW s, Goes(p, q), Goes(q, s)
    PROVE  Goes(p, s)
<1>1. ASSUME NEW u \in Terminals PROVE ShowsSame(s.win[u], p.win[u])
  BY DEF Goes, ShowsSame
<1>2. ASSUME NEW u \in Terminals PROVE s.win[u] = p.win[u] \/ Served(s, u)
  BY DEF Goes, Served
<1> QED
  BY <1>1, <1>2 DEF Goes

\* Nothing at all.
LEMMA GoesNowhere ==
    ASSUME NEW p
    PROVE  Goes(p, p)
  BY DEF Goes, ShowsSame

\* The queue waits while a request is under way.
LEMMA PumpedIdle ==
    ASSUME NEW p, p.active # {} \/ p.queue = <<>>
    PROVE  Pumped(p) = p
  BY DEF Pumped

\* The next request is under way, and no other is.
LEMMA PumpedKeeps ==
    ASSUME NEW p \in Pages, loads \in Nat, worker \in Since, NEW replies \in Seq(Reply), Lined(p, replies)
    PROVE  /\ Pumped(p) \in Pages
           /\ Lined(Pumped(p), replies)
           /\ Pending(Pumped(p)) = Pending(p)
           /\ Goes(p, Pumped(p))
           /\ Pumped(p).asked = p.asked
           /\ Pumped(p).refresh = p.refresh /\ Pumped(p).inFlight = p.inFlight
<1>1. CASE p.active # {} \/ p.queue = <<>>
  BY <1>1, PumpedIdle, GoesNowhere
<1>2. CASE p.active = {} /\ p.queue # <<>>
  <2> DEFINE q == Pumped(p)
             r == Head(p.queue)
             m == [op |-> "sql", req |-> r]
  <2>1. /\ q \in Pages /\ r \in Proper
        /\ q.active = {r} /\ q.queue = Tail(p.queue) /\ q.asked = p.asked
        /\ q.refresh = p.refresh /\ q.inFlight = p.inFlight
        /\ q.toWorker = Append(p.toWorker, m)
        /\ \A u \in Terminals : ShowsSame(q.win[u], p.win[u])
        /\ \A u \in Terminals : q.win[u] = p.win[u] \/ (r.of = u /\ ~Background(r))
    BY <1>2, PumpedParts
  <2>2. /\ Len(p.queue) \in Nat \ {0} /\ Len(q.queue) = Len(p.queue) - 1
        /\ r = p.queue[1] /\ DOMAIN p.queue = 1 .. Len(p.queue)
        /\ DOMAIN q.queue = 1 .. Len(p.queue) - 1
        /\ \A i \in DOMAIN q.queue : q.queue[i] = p.queue[i + 1]
    BY <1>2, <2>1, PartsOfPage
  <2>3. /\ Len(p.toWorker) \in Nat
        /\ DOMAIN p.toWorker = 1 .. Len(p.toWorker)
        /\ DOMAIN q.toWorker = 1 .. Len(p.toWorker) + 1
        /\ \A i \in DOMAIN p.toWorker : q.toWorker[i] = p.toWorker[i]
        /\ q.toWorker[Len(p.toWorker) + 1] = m
    <3>1. m \in Message
      BY <2>1 DEF Message
    <3>2. p.toWorker \in Seq(Message)
      BY PartsOfPage
    <3> HIDE DEF m
    <3> QED
      BY <2>1, <3>1, <3>2
  <2>4. Sql(m) /\ m.req = r
    BY DEF Sql
  <2> HIDE DEF q, r, m
  <2>5. Pending(q) = Pending(p)
    <3>1. ASSUME NEW x \in Pending(p) PROVE x \in Pending(q)
      <4>1. PICK i \in DOMAIN p.queue : x = p.queue[i]
        BY <1>2 DEF Pending
      <4>2. CASE i = 1
        BY <2>1, <2>2, <4>1, <4>2 DEF Pending
      <4>3. CASE i # 1
        <5>1. i - 1 \in DOMAIN q.queue /\ q.queue[i - 1] = x
          BY <2>2, <4>1, <4>3
        <5> QED
          BY <5>1 DEF Pending
      <4> QED
        BY <4>2, <4>3
    <3>2. ASSUME NEW x \in Pending(q) PROVE x \in Pending(p)
      <4>1. CASE x = r
        BY <2>2, <4>1 DEF Pending
      <4>2. CASE x # r
        <5>1. PICK i \in DOMAIN q.queue : x = q.queue[i]
          BY <2>1, <4>2 DEF Pending
        <5>2. i + 1 \in DOMAIN p.queue /\ p.queue[i + 1] = x
          BY <2>2, <5>1
        <5> QED
          BY <5>2 DEF Pending
      <4> QED
        BY <4>1, <4>2
    <3> QED
      BY <3>1, <3>2
  <2>6. \A i \in DOMAIN p.toWorker : ~Sql(p.toWorker[i])
    BY <1>2 DEF Lined, OneSql, Single
  <2>7. \A i \in DOMAIN replies : ~End(replies[i]) /\ ~Col(replies[i])
    BY <1>2 DEF Lined, OneSql, Single
  <2>8. \A i \in DOMAIN q.toWorker : Sql(q.toWorker[i]) => i = Len(p.toWorker) + 1
    BY <2>3, <2>6
  <2>9. OneSql(q, replies)
    <3>1. \E s \in Proper : q.active = {s}
      BY <2>1
    <3>2. \A i \in DOMAIN q.toWorker : Sql(q.toWorker[i]) => q.active = {q.toWorker[i].req}
      BY <2>1, <2>3, <2>4, <2>8
    <3>3. \E i \in DOMAIN q.toWorker : Sql(q.toWorker[i])
      BY <2>3, <2>4
    <3> QED
      BY <2>7, <2>8, <3>1, <3>2, <3>3 DEF OneSql, Single
  <2>10. Queued(q)
    <3>1. \A i \in DOMAIN q.queue : i + 1 \in DOMAIN p.queue /\ i \in Nat /\ i + 1 # 1
      BY <2>2
    <3>2. ASSUME NEW i \in DOMAIN q.queue, NEW j \in DOMAIN q.queue, i < j
          PROVE  IF Background(q.queue[i]) = Background(q.queue[j])
                 THEN q.queue[i].id < q.queue[j].id ELSE Background(q.queue[j])
      <4>1. i + 1 < j + 1 /\ i + 1 \in DOMAIN p.queue /\ j + 1 \in DOMAIN p.queue
        BY <3>1, <3>2
      <4>2. IF Background(p.queue[i + 1]) = Background(p.queue[j + 1])
            THEN p.queue[i + 1].id < p.queue[j + 1].id ELSE Background(p.queue[j + 1])
        BY <4>1 DEF Lined, Queued
      <4> QED
        BY <2>2, <4>2
    <3>3. ASSUME NEW i \in DOMAIN q.queue, NEW j \in DOMAIN q.queue, q.queue[i].id = q.queue[j].id
          PROVE  i = j
      <4>1. i + 1 \in DOMAIN p.queue /\ j + 1 \in DOMAIN p.queue
        BY <3>1
      <4>2. p.queue[i + 1].id = p.queue[j + 1].id
        BY <2>2, <3>3
      <4>3. \A a, b \in DOMAIN p.queue : p.queue[a].id = p.queue[b].id => a = b
        BY DEF Lined, Queued
      <4>4. i + 1 = j + 1
        BY <4>1, <4>2, <4>3
      <4> QED
        BY <3>1, <4>4
    <3>4. \A i \in DOMAIN q.queue : q.queue[i].id <= q.asked
      BY <2>1, <2>2, <3>1 DEF Lined, Queued
    <3>5. \A s \in q.active : s.id <= q.asked /\ \A i \in DOMAIN q.queue : q.queue[i].id # s.id
      <4>1. 1 \in DOMAIN p.queue
        BY <2>2
      <4>2. \A i \in DOMAIN q.queue : p.queue[i + 1].id # p.queue[1].id
        BY <3>1, <4>1 DEF Lined, Queued
      <4>3. r.id <= p.asked
        BY <2>2, <4>1 DEF Lined, Queued
      <4> QED
        BY <2>1, <2>2, <4>2, <4>3
    <3> QED
      BY <3>2, <3>3, <3>4, <3>5 DEF Queued
  <2>11. Goes(p, q)
    <3>1. Posts(p) \subseteq Posts(q)
      BY <2>3 DEF Posts
    <3>2. r \in Pending(q)
      BY <2>1 DEF Pending
    <3> QED
      BY <1>2, <2>1, <2>5, <3>1, <3>2 DEF Goes, Served
  <2> QED
    BY <2>1, <2>5, <2>9, <2>10, <2>11 DEF Lined, q
<1> QED
  BY <1>1, <1>2

\* A request of the user goes to the end of the user's, one of the background to
\* the end of all.
LEMMA EnqueuedPlace ==
    ASSUME NEW s \in Seq(Proper), NEW r \in Proper,
           \A i, j \in 1 .. Len(s) : i < j /\ Background(s[i]) => Background(s[j])
    PROVE  /\ Enqueued(s, r) \in Seq(Proper)
           /\ \E k \in 1 .. Len(s) + 1 :
                 /\ Placed(Enqueued(s, r), s, k, r)
                 /\ Background(r) => k = Len(s) + 1
                 /\ ~Background(r) => /\ \A i \in 1 .. Len(s) : i < k => ~Background(s[i])
                                      /\ \A i \in 1 .. Len(s) : k <= i => Background(s[i])
<1> DEFINE idx == SelectInSeq(s, Background)
<1>1. \/ idx = 0 /\ \A i \in 1 .. Len(s) : ~Background(s[i])
      \/ /\ idx \in 1 .. Len(s) /\ Background(s[idx])
         /\ \A i \in 1 .. Len(s) : i < idx => ~Background(s[i])
  BY FirstOfBackground
<1>2. Enqueued(s, r) = IF Background(r) \/ idx = 0 THEN Append(s, r) ELSE InsertAt(s, idx, r)
  BY DEF Enqueued
<1> HIDE DEF idx
<1>3. Len(s) + 1 \in 1 .. Len(s) + 1 /\ Len(s) \in Nat
  OBVIOUS
<1>4. CASE Background(r)
  BY <1>2, <1>3, <1>4, PlacedLast
<1>5. CASE ~Background(r) /\ idx = 0
  BY <1>1, <1>2, <1>3, <1>5, PlacedLast
<1>6. CASE ~Background(r) /\ idx # 0
  <2>1. idx \in 1 .. Len(s) + 1
    BY <1>1, <1>3, <1>6
  <2>2. ASSUME NEW i \in 1 .. Len(s), idx <= i PROVE Background(s[i])
    BY <2>2, <1>1, <1>6
  <2> QED
    BY <1>1, <1>2, <1>6, <2>1, <2>2, PlacedWithin
<1> QED
  BY <1>4, <1>5, <1>6

\* The fields of a request.
LEMMA ProperParts ==
    ASSUME NEW r \in Proper
    PROVE  /\ r.id \in Nat /\ r.task \in {"run", "save", "refresh"} /\ r.query \in Nat
           /\ r.left \in 0 .. Statements
           /\ Background(r) => r.of \in Explorers
           /\ ~Background(r) => r.of \in Terminals
           /\ r.task = "save" => r.left # 0
  BY DEF Proper, Request, Background

\* The page with a request queued that has the next number.
LEMMA EnqueuedKeeps ==
    ASSUME NEW p \in Pages, Queued(p), NEW r \in Proper, r.id = p.asked + 1,
           NEW q \in Pages, q.active = p.active, q.asked = p.asked + 1,
           q.queue = Enqueued(p.queue, r)
    PROVE  Queued(q) /\ Pending(q) = Pending(p) \cup {r}
<1> DEFINE s == p.queue
           n == q.queue
           x == p.asked + 1
<1>1. s \in Seq(Proper) /\ n \in Seq(Proper) /\ p.asked \in Nat /\ x \in Nat
  BY PartsOfPage
<1>2. Len(s) \in Nat /\ DOMAIN s = 1 .. Len(s) /\ DOMAIN n = 1 .. Len(n)
  BY <1>1
<1>3. \A i \in 1 .. Len(s) : s[i] \in Proper /\ s[i].id \in Nat
  BY <1>1, ProperParts
<1>4. \A i, j \in 1 .. Len(s) : i < j =>
          IF Background(s[i]) = Background(s[j]) THEN s[i].id < s[j].id ELSE Background(s[j])
  BY <1>2 DEF Queued
<1>5. \A i, j \in 1 .. Len(s) : i < j /\ Background(s[i]) => Background(s[j])
  BY <1>4
<1>6. PICK k \in 1 .. Len(s) + 1 :
          /\ Placed(n, s, k, r)
          /\ Background(r) => k = Len(s) + 1
          /\ ~Background(r) => /\ \A i \in 1 .. Len(s) : i < k => ~Background(s[i])
                               /\ \A i \in 1 .. Len(s) : k <= i => Background(s[i])
  <2>1. n = Enqueued(s, r)
    OBVIOUS
  <2> HIDE DEF s, n
  <2> QED
    BY <1>1, <1>5, <2>1, EnqueuedPlace
<1>7. /\ Len(n) = Len(s) + 1
      /\ \A i \in 1 .. Len(n) : n[i] = IF i < k THEN s[i] ELSE IF i = k THEN r ELSE s[i - 1]
  BY <1>6 DEF Placed
<1>8. /\ \A i \in 1 .. Len(s) : s[i].id < x
      /\ \A i, j \in 1 .. Len(s) : s[i].id = s[j].id => i = j
  <2>1. \A i \in 1 .. Len(s) : s[i].id <= p.asked
    BY <1>2 DEF Queued
  <2>2. \A i, j \in 1 .. Len(s) : s[i].id = s[j].id => i = j
    BY <1>2 DEF Queued
  <2> QED
    BY <1>1, <1>3, <2>1, <2>2
<1>9. \A a \in p.active : a.id \in Nat /\ a.id < x /\ \A i \in 1 .. Len(s) : s[i].id # a.id
  <2>1. \A a \in p.active : a \in Proper /\ a.id \in Nat
    BY PartsOfPage, ProperParts
  <2>2. \A a \in p.active : a.id <= p.asked /\ \A i \in 1 .. Len(s) : s[i].id # a.id
    BY <1>2 DEF Queued
  <2> QED
    BY <1>1, <2>1, <2>2
<1>10. r.id = x
  OBVIOUS
\* Where what was there before has gone to.
<1> DEFINE At0(i) == IF i < k THEN i ELSE i - 1
<1>11. \A i \in 1 .. Len(n) : i # k => At0(i) \in 1 .. Len(s) /\ n[i] = s[At0(i)]
  BY <1>2, <1>7
<1>12. \A i, j \in 1 .. Len(n) : i # k /\ j # k /\ i < j => At0(i) < At0(j)
  BY <1>2, <1>7
<1> HIDE DEF s, n, x
<1>13. n[k] = r /\ k \in 1 .. Len(n)
  BY <1>2, <1>7
<1>14. ASSUME NEW i \in 1 .. Len(n), NEW j \in 1 .. Len(n), i < j
       PROVE  IF Background(n[i]) = Background(n[j]) THEN n[i].id < n[j].id ELSE Background(n[j])
  <2>1. CASE i # k /\ j # k
    <3>1. /\ At0(i) \in 1 .. Len(s) /\ n[i] = s[At0(i)] /\ At0(j) \in 1 .. Len(s)
          /\ n[j] = s[At0(j)] /\ At0(i) < At0(j)
      BY <1>11, <1>12, <1>14, <2>1
    <3> HIDE DEF At0
    <3> QED
      BY <1>4, <3>1
  <2>2. CASE i = k
    <3>1. k <= At0(j) /\ At0(j) \in 1 .. Len(s) /\ n[j] = s[At0(j)]
      BY <1>2, <1>11, <1>14, <2>2
    <3> HIDE DEF At0
    <3>2. ~Background(r)
      BY <1>2, <1>6, <3>1
    <3>3. Background(n[j])
      BY <1>6, <3>1, <3>2
    <3> QED
      BY <1>13, <2>2, <3>2, <3>3
  <2>3. CASE j = k
    <3>1. i < k /\ At0(i) = i /\ i \in 1 .. Len(s) /\ n[i] = s[i]
      BY <1>2, <1>11, <1>14, <2>3
    <3>2. n[i].id < n[j].id
      BY <1>8, <1>10, <1>13, <2>3, <3>1
    <3>3. ~Background(r) => ~Background(n[i])
      BY <1>6, <3>1
    <3> QED
      BY <1>13, <2>3, <3>2, <3>3 DEF Background
  <2> QED
    BY <2>1, <2>2, <2>3
<1>15. ASSUME NEW i \in 1 .. Len(n), NEW j \in 1 .. Len(n), n[i].id = n[j].id
       PROVE  i = j
  <2>1. CASE i # k /\ j # k
    <3>1. /\ At0(i) \in 1 .. Len(s) /\ n[i] = s[At0(i)] /\ At0(j) \in 1 .. Len(s)
          /\ n[j] = s[At0(j)]
      BY <1>11, <2>1
    <3>2. At0(i) = At0(j)
      <4> HIDE DEF At0
      <4> QED BY <1>8, <1>15, <3>1
    <3> QED
      BY <1>2, <1>12, <2>1, <3>2
  <2>2. ASSUME NEW a \in 1 .. Len(n), a # k PROVE n[a].id # n[k].id
    <3>1. At0(a) \in 1 .. Len(s) /\ n[a] = s[At0(a)]
      BY <1>11, <2>2
    <3> HIDE DEF At0
    <3>2. s[At0(a)].id < x
      BY <1>8, <3>1
    <3> QED
      BY <1>1, <1>3, <1>10, <1>13, <3>1, <3>2
  <2> QED
    BY <1>15, <2>1, <2>2
<1>16. \A i \in 1 .. Len(n) : n[i].id <= x /\ \A a \in p.active : n[i].id # a.id
  <2>1. ASSUME NEW i \in 1 .. Len(n), i # k
        PROVE  n[i].id <= x /\ \A a \in p.active : n[i].id # a.id
    <3>1. At0(i) \in 1 .. Len(s) /\ n[i] = s[At0(i)]
      BY <1>11, <2>1
    <3> HIDE DEF At0
    <3> QED
      BY <1>1, <1>3, <1>8, <1>9, <3>1
  <2>2. n[k].id <= x /\ \A a \in p.active : n[k].id # a.id
    BY <1>1, <1>9, <1>10, <1>13
  <2> QED
    BY <2>1, <2>2
<1>17. Queued(q)
  <2>1. q.active = p.active /\ q.asked = x /\ DOMAIN q.queue = 1 .. Len(n) /\ q.queue = n
    BY <1>2 DEF n, x
  <2>2. \A a \in q.active : a.id <= x
    BY <1>1, <1>9, <2>1
  <2> HIDE DEF At0
  <2> QED
    BY <1>14, <1>15, <1>16, <2>1, <2>2 DEF Queued
<1>18. {n[i] : i \in 1 .. Len(n)} = {s[i] : i \in 1 .. Len(s)} \cup {r}
  <2>1. ASSUME NEW i \in 1 .. Len(s) PROVE \E j \in 1 .. Len(n) : n[j] = s[i]
    <3>1. CASE i < k
      BY <1>2, <1>7, <3>1
    <3>2. CASE ~ (i < k)
      <4>1. i + 1 \in 1 .. Len(n) /\ n[i + 1] = s[i]
        BY <1>2, <1>7, <3>2
      <4> QED BY <4>1
    <3> QED BY <3>1, <3>2
  <2>2. \A j \in 1 .. Len(n) : n[j] = r \/ \E i \in 1 .. Len(s) : n[j] = s[i]
    BY <1>11, <1>13
  <2> HIDE DEF At0
  <2> DEFINE N == {n[i] : i \in 1 .. Len(n)}
             S == {s[i] : i \in 1 .. Len(s)}
  <2>3. N \subseteq S \cup {r}
    BY <2>2
  <2>4. r \in N
    BY <1>13
  <2>5. S \subseteq N
    BY <2>1
  <2> QED
    BY <2>3, <2>4, <2>5
<1> QED
  BY <1>2, <1>17, <1>18 DEF Pending, s, n

\* A request made: it is pending with a number of its own, and the queue goes on.
LEMMA RequestedKeeps ==
    ASSUME NEW p \in Pages, loads \in Nat, worker \in Since, NEW replies \in Seq(Reply), Lined(p, replies),
           NEW task, NEW of, NEW query, NEW left,
           [id |-> p.asked + 1, task |-> task, of |-> of, query |-> query, left |-> left] \in Proper
    PROVE  LET q == Requested(p, task, of, query, left)
               r == [id |-> p.asked + 1, task |-> task, of |-> of, query |-> query, left |-> left]
           IN  /\ q \in Pages
               /\ Lined(q, replies)
               /\ Pending(q) = Pending(p) \cup {r}
               /\ Goes(p, q)
               /\ q.asked = p.asked + 1
               /\ q.refresh = p.refresh /\ q.inFlight = p.inFlight
<1> DEFINE r == [id |-> p.asked + 1, task |-> task, of |-> of, query |-> query, left |-> left]
           n == Enqueued(p.queue, r)
           s == [p EXCEPT !.asked = @ + 1, !.queue = n]
<1>1. r \in Proper /\ r.id = p.asked + 1
  OBVIOUS
<1>2. Requested(p, task, of, query, left) = Pumped(s)
  BY DEF Requested
<1> HIDE DEF r
<1>3. p.queue \in Seq(Proper) /\ DOMAIN p.queue = 1 .. Len(p.queue) /\ p.asked + 1 \in Nat
  BY PartsOfPage
<1>4. \A i, j \in 1 .. Len(p.queue) : i < j /\ Background(p.queue[i]) => Background(p.queue[j])
  BY <1>3 DEF Lined, Queued
<1>5. n \in Seq(Proper)
  BY <1>1, <1>3, <1>4, EnqueuedPlace
<1> HIDE DEF n
<1>6. /\ s \in Pages
      /\ s.active = p.active /\ s.queue = n /\ s.asked = p.asked + 1 /\ s.win = p.win
      /\ s.refresh = p.refresh /\ s.inFlight = p.inFlight /\ s.toWorker = p.toWorker
  BY <1>3, <1>5 DEF Pages
<1> HIDE DEF s
<1>7. Queued(s) /\ Pending(s) = Pending(p) \cup {r}
  BY <1>1, <1>6, EnqueuedKeeps DEF Lined, n
<1>8. OneSql(s, replies)
  BY <1>6 DEF Lined, OneSql, Single
<1>9. Goes(p, s)
  BY <1>6, <1>7 DEF Goes, Posts, Silent, ShowsSame
<1>10. /\ Pumped(s) \in Pages
       /\ Lined(Pumped(s), replies)
       /\ Pending(Pumped(s)) = Pending(s)
       /\ Goes(s, Pumped(s))
       /\ Pumped(s).asked = s.asked
       /\ Pumped(s).refresh = s.refresh /\ Pumped(s).inFlight = s.inFlight
  BY <1>6, <1>7, <1>8, PumpedKeeps DEF Lined
<1>11. Goes(p, Pumped(s))
  BY <1>9, <1>10, GoesOn
<1> QED
  BY <1>2, <1>6, <1>7, <1>10, <1>11 DEF r

-----------------------------------------------------------------------------
(* Explorers, promises, windows.                                           *)

\* What explorer e has asked for; the stage of its refresh.
Probes(p, e) == {r \in Pending(p) : r.task = "refresh" /\ r.of = e}
AtStage(p, e, op) == p.refresh[e].stages # <<>> /\ Head(p.refresh[e].stages).op = op

\* Explorers keep pace, but for those of R, which have no probe pending.
Paced(p, R) ==
    /\ \A e \in Explorers : \A r, s \in Probes(p, e) : r = s
    /\ \A e \in R : Probes(p, e) = {}
    /\ \A e \in Explorers \ R :
          /\ Probes(p, e) # {} => AtStage(p, e, "query")
          /\ worker # None /\ p.refresh[e].since = worker =>
                \/ AtStage(p, e, "query") /\ Probes(p, e) # {}
                \/ AtStage(p, e, "ensure") /\ p.inFlight[Head(p.refresh[e].stages).kind] # None

\* A message is on its way that settles the promise of schema k.
OfView(m, k) == m.op \in {"ensure", "script", "viewReady", "viewError"} /\ m.kind = k

\* Promises of this session are under way, but for those of K.
Promised(p, replies, K) ==
    \A k \in Kinds \ K : worker # None /\ p.inFlight[k] = worker =>
        \/ threw
        \/ \E i \in DOMAIN p.toWorker : OfView(p.toWorker[i], k)
        \/ \E i \in DOMAIN replies : OfView(replies[i], k)

\* What the background does of its own to a page.
UserPending(p) == {r \in Pending(p) : ~Background(r)}
Onward(p, q, replies) ==
    /\ q \in Pages /\ Lined(q, replies) /\ Goes(p, q)
    /\ UserPending(q) = UserPending(p)
    /\ \A k \in Kinds : p.inFlight[k] # None => q.inFlight[k] = p.inFlight[k]

\* One thing after the other.
LEMMA OnwardOn ==
    ASSUME NEW replies, NEW p, NEW q, NEW s, Onward(p, q, replies), Onward(q, s, replies)
    PROVE  Onward(p, s, replies)
<1>1. Goes(p, s)
  BY GoesOn DEF Onward
<1>2. \A k \in Kinds : p.inFlight[k] # None => s.inFlight[k] = p.inFlight[k]
  BY DEF Onward
<1> QED
  BY <1>1, <1>2 DEF Onward

\* ensureView: a schema is asked for, or its promise is awaited already.
LEMMA EnsuredKeeps ==
    ASSUME NEW p \in Pages, loads \in Nat, worker \in Since, NEW replies \in Seq(Reply), Lined(p, replies),
           NEW k \in Kinds, NEW K, Promised(p, replies, K)
    PROVE  LET q == Ensured(p, k)
           IN  /\ Onward(p, q, replies)
               /\ Promised(q, replies, K)
               /\ Pending(q) = Pending(p)
               /\ q.refresh = p.refresh
               /\ worker # None => q.inFlight[k] # None
<1>1. CASE p.inFlight[k] # None
  BY <1>1, GoesNowhere DEF Ensured, Onward
<1>2. CASE p.inFlight[k] = None
  <2> DEFINE f == [p.inFlight EXCEPT ![k] = worker]
             s == [p EXCEPT !.inFlight = f]
             m == [op |-> "ensure", kind |-> k]
             q == Posted(s, m)
  <2>1. Ensured(p, k) = q
    BY <1>2 DEF Ensured
  <2>2. /\ f \in [Kinds -> Since] /\ f[k] = worker
        /\ \A l \in Kinds \ {k} : f[l] = p.inFlight[l]
    BY PartsOfPage
  <2> HIDE DEF f
  <2>3. /\ s \in Pages
        /\ s.active = p.active /\ s.queue = p.queue /\ s.asked = p.asked /\ s.win = p.win
        /\ s.refresh = p.refresh /\ s.inFlight = f /\ s.toWorker = p.toWorker
    BY <2>2 DEF Pages
  <2>4. m \in Message /\ ~Sql(m) /\ OfView(m, k)
    BY DEF Message, Sql, OfView
  <2> HIDE DEF s, m
  <2>5. /\ q \in Pages
        /\ q.active = p.active /\ q.queue = p.queue /\ q.asked = p.asked /\ q.win = p.win
        /\ q.refresh = p.refresh /\ q.inFlight = f /\ q.toWorker = Append(p.toWorker, m)
    BY <2>3, <2>4, PostedParts
  <2>6. /\ Len(p.toWorker) \in Nat
        /\ DOMAIN p.toWorker = 1 .. Len(p.toWorker)
        /\ DOMAIN q.toWorker = 1 .. Len(p.toWorker) + 1
        /\ \A i \in DOMAIN p.toWorker : q.toWorker[i] = p.toWorker[i]
        /\ q.toWorker[Len(p.toWorker) + 1] = m
    <3>1. p.toWorker \in Seq(Message)
      BY PartsOfPage
    <3> QED
      BY <2>4, <2>5, <3>1
  <2> HIDE DEF q
  <2>7. Pending(q) = Pending(p)
    BY <2>5 DEF Pending
  <2>8. \A i \in DOMAIN q.toWorker : Sql(q.toWorker[i]) =>
            i \in DOMAIN p.toWorker /\ q.toWorker[i] = p.toWorker[i]
    BY <2>4, <2>6
  <2>9. \A i \in DOMAIN p.toWorker : i \in DOMAIN q.toWorker
    BY <2>6
  <2>10. Lined(q, replies)
    <3>1. Queued(q)
      BY <2>5 DEF Lined, Queued
    <3>2. OneSql(q, replies)
      BY <2>5, <2>6, <2>8, <2>9 DEF Lined, OneSql, Single
    <3> QED
      BY <3>1, <3>2 DEF Lined
  <2>11. Goes(p, q)
    <3>1. Posts(p) \subseteq Posts(q)
      BY <2>6, <2>9 DEF Posts
    <3>2. Silent(p) => Silent(q)
      BY <2>8 DEF Silent
    <3> QED
      BY <2>5, <2>7, <3>1, <3>2 DEF Goes, ShowsSame
  <2>12. Onward(p, q, replies)
    BY <1>2, <2>2, <2>5, <2>7, <2>10, <2>11 DEF Onward, UserPending
  <2>13. Promised(q, replies, K)
    <3> SUFFICES ASSUME NEW l \in Kinds \ K, worker # None, q.inFlight[l] = worker
                 PROVE  \/ threw
                        \/ \E i \in DOMAIN q.toWorker : OfView(q.toWorker[i], l)
                        \/ \E i \in DOMAIN replies : OfView(replies[i], l)
      BY DEF Promised
    <3>1. CASE l = k
      BY <2>4, <2>6, <3>1
    <3>2. CASE l # k
      BY <2>2, <2>5, <2>6, <2>9, <3>2 DEF Promised
    <3> QED
      BY <3>1, <3>2
  <2>14. worker # None => q.inFlight[k] # None
    BY <2>2, <2>5
  <2> QED
    BY <2>1, <2>5, <2>7, <2>12, <2>13, <2>14
<1> QED
  BY <1>1, <1>2

\* A promise stands as long as its message does.
LEMMA PromisedOn ==
    ASSUME NEW p \in Pages, NEW q \in Pages, NEW replies, NEW K, Promised(p, replies, K),
           Posts(p) \subseteq Posts(q), q.inFlight = p.inFlight
    PROVE  Promised(q, replies, K)
<1> SUFFICES ASSUME NEW k \in Kinds \ K, worker # None, q.inFlight[k] = worker, ~threw,
                    \A i \in DOMAIN replies : ~OfView(replies[i], k)
             PROVE  \E i \in DOMAIN q.toWorker : OfView(q.toWorker[i], k)
  BY DEF Promised
<1>1. PICK i \in DOMAIN p.toWorker : OfView(p.toWorker[i], k)
  BY DEF Promised
<1>2. p.toWorker[i] \in Posts(q)
  BY DEF Posts
<1> QED
  BY <1>1, <1>2 DEF Posts

\* What is left of a refresh.
LEMMA TodoParts ==
    ASSUME NEW p \in Pages, NEW e \in Explorers
    PROVE  /\ p.refresh[e].since \in Since /\ p.refresh[e].stages \in Seq(Stage)
           /\ p.refresh[e].stages # <<>> =>
                /\ Head(p.refresh[e].stages) \in Stage
                /\ Head(p.refresh[e].stages).op \in {"ensure", "query"}
                /\ Head(p.refresh[e].stages).op = "ensure" => Head(p.refresh[e].stages).kind \in Kinds
<1>1. p.refresh[e] \in Todo
  BY DEF Pages
<1>2. p.refresh[e].since \in Since /\ p.refresh[e].stages \in Seq(Stage)
  BY <1>1 DEF Todo
<1>3. ASSUME NEW s \in Stage PROVE s.op \in {"ensure", "query"} /\ (s.op = "ensure" => s.kind \in Kinds)
  BY DEF Stage
<1>4. p.refresh[e].stages # <<>> => Head(p.refresh[e].stages) \in Stage
  BY <1>2
<1> QED
  BY <1>2, <1>3, <1>4

\* One explorer takes a step, and keeps pace after it.
LEMMA PacedBut ==
    ASSUME NEW p, NEW q, NEW R \in SUBSET Explorers, NEW e \in Explorers, Paced(p, R),
           \A f \in Explorers \ {e} : q.refresh[f] = p.refresh[f] /\ Probes(q, f) = Probes(p, f),
           \A f \in Explorers : AtStage(p, f, "ensure") =>
               LET k == Head(p.refresh[f].stages).kind
               IN  p.inFlight[k] # None => q.inFlight[k] # None,
           \A r, s \in Probes(q, e) : r = s,
           Probes(q, e) # {} => AtStage(q, e, "query"),
           worker # None /\ q.refresh[e].since = worker =>
               \/ AtStage(q, e, "query") /\ Probes(q, e) # {}
               \/ AtStage(q, e, "ensure") /\ q.inFlight[Head(q.refresh[e].stages).kind] # None
    PROVE  Paced(q, R \ {e})
<1>1. ASSUME NEW f \in Explorers PROVE \A r, s \in Probes(q, f) : r = s
  BY DEF Paced
<1>2. ASSUME NEW f \in R \ {e} PROVE Probes(q, f) = {}
  BY <1>2 DEF Paced
<1>3. ASSUME NEW f \in Explorers \ (R \ {e}), f # e
      PROVE  /\ Probes(q, f) # {} => AtStage(q, f, "query")
             /\ worker # None /\ q.refresh[f].since = worker =>
                  \/ AtStage(q, f, "query") /\ Probes(q, f) # {}
                  \/ AtStage(q, f, "ensure") /\ q.inFlight[Head(q.refresh[f].stages).kind] # None
  <2>1. f \in Explorers \ R /\ q.refresh[f] = p.refresh[f] /\ Probes(q, f) = Probes(p, f)
    BY <1>3
  <2>2. /\ Probes(p, f) # {} => AtStage(p, f, "query")
        /\ worker # None /\ p.refresh[f].since = worker =>
             \/ AtStage(p, f, "query") /\ Probes(p, f) # {}
             \/ AtStage(p, f, "ensure") /\ p.inFlight[Head(p.refresh[f].stages).kind] # None
    BY <2>1 DEF Paced
  <2> QED
    BY <2>1, <2>2 DEF AtStage
<1>4. \A f \in Explorers \ (R \ {e}) : f = e \/ f # e
  OBVIOUS
<1> QED
  BY <1>1, <1>2, <1>3, <1>4 DEF Paced

\* What a step of an explorer leaves.
Kept(p, q, replies, R, K) == Onward(p, q, replies) /\ Paced(q, R) /\ Promised(q, replies, K)

\* The stage explorer e has come to begins: its probe is queued, or its schema asked for.
LEMMA BegunKeeps ==
    ASSUME NEW p \in Pages, loads \in Nat, worker \in Since, NEW replies \in Seq(Reply), Lined(p, replies),
           NEW R \in SUBSET Explorers, NEW e \in R, Paced(p, R), NEW K, Promised(p, replies, K)
    PROVE  /\ Kept(p, Begun(p, e), replies, R \ {e}, K)
           /\ \A f \in Explorers \ {e} : Begun(p, e).refresh[f] = p.refresh[f]
<1> DEFINE todo == p.refresh[e].stages
<1>1. /\ e \in Explorers /\ todo \in Seq(Stage)
      /\ todo # <<>> => /\ Head(todo).op \in {"ensure", "query"}
                        /\ Head(todo).op = "ensure" => Head(todo).kind \in Kinds
  BY TodoParts
<1>2. Probes(p, e) = {}
  BY DEF Paced
<1>3. CASE todo = <<>>
  <2> DEFINE t == [p.refresh EXCEPT ![e] = NotRefreshing]
             q == [p EXCEPT !.refresh = t]
  <2>1. Begun(p, e) = q
    BY <1>3 DEF Begun
  <2>2. NotRefreshing \in Todo /\ NotRefreshing.since = None
    BY DEF NotRefreshing, Todo, None, Since
  <2>3. /\ t \in [Explorers -> Todo] /\ t[e] = NotRefreshing
        /\ \A f \in Explorers \ {e} : t[f] = p.refresh[f]
    BY <1>1, <2>2, PartsOfPage
  <2> HIDE DEF t
  <2>4. /\ q \in Pages
        /\ q.active = p.active /\ q.queue = p.queue /\ q.asked = p.asked /\ q.win = p.win
        /\ q.refresh = t /\ q.inFlight = p.inFlight /\ q.toWorker = p.toWorker
    BY <2>3 DEF Pages
  <2> HIDE DEF q
  <2>5. Pending(q) = Pending(p)
    BY <2>4 DEF Pending
  <2>6. Lined(q, replies)
    BY <2>4 DEF Lined, OneSql, Single, Queued
  <2>7. Goes(p, q)
    BY <2>4, <2>5 DEF Goes, Posts, Silent, ShowsSame
  <2>8. Onward(p, q, replies)
    BY <2>4, <2>5, <2>6, <2>7 DEF Onward, UserPending
  <2>9. Promised(q, replies, K)
    BY <2>4 DEF Promised
  <2>10. Probes(q, e) = {} /\ \A f \in Explorers : Probes(q, f) = Probes(p, f)
    BY <1>1, <1>2, <2>5 DEF Probes
  <2>11. Paced(q, R \ {e})
    <3>1. q.refresh[e].since = None
      BY <2>2, <2>3, <2>4
    <3>2. \A f \in Explorers \ {e} : q.refresh[f] = p.refresh[f] /\ Probes(q, f) = Probes(p, f)
      BY <2>3, <2>4, <2>10
    <3> QED
      BY <1>1, <2>4, <2>10, <3>1, <3>2, PacedBut
  <2> QED
    BY <2>1, <2>3, <2>4, <2>8, <2>9, <2>11 DEF Kept
<1>4. CASE todo # <<>> /\ Head(todo).op = "ensure"
  <2> DEFINE k == Head(todo).kind
             q == Ensured(p, k)
  <2>1. Begun(p, e) = q /\ k \in Kinds
    BY <1>1, <1>4 DEF Begun
  <2> HIDE DEF k
  <2>2. /\ Onward(p, q, replies)
        /\ Promised(q, replies, K)
        /\ Pending(q) = Pending(p)
        /\ q.refresh = p.refresh
        /\ worker # None => q.inFlight[k] # None
    BY <2>1, EnsuredKeeps
  <2> HIDE DEF q
  <2>3. Probes(q, e) = {} /\ \A f \in Explorers : Probes(q, f) = Probes(p, f)
    BY <1>1, <1>2, <2>2 DEF Probes
  <2>4. AtStage(q, e, "ensure") /\ Head(q.refresh[e].stages).kind = k
    BY <1>4, <2>2 DEF AtStage, k
  <2>5. \A f \in Explorers : AtStage(p, f, "ensure") => Head(p.refresh[f].stages).kind \in Kinds
    BY TodoParts DEF AtStage
  <2>6. \A l \in Kinds : p.inFlight[l] # None => q.inFlight[l] # None
    BY <2>2 DEF Onward
  <2>7. Paced(q, R \ {e})
    BY <1>1, <2>2, <2>3, <2>4, <2>5, <2>6, PacedBut
  <2> QED
    BY <2>1, <2>2, <2>7 DEF Kept
<1>5. CASE todo # <<>> /\ Head(todo).op = "query"
  <2> DEFINE q == Requested(p, "refresh", e, None, 0)
             r == [id |-> p.asked + 1, task |-> "refresh", of |-> e, query |-> None, left |-> 0]
  <2>1. Begun(p, e) = q
    BY <1>5 DEF Begun
  <2>2. r \in Proper /\ Background(r)
    <3>1. p.asked + 1 \in Nat /\ 0 \in 0 .. Statements /\ None \in Nat
      BY PartsOfPage, SessionConstants DEF None
    <3>2. r \in Request
      BY <1>1, <3>1 DEF Request
    <3> QED
      BY <1>1, <3>2 DEF Proper, Background
  <2>3. /\ q \in Pages
        /\ Lined(q, replies)
        /\ Pending(q) = Pending(p) \cup {r}
        /\ Goes(p, q)
        /\ q.refresh = p.refresh /\ q.inFlight = p.inFlight
    BY <2>2, RequestedKeeps
  <2>4. r.task = "refresh" /\ r.of = e
    OBVIOUS
  <2> HIDE DEF q, r
  <2>5. Probes(q, e) = {r} /\ \A f \in Explorers \ {e} : Probes(q, f) = Probes(p, f)
    BY <1>1, <1>2, <2>3, <2>4 DEF Probes
  <2>6. UserPending(q) = UserPending(p)
    BY <2>2, <2>3 DEF UserPending
  <2>7. Onward(p, q, replies)
    BY <2>3, <2>6 DEF Onward
  <2>8. Promised(q, replies, K)
    BY <2>3, PromisedOn DEF Goes
  <2>9. AtStage(q, e, "query")
    BY <1>5, <2>3 DEF AtStage
  <2>10. Paced(q, R \ {e})
    BY <1>1, <2>3, <2>5, <2>9, PacedBut
  <2> QED
    BY <2>1, <2>3, <2>7, <2>8, <2>10 DEF Kept
<1> QED
  BY <1>1, <1>3, <1>4, <1>5

\* A refresh goes on to its next stage.
LEMMA AdvancedKeeps ==
    ASSUME NEW p \in Pages, loads \in Nat, worker \in Since, NEW replies \in Seq(Reply), Lined(p, replies),
           NEW R \in SUBSET Explorers, NEW e \in R, Paced(p, R), NEW K, Promised(p, replies, K),
           p.refresh[e].stages # <<>>
    PROVE  /\ Kept(p, Advanced(p, e), replies, R \ {e}, K)
           /\ \A f \in Explorers \ {e} : Advanced(p, e).refresh[f] = p.refresh[f]
<1> DEFINE n == [p.refresh[e] EXCEPT !.stages = Tail(@)]
           t == [p.refresh EXCEPT ![e] = n]
           s == [p EXCEPT !.refresh = t]
<1>1. e \in Explorers /\ p.refresh[e] \in Todo
  BY DEF Pages
<1>2. n \in Todo
  <2> DEFINE u == Tail(p.refresh[e].stages)
  <2>1. u \in Seq(Stage)
    BY <1>1, TodoParts
  <2>2. n = [p.refresh[e] EXCEPT !.stages = u]
    OBVIOUS
  <2> HIDE DEF u, n
  <2> QED
    BY <1>1, <2>1, <2>2 DEF Todo
<1>3. Advanced(p, e) = Begun(s, e)
  BY DEF Advanced
<1> HIDE DEF n
<1>4. /\ t \in [Explorers -> Todo]
      /\ \A f \in Explorers \ {e} : t[f] = p.refresh[f]
  BY <1>1, <1>2, PartsOfPage
<1> HIDE DEF t
<1>5. /\ s \in Pages
      /\ s.active = p.active /\ s.queue = p.queue /\ s.asked = p.asked /\ s.win = p.win
      /\ s.refresh = t /\ s.inFlight = p.inFlight /\ s.toWorker = p.toWorker
  BY <1>4 DEF Pages
<1> HIDE DEF s
<1>6. Pending(s) = Pending(p)
  BY <1>5 DEF Pending
<1>7. Lined(s, replies)
  BY <1>5 DEF Lined, OneSql, Single, Queued
<1>8. Goes(p, s)
  BY <1>5, <1>6 DEF Goes, Posts, Silent, ShowsSame
<1>9. Onward(p, s, replies)
  BY <1>5, <1>6, <1>7, <1>8 DEF Onward, UserPending
<1>10. Promised(s, replies, K)
  BY <1>5 DEF Promised
<1>11. \A f \in Explorers : Probes(s, f) = Probes(p, f)
  BY <1>6 DEF Probes
<1>12. Paced(s, R)
  <2>1. ASSUME NEW f \in Explorers \ R
        PROVE  /\ Probes(s, f) # {} => AtStage(s, f, "query")
               /\ worker # None /\ s.refresh[f].since = worker =>
                    \/ AtStage(s, f, "query") /\ Probes(s, f) # {}
                    \/ AtStage(s, f, "ensure") /\ s.inFlight[Head(s.refresh[f].stages).kind] # None
    <3>1. s.refresh[f] = p.refresh[f] /\ Probes(s, f) = Probes(p, f)
      BY <1>4, <1>5, <1>11
    <3>2. /\ Probes(p, f) # {} => AtStage(p, f, "query")
          /\ worker # None /\ p.refresh[f].since = worker =>
               \/ AtStage(p, f, "query") /\ Probes(p, f) # {}
               \/ AtStage(p, f, "ensure") /\ p.inFlight[Head(p.refresh[f].stages).kind] # None
      BY DEF Paced
    <3> QED
      BY <1>5, <3>1, <3>2 DEF AtStage
  <2> QED
    BY <1>11, <2>1 DEF Paced
<1>13. /\ Kept(s, Begun(s, e), replies, R \ {e}, K)
       /\ \A f \in Explorers \ {e} : Begun(s, e).refresh[f] = s.refresh[f]
  BY <1>5, <1>7, <1>10, <1>12, BegunKeeps
<1>14. Onward(p, Begun(s, e), replies)
  BY <1>9, <1>13, OnwardOn DEF Kept
<1> QED
  BY <1>3, <1>4, <1>5, <1>13, <1>14 DEF Kept

\* The stages of a refresh.
LEMMA StagesType ==
    ASSUME NEW e \in Explorers
    PROVE  Stages(e) \in Seq(Stage)
<1> DEFINE q == [i \in 1 .. Queries |-> [op |-> "query", kind |-> None]]
<1>1. ASSUME NEW k \in Kinds PROVE Ensuring(e, k) \in Seq(Stage)
  <2> DEFINE m == [op |-> "ensure", kind |-> k]
  <2>1. m \in Stage
    BY DEF Stage
  <2>2. Ensuring(e, k) = IF k \in Wants[e] THEN <<m>> ELSE <<>>
    BY DEF Ensuring
  <2> HIDE DEF m
  <2> QED
    BY <2>1, <2>2
<1>2. q \in Seq(Stage)
  <2>1. [op |-> "query", kind |-> None] \in Stage /\ Queries \in Nat
    BY SessionConstants DEF Stage
  <2> QED
    BY <2>1
<1> HIDE DEF q
<1>3. 1 \in Kinds /\ 2 \in Kinds
  BY DEF Kinds
<1>4. Ensuring(e, 1) \o Ensuring(e, 2) \in Seq(Stage)
  BY <1>1, <1>3
<1>5. (Ensuring(e, 1) \o Ensuring(e, 2)) \o q \in Seq(Stage)
  BY <1>2, <1>4
<1> QED
  BY <1>5 DEF Stages, q

\* Nothing at all.
LEMMA KeptAsItIs ==
    ASSUME NEW p \in Pages, NEW replies, Lined(p, replies), NEW R, Paced(p, R), NEW K,
           Promised(p, replies, K)
    PROVE  Kept(p, p, replies, R, K)
  BY GoesNowhere DEF Kept, Onward

\* A refresh is begun where none is under way.
LEMMA RefreshedKeeps ==
    ASSUME NEW p \in Pages, loads \in Nat, worker \in Since, NEW replies \in Seq(Reply), Lined(p, replies),
           Paced(p, {}), NEW K, Promised(p, replies, K), NEW e \in Explorers
    PROVE  Kept(p, Refreshed(p, e), replies, {}, K)
<1>1. CASE worker = None \/ p.refresh[e].stages # <<>>
  BY <1>1, KeptAsItIs DEF Refreshed
<1>2. CASE worker # None /\ p.refresh[e].stages = <<>>
  <2> DEFINE n == [since |-> worker, stages |-> Stages(e)]
             t == [p.refresh EXCEPT ![e] = n]
             s == [p EXCEPT !.refresh = t]
  <2>1. Refreshed(p, e) = Begun(s, e)
    BY <1>2 DEF Refreshed
  <2>2. n \in Todo
    BY StagesType DEF Todo
  <2> HIDE DEF n
  <2>3. t \in [Explorers -> Todo] /\ \A f \in Explorers \ {e} : t[f] = p.refresh[f]
    BY <2>2, PartsOfPage
  <2> HIDE DEF t
  <2>4. /\ s \in Pages
        /\ s.active = p.active /\ s.queue = p.queue /\ s.asked = p.asked /\ s.win = p.win
        /\ s.refresh = t /\ s.inFlight = p.inFlight /\ s.toWorker = p.toWorker
    BY <2>3 DEF Pages
  <2> HIDE DEF s
  <2>5. Pending(s) = Pending(p)
    BY <2>4 DEF Pending
  <2>6. Lined(s, replies)
    BY <2>4 DEF Lined, OneSql, Single, Queued
  <2>7. Goes(p, s)
    BY <2>4, <2>5 DEF Goes, Posts, Silent, ShowsSame
  <2>8. Onward(p, s, replies)
    BY <2>4, <2>5, <2>6, <2>7 DEF Onward, UserPending
  <2>9. Promised(s, replies, K)
    BY <2>4 DEF Promised
  <2>10. \A f \in Explorers : Probes(s, f) = Probes(p, f)
    BY <2>5 DEF Probes
  <2>11. Probes(s, e) = {}
    BY <1>2, <2>10 DEF Paced, AtStage
  <2>12. Paced(s, {e})
    <3>1. ASSUME NEW f \in Explorers \ {e}
          PROVE  /\ Probes(s, f) # {} => AtStage(s, f, "query")
                 /\ worker # None /\ s.refresh[f].since = worker =>
                      \/ AtStage(s, f, "query") /\ Probes(s, f) # {}
                      \/ AtStage(s, f, "ensure") /\ s.inFlight[Head(s.refresh[f].stages).kind] # None
      <4>1. s.refresh[f] = p.refresh[f] /\ Probes(s, f) = Probes(p, f)
        BY <2>3, <2>4, <2>10
      <4>2. /\ Probes(p, f) # {} => AtStage(p, f, "query")
            /\ worker # None /\ p.refresh[f].since = worker =>
                 \/ AtStage(p, f, "query") /\ Probes(p, f) # {}
                 \/ AtStage(p, f, "ensure") /\ p.inFlight[Head(p.refresh[f].stages).kind] # None
        BY DEF Paced
      <4> QED
        BY <2>4, <4>1, <4>2 DEF AtStage
    <3>2. \A f \in Explorers : \A x, y \in Probes(s, f) : x = y
      BY <2>10 DEF Paced
    <3> QED
      BY <2>11, <3>1, <3>2 DEF Paced
  <2>13. Kept(s, Begun(s, e), replies, {e} \ {e}, K)
    BY <2>4, <2>6, <2>9, <2>12, BegunKeeps
  <2>14. {e} \ {e} = {}
    OBVIOUS
  <2>15. Onward(p, Begun(s, e), replies)
    BY <2>8, <2>13, OnwardOn DEF Kept
  <2> QED
    BY <2>1, <2>13, <2>14, <2>15 DEF Kept
<1> QED
  BY <1>1, <1>2

-----------------------------------------------------------------------------
(* The loops over explorers.                                               *)

\* The elements of a finite set one by one.
LEMMA OneByOne ==
    ASSUME NEW S, IsFiniteSet(S)
    PROVE  /\ SetToSeq(S) \in Seq(S) /\ Len(SetToSeq(S)) \in Nat
           /\ \A i \in 1 .. Len(SetToSeq(S)) : SetToSeq(S)[i] \in S
           /\ \A i, j \in 1 .. Len(SetToSeq(S)) : SetToSeq(S)[i] = SetToSeq(S)[j] => i = j
           /\ \A x \in S : \E i \in 1 .. Len(SetToSeq(S)) : SetToSeq(S)[i] = x
<1> DEFINE n == Cardinality(S)
           q == SetToSeq(S)
<1>1. n \in Nat /\ Bijection(1 .. n, S) # {}
  BY FS_CardinalityType DEF ExistsBijection
<1>2. \E f \in [1 .. n -> S] : IsInjective(f)
  BY <1>1 DEF Bijection, Injection
<1>3. q \in [1 .. n -> S] /\ IsInjective(q)
  BY <1>2 DEF SetToSeq
<1> HIDE DEF q
<1>4. q \in Injection(1 .. n, S)
  BY <1>3 DEF Injection
<1>5. IsFiniteSet(1 .. n) /\ Cardinality(1 .. n) = n
  BY <1>1, FS_Interval
<1>6. q \in Surjection(1 .. n, S)
  BY <1>4, <1>5, FS_Injection
<1>7. Len(q) = n /\ q \in Seq(S)
  BY <1>1, <1>3
<1>8. \A i, j \in 1 .. n : q[i] = q[j] => i = j
  BY <1>3 DEF IsInjective
<1>9. \A x \in S : \E i \in 1 .. n : q[i] = x
  BY <1>6 DEF Surjection
<1> QED
  BY <1>1, <1>3, <1>7, <1>8, <1>9 DEF q

\* RefreshAll goes over the explorers one by one.
RefreshLoop(f, p, s) ==
    [n \in 0 .. Len(s) |-> IF n = 0 THEN p ELSE Refreshed(f[n - 1], s[n])]

\* ... so it comes to its end.
LEMMA RefreshLoopExists ==
    ASSUME NEW p, NEW s, Len(s) \in Nat
    PROVE  \E f : f = RefreshLoop(f, p, s)
<1> DEFINE Upto(f, n) == f = [i \in 0 .. n |-> IF i = 0 THEN p ELSE Refreshed(f[i - 1], s[i])]
           B == {n \in Nat : ~ \E f : Upto(f, n)}
<1>1. ASSUME B # {} PROVE FALSE
  <2>1. PICK m \in B : \A n \in B : m <= n
    <3>1. B \in SUBSET Nat
      OBVIOUS
    <3> HIDE DEF B
    <3> QED
      BY <1>1, <3>1, LeastElement
  <2>2. m \in Nat /\ ~ \E f : Upto(f, m)
    OBVIOUS
  <2>3. CASE m = 0
    <3> DEFINE f == [i \in 0 .. 0 |-> p]
    <3>1. Upto(f, 0)
      OBVIOUS
    <3> QED
      BY <2>2, <2>3, <3>1
  <2>4. CASE m # 0
    <3>1. m - 1 \in Nat /\ m - 1 \notin B
      <4>1. m - 1 \in Nat /\ ~ (m <= m - 1)
        BY <2>2, <2>4
      <4> HIDE DEF B
      <4> QED
        BY <2>1, <4>1
    <3>2. PICK g : Upto(g, m - 1)
      BY <3>1
    <3> DEFINE h == [i \in 0 .. m |-> IF i = m THEN Refreshed(g[m - 1], s[m]) ELSE g[i]]
    <3>3. \A i \in 0 .. m - 1 : g[i] = IF i = 0 THEN p ELSE Refreshed(g[i - 1], s[i])
      BY <3>2
    <3>4. \A i \in 0 .. m - 1 : h[i] = g[i]
      BY <2>2
    <3>5. h[m] = Refreshed(g[m - 1], s[m])
      BY <2>2
    <3>6. ASSUME NEW i \in 0 .. m
          PROVE  h[i] = IF i = 0 THEN p ELSE Refreshed(h[i - 1], s[i])
      <4>1. CASE i = m
        <5>1. h[m - 1] = g[m - 1]
          BY <2>2, <2>4, <3>4
        <5> HIDE DEF h
        <5> QED
          BY <2>4, <3>5, <4>1, <5>1
      <4>2. CASE i # m
        <5>1. i \in 0 .. m - 1 /\ (i # 0 => i - 1 \in 0 .. m - 1)
          BY <2>2, <4>2
        <5> HIDE DEF h
        <5> QED
          BY <3>3, <3>4, <5>1
      <4> QED
        BY <4>1, <4>2
    <3>7. Upto(h, m)
      <4>1. h = [i \in 0 .. m |-> h[i]]
        OBVIOUS
      <4> HIDE DEF h
      <4> QED
        BY <3>6, <4>1
    <3> QED
      BY <2>2, <3>7
  <2> QED
    BY <2>3, <2>4
<1>2. \E f : Upto(f, Len(s))
  BY <1>1
<1> QED
  BY <1>2 DEF RefreshLoop

\* Every explorer is refreshed, one after the other.
LEMMA RefreshAllKeeps ==
    ASSUME NEW p \in Pages, loads \in Nat, worker \in Since, NEW replies \in Seq(Reply), Lined(p, replies),
           Paced(p, {}), NEW K, Promised(p, replies, K)
    PROVE  Kept(p, RefreshAll(p), replies, {}, K)
<1> DEFINE s == SetToSeq(Explorers)
           f == CHOOSE g : g = RefreshLoop(g, p, s)
           N == Len(s)
<1>1. RefreshAll(p) = f[N]
  BY DEF RefreshAll, RefreshLoop
<1>2. N \in Nat /\ \A i \in 1 .. N : s[i] \in Explorers
  BY OneByOne, SessionConstants
<1> HIDE DEF s
<1>3. f = RefreshLoop(f, p, s)
  BY <1>2, RefreshLoopExists
<1> HIDE DEF f
<1>4. f[0] = p /\ \A n \in 1 .. N : f[n] = Refreshed(f[n - 1], s[n])
  <2>1. \A n \in 0 .. N : f[n] = IF n = 0 THEN p ELSE Refreshed(f[n - 1], s[n])
    BY <1>3 DEF RefreshLoop
  <2> QED
    BY <1>2, <2>1
<1> HIDE DEF N
<1> DEFINE B == {n \in 0 .. N : ~Kept(p, f[n], replies, {}, K)}
<1>5. ASSUME B # {} PROVE FALSE
  <2>1. PICK m \in B : \A n \in B : m <= n
    <3>1. B \in SUBSET Nat
      BY <1>2
    <3> HIDE DEF B
    <3> QED
      BY <1>5, <3>1, LeastElement
  <2>2. m \in 0 .. N /\ ~Kept(p, f[m], replies, {}, K)
    OBVIOUS
  <2>3. m # 0
    BY <1>4, <2>2, KeptAsItIs
  <2>4. m \in 1 .. N /\ m - 1 \in 0 .. N /\ m - 1 \notin B
    BY <1>2, <2>1, <2>2, <2>3
  <2> DEFINE q == f[m - 1]
  <2>5. Kept(p, q, replies, {}, K)
    BY <2>4
  <2>6. f[m] = Refreshed(q, s[m]) /\ s[m] \in Explorers
    BY <1>2, <1>4, <2>4
  <2> HIDE DEF q
  <2>7. Kept(q, Refreshed(q, s[m]), replies, {}, K)
    BY <2>5, <2>6, RefreshedKeeps DEF Kept, Onward
  <2>8. Kept(p, f[m], replies, {}, K)
    BY <2>5, <2>6, <2>7, OnwardOn DEF Kept
  <2> QED
    BY <2>2, <2>8
<1>6. N \in 0 .. N /\ N \notin B
  BY <1>2, <1>5
<1>7. Kept(p, f[N], replies, {}, K)
  BY <1>6
<1> QED
  BY <1>1, <1>7 DEF N

\* Settled goes over those who wait for a promise.
AdvanceLoop(f, p, s) ==
    [n \in 0 .. Len(s) |-> IF n = 0 THEN p ELSE Advanced(f[n - 1], s[n])]

\* ... so it comes to its end.
LEMMA AdvanceLoopExists ==
    ASSUME NEW p, NEW s, Len(s) \in Nat
    PROVE  \E f : f = AdvanceLoop(f, p, s)
<1> DEFINE Upto(f, n) == f = [i \in 0 .. n |-> IF i = 0 THEN p ELSE Advanced(f[i - 1], s[i])]
           B == {n \in Nat : ~ \E f : Upto(f, n)}
<1>1. ASSUME B # {} PROVE FALSE
  <2>1. PICK m \in B : \A n \in B : m <= n
    <3>1. B \in SUBSET Nat
      OBVIOUS
    <3> HIDE DEF B
    <3> QED
      BY <1>1, <3>1, LeastElement
  <2>2. m \in Nat /\ ~ \E f : Upto(f, m)
    OBVIOUS
  <2>3. CASE m = 0
    <3> DEFINE f == [i \in 0 .. 0 |-> p]
    <3>1. Upto(f, 0)
      OBVIOUS
    <3> QED
      BY <2>2, <2>3, <3>1
  <2>4. CASE m # 0
    <3>1. m - 1 \in Nat /\ m - 1 \notin B
      <4>1. m - 1 \in Nat /\ ~ (m <= m - 1)
        BY <2>2, <2>4
      <4> HIDE DEF B
      <4> QED
        BY <2>1, <4>1
    <3>2. PICK g : Upto(g, m - 1)
      BY <3>1
    <3> DEFINE h == [i \in 0 .. m |-> IF i = m THEN Advanced(g[m - 1], s[m]) ELSE g[i]]
    <3>3. \A i \in 0 .. m - 1 : g[i] = IF i = 0 THEN p ELSE Advanced(g[i - 1], s[i])
      BY <3>2
    <3>4. \A i \in 0 .. m - 1 : h[i] = g[i]
      BY <2>2
    <3>5. h[m] = Advanced(g[m - 1], s[m])
      BY <2>2
    <3>6. ASSUME NEW i \in 0 .. m
          PROVE  h[i] = IF i = 0 THEN p ELSE Advanced(h[i - 1], s[i])
      <4>1. CASE i = m
        <5>1. h[m - 1] = g[m - 1]
          BY <2>2, <2>4, <3>4
        <5> HIDE DEF h
        <5> QED
          BY <2>4, <3>5, <4>1, <5>1
      <4>2. CASE i # m
        <5>1. i \in 0 .. m - 1 /\ (i # 0 => i - 1 \in 0 .. m - 1)
          BY <2>2, <4>2
        <5> HIDE DEF h
        <5> QED
          BY <3>3, <3>4, <5>1
      <4> QED
        BY <4>1, <4>2
    <3>7. Upto(h, m)
      <4>1. h = [i \in 0 .. m |-> h[i]]
        OBVIOUS
      <4> HIDE DEF h
      <4> QED
        BY <3>6, <4>1
    <3> QED
      BY <2>2, <3>7
  <2> QED
    BY <2>3, <2>4
<1>2. \E f : Upto(f, Len(s))
  BY <1>1
<1> QED
  BY <1>2 DEF AdvanceLoop

\* The promise of schema k settles: nobody awaits it any more, and every explorer
\* that did has gone on to something that is queued or on its way.
LEMMA SettledKeeps ==
    ASSUME NEW p \in Pages, loads \in Nat, worker \in Since, NEW replies \in Seq(Reply), Lined(p, replies),
           NEW k \in Kinds, Paced(p, {}), NEW K \in SUBSET {k}, Promised(p, replies, K)
    PROVE  LET q == Settled(p, k)
           IN  /\ q \in Pages /\ Lined(q, replies) /\ Goes(p, q) /\ UserPending(q) = UserPending(p)
               /\ Paced(q, {}) /\ Promised(q, replies, {})
<1> DEFINE W == Awaiting(p, k)
           s == SetToSeq(W)
           z == [p.inFlight EXCEPT ![k] = None]
           p0 == [p EXCEPT !.inFlight = z]
           f == CHOOSE g : g = AdvanceLoop(g, p0, s)
           N == Len(s)
           \* Those of W who have not gone on after n steps.
           Left(n) == {s[i] : i \in n + 1 .. N}
<1>1. Settled(p, k) = f[N]
  BY DEF Settled, AdvanceLoop
<1>2. /\ N \in Nat /\ \A i \in 1 .. N : s[i] \in W
      /\ \A i, j \in 1 .. N : s[i] = s[j] => i = j
      /\ \A e \in W : \E i \in 1 .. N : s[i] = e
  <2>1. IsFiniteSet(W)
    BY FS_Subset, SessionConstants DEF Awaiting
  <2> HIDE DEF W
  <2> QED
    BY <2>1, OneByOne
<1> HIDE DEF s
<1>3. f = AdvanceLoop(f, p0, s)
  BY <1>2, AdvanceLoopExists
<1> HIDE DEF f
<1>4. f[0] = p0 /\ \A n \in 1 .. N : f[n] = Advanced(f[n - 1], s[n])
  <2>1. \A n \in 0 .. N : f[n] = IF n = 0 THEN p0 ELSE Advanced(f[n - 1], s[n])
    BY <1>3 DEF AdvanceLoop
  <2> HIDE DEF p0
  <2> QED
    BY <1>2, <2>1
<1>5. W \in SUBSET Explorers /\ \A e \in W : p.refresh[e].stages # <<>>
  BY DEF Awaiting
<1>6. /\ z \in [Kinds -> Since] /\ z[k] = None
      /\ \A l \in Kinds \ {k} : z[l] = p.inFlight[l]
  BY PartsOfPage DEF None, Since
<1> HIDE DEF z
<1>7. /\ p0 \in Pages
      /\ p0.active = p.active /\ p0.queue = p.queue /\ p0.asked = p.asked /\ p0.win = p.win
      /\ p0.refresh = p.refresh /\ p0.inFlight = z /\ p0.toWorker = p.toWorker
  BY <1>6 DEF Pages
<1> HIDE DEF p0
<1>8. Pending(p0) = Pending(p) /\ Lined(p0, replies) /\ Goes(p, p0)
  <2>1. Pending(p0) = Pending(p)
    BY <1>7 DEF Pending
  <2>2. Lined(p0, replies)
    BY <1>7 DEF Lined, OneSql, Single, Queued
  <2>3. Goes(p, p0)
    BY <1>7, <2>1 DEF Goes, Posts, Silent, ShowsSame
  <2> QED
    BY <2>1, <2>2, <2>3
<1>9. Promised(p0, replies, {})
  <2> SUFFICES ASSUME NEW l \in Kinds, worker # None, p0.inFlight[l] = worker
               PROVE  \/ threw
                      \/ \E i \in DOMAIN p0.toWorker : OfView(p0.toWorker[i], l)
                      \/ \E i \in DOMAIN replies : OfView(replies[i], l)
    BY DEF Promised
  <2>1. l # k /\ p.inFlight[l] = worker
    BY <1>6, <1>7
  <2> QED
    BY <1>7, <2>1 DEF Promised
<1>10. Paced(p0, W)
  <2>1. \A e \in Explorers : Probes(p0, e) = Probes(p, e)
    BY <1>8 DEF Probes
  <2>2. ASSUME NEW e \in W PROVE Probes(p0, e) = {}
    <3>1. ~AtStage(p, e, "query")
      BY DEF Awaiting, AtStage
    <3> QED
      BY <1>5, <2>1, <3>1 DEF Paced
  <2>3. ASSUME NEW e \in Explorers \ W
        PROVE  /\ Probes(p0, e) # {} => AtStage(p0, e, "query")
               /\ worker # None /\ p0.refresh[e].since = worker =>
                    \/ AtStage(p0, e, "query") /\ Probes(p0, e) # {}
                    \/ AtStage(p0, e, "ensure") /\ p0.inFlight[Head(p0.refresh[e].stages).kind] # None
    <3>1. /\ Probes(p, e) # {} => AtStage(p, e, "query")
          /\ worker # None /\ p.refresh[e].since = worker =>
               \/ AtStage(p, e, "query") /\ Probes(p, e) # {}
               \/ AtStage(p, e, "ensure") /\ p.inFlight[Head(p.refresh[e].stages).kind] # None
      BY DEF Paced
    <3>2. ASSUME AtStage(p, e, "ensure")
          PROVE  z[Head(p.refresh[e].stages).kind] = p.inFlight[Head(p.refresh[e].stages).kind]
      <4> DEFINE h == Head(p.refresh[e].stages)
      <4>1. h \in Stage /\ h.op = "ensure" /\ h.kind \in Kinds
        BY <3>2, TodoParts DEF AtStage
      <4>2. h # [op |-> "ensure", kind |-> k]
        BY <3>2 DEF Awaiting, AtStage
      <4> HIDE DEF h
      <4>3. h \in [op : {"ensure"}, kind : Kinds]
        BY <4>1 DEF Stage
      <4>4. h.kind # k
        BY <4>2, <4>3
      <4>5. z[h.kind] = p.inFlight[h.kind]
        BY <1>6, <4>1, <4>4
      <4> QED
        BY <4>5 DEF h
    <3> QED
      BY <1>7, <2>1, <3>1, <3>2 DEF AtStage
  <2>4. \A e \in Explorers : \A r, x \in Probes(p0, e) : r = x
    BY <2>1 DEF Paced
  <2> HIDE DEF W
  <2> QED
    BY <2>2, <2>3, <2>4 DEF Paced
<1> HIDE DEF W, N
<1> DEFINE J(n) == /\ Kept(p0, f[n], replies, Left(n), {})
                   /\ \A e \in Left(n) : f[n].refresh[e] = p.refresh[e]
           B == {n \in 0 .. N : ~J(n)}
<1>11. Left(0) = W /\ Left(N) = {}
  <2>1. \A i \in 0 + 1 .. N : i \in 1 .. N
    BY <1>2
  <2>2. \A i \in 1 .. N : i \in 0 + 1 .. N
    BY <1>2
  <2>3. \A i \in N + 1 .. N : FALSE
    BY <1>2
  <2> QED
    BY <1>2, <2>1, <2>2, <2>3
<1>12. \A n \in 1 .. N : /\ Left(n) = Left(n - 1) \ {s[n]} /\ s[n] \in Left(n - 1)
                         /\ Left(n - 1) \in SUBSET Explorers
  <2> SUFFICES ASSUME NEW n \in 1 .. N
               PROVE  /\ Left(n) = Left(n - 1) \ {s[n]} /\ s[n] \in Left(n - 1)
                      /\ Left(n - 1) \in SUBSET Explorers
    OBVIOUS
  <2>1. n \in Nat /\ n - 1 + 1 = n
    BY <1>2
  <2>2. s[n] \in Left(n - 1)
    BY <1>2, <2>1
  <2>3. ASSUME NEW i \in n + 1 .. N PROVE s[i] # s[n] /\ i \in n - 1 + 1 .. N
    BY <1>2
  <2>4. ASSUME NEW i \in n - 1 + 1 .. N, s[i] # s[n] PROVE i \in n + 1 .. N
    BY <1>2, <2>1, <2>4
  <2>5. ASSUME NEW i \in n - 1 + 1 .. N PROVE s[i] \in Explorers
    <3>1. i \in 1 .. N
      BY <1>2, <2>1
    <3> QED
      BY <1>2, <1>5, <3>1
  <2> QED
    BY <2>2, <2>3, <2>4, <2>5
<1>13. J(0)
  BY <1>4, <1>5, <1>7, <1>8, <1>9, <1>10, <1>11, KeptAsItIs
<1> HIDE DEF Left
<1>14. ASSUME B # {} PROVE FALSE
  <2>1. PICK m \in B : \A n \in B : m <= n
    <3>1. B \in SUBSET Nat
      BY <1>2
    <3> HIDE DEF B
    <3> QED
      BY <1>14, <3>1, LeastElement
  <2>2. m \in 0 .. N /\ ~J(m)
    OBVIOUS
  <2>3. m # 0
    BY <1>13, <2>2
  <2>4. m \in 1 .. N /\ m - 1 \in 0 .. N /\ m - 1 \notin B
    <3>1. m \in 1 .. N /\ m - 1 \in 0 .. N /\ ~ (m <= m - 1)
      BY <1>2, <2>2, <2>3
    <3> HIDE DEF B
    <3> QED
      BY <2>1, <3>1
  <2> DEFINE q == f[m - 1]
             R == Left(m - 1)
             e == s[m]
  <2>5. Kept(p0, q, replies, R, {}) /\ \A x \in R : q.refresh[x] = p.refresh[x]
    BY <2>4
  <2>6. f[m] = Advanced(q, e) /\ e \in R /\ R \in SUBSET Explorers /\ Left(m) = R \ {e} /\ e \in W
    BY <1>2, <1>4, <1>12, <2>4
  <2> HIDE DEF q, R, e
  <2>7. q.refresh[e].stages # <<>>
    BY <1>5, <2>5, <2>6
  <2>8. /\ Kept(q, Advanced(q, e), replies, R \ {e}, {})
        /\ \A x \in Explorers \ {e} : Advanced(q, e).refresh[x] = q.refresh[x]
    BY <2>5, <2>6, <2>7, AdvancedKeeps DEF Kept, Onward
  <2>9. J(m)
    <3>1. Kept(p0, f[m], replies, Left(m), {})
      BY <2>5, <2>6, <2>8, OnwardOn DEF Kept
    <3>2. \A x \in Left(m) : f[m].refresh[x] = p.refresh[x]
      BY <2>5, <2>6, <2>8
    <3> QED
      BY <3>1, <3>2
  <2> QED
    BY <2>2, <2>9
<1>15. J(N)
  <2>1. N \in 0 .. N
    BY <1>2
  <2> QED
    BY <1>14, <2>1
<1> DEFINE q == f[N]
<1>16. /\ q \in Pages /\ Lined(q, replies) /\ Goes(p0, q) /\ UserPending(q) = UserPending(p0)
       /\ Paced(q, {}) /\ Promised(q, replies, {})
  BY <1>11, <1>15 DEF Kept, Onward
<1> HIDE DEF q
<1>17. Goes(p, q)
  BY <1>8, <1>16, GoesOn
<1>18. UserPending(p0) = UserPending(p)
  BY <1>8 DEF UserPending
<1> QED
  BY <1>1, <1>16, <1>17, <1>18 DEF q

-----------------------------------------------------------------------------
(* Windows.                                                                *)

\* What window t has asked for and has no answer to.
Awaited(p, t) == {r \in Pending(p) : r.of = t /\ ~Background(r)}

\* A window that says it waits does, but for those of T.
Serves(p, T) ==
    \A t \in Terminals \ T :
        worker # None /\ p.win[t].busy /\ p.win[t].since = worker => Served(p, t)

\* A window whose user waited for each answer: while a query runs that is all it
\* awaits, and shows nothing or that query; otherwise it shows its last one.
ShowsAt(p, replies, t) ==
    ~p.win[t].hasty =>
        /\ \A r \in Awaited(p, t) : r.task = "run" =>
              /\ Awaited(p, t) = {r} /\ p.win[t].last = None
              /\ \/ p.win[t].tables = <<>> /\ p.win[t].columns = None
                 \/ /\ p.win[t].tables = <<r.query>> /\ p.win[t].columns \in {None, r.query}
                    /\ p.active = {r} /\ Silent(p)
                    /\ \A i \in DOMAIN replies : ~Col(replies[i])
        /\ p.win[t].last = None \/ p.win[t].tables \in {<<>>, <<p.win[t].last>>}

\* All windows but those of T.
Shows(p, replies, T) == \A t \in Terminals \ T : ShowsAt(p, replies, t)

\* All of it: the inductive invariant.
Sound(p, replies) ==
    /\ Lined(p, replies) /\ Paced(p, {}) /\ Promised(p, replies, {})
    /\ Serves(p, {}) /\ Shows(p, replies, {})

IInv == Typed /\ Sound(Page, toPage)

\* Who is served stays so.
LEMMA GoesServes ==
    ASSUME NEW p, NEW q, Goes(p, q), NEW T, Serves(p, T)
    PROVE  Serves(q, T)
<1>1. \A t \in Terminals : Served(p, t) => Served(q, t)
  BY DEF Goes, Served
<1> QED
  BY <1>1 DEF Goes, Serves

\* What a window shows stays right while what it awaits is the same.
LEMMA GoesShows ==
    ASSUME NEW p, NEW q, NEW replies, NEW t \in Terminals, Goes(p, q),
           Awaited(q, t) = Awaited(p, t), ShowsAt(p, replies, t)
    PROVE  ShowsAt(q, replies, t)
<1>1. ShowsSame(q.win[t], p.win[t])
  BY DEF Goes
<1>2. \A r : p.active = {r} /\ Silent(p) => q.active = {r} /\ Silent(q)
  BY DEF Goes
<1> QED
  BY <1>1, <1>2 DEF ShowsAt, ShowsSame

\* The background disturbs no window.
LEMMA OnwardSound ==
    ASSUME NEW p, NEW q, NEW replies, Goes(p, q), UserPending(q) = UserPending(p)
    PROVE  /\ \A T : Serves(p, T) => Serves(q, T)
           /\ \A T : Shows(p, replies, T) => Shows(q, replies, T)
<1>1. \A t : Awaited(q, t) = Awaited(p, t)
  <2>1. \A t : Awaited(q, t) = {r \in UserPending(q) : r.of = t}
    BY DEF Awaited, UserPending
  <2>2. \A t : Awaited(p, t) = {r \in UserPending(p) : r.of = t}
    BY DEF Awaited, UserPending
  <2> QED
    BY <2>1, <2>2
<1> QED
  BY <1>1, GoesServes, GoesShows DEF Shows

\* Window t changes, and nothing else.
LEMMA WindowChanges ==
    ASSUME NEW p \in Pages, NEW q, NEW replies, NEW t \in Terminals, Lined(p, replies),
           NEW R, Paced(p, R), NEW K, Promised(p, replies, K), Serves(p, {t}), Shows(p, replies, {t}),
           q.active = p.active, q.queue = p.queue, q.asked = p.asked, q.refresh = p.refresh,
           q.inFlight = p.inFlight, q.toWorker = p.toWorker,
           \A u \in Terminals \ {t} : q.win[u] = p.win[u]
    PROVE  /\ Lined(q, replies) /\ Paced(q, R) /\ Promised(q, replies, K)
           /\ Serves(q, {t}) /\ Shows(q, replies, {t})
           /\ Pending(q) = Pending(p) /\ \A u : Awaited(q, u) = Awaited(p, u)
<1>1. Pending(q) = Pending(p)
  BY DEF Pending
<1>2. \A u : Awaited(q, u) = Awaited(p, u) /\ (Served(p, u) <=> Served(q, u))
  BY <1>1 DEF Awaited, Served
<1>3. Lined(q, replies)
  BY DEF Lined, OneSql, Single, Queued
<1>4. Promised(q, replies, K)
  BY DEF Promised
<1>5. \A e : Probes(q, e) = Probes(p, e)
  BY <1>1 DEF Probes
<1>6. \A e, op : AtStage(q, e, op) <=> AtStage(p, e, op)
  BY DEF AtStage
<1>7. Paced(q, R)
  BY <1>5, <1>6 DEF Paced
<1>8. Serves(q, {t})
  BY <1>2 DEF Serves
<1>9. Silent(q) <=> Silent(p)
  BY DEF Silent
<1>10. ASSUME NEW u \in Terminals \ {t} PROVE ShowsAt(q, replies, u)
  <2>1. ShowsAt(p, replies, u) /\ q.win[u] = p.win[u]
    BY DEF Shows
  <2> QED
    BY <1>2, <1>9, <2>1 DEF ShowsAt
<1> QED
  BY <1>1, <1>2, <1>3, <1>4, <1>7, <1>8, <1>10 DEF Shows

\* Without an answer, promises stand.
LEMMA PromisedKept ==
    ASSUME NEW p \in Pages, NEW q \in Pages, NEW replies, NEW K, Promised(p, replies, K),
           Goes(p, q), q.inFlight = p.inFlight
    PROVE  Promised(q, replies, K)
  BY PromisedOn DEF Goes

\* q is p with a request of window t, and nothing of another part has changed.
Asks(p, q, replies, t, task, query) ==
    /\ q \in Pages /\ Lined(q, replies) /\ Paced(q, {}) /\ Promised(q, replies, {})
    /\ Serves(q, {}) /\ Shows(q, replies, {t}) /\ Goes(p, q)
    /\ \E r \in Proper : /\ r.task = task /\ r.query = query
                         /\ Awaited(q, t) = Awaited(p, t) \cup {r}

\* postSqlRequest by a window: its request waits or is under way.
LEMMA UserRequested ==
    ASSUME NEW p \in Pages, loads \in Nat, worker \in Since, NEW replies \in Seq(Reply), Lined(p, replies),
           NEW t \in Terminals, Paced(p, {}), Promised(p, replies, {}),
           Serves(p, {t}), Shows(p, replies, {t}),
           NEW task \in {"run", "save"}, NEW query \in Nat, NEW left \in 0 .. Statements,
           task = "save" => left # 0
    PROVE  Asks(p, Requested(p, task, t, query, left), replies, t, task, query)
<1> DEFINE q == Requested(p, task, t, query, left)
           r == [id |-> p.asked + 1, task |-> task, of |-> t, query |-> query, left |-> left]
<1>1. r \in Proper
  <2>1. p.asked + 1 \in Nat
    BY PartsOfPage
  <2>2. r \in Request
    BY <2>1 DEF Request
  <2> QED
    BY <2>2 DEF Proper, Background
<1>2. /\ q \in Pages
      /\ Lined(q, replies)
      /\ Pending(q) = Pending(p) \cup {r}
      /\ Goes(p, q)
      /\ q.refresh = p.refresh /\ q.inFlight = p.inFlight
  BY <1>1, RequestedKeeps
<1>3. r.task = task /\ r.query = query /\ r.of = t /\ ~Background(r)
  BY DEF Background
<1> HIDE DEF q, r
<1>4. Promised(q, replies, {})
  BY <1>2, PromisedKept
<1>5. \A e : Probes(q, e) = Probes(p, e)
  BY <1>2, <1>3 DEF Probes, Background
<1>6. Paced(q, {})
  <2>1. \A e, op : AtStage(q, e, op) <=> AtStage(p, e, op)
    BY <1>2 DEF AtStage
  <2> QED
    BY <1>2, <1>5, <2>1 DEF Paced
<1>7. Awaited(q, t) = Awaited(p, t) \cup {r} /\ \A u \in Terminals \ {t} : Awaited(q, u) = Awaited(p, u)
  BY <1>2, <1>3 DEF Awaited
<1>8. Serves(q, {})
  <2>1. Serves(q, {t})
    BY <1>2, GoesServes
  <2>2. Served(q, t)
    BY <1>2, <1>3 DEF Served
  <2> QED
    BY <2>1, <2>2 DEF Serves
<1>9. Shows(q, replies, {t})
  BY <1>2, <1>7, GoesShows DEF Shows
<1> QED
  BY <1>1, <1>2, <1>3, <1>4, <1>6, <1>7, <1>8, <1>9 DEF Asks, q

\* Another statement of "Save changes" is asked for.
LEMMA SaveRequested ==
    ASSUME NEW p \in Pages, loads \in Nat, worker \in Since, NEW replies \in Seq(Reply), Lined(p, replies),
           NEW t \in Terminals, Paced(p, {}), Promised(p, replies, {}),
           Serves(p, {t}), Shows(p, replies, {t}),
           NEW query \in Nat, NEW left \in 1 .. Statements,
           ~p.win[t].hasty => /\ \A r \in Awaited(p, t) : r.task # "run"
                              /\ p.win[t].last = None \/ p.win[t].tables \in {<<>>, <<p.win[t].last>>}
    PROVE  LET q == Requested(p, "save", t, query, left)
           IN  q \in Pages /\ Sound(q, replies)
<1> DEFINE q == Requested(p, "save", t, query, left)
           task == "save"
<1>1. left \in 0 .. Statements /\ left # 0 /\ task \in {"run", "save"} /\ task # "run"
  BY SessionConstants
<1>2. Asks(p, q, replies, t, task, query)
  <2>1. q = Requested(p, task, t, query, left)
    OBVIOUS
  <2> HIDE DEF q, task
  <2> QED
    BY <1>1, <2>1, UserRequested
<1> HIDE DEF q, task
<1>3. ShowsSame(q.win[t], p.win[t])
  BY <1>2 DEF Goes, Asks
<1>4. ShowsAt(q, replies, t)
  BY <1>1, <1>2, <1>3 DEF ShowsAt, ShowsSame, Asks
<1> QED
  BY <1>2, <1>4 DEF Sound, Shows, Asks, q

\* A query is run: the results area is emptied for it.
LEMMA RunIntoKeeps ==
    ASSUME NEW p \in Pages, loads \in Nat, worker \in Since, NEW replies \in Seq(Reply), Lined(p, replies),
           NEW t \in Terminals, Paced(p, {}), Promised(p, replies, {}),
           Serves(p, {t}), Shows(p, replies, {t}), NEW query \in Nat
    PROVE  LET q == RunInto(p, t, query)
           IN  q \in Pages /\ Sound(q, replies)
<1> DEFINE v == [p.win[t] EXCEPT !.tables = <<>>, !.columns = None, !.last = None,
                                 !.hasty = Mine(p, t) # {}]
           w == [p.win EXCEPT ![t] = v]
           c == [p EXCEPT !.win = w]
           b == Busy(c, t)
           task == "run"
           q == Requested(b, task, t, query, 0)
<1>1. RunInto(p, t, query) = q
  BY DEF RunInto
<1>2. p.win[t] \in Window
  BY PartsOfPage
<1>3. (Mine(p, t) # {}) \in BOOLEAN
  OBVIOUS
<1>4. /\ v \in Window /\ v.tables = <<>> /\ v.columns = None /\ v.last = None
      /\ v.hasty = (Mine(p, t) # {})
  <2>1. <<>> \in Seq(Nat) /\ None \in Nat
    BY DEF None
  <2> QED
    BY <1>2, <1>3, <2>1 DEF Window
<1> HIDE DEF v
<1>5. w \in [Terminals -> Window] /\ w[t] = v /\ \A u \in Terminals \ {t} : w[u] = p.win[u]
  BY <1>4, PartsOfPage
<1> HIDE DEF w
<1>6. /\ c \in Pages
      /\ c.active = p.active /\ c.queue = p.queue /\ c.asked = p.asked /\ c.win = w
      /\ c.refresh = p.refresh /\ c.inFlight = p.inFlight /\ c.toWorker = p.toWorker
  BY <1>5 DEF Pages
<1> HIDE DEF c
<1>7. /\ b \in Pages
      /\ b.active = p.active /\ b.queue = p.queue /\ b.asked = p.asked
      /\ b.toWorker = p.toWorker /\ b.refresh = p.refresh /\ b.inFlight = p.inFlight
      /\ ShowsSame(b.win[t], v)
      /\ \A u \in Terminals \ {t} : b.win[u] = p.win[u]
  BY <1>5, <1>6, BusyParts
<1> HIDE DEF b
<1>8. /\ Lined(b, replies) /\ Paced(b, {}) /\ Promised(b, replies, {})
      /\ Serves(b, {t}) /\ Shows(b, replies, {t})
      /\ Pending(b) = Pending(p) /\ Awaited(b, t) = Awaited(p, t)
  BY <1>7, WindowChanges
<1>9. 0 \in 0 .. Statements /\ task \in {"run", "save"} /\ task # "save"
  BY SessionConstants
<1>10. Asks(b, q, replies, t, task, query)
  <2> HIDE DEF task
  <2> QED
    BY <1>7, <1>8, <1>9, UserRequested
<1> HIDE DEF q
<1>11. ShowsSame(q.win[t], v)
  BY <1>7, <1>10 DEF Goes, ShowsSame, Asks
<1>12. ~v.hasty => Awaited(p, t) = {}
  <2>1. \A x \in Pending(p) : x \in p.active \cup ToSet(p.queue)
    BY DEF Pending, ToSet
  <2>2. \A x \in Pending(p) : x \in Proper
    <3>1. p.active \subseteq Proper /\ \A i \in DOMAIN p.queue : p.queue[i] \in Proper
      BY PartsOfPage
    <3> QED
      BY <3>1 DEF Pending
  <2>3. \A x \in Awaited(p, t) : x \in Mine(p, t)
    BY <2>1, <2>2, ProperParts DEF Awaited, Mine, Background
  <2> QED
    BY <1>4, <2>3
<1>13. ShowsAt(q, replies, t)
  BY <1>4, <1>8, <1>10, <1>11, <1>12 DEF ShowsAt, ShowsSame, Asks
<1> QED
  BY <1>1, <1>10, <1>13 DEF Sound, Shows, Asks

-----------------------------------------------------------------------------
(* The page takes an answer.                                               *)

\* The rest of a sequence.
LEMMA RestOf ==
    ASSUME NEW S, NEW s \in Seq(S), s # <<>>
    PROVE  /\ Head(s) \in S /\ Tail(s) \in Seq(S)
           /\ 1 \in DOMAIN s /\ s[1] = Head(s)
           /\ \A i \in DOMAIN Tail(s) : i + 1 \in DOMAIN s /\ i + 1 # 1 /\ Tail(s)[i] = s[i + 1]
           /\ \A i \in DOMAIN s : i # 1 => i - 1 \in DOMAIN Tail(s) /\ Tail(s)[i - 1] = s[i]
           /\ \A i \in DOMAIN s : i \in Nat /\ 1 <= i
           /\ \A i \in DOMAIN Tail(s) : i \in Nat
  OBVIOUS

\* The fields of an answer.
LEMMA ReplyParts ==
    ASSUME NEW m \in Reply
    PROVE  /\ End(m) \/ Col(m) => m.req \in Proper
           /\ Col(m) => m.req.task = "run" /\ m.some \in BOOLEAN
           /\ m.op = "viewReady" => m.kind \in Kinds /\ m.rebuilt \in BOOLEAN
           /\ m.op = "viewError" => m.kind \in Kinds
  BY DEF Reply, End, Col

\* What is said of the replies is said of the rest of them, when the first is
\* not the end of a request.
LEMMA RestOfReplies ==
    ASSUME NEW p \in Pages, NEW s \in Seq(Reply), s # <<>>, ~End(Head(s)), Lined(p, s),
           NEW K, Promised(p, s, {}), \A k \in Kinds : OfView(Head(s), k) => k \in K
    PROVE  /\ Lined(p, Tail(s)) /\ Promised(p, Tail(s), K)
           /\ \A T : Shows(p, s, T) => Shows(p, Tail(s), T)
           /\ Col(Head(s)) => /\ p.active = {Head(s).req} /\ Silent(p)
                              /\ \A i \in DOMAIN Tail(s) : ~Col(Tail(s)[i])
<1> DEFINE t == Tail(s)
<1>1. /\ 1 \in DOMAIN s /\ s[1] = Head(s)
      /\ \A i \in DOMAIN t : i + 1 \in DOMAIN s /\ i + 1 # 1 /\ t[i] = s[i + 1]
      /\ \A i \in DOMAIN s : i # 1 => i - 1 \in DOMAIN t /\ t[i - 1] = s[i]
      /\ \A i \in DOMAIN s : i \in Nat /\ 1 <= i
      /\ \A i \in DOMAIN t : i \in Nat
  BY RestOf
<1> HIDE DEF t
<1>2. OneSql(p, t)
  <2>1. \A i \in DOMAIN t : End(t[i]) => p.active = {t[i].req}
    BY <1>1 DEF Lined, OneSql, Single
  <2>2. ASSUME NEW i \in DOMAIN t, NEW j \in DOMAIN t, End(t[i]), End(t[j]) PROVE i = j
    <3>1. i + 1 = j + 1
      BY <1>1, <2>2 DEF Lined, OneSql, Single
    <3> QED
      BY <1>1, <3>1
  <2>3. ASSUME NEW i \in DOMAIN t, NEW j \in DOMAIN t, Col(t[i]), Col(t[j]) PROVE i = j
    <3>1. i + 1 = j + 1
      BY <1>1, <2>3 DEF Lined, OneSql, Single
    <3> QED
      BY <1>1, <3>1
  <2>4. \A i \in DOMAIN p.toWorker, j \in DOMAIN t : ~ (Sql(p.toWorker[i]) /\ End(t[j]))
    BY <1>1 DEF Lined, OneSql, Single
  <2>5. ASSUME NEW i \in DOMAIN t, Col(t[i])
        PROVE  \E j \in DOMAIN t : i < j /\ End(t[j]) /\ t[j].req = t[i].req
    <3>1. PICK j \in DOMAIN s : i + 1 < j /\ End(s[j]) /\ s[j].req = s[i + 1].req
      BY <1>1, <2>5 DEF Lined, OneSql, Single
    <3>2. i \in Nat /\ j \in Nat /\ s[i + 1] = t[i]
      BY <1>1
    <3>3. j # 1 /\ i < j - 1
      BY <3>1, <3>2
    <3>4. j - 1 \in DOMAIN t /\ t[j - 1] = s[j]
      BY <1>1, <3>3
    <3> QED
      BY <3>1, <3>2, <3>3, <3>4
  <2>6. p.active # {} => \/ threw
                         \/ \E i \in DOMAIN p.toWorker : Sql(p.toWorker[i])
                         \/ \E i \in DOMAIN t : End(t[i])
    <3> SUFFICES ASSUME NEW j \in DOMAIN s, End(s[j]) PROVE \E i \in DOMAIN t : End(t[i])
      BY DEF Lined, OneSql, Single
    <3>1. j # 1
      BY <1>1
    <3>2. j - 1 \in DOMAIN t /\ t[j - 1] = s[j]
      BY <1>1, <3>1
    <3> QED
      BY <3>2
  <2> QED
    BY <2>1, <2>2, <2>3, <2>4, <2>5, <2>6 DEF Lined, OneSql, Single
<1>3. Lined(p, t)
  BY <1>2 DEF Lined
<1>4. Promised(p, t, K)
  <2> SUFFICES ASSUME NEW k \in Kinds \ K, worker # None, p.inFlight[k] = worker, ~threw,
                      \A i \in DOMAIN p.toWorker : ~OfView(p.toWorker[i], k)
               PROVE  \E i \in DOMAIN t : OfView(t[i], k)
    BY DEF Promised
  <2>1. PICK j \in DOMAIN s : OfView(s[j], k)
    BY DEF Promised
  <2>2. j # 1
    BY <1>1, <2>1
  <2> QED
    BY <1>1, <2>1, <2>2
<1>5. ASSUME NEW u \in Terminals, ShowsAt(p, s, u) PROVE ShowsAt(p, t, u)
  <2>1. (\A i \in DOMAIN s : ~Col(s[i])) => \A i \in DOMAIN t : ~Col(t[i])
    BY <1>1
  <2> QED
    BY <1>5, <2>1 DEF ShowsAt
<1>6. ASSUME Col(Head(s))
      PROVE  /\ p.active = {Head(s).req} /\ Silent(p)
             /\ \A i \in DOMAIN t : ~Col(t[i])
  <2>1. PICK j \in DOMAIN s : 1 < j /\ End(s[j]) /\ s[j].req = s[1].req
    BY <1>1, <1>6 DEF Lined, OneSql, Single
  <2>2. p.active = {s[j].req} /\ Silent(p)
    BY <2>1 DEF Lined, OneSql, Single, Silent
  <2>3. \A i \in DOMAIN t : ~Col(t[i])
    BY <1>1, <1>6 DEF Lined, OneSql, Single
  <2> QED
    BY <1>1, <2>1, <2>2, <2>3
<1> QED
  BY <1>3, <1>4, <1>5, <1>6 DEF Shows, t

\* What window t shows when its request r has been answered.
After(p, t, r) ==
    ~p.win[t].hasty =>
        IF r.task = "run"
        THEN /\ Awaited(p, t) = {} /\ p.win[t].last = None
             /\ p.win[t].columns = None \/ p.win[t].tables = <<r.query>>
        ELSE /\ \A x \in Awaited(p, t) : x.task # "run"
             /\ p.win[t].last = None \/ p.win[t].tables \in {<<>>, <<p.win[t].last>>}

\* The request under way is over, and the next is under way.
Over(p, q, r, replies) ==
    /\ r \in Proper /\ p.active = {r}
    /\ q \in Pages /\ Lined(q, replies) /\ Promised(q, replies, {})
    /\ Background(r) => /\ Paced(q, {r.of}) /\ q.refresh[r.of].stages # <<>>
                        /\ Serves(q, {}) /\ Shows(q, replies, {})
    /\ ~Background(r) => /\ Paced(q, {}) /\ Serves(q, {r.of}) /\ Shows(q, replies, {r.of})
                         /\ After(q, r.of, r)

\* finishActiveSqlRequest: the request is over and the next under way.
LEMMA FinishedOver ==
    ASSUME NEW p \in Pages, loads \in Nat, worker \in Since, NEW s \in Seq(Reply), s # <<>>,
           End(Head(s)), Sound(p, s)
    PROVE  Over(p, Finished(p), Head(s).req, Tail(s))
<1> DEFINE t == Tail(s)
           r == Head(s).req
           a == [p EXCEPT !.active = {}]
           q == Pumped(a)
<1>1. /\ 1 \in DOMAIN s /\ s[1] = Head(s) /\ t \in Seq(Reply) /\ Head(s) \in Reply
      /\ \A i \in DOMAIN t : i + 1 \in DOMAIN s /\ i + 1 # 1 /\ t[i] = s[i + 1]
      /\ \A i \in DOMAIN s : i # 1 => i - 1 \in DOMAIN t /\ t[i - 1] = s[i]
      /\ \A i \in DOMAIN s : i \in Nat /\ 1 <= i
      /\ \A i \in DOMAIN t : i \in Nat
  BY RestOf
<1>2. Finished(p) = q
  BY DEF Finished
<1>3. Lined(p, s)
  BY DEF Sound
<1>4. r \in Proper /\ p.active = {r}
  BY <1>1, <1>3, ReplyParts DEF Lined, OneSql, Single
<1> HIDE DEF t, r
<1>5. \A i \in DOMAIN t : ~End(t[i])
  BY <1>1, <1>3 DEF Lined, OneSql, Single
<1>6. \A i \in DOMAIN t : ~Col(t[i])
  <2> SUFFICES ASSUME NEW i \in DOMAIN t, Col(t[i]) PROVE FALSE
    OBVIOUS
  <2>1. PICK j \in DOMAIN s : i + 1 < j /\ End(s[j])
    BY <1>1, <1>3 DEF Lined, OneSql, Single
  <2>2. j # 1
    BY <1>1, <2>1
  <2> QED
    BY <1>1, <1>5, <2>1, <2>2
<1>7. Silent(p)
  BY <1>1, <1>3 DEF Lined, OneSql, Single, Silent
<1>8. /\ a \in Pages
      /\ a.active = {} /\ a.queue = p.queue /\ a.asked = p.asked /\ a.win = p.win
      /\ a.refresh = p.refresh /\ a.inFlight = p.inFlight /\ a.toWorker = p.toWorker
  BY DEF Pages
<1> HIDE DEF a
<1>9. Lined(a, t)
  <2>1. OneSql(a, t)
    BY <1>5, <1>6, <1>7, <1>8 DEF OneSql, Single, Silent
  <2>2. Queued(a)
    BY <1>3, <1>8 DEF Lined, Queued
  <2> QED
    BY <2>1, <2>2 DEF Lined
<1>10. Pending(a) = Pending(p) \ {r} /\ r \in Pending(p)
  <2>1. \A i \in DOMAIN p.queue : p.queue[i] # r
    BY <1>3, <1>4 DEF Lined, Queued
  <2> QED
    BY <1>4, <1>8, <2>1 DEF Pending
<1>11. Promised(a, t, {})
  <2>1. \A k \in Kinds : ~OfView(Head(s), k)
    BY DEF OfView, End
  <2> SUFFICES ASSUME NEW k \in Kinds, worker # None, a.inFlight[k] = worker, ~threw,
                      \A i \in DOMAIN a.toWorker : ~OfView(a.toWorker[i], k)
               PROVE  \E i \in DOMAIN t : OfView(t[i], k)
    BY DEF Promised
  <2>2. PICK j \in DOMAIN s : OfView(s[j], k)
    BY <1>8 DEF Promised, Sound
  <2>3. j # 1
    BY <1>1, <2>1, <2>2
  <2> QED
    BY <1>1, <2>2, <2>3
<1>12. /\ q \in Pages /\ Lined(q, t) /\ Pending(q) = Pending(a) /\ Goes(a, q)
       /\ q.refresh = a.refresh /\ q.inFlight = a.inFlight
  BY <1>1, <1>8, <1>9, PumpedKeeps
<1> HIDE DEF q
<1>13. Promised(q, t, {})
  BY <1>8, <1>11, <1>12, PromisedKept
<1>14. CASE Background(r)
  <2> DEFINE e == r.of
  <2>1. e \in Explorers /\ r.task = "refresh"
    BY <1>4, <1>14, ProperParts DEF Background
  <2>2. r \in Probes(p, e)
    BY <1>10, <2>1 DEF Probes
  <2> HIDE DEF e
  <2>3. \A f \in Explorers : Probes(q, f) \subseteq Probes(p, f) /\ (f # e => Probes(q, f) = Probes(p, f))
    BY <1>10, <1>12 DEF Probes, e
  <2>4. Probes(q, e) = {}
    <3>1. \A x \in Probes(p, e) : x = r
      BY <2>1, <2>2 DEF Sound, Paced
    <3>2. r \notin Probes(q, e)
      BY <1>10, <1>12 DEF Probes
    <3> QED
      BY <2>1, <2>3, <3>1, <3>2
  <2>5. p.refresh[e].stages # <<>>
    BY <2>1, <2>2 DEF Sound, Paced, AtStage
  <2>6. \A f, op : AtStage(q, f, op) <=> AtStage(p, f, op)
    BY <1>8, <1>12 DEF AtStage
  <2>7. Paced(q, {e})
    <3>1. \A f \in Explorers : \A x, y \in Probes(q, f) : x = y
      BY <2>3 DEF Sound, Paced
    <3>2. ASSUME NEW f \in Explorers \ {e}
          PROVE  /\ Probes(q, f) # {} => AtStage(q, f, "query")
                 /\ worker # None /\ q.refresh[f].since = worker =>
                      \/ AtStage(q, f, "query") /\ Probes(q, f) # {}
                      \/ AtStage(q, f, "ensure") /\ q.inFlight[Head(q.refresh[f].stages).kind] # None
      BY <1>8, <1>12, <2>3, <2>6 DEF Sound, Paced
    <3> QED
      BY <2>4, <3>1, <3>2 DEF Paced
  <2>8. UserPending(q) = UserPending(p)
    BY <1>10, <1>12, <1>14 DEF UserPending
  <2>9. Serves(a, {}) /\ Shows(a, t, {}) /\ UserPending(a) = UserPending(p)
    <3>1. UserPending(a) = UserPending(p)
      BY <1>12, <2>8 DEF UserPending
    <3>2. \A u : Awaited(a, u) = Awaited(p, u)
      <4>1. \A u : Awaited(a, u) = {x \in UserPending(a) : x.of = u}
        BY DEF Awaited, UserPending
      <4>2. \A u : Awaited(p, u) = {x \in UserPending(p) : x.of = u}
        BY DEF Awaited, UserPending
      <4> QED
        BY <3>1, <4>1, <4>2
    <3>3. \A u : Served(p, u) => Served(a, u)
      <4>1. \A u : Served(p, u) <=> Awaited(p, u) # {}
        BY DEF Served, Awaited
      <4>2. \A u : Served(a, u) <=> Awaited(a, u) # {}
        BY DEF Served, Awaited
      <4> QED
        BY <3>2, <4>1, <4>2
    <3>4. Serves(a, {})
      BY <1>8, <3>3 DEF Sound, Serves
    <3>5. ASSUME NEW u \in Terminals PROVE ShowsAt(a, t, u)
      <4>1. ShowsAt(p, s, u) /\ a.win[u] = p.win[u] /\ Awaited(a, u) = Awaited(p, u)
        BY <1>8, <3>2 DEF Sound, Shows
      <4>2. \A x \in Awaited(p, u) : p.active # {x}
        BY <1>4, <1>14 DEF Awaited
      <4> QED
        BY <4>1, <4>2 DEF ShowsAt
    <3> QED
      BY <3>1, <3>4, <3>5 DEF Shows
  <2>10. Serves(q, {}) /\ Shows(q, t, {})
    BY <1>12, <2>8, <2>9, OnwardSound
  <2> QED
    BY <1>2, <1>4, <1>8, <1>12, <1>13, <1>14, <2>5, <2>7, <2>10 DEF Over, e, t, r
<1>15. CASE ~Background(r)
  <2> DEFINE w == r.of
  <2>1. w \in Terminals /\ r.task \in {"run", "save"} /\ r \in Awaited(p, w)
    BY <1>4, <1>10, <1>15, ProperParts DEF Background, Awaited
  <2>2. Awaited(a, w) = Awaited(p, w) \ {r}
    BY <1>10 DEF Awaited
  <2>3. \A u : u # w => Awaited(a, u) = Awaited(p, u)
    BY <1>10 DEF Awaited
  <2> HIDE DEF w
  <2>4. \A u : Awaited(q, u) = Awaited(a, u)
    BY <1>12 DEF Awaited
  <2>5. \A f \in Explorers : Probes(q, f) = Probes(p, f)
    BY <1>10, <1>12, <1>15 DEF Probes, Background
  <2>6. \A f, op : AtStage(q, f, op) <=> AtStage(p, f, op)
    BY <1>8, <1>12 DEF AtStage
  <2>7. Paced(q, {})
    BY <1>8, <1>12, <2>5, <2>6 DEF Sound, Paced
  <2>8. Serves(q, {w})
    <3>1. \A u : (Served(p, u) <=> Awaited(p, u) # {}) /\ (Served(a, u) <=> Awaited(a, u) # {})
      BY DEF Served, Awaited
    <3>2. Serves(a, {w})
      BY <1>8, <2>3, <3>1 DEF Sound, Serves
    <3> QED
      BY <1>12, <3>2, GoesServes
  <2>9. Shows(q, t, {w})
    <3> SUFFICES ASSUME NEW u \in Terminals, u # w PROVE ShowsAt(q, t, u)
      BY DEF Shows
    <3>1. ShowsAt(p, s, u) /\ a.win[u] = p.win[u] /\ Awaited(a, u) = Awaited(p, u)
      BY <1>8, <2>3 DEF Sound, Shows
    <3>2. \A x \in Awaited(p, u) : p.active # {x}
      BY <1>4 DEF Awaited, w
    <3>3. ShowsAt(a, t, u)
      BY <3>1, <3>2 DEF ShowsAt
    <3> QED
      BY <1>12, <2>4, <3>3, GoesShows
  <2>10. After(q, w, r)
    <3>1. ShowsAt(p, s, w) /\ ShowsSame(q.win[w], p.win[w])
      BY <1>8, <1>12, <2>1 DEF Sound, Shows, Goes
    <3> SUFFICES ASSUME ~p.win[w].hasty
                 PROVE  IF r.task = "run"
                        THEN /\ Awaited(q, w) = {} /\ p.win[w].last = None
                             /\ p.win[w].columns = None \/ p.win[w].tables = <<r.query>>
                        ELSE /\ \A x \in Awaited(q, w) : x.task # "run"
                             /\ p.win[w].last = None \/ p.win[w].tables \in {<<>>, <<p.win[w].last>>}
      BY <3>1 DEF After, ShowsSame
    <3>2. CASE r.task = "run"
      BY <2>1, <2>2, <2>4, <3>1, <3>2 DEF ShowsAt
    <3>3. CASE r.task # "run"
      <4>1. ASSUME NEW x \in Awaited(p, w), x.task = "run" PROVE FALSE
        <5>1. Awaited(p, w) = {x}
          BY <3>1, <4>1 DEF ShowsAt
        <5> QED
          BY <2>1, <3>3, <4>1, <5>1
      <4> QED
        BY <2>2, <2>4, <3>1, <3>3, <4>1 DEF ShowsAt
    <3> QED
      BY <3>2, <3>3
  <2> QED
    BY <1>2, <1>4, <1>12, <1>13, <1>15, <2>7, <2>8, <2>9, <2>10 DEF Over, w, t, r
<1> QED
  BY <1>14, <1>15

\* A page on which nothing is wrong.
Fine(q, replies) == q \in Pages /\ Sound(q, replies)

\* q is p with v as what window t shows.
Rewin(p, q, t, v) ==
    /\ q \in Pages
    /\ q.active = p.active /\ q.queue = p.queue /\ q.asked = p.asked
    /\ q.refresh = p.refresh /\ q.inFlight = p.inFlight /\ q.toWorker = p.toWorker
    /\ q.win[t] = v /\ \A u \in Terminals \ {t} : q.win[u] = p.win[u]

\* An EXCEPT on one window is Rewin.
LEMMA RewinParts ==
    ASSUME NEW p \in Pages, NEW t \in Terminals, NEW v \in Window
    PROVE  Rewin(p, [p EXCEPT !.win = [p.win EXCEPT ![t] = v]], t, v)
<1> DEFINE w == [p.win EXCEPT ![t] = v]
           q == [p EXCEPT !.win = w]
<1>1. w \in [Terminals -> Window] /\ w[t] = v /\ \A u \in Terminals \ {t} : w[u] = p.win[u]
  BY PartsOfPage
<1> HIDE DEF w
<1>2. /\ q \in Pages
      /\ q.active = p.active /\ q.queue = p.queue /\ q.asked = p.asked /\ q.win = w
      /\ q.refresh = p.refresh /\ q.inFlight = p.inFlight /\ q.toWorker = p.toWorker
  BY <1>1 DEF Pages
<1> HIDE DEF q
<1>3. Rewin(p, q, t, v)
  BY <1>1, <1>2 DEF Rewin
<1> QED
  BY <1>3 DEF q, w

\* What one window shows is nobody else's concern.
LEMMA RewinKeeps ==
    ASSUME NEW p \in Pages, NEW q, NEW t \in Terminals, NEW v, Rewin(p, q, t, v), NEW s,
           Lined(p, s), Paced(p, {}), Promised(p, s, {}), Serves(p, {t}), Shows(p, s, {t})
    PROVE  /\ Lined(q, s) /\ Paced(q, {}) /\ Promised(q, s, {})
           /\ Serves(q, {t}) /\ Shows(q, s, {t})
           /\ \A u : Awaited(q, u) = Awaited(p, u) /\ (Served(q, u) <=> Served(p, u))
           /\ Silent(q) <=> Silent(p)
<1>1. /\ Lined(q, s) /\ Paced(q, {}) /\ Promised(q, s, {})
      /\ Serves(q, {t}) /\ Shows(q, s, {t})
      /\ Pending(q) = Pending(p) /\ \A u : Awaited(q, u) = Awaited(p, u)
  BY WindowChanges DEF Rewin
<1>2. \A u : Served(q, u) <=> Served(p, u)
  BY <1>1 DEF Served
<1>3. Silent(q) <=> Silent(p)
  BY DEF Rewin, Silent
<1> QED
  BY <1>1, <1>2, <1>3

\* The first table of a window.
LEMMA FirstOfAll ==
    ASSUME NEW x
    PROVE  Append(<<>>, x) = <<x>>
<1>1. <<>> \in Seq({x}) /\ <<x>> \in Seq({x}) /\ x \in {x}
  OBVIOUS
<1> QED
  BY <1>1, AppendIsConcat, ConcatEmptySeq

\* The answer to a run has columns: they are those of the query that window shows.
LEMMA ColumnsKeep ==
    ASSUME NEW p \in Pages, NEW s \in Seq(Reply), s # <<>>, Col(Head(s)), Sound(p, s),
           NEW r, r = Head(s).req, NEW t, t = r.of, NEW v, NEW q, Rewin(p, q, t, v),
           v.busy = p.win[t].busy, v.since = p.win[t].since,
           v.last = p.win[t].last, v.hasty = p.win[t].hasty,
           v.columns \in {None, r.query}, v.tables = Append(p.win[t].tables, r.query)
    PROVE  p.active = {r} /\ Fine(q, Tail(s))
<1> DEFINE rest == Tail(s)
<1>1. r \in Proper /\ r.task = "run" /\ Head(s) \in Reply /\ rest \in Seq(Reply)
  BY RestOf, ReplyParts
<1>2. t \in Terminals /\ ~Background(r) /\ r.query \in Nat
  BY <1>1, ProperParts DEF Background
<1>3. /\ Lined(p, rest) /\ Promised(p, rest, {})
      /\ \A T : Shows(p, s, T) => Shows(p, rest, T)
      /\ p.active = {r} /\ Silent(p)
      /\ \A i \in DOMAIN rest : ~Col(rest[i])
  <2>1. ~End(Head(s)) /\ \A k \in Kinds : ~OfView(Head(s), k)
    BY DEF End, Col, OfView
  <2>2. Lined(p, s) /\ Promised(p, s, {})
    BY DEF Sound
  <2> QED
    BY <2>1, <2>2, RestOfReplies
<1>4. ~ \A i \in DOMAIN s : ~Col(s[i])
  BY RestOf
<1> HIDE DEF rest
<1>5. Paced(p, {}) /\ Serves(p, {t}) /\ Shows(p, rest, {t}) /\ Serves(p, {}) /\ ShowsAt(p, s, t)
  BY <1>2, <1>3 DEF Sound, Serves, Shows
<1>6. /\ Lined(q, rest) /\ Paced(q, {}) /\ Promised(q, rest, {})
      /\ Serves(q, {t}) /\ Shows(q, rest, {t})
      /\ \A u : Awaited(q, u) = Awaited(p, u) /\ (Served(q, u) <=> Served(p, u))
      /\ Silent(q) <=> Silent(p)
  BY <1>2, <1>3, <1>5, RewinKeeps
<1>7. /\ q \in Pages /\ q.win[t] = v /\ q.active = p.active
  BY DEF Rewin
<1>8. Serves(q, {})
  <2>1. worker # None /\ q.win[t].busy /\ q.win[t].since = worker => Served(q, t)
    BY <1>2, <1>5, <1>6, <1>7 DEF Serves
  <2> QED
    BY <1>6, <2>1 DEF Serves
<1>9. ShowsAt(q, rest, t)
  <2>1. r \in Awaited(p, t)
    BY <1>2, <1>3 DEF Awaited, Pending
  <2> SUFFICES ASSUME ~p.win[t].hasty
               PROVE  /\ \A x \in Awaited(p, t) : x.task = "run" =>
                           /\ Awaited(p, t) = {x} /\ v.last = None
                           /\ v.tables = <<x.query>> /\ v.columns \in {None, x.query}
                           /\ p.active = {x} /\ Silent(p)
                           /\ \A i \in DOMAIN rest : ~Col(rest[i])
                      /\ v.last = None
    BY <1>6, <1>7 DEF ShowsAt
  <2>2. Awaited(p, t) = {r} /\ p.win[t].last = None /\ p.win[t].tables = <<>>
    BY <1>1, <1>4, <1>5, <2>1 DEF ShowsAt
  <2>3. Append(p.win[t].tables, r.query) = <<r.query>>
    BY <2>2, FirstOfAll
  <2> QED
    BY <1>3, <2>2, <2>3
<1> QED
  BY <1>3, <1>6, <1>7, <1>8, <1>9 DEF Fine, Sound, Shows, rest

\* A window whose request has been answered is quiet, and has it, if it was a
\* query with columns, as its last one.
LEMMA QuietKeeps ==
    ASSUME NEW f \in Pages, NEW s \in Seq(Reply), NEW r \in Proper, ~Background(r), NEW t, t = r.of,
           Lined(f, s), Promised(f, s, {}), Paced(f, {}), Serves(f, {t}), Shows(f, s, {t}),
           After(f, t, r), NEW v, NEW q, Rewin(f, q, t, v),
           v.busy = FALSE, v.hasty = f.win[t].hasty, v.tables = f.win[t].tables,
           \/ v.last = f.win[t].last
           \/ r.task = "run" /\ f.win[t].columns # None /\ v.last = r.query
    PROVE  Fine(q, s)
<1>1. t \in Terminals
  BY ProperParts DEF Background
<1>2. /\ Lined(q, s) /\ Paced(q, {}) /\ Promised(q, s, {})
      /\ Serves(q, {t}) /\ Shows(q, s, {t})
      /\ \A u : Awaited(q, u) = Awaited(f, u) /\ (Served(q, u) <=> Served(f, u))
  BY <1>1, RewinKeeps
<1>3. q \in Pages /\ q.win[t] = v
  BY DEF Rewin
<1>4. Serves(q, {})
  BY <1>2, <1>3 DEF Serves
<1>5. ShowsAt(q, s, t)
  <2> SUFFICES ASSUME ~f.win[t].hasty
               PROVE  /\ \A x \in Awaited(f, t) : x.task # "run"
                      /\ v.last = None \/ v.tables \in {<<>>, <<v.last>>}
    BY <1>2, <1>3 DEF ShowsAt
  <2>1. CASE r.task = "run"
    BY <2>1 DEF After
  <2>2. CASE r.task # "run"
    BY <2>2 DEF After
  <2> QED
    BY <2>1, <2>2
<1> QED
  BY <1>2, <1>3, <1>4, <1>5 DEF Fine, Sound, Shows

\* The stages that are left of a refresh are dropped.
LEMMA GivenUpKeeps ==
    ASSUME NEW f \in Pages, loads \in Nat, NEW s \in Seq(Reply), NEW e \in Explorers,
           Lined(f, s), Promised(f, s, {}), Paced(f, {e}), Serves(f, {}), Shows(f, s, {})
    PROVE  Fine([f EXCEPT !.refresh = [f.refresh EXCEPT ![e] = NotRefreshing]], s)
<1> DEFINE n == [f.refresh EXCEPT ![e] = NotRefreshing]
           q == [f EXCEPT !.refresh = n]
<1>1. NotRefreshing \in Todo /\ NotRefreshing.since = None
  BY DEF NotRefreshing, Todo, None, Since
<1>2. n \in [Explorers -> Todo] /\ n[e] = NotRefreshing /\ \A x \in Explorers \ {e} : n[x] = f.refresh[x]
  BY <1>1, PartsOfPage
<1> HIDE DEF n
<1>3. /\ q \in Pages
      /\ q.active = f.active /\ q.queue = f.queue /\ q.asked = f.asked /\ q.win = f.win
      /\ q.refresh = n /\ q.inFlight = f.inFlight /\ q.toWorker = f.toWorker
  BY <1>2 DEF Pages
<1> HIDE DEF q
<1>4. Pending(q) = Pending(f)
  BY <1>3 DEF Pending
<1>5. Lined(q, s)
  BY <1>3 DEF Lined, OneSql, Single, Queued
<1>6. Goes(f, q)
  BY <1>3, <1>4 DEF Goes, Posts, Silent, ShowsSame
<1>7. Serves(q, {}) /\ Shows(q, s, {})
  BY <1>4, <1>6, OnwardSound DEF UserPending
<1>8. Promised(q, s, {})
  BY <1>3 DEF Promised
<1>9. \A x \in Explorers : Probes(q, x) = Probes(f, x)
  BY <1>4 DEF Probes
<1>10. Probes(q, e) = {}
  BY <1>9 DEF Paced
<1>11. Paced(q, {e} \ {e})
  <2>1. q.refresh[e].since = None
    BY <1>1, <1>2, <1>3
  <2>2. \A x \in Explorers \ {e} : q.refresh[x] = f.refresh[x] /\ Probes(q, x) = Probes(f, x)
    BY <1>2, <1>3, <1>9
  <2>3. {e} \in SUBSET Explorers
    OBVIOUS
  <2> QED
    BY <1>3, <1>10, <2>1, <2>2, <2>3, PacedBut
<1>12. {e} \ {e} = {}
  OBVIOUS
<1> QED
  BY <1>3, <1>5, <1>7, <1>8, <1>11, <1>12 DEF Fine, Sound, q, n

\* A window that no longer waits shows what it showed.
LEMMA QuietParts ==
    ASSUME NEW p \in Pages, NEW t \in Terminals
    PROVE  \E v \in Window : /\ Rewin(p, Quiet(p, t), t, v)
                             /\ v.busy = FALSE /\ v.hasty = p.win[t].hasty
                             /\ v.tables = p.win[t].tables /\ v.last = p.win[t].last
<1> DEFINE v == [p.win[t] EXCEPT !.busy = FALSE]
<1>1. p.win[t] \in Window
  BY PartsOfPage
<1>2. /\ v \in Window /\ v.busy = FALSE /\ v.hasty = p.win[t].hasty
      /\ v.tables = p.win[t].tables /\ v.last = p.win[t].last
  BY <1>1 DEF Window
<1>3. Quiet(p, t) = [p EXCEPT !.win = [p.win EXCEPT ![t] = v]]
  BY DEF Quiet
<1> HIDE DEF v
<1>4. Rewin(p, Quiet(p, t), t, v)
  BY <1>2, <1>3, RewinParts
<1> QED
  BY <1>2, <1>4

\* What is done with the answer to a request that is over.
LEMMA DoneKeeps ==
    ASSUME NEW p \in Pages, NEW f \in Pages, loads \in Nat, worker \in Since, NEW s \in Seq(Reply),
           NEW r, Over(p, f, r, s)
    PROVE  Fine(Done(f, r), s)
<1>1. /\ r \in Proper /\ Lined(f, s) /\ Promised(f, s, {})
      /\ Background(r) => /\ Paced(f, {r.of}) /\ f.refresh[r.of].stages # <<>>
                          /\ Serves(f, {}) /\ Shows(f, s, {})
      /\ ~Background(r) => /\ Paced(f, {}) /\ Serves(f, {r.of}) /\ Shows(f, s, {r.of})
                           /\ After(f, r.of, r)
  BY DEF Over
<1>2. /\ r.task \in {"run", "save", "refresh"} /\ r.query \in Nat /\ r.left \in 0 .. Statements
      /\ r.task = "refresh" <=> Background(r)
      /\ Background(r) => r.of \in Explorers
      /\ ~Background(r) => r.of \in Terminals
      /\ r.task = "save" => r.left # 0
  BY <1>1, ProperParts DEF Background
<1>3. CASE r.task = "run"
  <2> DEFINE t == r.of
             l == IF f.win[t].columns # None THEN r.query ELSE f.win[t].last
             v0 == [f.win[t] EXCEPT !.last = l]
             f0 == [f EXCEPT !.win = [f.win EXCEPT ![t] = v0]]
  <2>1. Done(f, r) = Quiet(f0, t)
    BY <1>3 DEF Done
  <2>2. t \in Terminals /\ ~Background(r)
    BY <1>2, <1>3
  <2> HIDE DEF t
  <2>3. f.win[t] \in Window
    BY <2>2, PartsOfPage
  <2>4. l \in Nat /\ (l = f.win[t].last \/ (f.win[t].columns # None /\ l = r.query))
    BY <1>2, <2>3 DEF Window
  <2> HIDE DEF l
  <2>5. v0 \in Window /\ v0.last = l /\ v0.hasty = f.win[t].hasty /\ v0.tables = f.win[t].tables
    BY <2>3, <2>4 DEF Window
  <2> HIDE DEF v0
  <2>6. Rewin(f, f0, t, v0)
    BY <2>2, <2>5, RewinParts
  <2> HIDE DEF f0
  <2>7. PICK v \in Window : /\ Rewin(f0, Quiet(f0, t), t, v)
                            /\ v.busy = FALSE /\ v.hasty = f0.win[t].hasty
                            /\ v.tables = f0.win[t].tables /\ v.last = f0.win[t].last
    BY <2>2, <2>6, QuietParts DEF Rewin
  <2>8. /\ Rewin(f, Quiet(f0, t), t, v) /\ v.hasty = f.win[t].hasty
        /\ v.tables = f.win[t].tables /\ v.last = l
    BY <2>5, <2>6, <2>7 DEF Rewin
  <2> QED
    BY <1>1, <1>3, <2>1, <2>2, <2>4, <2>7, <2>8, QuietKeeps DEF t
<1>4. CASE r.task = "save" /\ r.left > 1
  <2> DEFINE n == r.left - 1
             t == r.of
  <2>1. n \in 1 .. Statements /\ Statements \in Nat
    BY <1>2, <1>4, SessionConstants
  <2>2. Done(f, r) = Requested(f, "save", t, r.query, n)
    BY <1>4 DEF Done
  <2> HIDE DEF n
  <2>3. t \in Terminals /\ ~Background(r)
    BY <1>2, <1>4
  <2>4. ~f.win[t].hasty => /\ \A x \in Awaited(f, t) : x.task # "run"
                           /\ f.win[t].last = None \/ f.win[t].tables \in {<<>>, <<f.win[t].last>>}
    BY <1>1, <1>4, <2>3 DEF After
  <2>5. Paced(f, {}) /\ Serves(f, {t}) /\ Shows(f, s, {t})
    BY <1>1, <2>3
  <2> HIDE DEF t
  <2> QED
    BY <1>1, <1>2, <2>1, <2>2, <2>3, <2>4, <2>5, SaveRequested DEF Fine
<1>5. CASE r.task = "save" /\ r.left = 1
  <2> DEFINE t == r.of
  <2>1. Done(f, r) = RunInto(f, t, r.query)
    BY <1>5 DEF Done
  <2>2. t \in Terminals /\ Paced(f, {}) /\ Serves(f, {t}) /\ Shows(f, s, {t})
    BY <1>1, <1>2, <1>5
  <2> HIDE DEF t
  <2> QED
    BY <1>1, <1>2, <2>1, <2>2, RunIntoKeeps DEF Fine
<1>6. CASE r.task = "refresh"
  <2> DEFINE e == r.of
             q == Advanced(f, e)
  <2>1. Done(f, r) = q
    BY <1>6 DEF Done
  <2>2. e \in Explorers /\ Paced(f, {e}) /\ f.refresh[e].stages # <<>> /\ Serves(f, {}) /\ Shows(f, s, {})
    BY <1>1, <1>2, <1>6
  <2> HIDE DEF e
  <2>3. {e} \in SUBSET Explorers /\ e \in {e} /\ {e} \ {e} = {}
    BY <2>2
  <2>4. Kept(f, q, s, {}, {})
    BY <1>1, <2>2, <2>3, AdvancedKeeps
  <2> HIDE DEF q
  <2>5. Serves(q, {}) /\ Shows(q, s, {})
    BY <2>2, <2>4, OnwardSound DEF Kept, Onward
  <2> QED
    BY <2>1, <2>4, <2>5 DEF Fine, Sound, Kept, Onward
<1>7. r.task = "save" => r.left > 1 \/ r.left = 1
  BY <1>2, SessionConstants
<1> QED
  BY <1>2, <1>3, <1>4, <1>5, <1>6, <1>7

\* What is done when a request has failed.
LEMMA RefusedKeeps ==
    ASSUME NEW p \in Pages, NEW f \in Pages, loads \in Nat, worker \in Since, NEW s \in Seq(Reply),
           NEW r, Over(p, f, r, s)
    PROVE  Fine(Refused(f, r), s)
<1>1. /\ r \in Proper /\ Lined(f, s) /\ Promised(f, s, {})
      /\ Background(r) => Paced(f, {r.of}) /\ Serves(f, {}) /\ Shows(f, s, {})
      /\ ~Background(r) => /\ Paced(f, {}) /\ Serves(f, {r.of}) /\ Shows(f, s, {r.of})
                           /\ After(f, r.of, r)
  BY DEF Over
<1>2. /\ r.task = "refresh" <=> Background(r)
      /\ Background(r) => r.of \in Explorers
      /\ ~Background(r) => r.of \in Terminals
  BY <1>1, ProperParts DEF Background
<1>3. CASE Background(r)
  <2>1. Refused(f, r) = [f EXCEPT !.refresh = [f.refresh EXCEPT ![r.of] = NotRefreshing]]
    BY <1>2, <1>3 DEF Refused
  <2> QED
    BY <1>1, <1>2, <1>3, <2>1, GivenUpKeeps
<1>4. CASE ~Background(r)
  <2> DEFINE t == r.of
  <2>1. Refused(f, r) = Quiet(f, t) /\ t \in Terminals
    BY <1>2, <1>4 DEF Refused
  <2>2. Paced(f, {}) /\ Serves(f, {t}) /\ Shows(f, s, {t}) /\ After(f, t, r) /\ t = r.of
    BY <1>1, <1>4
  <2> HIDE DEF t
  <2>3. PICK v \in Window : /\ Rewin(f, Quiet(f, t), t, v)
                            /\ v.busy = FALSE /\ v.hasty = f.win[t].hasty
                            /\ v.tables = f.win[t].tables /\ v.last = f.win[t].last
    BY <2>1, QuietParts
  <2> QED
    BY <1>1, <1>4, <2>1, <2>2, <2>3, QuietKeeps
<1> QED
  BY <1>3, <1>4

\* Schema k has been rebuilt, or not: who awaits it goes on.
LEMMA ViewReadyKeeps ==
    ASSUME NEW p \in Pages, loads \in Nat, worker \in Since, NEW s \in Seq(Reply), s # <<>>,
           Sound(p, s), NEW k \in Kinds, \A l \in Kinds : OfView(Head(s), l) => l = k,
           ~End(Head(s)), NEW rebuilt \in BOOLEAN
    PROVE  /\ Fine(ViewReady(p, k, rebuilt), Tail(s))
           /\ Fine(ViewError(p, k), Tail(s))
<1> DEFINE rest == Tail(s)
           K == IF p.inFlight[k] # None THEN {k} ELSE {}
           shown == IF rebuilt THEN RefreshAll(p) ELSE p
<1>1. rest \in Seq(Reply)
  BY RestOf
<1>2. /\ Lined(p, s) /\ Promised(p, s, {}) /\ Paced(p, {}) /\ Serves(p, {}) /\ Shows(p, s, {})
  BY DEF Sound
<1>3. /\ Lined(p, rest) /\ Promised(p, rest, {k}) /\ Shows(p, rest, {})
  <2>1. \A l \in Kinds : OfView(Head(s), l) => l \in {k}
    OBVIOUS
  <2> QED
    BY <1>2, <2>1, RestOfReplies
<1> HIDE DEF rest
<1>4. Promised(p, rest, K)
  <2>1. CASE p.inFlight[k] # None
    BY <1>3, <2>1
  <2>2. CASE p.inFlight[k] = None
    BY <1>3, <2>2 DEF Promised
  <2> QED
    BY <2>1, <2>2
<1>5. K \in SUBSET {k} /\ (p.inFlight[k] = None => K = {})
  OBVIOUS
<1> HIDE DEF K
<1>6. ASSUME NEW q, Kept(p, q, rest, {}, K)
      PROVE  /\ p.inFlight[k] # None => Fine(Settled(q, k), rest)
             /\ p.inFlight[k] = None => Fine(q, rest)
  <2>1. /\ q \in Pages /\ Lined(q, rest) /\ Paced(q, {}) /\ Promised(q, rest, K)
    BY <1>6 DEF Kept, Onward
  <2>2. Serves(q, {}) /\ Shows(q, rest, {})
    BY <1>2, <1>3, <1>6, OnwardSound DEF Kept, Onward
  <2> DEFINE z == Settled(q, k)
  <2>3. /\ z \in Pages /\ Lined(z, rest) /\ Goes(q, z) /\ UserPending(z) = UserPending(q)
        /\ Paced(z, {}) /\ Promised(z, rest, {})
    BY <1>1, <1>5, <2>1, SettledKeeps
  <2> HIDE DEF z
  <2>4. Serves(z, {}) /\ Shows(z, rest, {})
    BY <2>2, <2>3, OnwardSound
  <2>5. Fine(z, rest)
    BY <2>3, <2>4 DEF Fine, Sound
  <2>6. p.inFlight[k] = None => Fine(q, rest)
    BY <1>5, <2>1, <2>2 DEF Fine, Sound
  <2> QED
    BY <2>5, <2>6 DEF z
<1>7. Kept(p, p, rest, {}, K)
  BY <1>2, <1>3, <1>4, KeptAsItIs
<1>8. Kept(p, shown, rest, {}, K)
  <2>1. Kept(p, RefreshAll(p), rest, {}, K)
    BY <1>1, <1>2, <1>3, <1>4, RefreshAllKeeps
  <2> QED
    BY <1>7, <2>1
<1>9. ViewReady(p, k, rebuilt) = IF p.inFlight[k] # None THEN Settled(shown, k) ELSE shown
  BY DEF ViewReady
<1> HIDE DEF shown
<1>10. Fine(ViewReady(p, k, rebuilt), rest)
  BY <1>6, <1>8, <1>9
<1>11. Fine(ViewError(p, k), rest)
  BY <1>6, <1>7 DEF ViewError
<1> QED
  BY <1>10, <1>11 DEF rest

\* No window is busy after a checkpoint's answer.
LEMMA BroadcastKeeps ==
    ASSUME NEW p \in Pages, NEW s, Sound(p, s)
    PROVE  Fine(Broadcast(p), s)
<1> DEFINE w == [t \in Terminals |-> [p.win[t] EXCEPT !.busy = FALSE]]
           q == Broadcast(p)
<1>1. ASSUME NEW t \in Terminals
      PROVE  w[t] \in Window /\ w[t].busy = FALSE /\ ShowsSame(w[t], p.win[t])
  <2>1. p.win[t] \in Window
    BY PartsOfPage
  <2> QED
    BY <2>1 DEF Window, ShowsSame
<1>2. w \in [Terminals -> Window]
  BY <1>1
<1>3. q = [p EXCEPT !.win = w]
  BY DEF Broadcast
<1> HIDE DEF w
<1>4. /\ q \in Pages
      /\ q.active = p.active /\ q.queue = p.queue /\ q.asked = p.asked /\ q.win = w
      /\ q.refresh = p.refresh /\ q.inFlight = p.inFlight /\ q.toWorker = p.toWorker
  BY <1>2, <1>3 DEF Pages
<1> HIDE DEF q
<1>5. Pending(q) = Pending(p)
  BY <1>4 DEF Pending
<1>6. Lined(q, s) /\ Promised(q, s, {})
  BY <1>4 DEF Lined, OneSql, Single, Queued, Promised, Sound
<1>7. Paced(q, {})
  <2>1. \A e : Probes(q, e) = Probes(p, e)
    BY <1>5 DEF Probes
  <2>2. \A e, op : AtStage(q, e, op) <=> AtStage(p, e, op)
    BY <1>4 DEF AtStage
  <2> QED
    BY <1>4, <2>1, <2>2 DEF Sound, Paced
<1>8. Serves(q, {})
  BY <1>1, <1>4 DEF Serves
<1>9. ASSUME NEW t \in Terminals PROVE ShowsAt(q, s, t)
  <2>1. ShowsAt(p, s, t)
    BY DEF Sound, Shows
  <2>2. ShowsSame(q.win[t], p.win[t])
    BY <1>1, <1>4
  <2>3. Awaited(q, t) = Awaited(p, t) /\ (Silent(q) <=> Silent(p))
    BY <1>4, <1>5 DEF Awaited, Silent
  <2> QED
    BY <1>4, <2>1, <2>2, <2>3 DEF ShowsAt, ShowsSame
<1> QED
  BY <1>4, <1>6, <1>7, <1>8, <1>9 DEF Fine, Sound, Shows, q

-----------------------------------------------------------------------------
(* The steps.                                                              *)

\* Becomes says what the next page is.
LEMMA PagesParts ==
    ASSUME NEW q \in Pages, NEW p, Becomes(q),
           p = [active |-> active', queue |-> queue', asked |-> asked', win |-> win',
                refresh |-> refresh', inFlight |-> inFlight', toWorker |-> toWorker']
    PROVE  p = q
<1>1. /\ active' = q.active /\ queue' = q.queue /\ asked' = q.asked
      /\ win' = q.win /\ refresh' = q.refresh /\ inFlight' = q.inFlight
      /\ toWorker' = q.toWorker
  BY DEF Becomes
<1>2. q = [active |-> q.active, queue |-> q.queue, asked |-> q.asked, win |-> q.win,
           refresh |-> q.refresh, inFlight |-> q.inFlight, toWorker |-> q.toWorker]
  BY DEF Pages
<1> QED
  BY <1>1, <1>2

\* What is sound stays so while the session is the same.
LEMMA SoundStays ==
    ASSUME NEW q, NEW s, Sound(q, s), Page' = q, toPage' = s, UNCHANGED <<worker, threw>>
    PROVE  Sound(Page, toPage)'
<1>1. worker' = worker /\ threw' = threw
  OBVIOUS
<1>2. Lined(Page, toPage)'
  BY <1>1 DEF Sound, Lined, OneSql, Single, Queued, Sql, End, Col
<1>3. Paced(Page, {})'
  BY <1>1 DEF Sound, Paced, Probes, AtStage, Pending
<1>4. Promised(Page, toPage, {})'
  BY <1>1 DEF Sound, Promised, OfView
<1>5. Serves(Page, {})'
  BY <1>1 DEF Sound, Serves, Served, Pending, Background
<1>6. Shows(Page, toPage, {})'
  BY <1>1 DEF Sound, Shows, ShowsAt, Awaited, Pending, Background, Silent, Sql, Col
<1> QED
  BY <1>2, <1>3, <1>4, <1>5, <1>6 DEF Sound

\* The page has become q.
LEMMA PageBecomes ==
    ASSUME Typed, NEW q, Becomes(q), Fine(q, toPage'), toPage' \in Seq(Reply),
           UNCHANGED <<worker, loads, threw>>, exporting' \in Since, packing' \in BOOLEAN,
           stale' \subseteq Kinds, acts' \in 0 .. MaxActs
    PROVE  IInv'
<1>1. q \in Pages /\ Sound(q, toPage')
  BY DEF Fine
<1>2. Page' = q
  BY <1>1, PagesParts DEF Page
<1>3. Sound(Page, toPage)'
  BY <1>1, <1>2, SoundStays
<1>4. Since' = Since
  BY DEF Since
<1>5. Pages' = Pages
  BY <1>4 DEF Pages, Window, Todo
<1>6. Typed'
  BY <1>1, <1>2, <1>4, <1>5 DEF Typed
<1> QED
  BY <1>3, <1>6 DEF IInv

\* An answer that is the end of no request and of no promise is read.
LEMMA ReadKeeps ==
    ASSUME NEW p \in Pages, NEW s \in Seq(Reply), s # <<>>, Sound(p, s),
           ~End(Head(s)), \A k \in Kinds : ~OfView(Head(s), k)
    PROVE  Fine(p, Tail(s))
<1>1. Lined(p, s) /\ Promised(p, s, {}) /\ Shows(p, s, {})
  BY DEF Sound
<1>2. Lined(p, Tail(s)) /\ Promised(p, Tail(s), {}) /\ Shows(p, Tail(s), {})
  BY <1>1, RestOfReplies
<1> QED
  BY <1>2 DEF Fine, Sound

\* The page is made of the variables.
LEMMA PageParts ==
    /\ Page.active = active /\ Page.queue = queue /\ Page.asked = asked /\ Page.win = win
    /\ Page.refresh = refresh /\ Page.inFlight = inFlight /\ Page.toWorker = toWorker
  BY DEF Page

\* Types of the variables.
LEMMA SessionParts ==
    ASSUME Typed
    PROVE  loads \in Nat /\ worker \in Since /\ None \in Since /\ Page \in Pages /\ toPage \in Seq(Reply)
  BY SessionConstants DEF Typed, Since, None

\* The page takes an answer.
LEMMA PageTakesKeeps ==
    ASSUME IInv, PageTakes
    PROVE  IInv'
<1> DEFINE m == Head(toPage)
           rest == Tail(toPage)
           r == m.req
<1>1. /\ Typed /\ Sound(Page, toPage)
      /\ loads \in Nat /\ worker \in Since /\ None \in Since /\ Page \in Pages /\ toPage \in Seq(Reply)
  BY SessionParts DEF IInv
<1>2. toPage # <<>> /\ toPage' = rest /\ UNCHANGED <<worker, loads, stale, acts, threw>>
  BY DEF PageTakes
<1>3. m \in Reply /\ rest \in Seq(Reply) /\ 1 \in DOMAIN toPage /\ toPage[1] = m
  BY <1>1, <1>2, RestOf
<1> HIDE DEF m, rest, r
<1>4. ASSUME NEW q, Becomes(q), Fine(q, rest), exporting' \in Since, packing' \in BOOLEAN
      PROVE  IInv'
  <2>1. stale' \subseteq Kinds /\ acts' \in 0 .. MaxActs
    BY <1>1, <1>2 DEF Typed
  <2> QED
    BY <1>1, <1>2, <1>3, <1>4, <2>1, PageBecomes
<1>5. ASSUME NEW q, Handle(q), Fine(q, rest) PROVE IInv'
  BY <1>1, <1>4, <1>5 DEF Handle, Typed
<1>6. ASSUME m.op \in {"sqlColumns", "reverted", "checkpointError", "exported", "exportError", "error"}
      PROVE  Fine(Page, rest)
  <2>1. ~End(m) /\ \A k \in Kinds : ~OfView(m, k)
    BY <1>6 DEF End, OfView
  <2> QED
    BY <1>1, <1>2, <2>1, ReadKeeps DEF m, rest
<1>7. ASSUME End(m) PROVE Active(r) /\ Over(Page, Finished(Page), r, rest)
  <2>1. Over(Page, Finished(Page), r, rest)
    BY <1>1, <1>2, <1>7, FinishedOver DEF m, rest, r
  <2>2. active = {r}
    BY <2>1, PageParts DEF Over
  <2> QED
    BY <2>1, <2>2 DEF Active
<1>8. ASSUME End(m)
      PROVE  /\ Fine(Done(Finished(Page), r), rest)
             /\ Fine(Refused(Finished(Page), r), rest)
  <2> DEFINE f == Finished(Page)
  <2>1. Over(Page, f, r, rest)
    BY <1>7, <1>8
  <2>2. f \in Pages
    BY <2>1 DEF Over
  <2> HIDE DEF f
  <2>3. Fine(Done(f, r), rest) /\ Fine(Refused(f, r), rest)
    BY <1>1, <1>3, <2>1, <2>2, DoneKeeps, RefusedKeeps
  <2> QED
    BY <2>3 DEF f
<1>9. CASE OnColumns(m)
  <2>1. Col(m) /\ r \in Proper /\ r.task = "run" /\ m.some \in BOOLEAN
    BY <1>3, <1>9, ReplyParts DEF OnColumns, Col, r
  <2> DEFINE t == r.of
             c == IF m.some THEN r.query ELSE None
             n == Append(win[t].tables, r.query)
             v == Joined(win[t], m)
             q == [Page EXCEPT !.win = [win EXCEPT ![t] = v]]
  <2>2. t \in Terminals /\ r.query \in Nat
    BY <2>1, ProperParts DEF Background
  <2> HIDE DEF t
  <2>3. win[t] \in Window
    BY <1>1, <2>2, PartsOfPage, PageParts
  <2>4. c \in Nat /\ n \in Seq(Nat) /\ c \in {None, r.query}
    <3>1. win[t].tables \in Seq(Nat)
      BY <2>3 DEF Window
    <3> QED
      BY <2>2, <3>1 DEF None
  <2> HIDE DEF c, n
  <2>5. /\ v \in Window /\ v.busy = win[t].busy /\ v.since = win[t].since /\ v.last = win[t].last
        /\ v.hasty = win[t].hasty /\ v.columns = c /\ v.tables = n
    <3>1. v = [win[t] EXCEPT !.columns = c, !.tables = n]
      BY DEF Joined, c, n, r
    <3> HIDE DEF v
    <3> QED
      BY <2>3, <2>4, <3>1 DEF Window
  <2>6. [Page EXCEPT !.win[m.req.of] = Joined(@, m)] = q
    BY DEF Page, t, r
  <2> HIDE DEF v
  <2>7. Rewin(Page, q, t, v)
    BY <1>1, <2>2, <2>5, PageParts, RewinParts
  <2> HIDE DEF q
  <2>8. Page.active = {r} /\ Fine(q, rest)
    <3>1. t = r.of /\ n = Append(win[t].tables, r.query) /\ win = Page.win
      BY PageParts DEF t, n
    <3> QED
      BY <1>1, <1>2, <2>1, <2>4, <2>5, <2>7, <3>1, ColumnsKeep DEF m, rest, r
  <2>9. Active(m.req)
    BY <2>8, PageParts DEF Active, r
  <2>10. Handle(q)
    BY <1>9, <2>6, <2>9 DEF OnColumns
  <2> QED
    BY <1>5, <2>8, <2>10
<1>10. CASE OnDone(m)
  <2>1. End(m)
    BY <1>10 DEF OnDone, End
  <2>2. Handle(Done(Finished(Page), r))
    BY <1>7, <1>10, <2>1 DEF OnDone, r
  <2> QED
    BY <1>5, <1>8, <2>1, <2>2
<1>11. CASE OnError(m)
  <2>1. End(m)
    BY <1>11 DEF OnError, End
  <2>2. Handle(Refused(Finished(Page), r))
    BY <1>7, <1>11, <2>1 DEF OnError, r
  <2> QED
    BY <1>5, <1>8, <2>1, <2>2
<1>12. ASSUME m.op \in {"viewReady", "viewError"}, NEW rebuilt \in BOOLEAN
       PROVE  Fine(ViewReady(Page, m.kind, rebuilt), rest) /\ Fine(ViewError(Page, m.kind), rest)
  <2>1. m.kind \in Kinds /\ ~End(m) /\ \A l \in Kinds : OfView(m, l) => l = m.kind
    BY <1>3, <1>12, ReplyParts DEF End, OfView
  <2> QED
    BY <1>1, <1>2, <1>12, <2>1, ViewReadyKeeps DEF m, rest
<1>13. CASE OnViewReady(m)
  <2>1. m.op = "viewReady" /\ m.rebuilt \in BOOLEAN /\ Handle(ViewReady(Page, m.kind, m.rebuilt))
    BY <1>3, <1>13, ReplyParts DEF OnViewReady
  <2> QED
    BY <1>5, <1>12, <2>1
<1>14. CASE OnViewError(m)
  <2>1. m.op = "viewError" /\ Handle(ViewError(Page, m.kind)) /\ TRUE \in BOOLEAN
    BY <1>14 DEF OnViewError
  <2> QED
    BY <1>5, <1>12, <2>1
<1>15. CASE OnReverted(m)
  <2> DEFINE q == RefreshAll(Page)
  <2>1. m.op = "reverted" /\ Handle(Broadcast(q))
    BY <1>15 DEF OnReverted
  <2>2. Fine(Page, rest)
    BY <1>6, <2>1
  <2>3. Kept(Page, q, rest, {}, {})
    BY <1>1, <1>3, <2>2, RefreshAllKeeps DEF Fine, Sound
  <2> HIDE DEF q
  <2>4. Serves(q, {}) /\ Shows(q, rest, {})
    BY <2>2, <2>3, OnwardSound DEF Fine, Sound, Kept, Onward
  <2>5. q \in Pages /\ Sound(q, rest)
    BY <2>3, <2>4 DEF Sound, Kept, Onward
  <2>6. Fine(Broadcast(q), rest)
    BY <2>5, BroadcastKeeps
  <2> QED
    BY <1>5, <2>1, <2>6
<1>16. CASE OnCheckpointError(m)
  <2>1. m.op = "checkpointError" /\ Handle(Broadcast(Page))
    BY <1>16 DEF OnCheckpointError
  <2>2. Fine(Broadcast(Page), rest)
    BY <1>1, <1>6, <2>1, BroadcastKeeps DEF Fine
  <2> QED
    BY <1>5, <2>1, <2>2
<1>17. CASE OnThrown(m)
  <2>1. m.op = "error" /\ Handle(Page)
    BY <1>17 DEF OnThrown
  <2> QED
    BY <1>5, <1>6, <2>1
<1>18. CASE OnExported(m) \/ OnExportError(m)
  <2>1. /\ m.op \in {"exported", "exportError"}
        /\ UNCHANGED <<request, win, refresh, inFlight, toWorker>>
        /\ exporting' \in {exporting, None} /\ packing' \in {TRUE, packing}
    BY <1>18 DEF OnExported, OnExportError, Export_, ExportFailed
  <2>2. Becomes(Page)
    BY <2>1, PageParts DEF Becomes, request
  <2>3. exporting' \in Since /\ packing' \in BOOLEAN
    BY <1>1, <2>1 DEF Typed
  <2> QED
    BY <1>4, <1>6, <2>1, <2>2, <2>3
<1>19. \/ OnColumns(m) \/ OnDone(m) \/ OnError(m)
       \/ OnViewReady(m) \/ OnViewError(m)
       \/ OnReverted(m) \/ OnCheckpointError(m)
       \/ OnExported(m) \/ OnExportError(m) \/ OnThrown(m)
  BY DEF PageTakes, m
<1> QED
  BY <1>9, <1>10, <1>11, <1>13, <1>14, <1>15, <1>16, <1>17, <1>18, <1>19

\* The answers a join those of s.
LEMMA JoinParts ==
    ASSUME NEW s \in Seq(Reply), NEW a \in Seq(Reply)
    PROVE  /\ s \o a \in Seq(Reply)
           /\ \A i \in DOMAIN s : i \in DOMAIN (s \o a) /\ (s \o a)[i] = s[i]
           /\ \A i \in DOMAIN a : Len(s) + i \in DOMAIN (s \o a) /\ (s \o a)[Len(s) + i] = a[i]
           /\ \A i \in DOMAIN (s \o a) :
                 \/ i \in DOMAIN s
                 \/ i - Len(s) \in DOMAIN a /\ Len(s) + (i - Len(s)) = i
           /\ Len(s) \in Nat /\ DOMAIN a = 1 .. Len(a) /\ Len(a) \in Nat
           /\ \A i \in DOMAIN s : i \in Nat /\ i <= Len(s)
<1> DEFINE t == s \o a
<1>1. /\ t \in Seq(Reply) /\ Len(t) = Len(s) + Len(a)
      /\ \A i \in 1 .. Len(s) + Len(a) : t[i] = IF i <= Len(s) THEN s[i] ELSE a[i - Len(s)]
  BY ConcatProperties
<1>2. /\ Len(s) \in Nat /\ Len(a) \in Nat
      /\ DOMAIN s = 1 .. Len(s) /\ DOMAIN a = 1 .. Len(a)
  OBVIOUS
<1> HIDE DEF t
<1>3. DOMAIN t = 1 .. Len(s) + Len(a)
  BY <1>1
<1>4. \A i \in DOMAIN s : i \in DOMAIN t /\ t[i] = s[i]
  BY <1>1, <1>2, <1>3
<1>5. ASSUME NEW i \in DOMAIN a PROVE Len(s) + i \in DOMAIN t /\ t[Len(s) + i] = a[i]
  <2>1. Len(s) + i \in 1 .. Len(s) + Len(a) /\ ~ (Len(s) + i <= Len(s)) /\ (Len(s) + i) - Len(s) = i
    BY <1>2
  <2> QED
    BY <1>1, <1>3, <2>1
<1>6. \A i \in DOMAIN t : i \in DOMAIN s \/ (i - Len(s) \in DOMAIN a /\ Len(s) + (i - Len(s)) = i)
  BY <1>2, <1>3
<1> QED
  BY <1>1, <1>2, <1>4, <1>5, <1>6 DEF t

\* The worker takes a message: q is what is left of p, t what the page will read.
Takes(p, q, s, t, a) ==
    /\ p \in Pages /\ p.toWorker # <<>> /\ q \in Pages
    /\ q.active = p.active /\ q.queue = p.queue /\ q.asked = p.asked /\ q.win = p.win
    /\ q.refresh = p.refresh /\ q.inFlight = p.inFlight /\ q.toWorker = Tail(p.toWorker)
    /\ s \in Seq(Reply) /\ a \in Seq(Reply) /\ t = s \o a

\* What the worker's taking a message leaves as it was.
LEMMA TakesParts ==
    ASSUME NEW p, NEW q, NEW s, NEW t, NEW a, Takes(p, q, s, t, a), loads \in Nat
    PROVE  /\ Pending(q) = Pending(p)
           /\ Queued(p) => Queued(q)
           /\ Paced(p, {}) => Paced(q, {})
           /\ Serves(p, {}) => Serves(q, {})
           /\ \A u : Awaited(q, u) = Awaited(p, u)
           /\ 1 \in DOMAIN p.toWorker /\ p.toWorker[1] = Head(p.toWorker)
           /\ \A i \in DOMAIN q.toWorker : /\ i + 1 \in DOMAIN p.toWorker /\ i + 1 # 1 /\ i \in Nat
                                           /\ q.toWorker[i] = p.toWorker[i + 1]
           /\ \A i \in DOMAIN p.toWorker : i # 1 =>
                 i - 1 \in DOMAIN q.toWorker /\ q.toWorker[i - 1] = p.toWorker[i]
<1>1. /\ q.active = p.active /\ q.queue = p.queue /\ q.asked = p.asked /\ q.win = p.win
      /\ q.refresh = p.refresh /\ q.inFlight = p.inFlight /\ q.toWorker = Tail(p.toWorker)
      /\ p.toWorker \in Seq(Message) /\ p.toWorker # <<>>
  BY PartsOfPage DEF Takes
<1>2. Pending(q) = Pending(p)
  BY <1>1 DEF Pending
<1>3. Queued(p) => Queued(q)
  BY <1>1 DEF Queued
<1>4. Paced(p, {}) => Paced(q, {})
  <2>1. \A e : Probes(q, e) = Probes(p, e)
    BY <1>2 DEF Probes
  <2>2. \A e, op : AtStage(q, e, op) <=> AtStage(p, e, op)
    BY <1>1 DEF AtStage
  <2> QED
    BY <1>1, <2>1, <2>2 DEF Paced
<1>5. \A u : Awaited(q, u) = Awaited(p, u)
  BY <1>2 DEF Awaited
<1>6. Serves(p, {}) => Serves(q, {})
  BY <1>1, <1>2 DEF Serves, Served
<1> QED
  BY <1>1, <1>2, <1>3, <1>4, <1>5, <1>6, RestOf

\* The worker answers a request of the queue: the answers end with the end of it,
\* and before that there may be columns.
Ends(a, r) ==
    \E e \in Reply : /\ End(e) /\ e.req = r
                     /\ \/ a = <<e>>
                        \/ \E c \in Reply : Col(c) /\ c.req = r /\ a = <<c, e>>

\* The worker answers the SQL it takes, with columns or without.
LEMMA SqlAnswered ==
    ASSUME NEW p, NEW q, NEW s, NEW t, NEW a, Takes(p, q, s, t, a), loads \in Nat, Sound(p, s),
           Sql(Head(p.toWorker)), Ends(a, Head(p.toWorker).req)
    PROVE  Fine(q, t)
<1> DEFINE m == Head(p.toWorker)
           r == m.req
           n == Len(s)
<1>1. /\ Pending(q) = Pending(p) /\ Queued(q) /\ Paced(q, {}) /\ Serves(q, {})
      /\ \A u : Awaited(q, u) = Awaited(p, u)
      /\ 1 \in DOMAIN p.toWorker /\ p.toWorker[1] = m
      /\ \A i \in DOMAIN q.toWorker : /\ i + 1 \in DOMAIN p.toWorker /\ i + 1 # 1
                                      /\ q.toWorker[i] = p.toWorker[i + 1]
      /\ \A i \in DOMAIN p.toWorker : i # 1 =>
            i - 1 \in DOMAIN q.toWorker /\ q.toWorker[i - 1] = p.toWorker[i]
  BY TakesParts DEF Sound, Lined
<1>2. /\ q \in Pages /\ q.active = p.active /\ q.win = p.win /\ q.inFlight = p.inFlight
      /\ s \in Seq(Reply) /\ a \in Seq(Reply) /\ t = s \o a
  BY DEF Takes
<1>3. /\ \A i \in DOMAIN s : i \in DOMAIN t /\ t[i] = s[i] /\ i \in Nat /\ i <= n
      /\ \A i \in DOMAIN a : n + i \in DOMAIN t /\ t[n + i] = a[i]
      /\ \A i \in DOMAIN t : i \in DOMAIN s \/ (i - n \in DOMAIN a /\ n + (i - n) = i)
      /\ n \in Nat /\ DOMAIN a = 1 .. Len(a) /\ Len(a) \in Nat
  BY <1>2, JoinParts
<1> HIDE DEF m, r, n
<1>4. Sql(m) /\ p.active = {r} /\ r \in Proper
  <2>1. Sql(m) /\ m \in Message
    BY RestOf, PartsOfPage DEF m, Takes
  <2> QED
    BY <1>1, <2>1 DEF Sound, Lined, OneSql, Single, r, Message, Sql
<1>5. \A i \in DOMAIN s : ~End(s[i]) /\ ~Col(s[i])
  BY <1>1, <1>4 DEF Sound, Lined, OneSql, Single
<1>6. Silent(q) /\ ~Silent(p)
  BY <1>1, <1>4 DEF Sound, Lined, OneSql, Single, Silent
<1>7. /\ a # <<>>
      /\ \A i \in DOMAIN a : i \in 1 .. 2 /\ (End(a[i]) <=> i = Len(a)) /\ (Col(a[i]) => i = 1)
      /\ \A i \in DOMAIN a : End(a[i]) \/ Col(a[i]) => a[i].req = r
      /\ Len(a) \in DOMAIN a
  <2>1. \A x : ~ (End(x) /\ Col(x))
    BY DEF End, Col
  <2>2. PICK e \in Reply : /\ End(e) /\ e.req = r
                           /\ a = <<e>> \/ \E c \in Reply : Col(c) /\ c.req = r /\ a = <<c, e>>
    BY DEF Ends, r, m
  <2>3. CASE a = <<e>>
    BY <2>1, <2>2, <2>3
  <2>4. CASE \E c \in Reply : Col(c) /\ c.req = r /\ a = <<c, e>>
    <3>1. PICK c \in Reply : Col(c) /\ c.req = r /\ a = <<c, e>>
      BY <2>4
    <3> QED
      BY <2>1, <2>2, <3>1
  <2> QED
    BY <2>2, <2>3, <2>4
<1>8. /\ \A i \in DOMAIN t : End(t[i]) => i = n + Len(a) /\ t[i].req = r
      /\ \A i \in DOMAIN t : Col(t[i]) => i = n + 1 /\ t[i].req = r /\ n + 1 < n + Len(a)
      /\ n + Len(a) \in DOMAIN t /\ End(t[n + Len(a)])
  <2>1. \A x : ~ (End(x) /\ Col(x))
    BY DEF End, Col
  <2>2. ASSUME NEW i \in DOMAIN t, End(t[i]) \/ Col(t[i])
        PROVE  /\ i - n \in DOMAIN a /\ t[i] = a[i - n] /\ n + (i - n) = i
    BY <1>3, <1>5, <2>2
  <2>3. ASSUME NEW i \in DOMAIN t, End(t[i]) PROVE i = n + Len(a) /\ t[i].req = r
    BY <1>7, <2>2, <2>3
  <2>4. ASSUME NEW i \in DOMAIN t, Col(t[i]) PROVE i = n + 1 /\ t[i].req = r /\ n + 1 < n + Len(a)
    <3>1. i - n = 1 /\ 1 # Len(a) /\ t[i].req = r /\ i = n + 1
      BY <1>7, <2>1, <2>2, <2>4
    <3>2. 1 \in DOMAIN a
      BY <2>2, <2>4, <3>1
    <3> QED
      BY <1>3, <3>1, <3>2
  <2>5. n + Len(a) \in DOMAIN t /\ End(t[n + Len(a)])
    BY <1>3, <1>7
  <2> QED
    BY <2>3, <2>4, <2>5
<1>9. OneSql(q, t)
  BY <1>2, <1>4, <1>6, <1>8 DEF OneSql, Single, Silent
<1>10. Promised(q, t, {})
  <2> SUFFICES ASSUME NEW k \in Kinds, worker # None, q.inFlight[k] = worker, ~threw
               PROVE  \/ \E i \in DOMAIN q.toWorker : OfView(q.toWorker[i], k)
                      \/ \E i \in DOMAIN t : OfView(t[i], k)
    BY DEF Promised
  <2>1. ~OfView(m, k)
    BY <1>4 DEF Sql, OfView
  <2>2. \/ \E i \in DOMAIN p.toWorker : OfView(p.toWorker[i], k)
        \/ \E i \in DOMAIN s : OfView(s[i], k)
    BY <1>2 DEF Sound, Promised
  <2> QED
    BY <1>1, <1>3, <2>1, <2>2
<1>11. ASSUME NEW u \in Terminals PROVE ShowsAt(q, t, u)
  <2>1. ShowsAt(p, s, u)
    BY DEF Sound, Shows
  <2> QED
    BY <1>1, <1>2, <1>6, <2>1 DEF ShowsAt
<1> QED
  BY <1>1, <1>2, <1>9, <1>10, <1>11 DEF Fine, Sound, Lined, Shows

\* The worker answers what is no request of the queue.
Tells(m, a) ==
    /\ \A i \in DOMAIN a : ~End(a[i]) /\ ~Col(a[i])
    /\ \A k \in Kinds : OfView(m, k) => \E i \in DOMAIN a : OfView(a[i], k)

\* The worker says something of another message than SQL, or throws.
LEMMA ToldKeeps ==
    ASSUME NEW p, NEW q, NEW s, NEW t, NEW a, Takes(p, q, s, t, a), loads \in Nat, Sound(p, s),
           \A i \in DOMAIN a : ~End(a[i]) /\ ~Col(a[i])
    PROVE  /\ q \in Pages /\ Single(q, t) /\ Queued(q) /\ Paced(q, {}) /\ Serves(q, {}) /\ Shows(q, t, {})
           /\ ~Sql(Head(p.toWorker)) /\ Tells(Head(p.toWorker), a) => Fine(q, t)
<1> DEFINE m == Head(p.toWorker)
           n == Len(s)
<1>1. /\ Pending(q) = Pending(p) /\ Queued(q) /\ Paced(q, {}) /\ Serves(q, {})
      /\ \A u : Awaited(q, u) = Awaited(p, u)
      /\ 1 \in DOMAIN p.toWorker /\ p.toWorker[1] = m
      /\ \A i \in DOMAIN q.toWorker : /\ i + 1 \in DOMAIN p.toWorker /\ i + 1 # 1 /\ i \in Nat
                                      /\ q.toWorker[i] = p.toWorker[i + 1]
      /\ \A i \in DOMAIN p.toWorker : i # 1 =>
            i - 1 \in DOMAIN q.toWorker /\ q.toWorker[i - 1] = p.toWorker[i]
  BY TakesParts DEF Sound, Lined
<1>2. /\ q \in Pages /\ q.active = p.active /\ q.win = p.win /\ q.inFlight = p.inFlight
      /\ s \in Seq(Reply) /\ a \in Seq(Reply) /\ t = s \o a
  BY DEF Takes
<1>3. /\ \A i \in DOMAIN s : i \in DOMAIN t /\ t[i] = s[i]
      /\ \A i \in DOMAIN a : n + i \in DOMAIN t /\ t[n + i] = a[i]
      /\ \A i \in DOMAIN t : i \in DOMAIN s \/ (i - n \in DOMAIN a /\ n + (i - n) = i)
  BY <1>2, JoinParts
<1> HIDE DEF m, n
<1>4. \A i \in DOMAIN t : End(t[i]) \/ Col(t[i]) => i \in DOMAIN s /\ t[i] = s[i]
  BY <1>3
<1>5. Single(p, s)
  BY DEF Sound, Lined, OneSql
<1>6. Single(q, t)
  <2>1. \A i \in DOMAIN q.toWorker : Sql(q.toWorker[i]) => q.active = {q.toWorker[i].req}
    BY <1>1, <1>2, <1>5 DEF Single
  <2>2. ASSUME NEW i \in DOMAIN q.toWorker, NEW j \in DOMAIN q.toWorker,
               Sql(q.toWorker[i]), Sql(q.toWorker[j])
        PROVE  i = j
    <3>1. i + 1 = j + 1
      BY <1>1, <1>5, <2>2 DEF Single
    <3> QED
      BY <1>1, <3>1
  <2>3. \A i \in DOMAIN q.toWorker, j \in DOMAIN t : ~ (Sql(q.toWorker[i]) /\ End(t[j]))
    BY <1>1, <1>4, <1>5 DEF Single
  <2>4. \A i \in DOMAIN t : End(t[i]) => q.active = {t[i].req}
    BY <1>2, <1>4, <1>5 DEF Single
  <2>5. \A i, j \in DOMAIN t : (End(t[i]) /\ End(t[j])) \/ (Col(t[i]) /\ Col(t[j])) => i = j
    BY <1>4, <1>5 DEF Single
  <2>6. \A i \in DOMAIN t : Col(t[i]) =>
            \E j \in DOMAIN t : i < j /\ End(t[j]) /\ t[j].req = t[i].req
    <3> SUFFICES ASSUME NEW i \in DOMAIN t, Col(t[i])
                 PROVE  \E j \in DOMAIN t : i < j /\ End(t[j]) /\ t[j].req = t[i].req
      OBVIOUS
    <3>1. PICK j \in DOMAIN s : i < j /\ End(s[j]) /\ s[j].req = s[i].req
      BY <1>4, <1>5 DEF Single
    <3> QED
      BY <1>3, <1>4, <3>1
  <2> QED
    BY <1>2, <1>5, <2>1, <2>2, <2>3, <2>4, <2>5, <2>6 DEF Single
<1>7. Silent(p) => Silent(q)
  BY <1>1 DEF Silent
<1>8. (\A i \in DOMAIN s : ~Col(s[i])) => \A i \in DOMAIN t : ~Col(t[i])
  BY <1>4
<1>9. ASSUME NEW u \in Terminals PROVE ShowsAt(q, t, u)
  <2>1. ShowsAt(p, s, u)
    BY DEF Sound, Shows
  <2> QED
    BY <1>1, <1>2, <1>7, <1>8, <2>1 DEF ShowsAt
<1>10. ASSUME ~Sql(m), Tells(m, a) PROVE Fine(q, t)
  <2>1. OneSql(q, t)
    <3> SUFFICES ASSUME q.active # {}, ~threw
                 PROVE  \/ \E i \in DOMAIN q.toWorker : Sql(q.toWorker[i])
                        \/ \E i \in DOMAIN t : End(t[i])
      BY <1>6 DEF OneSql
    <3>1. \/ \E i \in DOMAIN p.toWorker : Sql(p.toWorker[i])
          \/ \E i \in DOMAIN s : End(s[i])
      BY <1>2 DEF Sound, Lined, OneSql
    <3> QED
      BY <1>1, <1>3, <1>10, <3>1
  <2>2. Promised(q, t, {})
    <3> SUFFICES ASSUME NEW k \in Kinds, worker # None, q.inFlight[k] = worker, ~threw
                 PROVE  \/ \E i \in DOMAIN q.toWorker : OfView(q.toWorker[i], k)
                        \/ \E i \in DOMAIN t : OfView(t[i], k)
      BY DEF Promised
    <3>1. \/ \E i \in DOMAIN p.toWorker : OfView(p.toWorker[i], k)
          \/ \E i \in DOMAIN s : OfView(s[i], k)
      BY <1>2 DEF Sound, Promised
    <3>2. OfView(m, k) => \E i \in DOMAIN a : OfView(a[i], k)
      BY <1>10 DEF Tells
    <3> QED
      BY <1>1, <1>3, <3>1, <3>2
  <2> QED
    BY <1>1, <1>2, <1>9, <2>1, <2>2 DEF Fine, Sound, Lined, Shows
<1> QED
  BY <1>1, <1>2, <1>6, <1>9, <1>10 DEF Shows, m

\* An action that takes a message is Takes.
LEMMA TakesNow ==
    ASSUME Typed, NEW a \in Seq(Reply), toWorker # <<>>,
           toWorker' = Tail(toWorker), toPage' = toPage \o a, UNCHANGED page
    PROVE  /\ toPage' \in Seq(Reply)
           /\ \E q : Takes(Page, q, toPage, toPage', a) /\ Becomes(q)
<1> DEFINE n == Tail(toWorker)
           q == [Page EXCEPT !.toWorker = n]
<1>1. Page \in Pages /\ toPage \in Seq(Reply)
  BY SessionParts
<1>2. n \in Seq(Message)
  BY <1>1, PartsOfPage, PageParts
<1> HIDE DEF n
<1>3. /\ q \in Pages
      /\ q.active = active /\ q.queue = queue /\ q.asked = asked /\ q.win = win
      /\ q.refresh = refresh /\ q.inFlight = inFlight /\ q.toWorker = n
  BY <1>1, <1>2, PageParts DEF Pages
<1> HIDE DEF q
<1>4. Takes(Page, q, toPage, toPage', a)
  BY <1>1, <1>3, PageParts DEF Takes, n
<1>5. Becomes(q)
  BY <1>3 DEF Becomes, page, request, n
<1>6. toPage' \in Seq(Reply)
  BY <1>1, ConcatProperties
<1> QED
  BY <1>4, <1>5, <1>6

\* The worker takes a message.
LEMMA WorkerKeeps ==
    ASSUME IInv, Worker
    PROVE  IInv'
<1> DEFINE m == Head(toWorker)
<1>1. /\ Typed /\ Sound(Page, toPage) /\ toWorker # <<>>
      /\ loads \in Nat /\ Page \in Pages /\ exporting \in Since /\ packing \in BOOLEAN
      /\ stale \subseteq Kinds /\ acts \in 0 .. MaxActs
  BY SessionParts DEF IInv, Worker, Typed
<1>2. m \in Message /\ Head(Page.toWorker) = m
  BY <1>1, PartsOfPage, PageParts, RestOf
<1> HIDE DEF m
<1>3. ASSUME NEW a \in Seq(Reply), Answer(m, a), stale' \subseteq Kinds,
             \/ Sql(m) /\ Ends(a, m.req)
             \/ ~Sql(m) /\ Tells(m, a)
      PROVE  IInv'
  <2>1. /\ toWorker' = Tail(toWorker) /\ toPage' = toPage \o a
        /\ UNCHANGED page /\ UNCHANGED <<worker, loads, threw>>
        /\ acts' = acts /\ exporting' = exporting /\ packing' = packing
    BY <1>3 DEF Answer, page
  <2>2. PICK q : Takes(Page, q, toPage, toPage', a) /\ Becomes(q)
    BY <1>1, <2>1, TakesNow
  <2>3. toPage' \in Seq(Reply)
    BY <1>1, <2>1, TakesNow
  <2>4. Fine(q, toPage')
    <3>1. CASE Sql(m) /\ Ends(a, m.req)
      BY <1>1, <1>2, <2>2, <3>1, SqlAnswered
    <3>2. CASE ~Sql(m) /\ Tells(m, a)
      BY <1>1, <1>2, <2>2, <3>2, ToldKeeps DEF Tells
    <3> QED
      BY <1>3, <3>1, <3>2
  <2> QED
    BY <1>1, <1>3, <2>1, <2>2, <2>3, <2>4, PageBecomes
<1>4. ASSUME NEW x \in Reply, ~End(x), ~Col(x), Answer(m, <<x>>), stale' \subseteq Kinds, ~Sql(m),
             \A k \in Kinds : OfView(m, k) => OfView(x, k)
      PROVE  IInv'
  <2> DEFINE a == <<x>>
  <2>1. a \in Seq(Reply) /\ DOMAIN a = {1} /\ a[1] = x
    OBVIOUS
  <2> HIDE DEF a
  <2>2. Tells(m, a)
    BY <1>4, <2>1 DEF Tells
  <2>3. Answer(m, a)
    BY <1>4 DEF a
  <2> QED
    BY <1>3, <1>4, <2>1, <2>2, <2>3
<1>5. CASE RunSql(m)
  <2>1. m.op = "sql" /\ m.req \in Proper /\ Sql(m)
    BY <1>2, <1>5 DEF RunSql, Message, Sql
  <2>2. PICK a \in SqlAnswers(m.req) : Answer(m, a)
    BY <1>5 DEF RunSql
  <2>3. Ends(a, m.req) /\ a \in Seq(Reply)
    <3> DEFINE r == m.req
               done == [op |-> "sqlDone", req |-> r]
               failed == [op |-> "sqlError", req |-> r]
               Cols(some) == [op |-> "sqlColumns", req |-> r, some |-> some]
    <3>1. done \in Reply /\ failed \in Reply /\ End(done) /\ End(failed) /\ done.req = r /\ failed.req = r
      BY <2>1 DEF Reply, End
    <3>2. \/ a = <<done>> \/ a = <<failed>>
          \/ /\ r.task = "run"
             /\ \E b \in BOOLEAN : a = <<Cols(b), done>> \/ a = <<Cols(b), failed>>
      BY <2>2 DEF SqlAnswers
    <3>3. ASSUME NEW b \in BOOLEAN, r.task = "run"
          PROVE  Cols(b) \in Reply /\ Col(Cols(b)) /\ Cols(b).req = r
      BY <2>1, <3>3 DEF Reply, Col
    <3> HIDE DEF r, done, failed, Cols
    <3>4. CASE a = <<done>> \/ a = <<failed>>
      BY <3>1, <3>4 DEF Ends, r
    <3>5. CASE r.task = "run" /\ \E b \in BOOLEAN : a = <<Cols(b), done>> \/ a = <<Cols(b), failed>>
      <4>1. PICK b \in BOOLEAN : a = <<Cols(b), done>> \/ a = <<Cols(b), failed>>
        BY <3>5
      <4>2. Cols(b) \in Reply /\ Col(Cols(b)) /\ Cols(b).req = r
        BY <3>3, <3>5
      <4>3. PICK e \in Reply : End(e) /\ e.req = r /\ a = <<Cols(b), e>>
        BY <3>1, <4>1
      <4>4. PICK c \in Reply : Col(c) /\ c.req = r /\ a = <<c, e>>
        BY <4>2, <4>3
      <4>5. a \in Seq(Reply)
        BY <4>4
      <4>6. Ends(a, r)
        BY <4>3, <4>4 DEF Ends
      <4> QED
        BY <4>5, <4>6 DEF r
    <3> QED
      BY <3>2, <3>4, <3>5
  <2>4. stale' \subseteq Kinds
    BY <1>1, <1>5 DEF RunSql
  <2> QED
    BY <1>3, <2>1, <2>2, <2>3, <2>4
<1>6. CASE RunEnsure(m) \/ RunScript(m)
  <2>1. m.op \in {"ensure", "script"} /\ m.kind \in Kinds /\ ~Sql(m)
    BY <1>2, <1>6 DEF RunEnsure, RunScript, Message, Sql
  <2>2. PICK x : /\ x = Failed(m.kind) \/ \E b \in BOOLEAN : x = Ready(m.kind, b)
                 /\ Answer(m, <<x>>)
    <3>1. CASE Answer(m, <<Failed(m.kind)>>)
      BY <3>1
    <3>2. CASE \E b \in BOOLEAN : Answer(m, <<Ready(m.kind, b)>>)
      BY <3>2
    <3>3. (m.kind \in stale) \in BOOLEAN /\ TRUE \in BOOLEAN
      OBVIOUS
    <3> QED
      BY <1>6, <3>1, <3>2, <3>3 DEF RunEnsure, RunScript
  <2>3. x \in Reply /\ ~End(x) /\ ~Col(x) /\ \A k \in Kinds : OfView(m, k) => OfView(x, k)
    <3>1. CASE x = Failed(m.kind)
      BY <2>1, <3>1 DEF Failed, Reply, End, Col, OfView
    <3>2. CASE \E b \in BOOLEAN : x = Ready(m.kind, b)
      <4>1. PICK b \in BOOLEAN : x = Ready(m.kind, b)
        BY <3>2
      <4> QED
        BY <2>1, <4>1 DEF Ready, Reply, End, Col, OfView
    <3> QED
      BY <2>2, <3>1, <3>2
  <2>4. stale' \subseteq Kinds
    BY <1>1, <1>6, <2>1 DEF RunEnsure, RunScript
  <2> QED
    BY <1>4, <2>1, <2>2, <2>3, <2>4
<1>7. CASE RunRevert(m) \/ RunExport(m)
  <2>1. m.op \in {"revert", "export"} /\ ~Sql(m) /\ \A k \in Kinds : ~OfView(m, k)
    BY <1>7 DEF RunRevert, RunExport, Sql, OfView
  <2>2. PICK op \in {"reverted", "checkpointError", "exported", "exportError"} : Answer(m, <<[op |-> op]>>)
    BY <1>7 DEF RunRevert, RunExport
  <2> DEFINE x == [op |-> op]
  <2>3. x \in Reply /\ ~End(x) /\ ~Col(x)
    BY DEF Reply, End, Col
  <2>4. stale' \subseteq Kinds
    BY <1>1, <1>7 DEF RunRevert, RunExport
  <2> HIDE DEF x
  <2>5. Answer(m, <<x>>)
    BY <2>2 DEF x
  <2> QED
    BY <1>4, <2>1, <2>3, <2>4, <2>5
<1> QED
  BY <1>5, <1>6, <1>7 DEF Worker, m

\* A message throws: what it asked for may be lost, once in the session.
LEMMA ThrowKeeps ==
    ASSUME IInv, Throw
    PROVE  IInv'
<1> DEFINE x == [op |-> "error"]
           a == <<x>>
<1>1. /\ Typed /\ Sound(Page, toPage) /\ loads \in Nat /\ Page \in Pages /\ toPage \in Seq(Reply)
  BY SessionParts DEF IInv
<1>2. x \in Reply /\ ~End(x) /\ ~Col(x)
  BY DEF Reply, End, Col
<1> HIDE DEF x
<1>3. a \in Seq(Reply) /\ DOMAIN a = {1} /\ a[1] = x
  BY <1>2
<1>4. toPage' = toPage \o a
  <2>1. toPage' = Append(toPage, x)
    BY DEF Throw, x
  <2> QED
    BY <1>1, <1>2, <2>1, AppendIsConcat
<1> HIDE DEF a
<1>5. toWorker # <<>> /\ toWorker' = Tail(toWorker) /\ UNCHANGED page /\ threw' = TRUE
      /\ UNCHANGED <<worker, loads, stale, acts>>
  BY DEF Throw
<1>6. PICK q : Takes(Page, q, toPage, toPage', a) /\ Becomes(q)
  BY <1>1, <1>3, <1>4, <1>5, TakesNow
<1>7. toPage' \in Seq(Reply)
  BY <1>1, <1>3, <1>4, <1>5, TakesNow
<1>8. /\ q \in Pages /\ Single(q, toPage') /\ Queued(q) /\ Paced(q, {}) /\ Serves(q, {})
      /\ Shows(q, toPage', {})
  BY <1>1, <1>2, <1>3, <1>6, ToldKeeps
<1>9. Page' = q
  BY <1>6, <1>8, PagesParts DEF Page
<1>10. worker' = worker
  BY <1>5
<1>11. Lined(Page, toPage)'
  BY <1>5, <1>8, <1>9 DEF Lined, OneSql, Single, Queued, Sql, End, Col
<1>12. Paced(Page, {})'
  BY <1>8, <1>9, <1>10 DEF Paced, Probes, AtStage, Pending
<1>13. Promised(Page, toPage, {})'
  BY <1>5 DEF Promised
<1>14. Serves(Page, {})'
  BY <1>8, <1>9, <1>10 DEF Serves, Served, Pending, Background
<1>15. Shows(Page, toPage, {})'
  BY <1>8, <1>9 DEF Shows, ShowsAt, Awaited, Pending, Background, Silent, Sql, Col
<1>16. Typed'
  <2>1. Since' = Since
    BY <1>5 DEF Since
  <2>2. Pages' = Pages
    BY <2>1 DEF Pages, Window, Todo
  <2> QED
    BY <1>1, <1>5, <1>7, <1>8, <1>9, <2>1, <2>2 DEF Typed, page
<1> QED
  BY <1>11, <1>12, <1>13, <1>14, <1>15, <1>16 DEF IInv, Sound

\* The user runs a query, saves changes, selects a schema, shows an explorer.
LEMMA AskedKeeps ==
    ASSUME IInv, \/ \E t \in Terminals : Run(t) \/ Save(t)
                 \/ \E k \in Kinds : Select(k)
                 \/ \E e \in Explorers : Show(e)
    PROVE  IInv'
<1>1. /\ Typed /\ Sound(Page, toPage)
      /\ loads \in Nat /\ worker \in Since /\ Page \in Pages /\ toPage \in Seq(Reply)
      /\ stale \subseteq Kinds /\ acts \in 0 .. MaxActs /\ exporting \in Since /\ packing \in BOOLEAN
  BY SessionParts DEF IInv, Typed
<1>2. /\ Lined(Page, toPage) /\ Paced(Page, {}) /\ Promised(Page, toPage, {})
      /\ Serves(Page, {}) /\ Shows(Page, toPage, {})
  BY <1>1 DEF Sound
<1>3. \A t \in Terminals : Serves(Page, {t}) /\ Shows(Page, toPage, {t})
  BY <1>2 DEF Serves, Shows
<1>4. CanAct => worker # None /\ acts' \in 0 .. MaxActs
  BY <1>1, SessionConstants DEF CanAct
<1>5. ASSUME NEW q, Becomes(q), Fine(q, toPage), toPage' = toPage, stale' \subseteq Kinds, CanAct,
             UNCHANGED <<worker, loads, exporting, packing, threw>>
      PROVE  IInv'
  BY <1>1, <1>4, <1>5, PageBecomes
<1>6. ASSUME NEW q, Kept(Page, q, toPage, {}, {}) PROVE Fine(q, toPage)
  <2>1. Serves(q, {}) /\ Shows(q, toPage, {})
    BY <1>2, <1>6, OnwardSound DEF Kept, Onward
  <2> QED
    BY <1>6, <2>1 DEF Fine, Sound, Kept, Onward
<1>7. ASSUME NEW t \in Terminals, Run(t) PROVE IInv'
  <2> DEFINE n == asked + 1
             q == RunInto(Page, t, n)
  <2>1. n \in Nat
    BY <1>1, PartsOfPage, PageParts
  <2>2. /\ Becomes(q) /\ CanAct /\ toPage' = toPage /\ stale' = stale
        /\ UNCHANGED <<worker, loads, exporting, packing, threw>>
    BY <1>7 DEF Run
  <2> HIDE DEF n
  <2>3. Fine(q, toPage)
    BY <1>1, <1>2, <1>3, <2>1, RunIntoKeeps DEF Fine
  <2> HIDE DEF q
  <2> QED
    BY <1>1, <1>5, <2>2, <2>3
<1>8. ASSUME NEW t \in Terminals, Save(t) PROVE IInv'
  <2> DEFINE l == win[t].last
             b == Busy(Page, t)
             q == Requested(b, "save", t, l, Statements)
  <2>1. /\ Becomes(q) /\ CanAct /\ CanSave(t) /\ toPage' = toPage /\ stale' = stale
        /\ UNCHANGED <<worker, loads, exporting, packing, threw>>
    BY <1>8 DEF Save
  <2>2. l \in Nat /\ l # None
    <3>1. win[t] \in Window
      BY <1>1, PartsOfPage, PageParts
    <3> QED
      BY <2>1, <3>1 DEF Window, CanSave
  <2> HIDE DEF l
  <2>3. /\ b \in Pages
        /\ b.active = Page.active /\ b.queue = Page.queue /\ b.asked = Page.asked
        /\ b.toWorker = Page.toWorker /\ b.refresh = Page.refresh /\ b.inFlight = Page.inFlight
        /\ ShowsSame(b.win[t], Page.win[t])
        /\ \A u \in Terminals \ {t} : b.win[u] = Page.win[u]
    BY <1>1, BusyParts
  <2> HIDE DEF b
  <2>4. /\ Lined(b, toPage) /\ Paced(b, {}) /\ Promised(b, toPage, {})
        /\ Serves(b, {t}) /\ Shows(b, toPage, {t}) /\ Awaited(b, t) = Awaited(Page, t)
    BY <1>1, <1>2, <1>3, <2>3, WindowChanges
  <2>5. ~b.win[t].hasty => /\ \A r \in Awaited(b, t) : r.task # "run"
                           /\ b.win[t].last = None \/ b.win[t].tables \in {<<>>, <<b.win[t].last>>}
    <3>1. ShowsAt(Page, toPage, t) /\ Page.win[t].last # None
      BY <1>2, <2>2, PageParts DEF Shows, l
    <3> QED
      BY <2>3, <2>4, <3>1 DEF ShowsAt, ShowsSame
  <2>6. Statements \in 1 .. Statements
    BY SessionConstants
  <2>7. Fine(q, toPage)
    BY <1>1, <2>2, <2>3, <2>4, <2>5, <2>6, SaveRequested DEF Fine
  <2> HIDE DEF q
  <2> QED
    BY <1>1, <1>5, <2>1, <2>7
<1>9. ASSUME NEW k \in Kinds, Select(k) PROVE IInv'
  <2> DEFINE q == Ensured(Page, k)
  <2>1. /\ Becomes(q) /\ CanAct /\ toPage' = toPage /\ stale' \in {stale, stale \cup {k}}
        /\ UNCHANGED <<worker, loads, exporting, packing, threw>>
    BY <1>9 DEF Select
  <2>2. /\ Onward(Page, q, toPage) /\ Promised(q, toPage, {})
        /\ Pending(q) = Pending(Page) /\ q.refresh = Page.refresh
    BY <1>1, <1>2, EnsuredKeeps
  <2> HIDE DEF q
  <2>3. Paced(q, {})
    <3>1. \A e : Probes(q, e) = Probes(Page, e)
      BY <2>2 DEF Probes
    <3>2. \A e, op : AtStage(q, e, op) <=> AtStage(Page, e, op)
      BY <2>2 DEF AtStage
    <3>3. \A e \in Explorers : AtStage(Page, e, "ensure") => Head(Page.refresh[e].stages).kind \in Kinds
      BY <1>1, TodoParts DEF AtStage
    <3>4. \A l \in Kinds : Page.inFlight[l] # None => q.inFlight[l] # None
      BY <2>2 DEF Onward
    <3> QED
      BY <1>2, <2>2, <3>1, <3>2, <3>3, <3>4 DEF Paced
  <2>4. Fine(q, toPage)
    BY <1>6, <2>2, <2>3 DEF Kept
  <2> QED
    BY <1>1, <1>5, <2>1, <2>4
<1>10. ASSUME NEW e \in Explorers, Show(e) PROVE IInv'
  <2> DEFINE q == Refreshed(Page, e)
  <2>1. /\ Becomes(q) /\ CanAct /\ toPage' = toPage /\ stale' = stale
        /\ UNCHANGED <<worker, loads, exporting, packing, threw>>
    BY <1>10 DEF Show
  <2>2. Kept(Page, q, toPage, {}, {})
    BY <1>1, <1>2, RefreshedKeeps
  <2> HIDE DEF q
  <2> QED
    BY <1>1, <1>5, <1>6, <2>1, <2>2
<1> QED
  BY <1>7, <1>8, <1>9, <1>10

\* A message that is no request of the queue is posted.
LEMMA PostedKeeps ==
    ASSUME NEW p \in Pages, NEW s, Sound(p, s), NEW m \in Message, ~Sql(m)
    PROVE  Fine(Posted(p, m), s)
<1> DEFINE q == Posted(p, m)
<1>1. /\ q \in Pages
      /\ q.active = p.active /\ q.queue = p.queue /\ q.asked = p.asked /\ q.win = p.win
      /\ q.refresh = p.refresh /\ q.inFlight = p.inFlight /\ q.toWorker = Append(p.toWorker, m)
  BY PostedParts
<1> HIDE DEF q
<1>2. /\ Len(p.toWorker) \in Nat
      /\ DOMAIN p.toWorker = 1 .. Len(p.toWorker)
      /\ DOMAIN q.toWorker = 1 .. Len(p.toWorker) + 1
      /\ \A i \in DOMAIN p.toWorker : q.toWorker[i] = p.toWorker[i]
      /\ q.toWorker[Len(p.toWorker) + 1] = m
  <2>1. p.toWorker \in Seq(Message)
    BY PartsOfPage
  <2> QED
    BY <1>1, <2>1
<1>3. /\ \A i \in DOMAIN q.toWorker : Sql(q.toWorker[i]) =>
            i \in DOMAIN p.toWorker /\ q.toWorker[i] = p.toWorker[i]
      /\ \A i \in DOMAIN p.toWorker : i \in DOMAIN q.toWorker /\ q.toWorker[i] = p.toWorker[i]
  BY <1>2
<1>4. Lined(q, s)
  <2>1. Queued(q)
    BY <1>1 DEF Sound, Lined, Queued
  <2>2. OneSql(q, s)
    BY <1>1, <1>3 DEF Sound, Lined, OneSql, Single
  <2> QED
    BY <2>1, <2>2 DEF Lined
<1>5. Pending(q) = Pending(p)
  BY <1>1 DEF Pending
<1>6. Goes(p, q)
  <2>1. Posts(p) \subseteq Posts(q)
    BY <1>3 DEF Posts
  <2>2. Silent(p) => Silent(q)
    BY <1>3 DEF Silent
  <2> QED
    BY <1>1, <1>5, <2>1, <2>2 DEF Goes, ShowsSame
<1>7. Promised(q, s, {})
  BY <1>1, <1>6, PromisedKept DEF Sound
<1>8. Serves(q, {}) /\ Shows(q, s, {})
  BY <1>5, <1>6, OnwardSound DEF UserPending, Sound
<1>9. Paced(q, {})
  <2>1. \A e : Probes(q, e) = Probes(p, e)
    BY <1>5 DEF Probes
  <2>2. \A e, op : AtStage(q, e, op) <=> AtStage(p, e, op)
    BY <1>1 DEF AtStage
  <2> QED
    BY <1>1, <2>1, <2>2 DEF Sound, Paced
<1> QED
  BY <1>1, <1>4, <1>7, <1>8, <1>9 DEF Fine, Sound, q

\* A script, a revert or an export is sent.
LEMMA PostKeeps ==
    ASSUME IInv, \/ \E k \in Kinds : Post([op |-> "script", kind |-> k])
                 \/ Post([op |-> "revert"]) \/ Export
    PROVE  IInv'
<1>1. /\ Typed /\ Sound(Page, toPage)
      /\ worker \in Since /\ Page \in Pages /\ toPage \in Seq(Reply)
      /\ stale \subseteq Kinds /\ acts \in 0 .. MaxActs /\ exporting \in Since /\ packing \in BOOLEAN
  BY SessionParts DEF IInv, Typed
<1>2. ASSUME NEW m \in Message, ~Sql(m), CanAct, toWorker' = Append(toWorker, m),
             UNCHANGED <<worker, loads, request, win, refresh, inFlight, packing, toPage, stale, threw>>,
             exporting' \in Since
      PROVE  IInv'
  <2> DEFINE q == Posted(Page, m)
  <2>1. Becomes(q)
    <3>1. /\ q.active = active /\ q.queue = queue /\ q.asked = asked /\ q.win = win
          /\ q.refresh = refresh /\ q.inFlight = inFlight /\ q.toWorker = Append(toWorker, m)
      BY <1>1, PostedParts, PageParts
    <3> HIDE DEF q
    <3> QED
      BY <1>2, <3>1 DEF Becomes, request
  <2>2. Fine(q, toPage)
    BY <1>1, <1>2, PostedKeeps
  <2> HIDE DEF q
  <2>3. acts' \in 0 .. MaxActs
    BY <1>1, <1>2, SessionConstants DEF CanAct
  <2> QED
    BY <1>1, <1>2, <2>1, <2>2, <2>3, PageBecomes
<1>3. ASSUME NEW m \in Message, ~Sql(m), Post(m) PROVE IInv'
  BY <1>1, <1>2, <1>3 DEF Post, page
<1>4. ASSUME NEW k \in Kinds, Post([op |-> "script", kind |-> k]) PROVE IInv'
  <2> DEFINE m == [op |-> "script", kind |-> k]
  <2>1. m \in Message /\ ~Sql(m)
    BY DEF Message, Sql
  <2> HIDE DEF m
  <2> QED
    BY <1>3, <1>4, <2>1 DEF m
<1>5. ASSUME Post([op |-> "revert"]) PROVE IInv'
  <2> DEFINE m == [op |-> "revert"]
  <2>1. m \in Message /\ ~Sql(m)
    BY DEF Message, Sql
  <2> HIDE DEF m
  <2> QED
    BY <1>3, <1>5, <2>1 DEF m
<1>6. ASSUME Export PROVE IInv'
  <2> DEFINE m == [op |-> "export"]
  <2>1. m \in Message /\ ~Sql(m)
    BY DEF Message, Sql
  <2>2. toWorker' = Append(toWorker, m)
    BY <1>6 DEF Export
  <2> HIDE DEF m
  <2> QED
    BY <1>1, <1>2, <1>6, <2>1, <2>2 DEF Export
<1> QED
  BY <1>4, <1>5, <1>6

\* The user resets: nothing is asked for any more.
LEMMA ResetKeeps ==
    ASSUME IInv, Reset
    PROVE  IInv'
<1>1. Typed /\ Sound(Page, toPage) /\ Page \in Pages
  BY SessionParts DEF IInv
<1>2. /\ worker' = None /\ active' = {} /\ queue' = <<>> /\ toWorker' = <<>> /\ toPage' = <<>>
      /\ stale' = {} /\ threw' = FALSE /\ CanAct
      /\ UNCHANGED <<loads, asked, win, refresh, inFlight, exporting, packing>>
  BY DEF Reset
<1>3. DOMAIN <<>> = {}
  OBVIOUS
<1>4. /\ Page'.active = {} /\ Page'.queue = <<>> /\ Page'.asked = Page.asked /\ Page'.win = Page.win
      /\ Page'.refresh = Page.refresh /\ Page'.inFlight = Page.inFlight /\ Page'.toWorker = <<>>
      /\ Page' = [active |-> {}, queue |-> <<>>, asked |-> asked, win |-> win,
                  refresh |-> refresh, inFlight |-> inFlight, toWorker |-> <<>>]
  BY <1>2 DEF Page
<1>5. Lined(Page, toPage)'
  BY <1>2, <1>3, <1>4 DEF Lined, OneSql, Single, Queued
<1>6. Pending(Page)' = {}
  BY <1>3, <1>4 DEF Pending
<1>7. Paced(Page, {})'
  BY <1>2, <1>6 DEF Paced, Probes
<1>8. Promised(Page, toPage, {})' /\ Serves(Page, {})'
  BY <1>2 DEF Promised, Serves
<1>9. Shows(Page, toPage, {})'
  <2>1. \A t \in Terminals : ShowsAt(Page, toPage, t)
    BY <1>1 DEF Sound, Shows
  <2> QED
    BY <1>4, <1>6, <2>1 DEF Shows, ShowsAt, Awaited
<1>10. Typed'
  <2>1. Since' = Since
    BY <1>2 DEF Since
  <2>2. Pages' = Pages
    BY <2>1 DEF Pages, Window, Todo
  <2>3. Page' \in Pages
    <3>1. /\ asked \in Nat /\ win \in [Terminals -> Window] /\ refresh \in [Explorers -> Todo]
          /\ inFlight \in [Kinds -> Since]
      BY <1>1, PartsOfPage, PageParts
    <3>2. <<>> \in Seq(Proper) /\ <<>> \in Seq(Message)
      OBVIOUS
    <3> QED
      BY <1>4, <3>1, <3>2 DEF Pages
  <2>4. acts' \in 0 .. MaxActs /\ <<>> \in Seq(Reply)
    BY <1>1, <1>2, SessionConstants DEF CanAct, Typed
  <2> QED
    BY <1>1, <1>2, <2>1, <2>2, <2>3, <2>4 DEF Typed
<1> QED
  BY <1>5, <1>7, <1>8, <1>9, <1>10 DEF IInv, Sound

\* A session begins: what the earlier ones left is not of it.
LEMMA LoadKeeps ==
    ASSUME IInv, Load
    PROVE  IInv'
<1>1. Typed /\ Sound(Page, toPage) /\ Page \in Pages /\ loads \in Nat
  BY SessionParts DEF IInv
<1>2. /\ loads < MaxSessions /\ loads' = loads + 1 /\ worker' = loads + 1 /\ stale' = Kinds
      /\ UNCHANGED <<page, toWorker, toPage, acts, threw>>
  BY DEF Load
<1>3. Page' = Page /\ threw' = threw /\ toPage' = toPage
  BY <1>2 DEF page, request, Page
<1>4. /\ Since \subseteq Since'
      /\ \A n \in Since : n # loads + 1
      /\ Since' = 0 .. loads + 1
  BY <1>1, <1>2 DEF Since
<1>5. /\ \A t \in Terminals : Page.win[t].since \in Since
      /\ \A e \in Explorers : Page.refresh[e].since \in Since
      /\ \A k \in Kinds : Page.inFlight[k] \in Since
  <2>1. \A t \in Terminals : Page.win[t] \in Window
    BY <1>1, PartsOfPage
  <2>2. \A e \in Explorers : Page.refresh[e].since \in Since
    BY <1>1, TodoParts
  <2> QED
    BY <1>1, <2>1, <2>2, PartsOfPage DEF Window
<1>6. Lined(Page, toPage)'
  BY <1>1, <1>3 DEF Sound, Lined, OneSql, Single, Queued, Sql, End, Col
<1>7. Paced(Page, {})'
  <2>1. \A e \in Explorers : Page'.refresh[e].since # worker'
    BY <1>2, <1>3, <1>4, <1>5
  <2> QED
    BY <1>1, <1>3, <2>1 DEF Sound, Paced, Probes, AtStage, Pending
<1>8. Promised(Page, toPage, {})'
  BY <1>2, <1>3, <1>4, <1>5 DEF Promised
<1>9. Serves(Page, {})'
  BY <1>2, <1>3, <1>4, <1>5 DEF Serves
<1>10. Shows(Page, toPage, {})'
  BY <1>1, <1>3 DEF Sound, Shows, ShowsAt, Awaited, Pending, Background, Silent, Sql, Col
<1>11. Typed'
  <2>1. Window \subseteq Window' /\ Todo \subseteq Todo'
    BY <1>4 DEF Window, Todo
  <2>2. [Terminals -> Window] \subseteq [Terminals -> Window'] /\ [Explorers -> Todo] \subseteq [Explorers -> Todo']
        /\ [Kinds -> Since] \subseteq [Kinds -> Since']
    BY <1>4, <2>1
  <2>3. Page' \in Pages'
    <3>1. Page \in Pages'
      BY <1>1, <2>2 DEF Pages
    <3> QED
      BY <1>3, <3>1
  <2>4. loads' \in 0 .. MaxSessions /\ worker' \in {None, loads'}
    BY <1>1, <1>2, SessionConstants
  <2>5. exporting' \in Since' /\ packing' \in BOOLEAN /\ acts' = acts /\ threw' = threw
        /\ stale' \subseteq Kinds
    BY <1>1, <1>2, <1>4 DEF Typed, page
  <2> QED
    BY <1>1, <1>3, <2>3, <2>4, <2>5 DEF Typed
<1> QED
  BY <1>6, <1>7, <1>8, <1>9, <1>10, <1>11 DEF IInv, Sound

\* A step that changes nothing of the page but the export.
LEMMA PageStays ==
    ASSUME IInv, UNCHANGED <<worker, loads, request, win, refresh, inFlight, toWorker, toPage,
                             stale, acts, threw>>,
           exporting' \in Since, packing' \in BOOLEAN
    PROVE  IInv'
<1>1. Typed /\ Sound(Page, toPage) /\ Page \in Pages /\ toPage \in Seq(Reply)
  BY SessionParts DEF IInv
<1>2. Becomes(Page)
  BY PageParts DEF Becomes, request
<1>3. Fine(Page, toPage')
  BY <1>1 DEF Fine
<1> QED
  BY <1>1, <1>2, <1>3, PageBecomes DEF Typed

-----------------------------------------------------------------------------
(* The theorems.                                                           *)

\* The page before the first load.
LEMMA InitIsSound ==
    ASSUME Init
    PROVE  IInv
<1>1. /\ Page.active = {} /\ Page.queue = <<>> /\ Page.toWorker = <<>> /\ toPage = <<>>
      /\ Page.win = [t \in Terminals |-> Idle] /\ Page.refresh = [e \in Explorers |-> NotRefreshing]
      /\ Page.inFlight = [k \in Kinds |-> None] /\ Page.asked = 0
      /\ worker = None /\ loads = 0
  BY PageParts DEF Init
<1>2. DOMAIN <<>> = {}
  OBVIOUS
<1>3. Pending(Page) = {}
  BY <1>1, <1>2 DEF Pending
<1>4. Lined(Page, toPage)
  BY <1>1, <1>2 DEF Lined, OneSql, Single, Queued
<1>5. Paced(Page, {}) /\ Promised(Page, toPage, {}) /\ Serves(Page, {})
  BY <1>1, <1>3 DEF Paced, Probes, Promised, Serves
<1>6. Shows(Page, toPage, {})
  BY <1>1, <1>3 DEF Shows, ShowsAt, Awaited, Idle
<1>7. Typed
  <2>1. None \in Since /\ Since = 0 .. 0 /\ None = 0
    BY <1>1 DEF Since, None
  <2>2. Idle \in Window /\ NotRefreshing \in Todo
    <3>1. <<>> \in Seq(Nat) /\ <<>> \in Seq(Stage)
      OBVIOUS
    <3> QED
      BY <2>1, <3>1 DEF Idle, Window, NotRefreshing, Todo
  <2>3. Page \in Pages
    <3>1. <<>> \in Seq(Proper) /\ <<>> \in Seq(Message)
      OBVIOUS
    <3> QED
      BY <1>1, <2>1, <2>2, <3>1, PageParts DEF Pages, Page
  <2>4. toPage \in Seq(Reply)
    BY <1>1
  <2>5. loads \in 0 .. MaxSessions /\ acts \in 0 .. MaxActs
    BY SessionConstants DEF Init
  <2>6. worker = None /\ exporting \in Since /\ packing \in BOOLEAN /\ stale \subseteq Kinds /\ threw \in BOOLEAN
    BY <2>1 DEF Init
  <2> QED
    BY <2>3, <2>4, <2>5, <2>6 DEF Typed
<1> QED
  BY <1>4, <1>5, <1>6, <1>7 DEF IInv, Sound

\* Every action.
LEMMA NextKeeps ==
    ASSUME IInv, [Next]_vars
    PROVE  IInv'
<1>1. Typed
  BY DEF IInv
<1>2. CASE User
  BY <1>2, AskedKeeps, PostKeeps, ResetKeeps DEF User
<1>3. CASE Load
  BY <1>3, LoadKeeps
<1>4. CASE Worker
  BY <1>4, WorkerKeeps
<1>5. CASE Throw
  BY <1>5, ThrowKeeps
<1>6. CASE PageTakes
  BY <1>6, PageTakesKeeps
<1>7. CASE Packed
  <2>1. exporting' \in Since /\ packing' \in BOOLEAN
    BY <1>1, <1>7, SessionParts DEF Packed
  <2> QED
    BY <1>7, <2>1, PageStays DEF Packed
<1>8. CASE UNCHANGED vars
  BY <1>1, <1>8, PageStays DEF vars, page, Typed
<1> QED
  BY <1>2, <1>3, <1>4, <1>5, <1>6, <1>7, <1>8 DEF Next

\* The page and the messages between it and the worker are sound in every
\* reachable state, whatever the handlers' order, resets and errors.
THEOREM SoundAlways == Spec => []IInv
<1>1. Init => IInv
  BY InitIsSound
<1>2. IInv /\ [Next]_vars => IInv'
  BY NextKeeps
<1> QED
  BY <1>1, <1>2, PTL DEF Spec

\* A set no two elements of which differ has at most one.
LEMMA OneAtMost ==
    ASSUME NEW S, \A x, y \in S : x = y
    PROVE  IsFiniteSet(S) /\ Cardinality(S) \in {0, 1} /\ (S = {} => Cardinality(S) = 0)
<1>1. CASE S = {}
  BY <1>1, FS_EmptySet
<1>2. CASE S # {}
  <2>1. PICK x \in S : TRUE
    BY <1>2
  <2>2. S = {x}
    BY <2>1
  <2> QED
    BY <1>2, <2>2, FS_Singleton
<1> QED
  BY <1>1, <1>2

\* The model's own type invariant is weaker.
LEMMA TypeHolds ==
    ASSUME IInv
    PROVE  TypeOK
<1>1. Typed /\ Page \in Pages /\ OneSql(Page, toPage)
  BY SessionParts DEF IInv, Sound, Lined
<1>2. Since \subseteq Session \cup {None}
  BY <1>1, SessionConstants DEF Typed, Since, Session, None
<1>3. worker \in Session \cup {None} /\ exporting \in Session \cup {None}
  BY <1>1, <1>2, SessionParts DEF Typed
<1>4. Proper \subseteq Request
  BY DEF Proper
<1>5. active \subseteq Request /\ queue \in Seq(Request) /\ asked \in Nat
  <2>1. active \in SUBSET Proper /\ queue \in Seq(Proper) /\ asked \in Nat
    BY <1>1, PartsOfPage, PageParts
  <2> QED
    BY <1>4, <2>1
<1>6. Cardinality(active) <= 1
  <2>1. \A x, y \in active : x = y
    BY <1>1, PageParts DEF OneSql, Single
  <2>2. Cardinality(active) \in {0, 1}
    BY <2>1, OneAtMost
  <2> QED
    BY <2>2
<1>7. win \in [Terminals -> [busy : BOOLEAN, since : Session \cup {None}, tables : Seq(Nat),
                             columns : Nat, last : Nat, hasty : BOOLEAN]]
  <2>1. win \in [Terminals -> Window]
    BY <1>1, PartsOfPage, PageParts
  <2> QED
    BY <1>2, <2>1 DEF Window
<1>8. \A e \in Explorers : refresh[e].since \in Session \cup {None}
  BY <1>1, <1>2, TodoParts, PageParts
<1>9. inFlight \in [Kinds -> Session \cup {None}]
  BY <1>1, <1>2, PartsOfPage, PageParts
<1> QED
  BY <1>1, <1>3, <1>5, <1>6, <1>7, <1>8, <1>9 DEF TypeOK, Typed

\* Requests are asked one by one and in order: OneUnderWay and QueueOrder hold of
\* the queue of postSqlRequest, pumpSqlRequestQueue and finishActiveSqlRequest.
THEOREM InOrder == Spec => []RequestsInOrder
<1>1. ASSUME IInv PROVE RequestsInOrder
  <2>1. /\ TypeOK /\ OneSql(Page, toPage) /\ Single(Page, toPage) /\ Queued(Page)
    BY <1>1, TypeHolds DEF IInv, Sound, Lined, OneSql
  <2>2. OneUnderWay
    <3> DEFINE requests == At(toWorker, {"sql"})
               answers == At(toPage, {"sqlDone", "sqlError"})
    <3>1. requests = {i \in DOMAIN toWorker : Sql(toWorker[i])}
      BY DEF At, Sql
    <3>2. answers = {i \in DOMAIN toPage : End(toPage[i])}
      BY DEF At, End
    <3> HIDE DEF requests, answers
    <3>3. /\ \A i, j \in requests : i = j
          /\ \A i, j \in answers : i = j
          /\ requests = {} \/ answers = {}
          /\ \A i \in requests : active = {toWorker[i].req}
          /\ \A i \in answers : active = {toPage[i].req}
      BY <2>1, <3>1, <3>2, PageParts DEF Single
    <3>4. active # {} => requests # {} \/ answers # {} \/ threw
      BY <2>1, <3>1, <3>2, PageParts DEF OneSql
    <3>5. /\ Cardinality(requests) \in {0, 1} /\ (requests = {} => Cardinality(requests) = 0)
          /\ Cardinality(answers) \in {0, 1} /\ (answers = {} => Cardinality(answers) = 0)
      BY <3>3, OneAtMost
    <3>6. Cardinality(requests) + Cardinality(answers) <= 1
      BY <3>3, <3>5
    <3> QED
      BY <3>3, <3>4, <3>6 DEF OneUnderWay, requests, answers
  <2>3. QueueOrder
    BY <2>1, PageParts DEF QueueOrder, Queued
  <2> QED
    BY <2>1, <2>2, <2>3 DEF RequestsInOrder
<1> QED
  BY <1>1, SoundAlways, PTL

\* Whoever waits in this session, an explorer, a promise or a window, waits for
\* what is queued or on its way, whatever failed, was reset or rebuilt meanwhile.
THEOREM NobodyForgotten == Spec => []NobodyIsForgotten
<1>1. ASSUME IInv PROVE NobodyIsForgotten
  <2>1. Page \in Pages /\ Paced(Page, {}) /\ Promised(Page, toPage, {}) /\ Serves(Page, {})
    BY <1>1, SessionParts DEF IInv, Sound
  <2>2. Pending(Page) = active \cup ToSet(queue)
    BY PageParts DEF Pending, ToSet
  <2>3. RefreshesKeepPace
    <3> SUFFICES ASSUME NEW e \in Explorers
                 PROVE  /\ Cardinality(Probes(Page, e)) <= 1
                        /\ Probes(Page, e) # {} => AtStage(Page, e, "query")
                        /\ worker # None /\ refresh[e].since = worker =>
                             \/ AtStage(Page, e, "query") /\ Probes(Page, e) # {}
                             \/ AtStage(Page, e, "ensure") /\ inFlight[Head(refresh[e].stages).kind] # None
      BY <2>2, PageParts DEF RefreshesKeepPace, Probes, AtStage
    <3>1. \A x, y \in Probes(Page, e) : x = y
      BY <2>1 DEF Paced
    <3>2. Cardinality(Probes(Page, e)) \in {0, 1}
      BY <3>1, OneAtMost
    <3>3. Cardinality(Probes(Page, e)) <= 1
      BY <3>2
    <3> QED
      BY <2>1, <3>3, PageParts DEF Paced
  <2>4. PromisesAreUnderWay
    <3> SUFFICES ASSUME NEW k \in Kinds, worker # None, inFlight[k] = worker, ~threw
                 PROVE  \E m \in UnderWay({"ensure", "script", "viewReady", "viewError"}) : m.kind = k
      BY DEF PromisesAreUnderWay
    <3>1. \/ \E i \in DOMAIN toWorker : OfView(toWorker[i], k)
          \/ \E i \in DOMAIN toPage : OfView(toPage[i], k)
      BY <2>1, PageParts DEF Promised
    <3> QED
      BY <3>1 DEF UnderWay, ToSet, OfView
  <2>5. WindowsAreServed
    <3> SUFFICES ASSUME NEW t \in Terminals, worker # None, win[t].busy, win[t].since = worker
                 PROVE  Mine(Page, t) # {}
      BY DEF WindowsAreServed
    <3>1. PICK r \in Pending(Page) : r.of = t /\ ~Background(r)
      BY <2>1, PageParts DEF Serves, Served
    <3>2. r \in Proper
      BY <2>1, <2>2, <3>1, PartsOfPage, PageParts DEF ToSet
    <3>3. r \in Mine(Page, t)
      BY <2>2, <3>1, <3>2, ProperParts, PageParts DEF Mine, Background
    <3> QED
      BY <3>3
  <2> QED
    BY <2>3, <2>4, <2>5 DEF NobodyIsForgotten
<1> QED
  BY <1>1, SoundAlways, PTL

\* What "Save changes" writes to is on screen, if the user waited for each answer.
THEOREM ShownIfWaitedFor == Spec => []WaitedForIsShown
<1>1. ASSUME IInv PROVE WaitedForIsShown
  <2> SUFFICES ASSUME NEW t \in Terminals, CanSave(t), ~win[t].hasty
               PROVE  win[t].tables = <<win[t].last>>
    BY DEF WaitedForIsShown
  <2>1. ShowsAt(Page, toPage, t)
    BY <1>1 DEF IInv, Sound, Shows
  <2> QED
    BY <2>1, PageParts DEF ShowsAt, CanSave
<1> QED
  BY <1>1, SoundAlways, PTL
=============================================================================
