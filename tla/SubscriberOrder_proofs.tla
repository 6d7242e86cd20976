------------------------- MODULE SubscriberOrder_proofs -------------------------
(***************************************************************************)
(* Theorems about a single worker of Subscriber, for any number of         *)
(* subscriptions it may register, every batch size and retry budget, and   *)
(* any number of crashes, restarts, stops, database errors,                *)
(* deregistrations and sweeps: the order of deliveries, and the retry rows *)
(* that go with it.  Two workers on one cursor move it under each other,   *)
(* and a replay command moves it under the worker; then neither holds.     *)
(***************************************************************************)
EXTENDS Subscriber_proofs

OneWorker == \A v, w \in Workers : v = w

FrontLabels == EventLabels \cup {"oldest", "reanchor", "select", "next"}

(* What the worker with local state l has in hand is the front of what lies *)
(* beyond its cursor: it has not polled past the cursor, the batch holds   *)
(* every surviving event before its last one, and the event is the first.  *)
Front(l) ==
  /\ l.at \in {"oldest", "select"} => l.floor = pos[l.sub]
  /\ l.at = "reanchor" => \A i \in live : i > l.floor
  /\ l.at \in EventLabels \cup {"next"} =>
       \A j \in l.batch :
         /\ j \in Ids /\ j > pos[l.sub] /\ Matches(l.sub, j)
         /\ l.at # "next" => j > l.event
         /\ \A i \in Ahead(l.sub, pos[l.sub]) :
              i < j => i \in l.batch \/ (l.at # "next" /\ i = l.event)
  /\ l.at \in EventLabels =>
       /\ l.event \in Ids /\ l.event > pos[l.sub] /\ Matches(l.sub, l.event)
       /\ \A i \in Ahead(l.sub, pos[l.sub]) : i >= l.event
  /\ l.at \in {"ack", "buryAck"} => attempts[l.sub][l.event] = 0

(* A retry row is of an event that matches, and beyond the cursor while it  *)
(* survives.                                                               *)
RowsAhead ==
  \A s \in Subs : \A i \in 1 .. MaxEvents : attempts[s][i] > 0 =>
    /\ i \in Ids /\ Matches(s, i) /\ cursor[s] \in {"active", "deregistered"}
    /\ i \in live => i > pos[s]

OrderInv == RowsAhead /\ \A w \in Workers : Front(loop[w])

--------------------------------------------------------------------------------
LEMMA OrderFacts ==
  ASSUME SubscriberInv, NEW w \in Workers
  PROVE  /\ Typed /\ Claims /\ loop \in [Workers -> Loop] /\ loop[w] \in Loop
         /\ Ids = 1 .. Len(log) /\ Len(log) \in Nat /\ Len(log) <= MaxEvents
         /\ live \subseteq Ids /\ MaxEvents \in Nat /\ MaxRetries \in Nat
         /\ \A i : i \in live => i \in Nat /\ i >= 1 /\ i <= Len(log)
         /\ pos \in [Subs -> 0 .. Len(log)]
         /\ attempts \in [Subs -> [1 .. MaxEvents -> 0 .. MaxRetries]]
         /\ cursor \in [Subs -> {"absent", "reading", "inserting", "active", "deregistered"}]
         /\ \A s \in Subs : sub[s] = "absent" => cursor[s] = "absent"
         /\ loop[w].at \in LoopLabels \cup {"register"} => Mine(w) \in Subs
         /\ loop[w].at \in LoopLabels => cursor[Mine(w)] \in {"active", "deregistered"}
         /\ loop[w].at \in {"oldest", "reanchor", "select"} => loop[w].floor \in 0 .. Len(log)
         /\ loop[w].at = "retry" => loop[w].tries \in 1 .. MaxRetries
  <1>1. PICK base \in [Subs -> Nat] : InvAt(base)
    BY DEF SubscriberInv
  <1>2. /\ WorkerOK(base, loop[w]) /\ loop \in [Workers -> Loop] /\ loop[w] \in Loop
        /\ Ids = 1 .. Len(log) /\ Len(log) \in Nat /\ Len(log) <= MaxEvents
        /\ live \subseteq Ids /\ MaxEvents \in Nat /\ MaxRetries \in Nat
        /\ \A i : i \in live => i \in Nat /\ i >= 1 /\ i <= Len(log)
    BY <1>1, WorkerFacts
  <1>3. /\ Typed /\ Claims /\ pos \in [Subs -> 0 .. Len(log)]
        /\ attempts \in [Subs -> [1 .. MaxEvents -> 0 .. MaxRetries]]
        /\ cursor \in [Subs -> {"absent", "reading", "inserting", "active", "deregistered"}]
        /\ \A s \in Subs : sub[s] = "absent" => cursor[s] = "absent"
    BY <1>1 DEF InvAt, RetentionInv, Bounded, Typed, TypeOK
  <1>4. /\ loop[w].at \in LoopLabels \cup {"register"} => Mine(w) \in Subs
        /\ loop[w].at \in LoopLabels => cursor[Mine(w)] \in {"active", "deregistered"}
        /\ loop[w].at = "retry" => loop[w].tries >= 1 /\ loop[w].tries <= MaxRetries
    BY <1>2 DEF WorkerOK, Attending, LoopLabels, Mine
  <1>5. loop[w].at \in {"oldest", "reanchor", "select"} => loop[w].floor \in 0 .. Len(log)
    BY <1>2 DEF WorkerOK, Acking
  <1>6. loop[w].tries \in Int
    BY <1>2 DEF Loop
  <1>7. loop[w].at = "retry" => loop[w].tries \in 1 .. MaxRetries
    BY <1>2, <1>4, <1>6
  <1> QED
    BY <1>2, <1>3, <1>4, <1>5, <1>7

(* With one worker, what a step makes of its state and of the rows is all.  *)
LEMMA OrderOf ==
  ASSUME OneWorker, NEW w \in Workers, RowsAhead', Front(loop[w])'
  PROVE  OrderInv'
  BY DEF OrderInv, OneWorker

LEMMA Backstage ==
  ASSUME NEW l, l.at \notin FrontLabels
  PROVE  Front(l)
  BY DEF Front, FrontLabels, EventLabels

LEMMA EndTickBackstage ==
  ASSUME NEW w \in Workers
  PROVE  EndTick(w) \in Labels \ FrontLabels
  BY DEF EndTick, Labels, FrontLabels, EventLabels

(* A step that leaves the store alone.                                     *)
LEMMA OrderLocal ==
  ASSUME OneWorker, SubscriberInv, OrderInv, NEW w \in Workers, UNCHANGED vars,
         Front(loop'[w])
  PROVE  OrderInv'
  <1>1. UNCHANGED <<log, live, cursor, pos, attempts>>
    BY StoreStutters
  <1>2. RowsAhead'
    BY <1>1 DEF OrderInv, RowsAhead, Ids, Matches
  <1>3. Front(loop[w])'
    <2>1. PICK l : l = loop'[w]
      OBVIOUS
    <2>2. Front(l)
      BY <2>1
    <2>3. Front(l)'
      BY <1>1, <2>2 DEF Front, Ids, Ahead, Matches
    <2> QED
      BY <2>1, <2>3
  <1> QED
    BY <1>2, <1>3, OrderOf

(* ... and goes to a label at which nothing is relied on.                  *)
LEMMA OrderGoto ==
  ASSUME OneWorker, SubscriberInv, OrderInv, NEW w \in Workers, UNCHANGED vars,
         NEW label \in Labels \ FrontLabels, Goto(w, label)
  PROVE  OrderInv'
  <1>1. loop \in [Workers -> Loop]
    BY OrderFacts
  <1>2. loop'[w].at = label
    BY <1>1 DEF Goto, Loop
  <1> QED
    BY <1>2, Backstage, OrderLocal

(* The delivery goes on with the same event and batch.                     *)
LEMMA SameDelivery ==
  ASSUME NEW k, NEW l, Front(k), k.at \in EventLabels, l.at \in EventLabels,
         l.sub = k.sub, l.event = k.event, l.batch = k.batch,
         l.at \in {"ack", "buryAck"} => attempts[l.sub][l.event] = 0
  PROVE  Front(l)
  BY DEF Front, EventLabels

--------------------------------------------------------------------------------
(* Steps of the loop that leave the store alone.                           *)
LEMMA OrderBetween ==
  ASSUME OneWorker, SubscriberInv, OrderInv, NEW w \in Workers,
         \/ Resume(w) \/ Restart(w) \/ StartTick(w) \/ DrainPick(w) \/ DrainDone(w)
         \/ ReplayThrows(w) \/ ReplayReturns(w) \/ ReplayDelete(w) \/ ReplayKeep(w)
         \/ BatchDone(w) \/ Crash(w)
  PROVE  OrderInv'
  <1>1. UNCHANGED vars /\ loop \in [Workers -> Loop] /\ loop[w] \in Loop
    BY OrderFacts DEF Resume, Restart, StartTick, DrainPick, DrainDone, ReplayThrows,
       ReplayReturns, ReplayDelete, ReplayKeep, BatchDone, Crash, LoopOnly
  <1>2. {"idle", "drain", "poll", "replayKeep", "replayDelete"} \subseteq Labels \ FrontLabels
    BY DEF Labels, FrontLabels, EventLabels
  <1>3. EndTick(w) \in Labels \ FrontLabels
    BY EndTickBackstage
  <1>4. CASE \/ StartTick(w) \/ DrainDone(w) \/ ReplayThrows(w) \/ ReplayReturns(w)
             \/ ReplayDelete(w) \/ ReplayKeep(w) \/ BatchDone(w)
    <2>1. PICK label \in Labels \ FrontLabels : Goto(w, label)
      BY <1>2, <1>3, <1>4 DEF StartTick, DrainDone, ReplayThrows, ReplayReturns,
         ReplayDelete, ReplayKeep, BatchDone
    <2> QED
      BY <1>1, <2>1, OrderGoto
  <1>5. CASE Resume(w) \/ Restart(w) \/ DrainPick(w) \/ Crash(w)
    <2>1. loop'[w].at \in {"idle", "start", "replay", "down"}
      <3>1. CASE Resume(w)
        BY <1>1, <3>1 DEF Resume, Loop
      <3>2. CASE Restart(w)
        BY <1>1, <3>2 DEF Restart, Halted
      <3>3. CASE DrainPick(w)
        BY <1>1, <3>3 DEF DrainPick, Loop
      <3>4. CASE Crash(w)
        BY <1>1, <3>4 DEF Crash, Halted
      <3> QED
        BY <1>5, <3>1, <3>2, <3>3, <3>4
    <2>2. loop'[w].at \notin FrontLabels
      BY <2>1 DEF FrontLabels, EventLabels
    <2> QED
      BY <1>1, <2>2, Backstage, OrderLocal
  <1> QED
    BY <1>4, <1>5

LEMMA OrderPoll ==
  ASSUME OneWorker, SubscriberInv, OrderInv, NEW w \in Workers,
         PollCursor(w) \/ PollOldest(w)
  PROVE  OrderInv'
  <1>1. /\ UNCHANGED vars /\ loop \in [Workers -> Loop] /\ loop[w] \in Loop
        /\ live \subseteq Ids /\ Ids = 1 .. Len(log) /\ Front(loop[w])
    BY OrderFacts DEF PollCursor, PollOldest, LoopOnly, OrderInv
  <1>2. CASE PollCursor(w)
    <2>1. CASE CursorOpen(w)
      <3>1. loop' = [loop EXCEPT ![w].floor = pos[Mine(w)], ![w].at = "oldest"]
        BY <1>2, <2>1 DEF PollCursor
      <3>2. loop'[w].at = "oldest" /\ loop'[w].floor = pos[Mine(w)] /\ loop'[w].sub = Mine(w)
        BY <1>1, <3>1 DEF Loop, Mine
      <3>3. Front(loop'[w])
        BY <3>2 DEF Front, EventLabels
      <3> QED
        BY <1>1, <3>3, OrderLocal
    <2>2. CASE ~CursorOpen(w)
      BY <1>1, <1>2, <2>2, EndTickBackstage, OrderGoto DEF PollCursor
    <2> QED
      BY <2>1, <2>2
  <1>3. CASE PollOldest(w)
    <2>1. loop[w].floor = pos[loop[w].sub]
      BY <1>1, <1>3 DEF PollOldest, At, Front
    <2>2. ASSUME NEW m \in live, IsOldest(m),
                 loop' = [loop EXCEPT ![w].floor = m - 1, ![w].at = "reanchor"]
          PROVE  OrderInv'
      <3>1. loop'[w].at = "reanchor" /\ loop'[w].floor = m - 1
        BY <1>1, <2>2 DEF Loop
      <3>2. \A i \in live : i > m - 1
        BY <1>1, <2>2 DEF IsOldest
      <3>3. Front(loop'[w])
        BY <3>1, <3>2 DEF Front, EventLabels
      <3> QED
        BY <1>1, <3>3, OrderLocal
    <2>3. CASE Goto(w, "select")
      <3>1. /\ loop'[w].at = "select" /\ loop'[w].floor = loop[w].floor
            /\ loop'[w].sub = loop[w].sub
        BY <1>1, <2>3 DEF Goto, Loop
      <3>2. Front(loop'[w])
        BY <2>1, <3>1 DEF Front, EventLabels
      <3> QED
        BY <1>1, <3>2, OrderLocal
    <2> QED
      BY <1>3, <2>2, <2>3 DEF PollOldest
  <1> QED
    BY <1>2, <1>3

(* The page is the front of what lies beyond the cursor ...                *)
LEMMA OrderSelect ==
  ASSUME OneWorker, SubscriberInv, OrderInv, NEW w \in Workers, PollSelect(w)
  PROVE  OrderInv'
  <1>1. /\ UNCHANGED vars /\ loop \in [Workers -> Loop] /\ loop[w] \in Loop /\ Typed
        /\ live \subseteq Ids /\ Ids = 1 .. Len(log) /\ Front(loop[w])
        /\ loop[w].at = "select" /\ pos \in [Subs -> 0 .. Len(log)] /\ Mine(w) \in Subs
    BY OrderFacts DEF PollSelect, LoopOnly, OrderInv, At, LoopLabels, Labels
  <1>2. PICK n \in Int : n = pos[Mine(w)] /\ n = loop[w].floor
    BY <1>1 DEF Front, Mine
  <1>3. PICK page : page = Page(Mine(w), n)
    OBVIOUS
  <1>4. loop' = [loop EXCEPT ![w].batch = page, ![w].at = "next"]
    BY <1>2, <1>3 DEF PollSelect
  <1>5. loop'[w].at = "next" /\ loop'[w].batch = page /\ loop'[w].sub = Mine(w)
    BY <1>1, <1>4 DEF Loop, Mine
  <1>6. ASSUME NEW j \in page
        PROVE  /\ j \in Ids /\ j > n /\ Matches(Mine(w), j)
               /\ \A i \in Ahead(Mine(w), n) : i < j => i \in page
    <2>1. j \in Ahead(Mine(w), n)
      BY <1>3 DEF Page
    <2>2. \A i \in Ahead(Mine(w), n) : i < j => i \in page
      BY <1>1, <1>3, PageIsPrefix
    <2> QED
      BY <1>1, <2>1, <2>2 DEF Ahead
  <1>7. Front(loop'[w])
    BY <1>2, <1>5, <1>6 DEF Front, EventLabels
  <1> QED
    BY <1>1, <1>7, OrderLocal

(* ... and the worker takes the first event of it.                         *)
LEMMA OrderTake ==
  ASSUME OneWorker, SubscriberInv, OrderInv, NEW w \in Workers, Take(w)
  PROVE  OrderInv'
  <1>1. /\ UNCHANGED vars /\ loop \in [Workers -> Loop] /\ loop[w] \in Loop
        /\ live \subseteq Ids /\ Ids = 1 .. Len(log) /\ Front(loop[w])
        /\ loop[w].at = "next"
    BY OrderFacts DEF Take, LoopOnly, OrderInv, At
  <1>2. PICK e \in loop[w].batch :
          /\ \A j \in loop[w].batch : e <= j
          /\ loop' = [loop EXCEPT ![w].event = e, ![w].batch = @ \ {e},
                                  ![w].tries = attempts[Mine(w)][e], ![w].at = "handle"]
    BY DEF Take
  <1>3. /\ loop'[w].at = "handle" /\ loop'[w].event = e
        /\ loop'[w].batch = loop[w].batch \ {e} /\ loop'[w].sub = loop[w].sub
    BY <1>1, <1>2 DEF Loop
  <1>4. \A j \in loop[w].batch :
          /\ j \in Ids /\ j > pos[loop[w].sub] /\ Matches(loop[w].sub, j)
          /\ \A i \in Ahead(loop[w].sub, pos[loop[w].sub]) : i < j => i \in loop[w].batch
    BY <1>1 DEF Front
  <1>5. \A i \in Ahead(loop[w].sub, pos[loop[w].sub]) : i >= e
    <2> SUFFICES ASSUME NEW i \in Ahead(loop[w].sub, pos[loop[w].sub]) PROVE i >= e
      OBVIOUS
    <2>1. i \in Int /\ e \in Int
      BY <1>1, <1>4 DEF Ahead
    <2>2. i < e => i \in loop[w].batch
      BY <1>4
    <2> QED
      BY <1>2, <2>1, <2>2
  <1>6. ASSUME NEW j \in loop[w].batch \ {e} PROVE j > e
    <2>1. j \in Int /\ e \in Int /\ e <= j /\ j # e
      BY <1>1, <1>2, <1>4
    <2> QED
      BY <2>1
  <1>7. Front(loop'[w])
    <2>1. \A j \in loop'[w].batch :
            /\ j \in Ids /\ j > pos[loop'[w].sub] /\ Matches(loop'[w].sub, j)
            /\ j > loop'[w].event
            /\ \A i \in Ahead(loop'[w].sub, pos[loop'[w].sub]) :
                 i < j => i \in loop'[w].batch \/ i = loop'[w].event
      BY <1>3, <1>4, <1>6
    <2>2. /\ loop'[w].event \in Ids /\ loop'[w].event > pos[loop'[w].sub]
          /\ Matches(loop'[w].sub, loop'[w].event)
          /\ \A i \in Ahead(loop'[w].sub, pos[loop'[w].sub]) : i >= loop'[w].event
      BY <1>3, <1>4, <1>5
    <2> QED
      BY <1>3, <2>1, <2>2 DEF Front
  <1> QED
    BY <1>1, <1>7, OrderLocal

(* A delivery in progress, up to its writes.                               *)
LEMMA OrderCaught ==
  ASSUME OneWorker, SubscriberInv, OrderInv, NEW w \in Workers, UNCHANGED vars,
         loop[w].at \in EventLabels, Caught(w)
  PROVE  OrderInv'
  <1>1. loop \in [Workers -> Loop] /\ loop[w] \in Loop /\ Front(loop[w])
    BY OrderFacts DEF OrderInv
  <1>2. /\ loop'[w].at \in {"bury", "retry"} /\ loop'[w].sub = loop[w].sub
        /\ loop'[w].event = loop[w].event /\ loop'[w].batch = loop[w].batch
    BY <1>1 DEF Caught, Loop
  <1>3. Front(loop'[w])
    BY <1>1, <1>2, SameDelivery DEF EventLabels
  <1> QED
    BY <1>3, OrderLocal

LEMMA OrderGoesOn ==
  ASSUME OneWorker, SubscriberInv, OrderInv, NEW w \in Workers, UNCHANGED vars,
         loop[w].at \in EventLabels, NEW label \in EventLabels \ {"ack", "buryAck"},
         Goto(w, label)
  PROVE  OrderInv'
  <1>1. loop \in [Workers -> Loop] /\ loop[w] \in Loop /\ Front(loop[w])
    BY OrderFacts DEF OrderInv
  <1>2. /\ loop'[w].at = label /\ loop'[w].sub = loop[w].sub
        /\ loop'[w].event = loop[w].event /\ loop'[w].batch = loop[w].batch
    BY <1>1 DEF Goto, Loop
  <1>3. Front(loop'[w])
    BY <1>1, <1>2, SameDelivery
  <1> QED
    BY <1>3, OrderLocal

LEMMA OrderDelivery ==
  ASSUME OneWorker, SubscriberInv, OrderInv, NEW w \in Workers,
         HandlerReturns(w) \/ HandlerThrows(w) \/ Awake(w) \/ Bury(w)
  PROVE  OrderInv'
  <1>1. UNCHANGED vars /\ loop[w].at \in EventLabels
    BY DEF HandlerReturns, HandlerThrows, Awake, Bury, LoopOnly, At, EventLabels
  <1>2. CASE HandlerThrows(w)
    BY <1>1, <1>2, OrderCaught DEF HandlerThrows
  <1>3. CASE HandlerReturns(w) \/ Awake(w) \/ Bury(w)
    <2>1. PICK label \in {"unretry", "bury", "handle", "buryClean"} : Goto(w, label)
      BY <1>3 DEF HandlerReturns, Awake, Bury
    <2>2. label \in EventLabels \ {"ack", "buryAck"}
      BY DEF EventLabels
    <2> QED
      BY <1>1, <2>1, <2>2, OrderGoesOn
  <1> QED
    BY <1>2, <1>3

(* A statement that throws, and a stop().                                  *)
LEMMA OrderDisturb ==
  ASSUME OneWorker, SubscriberInv, OrderInv, NEW w \in Workers, DbError(w) \/ Stop(w)
  PROVE  OrderInv'
  <1>1. /\ UNCHANGED vars /\ loop \in [Workers -> Loop] /\ loop[w] \in Loop
        /\ Front(loop[w])
    BY OrderFacts DEF DbError, Stop, OrderInv
  <1>2. CASE DbError(w)
    <2>1. CASE loop[w].at \in {"unretry", "ack"} /\ Caught(w)
      BY <1>1, <2>1, OrderCaught DEF EventLabels
    <2>2. CASE Goto(w, "replayKeep") \/ Goto(w, EndTick(w))
      <3>1. "replayKeep" \in Labels \ FrontLabels
        BY DEF Labels, FrontLabels, EventLabels
      <3> QED
        BY <1>1, <2>2, <3>1, EndTickBackstage, OrderGoto
    <2>3. CASE loop' = [loop EXCEPT ![w] = Halted("down")]
      <3>1. loop'[w].at \notin FrontLabels
        BY <1>1, <2>3 DEF Halted, FrontLabels, EventLabels
      <3> QED
        BY <1>1, <3>1, Backstage, OrderLocal
    <2> QED
      BY <1>2, <2>1, <2>2, <2>3 DEF DbError, At
  <1>3. CASE Stop(w)
    <2> DEFINE at == loop[w].at
               label == IF at = "idle" THEN "stopped" ELSE IF at = "sleep" THEN "bury" ELSE at
    <2>1. at \in {"idle", "replay", "handle", "next", "sleep"}
      BY <1>3 DEF Stop
    <2>2. loop' = [loop EXCEPT ![w].halting = TRUE, ![w].at = label]
      BY <1>1, <1>3 DEF Stop
    <2>3. /\ loop'[w].at = label /\ loop'[w].sub = loop[w].sub
          /\ loop'[w].event = loop[w].event /\ loop'[w].batch = loop[w].batch
      BY <1>1, <2>2 DEF Loop
    <2>4. CASE at \in {"idle", "replay"}
      <3>1. loop'[w].at \notin FrontLabels
        BY <2>3, <2>4 DEF FrontLabels, EventLabels
      <3> QED
        BY <1>1, <3>1, Backstage, OrderLocal
    <2>5. CASE at \in {"handle", "sleep"}
      <3>1. at \in EventLabels /\ loop'[w].at \in {"handle", "bury"}
        BY <2>3, <2>5 DEF EventLabels
      <3>2. Front(loop'[w])
        BY <1>1, <2>3, <3>1, SameDelivery DEF EventLabels
      <3> QED
        BY <1>1, <3>2, OrderLocal
    <2>6. CASE at = "next"
      <3>1. Front(loop'[w])
        BY <1>1, <2>3, <2>6 DEF Front, EventLabels
      <3> QED
        BY <1>1, <3>1, OrderLocal
    <2> QED
      BY <2>1, <2>4, <2>5, <2>6
  <1> QED
    BY <1>2, <1>3

--------------------------------------------------------------------------------
(* The writes of a delivery: first the retry row, which belongs to the     *)
(* event in hand, and is gone before that event is acked.                  *)
LEMMA OrderCounts ==
  ASSUME OneWorker, SubscriberInv, OrderInv, NEW w \in Workers,
         Unretry(w) \/ Retry(w) \/ BuryClean(w)
  PROVE  OrderInv'
  <1>0. PICK s, e : s = Mine(w) /\ e = loop[w].event
    OBVIOUS
  <1>1. /\ loop \in [Workers -> Loop] /\ loop[w] \in Loop /\ Front(loop[w]) /\ RowsAhead
        /\ loop[w].at \in EventLabels /\ loop[w].at \in LoopLabels
    BY OrderFacts
       DEF OrderInv, Unretry, Retry, BuryClean, At, EventLabels, LoopLabels, Labels
  <1>2. /\ s \in Subs /\ cursor[s] \in {"active", "deregistered"} /\ loop[w].sub = s
        /\ e \in Ids /\ e > pos[s] /\ Matches(s, e)
        /\ e \in 1 .. MaxEvents /\ MaxRetries \in Nat
        /\ attempts \in [Subs -> [1 .. MaxEvents -> 0 .. MaxRetries]]
    <2>1. e \in Ids /\ e > pos[s] /\ Matches(s, e)
      BY <1>0, <1>1 DEF Front, Mine
    <2>2. e \in 1 .. MaxEvents
      BY <2>1, OrderFacts
    <2> QED
      BY <1>0, <1>1, <2>1, <2>2, OrderFacts DEF Mine
  <1>3. PICK n, label :
          /\ attempts' = [attempts EXCEPT ![s][e] = n]
          /\ Goto(w, label) /\ label \in {"ack", "sleep", "buryAck"}
          /\ label \in {"ack", "buryAck"} => n = 0
          /\ UNCHANGED <<log, live, cursor, pos>>
    BY <1>0 DEF Unretry, Retry, BuryClean, UpsertAttempt, DeleteAttempt, tables
  <1>4. /\ loop'[w].at = label /\ loop'[w].sub = s
        /\ loop'[w].event = e /\ loop'[w].batch = loop[w].batch
    BY <1>0, <1>1, <1>2, <1>3 DEF Goto, Loop
  <1>5. attempts'[s][e] = n
    BY <1>2, <1>3
  <1>6. RowsAhead'
    <2> SUFFICES ASSUME NEW r \in Subs, NEW i \in 1 .. MaxEvents, attempts'[r][i] > 0
        PROVE  /\ i \in Ids' /\ Matches(r, i)' /\ cursor'[r] \in {"active", "deregistered"}
               /\ i \in live' => i > pos'[r]
      BY DEF RowsAhead
    <2>1. CASE r = s /\ i = e
      BY <1>2, <1>3, <2>1 DEF Matches, Ids
    <2>2. CASE ~(r = s /\ i = e)
      <3>1. attempts'[r][i] = attempts[r][i]
        BY <1>2, <1>3, <2>2
      <3> QED
        BY <1>1, <1>3, <3>1 DEF RowsAhead, Matches, Ids
    <2> QED
      BY <2>1, <2>2
  <1>7. Front(loop[w])'
    <2>1. PICK l : l = loop'[w]
      OBVIOUS
    <2>2. /\ l.at = label /\ l.sub = s /\ l.event = e /\ l.batch = loop[w].batch
      BY <1>4, <2>1
    <2>3. label \in EventLabels
      BY <1>3 DEF EventLabels
    <2>4. /\ \A j \in l.batch :
               /\ j \in Ids /\ j > pos[s] /\ Matches(s, j) /\ j > e
               /\ \A i \in Ahead(s, pos[s]) : i < j => i \in l.batch \/ i = e
          /\ \A i \in Ahead(s, pos[s]) : i >= e
      BY <1>0, <1>1, <1>2, <2>2 DEF Front, EventLabels
    <2>5. /\ \A j \in l.batch :
               /\ j \in Ids' /\ j > pos'[s] /\ Matches(s, j)' /\ j > e
               /\ \A i \in Ahead(s, pos[s])' : i < j => i \in l.batch \/ i = e
          /\ \A i \in Ahead(s, pos[s])' : i >= e
          /\ e \in Ids' /\ e > pos'[s] /\ Matches(s, e)'
      BY <1>2, <1>3, <2>4 DEF Ids, Ahead, Matches
    <2>6. l.at \in {"ack", "buryAck"} => attempts'[s][e] = 0
      BY <1>3, <1>5, <2>2
    <2>7. Front(l)'
      BY <1>3, <2>2, <2>3, <2>5, <2>6 DEF Front
    <2> QED
      BY <2>1, <2>7
  <1> QED
    BY <1>6, <1>7, OrderOf

(* The acks of a delivery: the next event is the first beyond them.        *)
LEMMA OrderAcks ==
  ASSUME OneWorker, SubscriberInv, OrderInv, NEW w \in Workers, AckEvent(w) \/ BuryAck(w)
  PROVE  OrderInv'
  <1>0. PICK s, e : s = Mine(w) /\ e = loop[w].event
    OBVIOUS
  <1>1. /\ loop \in [Workers -> Loop] /\ loop[w] \in Loop /\ Front(loop[w]) /\ RowsAhead
        /\ loop[w].at \in {"ack", "buryAck"} /\ loop[w].sub = s
    BY <1>0, OrderFacts DEF OrderInv, AckEvent, BuryAck, At, Mine
  <1>2. loop[w].at \in EventLabels /\ loop[w].at \in LoopLabels /\ loop[w].at # "next"
    BY <1>1 DEF EventLabels, LoopLabels, Labels
  <1>3. CASE CursorOpen(w) /\ Ack(s, e) /\ Goto(w, "next")
    <2>1. /\ pos' = [pos EXCEPT ![s] = e] /\ UNCHANGED <<log, live, cursor, attempts>>
      BY <1>3 DEF Ack, MoveCursor, tables
    <2>2. /\ s \in Subs /\ pos \in [Subs -> 0 .. Len(log)] /\ live \subseteq Ids
          /\ Ids = 1 .. Len(log) /\ Len(log) \in Nat
          /\ attempts \in [Subs -> [1 .. MaxEvents -> 0 .. MaxRetries]]
      BY <1>0, <1>2, OrderFacts
    <2>3. pos'[s] = e /\ pos[s] \in Int
      BY <2>1, <2>2
    <2>4. /\ e \in Ids /\ e > pos[s] /\ attempts[s][e] = 0
          /\ \A i \in Ahead(s, pos[s]) : i >= e
          /\ \A j \in loop[w].batch :
               /\ j \in Ids /\ Matches(s, j) /\ j > e
               /\ \A i \in Ahead(s, pos[s]) : i < j => i \in loop[w].batch \/ i = e
      BY <1>0, <1>1, <1>2 DEF Front
    <2>5. RowsAhead'
      <3> SUFFICES ASSUME NEW r \in Subs, NEW i \in 1 .. MaxEvents, attempts'[r][i] > 0
          PROVE  /\ i \in Ids' /\ Matches(r, i)' /\ cursor'[r] \in {"active", "deregistered"}
                 /\ i \in live' => i > pos'[r]
        BY DEF RowsAhead
      <3>1. /\ i \in Ids /\ Matches(r, i) /\ cursor[r] \in {"active", "deregistered"}
            /\ i \in live => i > pos[r]
        BY <1>1, <2>1 DEF RowsAhead
      <3>2. i \in live => i > pos'[r]
        <4>1. CASE r = s
          <5>1. i # e
            BY <2>1, <2>4, <4>1
          <5>2. i \in live => i \in Ahead(s, pos[s])
            BY <3>1, <4>1 DEF Ahead
          <5>3. i \in live => i >= e
            BY <2>4, <5>2
          <5> QED
            BY <2>2, <2>3, <2>4, <4>1, <5>1, <5>3
        <4>2. CASE r # s
          BY <2>1, <2>2, <3>1, <4>2
        <4> QED
          BY <4>1, <4>2
      <3> QED
        BY <2>1, <3>1, <3>2 DEF Ids, Matches
    <2>6. Front(loop[w])'
      <3>1. PICK l : l = loop'[w]
        OBVIOUS
      <3>2. l.at = "next" /\ l.sub = s /\ l.batch = loop[w].batch
        BY <1>1, <1>3, <3>1 DEF Goto, Loop
      <3>3. \A i : i \in Ahead(s, pos[s])' => i \in Ahead(s, pos[s]) /\ i # e
        <4> SUFFICES ASSUME NEW i \in live, i > e, Matches(s, i)
            PROVE  i \in Ahead(s, pos[s]) /\ i # e
          BY <2>1, <2>3 DEF Ahead, Matches
        <4>1. i > pos[s] /\ i # e
          BY <2>2, <2>3, <2>4
        <4> QED
          BY <4>1 DEF Ahead
      <3>4. \A j \in l.batch :
              /\ j \in Ids' /\ j > pos'[s] /\ Matches(s, j)'
              /\ \A i \in Ahead(s, pos[s])' : i < j => i \in l.batch
        <4> SUFFICES ASSUME NEW j \in l.batch
            PROVE  /\ j \in Ids' /\ j > pos'[s] /\ Matches(s, j)'
                   /\ \A i \in Ahead(s, pos[s])' : i < j => i \in l.batch
          OBVIOUS
        <4>1. /\ j \in Ids /\ Matches(s, j) /\ j > e
              /\ \A i \in Ahead(s, pos[s]) : i < j => i \in l.batch \/ i = e
          BY <2>4, <3>2
        <4>2. \A i \in Ahead(s, pos[s])' : i < j => i \in l.batch
          BY <3>3, <4>1
        <4> QED
          BY <2>1, <2>3, <4>1, <4>2 DEF Ids, Matches
      <3>5. Front(l)'
        BY <3>2, <3>4 DEF Front, EventLabels
      <3> QED
        BY <3>1, <3>5
    <2> QED
      BY <2>5, <2>6, OrderOf
  <1>4. CASE UNCHANGED vars /\ Caught(w)
    BY <1>2, <1>4, OrderCaught
  <1>5. CASE UNCHANGED vars /\ Goto(w, EndTick(w))
    BY <1>5, EndTickBackstage, OrderGoto
  <1> QED
    BY <1>0, <1>3, <1>4, <1>5 DEF AckEvent, BuryAck

(* The recovery from WB-003 stops short of every surviving event.          *)
LEMMA OrderReanchor ==
  ASSUME OneWorker, SubscriberInv, OrderInv, NEW w \in Workers, Reanchor(w)
  PROVE  OrderInv'
  <1>0. PICK s, n : s = Mine(w) /\ n = loop[w].floor
    OBVIOUS
  <1>1. /\ loop \in [Workers -> Loop] /\ loop[w] \in Loop /\ Front(loop[w]) /\ RowsAhead
        /\ loop[w].at = "reanchor" /\ Goto(w, EndTick(w))
    BY OrderFacts DEF OrderInv, Reanchor, At
  <1>2. CASE Ack(s, n)
    <2>1. /\ pos' = [pos EXCEPT ![s] = n] /\ UNCHANGED <<log, live, cursor, attempts>>
      BY <1>2 DEF Ack, MoveCursor, tables
    <2>2. \A i \in live : i > n
      BY <1>0, <1>1 DEF Front
    <2>3. pos \in [Subs -> 0 .. Len(log)]
      BY OrderFacts
    <2>4. RowsAhead'
      <3> SUFFICES ASSUME NEW r \in Subs, NEW i \in 1 .. MaxEvents, attempts'[r][i] > 0
          PROVE  /\ i \in Ids' /\ Matches(r, i)' /\ cursor'[r] \in {"active", "deregistered"}
                 /\ i \in live' => i > pos'[r]
        BY DEF RowsAhead
      <3>1. /\ i \in Ids /\ Matches(r, i) /\ cursor[r] \in {"active", "deregistered"}
            /\ i \in live => i > pos[r]
        BY <1>1, <2>1 DEF RowsAhead
      <3>2. i \in live => i > pos'[r]
        BY <2>1, <2>2, <2>3, <3>1
      <3> QED
        BY <2>1, <3>1, <3>2 DEF Ids, Matches
    <2>5. loop'[w].at \notin FrontLabels
      BY <1>1, EndTickBackstage DEF Goto, Loop
    <2>6. Front(loop[w])'
      <3>1. PICK l : l = loop'[w]
        OBVIOUS
      <3>2. Front(l)'
        BY <2>5, <3>1 DEF Front, FrontLabels, EventLabels
      <3> QED
        BY <3>1, <3>2
    <2> QED
      BY <2>4, <2>6, OrderOf
  <1>3. CASE UNCHANGED vars
    BY <1>1, <1>3, EndTickBackstage, OrderGoto
  <1> QED
    BY <1>0, <1>2, <1>3 DEF Reanchor

--------------------------------------------------------------------------------
(* A registration: the cursor it is about has no retry rows yet.           *)
LEMMA OrderRegister ==
  ASSUME OneWorker, SubscriberInv, OrderInv, NEW w \in Workers,
         RegisterNew(w) \/ RegisterRest(w)
  PROVE  OrderInv'
  <1>1. /\ loop \in [Workers -> Loop] /\ loop[w] \in Loop /\ RowsAhead
        /\ pos \in [Subs -> 0 .. Len(log)]
        /\ cursor \in [Subs -> {"absent", "reading", "inserting", "active", "deregistered"}]
        /\ \A s \in Subs : sub[s] = "absent" => cursor[s] = "absent"
    BY OrderFacts DEF OrderInv
  <1>2. ASSUME NEW s \in Subs, cursor[s] \in {"absent", "reading", "inserting"}, NEW n, NEW c,
               cursor' = [cursor EXCEPT ![s] = c],
               UNCHANGED pos \/ pos' = [pos EXCEPT ![s] = n],
               UNCHANGED <<log, live, attempts>>,
               loop'[w].at \in {"register", "idle"}
        PROVE  OrderInv'
    <2>1. RowsAhead'
      <3> SUFFICES ASSUME NEW r \in Subs, NEW i \in 1 .. MaxEvents, attempts'[r][i] > 0
          PROVE  /\ i \in Ids' /\ Matches(r, i)' /\ cursor'[r] \in {"active", "deregistered"}
                 /\ i \in live' => i > pos'[r]
        BY DEF RowsAhead
      <3>1. /\ i \in Ids /\ Matches(r, i) /\ cursor[r] \in {"active", "deregistered"}
            /\ i \in live => i > pos[r]
        BY <1>1, <1>2 DEF RowsAhead
      <3>2. r # s
        BY <1>2, <3>1
      <3>3. cursor'[r] = cursor[r] /\ pos'[r] = pos[r]
        BY <1>1, <1>2, <3>2
      <3> QED
        BY <1>2, <3>1, <3>3 DEF Ids, Matches
    <2>2. Front(loop[w])'
      <3>1. PICK l : l = loop'[w]
        OBVIOUS
      <3>2. Front(l)'
        BY <1>2, <3>1 DEF Front, EventLabels
      <3> QED
        BY <3>1, <3>2
    <2> QED
      BY <2>1, <2>2, OrderOf
  <1>3. CASE RegisterNew(w)
    <2>1. PICK s \in Subs, init \in {"oldest", "latest"} :
            /\ RegisterSubscription(s, init)
            /\ loop' = [loop EXCEPT ![w].sub = s, ![w].at = "register"]
      BY <1>3 DEF RegisterNew
    <2>2. loop'[w].at = "register"
      BY <1>1, <2>1 DEF Loop
    <2>3. /\ cursor' = [cursor EXCEPT ![s] = IF init = "latest" THEN "reading" ELSE "inserting"]
          /\ UNCHANGED <<pos, log, live, attempts>> /\ cursor[s] = "absent"
      BY <1>1, <2>1 DEF RegisterSubscription, tables
    <2> QED
      BY <1>2, <2>2, <2>3
  <1>4. CASE RegisterRest(w)
    <2>1. Mine(w) \in Subs /\ loop[w].at = "register"
      BY <1>4, OrderFacts DEF RegisterRest, At
    <2>2. CASE RegisterReadHead(Mine(w)) /\ UNCHANGED loop
      <3>1. PICK n : UNCHANGED pos \/ pos' = [pos EXCEPT ![Mine(w)] = n]
        BY <2>2 DEF RegisterReadHead
      <3> QED
        BY <1>2, <2>1, <2>2, <3>1 DEF RegisterReadHead, tables
    <2>3. CASE RegisterCursor(Mine(w)) /\ Goto(w, "idle")
      <3>1. loop'[w].at = "idle"
        BY <1>1, <2>3 DEF Goto, Loop
      <3> QED
        BY <1>2, <2>1, <2>3, <3>1 DEF RegisterCursor, tables
    <2> QED
      BY <1>4, <2>2, <2>3 DEF RegisterRest
  <1> QED
    BY <1>3, <1>4

--------------------------------------------------------------------------------
(* The rest of the bus adds events behind the last one and takes events    *)
(* away; a deregistration leaves position and rows as they are.            *)
LEMMA OrderStays ==
  ASSUME OneWorker, SubscriberInv, SubscriberInv', OrderInv,
         UNCHANGED <<loop, pos, attempts>>,
         Ids \subseteq Ids', live' \subseteq live \cup (Ids' \ Ids),
         \A i \in Ids : log'[i] = log[i],
         \A s \in Subs : cursor[s] \in {"active", "deregistered"} =>
           cursor'[s] \in {"active", "deregistered"}
  PROVE  OrderInv'
  <1>1. RowsAhead'
    <2> SUFFICES ASSUME NEW r \in Subs, NEW i \in 1 .. MaxEvents, attempts'[r][i] > 0
        PROVE  /\ i \in Ids' /\ Matches(r, i)' /\ cursor'[r] \in {"active", "deregistered"}
               /\ i \in live' => i > pos'[r]
      BY DEF RowsAhead
    <2>1. /\ i \in Ids /\ Matches(r, i) /\ cursor[r] \in {"active", "deregistered"}
          /\ i \in live => i > pos[r]
      BY DEF OrderInv, RowsAhead
    <2>2. i \in live' => i \in live
      BY <2>1
    <2> QED
      BY <2>1, <2>2 DEF Matches
  <1> SUFFICES ASSUME NEW w \in Workers PROVE Front(loop[w])'
    BY <1>1 DEF OrderInv
  <1>2. /\ loop[w] \in Loop /\ Front(loop[w]) /\ RowsAhead
        /\ Typed /\ Typed' /\ live \subseteq Ids /\ pos \in [Subs -> 0 .. Len(log)]
        /\ Ids = 1 .. Len(log) /\ Len(log) \in Nat
        /\ loop[w].at \in {"oldest", "reanchor", "select"} => loop[w].floor \in 0 .. Len(log)
    BY OrderFacts DEF OrderInv, SubscriberInv, InvAt, RetentionInv
  <1>3. Ids' = 1 .. Len(log') /\ Len(log') \in Nat
    BY <1>2 DEF Typed, TypeOK, Ids
  <1>4. ASSUME NEW i \in live' PROVE i \in Int /\ (i \in live \/ i > Len(log))
    BY <1>2, <1>3
  <1>5. \A s : \A i \in Ids : Matches(s, i)' = Matches(s, i)
    BY DEF Matches
  <1>6. PICK l, s, n : l = loop[w] /\ s = l.sub /\ n = pos[s]
    OBVIOUS
  <1>7. ASSUME NEW i \in live', Matches(s, i)', i > n
        PROVE  i \in Int /\ (i \in Ahead(s, n) \/ i > Len(log))
    BY <1>2, <1>4, <1>5, <1>7 DEF Ahead
  <1>8. l.at = "reanchor" => \A i \in live' : i > l.floor
    <2> SUFFICES ASSUME l.at = "reanchor", NEW i \in live' PROVE i > l.floor
      OBVIOUS
    <2>1. l.floor \in 0 .. Len(log) /\ \A k \in live : k > l.floor
      BY <1>2, <1>6 DEF Front
    <2> QED
      BY <1>2, <1>4, <2>1
  <1>9. l.at \in EventLabels \cup {"next"} =>
          \A j \in l.batch :
            /\ j \in Ids' /\ j > n /\ Matches(s, j)'
            /\ l.at # "next" => j > l.event
            /\ \A i \in live' : i > n /\ Matches(s, i)' =>
                 (i < j => i \in l.batch \/ (l.at # "next" /\ i = l.event))
    <2> SUFFICES ASSUME l.at \in EventLabels \cup {"next"}, NEW j \in l.batch
        PROVE  /\ j \in Ids' /\ j > n /\ Matches(s, j)'
               /\ l.at # "next" => j > l.event
               /\ \A i \in live' : i > n /\ Matches(s, i)' =>
                    (i < j => i \in l.batch \/ (l.at # "next" /\ i = l.event))
      OBVIOUS
    <2>1. /\ j \in Ids /\ j > n /\ Matches(s, j)
          /\ l.at # "next" => j > l.event
          /\ \A i \in Ahead(s, n) :
               i < j => i \in l.batch \/ (l.at # "next" /\ i = l.event)
      BY <1>2, <1>6 DEF Front
    <2>2. ASSUME NEW i \in live', i > n, Matches(s, i)', i < j PROVE i \in Ahead(s, n)
      <3>1. i \in Int /\ (i \in Ahead(s, n) \/ i > Len(log))
        BY <1>7, <2>2
      <3> QED
        BY <1>2, <2>1, <2>2, <3>1
    <2> QED
      BY <1>5, <2>1, <2>2
  <1>10. l.at \in EventLabels =>
           /\ l.event \in Ids' /\ l.event > n /\ Matches(s, l.event)'
           /\ \A i \in live' : i > n /\ Matches(s, i)' => i >= l.event
    <2> SUFFICES ASSUME l.at \in EventLabels
        PROVE  /\ l.event \in Ids' /\ l.event > n /\ Matches(s, l.event)'
               /\ \A i \in live' : i > n /\ Matches(s, i)' => i >= l.event
      OBVIOUS
    <2>1. /\ l.event \in Ids /\ l.event > n /\ Matches(s, l.event)
          /\ \A i \in Ahead(s, n) : i >= l.event
      BY <1>2, <1>6 DEF Front
    <2>2. ASSUME NEW i \in live', i > n, Matches(s, i)' PROVE i >= l.event
      <3>1. i \in Int /\ (i \in Ahead(s, n) \/ i > Len(log))
        BY <1>7, <2>2
      <3> QED
        BY <1>2, <2>1, <3>1
    <2> QED
      BY <1>5, <2>1, <2>2
  <1>11. /\ l.at \in {"oldest", "select"} => l.floor = n
         /\ l.at \in {"ack", "buryAck"} => attempts[s][l.event] = 0
    BY <1>2, <1>6 DEF Front
  <1>12. l = loop'[w] /\ n = pos'[s] /\ attempts' = attempts
    BY <1>6
  <1>13. Front(l)'
    BY <1>6, <1>8, <1>9, <1>10, <1>11, <1>12 DEF Front, Ahead
  <1> QED
    BY <1>12, <1>13

LEMMA OrderRest ==
  ASSUME NoRewinds, OneWorker, SubscriberInv, SubscriberInv', OrderInv,
         Background \/ Operate
  PROVE  OrderInv'
  <1>1. PICK base \in [Subs -> Nat] : InvAt(base)
    BY DEF SubscriberInv
  <1>2. Typed /\ cursor \in [Subs -> {"absent", "reading", "inserting", "active", "deregistered"}]
    BY <1>1 DEF InvAt, RetentionInv, Typed, TypeOK
  <1>3. ASSUME UNCHANGED <<loop, log, pos, attempts>>, live' \subseteq live,
               \A s \in Subs : cursor[s] \in {"active", "deregistered"} =>
                 cursor'[s] \in {"active", "deregistered"}
        PROVE  OrderInv'
    BY <1>3, OrderStays DEF Ids
  <1>4. CASE Background
    <2>1. UNCHANGED loop
      BY <1>4 DEF Background
    <2>2. ASSUME UNCHANGED <<log, live, subscribers>> PROVE OrderInv'
      BY <1>3, <2>1, <2>2 DEF subscribers
    <2>3. ASSUME NEW p \in Producers, step[p] \in {"insert", "release"}, Accept(p)
          PROVE  OrderInv'
      <3>1. TypeOK /\ draft[p] \in Row
        BY <1>2, <2>3 DEF Typed
      <3>2. AcceptRow(draft[p])
        BY <2>3 DEF Accept
      <3>3. /\ Ids' = Ids \cup {Len(log) + 1} /\ Len(log) + 1 \notin Ids
            /\ \A i \in Ids : log'[i] = log[i]
        BY <3>1, <3>2, RowExtendsLog
      <3>4. live' = live \cup {Len(log) + 1} /\ UNCHANGED <<cursor, pos, attempts>>
        BY <3>2 DEF AcceptRow
      <3>5. live' \subseteq live \cup (Ids' \ Ids)
        BY <3>3, <3>4
      <3> QED
        BY <2>1, <3>3, <3>4, <3>5, OrderStays
    <2>4. ASSUME NEW p \in Producers, Emit(p) PROVE OrderInv'
      BY <2>2, <2>3, <2>4
         DEF Emit, EmitBegin, EmitInsert, EmitConflict, EmitRelease, EmitDuplicate,
             EmitFails, EmitStop, tables
    <2>5. CASE Sweep
      <3>1. live' \subseteq live /\ UNCHANGED <<log, cursor, pos, attempts>>
        BY <2>5 DEF Sweep, subscribers
      <3> QED
        BY <1>3, <2>1, <3>1
    <2>6. CASE Tick
      BY <2>2, <2>6 DEF Tick, tables
    <2> QED
      BY <1>4, <2>4, <2>5, <2>6 DEF Background
  <1>5. CASE Operate
    <2>1. \A s \in Subs : ~Rewind(s) /\ \A from \in ReplayFrom : ~RewindCheck(s, from)
      <3>1. spent["rewind"] \in Nat
        BY <1>1, SubscriberAssumption DEF InvAt, SubscriberTypeOK
      <3> QED
        BY <1>1, <3>1
           DEF NoRewinds, InvAt, Bounded, Rewind, ReplayWrite, RewindCheck, Spend
    <2>2. ASSUME NEW d \in DOMAIN dlq, NEW to \in {"asked", "gone"}, OperateLetter(d, to)
          PROVE  OrderInv'
      <3>1. UNCHANGED <<vars, loop>>
        BY <2>2 DEF OperateLetter
      <3> QED
        BY <1>3, <3>1, StoreStutters
    <2>3. ASSUME NEW s \in Subs, Unsubscribe(s) PROVE OrderInv'
      <3>1. /\ UNCHANGED <<loop, log, live, pos, attempts>>
            /\ cursor' = [cursor EXCEPT ![s] =
                 IF cursor[s] = "active" THEN "deregistered" ELSE cursor[s]]
        BY <2>3 DEF Unsubscribe, Deregister, tables
      <3>2. \A r \in Subs : cursor[r] \in {"active", "deregistered"} =>
              cursor'[r] \in {"active", "deregistered"}
        BY <1>2, <3>1
      <3> QED
        BY <1>3, <3>1, <3>2
    <2> QED
      BY <1>5, <2>1, <2>2, <2>3 DEF Operate
  <1> QED
    BY <1>4, <1>5

LEMMA OrderInit == SubscriberInit => OrderInv
  <1> SUFFICES ASSUME SubscriberInit PROVE OrderInv
    OBVIOUS
  <1>1. \A w \in Workers : loop[w].at = "start"
    BY DEF SubscriberInit, Halted
  <1>2. \A w \in Workers : Front(loop[w])
    BY <1>1, Backstage DEF FrontLabels, EventLabels
  <1>3. RowsAhead
    BY DEF SubscriberInit, Init, RowsAhead
  <1> QED
    BY <1>2, <1>3 DEF OrderInv

LEMMA OrderNext ==
  ASSUME NoRewinds, OneWorker, SubscriberInv, OrderInv, [SubscriberNext]_subscriberVars
  PROVE  OrderInv'
  <1>1. SubscriberInv'
    BY InvStep
  <1>2. ASSUME NEW w \in Workers, Run(w) PROVE OrderInv'
    BY <1>2, OrderBetween, OrderPoll, OrderSelect, OrderTake, OrderDelivery, OrderCounts,
       OrderAcks, OrderReanchor, OrderRegister DEF Run
  <1>3. ASSUME NEW w \in Workers, Disturb(w) PROVE OrderInv'
    BY <1>3, OrderBetween, OrderDisturb DEF Disturb
  <1>4. CASE Operate \/ Background
    BY <1>1, <1>4, OrderRest
  <1>5. CASE UNCHANGED subscriberVars
    <2>1. UNCHANGED <<loop, log, live, cursor, pos, attempts>>
      BY <1>5, StoreStutters DEF subscriberVars
    <2> QED
      BY <1>1, <2>1, OrderStays DEF Ids
  <1> QED
    BY <1>2, <1>3, <1>4, <1>5 DEF SubscriberNext

(* lib/subscribe.js "If the handler throws, the event is retried": the     *)
(* handler is called for an event only when every earlier claim that has   *)
(* not been swept is settled, whatever failed, crashed or was stopped      *)
(* before.                                                                 *)
THEOREM DeliversInOrder ==
  NoRewinds /\ OneWorker => (SubscriberSpec => []HandledInOrder)
  <1> SUFFICES ASSUME NoRewinds, OneWorker PROVE SubscriberSpec => []HandledInOrder
    OBVIOUS
  <1>1. SubscriberInit => SubscriberInv /\ OrderInv
    BY InvInit, OrderInit
  <1>2. SubscriberInv /\ OrderInv /\ [SubscriberNext]_subscriberVars
          => SubscriberInv' /\ OrderInv'
    BY InvStep, OrderNext
  <1>3. SubscriberInv /\ OrderInv => HandledInOrder
    <2> SUFFICES ASSUME SubscriberInv, OrderInv, NEW w \in Workers, At(w, "handle"),
                        NEW i \in due[Mine(w)] \cap live
                 PROVE  i >= loop[w].event
      BY DEF HandledInOrder
    <2>1. Claims /\ Mine(w) \in Subs
      BY OrderFacts DEF At, LoopLabels, Labels
    <2>2. i \in Ahead(Mine(w), pos[Mine(w)])
      BY <2>1 DEF Claims, Ahead
    <2>3. Front(loop[w]) /\ loop[w].at \in EventLabels
      BY DEF OrderInv, At, EventLabels
    <2> QED
      BY <2>2, <2>3 DEF Front, Mine
  <1> QED
    BY <1>1, <1>2, <1>3, PTL DEF SubscriberSpec

(* lib/retention.js "In-flight retries ... are owed": a retry row of an    *)
(* event that survives is of one the cursor has not passed, so no sweep    *)
(* retains a settled event for it.                                         *)
THEOREM RetriesAreUnacked ==
  NoRewinds /\ OneWorker => (SubscriberSpec => []RetryRowsAreUnacked)
  <1> SUFFICES ASSUME NoRewinds, OneWorker PROVE SubscriberSpec => []RetryRowsAreUnacked
    OBVIOUS
  <1>1. SubscriberInit => SubscriberInv /\ OrderInv
    BY InvInit, OrderInit
  <1>2. SubscriberInv /\ OrderInv /\ [SubscriberNext]_subscriberVars
          => SubscriberInv' /\ OrderInv'
    BY InvStep, OrderNext
  <1>3. SubscriberInv /\ OrderInv => RetryRowsAreUnacked
    <2> SUFFICES ASSUME SubscriberInv, OrderInv, NEW s \in Subs, NEW i \in live,
                        attempts[s][i] > 0
                 PROVE  i > pos[s]
      BY DEF RetryRowsAreUnacked
    <2>1. i \in 1 .. MaxEvents
      <3>1. PICK base \in [Subs -> Nat] : InvAt(base)
        BY DEF SubscriberInv
      <3>2. Ids = 1 .. Len(log) /\ Len(log) \in Nat /\ live \subseteq Ids /\ Len(log) <= MaxEvents
        BY <3>1, IdsAreOneToLen DEF InvAt, RetentionInv, Typed, TypeOK, Bounded
      <3> QED
        BY <3>2, StoreAssumption
    <2> QED
      BY <2>1 DEF OrderInv, RowsAhead
  <1> QED
    BY <1>1, <1>2, <1>3, PTL DEF SubscriberSpec
================================================================================
