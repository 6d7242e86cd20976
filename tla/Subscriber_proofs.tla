--------------------------- MODULE Subscriber_proofs ---------------------------
(***************************************************************************)
(* Theorems about Subscriber, for every number of workers and              *)
(* subscriptions, every batch size and retry budget, and any number of     *)
(* crashes, restarts, stops, database errors, deregistrations and          *)
(* operations on dead letters.  What is delivered is proved without the    *)
(* replay command (NoRewinds): the ack of a delivery that is under way     *)
(* undoes it.  Everything else is proved with it.                          *)
(***************************************************************************)
EXTENDS Subscriber, EventStore_proofs, FiniteSetTheorems

NoRewinds == Budget["rewind"] = 0

LoopLabels == Labels \ {"start", "register", "stopped", "down"}

EventLabels ==
  {"handle", "unretry", "ack", "retry", "sleep", "bury", "buryClean", "buryAck"}

Done(s, i) == <<s, i>> \in handled \cup buried

(* base[s] is where the cursor of s was created.  Every event from there to*)
(* n that the sweep has left is settled, whoever settled it.               *)
Passed(base, s, n) ==
  /\ base[s] <= n
  /\ \A i \in live : Matches(s, i) /\ base[s] < i /\ i <= n => Done(s, i)

(* What a worker with local state l relies on.  The positions it may ack   *)
(* are passed, or will be once its event is; what its batch does not hold  *)
(* is settled before what it holds.                                        *)
Acking(base, l) ==
  /\ l.at \in {"oldest", "reanchor", "select"} =>
       l.floor \in 0 .. Len(log) /\ Passed(base, l.sub, l.floor)
  /\ l.at \in EventLabels =>
       l.event \in Ids /\ Passed(base, l.sub, l.event - 1)
  /\ l.at \in {"unretry", "ack"} => <<l.sub, l.event>> \in handled
  /\ l.at \in {"buryClean", "buryAck"} => <<l.sub, l.event>> \in buried

Batching(base, l) ==
  l.at \in EventLabels \cup {"next"} =>
    \A j \in l.batch :
      /\ j \in Ids /\ base[l.sub] < j
      /\ \A i \in live : Matches(l.sub, i) /\ base[l.sub] < i /\ i < j =>
           Done(l.sub, i) \/ i \in l.batch \/ (l.at # "next" /\ i = l.event)

Attending(l) ==
  /\ l.at \notin {"start", "stopped", "down"} => l.sub \in Subs
  /\ l.at \in LoopLabels => cursor[l.sub] \in {"active", "deregistered"}
  /\ l.at \in {"replay", "replayDelete", "replayKeep"} => l.letter \in DOMAIN dlq
  /\ l.at \in {"handle", "unretry", "ack", "retry", "sleep"} => l.tries <= MaxRetries
  /\ l.at = "retry" => l.tries >= 1

WorkerOK(base, l) == Acking(base, l) /\ Batching(base, l) /\ Attending(l)

(* The tables as the loop finds them.                                      *)
Bounded ==
  /\ Len(log) <= MaxEvents
  /\ attempts \in [Subs -> [1 .. MaxEvents -> 0 .. MaxRetries]]
  /\ pos \in [Subs -> 0 .. Len(log)]
  /\ reset = [s \in Subs |-> {}]
  /\ \A s \in Subs : ActiveConsumer(s) => Ahead(s, pos[s]) \subseteq due[s]
  /\ \A s \in Subs : sub[s] = "absent" => cursor[s] = "absent"

AcksPassed(base) == \A s \in Subs : cursor[s] = "active" => Passed(base, s, pos[s])

Tracked(base) == AcksPassed(base) /\ \A w \in Workers : WorkerOK(base, loop[w])

InvAt(base) == RetentionInv /\ Bounded /\ SubscriberTypeOK /\ Tracked(base)

SubscriberInv == \E base \in [Subs -> Nat] : InvAt(base)

--------------------------------------------------------------------------------
(* What every step does to the shared state, without a replay command: ids *)
(* are new, rows are immutable, and what is settled stays so.              *)
Grows ==
  /\ Ids \subseteq Ids' /\ live' \subseteq live \cup (Ids' \ Ids)
  /\ \A i \in Ids : log'[i] = log[i]
  /\ handled \subseteq handled' /\ buried \subseteq buried'
  /\ DOMAIN dlq \subseteq DOMAIN dlq'
  /\ \A s \in Subs : cursor[s] \in {"active", "deregistered"} =>
       cursor'[s] \in {"active", "deregistered"}

LEMMA IdsAreOneToLen == ASSUME Typed PROVE Ids = 1 .. Len(log) /\ Len(log) \in Nat
  BY DEF Typed, TypeOK, Ids

LEMMA LenGrows ==
  ASSUME Typed, Typed', Ids \subseteq Ids'
  PROVE  Len(log) <= Len(log')
  <1>1. /\ Ids = 1 .. Len(log) /\ Len(log) \in Nat
        /\ Ids' = 1 .. Len(log') /\ Len(log') \in Nat
    BY DEF Typed, TypeOK, Ids
  <1> QED
    BY <1>1

LEMMA PassedStays ==
  ASSUME Typed, Typed', Grows, NEW base, NEW s, NEW n \in Int, n <= Len(log),
         Passed(base, s, n)
  PROVE  Passed(base, s, n)'
  <1>1. Ids = 1 .. Len(log) /\ Len(log) \in Nat /\ live' \subseteq Ids' /\ live \subseteq Ids
    BY DEF Typed, TypeOK, Ids
  <1>2. Ids' = 1 .. Len(log')
    BY DEF Typed, TypeOK, Ids
  <1> SUFFICES ASSUME NEW i \in live', Matches(s, i)', base[s] < i, i <= n
      PROVE  Done(s, i)'
    BY DEF Passed
  <1>3. i \in Ids' /\ i \in live \cup (Ids' \ Ids)
    BY <1>1 DEF Grows
  <1>4. i \in live
    BY <1>1, <1>2, <1>3
  <1>5. Matches(s, i)
    BY <1>1, <1>4 DEF Matches, Grows
  <1>6. Done(s, i)
    BY <1>4, <1>5 DEF Passed
  <1> QED
    BY <1>6 DEF Done, Grows

LEMMA WorkerStays ==
  ASSUME Typed, Typed', Grows, NEW base, NEW l \in Loop, WorkerOK(base, l)
  PROVE  WorkerOK(base, l)'
  <1>1. /\ Ids = 1 .. Len(log) /\ Len(log) \in Nat
        /\ Ids' = 1 .. Len(log') /\ Len(log') \in Nat /\ live' \subseteq Ids' /\ live \subseteq Ids
    BY DEF Typed, TypeOK, Ids
  <1>2. Len(log) <= Len(log')
    BY LenGrows DEF Grows
  <1>3. Acking(base, l)'
    <2>1. l.at \in {"oldest", "reanchor", "select"} =>
            l.floor \in 0 .. Len(log') /\ Passed(base, l.sub, l.floor)'
      BY <1>1, <1>2, PassedStays DEF WorkerOK, Acking
    <2>2. l.at \in EventLabels =>
            l.event \in Ids' /\ Passed(base, l.sub, l.event - 1)'
      <3> SUFFICES ASSUME l.at \in EventLabels
          PROVE  l.event \in Ids' /\ Passed(base, l.sub, l.event - 1)'
        OBVIOUS
      <3>1. l.event \in Ids /\ Passed(base, l.sub, l.event - 1)
        BY DEF WorkerOK, Acking
      <3>2. PICK n \in Int : n = l.event - 1 /\ n <= Len(log)
        BY <1>1, <3>1
      <3>3. Passed(base, l.sub, n)'
        BY <3>1, <3>2, PassedStays
      <3> QED
        BY <3>1, <3>2, <3>3 DEF Grows
    <2> QED
      BY <2>1, <2>2 DEF WorkerOK, Acking, Grows
  <1>4. Batching(base, l)'
    <2> SUFFICES ASSUME l.at \in EventLabels \cup {"next"}, NEW j \in l.batch
        PROVE  /\ j \in Ids' /\ base[l.sub] < j
               /\ \A i \in live' : Matches(l.sub, i)' /\ base[l.sub] < i /\ i < j =>
                    Done(l.sub, i)' \/ i \in l.batch \/ (l.at # "next" /\ i = l.event)
      BY DEF Batching
    <2>1. /\ j \in Ids /\ base[l.sub] < j
          /\ \A i \in live : Matches(l.sub, i) /\ base[l.sub] < i /\ i < j =>
               Done(l.sub, i) \/ i \in l.batch \/ (l.at # "next" /\ i = l.event)
      BY DEF WorkerOK, Batching
    <2>2. ASSUME NEW i \in live', Matches(l.sub, i)', i < j
          PROVE  i \in live /\ Matches(l.sub, i)
      <3>1. i \in live \cup (Ids' \ Ids) /\ i \in Ids'
        BY <1>1 DEF Grows
      <3>2. i \in live
        BY <1>1, <2>1, <2>2, <3>1
      <3> QED
        BY <1>1, <2>2, <3>2 DEF Matches, Grows
    <2>3. \A i : Done(l.sub, i) => Done(l.sub, i)'
      BY DEF Done, Grows
    <2> QED
      BY <2>1, <2>2, <2>3 DEF Grows
  <1>5. Attending(l)'
    <2>1. Attending(l)
      BY DEF WorkerOK
    <2>2. l.at \in LoopLabels => cursor'[l.sub] \in {"active", "deregistered"}
      <3>1. l.at \in LoopLabels => l.at \notin {"start", "stopped", "down"}
        BY DEF LoopLabels
      <3> QED
        BY <2>1, <3>1 DEF Attending, Grows
    <2>3. l.at \in {"replay", "replayDelete", "replayKeep"} => l.letter \in DOMAIN dlq'
      BY <2>1 DEF Attending, Grows
    <2> QED
      BY <2>1, <2>2, <2>3 DEF Attending
  <1> QED
    BY <1>3, <1>4, <1>5 DEF WorkerOK

LEMMA AcksStay ==
  ASSUME Typed, Typed', Grows, Bounded, NEW base, AcksPassed(base),
         \A s \in Subs : cursor'[s] = "active" => cursor[s] = "active" /\ pos'[s] = pos[s]
  PROVE  AcksPassed(base)'
  <1> SUFFICES ASSUME NEW s \in Subs, cursor'[s] = "active"
      PROVE  Passed(base, s, pos[s])'
    BY DEF AcksPassed
  <1>1. PICK n \in Int : n = pos[s] /\ n <= Len(log)
    BY IdsAreOneToLen DEF Bounded
  <1>2. Passed(base, s, n)'
    BY <1>1, PassedStays DEF AcksPassed
  <1> QED
    BY <1>1, <1>2

(* The local state a worker moves to is fit before the step, or after it.  *)
Moves(base, w) ==
  \E l \in Loop : loop' = [loop EXCEPT ![w] = l] /\ WorkerOK(base, l)

Arrives(base, w) ==
  \E l \in Loop : loop' = [loop EXCEPT ![w] = l] /\ WorkerOK(base, l)'

LEMMA MovesArrives ==
  ASSUME NEW base, NEW w \in Workers, Typed, Typed', Grows, Moves(base, w)
  PROVE  Arrives(base, w)
  <1>1. PICK l \in Loop : loop' = [loop EXCEPT ![w] = l] /\ WorkerOK(base, l)
    BY DEF Moves
  <1>2. WorkerOK(base, l)'
    BY <1>1, WorkerStays
  <1> QED
    BY <1>1, <1>2 DEF Arrives

LEMMA OthersStay ==
  ASSUME NEW base, NEW v \in Workers, Typed, Typed', Grows, WorkerOK(base, loop[v]),
         loop \in [Workers -> Loop], loop'[v] = loop[v]
  PROVE  WorkerOK(base, loop[v])'
  <1>1. PICK l \in Loop : l = loop[v]
    OBVIOUS
  <1>2. WorkerOK(base, l)'
    BY <1>1, WorkerStays
  <1> QED
    BY <1>1, <1>2

RowsTyped ==
  /\ dlq \in Seq(Letter)
  /\ spent \in [DOMAIN Budget -> Nat]
  /\ handled \subseteq Subs \X (1 .. MaxEvents)
  /\ buried \subseteq Subs \X (1 .. MaxEvents)
  /\ failures \in [Subs -> [1 .. MaxEvents -> 0 .. MaxRetries + 1]]

(* A step of one worker.                                                   *)
LEMMA WorkerKeeps ==
  ASSUME NEW base \in [Subs -> Nat], InvAt(base), NEW w \in Workers, [Next]_vars,
         Grows, Bounded', AcksPassed(base)', RowsTyped', Arrives(base, w)
  PROVE  InvAt(base)'
  <1>1. RetentionInv' /\ Typed /\ Typed' /\ loop \in [Workers -> Loop]
    BY RetentionNext DEF InvAt, RetentionInv, SubscriberTypeOK
  <1>2. PICK l \in Loop : loop' = [loop EXCEPT ![w] = l] /\ WorkerOK(base, l)'
    BY DEF Arrives
  <1>3. SubscriberTypeOK'
    BY <1>1, <1>2 DEF SubscriberTypeOK, RowsTyped
  <1>4. ASSUME NEW v \in Workers PROVE WorkerOK(base, loop[v])'
    <2>1. CASE v = w
      <3>1. loop'[v] = l
        BY <1>1, <1>2, <2>1
      <3> QED
        BY <1>2, <3>1
    <2>2. CASE v # w
      <3>1. loop'[v] = loop[v]
        BY <1>1, <1>2, <2>2
      <3> QED
        BY <1>1, <3>1, OthersStay DEF InvAt, Tracked
    <2> QED
      BY <2>1, <2>2
  <1> QED
    BY <1>1, <1>3, <1>4 DEF InvAt, Tracked

(* What a step has to show: the invariant, a step of the store, and a step *)
(* of the promise.                                                         *)
Good(base) == InvAt(base)' /\ [Next]_vars /\ [ALO!Next]_(ALO!vars)

LEMMA PromiseStutters ==
  ASSUME UNCHANGED <<handled, buried, due, sub, reset, log, live>>
  PROVE  UNCHANGED ALO!vars
  BY DEF ALO!vars, ALO!requests, Ids

LEMMA StoreStutters ==
  ASSUME UNCHANGED vars
  PROVE  /\ [Next]_vars
         /\ UNCHANGED <<clock, log, live, released, archived, acceptedAt, reported,
                        step, draft, sub, cursor, pos, reset, attempts, due>>
  BY DEF vars, tables, emits, subscribers

(* A step of a worker that leaves the store and what is settled alone.     *)
LEMMA LocalKeeps ==
  ASSUME NEW base \in [Subs -> Nat], InvAt(base), NEW w \in Workers, Moves(base, w),
         UNCHANGED <<vars, handled, buried>>, RowsTyped', DOMAIN dlq' = DOMAIN dlq
  PROVE  Good(base)
  <1>1. /\ [Next]_vars
        /\ UNCHANGED <<clock, log, live, released, archived, acceptedAt, reported,
                       step, draft, sub, cursor, pos, reset, attempts, due>>
    BY StoreStutters
  <1>2. Typed /\ Typed' /\ Bounded /\ AcksPassed(base)
    BY <1>1, RetentionNext DEF InvAt, RetentionInv, Tracked
  <1>3. Grows
    BY <1>1 DEF Grows, Ids
  <1>4. Bounded'
    BY <1>1, <1>2 DEF Bounded, ActiveConsumer, Ahead, Matches
  <1>5. AcksPassed(base)'
    BY <1>1, <1>2, <1>3, AcksStay
  <1>6. Arrives(base, w)
    BY <1>2, <1>3, MovesArrives
  <1>7. InvAt(base)'
    BY <1>1, <1>3, <1>4, <1>5, <1>6, WorkerKeeps
  <1>8. UNCHANGED ALO!vars
    BY <1>1, PromiseStutters
  <1> QED
    BY <1>1, <1>7, <1>8 DEF Good

LEMMA GotoMoves ==
  ASSUME NEW base, NEW w \in Workers, loop \in [Workers -> Loop], NEW label \in Labels,
         Goto(w, label), WorkerOK(base, [loop[w] EXCEPT !.at = label])
  PROVE  Moves(base, w)
  <1> DEFINE l == [loop[w] EXCEPT !.at = label]
  <1>1. l \in Loop
    BY DEF Loop
  <1>2. loop' = [loop EXCEPT ![w] = l]
    BY DEF Goto
  <1> QED
    BY <1>1, <1>2 DEF Moves

(* Between two ticks nothing is relied on but the cursor.                  *)
Quiet == {"idle", "drain", "poll", "stopped", "down", "start"}

LEMMA QuietOK ==
  ASSUME NEW base, InvAt(base), NEW w \in Workers, loop[w].at \in LoopLabels,
         NEW l \in Loop, l.sub = Mine(w), l.at \in Quiet
  PROVE  WorkerOK(base, l)
  <1>1. WorkerOK(base, loop[w])
    BY DEF InvAt, Tracked
  <1>2. Mine(w) \in Subs /\ cursor[Mine(w)] \in {"active", "deregistered"}
    BY <1>1 DEF WorkerOK, Attending, LoopLabels, Mine
  <1>3. l.at \notin EventLabels
    BY DEF Quiet, EventLabels
  <1> QED
    BY <1>2, <1>3 DEF WorkerOK, Acking, Batching, Attending, Quiet, LoopLabels

LEMMA QuietMoves ==
  ASSUME NEW base, InvAt(base), NEW w \in Workers, loop[w].at \in LoopLabels,
         NEW label \in Quiet, Goto(w, label)
  PROVE  Moves(base, w)
  <1> DEFINE l == [loop[w] EXCEPT !.at = label]
  <1>1. loop \in [Workers -> Loop] /\ label \in Labels
    BY DEF InvAt, SubscriberTypeOK, Quiet, Labels
  <1>2. l \in Loop /\ l.sub = Mine(w) /\ l.at = label
    BY <1>1 DEF Loop, Mine
  <1>3. WorkerOK(base, l)
    BY <1>2, QuietOK
  <1> QED
    BY <1>1, <1>3, GotoMoves

LEMMA EndTickQuiet == \A w \in Workers : EndTick(w) \in Quiet
  BY DEF EndTick, Quiet

--------------------------------------------------------------------------------
(* The steps between two writes to the store.                              *)
LEMMA LoopOnlyGood ==
  ASSUME NEW base \in [Subs -> Nat], InvAt(base), NEW w \in Workers, LoopOnly,
         Moves(base, w)
  PROVE  Good(base)
  <1>1. RowsTyped'
    BY DEF LoopOnly, RowsTyped, ghosts, InvAt, SubscriberTypeOK
  <1> QED
    BY <1>1, LocalKeeps DEF LoopOnly, ghosts

(* What the invariant says of one worker.                                  *)
LEMMA WorkerFacts ==
  ASSUME NEW base \in [Subs -> Nat], InvAt(base), NEW w \in Workers
  PROVE  /\ loop \in [Workers -> Loop] /\ loop[w] \in Loop
         /\ WorkerOK(base, loop[w])
         /\ loop[w].at \notin {"start", "stopped", "down"} => Mine(w) \in Subs
         /\ Ids = 1 .. Len(log) /\ Len(log) \in Nat /\ Len(log) <= MaxEvents
         /\ live \subseteq Ids /\ MaxEvents \in Nat /\ MaxRetries \in Nat
         /\ \A i : i \in live => i \in Nat /\ i >= 1 /\ i <= Len(log)
  <1>1. WorkerOK(base, loop[w]) /\ loop \in [Workers -> Loop] /\ Typed
    BY DEF InvAt, Tracked, SubscriberTypeOK, RetentionInv
  <1>2. Ids = 1 .. Len(log) /\ Len(log) \in Nat
    BY <1>1, IdsAreOneToLen
  <1>3. live \subseteq Ids
    BY <1>1 DEF Typed, TypeOK
  <1>4. \A i : i \in live => i \in Nat /\ i >= 1 /\ i <= Len(log)
    BY <1>2, <1>3
  <1>5. loop[w].at \notin {"start", "stopped", "down"} => Mine(w) \in Subs
    BY <1>1 DEF WorkerOK, Attending, Mine
  <1>6. Len(log) <= MaxEvents /\ MaxEvents \in Nat /\ MaxRetries \in Nat
    BY StoreAssumption DEF InvAt, Bounded
  <1> QED
    BY <1>1, <1>2, <1>3, <1>4, <1>5, <1>6

LEMMA TickEdgesGood ==
  ASSUME NEW base \in [Subs -> Nat], InvAt(base), NEW w \in Workers,
         \/ Resume(w) \/ Restart(w) \/ StartTick(w) \/ DrainPick(w) \/ DrainDone(w)
         \/ ReplayThrows(w) \/ BatchDone(w)
  PROVE  Good(base)
  <1>0. /\ loop \in [Workers -> Loop] /\ loop[w] \in Loop
        /\ WorkerOK(base, loop[w])
        /\ loop[w].at \notin {"start", "stopped", "down"} => Mine(w) \in Subs
        /\ Ids = 1 .. Len(log) /\ Len(log) \in Nat /\ Len(log) <= MaxEvents
        /\ live \subseteq Ids /\ MaxEvents \in Nat /\ MaxRetries \in Nat
        /\ \A i : i \in live => i \in Nat /\ i >= 1 /\ i <= Len(log)
    BY WorkerFacts
  <1> USE <1>0
  <1>1. CASE Resume(w)
    <2>1. PICK s \in Subs : ActiveConsumer(s)
                            /\ loop' = [loop EXCEPT ![w].sub = s, ![w].at = "idle"]
      BY <1>1 DEF Resume
    <2> DEFINE l == [loop[w] EXCEPT !.sub = s, !.at = "idle"]
    <2>2. l \in Loop /\ l.at = "idle" /\ l.sub = s
      <3>1. "idle" \in Labels
        BY DEF Labels
      <3> QED
        BY <3>1 DEF Loop
    <2>3. WorkerOK(base, l)
      BY <2>1, <2>2 DEF WorkerOK, Acking, Batching, Attending, EventLabels, ActiveConsumer
    <2>4. loop' = [loop EXCEPT ![w] = l]
      BY <2>1
    <2> QED
      BY <1>1, <2>2, <2>3, <2>4, LoopOnlyGood DEF Resume, Moves
  <1>2. CASE Restart(w)
    <2> DEFINE l == Halted("start")
    <2>1. l \in Loop /\ l.at = "start"
      BY DEF Loop, Labels, Halted
    <2>2. WorkerOK(base, l)
      BY <2>1 DEF WorkerOK, Acking, Batching, Attending, EventLabels, LoopLabels
    <2> QED
      BY <1>2, <2>1, <2>2, LoopOnlyGood DEF Restart, Moves
  <1>3. CASE StartTick(w)
    <2>1. loop[w].at \in LoopLabels /\ Goto(w, "drain") /\ LoopOnly
      BY <1>3 DEF StartTick, At, LoopLabels, Labels
    <2> QED
      BY <2>1, QuietMoves, LoopOnlyGood DEF Quiet
  <1>4. CASE DrainPick(w)
    <2>1. PICK d \in DOMAIN dlq :
            loop[w].at = "drain" /\ loop' = [loop EXCEPT ![w].letter = d, ![w].at = "replay"]
      BY <1>4 DEF DrainPick, Asked, At
    <2> DEFINE l == [loop[w] EXCEPT !.letter = d, !.at = "replay"]
    <2>2. d \in Nat
      BY DEF InvAt, SubscriberTypeOK
    <2>3. l \in Loop /\ l.at = "replay" /\ l.sub = Mine(w) /\ l.letter = d
      <3>1. "replay" \in Labels
        BY DEF Labels
      <3> QED
        BY <2>2, <3>1 DEF Loop, Mine
    <2>4. Mine(w) \in Subs /\ cursor[Mine(w)] \in {"active", "deregistered"}
      BY <2>1 DEF WorkerOK, Attending, Mine, LoopLabels, Labels
    <2>5. WorkerOK(base, l)
      BY <2>1, <2>3, <2>4 DEF WorkerOK, Acking, Batching, Attending, EventLabels
    <2>6. loop' = [loop EXCEPT ![w] = l]
      BY <2>1
    <2> QED
      BY <1>4, <2>3, <2>5, <2>6, LoopOnlyGood DEF DrainPick, Moves
  <1>5. CASE DrainDone(w)
    <2>1. loop[w].at \in LoopLabels /\ LoopOnly
          /\ (Goto(w, EndTick(w)) \/ Goto(w, "poll"))
      BY <1>5 DEF DrainDone, At, LoopLabels, Labels
    <2>2. EndTick(w) \in Quiet /\ "poll" \in Quiet
      BY EndTickQuiet DEF Quiet
    <2> QED
      BY <2>1, <2>2, QuietMoves, LoopOnlyGood
  <1>6. CASE ReplayThrows(w)
    <2> DEFINE l == [loop[w] EXCEPT !.at = "replayKeep"]
    <2>1. l.at = "replayKeep" /\ l.sub = loop[w].sub /\ l.letter = loop[w].letter
          /\ loop[w].at = "replay" /\ Goto(w, "replayKeep")
      BY <1>6 DEF Loop, ReplayThrows, At
    <2>2. WorkerOK(base, l)
      BY <2>1 DEF WorkerOK, Acking, Batching, Attending, EventLabels, LoopLabels, Labels
    <2>3. Moves(base, w)
      BY <2>1, <2>2, GotoMoves DEF Labels
    <2> QED
      BY <1>6, <2>3, LoopOnlyGood DEF ReplayThrows
  <1>7. CASE BatchDone(w)
    <2>1. loop[w].at \in LoopLabels /\ LoopOnly /\ Goto(w, EndTick(w))
      BY <1>7 DEF BatchDone, At, LoopLabels, Labels
    <2> QED
      BY <2>1, EndTickQuiet, QuietMoves, LoopOnlyGood
  <1> QED
    BY <1>1, <1>2, <1>3, <1>4, <1>5, <1>6, <1>7

LEMMA PollGood ==
  ASSUME NEW base \in [Subs -> Nat], InvAt(base), NEW w \in Workers,
         PollCursor(w) \/ PollOldest(w)
  PROVE  Good(base)
  <1>0. /\ loop \in [Workers -> Loop] /\ loop[w] \in Loop
        /\ WorkerOK(base, loop[w])
        /\ loop[w].at \notin {"start", "stopped", "down"} => Mine(w) \in Subs
        /\ Ids = 1 .. Len(log) /\ Len(log) \in Nat /\ Len(log) <= MaxEvents
        /\ live \subseteq Ids /\ MaxEvents \in Nat /\ MaxRetries \in Nat
        /\ \A i : i \in live => i \in Nat /\ i >= 1 /\ i <= Len(log)
    BY WorkerFacts
  <1> USE <1>0
  <1>1. Mine(w) \in Subs /\ cursor[Mine(w)] \in {"active", "deregistered"}
        /\ loop[w].sub = Mine(w) /\ loop[w].at \in LoopLabels
    BY DEF WorkerOK, Attending, Mine, LoopLabels, Labels, PollCursor, PollOldest, At
  <1>2. LoopOnly
    BY DEF PollCursor, PollOldest
  <1>3. base[Mine(w)] \in Nat
    BY <1>1
  \* From here the worker carries a position that is passed.
  <1>4. ASSUME NEW label \in {"oldest", "reanchor", "select"}, NEW n \in 0 .. Len(log),
               Passed(base, Mine(w), n),
               loop' = [loop EXCEPT ![w].floor = n, ![w].at = label]
        PROVE  Good(base)
    <2> DEFINE l == [loop[w] EXCEPT !.floor = n, !.at = label]
    <2>0. loop[w] \in Loop /\ n \in Int /\ label \in Labels
      BY <1>4 DEF Labels
    <2>1. l \in Loop /\ l.at = label /\ l.sub = Mine(w) /\ l.floor = n
      BY <2>0 DEF Loop, Mine
    <2>2. WorkerOK(base, l)
      BY <1>1, <1>4, <2>1 DEF WorkerOK, Acking, Batching, Attending, EventLabels
    <2>3. loop' = [loop EXCEPT ![w] = l]
      BY <1>4
    <2> QED
      BY <1>2, <2>1, <2>2, <2>3, LoopOnlyGood DEF Moves
  <1>5. CASE PollCursor(w)
    <2>1. CASE CursorOpen(w)
      <3>1. PICK n \in 0 .. Len(log) : n = pos[Mine(w)]
        BY <1>1 DEF InvAt, Bounded
      <3>2. Passed(base, Mine(w), n)
        BY <1>1, <2>1, <3>1 DEF InvAt, Tracked, AcksPassed, CursorOpen
      <3>3. loop' = [loop EXCEPT ![w].floor = n, ![w].at = "oldest"]
        BY <1>5, <2>1, <3>1 DEF PollCursor
      <3> QED
        BY <1>4, <3>2, <3>3
    <2>2. CASE ~CursorOpen(w)
      <3>1. Goto(w, EndTick(w))
        BY <1>5, <2>2 DEF PollCursor
      <3> QED
        BY <1>1, <1>2, <3>1, EndTickQuiet, QuietMoves, LoopOnlyGood
    <2> QED
      BY <2>1, <2>2
  <1>6. CASE PollOldest(w)
    <2>1. /\ loop[w].at = "oldest" /\ loop[w].floor \in 0 .. Len(log)
          /\ Passed(base, Mine(w), loop[w].floor)
      BY <1>6 DEF PollOldest, At, WorkerOK, Acking, Mine
    <2>2. ASSUME NEW m \in live, IsOldest(m), loop[w].floor < m - 1,
                 loop' = [loop EXCEPT ![w].floor = m - 1, ![w].at = "reanchor"]
          PROVE  Good(base)
      <3>1. PICK n \in 0 .. Len(log) : n = m - 1
        BY <2>1, <2>2
      <3>2. Passed(base, Mine(w), n)
        BY <1>3, <2>1, <2>2, <3>1 DEF Passed, IsOldest
      <3> QED
        BY <1>4, <2>2, <3>1, <3>2
    <2>3. CASE Goto(w, "select")
      <3>1. PICK n \in 0 .. Len(log) : n = loop[w].floor
        BY <2>1
      <3>2. loop' = [loop EXCEPT ![w].floor = n, ![w].at = "select"]
        BY <2>3, <3>1 DEF Goto, Loop
      <3> QED
        BY <1>4, <2>1, <3>1, <3>2
    <2> QED
      BY <1>6, <2>2, <2>3 DEF PollOldest
  <1> QED
    BY <1>5, <1>6

(* A page leaves out no matching event before one it holds.                *)
LEMMA PageIsPrefix ==
  ASSUME Typed, NEW s, NEW n \in Int, NEW j \in Page(s, n), NEW i \in Ahead(s, n), i < j
  PROVE  i \in Page(s, n)
  <1>1. live \subseteq 1 .. Len(log) /\ Len(log) \in Nat
    BY DEF Typed, TypeOK, Ids
  <1> DEFINE Before(k) == {h \in Ahead(s, n) : h < k}
  <1>2. j \in Ahead(s, n) /\ Cardinality(Before(j)) < BatchSize
    BY DEF Page
  <1>3. Before(i) \subseteq Before(j)
    <2>1. \A h \in Ahead(s, n) : h \in Int
      <3>1. \A h \in live : h \in Int
        BY <1>1
      <3> QED
        BY <3>1 DEF Ahead
    <2> SUFFICES ASSUME NEW h \in Ahead(s, n), h < i PROVE h < j
      OBVIOUS
    <2> QED
      BY <1>2, <2>1
  <1>4. IsFiniteSet(Before(j))
    <2>1. IsFiniteSet(1 .. Len(log))
      BY <1>1, FS_Interval
    <2> QED
      BY <1>1, <2>1, FS_Subset DEF Ahead
  <1>5. /\ Cardinality(Before(i)) <= Cardinality(Before(j))
        /\ Cardinality(Before(i)) \in Nat /\ Cardinality(Before(j)) \in Nat
    BY <1>3, <1>4, FS_Subset, FS_CardinalityType
  <1>6. Cardinality(Before(i)) < BatchSize
    BY <1>2, <1>5, SubscriberAssumption
  <1> QED
    BY <1>6 DEF Page

LEMMA SelectGood ==
  ASSUME NEW base \in [Subs -> Nat], InvAt(base), NEW w \in Workers, PollSelect(w)
  PROVE  Good(base)
  <1>0. /\ loop \in [Workers -> Loop] /\ loop[w] \in Loop
        /\ WorkerOK(base, loop[w])
        /\ loop[w].at \notin {"start", "stopped", "down"} => Mine(w) \in Subs
        /\ Ids = 1 .. Len(log) /\ Len(log) \in Nat /\ Len(log) <= MaxEvents
        /\ live \subseteq Ids /\ MaxEvents \in Nat /\ MaxRetries \in Nat
        /\ \A i : i \in live => i \in Nat /\ i >= 1 /\ i <= Len(log)
    BY WorkerFacts
  <1> USE <1>0
  <1>1. Mine(w) \in Subs /\ cursor[Mine(w)] \in {"active", "deregistered"}
        /\ loop[w].sub = Mine(w) /\ loop[w].at = "select"
    BY DEF WorkerOK, Attending, Mine, LoopLabels, Labels, PollSelect, At
  <1>2. PICK n \in Int : n = loop[w].floor /\ Passed(base, Mine(w), n)
    BY <1>1 DEF WorkerOK, Acking, Loop
  <1> DEFINE page == Page(Mine(w), n)
             l == [loop[w] EXCEPT !.batch = page, !.at = "next"]
  <1>3. page \subseteq live /\ \A j \in page : j > n
    BY DEF Page, Ahead
  <1>4. page \in SUBSET (1 .. MaxEvents)
    BY <1>3
  <1>5. l \in Loop /\ l.at = "next" /\ l.sub = Mine(w) /\ l.batch = page
    <2>1. "next" \in Labels
      BY DEF Labels
    <2> HIDE DEF page
    <2> QED
      BY <1>4, <2>1 DEF Loop, Mine
  <1>6. base[Mine(w)] \in Nat /\ base[Mine(w)] <= n
    BY <1>1, <1>2 DEF Passed
  <1>7. ASSUME NEW j \in page
        PROVE  /\ j \in Ids /\ base[Mine(w)] < j
               /\ \A i \in live : Matches(Mine(w), i) /\ base[Mine(w)] < i /\ i < j =>
                    Done(Mine(w), i) \/ i \in page
    <2>1. j \in Ids /\ base[Mine(w)] < j
      BY <1>3, <1>6
    <2>2. ASSUME NEW i \in live, Matches(Mine(w), i), base[Mine(w)] < i, i < j
          PROVE  Done(Mine(w), i) \/ i \in page
      <3>1. CASE i <= n
        BY <1>2, <2>2, <3>1 DEF Passed
      <3>2. CASE i > n
        <4>1. i \in Ahead(Mine(w), n) /\ Typed
          BY <2>2, <3>2 DEF Ahead, InvAt, RetentionInv
        <4> QED
          BY <2>2, <4>1, PageIsPrefix
      <3> QED
        BY <3>1, <3>2
    <2> QED
      BY <2>1, <2>2
  <1>8. Batching(base, l)
    BY <1>5, <1>7 DEF Batching
  <1>9. WorkerOK(base, l)
    BY <1>1, <1>5, <1>8 DEF WorkerOK, Acking, Attending, EventLabels
  <1>10. loop' = [loop EXCEPT ![w] = l] /\ LoopOnly
    BY <1>2 DEF PollSelect
  <1> QED
    BY <1>5, <1>9, <1>10, LoopOnlyGood DEF Moves

LEMMA TakeGood ==
  ASSUME NEW base \in [Subs -> Nat], InvAt(base), NEW w \in Workers, Take(w)
  PROVE  Good(base)
  <1>0. /\ loop \in [Workers -> Loop] /\ loop[w] \in Loop
        /\ WorkerOK(base, loop[w])
        /\ loop[w].at \notin {"start", "stopped", "down"} => Mine(w) \in Subs
        /\ Ids = 1 .. Len(log) /\ Len(log) \in Nat /\ Len(log) <= MaxEvents
        /\ live \subseteq Ids /\ MaxEvents \in Nat /\ MaxRetries \in Nat
        /\ \A i : i \in live => i \in Nat /\ i >= 1 /\ i <= Len(log)
    BY WorkerFacts
  <1> USE <1>0
  <1>1. Mine(w) \in Subs /\ cursor[Mine(w)] \in {"active", "deregistered"}
        /\ loop[w].sub = Mine(w) /\ loop[w].at = "next"
    BY DEF WorkerOK, Attending, Mine, LoopLabels, Labels, Take, At
  <1> DEFINE batch == loop[w].batch
             s == Mine(w)
  <1>2. PICK e \in batch :
          /\ \A j \in batch : e <= j
          /\ loop' = [loop EXCEPT ![w].event = e, ![w].batch = @ \ {e},
                                  ![w].tries = attempts[s][e], ![w].at = "handle"]
    BY DEF Take
  <1>3. /\ batch \subseteq 1 .. MaxEvents
        /\ \A j \in batch :
             /\ j \in Ids /\ base[s] < j
             /\ \A i \in live : Matches(s, i) /\ base[s] < i /\ i < j =>
                  Done(s, i) \/ i \in batch
    BY <1>1 DEF WorkerOK, Batching, Loop
  <1>4. attempts[s][e] \in 0 .. MaxRetries
    BY <1>1, <1>2, <1>3 DEF InvAt, Bounded
  <1>5. e \in Nat /\ e >= 1 /\ base[s] \in Nat /\ base[s] < e
    BY <1>1, <1>2, <1>3
  <1>6. Passed(base, s, e - 1)
    <2>1. base[s] <= e - 1
      BY <1>5
    <2>2. ASSUME NEW i \in live, Matches(s, i), base[s] < i, i <= e - 1
          PROVE  Done(s, i)
      <3>1. i < e
        BY <1>5, <2>2
      <3>2. i \notin batch
        BY <1>2, <1>5, <3>1
      <3> QED
        BY <1>2, <1>3, <2>2, <3>1, <3>2
    <2> QED
      BY <2>1, <2>2 DEF Passed
  <1> DEFINE l == [loop[w] EXCEPT !.event = e, !.batch = batch \ {e},
                                  !.tries = attempts[s][e], !.at = "handle"]
  <1>7. l.at = "handle" /\ l.sub = s /\ l.event = e /\ l.batch = batch \ {e}
        /\ l.tries = attempts[s][e]
    BY DEF Loop, Mine
  <1>8. l \in Loop
    <2>1. "handle" \in Labels /\ attempts[s][e] \in 0 .. MaxRetries + 1
          /\ e \in 0 .. MaxEvents /\ batch \ {e} \in SUBSET (1 .. MaxEvents)
      BY <1>2, <1>3, <1>4, <1>5 DEF Labels
    <2> QED
      BY <2>1 DEF Loop
  <1>9. Acking(base, l)
    BY <1>2, <1>3, <1>6, <1>7 DEF Acking
  <1>10. Batching(base, l)
    BY <1>2, <1>3, <1>7 DEF Batching
  <1>11. Attending(l)
    BY <1>1, <1>4, <1>7 DEF Attending
  <1>12. loop' = [loop EXCEPT ![w] = l] /\ LoopOnly
    BY <1>2 DEF Take
  <1> QED
    BY <1>8, <1>9, <1>10, <1>11, <1>12, LoopOnlyGood DEF Moves, WorkerOK

(* The labels of processEvent() share what they rely on.                   *)
LEMMA EventFacts ==
  ASSUME NEW base \in [Subs -> Nat], InvAt(base), NEW w \in Workers,
         loop[w].at \in EventLabels
  PROVE  /\ Mine(w) \in Subs /\ cursor[Mine(w)] \in {"active", "deregistered"}
         /\ loop[w].event \in Ids /\ loop[w].event \in 1 .. MaxEvents
         /\ Passed(base, Mine(w), loop[w].event - 1)
         /\ \A j \in loop[w].batch :
              /\ j \in Ids /\ base[Mine(w)] < j
              /\ \A i \in live : Matches(Mine(w), i) /\ base[Mine(w)] < i /\ i < j =>
                   Done(Mine(w), i) \/ i \in loop[w].batch \/ i = loop[w].event
  <1>1. WorkerOK(base, loop[w])
    BY WorkerFacts
  <1>2. loop[w].at \in LoopLabels /\ loop[w].at # "next"
    BY DEF EventLabels, LoopLabels, Labels
  <1>3. Mine(w) \in Subs /\ cursor[Mine(w)] \in {"active", "deregistered"}
    BY <1>1, <1>2 DEF WorkerOK, Attending, Mine, LoopLabels
  <1>4. loop[w].event \in Ids /\ Passed(base, Mine(w), loop[w].event - 1)
    BY <1>1 DEF WorkerOK, Acking, Mine
  <1>5. loop[w].event \in 1 .. MaxEvents
    BY <1>4, WorkerFacts
  <1> QED
    BY <1>1, <1>2, <1>3, <1>4, <1>5 DEF WorkerOK, Batching, Mine

(* Another label of processEvent(), or another count, for the same event.  *)
LEMMA SameEventOK ==
  ASSUME NEW base \in [Subs -> Nat], InvAt(base), NEW w \in Workers,
         loop[w].at \in EventLabels, NEW l \in Loop,
         l.at \in EventLabels, l.sub = Mine(w), l.event = loop[w].event,
         l.batch = loop[w].batch,
         l.at \in {"unretry", "ack"} => <<Mine(w), loop[w].event>> \in handled,
         l.at \in {"buryClean", "buryAck"} => <<Mine(w), loop[w].event>> \in buried,
         l.at \in {"handle", "unretry", "ack", "retry", "sleep"} => l.tries <= MaxRetries,
         l.at = "retry" => l.tries >= 1
  PROVE  WorkerOK(base, l)
  <1> USE EventFacts
  <1>1. Acking(base, l)
    BY DEF Acking, EventLabels
  <1>2. Batching(base, l)
    <2>1. l.at # "next"
      BY DEF EventLabels
    <2> QED
      BY <2>1 DEF Batching
  <1>3. Attending(l)
    BY DEF Attending, EventLabels
  <1> QED
    BY <1>1, <1>2, <1>3 DEF WorkerOK

LEMMA CaughtMoves ==
  ASSUME NEW base \in [Subs -> Nat], InvAt(base), NEW w \in Workers,
         loop[w].at \in {"handle", "unretry", "ack"}, Caught(w)
  PROVE  Moves(base, w)
  <1> DEFINE label == IF loop[w].tries + 1 > MaxRetries THEN "bury" ELSE "retry"
             l == [loop[w] EXCEPT !.tries = @ + 1, !.at = label]
  <1>1. loop[w] \in Loop /\ MaxRetries \in Nat /\ WorkerOK(base, loop[w])
    BY WorkerFacts
  <1>2. loop[w].tries \in 0 .. MaxRetries /\ loop[w].at \in EventLabels
    BY <1>1 DEF WorkerOK, Attending, Loop, EventLabels
  <1>3. label \in Labels /\ label \in EventLabels
    BY DEF Labels, EventLabels
  <1>4. /\ l.at = label /\ l.sub = Mine(w) /\ l.event = loop[w].event
        /\ l.batch = loop[w].batch /\ l.tries = loop[w].tries + 1
    BY <1>1 DEF Loop, Mine
  <1>5. loop[w].tries + 1 \in 0 .. MaxRetries + 1
    BY <1>1, <1>2
  <1>6. l \in Loop
    BY <1>1, <1>3, <1>5 DEF Loop
  <1>7. label = "retry" => loop[w].tries + 1 <= MaxRetries /\ loop[w].tries + 1 >= 1
    BY <1>1, <1>2
  <1>8. label \in {"bury", "retry"}
    OBVIOUS
  <1>9. WorkerOK(base, l)
    <2>1. /\ l.at \notin {"unretry", "ack", "buryClean", "buryAck", "handle", "sleep"}
          /\ l.at = "retry" => l.tries <= MaxRetries /\ l.tries >= 1
      BY <1>4, <1>7, <1>8
    <2> QED
      BY <1>2, <1>3, <1>4, <1>6, <2>1, SameEventOK
  <1>10. loop' = [loop EXCEPT ![w] = l]
    BY WorkerFacts DEF Caught
  <1> QED
    BY <1>6, <1>9, <1>10 DEF Moves

LEMMA AwakeGood ==
  ASSUME NEW base \in [Subs -> Nat], InvAt(base), NEW w \in Workers, Awake(w)
  PROVE  Good(base)
  <1> DEFINE label == IF loop[w].halting THEN "bury" ELSE "handle"
             l == [loop[w] EXCEPT !.at = label]
  <1>1. /\ loop \in [Workers -> Loop] /\ loop[w] \in Loop /\ WorkerOK(base, loop[w])
        /\ loop[w].at = "sleep" /\ loop[w].at \in EventLabels
    BY WorkerFacts DEF Awake, At, EventLabels
  <1>2. label \in {"bury", "handle"} /\ label \in Labels /\ label \in EventLabels
    BY DEF Labels, EventLabels
  <1>3. /\ l \in Loop /\ l.at = label /\ l.sub = Mine(w) /\ l.event = loop[w].event
        /\ l.batch = loop[w].batch /\ l.tries = loop[w].tries
    BY <1>1, <1>2 DEF Loop, Mine
  <1>4. loop[w].tries <= MaxRetries
    BY <1>1 DEF WorkerOK, Attending
  <1>5. WorkerOK(base, l)
    BY <1>1, <1>2, <1>3, <1>4, SameEventOK
  <1>6. Goto(w, label) /\ LoopOnly
    BY DEF Awake
  <1> QED
    BY <1>1, <1>2, <1>5, <1>6, GotoMoves, LoopOnlyGood

LEMMA HandlerThrowsGood ==
  ASSUME NEW base \in [Subs -> Nat], InvAt(base), NEW w \in Workers, HandlerThrows(w)
  PROVE  Good(base)
  <1>1. loop[w].at = "handle" /\ loop[w].at \in EventLabels /\ Caught(w)
    BY DEF HandlerThrows, At, EventLabels
  <1>2. Mine(w) \in Subs /\ loop[w].event \in 1 .. MaxEvents
    BY <1>1, EventFacts
  <1>3. failures' \in [Subs -> [1 .. MaxEvents -> 0 .. MaxRetries + 1]]
    <2> DEFINE n == failures[Mine(w)][loop[w].event]
               m == IF n > MaxRetries THEN n ELSE n + 1
    <2>1. failures \in [Subs -> [1 .. MaxEvents -> 0 .. MaxRetries + 1]] /\ MaxRetries \in Nat
      BY WorkerFacts DEF InvAt, SubscriberTypeOK
    <2>2. n \in 0 .. MaxRetries + 1
      BY <1>2, <2>1
    <2>3. m \in 0 .. MaxRetries + 1
      BY <2>1, <2>2
    <2>4. failures' = [failures EXCEPT ![Mine(w)][loop[w].event] = m]
      BY <1>2, <2>1 DEF HandlerThrows
    <2> HIDE DEF m
    <2> QED
      BY <1>2, <2>1, <2>3, <2>4
  <1>4. RowsTyped'
    BY <1>3 DEF RowsTyped, HandlerThrows, InvAt, SubscriberTypeOK
  <1>5. Moves(base, w)
    BY <1>1, CaughtMoves
  <1> QED
    BY <1>4, <1>5, LocalKeeps DEF HandlerThrows

(* A row of dead_letters is written once and only changes its state.       *)
LEMMA LetterChange ==
  ASSUME SubscriberTypeOK, NEW d \in DOMAIN dlq, NEW to \in {"kept", "asked", "gone"},
         dlq' = [dlq EXCEPT ![d].state = to]
  PROVE  dlq' \in Seq(Letter) /\ DOMAIN dlq' = DOMAIN dlq
  <1>1. dlq \in Seq(Letter) /\ dlq[d] \in Letter
    BY DEF SubscriberTypeOK
  <1>2. PICK r \in Letter : r = [dlq[d] EXCEPT !.state = to]
    BY <1>1 DEF Letter
  <1>3. dlq' = [dlq EXCEPT ![d] = r]
    BY <1>1, <1>2
  <1> QED
    BY <1>1, <1>3

LEMMA ReplayRowGood ==
  ASSUME NEW base \in [Subs -> Nat], InvAt(base), NEW w \in Workers,
         ReplayDelete(w) \/ ReplayKeep(w)
  PROVE  Good(base)
  <1>1. loop[w].at \in {"replayDelete", "replayKeep"} /\ WorkerOK(base, loop[w])
        /\ SubscriberTypeOK
    BY WorkerFacts DEF ReplayDelete, ReplayKeep, At, InvAt
  <1>2. loop[w].letter \in DOMAIN dlq /\ loop[w].at \in LoopLabels
    BY <1>1 DEF WorkerOK, Attending, LoopLabels, Labels
  <1>3. dlq' \in Seq(Letter) /\ DOMAIN dlq' = DOMAIN dlq
    <2>1. CASE ReplayDelete(w)
      BY <1>1, <1>2, <2>1, LetterChange DEF ReplayDelete
    <2>2. CASE ReplayKeep(w)
      <3> DEFINE d == loop[w].letter
      <3>1. PICK to \in {"kept", "asked", "gone"} :
              to = IF dlq[d].state = "gone" THEN dlq[d].state ELSE "kept"
        OBVIOUS
      <3>2. dlq' = [dlq EXCEPT ![d].state = to]
        BY <1>2, <2>2, <3>1 DEF ReplayKeep
      <3> QED
        BY <1>1, <1>2, <3>2, LetterChange
    <2> QED
      BY <2>1, <2>2
  <1>4. RowsTyped' /\ UNCHANGED <<vars, handled, buried>>
    BY <1>3 DEF RowsTyped, ReplayDelete, ReplayKeep, ghosts, InvAt, SubscriberTypeOK
  <1>5. PICK label \in Quiet : Goto(w, label)
    BY EndTickQuiet DEF ReplayDelete, ReplayKeep, Quiet
  <1>6. Moves(base, w)
    BY <1>2, <1>5, QuietMoves
  <1> QED
    BY <1>3, <1>4, <1>6, LocalKeeps

LEMMA SpendTyped ==
  ASSUME SubscriberTypeOK, NEW kind \in DOMAIN Budget, kind # "any",
         "any" \in DOMAIN Budget, Spend(kind)
  PROVE  spent' \in [DOMAIN Budget -> Nat]
  <1>1. spent \in [DOMAIN Budget -> Nat]
    BY DEF SubscriberTypeOK
  <1>2. PICK n \in Nat : n = spent[kind] + 1
    BY <1>1
  <1>3. PICK f \in [DOMAIN Budget -> Nat] : f = [spent EXCEPT ![kind] = n]
    BY <1>1
  <1>4. PICK m \in Nat : m = spent["any"] + 1
    BY <1>1
  <1>5. spent' = [f EXCEPT !["any"] = m]
    BY <1>1, <1>2, <1>3, <1>4 DEF Spend
  <1> QED
    BY <1>3, <1>5

LEMMA DisturbGood ==
  ASSUME NEW base \in [Subs -> Nat], InvAt(base), NEW w \in Workers, Disturb(w)
  PROVE  Good(base)
  <1>1. /\ loop \in [Workers -> Loop] /\ loop[w] \in Loop /\ WorkerOK(base, loop[w])
        /\ SubscriberTypeOK
    BY WorkerFacts DEF InvAt
  <1>2. /\ spent' \in [DOMAIN Budget -> Nat] /\ UNCHANGED <<vars, dlq, ghosts>>
    <2>1. /\ {"crash", "dberror", "stop", "any"} \subseteq DOMAIN Budget
      BY SubscriberAssumption
    <2>2. PICK kind \in {"crash", "dberror", "stop"} : Spend(kind)
      BY DEF Disturb, DbError, Stop, Crash
    <2> QED
      BY <1>1, <2>1, <2>2, SpendTyped DEF Disturb, DbError, Stop, Crash
  <1>3. RowsTyped' /\ UNCHANGED <<vars, handled, buried>>
    BY <1>2 DEF RowsTyped, ghosts, InvAt, SubscriberTypeOK
  <1>4. ASSUME NEW label \in Labels, Goto(w, label),
               WorkerOK(base, [loop[w] EXCEPT !.at = label])
        PROVE  Moves(base, w)
    BY <1>1, <1>4, GotoMoves
  <1>5. ASSUME loop' = [loop EXCEPT ![w] = Halted("down")] PROVE Moves(base, w)
    <2> DEFINE l == Halted("down")
    <2>1. l \in Loop /\ l.at = "down"
      BY WorkerFacts DEF Loop, Labels, Halted
    <2>2. WorkerOK(base, l)
      BY <2>1 DEF WorkerOK, Acking, Batching, Attending, EventLabels, LoopLabels
    <2> QED
      BY <1>5, <2>1, <2>2 DEF Moves
  <1>6. CASE DbError(w)
    <2>1. ASSUME loop[w].at \in {"unretry", "ack"}, Caught(w)
          PROVE  Moves(base, w)
      BY <2>1, CaughtMoves
    <2>2. ASSUME At(w, "replayDelete"), Goto(w, "replayKeep")
          PROVE  Moves(base, w)
      <3> DEFINE l == [loop[w] EXCEPT !.at = "replayKeep"]
      <3>1. l.at = "replayKeep" /\ l.sub = loop[w].sub /\ l.letter = loop[w].letter
            /\ loop[w].at = "replayDelete"
        BY <1>1, <2>2 DEF Loop, At
      <3>2. WorkerOK(base, l)
        BY <1>1, <3>1 DEF WorkerOK, Acking, Batching, Attending, EventLabels, LoopLabels, Labels
      <3> QED
        BY <1>4, <2>2, <3>2 DEF Labels
    <2>3. ASSUME loop[w].at \in LoopLabels, Goto(w, EndTick(w))
          PROVE  Moves(base, w)
      BY <2>3, EndTickQuiet, QuietMoves
    <2>4. Moves(base, w)
      BY <1>5, <1>6, <2>1, <2>2, <2>3 DEF DbError, At, LoopLabels, Labels
    <2> QED
      BY <1>2, <1>3, <2>4, LocalKeeps
  <1>7. CASE Crash(w)
    BY <1>2, <1>3, <1>5, <1>7, LocalKeeps DEF Crash
  <1>8. CASE Stop(w)
    <2> DEFINE at == loop[w].at
               label == IF at = "idle" THEN "stopped" ELSE IF at = "sleep" THEN "bury" ELSE at
               l == [loop[w] EXCEPT !.halting = TRUE, !.at = label]
    <2>1. at \in {"idle", "replay", "handle", "next", "sleep"}
      BY <1>8 DEF Stop
    <2>2. label \in Labels
      BY <2>1 DEF Labels
    <2>3. /\ l \in Loop /\ l.at = label /\ l.sub = loop[w].sub /\ l.event = loop[w].event
          /\ l.batch = loop[w].batch /\ l.tries = loop[w].tries /\ l.letter = loop[w].letter
      BY <1>1, <2>2 DEF Loop
    <2>4. WorkerOK(base, l)
      <3>1. CASE at = "idle"
        BY <2>3, <3>1 DEF WorkerOK, Acking, Batching, Attending, EventLabels, LoopLabels
      <3>2. CASE at \in {"handle", "sleep"}
        <4>1. label \in {"handle", "bury"} /\ label \in EventLabels /\ at \in EventLabels
          BY <3>2 DEF EventLabels
        <4>2. loop[w].tries <= MaxRetries
          BY <1>1, <3>2 DEF WorkerOK, Attending
        <4>3. l.sub = Mine(w)
          BY <2>3 DEF Mine
        <4> HIDE DEF label, l
        <4>4. l.at \notin {"unretry", "ack", "retry", "buryClean", "buryAck"}
          BY <2>3, <4>1
        <4> QED
          BY <2>3, <4>1, <4>2, <4>3, <4>4, SameEventOK
      <3>3. CASE at \in {"replay", "next"}
        <4>1. label = at
          BY <3>3
        <4> QED
          BY <1>1, <2>3, <3>3, <4>1 DEF WorkerOK, Acking, Batching, Attending, EventLabels
      <3> QED
        BY <2>1, <3>1, <3>2, <3>3
    <2>5. loop' = [loop EXCEPT ![w] = l]
      BY <1>1, <1>8 DEF Stop
    <2>6. Moves(base, w)
      BY <2>3, <2>4, <2>5 DEF Moves
    <2> QED
      BY <1>2, <1>3, <2>6, LocalKeeps
  <1> QED
    BY <1>6, <1>7, <1>8 DEF Disturb

--------------------------------------------------------------------------------
(* The steps that settle an event.                                         *)
LEMMA SettlingKeeps ==
  ASSUME NEW base \in [Subs -> Nat], InvAt(base), NEW w \in Workers, Arrives(base, w),
         UNCHANGED vars, handled \subseteq handled', buried \subseteq buried',
         RowsTyped', DOMAIN dlq \subseteq DOMAIN dlq'
  PROVE  InvAt(base)' /\ [Next]_vars
  <1>1. /\ [Next]_vars
        /\ UNCHANGED <<clock, log, live, released, archived, acceptedAt, reported,
                       step, draft, sub, cursor, pos, reset, attempts, due>>
    BY StoreStutters
  <1>2. Typed /\ Typed' /\ Bounded /\ AcksPassed(base)
    BY <1>1, RetentionNext DEF InvAt, RetentionInv, Tracked
  <1>3. Grows
    BY <1>1 DEF Grows, Ids
  <1>4. Bounded'
    BY <1>1, <1>2 DEF Bounded, ActiveConsumer, Ahead, Matches
  <1>5. AcksPassed(base)'
    BY <1>1, <1>2, <1>3, AcksStay
  <1> QED
    BY <1>1, <1>3, <1>4, <1>5, WorkerKeeps

LEMMA PromiseHandles ==
  ASSUME UNCHANGED vars, NEW s \in Subs, NEW i \in 1 .. MaxEvents,
         \/ handled' = handled \cup {<<s, i>>} /\ buried' = buried
         \/ buried' = buried \cup {<<s, i>>} /\ handled' = handled
  PROVE  ALO!Next
  <1>1. UNCHANGED <<due, Ids, live, sub, reset>>
    BY StoreStutters DEF Ids
  <1>2. ALO!Handle(s, i) \/ ALO!Bury(s, i)
    BY <1>1 DEF ALO!Handle, ALO!Bury, ALO!requests
  <1> QED
    BY <1>2 DEF ALO!Next

LEMMA HandlerReturnsGood ==
  ASSUME NEW base \in [Subs -> Nat], InvAt(base), NEW w \in Workers, HandlerReturns(w)
  PROVE  Good(base)
  <1>1. /\ loop \in [Workers -> Loop] /\ loop[w] \in Loop /\ WorkerOK(base, loop[w])
        /\ loop[w].at = "handle" /\ loop[w].at \in EventLabels /\ Typed
    BY WorkerFacts DEF HandlerReturns, At, EventLabels, InvAt, RetentionInv
  <1>2. PICK k \in Loop : k = loop[w]
    BY <1>1
  <1>3. PICK l \in Loop : l = [k EXCEPT !.at = "unretry"]
    BY DEF Loop, Labels
  <1>4. /\ k.sub \in Subs /\ k.event \in 1 .. MaxEvents
        /\ k.sub = Mine(w)
    BY <1>1, <1>2, EventFacts DEF Mine
  <1>5. /\ handled' = handled \cup {<<k.sub, k.event>>} /\ buried' = buried
        /\ loop' = [loop EXCEPT ![w] = l]
        /\ UNCHANGED <<vars, dlq, spent, buried, failures>>
    BY <1>1, <1>2, <1>3, <1>4 DEF HandlerReturns, Goto
  <1>6. UNCHANGED <<log, live, cursor>> /\ Typed'
    BY <1>1, <1>5, StoreStutters, RetentionNext DEF InvAt, RetentionInv
  <1>7. Grows
    BY <1>5, <1>6 DEF Grows, Ids
  <1>8. WorkerOK(base, k)'
    BY <1>1, <1>2, <1>6, <1>7, WorkerStays
  <1>9. /\ l.at = "unretry" /\ l.sub = k.sub /\ l.event = k.event /\ l.batch = k.batch
        /\ l.tries = k.tries /\ k.at = "handle"
    BY <1>1, <1>2, <1>3 DEF Loop
  <1>10. WorkerOK(base, l)'
    <2>1. Acking(base, l)'
      BY <1>5, <1>8, <1>9 DEF WorkerOK, Acking, EventLabels
    <2>2. Batching(base, l)'
      BY <1>8, <1>9 DEF WorkerOK, Batching, EventLabels
    <2>3. Attending(l)'
      BY <1>8, <1>9 DEF WorkerOK, Attending, LoopLabels, Labels
    <2> QED
      BY <2>1, <2>2, <2>3 DEF WorkerOK
  <1>11. Arrives(base, w)
    BY <1>5, <1>10 DEF Arrives
  <1>12. RowsTyped'
    BY <1>4, <1>5 DEF RowsTyped, InvAt, SubscriberTypeOK
  <1>13. InvAt(base)' /\ [Next]_vars
    BY <1>5, <1>11, <1>12, SettlingKeeps
  <1>14. ALO!Next
    BY <1>4, <1>5, PromiseHandles
  <1> QED
    BY <1>13, <1>14 DEF Good

LEMMA ReplayReturnsGood ==
  ASSUME NEW base \in [Subs -> Nat], InvAt(base), NEW w \in Workers, ReplayReturns(w)
  PROVE  Good(base)
  <1>1. /\ loop \in [Workers -> Loop] /\ loop[w] \in Loop /\ WorkerOK(base, loop[w])
        /\ loop[w].at = "replay" /\ Typed
    BY WorkerFacts DEF ReplayReturns, At, InvAt, RetentionInv
  <1>2. PICK l \in Loop : l = [loop[w] EXCEPT !.at = "replayDelete"]
    BY <1>1 DEF Loop, Labels
  <1>3. l.at = "replayDelete" /\ l.sub = Mine(w) /\ l.letter = loop[w].letter
    BY <1>1, <1>2 DEF Loop, Mine
  <1>4. /\ l.sub \in Subs /\ cursor[l.sub] \in {"active", "deregistered"}
        /\ l.letter \in DOMAIN dlq
    BY <1>1, <1>3 DEF WorkerOK, Attending, LoopLabels, Labels, Mine
  <1>5. PICK e \in 1 .. MaxEvents : e = dlq[l.letter].event
    <2>1. dlq \in Seq(Letter)
      BY DEF InvAt, SubscriberTypeOK
    <2>2. dlq[l.letter] \in Letter
      BY <1>4, <2>1
    <2> QED
      BY <2>2 DEF Letter
  <1>6. /\ handled' = handled \cup {<<l.sub, e>>} /\ buried' = buried
        /\ loop' = [loop EXCEPT ![w] = l]
        /\ UNCHANGED <<vars, dlq, spent, buried, failures>>
    BY <1>1, <1>2, <1>3, <1>5 DEF ReplayReturns, Goto
  <1>7. UNCHANGED <<log, live, cursor>> /\ Typed'
    BY <1>1, <1>6, StoreStutters, RetentionNext DEF InvAt, RetentionInv
  <1>8. WorkerOK(base, l)'
    BY <1>3, <1>4, <1>6, <1>7 DEF WorkerOK, Acking, Batching, Attending, EventLabels
  <1>9. Arrives(base, w)
    BY <1>6, <1>8 DEF Arrives
  <1>10. RowsTyped'
    BY <1>4, <1>6 DEF RowsTyped, InvAt, SubscriberTypeOK
  <1>11. InvAt(base)' /\ [Next]_vars
    BY <1>6, <1>9, <1>10, SettlingKeeps
  <1>12. ALO!Next
    BY <1>4, <1>6, PromiseHandles
  <1> QED
    BY <1>11, <1>12 DEF Good

LEMMA BuryGood ==
  ASSUME NEW base \in [Subs -> Nat], InvAt(base), NEW w \in Workers, Bury(w)
  PROVE  Good(base)
  <1>1. /\ loop \in [Workers -> Loop] /\ loop[w] \in Loop /\ WorkerOK(base, loop[w])
        /\ loop[w].at = "bury" /\ loop[w].at \in EventLabels /\ Typed
    BY WorkerFacts DEF Bury, At, EventLabels, InvAt, RetentionInv
  <1>2. PICK k \in Loop : k = loop[w]
    BY <1>1
  <1>3. PICK l \in Loop : l = [k EXCEPT !.at = "buryClean"]
    BY DEF Loop, Labels
  <1>4. k.sub \in Subs /\ k.event \in 1 .. MaxEvents /\ k.sub = Mine(w)
    BY <1>1, <1>2, EventFacts DEF Mine
  <1>5. PICK r \in Letter : dlq' = Append(dlq, r)
    <2>1. PICK why \in {"exhausted", "shutdown"} :
            why = IF loop[w].tries > MaxRetries THEN "exhausted" ELSE "shutdown"
      OBVIOUS
    <2> DEFINE r == [sub |-> Mine(w), event |-> loop[w].event, state |-> "kept",
                     reason |-> why]
    <2>2. r \in Letter
      BY <1>2, <1>4 DEF Letter
    <2>3. dlq' = Append(dlq, r)
      BY <2>1 DEF Bury
    <2> QED
      BY <2>2, <2>3
  <1>6. /\ buried' = buried \cup {<<k.sub, k.event>>} /\ handled' = handled
        /\ loop' = [loop EXCEPT ![w] = l]
        /\ UNCHANGED <<vars, spent, handled, failures>>
    BY <1>1, <1>2, <1>3, <1>4 DEF Bury, Goto
  <1>7. dlq' \in Seq(Letter) /\ DOMAIN dlq \subseteq DOMAIN dlq'
    BY <1>5 DEF InvAt, SubscriberTypeOK
  <1>8. UNCHANGED <<log, live, cursor>> /\ Typed'
    BY <1>1, <1>6, StoreStutters, RetentionNext DEF InvAt, RetentionInv
  <1>9. Grows
    BY <1>6, <1>7, <1>8 DEF Grows, Ids
  <1>10. WorkerOK(base, k)'
    BY <1>1, <1>2, <1>8, <1>9, WorkerStays
  <1>11. /\ l.at = "buryClean" /\ l.sub = k.sub /\ l.event = k.event /\ l.batch = k.batch
         /\ k.at = "bury"
    BY <1>1, <1>2, <1>3 DEF Loop
  <1>12. WorkerOK(base, l)'
    <2>1. Acking(base, l)'
      BY <1>6, <1>10, <1>11 DEF WorkerOK, Acking, EventLabels
    <2>2. Batching(base, l)'
      BY <1>10, <1>11 DEF WorkerOK, Batching, EventLabels
    <2>3. Attending(l)'
      BY <1>10, <1>11 DEF WorkerOK, Attending, LoopLabels, Labels
    <2> QED
      BY <2>1, <2>2, <2>3 DEF WorkerOK
  <1>13. Arrives(base, w)
    BY <1>6, <1>12 DEF Arrives
  <1>14. RowsTyped'
    BY <1>4, <1>6, <1>7 DEF RowsTyped, InvAt, SubscriberTypeOK
  <1>15. InvAt(base)' /\ [Next]_vars
    BY <1>6, <1>7, <1>13, <1>14, SettlingKeeps
  <1>16. ALO!Next
    BY <1>4, <1>6, PromiseHandles
  <1> QED
    BY <1>15, <1>16 DEF Good

--------------------------------------------------------------------------------
(* The steps of a worker that write to the store.                          *)
LEMMA StoreKeeps ==
  ASSUME NEW base \in [Subs -> Nat], InvAt(base), NEW w \in Workers, Moves(base, w),
         StoreToo, [Next]_vars, Grows, Bounded', AcksPassed(base)'
  PROVE  InvAt(base)'
  <1>1. RowsTyped'
    BY DEF StoreToo, RowsTyped, ghosts, InvAt, SubscriberTypeOK
  <1>2. Typed /\ Typed'
    BY RetentionNext DEF InvAt, RetentionInv
  <1> QED
    BY <1>1, <1>2, MovesArrives, WorkerKeeps

(* A retry counter is nobody's claim.                                      *)
LEMMA CounterGood ==
  ASSUME NEW base \in [Subs -> Nat], InvAt(base), NEW w \in Workers,
         NEW s \in Subs, NEW i \in Ids, i \in 1 .. MaxEvents, NEW n \in 0 .. MaxRetries,
         \/ n \in 1 .. MaxRetries /\ UpsertAttempt(s, i, n)
         \/ n = 0 /\ DeleteAttempt(s, i),
         StoreToo, Moves(base, w)
  PROVE  Good(base)
  <1>1. Consume(s) /\ Next
    BY DEF Consume, Next
  <1>2. /\ UNCHANGED <<clock, log, live, released, archived, acceptedAt, reported,
                       sub, cursor, pos, reset, due, handled, buried, dlq>>
        /\ attempts' = [attempts EXCEPT ![s][i] = n]
    BY DEF UpsertAttempt, DeleteAttempt, tables, StoreToo, ghosts
  <1>3. Typed /\ Typed' /\ Bounded /\ AcksPassed(base)
    BY <1>1, RetentionNext DEF InvAt, RetentionInv, Tracked
  <1>4. Grows
    BY <1>2 DEF Grows, Ids
  <1>5. attempts' \in [Subs -> [1 .. MaxEvents -> 0 .. MaxRetries]]
    BY <1>2, <1>3 DEF Bounded
  <1>6. Bounded'
    BY <1>2, <1>3, <1>5 DEF Bounded, ActiveConsumer, Ahead, Matches
  <1>7. AcksPassed(base)'
    BY <1>2, <1>3, <1>4, AcksStay
  <1>8. InvAt(base)'
    BY <1>1, <1>4, <1>6, <1>7, StoreKeeps
  <1>9. UNCHANGED ALO!vars
    BY <1>2, PromiseStutters
  <1> QED
    BY <1>1, <1>8, <1>9 DEF Good

LEMMA CounterStepsGood ==
  ASSUME NEW base \in [Subs -> Nat], InvAt(base), NEW w \in Workers,
         Unretry(w) \/ Retry(w) \/ BuryClean(w)
  PROVE  Good(base)
  <1>1. /\ loop \in [Workers -> Loop] /\ loop[w] \in Loop /\ WorkerOK(base, loop[w])
        /\ loop[w].at \in {"unretry", "retry", "buryClean"} /\ loop[w].at \in EventLabels
        /\ MaxRetries \in Nat
    BY WorkerFacts DEF Unretry, Retry, BuryClean, At, EventLabels
  <1>2. Mine(w) \in Subs /\ loop[w].event \in Ids /\ loop[w].event \in 1 .. MaxEvents
    BY <1>1, EventFacts
  <1>3. ASSUME NEW label \in {"ack", "sleep", "buryAck"}, Goto(w, label),
               label = "ack" => loop[w].at = "unretry",
               label = "sleep" => loop[w].at = "retry",
               label = "buryAck" => loop[w].at = "buryClean"
        PROVE  Moves(base, w)
    <2>1. PICK l \in Loop : l = [loop[w] EXCEPT !.at = label]
      BY <1>1, <1>3 DEF Loop, Labels
    <2>2. /\ l.at = label /\ l.sub = Mine(w) /\ l.event = loop[w].event
          /\ l.batch = loop[w].batch /\ l.tries = loop[w].tries
      BY <1>1, <2>1 DEF Loop, Mine
    <2>3. /\ label \in {"unretry", "ack"} => <<Mine(w), loop[w].event>> \in handled
          /\ label \in {"buryClean", "buryAck"} => <<Mine(w), loop[w].event>> \in buried
      BY <1>1, <1>3 DEF WorkerOK, Acking, Mine
    <2>4. label \in {"handle", "unretry", "ack", "retry", "sleep"} =>
            loop[w].tries <= MaxRetries
      BY <1>1, <1>3 DEF WorkerOK, Attending
    <2>5. label # "retry" /\ label \in EventLabels /\ label \in Labels
      BY <1>3 DEF EventLabels, Labels
    <2>6. WorkerOK(base, l)
      BY <1>1, <2>2, <2>3, <2>4, <2>5, SameEventOK
    <2> QED
      BY <1>1, <1>3, <2>1, <2>5, <2>6, GotoMoves
  <1>4. CASE Unretry(w)
    <2>1. Moves(base, w)
      BY <1>3, <1>4 DEF Unretry, At
    <2> QED
      BY <1>1, <1>2, <1>4, <2>1, CounterGood DEF Unretry
  <1>5. CASE BuryClean(w)
    <2>1. Moves(base, w)
      BY <1>3, <1>5 DEF BuryClean, At
    <2> QED
      BY <1>1, <1>2, <1>5, <2>1, CounterGood DEF BuryClean
  <1>6. CASE Retry(w)
    <2>1. Moves(base, w)
      BY <1>3, <1>6 DEF Retry, At
    <2>2. PICK n \in 1 .. MaxRetries : n = loop[w].tries
      BY <1>1, <1>6 DEF Retry, At, WorkerOK, Attending, Loop
    <2> QED
      BY <1>1, <1>2, <1>6, <2>1, <2>2, CounterGood DEF Retry
  <1> QED
    BY <1>4, <1>5, <1>6

(* An ack settles what it passes, or claims again what it moves behind.    *)
LEMMA PromiseAcks ==
  ASSUME NEW base \in [Subs -> Nat], InvAt(base), NEW s \in Subs, NEW n \in 0 .. Len(log),
         Passed(base, s, n), Ack(s, n), UNCHANGED <<handled, buried>>
  PROVE  [ALO!Next]_(ALO!vars)
  <1>1. /\ Typed /\ Claims /\ Bounded /\ AcksPassed(base)
        /\ Ids = 1 .. Len(log) /\ Len(log) \in Nat /\ Len(log) <= MaxEvents
        /\ MaxEvents \in Nat
    BY IdsAreOneToLen, StoreAssumption DEF InvAt, RetentionInv, Tracked, Bounded
  <1>2. /\ UNCHANGED <<log, live, sub, cursor, reset>> /\ cursor[s] = "active"
        /\ due' = [due EXCEPT ![s] =
             IF ActiveConsumer(s) THEN {i \in due[s] : i > n} \cup Ahead(s, n) ELSE {}]
    BY <1>1 DEF Ack, MoveCursor, tables
  <1>3. /\ due \in [Subs -> SUBSET Ids] /\ live \subseteq Ids /\ due[s] \subseteq Ids
        /\ pos[s] \in Int /\ base[s] \in Nat /\ base[s] <= pos[s] /\ n \in Int
        /\ \A i \in Ids : i \in Int
    BY <1>1, <1>2 DEF Typed, TypeOK, AcksPassed, Passed
  <1>4. CASE ~ActiveConsumer(s)
    <2>1. due[s] = {}
      BY <1>1, <1>4 DEF Claims
    <2>2. due' = due
      BY <1>2, <1>3, <1>4, <2>1
    <2> QED
      BY <1>2, <2>2, PromiseStutters
  <1>5. CASE ActiveConsumer(s) /\ n < pos[s]
    <2> DEFINE more == [r \in Subs |-> IF r = s THEN Ahead(s, n) ELSE {}]
    <2>1. Ahead(s, n) \subseteq 1 .. MaxEvents
      <3>1. Ahead(s, n) \subseteq Ids
        BY <1>3 DEF Ahead
      <3> QED
        BY <1>1, <3>1
    <2>2. \A i \in due[s] : i > n
      BY <1>1, <1>3, <1>5 DEF Claims
    <2>3. more \in [Subs -> SUBSET (1 .. MaxEvents)]
      BY <2>1
    <2>4. due'[s] = due[s] \cup Ahead(s, n)
      BY <1>2, <1>3, <1>5, <2>2
    <2>5. due' = [r \in Subs |-> due[r] \cup more[r]]
      BY <1>2, <1>3, <2>4
    <2>6. ALO!Claim
      BY <1>2, <2>3, <2>5 DEF ALO!Claim, ALO!requests, Ids
    <2> QED
      BY <2>6 DEF ALO!Next
  <1>6. CASE ActiveConsumer(s) /\ n >= pos[s]
    <2> DEFINE done == {i \in due[s] : i <= n}
    <2>1. Ahead(s, n) \subseteq Ahead(s, pos[s])
      BY <1>3, <1>6 DEF Ahead
    <2>2. Ahead(s, n) \subseteq due[s] /\ \A i \in Ahead(s, n) : i > n
      BY <1>1, <1>6, <2>1 DEF Bounded, Ahead
    <2>3. due'[s] = due[s] \ done
      BY <1>2, <1>3, <1>6, <2>2
    <2>4. due' = [due EXCEPT ![s] = @ \ done]
      BY <1>2, <1>3, <2>3
    <2>5. ASSUME NEW i \in done PROVE ALO!Settled(s, i)
      <3>1. Matches(s, i) /\ i > pos[s] /\ i \in Ids /\ i <= n
        BY <1>1, <1>3 DEF Claims
      <3>2. base[s] < i
        BY <1>3, <3>1
      <3>3. i \in live => Done(s, i)
        BY <3>1, <3>2 DEF Passed
      <3> QED
        BY <3>1, <3>3 DEF ALO!Settled, Done
    <2>6. ALO!Settle(s)
      <3>1. done \in SUBSET due[s]
        OBVIOUS
      <3>2. UNCHANGED <<handled, buried, Ids \ live, sub, reset>>
        BY <1>2 DEF Ids
      <3> HIDE DEF done
      <3> QED
        BY <2>4, <2>5, <3>1, <3>2 DEF ALO!Settle, ALO!requests
    <2> QED
      BY <2>6 DEF ALO!Next
  <1> QED
    BY <1>3, <1>4, <1>5, <1>6

LEMMA AckKeeps ==
  ASSUME NEW base \in [Subs -> Nat], InvAt(base), NEW s \in Subs, NEW n \in 0 .. Len(log),
         Passed(base, s, n), Ack(s, n), UNCHANGED <<handled, buried, dlq>>
  PROVE  [Next]_vars /\ Grows /\ Bounded' /\ AcksPassed(base)'
  <1>1. /\ Typed /\ Bounded /\ AcksPassed(base)
        /\ Ids = 1 .. Len(log) /\ Len(log) \in Nat /\ Len(log) <= MaxEvents
        /\ MaxEvents \in Nat
    BY IdsAreOneToLen, StoreAssumption DEF InvAt, RetentionInv, Tracked, Bounded
  <1>2. /\ UNCHANGED <<log, live, sub, cursor, reset, attempts>>
        /\ pos' = [pos EXCEPT ![s] = n]
        /\ due' = [due EXCEPT ![s] =
             IF ActiveConsumer(s) THEN {i \in due[s] : i > n} \cup Ahead(s, n) ELSE {}]
    BY <1>1 DEF Ack, MoveCursor, tables
  <1>3. Next
    <2>1. n \in 0 .. MaxEvents
      BY <1>1
    <2> QED
      BY <2>1 DEF Consume, Next
  <1>4. Grows
    BY <1>2 DEF Grows, Ids
  <1>5. due \in [Subs -> SUBSET Ids] /\ pos \in [Subs -> 0 .. Len(log)]
    BY <1>1 DEF Typed, TypeOK, Bounded
  <1>6. Bounded'
    <2>1. \A r \in Subs : ActiveConsumer(r)' => Ahead(r, pos'[r]) \subseteq due'[r]
      <3> SUFFICES ASSUME NEW r \in Subs, ActiveConsumer(r)
          PROVE  Ahead(r, pos'[r]) \subseteq due'[r]
        BY <1>2 DEF ActiveConsumer
      <3>1. CASE r = s
        BY <1>2, <1>5, <3>1
      <3>2. CASE r # s
        BY <1>1, <1>2, <1>5, <3>2 DEF Bounded
      <3> QED
        BY <3>1, <3>2
    <2>2. \A r \in Subs : ActiveConsumer(r)' => Ahead(r, pos[r])' \subseteq due'[r]
      BY <1>2, <2>1 DEF Ahead, Matches
    <2> QED
      BY <1>1, <1>2, <1>5, <2>2 DEF Bounded
  <1>7. AcksPassed(base)'
    <2> SUFFICES ASSUME NEW r \in Subs, cursor'[r] = "active"
        PROVE  Passed(base, r, pos[r])'
      BY DEF AcksPassed
    <2>1. PICK m \in 0 .. Len(log) : m = pos'[r]
      BY <1>2, <1>5
    <2>2. Passed(base, r, m)
      BY <1>1, <1>2, <1>5, <2>1 DEF AcksPassed
    <2>3. Passed(base, r, m)'
      BY <1>2, <2>2 DEF Passed, Matches, Done
    <2> QED
      BY <2>1, <2>3
  <1> QED
    BY <1>3, <1>4, <1>6, <1>7

LEMMA AckStepGood ==
  ASSUME NEW base \in [Subs -> Nat], InvAt(base), NEW w \in Workers, Moves(base, w),
         NEW s \in Subs, NEW n \in 0 .. Len(log), Passed(base, s, n), Ack(s, n), StoreToo
  PROVE  Good(base)
  <1>1. UNCHANGED <<handled, buried, dlq>>
    BY DEF StoreToo, ghosts
  <1>2. [Next]_vars /\ Grows /\ Bounded' /\ AcksPassed(base)'
    BY <1>1, AckKeeps
  <1>3. InvAt(base)'
    BY <1>2, StoreKeeps
  <1>4. [ALO!Next]_(ALO!vars)
    BY <1>1, PromiseAcks
  <1> QED
    BY <1>2, <1>3, <1>4 DEF Good

(* Once its event is settled, a worker may ack it and go on.               *)
LEMMA SettledNext ==
  ASSUME NEW base \in [Subs -> Nat], InvAt(base), NEW w \in Workers,
         loop[w].at \in EventLabels, Done(Mine(w), loop[w].event)
  PROVE  /\ Passed(base, Mine(w), loop[w].event)
         /\ loop[w].event \in 0 .. Len(log)
         /\ Goto(w, "next") => Moves(base, w)
  <1>0. /\ loop \in [Workers -> Loop] /\ loop[w] \in Loop
        /\ WorkerOK(base, loop[w])
        /\ loop[w].at \notin {"start", "stopped", "down"} => Mine(w) \in Subs
        /\ Ids = 1 .. Len(log) /\ Len(log) \in Nat /\ Len(log) <= MaxEvents
        /\ live \subseteq Ids /\ MaxEvents \in Nat /\ MaxRetries \in Nat
        /\ \A i : i \in live => i \in Nat /\ i >= 1 /\ i <= Len(log)
    BY WorkerFacts
  <1> USE <1>0
  <1> DEFINE s == Mine(w)
             e == loop[w].event
  <1>1. /\ s \in Subs /\ cursor[s] \in {"active", "deregistered"} /\ e \in Ids
        /\ Passed(base, s, e - 1)
        /\ \A j \in loop[w].batch :
             /\ j \in Ids /\ base[s] < j
             /\ \A i \in live : Matches(s, i) /\ base[s] < i /\ i < j =>
                  Done(s, i) \/ i \in loop[w].batch \/ i = e
    BY EventFacts
  <1>2. e \in Int /\ base[s] \in Nat /\ e \in 0 .. Len(log)
    BY <1>1
  <1>3. Passed(base, s, e)
    <2>1. base[s] <= e
      BY <1>1, <1>2 DEF Passed
    <2>2. ASSUME NEW i \in live, Matches(s, i), base[s] < i, i <= e
          PROVE  Done(s, i)
      <3>1. CASE i = e
        BY <3>1
      <3>2. CASE i <= e - 1
        BY <1>1, <2>2, <3>2 DEF Passed
      <3> QED
        BY <1>2, <2>2, <3>1, <3>2
    <2> QED
      BY <2>1, <2>2 DEF Passed
  <1>4. ASSUME Goto(w, "next") PROVE Moves(base, w)
    <2>1. PICK l \in Loop : l = [loop[w] EXCEPT !.at = "next"]
      <3>1. "next" \in Labels
        BY DEF Labels
      <3> QED
        BY <3>1 DEF Loop
    <2>2. l.at = "next" /\ l.sub = s /\ l.batch = loop[w].batch
      BY <2>1 DEF Loop, Mine
    <2>3. Batching(base, l)
      BY <1>1, <2>2 DEF Batching
    <2>4. WorkerOK(base, l)
      BY <1>1, <2>2, <2>3 DEF WorkerOK, Acking, Attending, EventLabels
    <2> QED
      BY <1>4, <2>1, <2>4, GotoMoves DEF Labels
  <1> QED
    BY <1>2, <1>3, <1>4

LEMMA AckingGood ==
  ASSUME NEW base \in [Subs -> Nat], InvAt(base), NEW w \in Workers,
         AckEvent(w) \/ BuryAck(w) \/ Reanchor(w)
  PROVE  Good(base)
  <1>1. /\ loop \in [Workers -> Loop] /\ loop[w] \in Loop /\ WorkerOK(base, loop[w])
        /\ loop[w].at \in {"ack", "buryAck", "reanchor"} /\ loop[w].at \in LoopLabels
    BY WorkerFacts DEF AckEvent, BuryAck, Reanchor, At, LoopLabels, Labels
  <1>2. ASSUME UNCHANGED vars, StoreToo, Moves(base, w) PROVE Good(base)
    BY <1>2, LoopOnlyGood DEF LoopOnly, StoreToo
  <1>3. ASSUME Goto(w, EndTick(w)) PROVE Moves(base, w)
    BY <1>1, <1>3, EndTickQuiet, QuietMoves
  <1>4. CASE AckEvent(w)
    <2>1. /\ loop[w].at = "ack" /\ loop[w].at \in EventLabels
          /\ Mine(w) \in Subs /\ Done(Mine(w), loop[w].event)
      BY <1>1, <1>4, EventFacts DEF AckEvent, At, EventLabels, WorkerOK, Acking, Done, Mine
    <2>2. CASE Ack(Mine(w), loop[w].event) /\ Goto(w, "next")
      BY <1>4, <2>1, <2>2, SettledNext, AckStepGood DEF AckEvent
    <2>3. CASE UNCHANGED vars /\ Caught(w)
      BY <1>2, <1>4, <2>1, <2>3, CaughtMoves DEF AckEvent
    <2> QED
      BY <1>4, <2>2, <2>3 DEF AckEvent
  <1>5. CASE BuryAck(w)
    <2>1. /\ loop[w].at = "buryAck" /\ loop[w].at \in EventLabels
          /\ Mine(w) \in Subs /\ Done(Mine(w), loop[w].event)
      BY <1>1, <1>5, EventFacts DEF BuryAck, At, EventLabels, WorkerOK, Acking, Done, Mine
    <2>2. CASE Ack(Mine(w), loop[w].event) /\ Goto(w, "next")
      BY <1>5, <2>1, <2>2, SettledNext, AckStepGood DEF BuryAck
    <2>3. CASE UNCHANGED vars /\ Goto(w, EndTick(w))
      BY <1>2, <1>3, <1>5, <2>3 DEF BuryAck
    <2> QED
      BY <1>5, <2>2, <2>3 DEF BuryAck
  <1>6. CASE Reanchor(w)
    <2>1. /\ Mine(w) \in Subs /\ loop[w].floor \in 0 .. Len(log)
          /\ Passed(base, Mine(w), loop[w].floor)
      BY <1>1, <1>6, WorkerFacts DEF Reanchor, At, WorkerOK, Acking, Mine, LoopLabels
    <2>2. Moves(base, w) /\ StoreToo
      BY <1>3, <1>6 DEF Reanchor
    <2>3. CASE Ack(Mine(w), loop[w].floor)
      BY <2>1, <2>2, <2>3, AckStepGood
    <2>4. CASE UNCHANGED vars
      BY <1>2, <2>2, <2>4
    <2> QED
      BY <1>6, <2>3, <2>4 DEF Reanchor
  <1> QED
    BY <1>4, <1>5, <1>6

--------------------------------------------------------------------------------
(* Registration.                                                           *)
LEMMA RegisterNewGood ==
  ASSUME NEW base \in [Subs -> Nat], InvAt(base), NEW w \in Workers, RegisterNew(w)
  PROVE  Good(base)
  <1>1. /\ Typed /\ Bounded /\ AcksPassed(base) /\ loop \in [Workers -> Loop]
        /\ loop[w] \in Loop /\ StoreToo
        /\ sub \in [Subs -> {"absent", "active", "deregistered"}]
        /\ cursor \in [Subs -> {"absent", "reading", "inserting", "active", "deregistered"}]
    BY WorkerFacts DEF InvAt, RetentionInv, Tracked, RegisterNew, Typed, TypeOK
  <1>2. PICK s \in Subs, init \in {"oldest", "latest"} :
          /\ RegisterSubscription(s, init)
          /\ loop' = [loop EXCEPT ![w].sub = s, ![w].at = "register"]
    BY DEF RegisterNew
  <1>3. Register(s) /\ Next
    BY <1>2 DEF Register, Next
  <1>4. /\ UNCHANGED <<log, live, pos, reset, attempts, due, handled, buried, dlq>>
        /\ sub[s] = "absent" /\ sub' = [sub EXCEPT ![s] = "active"]
        /\ cursor'[s] \in {"reading", "inserting"}
        /\ \A r \in Subs : r # s => cursor'[r] = cursor[r]
        /\ cursor[s] = "absent"
    BY <1>1, <1>2 DEF RegisterSubscription, tables, StoreToo, ghosts, Bounded
  <1>5. Typed'
    BY <1>1, <1>3, RetentionNext DEF InvAt, RetentionInv
  <1>6. Grows
    BY <1>1, <1>4 DEF Grows, Ids
  <1>7. Bounded'
    BY <1>1, <1>4 DEF Bounded, ActiveConsumer, Ahead, Matches
  <1>8. AcksPassed(base)'
    BY <1>1, <1>4, <1>5, <1>6, AcksStay
  <1>9. Moves(base, w)
    <2> DEFINE l == [loop[w] EXCEPT !.sub = s, !.at = "register"]
    <2>1. l \in Loop /\ l.at = "register" /\ l.sub = s
      BY <1>1 DEF Loop, Labels
    <2>2. WorkerOK(base, l)
      BY <2>1 DEF WorkerOK, Acking, Batching, Attending, EventLabels, LoopLabels
    <2>3. loop' = [loop EXCEPT ![w] = l]
      BY <1>1, <1>2
    <2> QED
      BY <2>1, <2>2, <2>3 DEF Moves
  <1>10. InvAt(base)'
    BY <1>1, <1>3, <1>6, <1>7, <1>8, <1>9, StoreKeeps
  <1>11. {r \in Subs : sub'[r] = "deregistered"} = {r \in Subs : sub[r] = "deregistered"}
    BY <1>1, <1>4
  <1>12. UNCHANGED ALO!vars
    BY <1>4, <1>11 DEF ALO!vars, ALO!requests, Ids
  <1> QED
    BY <1>3, <1>10, <1>12 DEF Good

LEMMA ReadHeadGood ==
  ASSUME NEW base \in [Subs -> Nat], InvAt(base), NEW w \in Workers, At(w, "register"),
         RegisterReadHead(Mine(w)), UNCHANGED loop, StoreToo
  PROVE  Good(base)
  <1> DEFINE s == Mine(w)
  <1>1. /\ Typed /\ Bounded /\ AcksPassed(base) /\ loop \in [Workers -> Loop]
        /\ loop[w] \in Loop /\ WorkerOK(base, loop[w]) /\ s \in Subs
        /\ cursor \in [Subs -> {"absent", "reading", "inserting", "active", "deregistered"}]
        /\ Ids = 1 .. Len(log) /\ Len(log) \in Nat /\ live \subseteq Ids
    BY WorkerFacts DEF InvAt, RetentionInv, Tracked, Typed, TypeOK, At
  <1>2. Register(s) /\ Next
    BY <1>1 DEF Register, Next
  <1>3. /\ UNCHANGED <<log, live, sub, reset, attempts, due, handled, buried, dlq>>
        /\ cursor[s] = "reading" /\ cursor' = [cursor EXCEPT ![s] = "inserting"]
    BY DEF RegisterReadHead, tables, StoreToo, ghosts
  <1>4. /\ pos' \in [Subs -> 0 .. Len(log)]
        /\ \A r \in Subs : r # s => pos'[r] = pos[r]
    <2>1. pos \in [Subs -> 0 .. Len(log)]
      BY <1>1 DEF Bounded
    <2>2. CASE UNCHANGED pos
      BY <2>1, <2>2
    <2>3. ASSUME NEW m \in live, pos' = [pos EXCEPT ![s] = m]
          PROVE  pos' \in [Subs -> 0 .. Len(log)] /\ \A r \in Subs : r # s => pos'[r] = pos[r]
      <3>1. m \in 0 .. Len(log)
        BY <1>1
      <3> QED
        BY <2>1, <2>3, <3>1
    <2> QED
      BY <2>2, <2>3 DEF RegisterReadHead
  <1>5. Typed'
    BY <1>1, <1>2, RetentionNext DEF InvAt, RetentionInv
  <1>6. Grows
    BY <1>1, <1>3 DEF Grows, Ids
  <1>7. \A r \in Subs : cursor'[r] = "active" => cursor[r] = "active" /\ pos'[r] = pos[r]
    BY <1>1, <1>3, <1>4
  <1>8. Bounded'
    <2>1. ASSUME NEW r \in Subs, ActiveConsumer(r)' PROVE Ahead(r, pos[r])' \subseteq due'[r]
      <3>1. ActiveConsumer(r) /\ pos'[r] = pos[r]
        BY <1>3, <1>7, <2>1 DEF ActiveConsumer
      <3> QED
        BY <1>1, <1>3, <3>1 DEF Bounded, Ahead, Matches
    <2>2. \A r \in Subs : sub'[r] = "absent" => cursor'[r] = "absent"
      BY <1>1, <1>3 DEF Bounded
    <2> QED
      BY <1>1, <1>3, <1>4, <2>1, <2>2 DEF Bounded
  <1>9. AcksPassed(base)'
    BY <1>1, <1>5, <1>6, <1>7, AcksStay
  <1>10. Moves(base, w)
    <2>1. loop' = [loop EXCEPT ![w] = loop[w]]
      BY <1>1
    <2> QED
      BY <1>1, <2>1 DEF Moves
  <1>11. InvAt(base)'
    BY <1>2, <1>6, <1>8, <1>9, <1>10, StoreKeeps
  <1>12. UNCHANGED ALO!vars
    BY <1>3 DEF ALO!vars, ALO!requests, Ids
  <1> QED
    BY <1>2, <1>11, <1>12 DEF Good

(* Until its cursor is active nobody relies on where a subscription began. *)
LEMMA Rebase ==
  ASSUME NEW base \in [Subs -> Nat], InvAt(base), NEW s \in Subs, cursor[s] = "inserting",
         NEW n \in Nat
  PROVE  InvAt([base EXCEPT ![s] = n])
  <1> DEFINE anew == [base EXCEPT ![s] = n]
  <1>1. \A r \in Subs : r # s => anew[r] = base[r]
    OBVIOUS
  <1>2. AcksPassed(anew)
    BY <1>1 DEF InvAt, Tracked, AcksPassed, Passed
  <1>3. ASSUME NEW w \in Workers PROVE WorkerOK(anew, loop[w])
    <2> DEFINE l == loop[w]
    <2>1. WorkerOK(base, l)
      BY DEF InvAt, Tracked
    <2>2. CASE l.at \in LoopLabels
      <3>1. l.sub \in Subs /\ l.sub # s
        BY <2>1, <2>2 DEF WorkerOK, Attending, LoopLabels
      <3>2. anew[l.sub] = base[l.sub]
        BY <1>1, <3>1
      <3> HIDE DEF anew
      <3> QED
        BY <2>1, <3>2 DEF WorkerOK, Acking, Batching, Passed
    <2>3. CASE l.at \notin LoopLabels
      <3>1. l.at \in Labels
        BY WorkerFacts DEF Loop
      <3>2. l.at \in {"start", "register", "stopped", "down"}
        BY <2>3, <3>1 DEF LoopLabels
      <3> QED
        BY <2>1, <3>2 DEF WorkerOK, Acking, Batching, EventLabels
    <2> QED
      BY <2>2, <2>3
  <1> HIDE DEF anew
  <1>4. InvAt(anew)
    BY <1>2, <1>3 DEF InvAt, Tracked
  <1> QED
    BY <1>4 DEF anew

LEMMA RegisterCursorGood ==
  ASSUME NEW base \in [Subs -> Nat], InvAt(base), NEW w \in Workers, At(w, "register"),
         RegisterCursor(Mine(w)), Goto(w, "idle"), StoreToo
  PROVE  \E b \in [Subs -> Nat] : Good(b)
  <1>1. /\ Typed /\ Claims /\ Bounded /\ loop \in [Workers -> Loop]
        /\ loop[w] \in Loop /\ Mine(w) \in Subs
        /\ sub \in [Subs -> {"absent", "active", "deregistered"}]
        /\ cursor \in [Subs -> {"absent", "reading", "inserting", "active", "deregistered"}]
        /\ due \in [Subs -> SUBSET Ids] /\ pos \in [Subs -> 0 .. Len(log)]
        /\ Ids = 1 .. Len(log) /\ Len(log) \in Nat /\ live \subseteq Ids
        /\ Len(log) <= MaxEvents /\ MaxEvents \in Nat
    BY WorkerFacts DEF InvAt, RetentionInv, Bounded, Typed, TypeOK, At
  <1>2. PICK s \in Subs : s = Mine(w)
    BY <1>1
  <1>3. PICK n \in Nat : n = pos[s] /\ n <= Len(log)
    BY <1>1
  <1>4. /\ UNCHANGED <<log, live, pos, sub, reset, attempts, handled, buried, dlq>>
        /\ cursor[s] = "inserting" /\ cursor' = [cursor EXCEPT ![s] = "active"]
        /\ due' = [due EXCEPT ![s] = IF sub[s] = "active" THEN Ahead(s, n) ELSE {}]
    BY <1>2, <1>3 DEF RegisterCursor, tables, StoreToo, ghosts
  <1>5. PICK b \in [Subs -> Nat] : b = [base EXCEPT ![s] = n]
    OBVIOUS
  <1>6. InvAt(b) /\ b[s] = n
    BY <1>4, <1>5, Rebase
  <1>7. Register(s) /\ Next
    BY <1>2 DEF Register, Next
  <1>8. Typed'
    BY <1>1, <1>7, RetentionNext DEF InvAt, RetentionInv
  <1>9. Grows
    BY <1>1, <1>4 DEF Grows, Ids
  <1>10. due[s] = {}
    BY <1>1, <1>4 DEF Claims, ActiveConsumer
  <1>11. Bounded'
    <2>1. ASSUME NEW r \in Subs, ActiveConsumer(r)' PROVE Ahead(r, pos[r])' \subseteq due'[r]
      <3>1. Ahead(r, pos[r])' = Ahead(r, pos[r])
        BY <1>4 DEF Ahead, Matches
      <3>2. CASE r = s
        <4>1. sub[s] = "active"
          BY <1>4, <2>1, <3>2 DEF ActiveConsumer
        <4>2. due'[s] = Ahead(s, n)
          BY <1>1, <1>4, <4>1
        <4> QED
          BY <1>3, <3>1, <3>2, <4>2
      <3>3. CASE r # s
        <4>1. ActiveConsumer(r) /\ due'[r] = due[r]
          BY <1>1, <1>4, <2>1, <3>3 DEF ActiveConsumer
        <4> QED
          BY <1>1, <3>1, <4>1 DEF Bounded
      <3> QED
        BY <3>2, <3>3
    <2>2. \A r \in Subs : sub'[r] = "absent" => cursor'[r] = "absent"
      BY <1>1, <1>4 DEF Bounded
    <2> QED
      BY <1>1, <1>4, <2>1, <2>2 DEF Bounded
  <1>12. AcksPassed(b)'
    <2> SUFFICES ASSUME NEW r \in Subs, cursor'[r] = "active" PROVE Passed(b, r, pos[r])'
      BY DEF AcksPassed
    <2>1. PICK m \in 0 .. Len(log) : m = pos[r] /\ m = pos'[r]
      BY <1>1, <1>4
    <2>2. CASE r = s
      <3>1. m = n /\ \A i \in live' : i \in Int
        BY <1>1, <1>3, <1>4, <2>1, <2>2
      <3>2. Passed(b, s, m)'
        BY <1>6, <3>1 DEF Passed
      <3> QED
        BY <2>1, <2>2, <3>2
    <2>3. CASE r # s
      <3>1. Passed(b, r, m)
        BY <1>1, <1>4, <1>6, <2>1, <2>3 DEF InvAt, Tracked, AcksPassed
      <3>2. Passed(b, r, m)'
        BY <1>4, <3>1 DEF Passed, Matches, Done
      <3> QED
        BY <2>1, <3>2
    <2> QED
      BY <2>2, <2>3
  <1>13. Arrives(b, w)
    <2>1. PICK l \in Loop : l = [loop[w] EXCEPT !.at = "idle"]
      BY <1>1 DEF Loop, Labels
    <2>2. l.at = "idle" /\ l.sub = s
      BY <1>1, <1>2, <2>1 DEF Loop, Mine
    <2>3. cursor'[l.sub] \in {"active", "deregistered"}
      BY <1>1, <1>4, <2>2
    <2>4. WorkerOK(b, l)'
      BY <2>2, <2>3 DEF WorkerOK, Acking, Batching, Attending, EventLabels
    <2>5. loop' = [loop EXCEPT ![w] = l]
      BY <1>1, <2>1 DEF Goto
    <2> QED
      BY <2>4, <2>5 DEF Arrives
  <1>14. RowsTyped'
    BY DEF StoreToo, RowsTyped, ghosts, InvAt, SubscriberTypeOK
  <1>15. InvAt(b)'
    BY <1>6, <1>7, <1>9, <1>11, <1>12, <1>13, <1>14, WorkerKeeps
  <1>16. ALO!Claim
    <2> DEFINE more == [r \in Subs |-> IF r = s /\ sub[s] = "active" THEN Ahead(s, n) ELSE {}]
    <2>1. Ahead(s, n) \subseteq 1 .. MaxEvents
      <3>1. Ahead(s, n) \subseteq Ids
        BY <1>1 DEF Ahead
      <3> QED
        BY <1>1, <3>1
    <2>2. more \in [Subs -> SUBSET (1 .. MaxEvents)]
      BY <2>1
    <2>3. due' = [r \in Subs |-> due[r] \cup more[r]]
      BY <1>1, <1>4, <1>10
    <2> HIDE DEF more
    <2> QED
      BY <1>4, <2>2, <2>3 DEF ALO!Claim, ALO!requests, Ids
  <1> QED
    BY <1>7, <1>15, <1>16 DEF Good, ALO!Next

--------------------------------------------------------------------------------
(* Operators and the rest of the bus.                                      *)
LEMMA NoWorkerKeeps ==
  ASSUME NEW base \in [Subs -> Nat], InvAt(base), [Next]_vars, UNCHANGED loop,
         Grows, Bounded', AcksPassed(base)', RowsTyped'
  PROVE  InvAt(base)'
  <1>1. RetentionInv' /\ Typed /\ Typed' /\ loop \in [Workers -> Loop]
    BY RetentionNext DEF InvAt, RetentionInv, SubscriberTypeOK
  <1>2. SubscriberTypeOK'
    BY <1>1 DEF SubscriberTypeOK, RowsTyped
  <1>3. ASSUME NEW v \in Workers PROVE WorkerOK(base, loop[v])'
    BY <1>1, OthersStay DEF InvAt, Tracked
  <1> QED
    BY <1>1, <1>2, <1>3 DEF InvAt, Tracked

LEMMA LetterGood ==
  ASSUME NEW base \in [Subs -> Nat], InvAt(base), NEW d \in DOMAIN dlq,
         NEW to \in {"asked", "gone"}, OperateLetter(d, to)
  PROVE  Good(base)
  <1>1. /\ Typed /\ Bounded /\ AcksPassed(base) /\ SubscriberTypeOK
    BY DEF InvAt, RetentionInv, Tracked
  <1>2. /\ dlq' = [dlq EXCEPT ![d].state = to] /\ Spend("letter")
        /\ UNCHANGED <<vars, loop, handled, buried, failures>>
    BY DEF OperateLetter, ghosts
  <1>3. dlq' \in Seq(Letter) /\ DOMAIN dlq' = DOMAIN dlq
    BY <1>1, <1>2, LetterChange
  <1>4. spent' \in [DOMAIN Budget -> Nat]
    <2>1. "letter" \in DOMAIN Budget /\ "any" \in DOMAIN Budget
      BY SubscriberAssumption
    <2> QED
      BY <1>1, <1>2, <2>1, SpendTyped
  <1>5. RowsTyped'
    BY <1>1, <1>2, <1>3, <1>4 DEF RowsTyped, SubscriberTypeOK
  <1>6. /\ [Next]_vars
        /\ UNCHANGED <<clock, log, live, released, archived, acceptedAt, reported,
                       step, draft, sub, cursor, pos, reset, attempts, due>>
    BY <1>2, StoreStutters
  <1>7. Typed'
    BY <1>6, RetentionNext DEF InvAt, RetentionInv
  <1>8. Grows
    BY <1>2, <1>3, <1>6 DEF Grows, Ids
  <1>9. Bounded'
    BY <1>1, <1>6 DEF Bounded, ActiveConsumer, Ahead, Matches
  <1>10. AcksPassed(base)'
    BY <1>1, <1>6, <1>7, <1>8, AcksStay
  <1>11. InvAt(base)'
    BY <1>2, <1>5, <1>6, <1>8, <1>9, <1>10, NoWorkerKeeps
  <1>12. UNCHANGED ALO!vars
    BY <1>2, <1>6, PromiseStutters
  <1> QED
    BY <1>6, <1>11, <1>12 DEF Good

LEMMA UnsubscribeGood ==
  ASSUME NEW base \in [Subs -> Nat], InvAt(base), NEW s \in Subs, Unsubscribe(s)
  PROVE  Good(base)
  <1>1. /\ Typed /\ Claims /\ Bounded /\ AcksPassed(base) /\ SubscriberTypeOK
        /\ sub \in [Subs -> {"absent", "active", "deregistered"}]
        /\ cursor \in [Subs -> {"absent", "reading", "inserting", "active", "deregistered"}]
        /\ due \in [Subs -> SUBSET Ids]
    BY DEF InvAt, RetentionInv, Tracked, Typed, TypeOK
  <1>2. Deregister(s) /\ Spend("deregister") /\ UNCHANGED <<loop, dlq, ghosts>>
    BY DEF Unsubscribe
  <1>3. Next
    BY <1>2 DEF Next
  <1>4. /\ UNCHANGED <<log, live, pos, reset, attempts, handled, buried, dlq>>
        /\ sub[s] # "absent" /\ sub' = [sub EXCEPT ![s] = "deregistered"]
        /\ cursor' = [cursor EXCEPT ![s] = IF cursor[s] = "active" THEN "deregistered"
                                           ELSE cursor[s]]
        /\ due' = [due EXCEPT ![s] = {}]
    BY <1>1, <1>2 DEF Deregister, tables, ghosts
  <1>5. Typed'
    BY <1>3, RetentionNext DEF InvAt, RetentionInv
  <1>6. \A r \in Subs : /\ cursor'[r] = "active" => cursor[r] = "active"
                        /\ cursor[r] \in {"active", "deregistered"} =>
                             cursor'[r] \in {"active", "deregistered"}
    BY <1>1, <1>4
  <1>7. Grows
    BY <1>4, <1>6 DEF Grows, Ids
  <1>8. Bounded'
    <2>1. ASSUME NEW r \in Subs, ActiveConsumer(r)' PROVE Ahead(r, pos[r])' \subseteq due'[r]
      <3>1. r # s
        BY <1>1, <1>4, <2>1 DEF ActiveConsumer
      <3>2. ActiveConsumer(r) /\ due'[r] = due[r]
        BY <1>1, <1>4, <2>1, <3>1 DEF ActiveConsumer
      <3> QED
        BY <1>1, <1>4, <3>2 DEF Bounded, Ahead, Matches
    <2>2. \A r \in Subs : sub'[r] = "absent" => cursor'[r] = "absent"
      BY <1>1, <1>4 DEF Bounded
    <2> QED
      BY <1>1, <1>4, <2>1, <2>2 DEF Bounded
  <1>9. AcksPassed(base)'
    BY <1>1, <1>4, <1>5, <1>6, <1>7, AcksStay
  <1>10. RowsTyped'
    <2>1. {"deregister", "any"} \subseteq DOMAIN Budget
      BY SubscriberAssumption
    <2>2. spent' \in [DOMAIN Budget -> Nat]
      BY <1>1, <1>2, <2>1, SpendTyped
    <2> QED
      BY <1>1, <1>2, <2>2 DEF RowsTyped, SubscriberTypeOK, ghosts
  <1>11. InvAt(base)'
    BY <1>2, <1>3, <1>7, <1>8, <1>9, <1>10, NoWorkerKeeps
  <1>12. [ALO!Next]_(ALO!vars)
    <2> DEFINE left == {r \in Subs : sub[r] = "deregistered"}
               asking == {r \in Subs : reset[r] # {}}
    <2>1. CASE sub[s] = "deregistered"
      <3>1. due[s] = {} /\ sub' = sub
        BY <1>1, <1>4, <2>1 DEF Claims, ActiveConsumer
      <3>2. due' = due
        BY <1>1, <1>4, <3>1
      <3> QED
        BY <1>4, <3>1, <3>2, PromiseStutters
    <2>2. CASE sub[s] # "deregistered"
      <3>1. {r \in Subs : sub'[r] = "deregistered"} = left \cup {s} /\ s \notin left
        BY <1>1, <1>4, <2>2
      <3>2. ALO!Withdraw(s)
        BY <1>1, <1>4, <3>1 DEF ALO!Withdraw, Ids
      <3> QED
        BY <3>2 DEF ALO!Next
    <2> QED
      BY <2>1, <2>2
  <1> QED
    BY <1>3, <1>11, <1>12 DEF Good

LEMMA AcceptKeeps ==
  ASSUME NEW base \in [Subs -> Nat], InvAt(base), NEW p \in Producers, draft[p] \in Row,
         Accept(p), Typed', UNCHANGED <<handled, buried, dlq>>
  PROVE  Grows /\ Bounded' /\ AcksPassed(base)' /\ ALO!Claim
  <1> DEFINE id == Len(log) + 1
  <1>1. /\ Typed /\ Bounded /\ AcksPassed(base)
        /\ Ids = 1 .. Len(log) /\ Len(log) \in Nat /\ live \subseteq Ids
        /\ due \in [Subs -> SUBSET Ids] /\ pos \in [Subs -> 0 .. Len(log)]
        /\ MaxEvents \in Nat
    BY IdsAreOneToLen, StoreAssumption DEF InvAt, RetentionInv, Tracked, Bounded, Typed, TypeOK
  <1>2. /\ Len(log') = id /\ Ids' = Ids \cup {id} /\ id \notin Ids
        /\ \A i \in Ids : log'[i] = log[i]
        /\ log'[id] = draft[p]
    BY <1>1, AcceptExtendsLog DEF Typed
  <1>3. /\ UNCHANGED <<sub, cursor, pos, reset, attempts>>
        /\ Len(log) < MaxEvents /\ live' = live \cup {id}
        /\ due' = [s \in Subs |->
             IF ActiveConsumer(s) /\ id > pos[s] /\ draft[p].type \in Filter[s]
             THEN due[s] \cup {id} ELSE due[s]]
    BY DEF Accept, AcceptRow
  <1> HIDE DEF id
  <1>4. Grows
    BY <1>1, <1>2, <1>3 DEF Grows
  <1>5. id \in 1 .. MaxEvents /\ id = Len(log) + 1 /\ id \in Int
    BY <1>1, <1>3 DEF id
  <1>6. Bounded'
    <2>1. Len(log') <= MaxEvents
      BY <1>2, <1>5
    <2>2. pos' \in [Subs -> 0 .. Len(log')]
      BY <1>1, <1>2, <1>3, <1>5
    <2>3. ASSUME NEW s \in Subs, ActiveConsumer(s)', NEW i \in Ahead(s, pos[s])'
          PROVE  i \in due'[s]
      <3>1. ActiveConsumer(s) /\ i \in live' /\ i > pos[s] /\ Matches(s, i)'
        BY <1>3, <2>3 DEF ActiveConsumer, Ahead
      <3>2. CASE i = id
        <4>1. draft[p].type \in Filter[s]
          BY <1>2, <3>1, <3>2 DEF Matches
        <4> QED
          BY <1>3, <3>1, <3>2, <4>1
      <3>3. CASE i \in live
        <4>1. Matches(s, i)
          BY <1>1, <1>2, <3>1, <3>3 DEF Matches
        <4>2. i \in due[s]
          BY <1>1, <3>1, <3>3, <4>1 DEF Bounded, Ahead
        <4> QED
          BY <1>3, <4>2
      <3> QED
        BY <1>3, <3>1, <3>2, <3>3
    <2>4. /\ attempts' \in [Subs -> [1 .. MaxEvents -> 0 .. MaxRetries]]
          /\ reset' = [s \in Subs |-> {}]
          /\ \A s \in Subs : sub'[s] = "absent" => cursor'[s] = "absent"
      BY <1>1, <1>3 DEF Bounded
    <2> QED
      BY <2>1, <2>2, <2>3, <2>4 DEF Bounded
  <1>7. AcksPassed(base)'
    BY <1>1, <1>3, <1>4, AcksStay
  <1>8. ALO!Claim
    <2> DEFINE more == [s \in Subs |->
                 IF ActiveConsumer(s) /\ id > pos[s] /\ draft[p].type \in Filter[s]
                 THEN {id} ELSE {}]
    <2>1. more \in [Subs -> SUBSET (1 .. MaxEvents)]
      BY <1>5
    <2>2. due' = [s \in Subs |-> due[s] \cup more[s]]
      BY <1>3
    <2>3. Ids' \ live' = Ids \ live
      BY <1>1, <1>2, <1>3
    <2> HIDE DEF more
    <2> QED
      BY <1>3, <2>1, <2>2, <2>3 DEF ALO!Claim, ALO!requests
  <1> QED
    BY <1>4, <1>6, <1>7, <1>8

(* A step that leaves the log, the subscriptions and the claims alone; the *)
(* sweep may remove events.                                                *)
LEMMA TablesKeep ==
  ASSUME NEW base \in [Subs -> Nat], InvAt(base), Typed', live' \subseteq live,
         UNCHANGED <<log, sub, cursor, pos, reset, attempts, due, handled, buried, dlq>>
  PROVE  Grows /\ Bounded' /\ AcksPassed(base)' /\ [ALO!Next]_(ALO!vars)
  <1>1. /\ Typed /\ Bounded /\ AcksPassed(base) /\ live \subseteq Ids
        /\ Ids = 1 .. Len(log) /\ Len(log) \in Nat /\ Len(log) <= MaxEvents
        /\ MaxEvents \in Nat
    BY IdsAreOneToLen, StoreAssumption DEF InvAt, RetentionInv, Tracked, Bounded, Typed, TypeOK
  <1>2. Grows
    BY DEF Grows, Ids
  <1>3. Bounded'
    BY <1>1 DEF Bounded, ActiveConsumer, Ahead, Matches
  <1>4. AcksPassed(base)'
    BY <1>1, <1>2, AcksStay
  <1>5. ALO!Sweep
    <2> DEFINE gone == live \ live'
    <2>1. Ids' \ live' = (Ids \ live) \cup gone
      BY <1>1 DEF Ids
    <2>2. gone \in SUBSET (1 .. MaxEvents)
      BY <1>1
    <2> HIDE DEF gone
    <2> QED
      BY <2>1, <2>2 DEF ALO!Sweep, ALO!requests
  <1> QED
    BY <1>2, <1>3, <1>4, <1>5 DEF ALO!Next

LEMMA BackgroundGood ==
  ASSUME NEW base \in [Subs -> Nat], InvAt(base), Background
  PROVE  Good(base)
  <1>1. UNCHANGED <<loop, dlq, spent, handled, buried, failures>>
    BY DEF Background, ghosts
  <1>2. Next
    BY DEF Background, Next
  <1>3. Typed /\ Typed'
    BY <1>2, RetentionNext DEF InvAt, RetentionInv
  <1>4. RowsTyped'
    BY <1>1 DEF RowsTyped, InvAt, SubscriberTypeOK
  <1>5. ASSUME Grows, Bounded', AcksPassed(base)', [ALO!Next]_(ALO!vars)
        PROVE  Good(base)
    BY <1>1, <1>2, <1>4, <1>5, NoWorkerKeeps DEF Good
  <1>6. ASSUME live' \subseteq live,
               UNCHANGED <<log, sub, cursor, pos, reset, attempts, due>>
        PROVE  Good(base)
    BY <1>1, <1>3, <1>5, <1>6, TablesKeep
  <1>7. CASE Tick
    BY <1>6, <1>7 DEF Tick, tables, subscribers
  <1>8. CASE Sweep
    BY <1>6, <1>8 DEF Sweep, subscribers
  <1>9. ASSUME NEW p \in Producers, Emit(p) PROVE Good(base)
    <2>1. ASSUME step[p] \in {"insert", "release"}, Accept(p) PROVE Good(base)
      <3>1. draft[p] \in Row
        BY <1>3, <2>1 DEF Typed
      <3>2. Grows /\ Bounded' /\ AcksPassed(base)' /\ ALO!Claim
        BY <1>1, <1>3, <2>1, <3>1, AcceptKeeps
      <3> QED
        BY <1>5, <3>2 DEF ALO!Next
    <2>2. ASSUME UNCHANGED <<tables, subscribers>> PROVE Good(base)
      BY <1>6, <2>2 DEF tables, subscribers
    <2>3. CASE EmitInsert(p)
      BY <2>1, <2>3 DEF EmitInsert
    <2>4. CASE EmitRelease(p)
      BY <2>1, <2>4 DEF EmitRelease
    <2>5. CASE EmitConflict(p)
      BY <2>2, <2>5 DEF EmitConflict
    <2>6. CASE EmitDuplicate(p) \/ EmitFails(p)
      BY <2>2, <2>6 DEF EmitDuplicate, EmitFails, EmitStop
    <2>7. ASSUME NEW t \in Types, NEW k \in Keys \cup {NoKey}, NEW ttl \in Ttls,
                 EmitBegin(p, t, k, ttl)
          PROVE  Good(base)
      BY <2>2, <2>7 DEF EmitBegin
    <2> QED
      BY <1>9, <2>3, <2>4, <2>5, <2>6, <2>7 DEF Emit
  <1> QED
    BY <1>7, <1>8, <1>9 DEF Background

--------------------------------------------------------------------------------
LEMMA InvInit == SubscriberInit => SubscriberInv /\ Init /\ ALO!Init
  <1> SUFFICES ASSUME SubscriberInit PROVE SubscriberInv /\ Init /\ ALO!Init
    OBVIOUS
  <1> USE DEF SubscriberInit
  <1>1. PICK base \in [Subs -> Nat] : base = [s \in Subs |-> 0]
    OBVIOUS
  <1>2. Init /\ RetentionInv
    BY RetentionInit
  <1>3. Len(log) = 0 /\ Ids = {} /\ live = {} /\ MaxEvents \in Nat /\ MaxRetries \in Nat
    BY StoreAssumption DEF Init, Ids
  <1>4. Bounded
    <2>1. /\ attempts \in [Subs -> [1 .. MaxEvents -> 0 .. MaxRetries]]
          /\ pos \in [Subs -> 0 .. Len(log)] /\ reset = [s \in Subs |-> {}]
      BY <1>2, <1>3 DEF Init
    <2>2. \A s \in Subs : sub[s] = "absent" /\ cursor[s] = "absent"
      BY <1>2 DEF Init
    <2> QED
      BY <1>3, <2>1, <2>2 DEF Bounded, ActiveConsumer
  <1>5. Halted("start") \in Loop /\ Halted("start").at = "start"
    BY <1>3 DEF Loop, Labels, Halted
  <1>6. SubscriberTypeOK
    BY <1>3, <1>5, SubscriberAssumption DEF SubscriberTypeOK
  <1>7. AcksPassed(base)
    BY <1>2 DEF AcksPassed, Init
  <1>8. ASSUME NEW w \in Workers PROVE WorkerOK(base, loop[w])
    <2>1. loop[w].at = "start"
      BY <1>5
    <2> QED
      BY <2>1 DEF WorkerOK, Acking, Batching, Attending, EventLabels, LoopLabels
  <1>9. ALO!Init
    BY <1>2, <1>3 DEF ALO!Init, Init
  <1> QED
    BY <1>2, <1>4, <1>6, <1>7, <1>8, <1>9 DEF SubscriberInv, InvAt, Tracked

LEMMA RunGood ==
  ASSUME NEW base \in [Subs -> Nat], InvAt(base), NEW w \in Workers, Run(w)
  PROVE  \E b \in [Subs -> Nat] : Good(b)
  <1>1. CASE RegisterRest(w)
    <2>1. CASE RegisterReadHead(Mine(w)) /\ UNCHANGED loop
      BY <1>1, <2>1, ReadHeadGood DEF RegisterRest
    <2>2. CASE RegisterCursor(Mine(w)) /\ Goto(w, "idle")
      BY <1>1, <2>2, RegisterCursorGood DEF RegisterRest
    <2> QED
      BY <1>1, <2>1, <2>2 DEF RegisterRest
  <1>2. CASE \/ Resume(w) \/ Restart(w) \/ StartTick(w) \/ DrainPick(w) \/ DrainDone(w)
             \/ ReplayThrows(w) \/ BatchDone(w)
    BY <1>2, TickEdgesGood
  <1>3. CASE PollCursor(w) \/ PollOldest(w)
    BY <1>3, PollGood
  <1>4. CASE ReplayDelete(w) \/ ReplayKeep(w)
    BY <1>4, ReplayRowGood
  <1>5. CASE Unretry(w) \/ Retry(w) \/ BuryClean(w)
    BY <1>5, CounterStepsGood
  <1>6. CASE AckEvent(w) \/ BuryAck(w) \/ Reanchor(w)
    BY <1>6, AckingGood
  <1>7. CASE RegisterNew(w)
    BY <1>7, RegisterNewGood
  <1>8. CASE ReplayReturns(w)
    BY <1>8, ReplayReturnsGood
  <1>9. CASE PollSelect(w)
    BY <1>9, SelectGood
  <1>10. CASE Take(w)
    BY <1>10, TakeGood
  <1>11. CASE HandlerReturns(w)
    BY <1>11, HandlerReturnsGood
  <1>12. CASE HandlerThrows(w)
    BY <1>12, HandlerThrowsGood
  <1>13. CASE Awake(w)
    BY <1>13, AwakeGood
  <1>14. CASE Bury(w)
    BY <1>14, BuryGood
  <1> QED
    BY <1>1, <1>2, <1>3, <1>4, <1>5, <1>6, <1>7, <1>8, <1>9, <1>10, <1>11, <1>12, <1>13,
       <1>14 DEF Run

LEMMA OperateGood ==
  ASSUME NoRewinds, NEW base \in [Subs -> Nat], InvAt(base), Operate
  PROVE  Good(base)
  <1>1. ASSUME NEW s \in Subs, NEW from \in ReplayFrom, RewindCheck(s, from) PROVE FALSE
    <2>1. spent["rewind"] \in Nat
      BY SubscriberAssumption DEF InvAt, SubscriberTypeOK
    <2> QED
      BY <1>1, <2>1 DEF RewindCheck, Spend, NoRewinds
  <1>2. ASSUME NEW s \in Subs, Rewind(s) PROVE FALSE
    BY <1>2 DEF Rewind, ReplayWrite, InvAt, Bounded
  <1>3. ASSUME NEW d \in DOMAIN dlq, NEW to \in {"asked", "gone"}, OperateLetter(d, to)
        PROVE  Good(base)
    BY <1>3, LetterGood
  <1>4. ASSUME NEW s \in Subs, Unsubscribe(s) PROVE Good(base)
    BY <1>4, UnsubscribeGood
  <1> QED
    BY <1>1, <1>2, <1>3, <1>4 DEF Operate

LEMMA InvStep ==
  ASSUME NoRewinds, SubscriberInv, [SubscriberNext]_subscriberVars
  PROVE  SubscriberInv' /\ [Next]_vars /\ [ALO!Next]_(ALO!vars)
  <1>1. PICK base \in [Subs -> Nat] : InvAt(base)
    BY DEF SubscriberInv
  <1>2. \E b \in [Subs -> Nat] : Good(b)
    <2>1. ASSUME NEW w \in Workers, Run(w) PROVE \E b \in [Subs -> Nat] : Good(b)
      BY <1>1, <2>1, RunGood
    <2>2. ASSUME NEW w \in Workers, Disturb(w) PROVE Good(base)
      BY <1>1, <2>2, DisturbGood
    <2>3. CASE Operate
      BY <1>1, <2>3, OperateGood
    <2>4. CASE Background
      BY <1>1, <2>4, BackgroundGood
    <2>5. CASE UNCHANGED subscriberVars
      <3>1. /\ UNCHANGED <<vars, loop, dlq, spent, handled, buried, failures>>
        BY <2>5 DEF subscriberVars, ghosts
      <3>2. /\ [Next]_vars
            /\ UNCHANGED <<clock, log, live, released, archived, acceptedAt, reported,
                           step, draft, sub, cursor, pos, reset, attempts, due>>
        BY <3>1, StoreStutters
      <3>3. Typed' /\ RowsTyped'
        BY <1>1, <3>1, <3>2, RetentionNext
           DEF InvAt, RetentionInv, RowsTyped, SubscriberTypeOK
      <3>4. Grows /\ Bounded' /\ AcksPassed(base)' /\ [ALO!Next]_(ALO!vars)
        BY <1>1, <3>1, <3>2, <3>3, TablesKeep
      <3>5. InvAt(base)'
        BY <1>1, <3>1, <3>2, <3>3, <3>4, NoWorkerKeeps
      <3> QED
        BY <3>2, <3>4, <3>5 DEF Good
    <2> QED
      BY <2>1, <2>2, <2>3, <2>4, <2>5 DEF SubscriberNext
  <1>3. PICK b \in [Subs -> Nat] : Good(b)
    BY <1>2
  <1> QED
    BY <1>3 DEF Good, SubscriberInv

(* lib/subscribe.js "DELIVERY GUARANTEE: AT-LEAST-ONCE": for any number of *)
(* workers on one cursor, whenever they crash, restart, are stopped or     *)
(* meet a database error, no claim is dropped before a handler accepted    *)
(* the event, it is a dead letter or the sweep has taken it.               *)
THEOREM AtLeastOnceDelivery == NoRewinds => (SubscriberSpec => ImplementsAtLeastOnce)
  <1> SUFFICES ASSUME NoRewinds PROVE SubscriberSpec => ALO!Spec
    BY DEF ImplementsAtLeastOnce
  <1>1. SubscriberInit => SubscriberInv /\ ALO!Init
    BY InvInit
  <1>2. SubscriberInv /\ [SubscriberNext]_subscriberVars
          => SubscriberInv' /\ [ALO!Next]_(ALO!vars)
    BY InvStep
  <1> QED
    BY <1>1, <1>2, PTL DEF SubscriberSpec, ALO!Spec

--------------------------------------------------------------------------------
(* The replay command puts cursors anywhere, so nothing is known of what a *)
(* position passed.  Enough is known for every call to be one the store    *)
(* allows: what local states name exists, and counters are in their range. *)
Naming(l) ==
  /\ Attending(l)
  /\ l.batch \subseteq Ids
  /\ l.at \in EventLabels => l.event \in Ids
  /\ l.at = "reanchor" => l.floor \in 0 .. MaxEvents

Sized ==
  /\ Len(log) <= MaxEvents
  /\ attempts \in [Subs -> [1 .. MaxEvents -> 0 .. MaxRetries]]
  /\ \A s \in Subs : sub[s] = "absent" => cursor[s] = "absent"

UsageInv == Typed /\ Sized /\ SubscriberTypeOK /\ \A w \in Workers : Naming(loop[w])

LEMMA UsageFacts ==
  ASSUME UsageInv
  PROVE  /\ Typed /\ Sized /\ SubscriberTypeOK /\ RowsTyped
         /\ Ids = 1 .. Len(log) /\ Len(log) \in Nat /\ Len(log) <= MaxEvents
         /\ live \subseteq Ids /\ Ids \subseteq 1 .. MaxEvents
         /\ MaxEvents \in Nat /\ MaxRetries \in Nat
         /\ sub \in [Subs -> {"absent", "active", "deregistered"}]
         /\ cursor \in [Subs -> {"absent", "reading", "inserting", "active", "deregistered"}]
         /\ loop \in [Workers -> Loop] /\ \A w \in Workers : loop[w] \in Loop
         /\ \A w \in Workers : Naming(loop[w])
         /\ \A w \in Workers :
              loop[w].at \notin {"start", "stopped", "down"} => Mine(w) \in Subs
  <1>1. Typed /\ Sized /\ SubscriberTypeOK /\ \A w \in Workers : Naming(loop[w])
    BY DEF UsageInv
  <1>2. Ids = 1 .. Len(log) /\ Len(log) \in Nat
    BY <1>1, IdsAreOneToLen
  <1>3. MaxEvents \in Nat /\ MaxRetries \in Nat /\ Len(log) <= MaxEvents
    BY <1>1, StoreAssumption DEF Sized
  <1>4. Ids \subseteq 1 .. MaxEvents
    BY <1>2, <1>3
  <1>5. \A w \in Workers :
          loop[w].at \notin {"start", "stopped", "down"} => Mine(w) \in Subs
    BY <1>1 DEF Naming, Attending, Mine
  <1> QED
    BY <1>1, <1>2, <1>3, <1>4, <1>5 DEF Typed, TypeOK, SubscriberTypeOK, RowsTyped

(* What local states name is not taken away by any step.                   *)
Keeps ==
  /\ Ids \subseteq Ids' /\ DOMAIN dlq \subseteq DOMAIN dlq'
  /\ \A s \in Subs : cursor[s] \in {"active", "deregistered"} =>
       cursor'[s] \in {"active", "deregistered"}

LEMMA NamingStays == ASSUME Keeps, NEW l, Naming(l) PROVE Naming(l)'
  <1>1. Attending(l)'
    <2>1. l.at \in LoopLabels => l.at \notin {"start", "stopped", "down"}
      BY DEF LoopLabels
    <2> QED
      BY <2>1 DEF Keeps, Naming, Attending
  <1> QED
    BY <1>1 DEF Keeps, Naming

(* What the local state a worker moves to names is there before the step,  *)
(* or after it.                                                            *)
Lands(w) ==
  \E l \in Loop : loop' = [loop EXCEPT ![w] = l] /\ (Naming(l) \/ Naming(l)')

LEMMA UsageKeeps ==
  ASSUME UsageInv, [Next]_vars, Keeps, Sized', RowsTyped',
         UNCHANGED loop \/ \E w \in Workers : Lands(w)
  PROVE  UsageInv'
  <1>1. loop \in [Workers -> Loop] /\ Typed' /\ \A v \in Workers : Naming(loop[v])
    BY UsageFacts, TypedNext DEF UsageInv
  <1>2. loop' \in [Workers -> Loop]
    BY <1>1 DEF Lands
  <1>3. ASSUME NEW v \in Workers PROVE Naming(loop[v])'
    <2>1. PICK l : l = loop'[v] /\ (Naming(l) \/ Naming(l)')
      <3>1. CASE loop'[v] = loop[v]
        BY <1>1, <3>1
      <3>2. CASE loop'[v] # loop[v]
        BY <1>1, <3>2 DEF Lands
      <3> QED
        BY <3>1, <3>2
    <2>2. Naming(l)'
      BY <2>1, NamingStays
    <2> QED
      BY <2>1, <2>2
  <1>4. SubscriberTypeOK'
    BY <1>2 DEF SubscriberTypeOK, RowsTyped
  <1> QED
    BY <1>1, <1>3, <1>4 DEF UsageInv

Uses == UsageInv' /\ [Next]_vars

(* The steps that leave the store alone.                                   *)
LEMMA LocalUses ==
  ASSUME UsageInv, UNCHANGED vars, RowsTyped', DOMAIN dlq \subseteq DOMAIN dlq',
         UNCHANGED loop \/ \E w \in Workers : Lands(w)
  PROVE  Uses
  <1>1. [Next]_vars /\ UNCHANGED <<log, sub, cursor, attempts>>
    BY StoreStutters
  <1>2. Keeps /\ Sized'
    BY <1>1, UsageFacts DEF Keeps, Sized, Ids
  <1> QED
    BY <1>1, <1>2, UsageKeeps DEF Uses

LEMMA LoopOnlyUses ==
  ASSUME UsageInv, NEW w \in Workers, Lands(w), LoopOnly
  PROVE  Uses
  <1>1. RowsTyped'
    BY UsageFacts DEF LoopOnly, ghosts, RowsTyped
  <1> QED
    BY <1>1, LocalUses DEF LoopOnly

(* Labels whose local state names the subscription only.                   *)
Light == Labels \ (EventLabels \cup {"replay", "replayDelete", "replayKeep", "reanchor"})

LEMMA LightLands ==
  ASSUME UsageInv, NEW w \in Workers, loop[w].at \in LoopLabels, NEW l \in Loop,
         loop' = [loop EXCEPT ![w] = l], l.sub = loop[w].sub, l.at \in Light,
         l.batch \subseteq Ids
  PROVE  Lands(w)
  <1>1. Attending(loop[w])
    BY UsageFacts DEF Naming
  <1>2. loop[w].sub \in Subs /\ cursor[loop[w].sub] \in {"active", "deregistered"}
    BY <1>1 DEF Attending, LoopLabels
  <1>3. Attending(l)
    BY <1>2 DEF Attending, Light, EventLabels
  <1>4. Naming(l)
    BY <1>3 DEF Naming, Light
  <1> QED
    BY <1>4 DEF Lands

LEMMA GotoLight ==
  ASSUME UsageInv, NEW w \in Workers, loop[w].at \in LoopLabels, NEW label \in Light,
         Goto(w, label)
  PROVE  Lands(w)
  <1>1. loop[w] \in Loop /\ loop \in [Workers -> Loop] /\ loop[w].batch \subseteq Ids
    BY UsageFacts DEF Naming
  <1> DEFINE l == [loop[w] EXCEPT !.at = label]
  <1>2. /\ l \in Loop /\ l.sub = loop[w].sub /\ l.at = label /\ l.batch = loop[w].batch
    BY <1>1 DEF Loop, Light
  <1>3. loop' = [loop EXCEPT ![w] = l]
    BY DEF Goto
  <1> HIDE DEF l
  <1> QED
    BY <1>1, <1>2, <1>3, LightLands

LEMMA EndTickLight == \A w \in Workers : EndTick(w) \in Light
  BY DEF EndTick, Light, Labels, EventLabels

(* Between the statements of processEvent() the event stays.               *)
LEMMA EventLands ==
  ASSUME UsageInv, NEW w \in Workers, loop[w].at \in EventLabels, NEW l \in Loop,
         loop' = [loop EXCEPT ![w] = l], l.sub = loop[w].sub, l.at \in EventLabels,
         l.batch = loop[w].batch, l.event = loop[w].event,
         l.at \in {"handle", "unretry", "ack", "retry", "sleep"} => l.tries <= MaxRetries,
         l.at = "retry" => l.tries >= 1
  PROVE  Lands(w)
  <1>1. Naming(loop[w]) /\ Attending(loop[w])
    BY UsageFacts DEF Naming
  <1>2. loop[w].sub \in Subs /\ cursor[loop[w].sub] \in {"active", "deregistered"}
    BY <1>1 DEF Attending, LoopLabels, EventLabels, Labels
  <1>3. Attending(l)
    BY <1>2 DEF Attending, EventLabels
  <1>4. Naming(l)
    BY <1>1, <1>3 DEF Naming, EventLabels
  <1> QED
    BY <1>4 DEF Lands

LEMMA EventUses ==
  ASSUME UsageInv, NEW w \in Workers, loop[w].at \in EventLabels
  PROVE  /\ Mine(w) \in Subs /\ cursor[Mine(w)] \in {"active", "deregistered"}
         /\ loop[w].event \in Ids /\ loop[w].event \in 1 .. MaxEvents
         /\ loop[w].tries \in 0 .. MaxRetries + 1
         /\ loop[w].at \in {"handle", "unretry", "ack", "retry", "sleep"} =>
              loop[w].tries <= MaxRetries
  <1>1. Naming(loop[w]) /\ Attending(loop[w]) /\ loop[w] \in Loop
    BY UsageFacts DEF Naming
  <1>2. loop[w].event \in Ids /\ loop[w].event \in 1 .. MaxEvents
    BY <1>1, UsageFacts DEF Naming
  <1> QED
    BY <1>1, <1>2 DEF Attending, LoopLabels, EventLabels, Labels, Mine, Loop

LEMMA CaughtLands ==
  ASSUME UsageInv, NEW w \in Workers, loop[w].at \in {"handle", "unretry", "ack"}, Caught(w)
  PROVE  Lands(w)
  <1>1. loop[w] \in Loop /\ MaxRetries \in Nat /\ loop[w].at \in EventLabels
    BY UsageFacts DEF EventLabels
  <1>2. loop[w].tries \in 0 .. MaxRetries
    BY <1>1, EventUses
  <1>3. PICK n \in 0 .. MaxRetries + 1 : n = loop[w].tries + 1 /\ n >= 1
    BY <1>1, <1>2
  <1>4. PICK label \in {"bury", "retry"} : label = IF n > MaxRetries THEN "bury" ELSE "retry"
    OBVIOUS
  <1>5. /\ label \in Labels /\ label \in EventLabels
        /\ label \notin {"handle", "unretry", "ack", "sleep"}
        /\ label = "retry" => n <= MaxRetries /\ n >= 1
    BY <1>1, <1>3, <1>4 DEF Labels, EventLabels
  <1> DEFINE l == [loop[w] EXCEPT !.tries = n, !.at = label]
  <1>6. /\ l \in Loop /\ l.at = label /\ l.sub = loop[w].sub /\ l.event = loop[w].event
        /\ l.batch = loop[w].batch /\ l.tries = n
    BY <1>1, <1>3, <1>5 DEF Loop
  <1>7. loop' = [loop EXCEPT ![w] = l]
    BY <1>3, <1>4, UsageFacts DEF Caught
  <1> HIDE DEF l
  <1> QED
    BY <1>1, <1>5, <1>6, <1>7, EventLands

LEMMA GotoEvent ==
  ASSUME UsageInv, NEW w \in Workers, loop[w].at \in EventLabels,
         NEW label \in EventLabels, Goto(w, label), label # "retry",
         label \in {"handle", "unretry", "ack", "sleep"} => loop[w].tries <= MaxRetries
  PROVE  Lands(w)
  <1> DEFINE l == [loop[w] EXCEPT !.at = label]
  <1>1. loop[w] \in Loop /\ loop \in [Workers -> Loop]
    BY UsageFacts
  <1>2. label \in Labels
    BY DEF EventLabels, Labels
  <1>3. /\ l \in Loop /\ l.at = label /\ l.sub = loop[w].sub /\ l.event = loop[w].event
        /\ l.batch = loop[w].batch /\ l.tries = loop[w].tries
    BY <1>1, <1>2 DEF Loop
  <1>4. loop' = [loop EXCEPT ![w] = l]
    BY DEF Goto
  <1> HIDE DEF l
  <1> QED
    BY <1>3, <1>4, EventLands
(* Steps of the loop between two statements.                               *)
LEMMA BetweenUses ==
  ASSUME UsageInv, NEW w \in Workers,
         \/ Resume(w) \/ Restart(w) \/ StartTick(w) \/ DrainPick(w) \/ DrainDone(w)
         \/ ReplayThrows(w) \/ PollCursor(w) \/ PollOldest(w) \/ PollSelect(w)
         \/ Take(w) \/ BatchDone(w) \/ Awake(w)
  PROVE  Uses
  <1>1. /\ loop \in [Workers -> Loop] /\ loop[w] \in Loop /\ Naming(loop[w])
        /\ Attending(loop[w]) /\ Typed /\ live \subseteq Ids /\ Ids \subseteq 1 .. MaxEvents
        /\ MaxEvents \in Nat /\ MaxRetries \in Nat
    BY UsageFacts DEF Naming
  <1>2. SUFFICES Lands(w)
    BY LoopOnlyUses DEF Resume, Restart, StartTick, DrainPick, DrainDone, ReplayThrows,
                        PollCursor, PollOldest, PollSelect, Take, BatchDone, Awake
  <1>3. CASE Resume(w)
    <2>1. PICK s \in Subs : ActiveConsumer(s)
                            /\ loop' = [loop EXCEPT ![w].sub = s, ![w].at = "idle"]
      BY <1>3 DEF Resume
    <2> DEFINE l == [loop[w] EXCEPT !.sub = s, !.at = "idle"]
    <2>2. l \in Loop /\ l.at = "idle" /\ l.sub = s /\ l.batch = loop[w].batch
      BY <1>1 DEF Loop, Labels
    <2>3. loop' = [loop EXCEPT ![w] = l]
      BY <1>1, <2>1
    <2> HIDE DEF l
    <2>4. Naming(l)
      BY <1>1, <2>1, <2>2 DEF Naming, Attending, EventLabels, ActiveConsumer
    <2> QED
      BY <2>2, <2>3, <2>4 DEF Lands
  <1>4. CASE Restart(w)
    <2> DEFINE l == Halted("start")
    <2>1. l \in Loop /\ l.at = "start" /\ l.batch = {}
      BY <1>1 DEF Loop, Labels, Halted
    <2>2. loop' = [loop EXCEPT ![w] = l]
      BY <1>4 DEF Restart
    <2> HIDE DEF l
    <2>3. Naming(l)
      BY <2>1 DEF Naming, Attending, EventLabels, LoopLabels
    <2> QED
      BY <2>1, <2>2, <2>3 DEF Lands
  <1>5. ASSUME NEW label \in Light, loop[w].at \in LoopLabels, Goto(w, label)
        PROVE  Lands(w)
    BY <1>5, GotoLight
  <1>6. CASE StartTick(w) \/ DrainDone(w) \/ BatchDone(w)
    <2>1. {"drain", "poll"} \subseteq Light
      BY DEF Light, Labels, EventLabels
    <2> QED
      BY <1>5, <1>6, <2>1, EndTickLight
         DEF StartTick, DrainDone, BatchDone, At, LoopLabels, Labels
  <1>7. CASE DrainPick(w)
    <2>1. PICK d \in Asked(w) : loop' = [loop EXCEPT ![w].letter = d, ![w].at = "replay"]
      BY <1>7 DEF DrainPick
    <2>2. d \in DOMAIN dlq /\ d \in Nat
      BY <2>1, UsageFacts DEF Asked, RowsTyped
    <2> DEFINE l == [loop[w] EXCEPT !.letter = d, !.at = "replay"]
    <2>3. l \in Loop /\ l.at = "replay" /\ l.sub = loop[w].sub /\ l.letter = d
          /\ l.batch = loop[w].batch
      BY <1>1, <2>2 DEF Loop, Labels
    <2>4. loop' = [loop EXCEPT ![w] = l]
      BY <1>1, <2>1
    <2> HIDE DEF l
    <2>5. loop[w].sub \in Subs /\ cursor[loop[w].sub] \in {"active", "deregistered"}
      BY <1>1, <1>7 DEF Attending, LoopLabels, Labels, DrainPick, At
    <2>6. Naming(l)
      BY <1>1, <2>2, <2>3, <2>5 DEF Naming, Attending, EventLabels
    <2> QED
      BY <2>3, <2>4, <2>6 DEF Lands
  <1>8. CASE ReplayThrows(w)
    <2> DEFINE l == [loop[w] EXCEPT !.at = "replayKeep"]
    <2>1. l \in Loop /\ l.at = "replayKeep" /\ l.sub = loop[w].sub
          /\ l.letter = loop[w].letter /\ l.batch = loop[w].batch
      BY <1>1 DEF Loop, Labels
    <2>2. loop' = [loop EXCEPT ![w] = l] /\ loop[w].at = "replay"
      BY <1>8 DEF ReplayThrows, Goto, At
    <2> HIDE DEF l
    <2>3. Naming(l)
      BY <1>1, <2>1, <2>2 DEF Naming, Attending, EventLabels, LoopLabels, Labels
    <2> QED
      BY <2>1, <2>2, <2>3 DEF Lands
  <1>9. CASE PollCursor(w)
    <2>1. loop[w].at \in LoopLabels
      BY <1>9 DEF PollCursor, At, LoopLabels, Labels
    <2>2. CASE CursorOpen(w)
      <3>1. PICK n \in Int : n = pos[Mine(w)]
        BY <1>1, <2>1 DEF Typed, TypeOK, Attending, LoopLabels, Mine
      <3> DEFINE l == [loop[w] EXCEPT !.floor = n, !.at = "oldest"]
      <3>2. l \in Loop /\ l.at = "oldest" /\ l.sub = loop[w].sub /\ l.batch = loop[w].batch
        BY <1>1 DEF Loop, Labels
      <3>3. loop' = [loop EXCEPT ![w] = l]
        BY <1>1, <1>9, <2>2, <3>1 DEF PollCursor
      <3>4. "oldest" \in Light
        BY DEF Light, Labels, EventLabels
      <3> HIDE DEF l
      <3> QED
        BY <1>1, <2>1, <3>2, <3>3, <3>4, LightLands DEF Naming
    <2>3. CASE ~CursorOpen(w)
      BY <1>5, <1>9, <2>1, <2>3, EndTickLight DEF PollCursor
    <2> QED
      BY <2>2, <2>3
  <1>10. CASE PollOldest(w)
    <2>1. loop[w].at \in LoopLabels
      BY <1>10 DEF PollOldest, At, LoopLabels, Labels
    <2>2. CASE Goto(w, "select")
      <3>1. "select" \in Light
        BY DEF Light, Labels, EventLabels
      <3> QED
        BY <1>5, <2>1, <2>2, <3>1
    <2>3. ASSUME NEW m \in live, loop' = [loop EXCEPT ![w].floor = m - 1, ![w].at = "reanchor"]
          PROVE  Lands(w)
      <3>1. PICK n \in Int : n = m - 1 /\ n \in 0 .. MaxEvents
        BY <1>1
      <3> DEFINE l == [loop[w] EXCEPT !.floor = n, !.at = "reanchor"]
      <3>2. /\ l \in Loop /\ l.at = "reanchor" /\ l.sub = loop[w].sub
            /\ l.batch = loop[w].batch /\ l.floor = n
        BY <1>1, <3>1 DEF Loop, Labels
      <3>3. loop' = [loop EXCEPT ![w] = l]
        BY <1>1, <2>3, <3>1
      <3> HIDE DEF l
      <3>4. Naming(l)
        BY <1>1, <2>1, <3>1, <3>2 DEF Naming, Attending, EventLabels, LoopLabels
      <3> QED
        BY <3>2, <3>3, <3>4 DEF Lands
    <2> QED
      BY <1>10, <2>2, <2>3 DEF PollOldest
  <1>11. CASE PollSelect(w)
    <2> DEFINE page == Page(Mine(w), loop[w].floor)
               l == [loop[w] EXCEPT !.batch = page, !.at = "next"]
    <2>1. page \subseteq Ids
      BY <1>1 DEF Page, Ahead
    <2> HIDE DEF page
    <2>2. l \in Loop /\ l.at = "next" /\ l.sub = loop[w].sub /\ l.batch = page
      BY <1>1, <2>1 DEF Loop, Labels
    <2>3. loop' = [loop EXCEPT ![w] = l] /\ loop[w].at \in LoopLabels /\ "next" \in Light
      BY <1>1, <1>11 DEF PollSelect, At, LoopLabels, Labels, Light, EventLabels, page
    <2> HIDE DEF l
    <2> QED
      BY <2>1, <2>2, <2>3, LightLands
  <1>12. CASE Take(w)
    <2>1. PICK e \in loop[w].batch :
            loop' = [loop EXCEPT ![w].event = e, ![w].batch = @ \ {e},
                                 ![w].tries = attempts[Mine(w)][e], ![w].at = "handle"]
      BY <1>12 DEF Take
    <2>2. e \in Ids /\ e \in 0 .. MaxEvents /\ e \in 1 .. MaxEvents
      <3>1. e \in 1 .. MaxEvents /\ e \in Ids
        BY <1>1 DEF Naming
      <3> QED
        BY <1>1, <3>1
    <2>3. loop[w].sub \in Subs /\ cursor[loop[w].sub] \in {"active", "deregistered"}
      BY <1>1, <1>12 DEF Attending, LoopLabels, Labels, Take, At
    <2>4. PICK n \in 0 .. MaxRetries : n = attempts[Mine(w)][e]
      BY <2>2, <2>3, UsageFacts DEF Sized, Mine
    <2> DEFINE l == [loop[w] EXCEPT !.event = e, !.batch = @ \ {e}, !.tries = n, !.at = "handle"]
    <2>5. n \in 0 .. MaxRetries + 1 /\ n <= MaxRetries
      BY <1>1, <2>4
    <2>6. /\ l \in Loop /\ l.at = "handle" /\ l.sub = loop[w].sub /\ l.event = e
          /\ l.batch = loop[w].batch \ {e} /\ l.tries = n
      BY <1>1, <2>2, <2>5 DEF Loop, Labels
    <2>7. loop' = [loop EXCEPT ![w] = l]
      BY <1>1, <2>1, <2>4
    <2> HIDE DEF l
    <2>8. Naming(l)
      BY <1>1, <2>2, <2>3, <2>5, <2>6 DEF Naming, Attending
    <2> QED
      BY <2>6, <2>7, <2>8 DEF Lands
  <1>13. CASE Awake(w)
    <2>1. loop[w].at = "sleep" /\ loop[w].at \in EventLabels /\ loop[w].tries <= MaxRetries
      BY <1>13, EventUses DEF Awake, At, EventLabels
    <2>2. PICK label \in {"bury", "handle"} : Goto(w, label)
      BY <1>13 DEF Awake
    <2> QED
      BY <2>1, <2>2, GotoEvent DEF EventLabels
  <1> QED
    BY <1>3, <1>4, <1>6, <1>7, <1>8, <1>9, <1>10, <1>11, <1>12, <1>13

(* What settles an event, what moves a dead letter, and the faults.        *)
LEMMA RowUses ==
  ASSUME UsageInv, NEW w \in Workers,
         \/ ReplayReturns(w) \/ ReplayDelete(w) \/ ReplayKeep(w)
         \/ HandlerReturns(w) \/ HandlerThrows(w) \/ Bury(w)
  PROVE  Uses
  <1>1. /\ loop \in [Workers -> Loop] /\ loop[w] \in Loop /\ Naming(loop[w])
        /\ Attending(loop[w]) /\ RowsTyped /\ SubscriberTypeOK
        /\ MaxEvents \in Nat /\ MaxRetries \in Nat
    BY UsageFacts DEF Naming
  <1>2. CASE ReplayReturns(w)
    <2>1. /\ loop[w].at = "replay" /\ loop[w].letter \in DOMAIN dlq /\ Mine(w) \in Subs
          /\ Goto(w, "replayDelete")
      BY <1>1, <1>2 DEF ReplayReturns, At, Attending, Mine
    <2>2. PICK i \in 1 .. MaxEvents : i = dlq[loop[w].letter].event
      <3>1. dlq[loop[w].letter] \in Letter
        BY <1>1, <2>1 DEF RowsTyped
      <3> QED
        BY <3>1 DEF Letter
    <2>3. handled' \subseteq Subs \X (1 .. MaxEvents)
      <3>1. handled' = handled \cup {<<Mine(w), i>>}
        BY <1>2, <2>2 DEF ReplayReturns
      <3> QED
        BY <1>1, <2>1, <3>1 DEF RowsTyped
    <2>4. RowsTyped' /\ UNCHANGED <<vars, dlq>>
      BY <1>1, <1>2, <2>3 DEF ReplayReturns, RowsTyped
    <2> DEFINE l == [loop[w] EXCEPT !.at = "replayDelete"]
    <2>5. /\ l \in Loop /\ l.at = "replayDelete" /\ l.sub = loop[w].sub
          /\ l.letter = loop[w].letter /\ l.batch = loop[w].batch
      BY <1>1 DEF Loop, Labels
    <2>6. loop' = [loop EXCEPT ![w] = l]
      BY <2>1 DEF Goto
    <2> HIDE DEF l
    <2>7. Naming(l)
      BY <1>1, <2>1, <2>5 DEF Naming, Attending, EventLabels, LoopLabels, Labels
    <2> QED
      BY <2>4, <2>5, <2>6, <2>7, LocalUses DEF Lands
  <1>3. CASE ReplayDelete(w) \/ ReplayKeep(w)
    <2>1. loop[w].letter \in DOMAIN dlq /\ loop[w].at \in LoopLabels
      BY <1>1, <1>3 DEF ReplayDelete, ReplayKeep, At, Attending, LoopLabels, Labels
    <2>2. dlq' \in Seq(Letter) /\ DOMAIN dlq' = DOMAIN dlq
      <3> DEFINE d == loop[w].letter
      <3>1. CASE ReplayDelete(w)
        BY <1>1, <2>1, <3>1, LetterChange DEF ReplayDelete
      <3>2. CASE ReplayKeep(w)
        <4>1. PICK to \in {"kept", "asked", "gone"} :
                to = IF dlq[d].state = "gone" THEN dlq[d].state ELSE "kept"
          OBVIOUS
        <4>2. dlq' = [dlq EXCEPT ![d].state = to]
          BY <2>1, <3>2, <4>1 DEF ReplayKeep
        <4> QED
          BY <1>1, <2>1, <4>2, LetterChange
      <3> QED
        BY <1>3, <3>1, <3>2
    <2>3. RowsTyped' /\ UNCHANGED vars
      BY <1>1, <1>3, <2>2 DEF RowsTyped, ReplayDelete, ReplayKeep, ghosts
    <2>4. PICK label \in Light : Goto(w, label)
      <3>1. {"drain", "poll"} \subseteq Light
        BY DEF Light, Labels, EventLabels
      <3> QED
        BY <1>3, <3>1, EndTickLight DEF ReplayDelete, ReplayKeep
    <2> QED
      BY <2>1, <2>2, <2>3, <2>4, GotoLight, LocalUses
  <1>4. CASE HandlerReturns(w)
    <2>1. loop[w].at = "handle" /\ loop[w].at \in EventLabels /\ Goto(w, "unretry")
      BY <1>4 DEF HandlerReturns, At, EventLabels
    <2>2. Mine(w) \in Subs /\ loop[w].event \in 1 .. MaxEvents /\ loop[w].tries <= MaxRetries
      BY <2>1, EventUses
    <2>3. RowsTyped' /\ UNCHANGED <<vars, dlq>>
      BY <1>1, <1>4, <2>2 DEF HandlerReturns, RowsTyped
    <2>4. Lands(w)
      BY <2>1, <2>2, GotoEvent DEF EventLabels
    <2> QED
      BY <2>3, <2>4, LocalUses
  <1>5. CASE HandlerThrows(w)
    <2>1. loop[w].at = "handle" /\ loop[w].at \in EventLabels /\ Caught(w)
      BY <1>5 DEF HandlerThrows, At, EventLabels
    <2>2. Mine(w) \in Subs /\ loop[w].event \in 1 .. MaxEvents
      BY <2>1, EventUses
    <2>3. failures \in [Subs -> [1 .. MaxEvents -> 0 .. MaxRetries + 1]]
      BY <1>1 DEF RowsTyped
    <2>4. failures[Mine(w)][loop[w].event] \in 0 .. MaxRetries + 1
      BY <2>2, <2>3
    <2>5. PICK m \in 0 .. MaxRetries + 1 :
            m = IF failures[Mine(w)][loop[w].event] > MaxRetries
                THEN failures[Mine(w)][loop[w].event] ELSE failures[Mine(w)][loop[w].event] + 1
      BY <1>1, <2>4
    <2>6. failures' = [failures EXCEPT ![Mine(w)][loop[w].event] = m]
      BY <1>5, <2>2, <2>3, <2>5 DEF HandlerThrows
    <2>7. failures' \in [Subs -> [1 .. MaxEvents -> 0 .. MaxRetries + 1]]
      BY <2>2, <2>3, <2>6
    <2>8. RowsTyped' /\ UNCHANGED <<vars, dlq>>
      BY <1>1, <1>5, <2>7 DEF HandlerThrows, RowsTyped
    <2> QED
      BY <2>1, <2>8, CaughtLands, LocalUses
  <1>6. CASE Bury(w)
    <2>1. loop[w].at = "bury" /\ loop[w].at \in EventLabels /\ Goto(w, "buryClean")
      BY <1>6 DEF Bury, At, EventLabels
    <2>2. Mine(w) \in Subs /\ loop[w].event \in 1 .. MaxEvents
      BY <2>1, EventUses
    <2>3. PICK r \in Letter : dlq' = Append(dlq, r)
      <3>1. PICK why \in {"exhausted", "shutdown"} :
              why = IF loop[w].tries > MaxRetries THEN "exhausted" ELSE "shutdown"
        OBVIOUS
      <3> DEFINE r == [sub |-> Mine(w), event |-> loop[w].event, state |-> "kept",
                       reason |-> why]
      <3>2. r \in Letter
        BY <2>2 DEF Letter
      <3>3. dlq' = Append(dlq, r)
        BY <1>6, <3>1 DEF Bury
      <3> QED
        BY <3>2, <3>3
    <2>4. dlq' \in Seq(Letter) /\ DOMAIN dlq \subseteq DOMAIN dlq'
      BY <1>1, <2>3 DEF RowsTyped
    <2>5. RowsTyped' /\ UNCHANGED vars
      BY <1>1, <1>6, <2>2, <2>4 DEF RowsTyped, Bury
    <2>6. Lands(w)
      BY <2>1, GotoEvent DEF EventLabels
    <2> QED
      BY <2>4, <2>5, <2>6, LocalUses
  <1> QED
    BY <1>2, <1>3, <1>4, <1>5, <1>6

LEMMA DisturbUses ==
  ASSUME UsageInv, NEW w \in Workers, Disturb(w)
  PROVE  Uses
  <1>1. /\ loop \in [Workers -> Loop] /\ loop[w] \in Loop /\ Naming(loop[w])
        /\ Attending(loop[w]) /\ RowsTyped /\ SubscriberTypeOK /\ MaxRetries \in Nat
    BY UsageFacts DEF Naming
  <1>2. /\ spent' \in [DOMAIN Budget -> Nat] /\ UNCHANGED <<vars, dlq, ghosts>>
    <2>1. /\ {"crash", "dberror", "stop", "any"} \subseteq DOMAIN Budget
      BY SubscriberAssumption
    <2>2. PICK kind \in {"crash", "dberror", "stop"} : Spend(kind)
      BY DEF Disturb, DbError, Stop, Crash
    <2> QED
      BY <1>1, <2>1, <2>2, SpendTyped DEF Disturb, DbError, Stop, Crash
  <1>3. RowsTyped' /\ UNCHANGED <<vars, dlq>>
    BY <1>1, <1>2 DEF RowsTyped, ghosts
  <1>4. SUFFICES Lands(w)
    BY <1>3, LocalUses
  <1>5. ASSUME loop' = [loop EXCEPT ![w] = Halted("down")] PROVE Lands(w)
    <2> DEFINE l == Halted("down")
    <2>1. l \in Loop /\ l.at = "down" /\ l.batch = {}
      BY UsageFacts DEF Loop, Labels, Halted
    <2>2. loop' = [loop EXCEPT ![w] = l]
      BY <1>5
    <2> HIDE DEF l
    <2>3. Naming(l)
      BY <2>1 DEF Naming, Attending, EventLabels, LoopLabels
    <2> QED
      BY <2>1, <2>2, <2>3 DEF Lands
  <1>6. CASE DbError(w)
    <2>1. ASSUME loop[w].at \in {"unretry", "ack"}, Caught(w) PROVE Lands(w)
      BY <2>1, CaughtLands
    <2>2. ASSUME At(w, "replayDelete"), Goto(w, "replayKeep") PROVE Lands(w)
      <3> DEFINE l == [loop[w] EXCEPT !.at = "replayKeep"]
      <3>1. /\ l \in Loop /\ l.at = "replayKeep" /\ l.sub = loop[w].sub
            /\ l.letter = loop[w].letter /\ l.batch = loop[w].batch
        BY <1>1 DEF Loop, Labels
      <3>2. loop' = [loop EXCEPT ![w] = l] /\ loop[w].at = "replayDelete"
        BY <2>2 DEF Goto, At
      <3> HIDE DEF l
      <3>3. Naming(l)
        BY <1>1, <3>1, <3>2 DEF Naming, Attending, EventLabels, LoopLabels, Labels
      <3> QED
        BY <3>1, <3>2, <3>3 DEF Lands
    <2>3. ASSUME loop[w].at \in LoopLabels, Goto(w, EndTick(w)) PROVE Lands(w)
      BY <2>3, EndTickLight, GotoLight
    <2> QED
      BY <1>5, <1>6, <2>1, <2>2, <2>3 DEF DbError, At, LoopLabels, Labels
  <1>7. CASE Crash(w)
    BY <1>5, <1>7 DEF Crash
  <1>8. CASE Stop(w)
    <2>1. loop[w].at \in {"idle", "replay", "handle", "next", "sleep"}
      BY <1>8 DEF Stop
    <2>2. PICK label \in {"stopped", "bury", "replay", "handle", "next"} :
            /\ label = IF loop[w].at = "idle" THEN "stopped"
                       ELSE IF loop[w].at = "sleep" THEN "bury" ELSE loop[w].at
      BY <2>1
    <2> DEFINE l == [loop[w] EXCEPT !.halting = TRUE, !.at = label]
    <2>3. /\ l \in Loop /\ l.at = label /\ l.sub = loop[w].sub /\ l.event = loop[w].event
          /\ l.batch = loop[w].batch /\ l.tries = loop[w].tries /\ l.letter = loop[w].letter
      BY <1>1, <2>2 DEF Loop, Labels
    <2>4. loop' = [loop EXCEPT ![w] = l]
      BY <1>1, <1>8, <2>1, <2>2 DEF Stop
    <2> HIDE DEF l
    <2>5. Attending(l)
      BY <1>1, <2>1, <2>2, <2>3 DEF Attending, LoopLabels, Labels
    <2>6. l.at \in EventLabels => loop[w].at \in EventLabels
      BY <2>1, <2>2, <2>3 DEF EventLabels
    <2>7. Naming(l)
      BY <1>1, <2>2, <2>3, <2>5, <2>6 DEF Naming
    <2> QED
      BY <2>3, <2>4, <2>7 DEF Lands
  <1> QED
    BY <1>6, <1>7, <1>8 DEF Disturb

(* A call of the store by a worker or an operator.                         *)
LEMMA StoreUses ==
  ASSUME UsageInv, Next, RowsTyped', UNCHANGED <<log, dlq>>,
         UNCHANGED loop \/ \E w \in Workers : Lands(w),
         attempts' \in [Subs -> [1 .. MaxEvents -> 0 .. MaxRetries]],
         \A s \in Subs : /\ sub'[s] = "absent" => cursor'[s] = "absent"
                         /\ cursor[s] \in {"active", "deregistered"} =>
                              cursor'[s] \in {"active", "deregistered"}
  PROVE  Uses
  <1>1. Keeps
    BY DEF Keeps, Ids
  <1>2. Sized'
    BY UsageFacts DEF Sized
  <1> QED
    BY <1>1, <1>2, UsageKeeps DEF Uses

LEMMA AckUses ==
  ASSUME UsageInv, NEW w \in Workers, Lands(w), NEW s \in Subs, NEW n \in 0 .. MaxEvents,
         Ack(s, n), StoreToo
  PROVE  Uses
  <1>1. Next
    BY DEF Consume, Next
  <1>2. RowsTyped' /\ UNCHANGED dlq
    BY UsageFacts DEF RowsTyped, StoreToo, ghosts
  <1>3. UNCHANGED <<log, sub, cursor, attempts>>
    BY DEF Ack, MoveCursor, tables
  <1> QED
    BY <1>1, <1>2, <1>3, UsageFacts, StoreUses DEF Sized

LEMMA AckStepUses ==
  ASSUME UsageInv, NEW w \in Workers, AckEvent(w) \/ BuryAck(w) \/ Reanchor(w)
  PROVE  Uses
  <1>1. Naming(loop[w]) /\ loop[w].at \in LoopLabels /\ Mine(w) \in Subs
        /\ MaxEvents \in Nat /\ StoreToo
    BY UsageFacts DEF AckEvent, BuryAck, Reanchor, At, LoopLabels, Labels
  <1>2. ASSUME UNCHANGED vars, Lands(w) PROVE Uses
    BY <1>1, <1>2, LoopOnlyUses DEF LoopOnly, StoreToo
  <1>3. ASSUME NEW label \in Light, Goto(w, label) PROVE Lands(w)
    BY <1>1, <1>3, GotoLight
  <1>4. "next" \in Light
    BY DEF Light, Labels, EventLabels
  <1>5. CASE AckEvent(w) \/ BuryAck(w)
    <2>1. loop[w].at \in {"ack", "buryAck"} /\ loop[w].at \in EventLabels
      BY <1>5 DEF AckEvent, BuryAck, At, EventLabels
    <2>2. PICK n \in 0 .. MaxEvents : n = loop[w].event
      <3>1. loop[w].event \in 1 .. MaxEvents
        BY <2>1, EventUses
      <3> QED
        BY <1>1, <3>1
    <2>3. CASE Ack(Mine(w), loop[w].event) /\ Goto(w, "next")
      BY <1>1, <1>3, <1>4, <2>2, <2>3, AckUses
    <2>4. CASE UNCHANGED vars /\ Caught(w) /\ At(w, "ack")
      BY <1>2, <2>4, CaughtLands DEF At
    <2>5. CASE UNCHANGED vars /\ Goto(w, EndTick(w))
      BY <1>2, <1>3, <2>5, EndTickLight
    <2> QED
      BY <1>5, <2>3, <2>4, <2>5 DEF AckEvent, BuryAck
  <1>6. CASE Reanchor(w)
    <2>1. loop[w].floor \in 0 .. MaxEvents
      BY <1>1, <1>6 DEF Naming, Reanchor, At
    <2>2. Lands(w)
      BY <1>3, <1>6, EndTickLight DEF Reanchor
    <2>3. CASE Ack(Mine(w), loop[w].floor)
      BY <1>1, <2>1, <2>2, <2>3, AckUses
    <2>4. CASE UNCHANGED vars
      BY <1>2, <2>2, <2>4
    <2> QED
      BY <1>6, <2>3, <2>4 DEF Reanchor
  <1> QED
    BY <1>5, <1>6

LEMMA CounterUses ==
  ASSUME UsageInv, NEW w \in Workers, Unretry(w) \/ Retry(w) \/ BuryClean(w)
  PROVE  Uses
  <1>1. loop[w].at \in {"unretry", "retry", "buryClean"} /\ loop[w].at \in EventLabels
        /\ StoreToo
    BY DEF Unretry, Retry, BuryClean, At, EventLabels
  <1>2. PICK s \in Subs, i \in Ids :
          s = Mine(w) /\ i = loop[w].event /\ i \in 1 .. MaxEvents
    BY <1>1, EventUses
  <1>3. MaxRetries \in Nat /\ Naming(loop[w]) /\ Attending(loop[w]) /\ loop[w] \in Loop
    BY UsageFacts DEF Naming
  <1>4. Lands(w)
    <2>1. CASE Unretry(w)
      <3>1. loop[w].tries <= MaxRetries
        BY <1>1, <2>1, EventUses DEF Unretry, At
      <3> QED
        BY <1>1, <2>1, <3>1, GotoEvent DEF Unretry, EventLabels
    <2>2. CASE Retry(w)
      <3>1. loop[w].tries <= MaxRetries
        BY <1>1, <2>2, EventUses DEF Retry, At
      <3> QED
        BY <1>1, <2>2, <3>1, GotoEvent DEF Retry, EventLabels
    <2>3. CASE BuryClean(w)
      BY <1>1, <2>3, GotoEvent DEF BuryClean, EventLabels
    <2> QED
      BY <2>1, <2>2, <2>3
  <1>5. RowsTyped' /\ UNCHANGED dlq
    BY <1>1, UsageFacts DEF RowsTyped, StoreToo, ghosts
  <1>6. ASSUME NEW n \in 0 .. MaxRetries,
               \/ n \in 1 .. MaxRetries /\ UpsertAttempt(s, i, n)
               \/ n = 0 /\ DeleteAttempt(s, i)
        PROVE  Uses
    <2>1. Next
      BY <1>6 DEF Consume, Next
    <2>2. UNCHANGED <<log, sub, cursor>> /\ attempts' = [attempts EXCEPT ![s][i] = n]
      BY <1>6 DEF UpsertAttempt, DeleteAttempt, tables
    <2>3. attempts' \in [Subs -> [1 .. MaxEvents -> 0 .. MaxRetries]]
      BY <1>2, <2>2, UsageFacts DEF Sized
    <2> QED
      BY <1>4, <1>5, <2>1, <2>2, <2>3, UsageFacts, StoreUses DEF Sized
  <1>7. CASE Unretry(w) \/ BuryClean(w)
    BY <1>2, <1>3, <1>6, <1>7 DEF Unretry, BuryClean
  <1>8. CASE Retry(w)
    <2>1. PICK n \in 1 .. MaxRetries : n = loop[w].tries
      BY <1>3, <1>8 DEF Retry, At, Attending, Loop
    <2>2. n \in 0 .. MaxRetries
      BY <1>3
    <2> QED
      BY <1>2, <1>6, <1>8, <2>1, <2>2 DEF Retry
  <1> QED
    BY <1>7, <1>8

LEMMA RegisterUses ==
  ASSUME UsageInv, NEW w \in Workers, RegisterNew(w) \/ RegisterRest(w)
  PROVE  Uses
  <1>1. /\ loop \in [Workers -> Loop] /\ loop[w] \in Loop /\ Naming(loop[w])
        /\ Sized /\ RowsTyped
        /\ sub \in [Subs -> {"absent", "active", "deregistered"}]
        /\ cursor \in [Subs -> {"absent", "reading", "inserting", "active", "deregistered"}]
    BY UsageFacts
  <1>2. RowsTyped' /\ UNCHANGED dlq
    BY <1>1 DEF RegisterNew, RegisterRest, RowsTyped, StoreToo, ghosts
  <1>3. CASE RegisterNew(w)
    <2>1. PICK s \in Subs, init \in {"oldest", "latest"} :
            /\ RegisterSubscription(s, init)
            /\ loop' = [loop EXCEPT ![w].sub = s, ![w].at = "register"]
      BY <1>3 DEF RegisterNew
    <2>2. Next
      BY <2>1 DEF Register, Next
    <2>3. /\ UNCHANGED <<log, attempts>>
          /\ sub[s] = "absent" /\ sub' = [sub EXCEPT ![s] = "active"]
          /\ cursor'[s] \in {"reading", "inserting"} /\ cursor[s] = "absent"
          /\ \A r \in Subs : r # s => cursor'[r] = cursor[r]
      BY <1>1, <2>1 DEF RegisterSubscription, tables, Sized
    <2> DEFINE l == [loop[w] EXCEPT !.sub = s, !.at = "register"]
    <2>4. l \in Loop /\ l.at = "register" /\ l.sub = s /\ l.batch = loop[w].batch
      BY <1>1 DEF Loop, Labels
    <2>5. loop' = [loop EXCEPT ![w] = l]
      BY <1>1, <2>1
    <2> HIDE DEF l
    <2>6. Naming(l)
      BY <1>1, <2>4 DEF Naming, Attending, EventLabels, LoopLabels
    <2>7. Lands(w)
      BY <2>4, <2>5, <2>6 DEF Lands
    <2>8. \A r \in Subs : /\ sub'[r] = "absent" => cursor'[r] = "absent"
                          /\ cursor[r] \in {"active", "deregistered"} =>
                               cursor'[r] \in {"active", "deregistered"}
      BY <1>1, <2>3 DEF Sized
    <2> QED
      BY <1>1, <1>2, <2>2, <2>3, <2>7, <2>8, StoreUses DEF Sized
  <1>4. CASE RegisterRest(w)
    <2>1. PICK s \in Subs : s = Mine(w) /\ loop[w].sub = s /\ loop[w].at = "register"
      BY <1>1, <1>4 DEF RegisterRest, At, Naming, Attending, Mine
    <2>2. CASE RegisterReadHead(s) /\ UNCHANGED loop
      <3>1. Next
        BY <2>2 DEF Register, Next
      <3>2. /\ UNCHANGED <<log, sub, attempts>> /\ cursor[s] = "reading"
            /\ cursor' = [cursor EXCEPT ![s] = "inserting"]
        BY <2>2 DEF RegisterReadHead, tables
      <3>3. \A r \in Subs : /\ sub'[r] = "absent" => cursor'[r] = "absent"
                            /\ cursor[r] \in {"active", "deregistered"} =>
                                 cursor'[r] \in {"active", "deregistered"}
        BY <1>1, <3>2 DEF Sized
      <3> QED
        BY <1>1, <1>2, <2>2, <3>1, <3>2, <3>3, StoreUses DEF Sized
    <2>3. CASE RegisterCursor(s) /\ Goto(w, "idle")
      <3>1. Next
        BY <2>3 DEF Register, Next
      <3>2. /\ UNCHANGED <<log, sub, attempts>> /\ cursor[s] = "inserting"
            /\ cursor' = [cursor EXCEPT ![s] = "active"]
        BY <2>3 DEF RegisterCursor, tables
      <3>3. \A r \in Subs : /\ sub'[r] = "absent" => cursor'[r] = "absent"
                            /\ cursor[r] \in {"active", "deregistered"} =>
                                 cursor'[r] \in {"active", "deregistered"}
        BY <1>1, <3>2 DEF Sized
      <3>4. PICK l \in Loop : /\ l = [loop[w] EXCEPT !.at = "idle"]
                              /\ l.at = "idle" /\ l.sub = s /\ l.batch = loop[w].batch
        <4> DEFINE k == [loop[w] EXCEPT !.at = "idle"]
        <4>1. k \in Loop /\ k.at = "idle" /\ k.sub = s /\ k.batch = loop[w].batch
          BY <1>1, <2>1 DEF Loop, Labels
        <4> HIDE DEF k
        <4>2. \E l \in Loop : l = k /\ l.at = "idle" /\ l.sub = s /\ l.batch = loop[w].batch
          BY <4>1
        <4> QED
          BY <4>2 DEF k
      <3>5. loop' = [loop EXCEPT ![w] = l]
        BY <2>3, <3>4 DEF Goto
      <3>6. Naming(l)'
        <4>1. cursor'[s] = "active"
          BY <1>1, <3>2
        <4>2. Attending(l)'
          BY <3>4, <4>1 DEF Attending
        <4> QED
          BY <1>1, <3>2, <3>4, <4>2 DEF Naming, EventLabels, Ids
      <3>7. Lands(w)
        BY <3>4, <3>5, <3>6 DEF Lands
      <3> QED
        BY <1>1, <1>2, <3>1, <3>2, <3>3, <3>7, StoreUses DEF Sized
    <2> QED
      BY <1>4, <2>1, <2>2, <2>3 DEF RegisterRest
  <1> QED
    BY <1>3, <1>4

LEMMA OperateUses == ASSUME UsageInv, Operate PROVE Uses
  <1>1. /\ SubscriberTypeOK /\ RowsTyped /\ Sized
        /\ sub \in [Subs -> {"absent", "active", "deregistered"}]
        /\ cursor \in [Subs -> {"absent", "reading", "inserting", "active", "deregistered"}]
        /\ {"letter", "rewind", "deregister", "any"} \subseteq DOMAIN Budget
    BY UsageFacts, SubscriberAssumption
  <1>2. ASSUME NEW d \in DOMAIN dlq, NEW to \in {"asked", "gone"}, OperateLetter(d, to)
        PROVE  Uses
    <2>1. /\ dlq' = [dlq EXCEPT ![d].state = to] /\ Spend("letter")
          /\ UNCHANGED <<vars, loop, handled, buried, failures>>
      BY <1>2 DEF OperateLetter, ghosts
    <2>2. dlq' \in Seq(Letter) /\ DOMAIN dlq' = DOMAIN dlq
      BY <1>1, <2>1, LetterChange
    <2>3. spent' \in [DOMAIN Budget -> Nat]
      BY <1>1, <2>1, SpendTyped
    <2>4. RowsTyped'
      BY <1>1, <2>1, <2>2, <2>3 DEF RowsTyped
    <2> QED
      BY <2>1, <2>2, <2>4, LocalUses
  <1>3. ASSUME NEW s \in Subs, NEW from \in ReplayFrom, RewindCheck(s, from)
        PROVE  Uses
    <2>1. /\ ReplayCheck(s, from) /\ Spend("rewind") /\ Next
          /\ UNCHANGED <<loop, dlq, handled, buried, failures>>
      BY <1>3 DEF RewindCheck, ghosts, Consume, Next
    <2>2. spent' \in [DOMAIN Budget -> Nat]
      BY <1>1, <2>1, SpendTyped
    <2>3. RowsTyped' /\ UNCHANGED <<log, sub, cursor, attempts>>
      BY <1>1, <2>1, <2>2 DEF RowsTyped, ReplayCheck, tables
    <2> QED
      BY <1>1, <2>1, <2>3, StoreUses DEF Sized
  <1>4. ASSUME NEW s \in Subs, Rewind(s) PROVE Uses
    <2>1. /\ ReplayWrite(s) /\ Next /\ UNCHANGED <<loop, dlq, spent, failures>>
          /\ handled' \subseteq handled /\ buried' \subseteq buried
      BY <1>4 DEF Rewind, Consume, Next
    <2>2. RowsTyped' /\ UNCHANGED <<log, sub, cursor, attempts>>
      BY <1>1, <2>1 DEF RowsTyped, ReplayWrite, MoveCursor, tables
    <2> QED
      BY <1>1, <2>1, <2>2, StoreUses DEF Sized
  <1>5. ASSUME NEW s \in Subs, Unsubscribe(s) PROVE Uses
    <2>1. /\ Deregister(s) /\ Spend("deregister") /\ Next
          /\ UNCHANGED <<loop, dlq, handled, buried, failures>>
      BY <1>5 DEF Unsubscribe, ghosts, Next
    <2>2. spent' \in [DOMAIN Budget -> Nat]
      BY <1>1, <2>1, SpendTyped
    <2>3. /\ RowsTyped' /\ UNCHANGED <<log, attempts>>
          /\ sub' = [sub EXCEPT ![s] = "deregistered"]
          /\ cursor' = [cursor EXCEPT ![s] = IF cursor[s] = "active" THEN "deregistered"
                                             ELSE cursor[s]]
      BY <1>1, <2>1, <2>2 DEF RowsTyped, Deregister, tables
    <2>4. \A r \in Subs : /\ sub'[r] = "absent" => cursor'[r] = "absent"
                          /\ cursor[r] \in {"active", "deregistered"} =>
                               cursor'[r] \in {"active", "deregistered"}
      BY <1>1, <2>3 DEF Sized
    <2> QED
      BY <1>1, <2>1, <2>3, <2>4, StoreUses DEF Sized
  <1> QED
    BY <1>2, <1>3, <1>4, <1>5 DEF Operate

LEMMA BackgroundUses == ASSUME UsageInv, Background PROVE Uses
  <1>1. Next /\ UNCHANGED <<loop, dlq, spent, ghosts>>
    BY DEF Background, Next
  <1>2. RowsTyped' /\ Typed /\ Typed' /\ Sized
    BY <1>1, UsageFacts, TypedNext DEF RowsTyped, ghosts
  <1>3. UNCHANGED <<sub, cursor, attempts>>
    BY DEF Background, Emit, EmitBegin, EmitInsert, EmitConflict, EmitRelease,
           EmitDuplicate, EmitFails, EmitStop, Accept, AcceptRow, Sweep, Tick, subscribers
  <1>4. Ids \subseteq Ids' /\ Len(log') <= MaxEvents
    <2>1. CASE UNCHANGED log
      BY <1>2, <2>1 DEF Ids, Sized
    <2>2. ASSUME NEW p \in Producers, step[p] \in {"insert", "release"}, Accept(p)
          PROVE  Ids \subseteq Ids' /\ Len(log') <= MaxEvents
      <3>1. draft[p] \in Row /\ Len(log) < MaxEvents
        BY <1>2, <2>2 DEF Typed, Accept, AcceptRow
      <3>2. Len(log') = Len(log) + 1 /\ Ids \subseteq Ids'
        BY <1>2, <2>2, <3>1, AcceptExtendsLog DEF Typed
      <3> QED
        BY <3>1, <3>2, UsageFacts
    <2>3. UNCHANGED log \/ \E p \in Producers : step[p] \in {"insert", "release"} /\ Accept(p)
      BY DEF Background, Emit, EmitBegin, EmitInsert, EmitConflict, EmitRelease,
             EmitDuplicate, EmitFails, EmitStop, Sweep, Tick, tables
    <2> QED
      BY <2>1, <2>2, <2>3
  <1>5. Keeps /\ Sized'
    BY <1>1, <1>2, <1>3, <1>4 DEF Keeps, Sized
  <1> QED
    BY <1>1, <1>2, <1>5, UsageKeeps DEF Uses

LEMMA UsageInit == SubscriberInit => UsageInv /\ Init
  <1> SUFFICES ASSUME SubscriberInit PROVE UsageInv /\ Init
    OBVIOUS
  <1>1. SubscriberTypeOK /\ Sized
    BY InvInit DEF SubscriberInv, InvAt, Bounded, Sized
  <1>2. ASSUME NEW w \in Workers PROVE Naming(loop[w])
    <2>1. loop[w].at = "start" /\ loop[w].batch = {}
      BY DEF SubscriberInit, Halted
    <2> QED
      BY <2>1 DEF Naming, Attending, EventLabels, LoopLabels
  <1> QED
    BY <1>1, <1>2, TypedInit DEF UsageInv, SubscriberInit

LEMMA UsageStep ==
  ASSUME UsageInv, [SubscriberNext]_subscriberVars
  PROVE  UsageInv' /\ [Next]_vars
  <1>1. ASSUME NEW w \in Workers, Run(w) PROVE Uses
    BY <1>1, BetweenUses, RowUses, AckStepUses, CounterUses, RegisterUses DEF Run
  <1>2. ASSUME NEW w \in Workers, Disturb(w) PROVE Uses
    BY <1>2, DisturbUses
  <1>3. CASE UNCHANGED subscriberVars
    <2>1. UNCHANGED <<vars, loop, dlq, spent, handled, buried, failures>>
      BY <1>3 DEF subscriberVars, ghosts
    <2>2. RowsTyped'
      BY <2>1, UsageFacts DEF RowsTyped
    <2> QED
      BY <2>1, <2>2, LocalUses DEF Uses
  <1> QED
    BY <1>1, <1>2, <1>3, OperateUses, BackgroundUses DEF SubscriberNext, Uses

(* The tables of the loop and of dead_letters, and the local state of      *)
(* every worker, keep to their types whatever crashes, stops and errors    *)
(* come in between, and wherever the replay command puts a cursor.         *)
THEOREM SubscriberTypeCorrect == SubscriberSpec => []SubscriberTypeOK
  <1>1. UsageInv => SubscriberTypeOK
    BY DEF UsageInv
  <1>2. SubscriberInit => UsageInv
    BY UsageInit
  <1>3. UsageInv /\ [SubscriberNext]_subscriberVars => UsageInv'
    BY UsageStep
  <1> QED
    BY <1>1, <1>2, <1>3, PTL DEF SubscriberSpec

(* subscribe()'s workers only use the store as its clients may: what is    *)
(* proved of Spec holds in the composed system, UnackedIsStored for one.   *)
THEOREM UsesTheStore == SubscriberSpec => Spec
  <1>1. SubscriberInit => UsageInv /\ Init
    BY UsageInit
  <1>2. UsageInv /\ [SubscriberNext]_subscriberVars => UsageInv' /\ [Next]_vars
    BY UsageStep
  <1> QED
    BY <1>1, <1>2, PTL DEF SubscriberSpec, Spec

(* lib/sweep.js under any number of managed subscribers: unless the policy *)
(* is discard, what is unacked is in the events table or in the archive.   *)
THEOREM WorkersKeepUnacked == SubscriberSpec => []UnackedIsStored
  BY UsesTheStore, UnackedStored, PTL

--------------------------------------------------------------------------------
(* The retry budget.  A statement that throws and an ack refused for a     *)
(* deregistered cursor count as failed attempts (processEvent() has one    *)
(* catch block), so the promise is about the handler only without them.    *)
OnlyHandlersFail == Budget["dberror"] = 0 /\ Budget["deregister"] = 0

CountLabels == {"handle", "retry", "sleep", "bury"}

(* What is counted happened: in the local count of a delivery, in the      *)
(* delivery_attempts row it is resumed from, and in the dead letter.       *)
Counted(l) == l.at \in CountLabels => l.tries <= failures[l.sub][l.event]

RowsCounted ==
  \A s \in Subs : \A i \in 1 .. MaxEvents : attempts[s][i] <= failures[s][i]

CountInv ==
  /\ \A w \in Workers : Counted(loop[w])
  /\ RowsCounted
  /\ DeadLetterAfterBudget
  /\ \A s \in Subs : sub[s] # "deregistered" /\ cursor[s] # "deregistered"

LEMMA CountFacts ==
  ASSUME UsageInv
  PROVE  /\ SubscriberTypeOK /\ MaxRetries \in Nat /\ MaxEvents \in Nat
         /\ loop \in [Workers -> Loop] /\ dlq \in Seq(Letter)
         /\ failures \in [Subs -> [1 .. MaxEvents -> 0 .. MaxRetries + 1]]
         /\ attempts \in [Subs -> [1 .. MaxEvents -> 0 .. MaxRetries]]
         /\ \A w \in Workers : loop[w].at \in EventLabels =>
              Mine(w) \in Subs /\ loop[w].event \in 1 .. MaxEvents
         /\ \A w \in Workers : loop[w].at \in LoopLabels =>
              Mine(w) \in Subs /\ cursor[Mine(w)] \in {"active", "deregistered"}
         /\ \A w \in Workers : loop[w].at = "next" => loop[w].batch \subseteq 1 .. MaxEvents
         /\ \A w \in Workers : loop[w].at = "handle" => loop[w].tries <= MaxRetries
  <1>1. SubscriberTypeOK /\ Sized /\ MaxRetries \in Nat /\ MaxEvents \in Nat
    BY UsageFacts
  <1>2. \A w \in Workers : loop[w].at \in EventLabels =>
          Mine(w) \in Subs /\ loop[w].event \in 1 .. MaxEvents
    BY EventUses
  <1>3. ASSUME NEW w \in Workers
        PROVE  /\ loop[w].at \in LoopLabels =>
                    Mine(w) \in Subs /\ cursor[Mine(w)] \in {"active", "deregistered"}
               /\ loop[w].at = "handle" => loop[w].tries <= MaxRetries
    <2>1. Attending(loop[w])
      BY UsageFacts DEF Naming
    <2> QED
      BY <2>1 DEF Attending, LoopLabels, Mine
  <1>4. \A w \in Workers : loop[w].at = "next" => loop[w].batch \subseteq 1 .. MaxEvents
    BY <1>1 DEF SubscriberTypeOK, Loop
  <1> QED
    BY <1>1, <1>2, <1>3, <1>4 DEF SubscriberTypeOK, Sized

(* A step of the loop of w that is no delivery, or keeps its count.        *)
LEMMA CountKept ==
  ASSUME UsageInv, UsageInv', CountInv, UNCHANGED failures,
         \A v \in Workers : loop'[v] = loop[v] \/ Counted(loop'[v]),
         \A s \in Subs : \A i \in 1 .. MaxEvents :
           attempts'[s][i] <= failures[s][i],
         \A d \in DOMAIN dlq' : dlq'[d].reason = "exhausted" =>
           failures[dlq'[d].sub][dlq'[d].event] > MaxRetries,
         \A s \in Subs : sub'[s] # "deregistered" /\ cursor'[s] # "deregistered"
  PROVE  CountInv'
  <1>1. \A v \in Workers : Counted(loop[v])'
    BY DEF CountInv, Counted
  <1> QED
    BY <1>1 DEF CountInv, RowsCounted, DeadLetterAfterBudget

Elsewhere(w) ==
  /\ \A v \in Workers : v # w => loop'[v] = loop[v]
  /\ loop'[w].at \notin CountLabels

LEMMA CountElsewhere ==
  ASSUME UsageInv, UsageInv', CountInv, NEW w \in Workers, Elsewhere(w),
         UNCHANGED <<failures, dlq>>,
         \/ UNCHANGED attempts
         \/ \E s \in Subs, i \in 1 .. MaxEvents : attempts' = [attempts EXCEPT ![s][i] = 0],
         \A s \in Subs : sub'[s] # "deregistered" /\ cursor'[s] # "deregistered"
  PROVE  CountInv'
  <1>1. \A v \in Workers : loop'[v] = loop[v] \/ Counted(loop'[v])
    BY DEF Elsewhere, Counted
  <1>2. \A s \in Subs : \A i \in 1 .. MaxEvents : attempts'[s][i] <= failures[s][i]
    <2>1. /\ attempts \in [Subs -> [1 .. MaxEvents -> 0 .. MaxRetries]] /\ MaxRetries \in Nat
          /\ failures \in [Subs -> [1 .. MaxEvents -> 0 .. MaxRetries + 1]]
          /\ \A s \in Subs : \A i \in 1 .. MaxEvents : attempts[s][i] <= failures[s][i]
      BY CountFacts DEF CountInv, RowsCounted
    <2>2. CASE UNCHANGED attempts
      BY <2>1, <2>2
    <2>3. ASSUME NEW r \in Subs, NEW j \in 1 .. MaxEvents,
                 attempts' = [attempts EXCEPT ![r][j] = 0],
                 NEW s \in Subs, NEW i \in 1 .. MaxEvents
          PROVE  attempts'[s][i] <= failures[s][i]
      <3>1. attempts'[s][i] = 0 \/ attempts'[s][i] = attempts[s][i]
        BY <2>1, <2>3
      <3>2. failures[s][i] >= 0
        <4>1. failures[s] \in [1 .. MaxEvents -> 0 .. MaxRetries + 1]
          BY <2>1, <2>3
        <4>2. failures[s][i] \in 0 .. MaxRetries + 1
          BY <4>1, <2>3
        <4> QED
          BY <4>2
      <3> QED
        BY <2>1, <3>1, <3>2
    <2> QED
      BY <2>2, <2>3
  <1> QED
    BY <1>1, <1>2, CountKept DEF CountInv, DeadLetterAfterBudget

LEMMA CountLoopOnly ==
  ASSUME UsageInv, UsageInv', CountInv, NEW w \in Workers,
         UNCHANGED <<vars, dlq, failures>>, Elsewhere(w)
  PROVE  CountInv'
  <1>1. UNCHANGED <<attempts, sub, cursor>>
    BY StoreStutters
  <1> QED
    BY <1>1, CountElsewhere DEF CountInv

LEMMA GotoElsewhere ==
  ASSUME UsageInv, NEW w \in Workers, NEW label \in Labels \ CountLabels, Goto(w, label)
  PROVE  Elsewhere(w)
  <1>1. loop \in [Workers -> Loop] /\ loop[w] \in Loop
    BY CountFacts
  <1>2. loop'[w].at = label
    BY <1>1 DEF Goto, Loop
  <1> QED
    BY <1>1, <1>2 DEF Elsewhere, Goto

LEMMA EndTickElsewhere == \A w \in Workers : EndTick(w) \in Labels \ CountLabels
  BY DEF EndTick, Labels, CountLabels

(* Whatever a worker does between deliveries.                              *)
LEMMA CountBetween ==
  ASSUME UsageInv, UsageInv', CountInv, NEW w \in Workers,
         \/ Resume(w) \/ Restart(w) \/ StartTick(w) \/ DrainPick(w) \/ DrainDone(w)
         \/ ReplayThrows(w) \/ BatchDone(w) \/ PollCursor(w) \/ PollOldest(w)
         \/ PollSelect(w) \/ ReplayReturns(w) \/ HandlerReturns(w)
  PROVE  CountInv'
  <1>1. UNCHANGED <<vars, dlq, failures>>
    BY DEF Resume, Restart, StartTick, DrainPick, DrainDone, ReplayThrows, BatchDone,
           PollCursor, PollOldest, PollSelect, ReplayReturns, HandlerReturns, LoopOnly,
           ghosts
  <1>2. {"idle", "drain", "poll", "replayKeep", "replayDelete", "unretry", "select"}
          \subseteq Labels \ CountLabels
    BY DEF Labels, CountLabels
  <1>3. ASSUME NEW label \in Labels \ CountLabels, Goto(w, label) PROVE CountInv'
    BY <1>1, <1>3, GotoElsewhere, CountLoopOnly
  <1>4. CASE \/ StartTick(w) \/ DrainDone(w) \/ ReplayThrows(w) \/ BatchDone(w)
             \/ ReplayReturns(w) \/ HandlerReturns(w)
    BY <1>2, <1>3, <1>4, EndTickElsewhere
       DEF StartTick, DrainDone, ReplayThrows, BatchDone, ReplayReturns, HandlerReturns
  <1>5. loop \in [Workers -> Loop] /\ loop[w] \in Loop
    BY CountFacts
  <1>6. CASE Resume(w) \/ Restart(w) \/ DrainPick(w) \/ PollSelect(w)
    <2>1. Elsewhere(w)
      <3>1. /\ \A v \in Workers : v # w => loop'[v] = loop[v]
            /\ loop'[w].at \in {"idle", "start", "replay", "next"}
        <4>1. CASE Resume(w)
          BY <1>5, <4>1 DEF Resume, Loop
        <4>2. CASE Restart(w)
          BY <1>5, <4>2 DEF Restart, Halted
        <4>3. CASE DrainPick(w)
          BY <1>5, <4>3 DEF DrainPick, Loop
        <4>4. CASE PollSelect(w)
          BY <1>5, <4>4 DEF PollSelect, Loop
        <4> QED
          BY <1>6, <4>1, <4>2, <4>3, <4>4
      <3> QED
        BY <3>1 DEF Elsewhere, CountLabels
    <2> QED
      BY <1>1, <2>1, CountLoopOnly
  <1>7. CASE PollCursor(w) \/ PollOldest(w)
    <2>1. CASE Goto(w, EndTick(w)) \/ Goto(w, "select")
      BY <1>2, <1>3, <2>1, EndTickElsewhere
    <2>2. ASSUME NEW n, NEW label \in {"oldest", "reanchor"},
                 loop' = [loop EXCEPT ![w].floor = n, ![w].at = label]
          PROVE  CountInv'
      <3>1. Elsewhere(w)
        BY <1>5, <2>2 DEF Elsewhere, CountLabels, Loop
      <3> QED
        BY <1>1, <3>1, CountLoopOnly
    <2> QED
      BY <1>7, <2>1, <2>2 DEF PollCursor, PollOldest
  <1> QED
    BY <1>4, <1>6, <1>7

(* The writes to the store that go with them.                              *)
LEMMA CountWrites ==
  ASSUME UsageInv, UsageInv', CountInv, NEW w \in Workers,
         \/ Reanchor(w) \/ AckEvent(w) \/ BuryAck(w) \/ Unretry(w) \/ BuryClean(w)
         \/ RegisterNew(w) \/ RegisterRest(w)
  PROVE  CountInv'
  <1>1. UNCHANGED <<dlq, failures>>
    BY DEF Reanchor, AckEvent, BuryAck, Unretry, BuryClean, RegisterNew, RegisterRest,
           StoreToo, ghosts
  <1>2. /\ {"idle", "next", "ack", "buryAck"} \subseteq Labels \ CountLabels
        /\ loop \in [Workers -> Loop] /\ loop[w] \in Loop
    BY CountFacts DEF Labels, CountLabels
  <1>3. ASSUME NEW label \in Labels \ CountLabels, Goto(w, label), UNCHANGED <<sub, cursor>>,
               \/ UNCHANGED attempts
               \/ \E s \in Subs, i \in 1 .. MaxEvents :
                    attempts' = [attempts EXCEPT ![s][i] = 0]
        PROVE  CountInv'
    <2>1. Elsewhere(w)
      BY <1>3, GotoElsewhere
    <2> QED
      BY <1>1, <1>3, <2>1, CountElsewhere DEF CountInv
  <1>4. \A s, n : Ack(s, n) => UNCHANGED <<sub, cursor, attempts>>
    BY DEF Ack, MoveCursor
  <1>5. UNCHANGED vars => UNCHANGED <<sub, cursor, attempts>>
    BY StoreStutters
  <1>6. CASE Reanchor(w) \/ BuryAck(w)
    BY <1>2, <1>3, <1>4, <1>5, <1>6, EndTickElsewhere DEF Reanchor, BuryAck
  <1>7. CASE AckEvent(w)
    <2>1. CursorOpen(w)
      <3>1. loop[w].at \in LoopLabels
        BY <1>7 DEF AckEvent, At, LoopLabels, Labels
      <3> QED
        BY <3>1, CountFacts DEF CursorOpen, CountInv
    <2> QED
      BY <1>2, <1>3, <1>4, <1>7, <2>1 DEF AckEvent
  <1>8. CASE Unretry(w) \/ BuryClean(w)
    <2>1. Mine(w) \in Subs /\ loop[w].event \in 1 .. MaxEvents
      BY <1>8, CountFacts DEF Unretry, BuryClean, At, EventLabels
    <2>2. /\ attempts' = [attempts EXCEPT ![Mine(w)][loop[w].event] = 0]
          /\ UNCHANGED <<sub, cursor>>
          /\ Goto(w, "ack") \/ Goto(w, "buryAck")
      BY <1>8 DEF Unretry, BuryClean, DeleteAttempt
    <2> QED
      BY <1>2, <1>3, <2>1, <2>2
  <1>9. CASE RegisterNew(w)
    <2>1. PICK s \in Subs, init \in {"oldest", "latest"} :
            /\ RegisterSubscription(s, init)
            /\ loop' = [loop EXCEPT ![w].sub = s, ![w].at = "register"]
      BY <1>9 DEF RegisterNew
    <2>2. /\ Elsewhere(w)
          /\ sub' = [sub EXCEPT ![s] = "active"] /\ UNCHANGED attempts
          /\ cursor' = [cursor EXCEPT ![s] = IF init = "latest" THEN "reading" ELSE "inserting"]
      BY <1>2, <2>1 DEF RegisterSubscription, Elsewhere, CountLabels, Loop
    <2>3. \A r \in Subs : sub'[r] # "deregistered" /\ cursor'[r] # "deregistered"
      <3>1. /\ sub \in [Subs -> {"absent", "active", "deregistered"}]
            /\ cursor \in [Subs -> {"absent", "reading", "inserting", "active", "deregistered"}]
        BY DEF UsageInv, Typed, TypeOK
      <3> QED
        BY <2>2, <3>1 DEF CountInv
    <2> QED
      BY <1>1, <2>2, <2>3, CountElsewhere
  <1>10. CASE RegisterRest(w)
    <2>1. loop[w].at = "register" /\ UNCHANGED <<sub, attempts>>
      BY <1>10 DEF RegisterRest, At, RegisterReadHead, RegisterCursor
    <2>2. \A r \in Subs : sub'[r] # "deregistered" /\ cursor'[r] # "deregistered"
      <3>1. cursor \in [Subs -> {"absent", "reading", "inserting", "active", "deregistered"}]
        BY DEF UsageInv, Typed, TypeOK
      <3>2. PICK to \in {"inserting", "active"} : cursor' = [cursor EXCEPT ![Mine(w)] = to]
        BY <1>10 DEF RegisterRest, RegisterReadHead, RegisterCursor
      <3> QED
        BY <2>1, <3>1, <3>2 DEF CountInv
    <2>3. Elsewhere(w)
      <3>1. CASE UNCHANGED loop
        BY <2>1, <3>1 DEF Elsewhere, CountLabels
      <3>2. CASE Goto(w, "idle")
        BY <1>2, <3>2, GotoElsewhere
      <3> QED
        BY <1>10, <3>1, <3>2 DEF RegisterRest
    <2> QED
      BY <1>1, <2>1, <2>2, <2>3, CountElsewhere
  <1> QED
    BY <1>6, <1>7, <1>8, <1>9, <1>10

(* A change to the replay state of a dead letter is none to its origin.    *)
LEMMA CountLetter ==
  ASSUME UsageInv, CountInv, NEW d \in DOMAIN dlq, NEW to,
         dlq' = [dlq EXCEPT ![d].state = to]
  PROVE  \A e \in DOMAIN dlq' : dlq'[e].reason = "exhausted" =>
           failures[dlq'[e].sub][dlq'[e].event] > MaxRetries
  <1>1. dlq \in Seq(Letter) /\ dlq[d] \in Letter
    BY CountFacts
  <1> SUFFICES ASSUME NEW e \in DOMAIN dlq', dlq'[e].reason = "exhausted"
      PROVE  failures[dlq'[e].sub][dlq'[e].event] > MaxRetries
    OBVIOUS
  <1>2. e \in DOMAIN dlq
    OBVIOUS
  <1>3. /\ dlq'[e].reason = dlq[e].reason /\ dlq'[e].sub = dlq[e].sub
        /\ dlq'[e].event = dlq[e].event
    BY <1>1, <1>2 DEF Letter
  <1> QED
    BY <1>2, <1>3 DEF CountInv, DeadLetterAfterBudget

(* The delivery itself.                                                    *)
LEMMA CountDelivery ==
  ASSUME UsageInv, UsageInv', CountInv, NEW w \in Workers,
         Take(w) \/ HandlerThrows(w) \/ Retry(w) \/ Awake(w) \/ Bury(w)
  PROVE  CountInv'
  <1>1. /\ loop \in [Workers -> Loop] /\ loop[w] \in Loop /\ MaxRetries \in Nat
        /\ failures \in [Subs -> [1 .. MaxEvents -> 0 .. MaxRetries + 1]]
        /\ attempts \in [Subs -> [1 .. MaxEvents -> 0 .. MaxRetries]]
        /\ Counted(loop[w]) /\ RowsCounted /\ DeadLetterAfterBudget /\ dlq \in Seq(Letter)
        /\ \A v \in Workers : Counted(loop[v])
        /\ \A s \in Subs : sub[s] # "deregistered" /\ cursor[s] # "deregistered"
    BY CountFacts DEF CountInv
  <1>2. \A s \in Subs : \A i \in 1 .. MaxEvents :
          failures[s][i] \in 0 .. MaxRetries + 1 /\ attempts[s][i] \in 0 .. MaxRetries
          /\ attempts[s][i] <= failures[s][i]
    BY <1>1 DEF RowsCounted
  \* A delivery that goes on with a count it has the failures for.
  <1>3. ASSUME UNCHANGED <<failures, dlq, sub, cursor>>,
               \A v \in Workers : v # w => loop'[v] = loop[v],
               Counted(loop'[w]),
               \A s \in Subs : \A i \in 1 .. MaxEvents : attempts'[s][i] <= failures[s][i]
        PROVE  CountInv'
    BY <1>1, <1>3, CountKept DEF DeadLetterAfterBudget
  <1>4. UNCHANGED vars => UNCHANGED <<attempts, sub, cursor>>
    BY StoreStutters
  <1>5. CASE Take(w)
    <2>1. PICK e \in loop[w].batch :
            loop' = [loop EXCEPT ![w].event = e, ![w].batch = @ \ {e},
                                 ![w].tries = attempts[Mine(w)][e], ![w].at = "handle"]
      BY <1>5 DEF Take
    <2>2. Mine(w) \in Subs /\ e \in 1 .. MaxEvents
      BY <1>5, <2>1, CountFacts DEF Take, At, LoopLabels, Labels
    <2>3. /\ loop'[w].tries = attempts[Mine(w)][e] /\ loop'[w].event = e
          /\ loop'[w].sub = Mine(w)
          /\ \A v \in Workers : v # w => loop'[v] = loop[v]
      BY <1>1, <2>1 DEF Loop, Mine
    <2>4. Counted(loop'[w])
      BY <1>2, <2>2, <2>3 DEF Counted
    <2> QED
      BY <1>2, <1>3, <1>4, <1>5, <2>3, <2>4 DEF Take, LoopOnly, ghosts
  <1>6. CASE Awake(w) \/ Retry(w)
    <2>1. PICK label \in {"bury", "handle", "sleep"} : Goto(w, label)
      BY <1>6 DEF Awake, Retry
    <2>2. /\ loop'[w].tries = loop[w].tries /\ loop'[w].event = loop[w].event
          /\ loop'[w].sub = loop[w].sub
          /\ \A v \in Workers : v # w => loop'[v] = loop[v]
      BY <1>1, <2>1 DEF Goto, Loop
    <2>3. /\ loop[w].at \in CountLabels
          /\ loop[w].tries <= failures[loop[w].sub][loop[w].event]
          /\ Mine(w) \in Subs /\ loop[w].event \in 1 .. MaxEvents
      BY <1>1, <1>6, CountFacts
         DEF Awake, Retry, At, CountLabels, Counted, EventLabels
    <2>4. Counted(loop'[w])
      BY <2>2, <2>3 DEF Counted
    <2>5. UNCHANGED <<failures, dlq, sub, cursor>>
      BY <1>4, <1>6 DEF Awake, Retry, LoopOnly, StoreToo, ghosts, UpsertAttempt
    <2>6. \A s \in Subs : \A i \in 1 .. MaxEvents : attempts'[s][i] <= failures[s][i]
      <3>1. CASE Awake(w)
        BY <1>2, <1>4, <3>1 DEF Awake, LoopOnly
      <3>2. CASE Retry(w)
        <4>1. attempts' = [attempts EXCEPT ![Mine(w)][loop[w].event] = loop[w].tries]
          BY <3>2 DEF Retry, UpsertAttempt
        <4>2. ASSUME NEW s \in Subs, NEW i \in 1 .. MaxEvents
              PROVE  attempts'[s][i] <= failures[s][i]
          <5>1. CASE s = Mine(w) /\ i = loop[w].event
            BY <1>1, <2>3, <4>1, <5>1 DEF Mine
          <5>2. CASE ~(s = Mine(w) /\ i = loop[w].event)
            <6>1. attempts'[s][i] = attempts[s][i]
              BY <1>1, <4>1, <5>2
            <6> QED
              BY <1>2, <6>1
          <5> QED
            BY <5>1, <5>2
        <4> QED
          BY <4>2
      <3> QED
        BY <1>6, <3>1, <3>2
    <2> QED
      BY <1>3, <2>2, <2>4, <2>5, <2>6
  <1>7. CASE HandlerThrows(w)
    <2> DEFINE s == Mine(w)
               e == loop[w].event
    <2>1. /\ loop[w].tries <= failures[s][e] /\ loop[w].tries <= MaxRetries
          /\ s \in Subs /\ e \in 1 .. MaxEvents /\ loop[w].tries \in Int
      <3>1. loop[w].at = "handle" /\ loop[w].at \in EventLabels /\ loop[w].at \in CountLabels
        BY <1>7 DEF HandlerThrows, At, EventLabels, CountLabels
      <3>2. s \in Subs /\ e \in 1 .. MaxEvents /\ loop[w].tries <= MaxRetries
        BY <3>1, CountFacts
      <3>3. loop[w].tries <= failures[s][e]
        BY <1>1, <3>1 DEF Counted, Mine
      <3>4. loop[w].tries \in Int
        BY <1>1 DEF Loop
      <3> QED
        BY <3>2, <3>3, <3>4
    <2>2. /\ failures' = [failures EXCEPT ![s][e] =
               IF failures[s][e] > MaxRetries THEN failures[s][e] ELSE failures[s][e] + 1]
          /\ Caught(w) /\ UNCHANGED <<vars, dlq>>
      BY <1>1, <1>7, <2>1 DEF HandlerThrows
    <2>3. loop[w].tries + 1 <= failures'[s][e]
      <3>1. failures[s][e] \in 0 .. MaxRetries + 1
        BY <1>2, <2>1
      <3>2. failures'[s][e] = IF failures[s][e] > MaxRetries THEN failures[s][e]
                              ELSE failures[s][e] + 1
        BY <1>1, <2>1, <2>2
      <3> HIDE DEF s, e
      <3> QED
        BY <1>1, <2>1, <3>1, <3>2
    <2>4. \A r \in Subs : \A i \in 1 .. MaxEvents : failures[r][i] <= failures'[r][i]
      <3>1. ASSUME NEW r \in Subs, NEW i \in 1 .. MaxEvents
            PROVE  failures[r][i] <= failures'[r][i]
        <4>1. CASE r = s /\ i = e
          BY <1>1, <1>2, <2>1, <2>2, <4>1
        <4>2. CASE ~(r = s /\ i = e)
          <5>1. failures'[r][i] = failures[r][i] /\ failures[r][i] \in Int
            BY <1>1, <1>2, <2>1, <2>2, <4>2
          <5> QED
            BY <5>1
        <4> QED
          BY <4>1, <4>2
      <3> QED
        BY <3>1
    <2>5. /\ loop'[w].tries = loop[w].tries + 1 /\ loop'[w].event = e /\ loop'[w].sub = s
          /\ \A v \in Workers : v # w => loop'[v] = loop[v]
      BY <1>1, <2>2 DEF Caught, Loop, Mine
    <2>6. failures' \in [Subs -> [1 .. MaxEvents -> 0 .. MaxRetries + 1]]
      BY DEF UsageInv, SubscriberTypeOK
    <2>7. \A r \in Subs : \A i \in 1 .. MaxEvents : failures'[r][i] \in Int
      <3>1. ASSUME NEW r \in Subs, NEW i \in 1 .. MaxEvents PROVE failures'[r][i] \in Int
        <4>1. failures'[r][i] \in 0 .. MaxRetries + 1
          BY <2>6
        <4> QED
          BY <1>1, <4>1
      <3> QED
        BY <3>1
    <2>8. ASSUME NEW v \in Workers PROVE Counted(loop[v])'
      <3>1. CASE v = w
        BY <2>3, <2>5, <3>1 DEF Counted
      <3>2. CASE v # w
        <4>1. loop[v].at \in CountLabels =>
                /\ loop[v].sub \in Subs /\ loop[v].event \in 1 .. MaxEvents
                /\ loop[v].tries \in Int
                /\ loop[v].tries <= failures[loop[v].sub][loop[v].event]
          BY <1>1, CountFacts DEF CountLabels, EventLabels, Counted, Mine, Loop
        <4>2. loop[v].at \in CountLabels =>
                loop[v].tries <= failures'[loop[v].sub][loop[v].event]
          BY <1>2, <2>4, <2>7, <4>1
        <4> QED
          BY <2>5, <3>2, <4>2 DEF Counted
      <3> QED
        BY <3>1, <3>2
    <2>9. RowsCounted'
      <3>1. UNCHANGED attempts
        BY <1>4, <2>2
      <3> QED
        BY <1>1, <1>2, <2>4, <2>7, <3>1 DEF RowsCounted
    <2>10. DeadLetterAfterBudget'
      <3> SUFFICES ASSUME NEW d \in DOMAIN dlq, dlq[d].reason = "exhausted"
          PROVE  failures'[dlq[d].sub][dlq[d].event] > MaxRetries
        BY <2>2 DEF DeadLetterAfterBudget
      <3>1. dlq[d] \in Letter
        BY <1>1
      <3>2. dlq[d].sub \in Subs /\ dlq[d].event \in 1 .. MaxEvents
        BY <3>1 DEF Letter
      <3>3. failures[dlq[d].sub][dlq[d].event] > MaxRetries
        BY <1>1 DEF DeadLetterAfterBudget
      <3> QED
        BY <1>1, <1>2, <2>4, <2>7, <3>2, <3>3
    <2> QED
      BY <1>1, <1>4, <2>2, <2>8, <2>9, <2>10 DEF CountInv
  <1>8. CASE Bury(w)
    <2>1. /\ loop[w].tries <= failures[Mine(w)][loop[w].event] /\ loop[w].tries \in Int
          /\ Mine(w) \in Subs /\ loop[w].event \in 1 .. MaxEvents
      <3>1. loop[w].at \in EventLabels /\ loop[w].at \in CountLabels
        BY <1>8 DEF Bury, At, EventLabels, CountLabels
      <3>2. Mine(w) \in Subs /\ loop[w].event \in 1 .. MaxEvents
        BY <3>1, CountFacts
      <3>3. loop[w].tries <= failures[Mine(w)][loop[w].event] /\ loop[w].tries \in Int
        BY <1>1, <3>1 DEF Counted, Mine, Loop
      <3> QED
        BY <3>2, <3>3
    <2>2. /\ Elsewhere(w)
          /\ UNCHANGED <<failures, attempts, sub, cursor>>
      <3>1. Goto(w, "buryClean") /\ "buryClean" \in Labels \ CountLabels
        BY <1>8 DEF Bury, Labels, CountLabels
      <3> QED
        BY <1>4, <1>8, <3>1, GotoElsewhere DEF Bury
    <2>3. PICK r : /\ dlq' = Append(dlq, r)
                   /\ r.sub = Mine(w) /\ r.event = loop[w].event
                   /\ r.reason = "exhausted" => loop[w].tries > MaxRetries
      BY <1>8 DEF Bury
    <2>4. ASSUME NEW d \in DOMAIN dlq', dlq'[d].reason = "exhausted"
          PROVE  failures[dlq'[d].sub][dlq'[d].event] > MaxRetries
      <3>1. CASE d \in DOMAIN dlq
        <4>1. dlq'[d] = dlq[d]
          BY <1>1, <2>3, <3>1
        <4> QED
          BY <1>1, <2>4, <3>1, <4>1 DEF DeadLetterAfterBudget
      <3>2. CASE d \notin DOMAIN dlq
        <4>1. dlq'[d] = r
          BY <1>1, <2>3, <2>4, <3>2
        <4> QED
          BY <1>1, <1>2, <2>1, <2>3, <2>4, <4>1
      <3> QED
        BY <3>1, <3>2
    <2>5. \A v \in Workers : loop'[v] = loop[v] \/ Counted(loop'[v])
      BY <2>2 DEF Elsewhere, Counted
    <2> QED
      BY <1>1, <1>2, <2>2, <2>4, <2>5, CountKept
  <1> QED
    BY <1>5, <1>6, <1>7, <1>8

LEMMA CountRest ==
  ASSUME OnlyHandlersFail, UsageInv, UsageInv', CountInv,
         \/ \E w \in Workers : ReplayDelete(w) \/ ReplayKeep(w) \/ Disturb(w)
         \/ Background
         \/ \E d \in DOMAIN dlq, to \in {"asked", "gone"} : OperateLetter(d, to)
         \/ \E s \in Subs : Unsubscribe(s) \/ Rewind(s)
         \/ \E s \in Subs, from \in ReplayFrom : RewindCheck(s, from)
  PROVE  CountInv'
  <1>1. /\ loop \in [Workers -> Loop] /\ SubscriberTypeOK
        /\ {"crash", "dberror", "stop", "deregister", "any"} \subseteq DOMAIN Budget
        /\ spent \in [DOMAIN Budget -> Nat]
    BY CountFacts, SubscriberAssumption DEF SubscriberTypeOK
  <1>2. Budget["dberror"] = 0 /\ Budget["deregister"] = 0
        /\ spent["dberror"] \in Nat /\ spent["deregister"] \in Nat
    BY <1>1 DEF OnlyHandlersFail
  <1>3. UNCHANGED vars => UNCHANGED <<attempts, sub, cursor>>
    BY StoreStutters
  <1>4. ASSUME UNCHANGED <<failures, attempts, sub, cursor>>,
               \A v \in Workers : loop'[v] = loop[v] \/ Counted(loop'[v]),
               \/ UNCHANGED dlq
               \/ \E d \in DOMAIN dlq :
                    \E to \in {"kept", "asked", "gone"} : dlq' = [dlq EXCEPT ![d].state = to]
        PROVE  CountInv'
    <2>1. \A d \in DOMAIN dlq' : dlq'[d].reason = "exhausted" =>
            failures[dlq'[d].sub][dlq'[d].event] > MaxRetries
      BY <1>4, CountLetter DEF CountInv, DeadLetterAfterBudget
    <2> QED
      BY <1>4, <2>1, CountKept DEF CountInv, RowsCounted
  <1>5. ASSUME NEW w \in Workers, Elsewhere(w), UNCHANGED <<vars, failures>>,
               \/ UNCHANGED dlq
               \/ \E d \in DOMAIN dlq :
                    \E to \in {"kept", "asked", "gone"} : dlq' = [dlq EXCEPT ![d].state = to]
        PROVE  CountInv'
    BY <1>3, <1>4, <1>5 DEF Elsewhere, Counted
  <1>6. ASSUME NEW w \in Workers, ReplayDelete(w) \/ ReplayKeep(w) PROVE CountInv'
    <2>1. loop[w].letter \in DOMAIN dlq
      <3>1. Attending(loop[w])
        BY UsageFacts DEF Naming
      <3> QED
        BY <1>6, <3>1 DEF Attending, ReplayDelete, ReplayKeep, At
    <2>2. PICK label \in Labels \ CountLabels : Goto(w, label)
      BY <1>6, EndTickElsewhere DEF ReplayDelete, ReplayKeep, Labels, CountLabels
    <2>3. \E to \in {"kept", "asked", "gone"} : dlq' = [dlq EXCEPT ![loop[w].letter].state = to]
      <3>1. CASE ReplayDelete(w)
        BY <3>1 DEF ReplayDelete
      <3>2. CASE ReplayKeep(w)
        <4>1. PICK to \in {"kept", "asked", "gone"} :
                to = IF dlq[loop[w].letter].state = "gone" THEN dlq[loop[w].letter].state
                     ELSE "kept"
          OBVIOUS
        <4>2. dlq' = [dlq EXCEPT ![loop[w].letter].state = to]
          BY <2>1, <3>2, <4>1 DEF ReplayKeep
        <4> QED
          BY <4>2
      <3> QED
        BY <1>6, <3>1, <3>2
    <2>4. UNCHANGED <<vars, failures>>
      BY <1>6 DEF ReplayDelete, ReplayKeep, ghosts
    <2> QED
      BY <1>5, <2>1, <2>2, <2>3, <2>4, GotoElsewhere
  <1>7. ASSUME NEW w \in Workers, Disturb(w) PROVE CountInv'
    <2>1. ~DbError(w)
      BY <1>2 DEF DbError, Spend
    <2>2. UNCHANGED <<vars, dlq, failures>>
      BY <1>7, <2>1 DEF Disturb, Stop, Crash, ghosts
    <2>3. CASE Crash(w)
      <3>1. Elsewhere(w)
        BY <1>1, <2>3 DEF Crash, Elsewhere, Halted, CountLabels
      <3> QED
        BY <1>5, <2>2, <3>1
    <2>4. CASE Stop(w)
      <3> DEFINE at == loop[w].at
                 label == IF at = "idle" THEN "stopped" ELSE IF at = "sleep" THEN "bury" ELSE at
      <3>1. at \in {"idle", "replay", "handle", "next", "sleep"}
        BY <2>4 DEF Stop
      <3>2. loop' = [loop EXCEPT ![w].halting = TRUE, ![w].at = label]
        BY <1>1, <2>4 DEF Stop
      <3>3. /\ loop'[w].at = label /\ loop'[w].tries = loop[w].tries
            /\ loop'[w].event = loop[w].event /\ loop'[w].sub = loop[w].sub
            /\ \A v \in Workers : v # w => loop'[v] = loop[v]
        BY <1>1, <3>2 DEF Loop
      <3>4. label \in CountLabels => at \in CountLabels
        BY <3>1 DEF CountLabels
      <3>5. Counted(loop'[w])
        BY <3>3, <3>4 DEF Counted, CountInv
      <3> QED
        BY <1>3, <1>4, <2>2, <3>3, <3>5
    <2> QED
      BY <1>7, <2>1, <2>3, <2>4 DEF Disturb
  <1>8. CASE Background
    <2>1. UNCHANGED <<attempts, sub, cursor>>
      BY <1>8 DEF Background, Emit, EmitBegin, EmitInsert, EmitConflict, EmitRelease,
                  EmitDuplicate, EmitFails, EmitStop, Accept, AcceptRow, Sweep, Tick,
                  subscribers
    <2>2. UNCHANGED <<failures, dlq, loop>>
      BY <1>8 DEF Background, ghosts
    <2> QED
      BY <1>4, <2>1, <2>2
  <1>9. ASSUME NEW d \in DOMAIN dlq, NEW to \in {"asked", "gone"}, OperateLetter(d, to)
        PROVE  CountInv'
    BY <1>3, <1>4, <1>9 DEF OperateLetter, ghosts
  <1>10. ASSUME NEW s \in Subs, Unsubscribe(s) PROVE CountInv'
    BY <1>2, <1>10 DEF Unsubscribe, Spend
  <1>11. ASSUME NEW s \in Subs, Rewind(s) \/ \E from \in ReplayFrom : RewindCheck(s, from)
         PROVE  CountInv'
    <2>1. UNCHANGED <<failures, dlq, loop, attempts, sub, cursor>>
      BY <1>11 DEF Rewind, RewindCheck, ReplayWrite, ReplayCheck, MoveCursor, ghosts
    <2> QED
      BY <1>4, <2>1
  <1> QED
    BY <1>6, <1>7, <1>8, <1>9, <1>10, <1>11

LEMMA CountInit == SubscriberInit => CountInv
  <1> SUFFICES ASSUME SubscriberInit PROVE CountInv
    OBVIOUS
  <1>1. \A w \in Workers : loop[w].at = "start"
    BY DEF SubscriberInit, Halted
  <1>2. RowsCounted
    BY DEF SubscriberInit, Init, RowsCounted
  <1>3. DeadLetterAfterBudget
    BY DEF SubscriberInit, DeadLetterAfterBudget
  <1> QED
    BY <1>1, <1>2, <1>3 DEF CountInv, Counted, CountLabels, SubscriberInit, Init

LEMMA CountNext ==
  ASSUME OnlyHandlersFail, UsageInv, CountInv, [SubscriberNext]_subscriberVars
  PROVE  CountInv'
  <1>1. UsageInv'
    BY UsageStep
  <1>2. ASSUME NEW w \in Workers, Run(w) PROVE CountInv'
    BY <1>1, <1>2, CountBetween, CountWrites, CountDelivery, CountRest DEF Run
  <1>3. ASSUME NEW w \in Workers, Disturb(w) PROVE CountInv'
    BY <1>1, <1>3, CountRest
  <1>4. CASE Operate
    BY <1>1, <1>4, CountRest DEF Operate
  <1>5. CASE Background
    BY <1>1, <1>5, CountRest
  <1>6. CASE UNCHANGED subscriberVars
    <2>1. UNCHANGED <<loop, failures, dlq, attempts, sub, cursor>>
      BY <1>6, StoreStutters DEF subscriberVars, ghosts
    <2> QED
      BY <2>1 DEF CountInv, Counted, RowsCounted, DeadLetterAfterBudget
  <1> QED
    BY <1>2, <1>3, <1>4, <1>5, <1>6 DEF SubscriberNext

(* lib/subscribe.js "only dead-lettered + acked once the retry budget is   *)
(* exhausted": whoever crashes, restarts or resumes the retries of another *)
(* worker, an exhausted dead letter has its maxRetries + 1 failed calls,   *)
(* unless a database error or a deregistration was counted as one.         *)
THEOREM BuriedAfterBudget ==
  OnlyHandlersFail => (SubscriberSpec => []DeadLetterAfterBudget)
  <1> SUFFICES ASSUME OnlyHandlersFail PROVE SubscriberSpec => []DeadLetterAfterBudget
    OBVIOUS
  <1>1. SubscriberInit => UsageInv /\ CountInv
    BY UsageInit, CountInit
  <1>2. UsageInv /\ CountInv /\ [SubscriberNext]_subscriberVars
          => UsageInv' /\ CountInv'
    BY UsageStep, CountNext
  <1>3. CountInv => DeadLetterAfterBudget
    BY DEF CountInv
  <1> QED
    BY <1>1, <1>2, <1>3, PTL DEF SubscriberSpec
================================================================================
