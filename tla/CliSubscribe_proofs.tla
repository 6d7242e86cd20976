-------------------------- MODULE CliSubscribe_proofs --------------------------
(***************************************************************************)
(* Theorems about CliSubscribe, for every number of processes and          *)
(* subscriptions, every mixture of command lines, every batch size, and    *)
(* any number of crashes, signals, database errors, deregistrations and    *)
(* registrations.                                                          *)
(***************************************************************************)
EXTENDS CliSubscribe, EventStore_proofs, FiniteSetTheorems

(* base[s] is where the cursor of s was created.  Every event from there to*)
(* n that the sweep has left has been written by one of the processes.     *)
Passed(base, s, n) ==
  /\ base[s] <= n
  /\ \A i \in live : Matches(s, i) /\ base[s] < i /\ i <= n => <<s, i>> \in written

Polls == {"poll", "oldest", "reanchor", "select", "next", "ack", "pause"}
Serving == Polls \cup {"begin"}

Attending(p) ==
  /\ p.at \in Serving \cup {"register"} => p.sub \in Subs
  /\ p.at \in Serving => cursor[p.sub] \in {"active", "deregistered"}

(* The positions process p may write to its cursor are passed, and before  *)
(* a row of its page there is nothing that is neither written nor in it.   *)
Acking(base, p) ==
  /\ p.at \in {"oldest", "reanchor", "select"} =>
       p.seen \in 0 .. Len(log) /\ Passed(base, p.sub, p.seen)
  /\ p.at = "ack" => p.event \in Ids /\ Passed(base, p.sub, p.event)

Paging(base, p) ==
  p.at \in {"next", "ack"} =>
    \A j \in p.page :
      /\ j \in Ids /\ base[p.sub] < j
      /\ \A i \in live : Matches(p.sub, i) /\ base[p.sub] < i /\ i < j =>
           <<p.sub, i>> \in written \/ i \in p.page

(* What a drain still has to write lies beyond its floor, is in its page   *)
(* before anything else, and is gone when it finds the queue empty.        *)
Waiting(p) == p.pending \cap live

Draining(base, p) ==
  p.mode.drain /\ p.at \in Polls =>
    /\ p.floor \in 0 .. Len(log) /\ Passed(base, p.sub, p.floor)
    /\ \A i \in Waiting(p) : i > p.floor /\ Matches(p.sub, i)

Delivering(p) ==
  /\ p.pending \subseteq Ids
  /\ p.at = "reanchor" => \A i \in live : i > p.seen
  /\ p.mode.drain /\ p.at \in {"next", "ack"} =>
       \A j \in p.page, i \in Waiting(p) : i < j => i \in p.page
  /\ \/ p.mode.drain /\ p.at = "next" /\ p.page = {} /\ p.event = 0
     \/ p.mode.drain /\ p.at = "pause"
     \/ p.at = "drained"
     => Waiting(p) = {}

ProcessOK(base, p) ==
  Attending(p) /\ Acking(base, p) /\ Paging(base, p) /\ Draining(base, p) /\ Delivering(p)

(* The tables as the loops find them.                                      *)
Bounded ==
  /\ Len(log) <= MaxEvents
  /\ pos \in [Subs -> 0 .. Len(log)]
  /\ \A s \in Subs : ActiveConsumer(s) => Ahead(s, pos[s]) \subseteq due[s]
  /\ \A s \in Subs : sub[s] = "absent" => cursor[s] = "absent"

AcksPassed(base) ==
  \A s \in Subs : cursor[s] \in {"active", "deregistered"} => Passed(base, s, pos[s])

StoreAt(base) == RetentionInv /\ Bounded /\ AcksPassed(base)

InvAt(base) == StoreAt(base) /\ CliTypeOK /\ \A c \in Clis : ProcessOK(base, cli[c])

CliInv == \E base \in [Subs -> Nat] : InvAt(base)

--------------------------------------------------------------------------------
(* What every step does to the shared state: ids are new, rows are         *)
(* immutable, and what is written stays so.                                *)
Grows ==
  /\ Ids \subseteq Ids' /\ live' \subseteq live \cup (Ids' \ Ids)
  /\ \A i \in Ids : log'[i] = log[i]
  /\ written \subseteq written'
  /\ \A s \in Subs : cursor[s] \in {"active", "deregistered"} =>
       cursor'[s] \in {"active", "deregistered"}

LEMMA IdRange ==
  ASSUME Typed
  PROVE  /\ Ids = 1 .. Len(log) /\ Len(log) \in Nat /\ live \subseteq Ids
         /\ \A i : i \in Ids => i \in Nat /\ i >= 1 /\ i <= Len(log)
  BY DEF Typed, TypeOK, Ids

(* A row that a step leaves live was live before, or is beyond every id.   *)
LEMMA LiveStays ==
  ASSUME Typed, Typed', Grows
  PROVE  /\ Len(log) <= Len(log')
         /\ \A i \in live' : i \in live \/ i > Len(log)
         /\ \A i \in live' : \A s : i \in live => Matches(s, i)' = Matches(s, i)
  <1>1. /\ Ids = 1 .. Len(log) /\ Len(log) \in Nat /\ live \subseteq Ids
        /\ \A i : i \in Ids => i \in Nat /\ i >= 1 /\ i <= Len(log)
    BY IdRange
  <1>2. /\ Ids' = 1 .. Len(log') /\ Len(log') \in Nat /\ live' \subseteq Ids'
    BY DEF Typed, TypeOK, Ids
  <1>3. Len(log) <= Len(log')
    BY <1>1, <1>2 DEF Grows
  <1>4. ASSUME NEW i \in live' PROVE i \in live \/ i > Len(log)
    BY <1>1, <1>2, <1>4 DEF Grows
  <1>5. ASSUME NEW i \in live, NEW s PROVE Matches(s, i)' = Matches(s, i)
    BY <1>1, <1>5 DEF Matches, Grows
  <1> QED
    BY <1>3, <1>4, <1>5

LEMMA PassedStays ==
  ASSUME Typed, Typed', Grows, NEW base, NEW s, NEW n \in Int, n <= Len(log),
         Passed(base, s, n)
  PROVE  Passed(base, s, n)'
  <1> SUFFICES ASSUME NEW i \in live', Matches(s, i)', base[s] < i, i <= n
      PROVE  <<s, i>> \in written'
    BY DEF Passed
  <1>1. i \in live \/ i > Len(log)
    BY LiveStays
  <1>2. i \in Int /\ Len(log) \in Int
    BY IdRange DEF Typed, TypeOK, Ids
  <1>3. i \in live
    BY <1>1, <1>2
  <1>4. Matches(s, i)
    BY <1>3, LiveStays
  <1> QED
    BY <1>3, <1>4 DEF Passed, Grows

LEMMA ProcessStays ==
  ASSUME Typed, Typed', Grows, NEW base, NEW p \in Process, ProcessOK(base, p)
  PROVE  ProcessOK(base, p)'
  <1>1. /\ Ids = 1 .. Len(log) /\ Len(log) \in Nat /\ live \subseteq Ids
        /\ \A i : i \in Ids => i \in Nat /\ i >= 1 /\ i <= Len(log)
    BY IdRange
  <1>2. /\ Len(log) <= Len(log') /\ Len(log') \in Nat /\ live' \subseteq Ids'
        /\ \A i \in live' : i \in Int /\ (i \in live \/ i > Len(log))
        /\ \A i \in live' : \A s : i \in live => Matches(s, i)' = Matches(s, i)
    BY LiveStays DEF Typed, TypeOK, Ids
  <1>3. ASSUME NEW n \in 0 .. Len(log), Passed(base, p.sub, n)
        PROVE  n \in 0 .. Len(log') /\ Passed(base, p.sub, n)'
    BY <1>1, <1>2, <1>3, PassedStays
  <1>4. Attending(p)'
    BY DEF ProcessOK, Attending, Serving, Grows
  <1>5. Acking(base, p)'
    <2>1. p.at \in {"oldest", "reanchor", "select"} =>
            p.seen \in 0 .. Len(log') /\ Passed(base, p.sub, p.seen)'
      BY <1>3 DEF ProcessOK, Acking
    <2>2. ASSUME p.at = "ack" PROVE p.event \in Ids' /\ Passed(base, p.sub, p.event)'
      <3>1. p.event \in Ids /\ Passed(base, p.sub, p.event)
        BY <2>2 DEF ProcessOK, Acking
      <3>2. p.event \in 0 .. Len(log)
        BY <1>1, <3>1
      <3> QED
        BY <1>3, <3>1, <3>2 DEF Grows
    <2> QED
      BY <2>1, <2>2 DEF Acking
  <1>6. Paging(base, p)'
    <2> SUFFICES ASSUME p.at \in {"next", "ack"}, NEW j \in p.page
        PROVE  /\ j \in Ids' /\ base[p.sub] < j
               /\ \A i \in live' : Matches(p.sub, i)' /\ base[p.sub] < i /\ i < j =>
                    <<p.sub, i>> \in written' \/ i \in p.page
      BY DEF Paging
    <2>1. /\ j \in Ids /\ base[p.sub] < j
          /\ \A i \in live : Matches(p.sub, i) /\ base[p.sub] < i /\ i < j =>
               <<p.sub, i>> \in written \/ i \in p.page
      BY DEF ProcessOK, Paging
    <2>2. ASSUME NEW i \in live', i < j PROVE i \in live
      BY <1>1, <1>2, <2>1, <2>2
    <2> QED
      BY <1>2, <2>1, <2>2 DEF Grows
  <1>7. Waiting(p)' \subseteq Waiting(p)
    <2> SUFFICES ASSUME NEW i \in p.pending, i \in live' PROVE i \in live
      BY DEF Waiting
    <2>1. i \in Ids
      BY DEF ProcessOK, Delivering
    <2> QED
      BY <1>1, <1>2, <2>1
  <1>8. Draining(base, p)'
    <2> SUFFICES ASSUME p.mode.drain, p.at \in Polls
        PROVE  /\ p.floor \in 0 .. Len(log') /\ Passed(base, p.sub, p.floor)'
               /\ \A i \in Waiting(p)' : i > p.floor /\ Matches(p.sub, i)'
      BY DEF Draining
    <2>1. /\ p.floor \in 0 .. Len(log) /\ Passed(base, p.sub, p.floor)
          /\ \A i \in Waiting(p) : i > p.floor /\ Matches(p.sub, i)
      BY DEF ProcessOK, Draining
    <2>2. \A i \in Waiting(p)' : i \in live' /\ i \in live
      BY <1>7 DEF Waiting
    <2> QED
      BY <1>2, <1>3, <1>7, <2>1, <2>2
  <1>9. Delivering(p)'
    <2>1. p.pending \subseteq Ids'
      BY DEF ProcessOK, Delivering, Grows
    <2>2. ASSUME p.at = "reanchor", NEW i \in live' PROVE i > p.seen
      <3>1. p.seen \in 0 .. Len(log) /\ \A k \in live : k > p.seen
        BY <2>2 DEF ProcessOK, Acking, Delivering
      <3> QED
        BY <1>1, <1>2, <3>1
    <2> QED
      BY <1>7, <2>1, <2>2 DEF ProcessOK, Delivering
  <1> QED
    BY <1>4, <1>5, <1>6, <1>8, <1>9 DEF ProcessOK

LEMMA AcksStay ==
  ASSUME Typed, Typed', Grows, Bounded, NEW base, AcksPassed(base),
         \A s \in Subs : cursor'[s] \in {"active", "deregistered"} =>
           cursor[s] \in {"active", "deregistered"} /\ pos'[s] = pos[s]
  PROVE  AcksPassed(base)'
  <1> SUFFICES ASSUME NEW s \in Subs, cursor'[s] \in {"active", "deregistered"}
      PROVE  Passed(base, s, pos[s])'
    BY DEF AcksPassed
  <1>1. PICK n \in Int : n = pos[s] /\ n <= Len(log)
    BY IdRange DEF Bounded
  <1>2. Passed(base, s, n)'
    BY <1>1, PassedStays DEF AcksPassed
  <1> QED
    BY <1>1, <1>2

--------------------------------------------------------------------------------
(* The local state a process moves to is fit before the step, or after it. *)
Moves(base, c) ==
  \E p \in Process : cli' = [cli EXCEPT ![c] = p] /\ ProcessOK(base, p)

Arrives(base, c) ==
  \E p \in Process : cli' = [cli EXCEPT ![c] = p] /\ ProcessOK(base, p)'

RowsTyped ==
  /\ spent \in [DOMAIN Budget -> Nat]
  /\ written \subseteq Subs \X (1 .. MaxEvents)

(* What a step has to show: the invariant, and a step of the promise.      *)
Good(base) == InvAt(base)' /\ [ALO!Next]_(ALO!vars)

LEMMA ProcessFacts ==
  ASSUME NEW base \in [Subs -> Nat], InvAt(base), NEW c \in Clis
  PROVE  /\ cli \in [Clis -> Process] /\ cli[c] \in Process /\ ProcessOK(base, cli[c])
         /\ cli[c].at \in Serving => Mine(c) \in Subs
         /\ Typed /\ Claims /\ Bounded /\ AcksPassed(base)
         /\ Ids = 1 .. Len(log) /\ Len(log) \in Nat /\ Len(log) <= MaxEvents
         /\ live \subseteq Ids /\ MaxEvents \in Nat
         /\ \A i : i \in Ids => i \in Nat /\ i >= 1 /\ i <= Len(log)
  <1>1. /\ ProcessOK(base, cli[c]) /\ cli \in [Clis -> Process]
        /\ Typed /\ Claims /\ Bounded /\ AcksPassed(base)
    BY DEF InvAt, StoreAt, CliTypeOK, RetentionInv
  <1>2. cli[c].at \in Serving => Mine(c) \in Subs
    BY <1>1 DEF ProcessOK, Attending, Mine
  <1>3. Len(log) <= MaxEvents /\ MaxEvents \in Nat
    BY <1>1, StoreAssumption DEF Bounded
  <1> QED
    BY <1>1, <1>2, <1>3, IdRange

LEMMA ProcessKeeps ==
  ASSUME NEW base \in [Subs -> Nat], InvAt(base), NEW c \in Clis, StoreAt(base)', Grows,
         RowsTyped', Moves(base, c) \/ Arrives(base, c)
  PROVE  InvAt(base)'
  <1>1. Typed /\ Typed' /\ cli \in [Clis -> Process]
    BY DEF InvAt, StoreAt, RetentionInv, CliTypeOK
  <1>2. PICK p \in Process : cli' = [cli EXCEPT ![c] = p] /\ ProcessOK(base, p)'
    <2>1. ASSUME NEW p \in Process, ProcessOK(base, p) PROVE ProcessOK(base, p)'
      BY <1>1, <2>1, ProcessStays
    <2> QED
      BY <2>1 DEF Moves, Arrives
  <1>3. cli' \in [Clis -> Process]
    BY <1>1, <1>2
  <1>4. ASSUME NEW d \in Clis PROVE ProcessOK(base, cli[d])'
    <2>1. PICK q \in Process : q = cli'[d]
      BY <1>3
    <2>2. CASE d = c
      <3>1. q = p
        BY <1>1, <1>2, <2>1, <2>2
      <3> QED
        BY <1>2, <2>1, <3>1
    <2>3. CASE d # c
      <3>1. q = cli[d]
        BY <1>1, <1>2, <2>1, <2>3
      <3>2. ProcessOK(base, q)
        BY <3>1 DEF InvAt
      <3>3. ProcessOK(base, q)'
        BY <1>1, <3>2, ProcessStays
      <3> QED
        BY <2>1, <3>3
    <2> QED
      BY <2>2, <2>3
  <1>5. CliTypeOK'
    <2>1. ASSUME NEW d \in Clis, cli'[d].at \notin {"down", "lookup", "drained", "failed"}
          PROVE  cli'[d].sub \in Subs
      <3>1. cli'[d].at \in Labels
        BY <1>3 DEF Process
      <3>2. cli'[d].at \in Serving \cup {"register"}
        BY <2>1, <3>1 DEF Labels, Serving, Polls
      <3> QED
        BY <1>4, <3>2 DEF ProcessOK, Attending
    <2> QED
      BY <1>3, <2>1 DEF CliTypeOK, RowsTyped, Mine
  <1> QED
    BY <1>4, <1>5 DEF InvAt

LEMMA NoProcessKeeps ==
  ASSUME NEW base \in [Subs -> Nat], InvAt(base), StoreAt(base)', Grows, RowsTyped',
         UNCHANGED cli
  PROVE  InvAt(base)'
  <1>1. Typed /\ Typed' /\ cli \in [Clis -> Process]
    BY DEF InvAt, StoreAt, RetentionInv, CliTypeOK
  <1>2. ASSUME NEW d \in Clis PROVE ProcessOK(base, cli[d])'
    <2>1. PICK q \in Process : q = cli[d]
      BY <1>1
    <2>2. ProcessOK(base, q)'
      BY <1>1, <2>1, ProcessStays DEF InvAt
    <2> QED
      BY <2>1, <2>2
  <1>3. CliTypeOK'
    BY DEF InvAt, CliTypeOK, RowsTyped, Mine
  <1> QED
    BY <1>2, <1>3 DEF InvAt

LEMMA PromiseStutters ==
  ASSUME UNCHANGED <<written, due, sub, log, live>>
  PROVE  UNCHANGED ALO!vars
  BY DEF ALO!vars, ALO!requests, Ids

LEMMA StoreStutters ==
  ASSUME UNCHANGED vars
  PROVE  UNCHANGED <<clock, log, live, released, archived, acceptedAt, reported,
                     step, draft, sub, cursor, pos, reset, attempts, due>>
  BY DEF vars, tables, emits, subscribers

(* A step of the loop that leaves the store alone.                         *)
LEMMA IdleStore ==
  ASSUME NEW base \in [Subs -> Nat], InvAt(base), UNCHANGED vars, written \subseteq written'
  PROVE  StoreAt(base)' /\ Grows
  <1>1. UNCHANGED <<clock, log, live, released, archived, acceptedAt, reported,
                    step, draft, sub, cursor, pos, reset, attempts, due>>
    BY StoreStutters
  <1>2. RetentionInv' /\ Typed /\ Typed' /\ Bounded /\ AcksPassed(base)
    BY RetentionNext DEF InvAt, StoreAt, RetentionInv
  <1>3. Grows
    BY <1>1 DEF Grows, Ids
  <1>4. Bounded'
    BY <1>1, <1>2 DEF Bounded, ActiveConsumer, Ahead, Matches
  <1>5. AcksPassed(base)'
    BY <1>1, <1>2, <1>3, AcksStay
  <1> QED
    BY <1>2, <1>3, <1>4, <1>5 DEF StoreAt

LEMMA LocalGood ==
  ASSUME NEW base \in [Subs -> Nat], InvAt(base), NEW c \in Clis, Moves(base, c),
         UNCHANGED <<vars, written>>, spent' \in [DOMAIN Budget -> Nat]
  PROVE  Good(base)
  <1>1. StoreAt(base)' /\ Grows
    BY IdleStore
  <1>2. RowsTyped'
    BY DEF RowsTyped, InvAt, CliTypeOK
  <1>3. UNCHANGED ALO!vars
    BY StoreStutters, PromiseStutters
  <1> QED
    BY <1>1, <1>2, <1>3, ProcessKeeps DEF Good

LEMMA CliOnlyGood ==
  ASSUME NEW base \in [Subs -> Nat], InvAt(base), NEW c \in Clis, Moves(base, c), CliOnly
  PROVE  Good(base)
  BY LocalGood DEF CliOnly, InvAt, CliTypeOK

--------------------------------------------------------------------------------
(* Processes that start, end or fail rely on nothing.                      *)
LEMMA Outside ==
  /\ \A m \in Mode : /\ Start(m) \in Process /\ Start(m).at = "lookup"
                     /\ Start(m).pending = {} /\ Start(m).mode = m
  /\ \A label \in {"down", "drained", "failed"} :
       /\ Down(label) \in Process /\ Down(label).at = label /\ Down(label).pending = {}
  <1>1. MaxEvents \in Nat
    BY StoreAssumption
  <1>2. \A m \in Mode : /\ Start(m) \in Process /\ Start(m).at = "lookup"
                        /\ Start(m).pending = {} /\ Start(m).mode = m
    BY <1>1 DEF Start, Process, Labels
  <1>3. AnyMode \in Mode
    BY DEF AnyMode, Mode
  <1>4. ASSUME NEW label \in {"down", "drained", "failed"}
        PROVE  /\ Down(label) \in Process /\ Down(label).at = label
               /\ Down(label).pending = {}
    <2>1. PICK p \in Process : p = Start(AnyMode) /\ p.pending = {}
      BY <1>2, <1>3
    <2>2. Down(label) = [p EXCEPT !.at = label] /\ label \in Labels
      BY <2>1 DEF Down, Labels
    <2> QED
      BY <2>1, <2>2 DEF Process
  <1> QED
    BY <1>2, <1>4

LEMMA OutsideOK ==
  ASSUME NEW base, NEW p \in Process, p.pending = {},
         p.at \in {"down", "drained", "failed", "lookup"}
  PROVE  ProcessOK(base, p)
  BY DEF ProcessOK, Attending, Acking, Paging, Draining, Delivering, Serving, Polls, Waiting

LEMMA FailMoves ==
  ASSUME NEW base \in [Subs -> Nat], InvAt(base), NEW c \in Clis,
         Fail(c) \/ Become(c, Down("down")) \/ \E m \in Modes[c] : Become(c, Start(m))
  PROVE  Moves(base, c)
  <1>1. \A m \in Modes[c] : m \in Mode
    BY CliAssumption
  <1>2. PICK p \in Process : /\ Become(c, p) /\ p.pending = {}
                             /\ p.at \in {"down", "failed", "lookup"}
    BY <1>1, Outside DEF Fail
  <1>3. ProcessOK(base, p)
    BY <1>2, OutsideOK
  <1> QED
    BY <1>2, <1>3 DEF Moves, Become

LEMMA LaunchEndsGood ==
  ASSUME NEW base \in [Subs -> Nat], InvAt(base), NEW c \in Clis, Launch(c) \/ Ambiguous(c)
  PROVE  Good(base)
  BY FailMoves, CliOnlyGood DEF Launch, Ambiguous

(* A drain that finds nothing waiting ends.                                *)
LEMMA ExitMoves ==
  ASSUME NEW base \in [Subs -> Nat], InvAt(base), NEW c \in Clis, Exit(c),
         Waiting(cli[c]) = {}
  PROVE  Moves(base, c)
  <1>1. cli[c] \in Process /\ ProcessOK(base, cli[c])
    BY ProcessFacts
  <1>2. PICK q \in Process : q = Down("drained") /\ q.at = "drained"
    BY Outside
  <1>3. PICK w \in SUBSET (1 .. MaxEvents) :
          w = cli[c].pending /\ w \subseteq Ids /\ w \cap live = {}
    BY <1>1 DEF Process, ProcessOK, Delivering, Waiting
  <1> DEFINE p == [q EXCEPT !.pending = w]
  <1>4. p \in Process /\ p.at = "drained" /\ p.pending = w
    BY <1>2 DEF Process
  <1>5. cli' = [cli EXCEPT ![c] = p]
    BY <1>2, <1>3 DEF Exit, Become
  <1> HIDE DEF p
  <1>6. ProcessOK(base, p)
    BY <1>3, <1>4
       DEF ProcessOK, Attending, Acking, Paging, Draining, Delivering, Serving, Polls, Waiting
  <1> QED
    BY <1>4, <1>5, <1>6 DEF Moves

(* At the end of a pass a streaming process keeps nothing, a drain its     *)
(* floor.                                                                  *)
LEMMA RepeatMoves ==
  ASSUME NEW base \in [Subs -> Nat], InvAt(base), NEW c \in Clis, cli[c].at \in Polls,
         NEW p \in Process, p.mode = cli[c].mode, p.sub = cli[c].sub,
         p.pending = cli[c].pending,
         Drains(c) => /\ p.floor \in 0 .. Len(log) /\ Passed(base, Mine(c), p.floor)
                      /\ \A i \in Waiting(cli[c]) : i > p.floor,
         Repeat(c, p)
  PROVE  Moves(base, c)
  <1> DEFINE label == IF Drains(c) THEN "poll" ELSE "pause"
             q == [p EXCEPT !.at = label, !.seen = 0, !.page = {}, !.event = 0]
  <1>1. ProcessOK(base, cli[c]) /\ MaxEvents \in Nat
    BY ProcessFacts
  <1>2. label \in Labels /\ label \in {"poll", "pause"} /\ (Drains(c) => label = "poll")
    BY DEF Labels
  <1>3. cli' = [cli EXCEPT ![c] = q]
    BY DEF Repeat, Become
  <1> HIDE DEF label
  <1>4. /\ q \in Process /\ q.at = label /\ q.mode = cli[c].mode /\ q.sub = Mine(c)
        /\ q.pending = cli[c].pending /\ q.floor = p.floor
    <2>1. 0 \in 0 .. MaxEvents /\ {} \in SUBSET (1 .. MaxEvents) /\ 0 \in Int
      BY <1>1
    <2>2. q \in Process /\ q.at = label /\ q.mode = p.mode /\ q.sub = p.sub
          /\ q.pending = p.pending /\ q.floor = p.floor
      BY <1>2, <2>1 DEF Process
    <2> QED
      BY <2>2 DEF Mine
  <1> HIDE DEF q
  <1>5. Mine(c) \in Subs /\ cursor[Mine(c)] \in {"active", "deregistered"}
    BY <1>1 DEF ProcessOK, Attending, Serving, Mine
  <1>6. Drains(c) => \A i \in Waiting(cli[c]) : Matches(Mine(c), i)
    BY <1>1 DEF ProcessOK, Draining, Drains, Mine
  <1>7. Attending(q) /\ Acking(base, q) /\ Paging(base, q)
    BY <1>2, <1>4, <1>5 DEF Attending, Acking, Paging
  <1>8. Draining(base, q)
    BY <1>2, <1>4, <1>6 DEF Draining, Drains, Waiting
  <1>9. Delivering(q)
    BY <1>1, <1>2, <1>4 DEF ProcessOK, Delivering, Drains
  <1> QED
    BY <1>3, <1>4, <1>7, <1>8, <1>9 DEF Moves, ProcessOK

(* Another label, where what is relied on allows it.                       *)
LEMMA GotoMoves ==
  ASSUME NEW base \in [Subs -> Nat], InvAt(base), NEW c \in Clis, NEW label \in Labels,
         Goto(c, label),
         \A p \in Process :
           p = [cli[c] EXCEPT !.at = label] /\ p.at = label /\ p.sub = cli[c].sub
           /\ p.mode = cli[c].mode /\ p.floor = cli[c].floor /\ p.page = cli[c].page
           /\ p.event = cli[c].event /\ p.seen = cli[c].seen /\ p.pending = cli[c].pending
             => ProcessOK(base, p)
  PROVE  Moves(base, c)
  <1> DEFINE p == [cli[c] EXCEPT !.at = label]
  <1>1. cli[c] \in Process
    BY ProcessFacts
  <1>2. /\ p \in Process /\ p.at = label /\ p.sub = cli[c].sub
        /\ p.mode = cli[c].mode /\ p.floor = cli[c].floor /\ p.page = cli[c].page
        /\ p.event = cli[c].event /\ p.seen = cli[c].seen /\ p.pending = cli[c].pending
    BY <1>1 DEF Process
  <1>3. cli' = [cli EXCEPT ![c] = p]
    BY DEF Goto, Become
  <1>4. p = [cli[c] EXCEPT !.at = label]
    OBVIOUS
  <1> HIDE DEF p
  <1> QED
    BY <1>2, <1>3, <1>4 DEF Moves

--------------------------------------------------------------------------------
(* The steps between two writes to the store.                              *)
LEMMA FoundGood ==
  ASSUME NEW base \in [Subs -> Nat], InvAt(base), NEW c \in Clis, Found(c)
  PROVE  Good(base)
  <1> DEFINE label == IF Drains(c) THEN "begin" ELSE "poll"
  <1>1. PICK s \in Subs :
          /\ ActiveConsumer(s)
          /\ Become(c, [cli[c] EXCEPT !.sub = s, !.at = label])
    BY DEF Found, Existing
  <1>2. /\ cli[c] \in Process /\ ProcessOK(base, cli[c]) /\ cli[c].at = "lookup"
    BY ProcessFacts DEF Found, At
  <1>3. label \in Labels /\ label \in {"begin", "poll"} /\ (Drains(c) => label = "begin")
    BY DEF Labels
  <1> HIDE DEF label
  <1> DEFINE p == [cli[c] EXCEPT !.sub = s, !.at = label]
  <1>4. /\ p \in Process /\ p.sub = s /\ p.at = label /\ p.mode = cli[c].mode
        /\ p.pending = cli[c].pending
    BY <1>2, <1>3 DEF Process
  <1>5. cli' = [cli EXCEPT ![c] = p]
    BY <1>1 DEF Become
  <1> HIDE DEF p
  <1>6. ProcessOK(base, p)
    <2>1. Attending(p) /\ Acking(base, p) /\ Paging(base, p)
      BY <1>1, <1>3, <1>4 DEF Attending, Acking, Paging, ActiveConsumer
    <2>2. Draining(base, p) /\ Delivering(p)
      BY <1>2, <1>3, <1>4 DEF ProcessOK, Draining, Delivering, Drains, Polls
    <2> QED
      BY <2>1, <2>2 DEF ProcessOK
  <1>7. Moves(base, c)
    BY <1>4, <1>5, <1>6 DEF Moves
  <1> QED
    BY <1>7, CliOnlyGood DEF Found

LEMMA BeginGood ==
  ASSUME NEW base \in [Subs -> Nat], InvAt(base), NEW c \in Clis, Begin(c)
  PROVE  Good(base)
  <1>1. /\ cli[c] \in Process /\ ProcessOK(base, cli[c]) /\ cli[c].at = "begin"
        /\ cli[c].sub = Mine(c) /\ Mine(c) \in Subs
        /\ cursor[Mine(c)] \in {"active", "deregistered"}
        /\ Bounded /\ AcksPassed(base) /\ live \subseteq Ids /\ Len(log) \in Nat
        /\ Ids = 1 .. Len(log) /\ Len(log) <= MaxEvents /\ MaxEvents \in Nat
    BY ProcessFacts DEF Begin, At, ProcessOK, Attending, Serving, Mine
  <1>2. PICK n \in 0 .. Len(log) : n = pos[Mine(c)] /\ Passed(base, Mine(c), n)
    BY <1>1 DEF Bounded, AcksPassed
  <1>3. PICK w \in SUBSET (1 .. MaxEvents) :
          /\ w = Ahead(Mine(c), n) /\ w \subseteq Ids
          /\ \A i \in w : i > n /\ Matches(Mine(c), i)
    <2>1. Ahead(Mine(c), n) \subseteq Ids
      BY <1>1 DEF Ahead
    <2>2. Ahead(Mine(c), n) \subseteq 1 .. MaxEvents
      BY <1>1, <2>1
    <2>3. \A i \in Ahead(Mine(c), n) : i > n /\ Matches(Mine(c), i)
      BY DEF Ahead
    <2> QED
      BY <2>1, <2>2, <2>3
  <1> DEFINE p == [cli[c] EXCEPT !.floor = n, !.at = "poll", !.pending = w]
  <1>4. /\ p \in Process /\ p.at = "poll" /\ p.sub = cli[c].sub /\ p.floor = n
        /\ p.pending = w
    <2>1. n \in Int /\ "poll" \in Labels
      BY <1>1 DEF Labels
    <2> QED
      BY <1>1, <2>1 DEF Process
  <1>5. cli' = [cli EXCEPT ![c] = p]
    BY <1>2, <1>3 DEF Begin, Become
  <1> HIDE DEF p
  <1>6. ProcessOK(base, p)
    <2>1. Attending(p) /\ Acking(base, p) /\ Paging(base, p)
      BY <1>1, <1>4 DEF Attending, Acking, Paging
    <2>2. Draining(base, p) /\ Delivering(p)
      BY <1>1, <1>2, <1>3, <1>4 DEF Draining, Delivering, Waiting
    <2> QED
      BY <2>1, <2>2 DEF ProcessOK
  <1>7. Moves(base, c)
    BY <1>4, <1>5, <1>6 DEF Moves
  <1> QED
    BY <1>7, CliOnlyGood DEF Begin

(* A process that has read a position, or the oldest row it fell behind.   *)
LEMMA SeenMoves ==
  ASSUME NEW base \in [Subs -> Nat], InvAt(base), NEW c \in Clis,
         cli[c].at \in {"poll", "oldest"}, NEW label \in {"oldest", "reanchor", "select"},
         NEW n \in 0 .. Len(log), Passed(base, Mine(c), n),
         label = "reanchor" => \A i \in live : i > n,
         Become(c, [cli[c] EXCEPT !.seen = n, !.at = label])
  PROVE  Moves(base, c)
  <1>1. /\ cli[c] \in Process /\ ProcessOK(base, cli[c]) /\ Len(log) \in Nat
    BY ProcessFacts
  <1> DEFINE p == [cli[c] EXCEPT !.seen = n, !.at = label]
  <1>2. label \in Labels /\ n \in Int
    BY <1>1 DEF Labels
  <1>3. /\ p \in Process /\ p.at = label /\ p.sub = Mine(c) /\ p.sub = cli[c].sub
        /\ p.seen = n
        /\ p.mode = cli[c].mode /\ p.floor = cli[c].floor /\ p.pending = cli[c].pending
    BY <1>1, <1>2 DEF Process, Mine
  <1>4. cli' = [cli EXCEPT ![c] = p]
    BY DEF Become
  <1> HIDE DEF p
  <1>5. Attending(p) /\ Acking(base, p) /\ Paging(base, p)
    BY <1>1, <1>3 DEF ProcessOK, Attending, Acking, Paging, Serving, Polls
  <1>6. Draining(base, p) /\ Delivering(p)
    BY <1>1, <1>3 DEF ProcessOK, Draining, Delivering, Waiting, Polls
  <1> QED
    BY <1>3, <1>4, <1>5, <1>6 DEF Moves, ProcessOK

LEMMA PollGood ==
  ASSUME NEW base \in [Subs -> Nat], InvAt(base), NEW c \in Clis,
         PollCursor(c) \/ PollFresh(c) \/ PollStale(c)
  PROVE  Good(base)
  <1>1. /\ cli[c] \in Process /\ ProcessOK(base, cli[c])
        /\ cli[c].at \in {"poll", "oldest"} /\ cli[c].sub = Mine(c) /\ Mine(c) \in Subs
        /\ cursor[Mine(c)] \in {"active", "deregistered"}
        /\ Bounded /\ AcksPassed(base) /\ live \subseteq Ids /\ Len(log) \in Nat
        /\ \A i : i \in Ids => i \in Nat /\ i >= 1 /\ i <= Len(log)
    BY ProcessFacts DEF PollCursor, PollFresh, PollStale, At, ProcessOK, Attending, Serving,
                        Polls, Mine
  <1>2. CliOnly
    BY DEF PollCursor, PollFresh, PollStale
  <1>3. cli[c].at = "oldest" =>
          cli[c].seen \in 0 .. Len(log) /\ Passed(base, Mine(c), cli[c].seen)
    BY <1>1 DEF ProcessOK, Acking
  <1>4. CASE PollCursor(c)
    <2>1. PICK n \in 0 .. Len(log) : n = pos[Mine(c)] /\ Passed(base, Mine(c), n)
      BY <1>1 DEF Bounded, AcksPassed
    <2>2. CASE Fail(c)
      BY <1>2, <2>2, FailMoves, CliOnlyGood
    <2>3. CASE Become(c, [cli[c] EXCEPT !.seen = pos[Mine(c)], !.at = "oldest"])
      BY <1>1, <1>2, <2>1, <2>3, SeenMoves, CliOnlyGood
    <2> QED
      BY <1>4, <2>2, <2>3 DEF PollCursor
  <1>5. CASE PollFresh(c)
    <2>1. cli[c].at = "oldest" /\ Goto(c, "select")
      BY <1>5 DEF PollFresh, At
    <2>2. PICK n \in 0 .. Len(log) : n = cli[c].seen /\ Passed(base, Mine(c), n)
      BY <1>3, <2>1
    <2>3. [cli[c] EXCEPT !.seen = n, !.at = "select"] = [cli[c] EXCEPT !.at = "select"]
      BY <1>1, <2>2 DEF Process
    <2> QED
      BY <1>2, <2>1, <2>2, <2>3, SeenMoves, CliOnlyGood DEF Goto
  <1>6. CASE PollStale(c)
    <2>1. PICK m \in live :
            /\ IsOldest(m) /\ cli[c].seen < m - 1
            /\ \/ Become(c, [cli[c] EXCEPT !.seen = m - 1, !.at = "reanchor"])
               \/ Fail(c)
      BY <1>6 DEF PollStale, Stale
    <2>2. /\ cli[c].at = "oldest" /\ cli[c].seen \in 0 .. Len(log)
          /\ Passed(base, Mine(c), cli[c].seen)
      BY <1>3, <1>6 DEF PollStale, At
    <2>3. PICK n \in 0 .. Len(log) : n = m - 1
      BY <1>1, <2>1, <2>2
    <2>4. \A i \in live : i > n
      BY <1>1, <2>1, <2>3 DEF IsOldest
    <2>5. Passed(base, Mine(c), n)
      <3>1. base[Mine(c)] <= n
        BY <1>1, <2>1, <2>2, <2>3 DEF Passed
      <3>2. \A i \in live : ~(i <= n)
        BY <1>1, <2>4
      <3> QED
        BY <3>1, <3>2 DEF Passed
    <2>6. CASE Fail(c)
      BY <1>2, <2>6, FailMoves, CliOnlyGood
    <2>7. CASE Become(c, [cli[c] EXCEPT !.seen = m - 1, !.at = "reanchor"])
      BY <1>1, <1>2, <2>3, <2>4, <2>5, <2>7, SeenMoves, CliOnlyGood
    <2> QED
      BY <2>1, <2>6, <2>7
  <1> QED
    BY <1>4, <1>5, <1>6

(* The first BatchSize rows beyond a position.                             *)
First(s, n) ==
  {i \in Ahead(s, n) : Cardinality({j \in Ahead(s, n) : j < i}) < BatchSize}

(* A page leaves out no matching event before one it holds.                *)
LEMMA PageIsPrefix ==
  ASSUME Typed, NEW s, NEW n \in Int, NEW j \in First(s, n), NEW i \in Ahead(s, n), i < j
  PROVE  i \in First(s, n)
  <1>1. live \subseteq 1 .. Len(log) /\ Len(log) \in Nat
    BY DEF Typed, TypeOK, Ids
  <1> DEFINE Below(k) == {h \in Ahead(s, n) : h < k}
  <1>2. j \in Ahead(s, n) /\ Cardinality(Below(j)) < BatchSize
    BY DEF First
  <1>3. Below(i) \subseteq Below(j)
    <2>1. \A h \in Ahead(s, n) : h \in Int
      <3>1. \A h \in live : h \in Int
        BY <1>1
      <3> QED
        BY <3>1 DEF Ahead
    <2> SUFFICES ASSUME NEW h \in Ahead(s, n), h < i PROVE h < j
      OBVIOUS
    <2> QED
      BY <1>2, <2>1
  <1>4. IsFiniteSet(Below(j))
    <2>1. IsFiniteSet(1 .. Len(log))
      BY <1>1, FS_Interval
    <2> QED
      BY <1>1, <2>1, FS_Subset DEF Ahead
  <1>5. /\ Cardinality(Below(i)) <= Cardinality(Below(j))
        /\ Cardinality(Below(i)) \in Nat /\ Cardinality(Below(j)) \in Nat
    BY <1>3, <1>4, FS_Subset, FS_CardinalityType
  <1>6. Cardinality(Below(i)) < BatchSize
    BY <1>2, <1>5, CliAssumption
  <1> QED
    BY <1>6 DEF First

(* It is empty only when there is nothing to return.                       *)
LEMMA PageNotEmpty ==
  ASSUME Typed, NEW s, NEW n \in Int, First(s, n) = {}
  PROVE  Ahead(s, n) = {}
  <1> SUFFICES ASSUME Ahead(s, n) # {} PROVE FALSE
    OBVIOUS
  <1>1. Ahead(s, n) \subseteq Nat
    <2>1. live \subseteq Nat
      BY IdRange
    <2> QED
      BY <2>1 DEF Ahead
  <1>2. PICK m \in Ahead(s, n) : \A i \in Ahead(s, n) : m <= i
    BY <1>1, LeastExists
  <1>3. {j \in Ahead(s, n) : j < m} = {}
    <2> SUFFICES ASSUME NEW j \in Ahead(s, n), j < m PROVE FALSE
      OBVIOUS
    <2>1. j \in Nat /\ m \in Nat /\ m <= j
      BY <1>1, <1>2
    <2> QED
      BY <2>1
  <1>4. Cardinality({j \in Ahead(s, n) : j < m}) < BatchSize
    BY <1>3, FS_EmptySet, CliAssumption
  <1>5. m \in First(s, n)
    BY <1>4 DEF First
  <1> QED
    BY <1>5

LEMMA SelectGood ==
  ASSUME NEW base \in [Subs -> Nat], InvAt(base), NEW c \in Clis, PollSelect(c)
  PROVE  Good(base)
  <1>1. /\ cli[c] \in Process /\ ProcessOK(base, cli[c]) /\ cli[c].at = "select"
        /\ cli[c].sub = Mine(c) /\ Mine(c) \in Subs
        /\ cursor[Mine(c)] \in {"active", "deregistered"}
        /\ Typed /\ live \subseteq Ids /\ Len(log) \in Nat
        /\ Ids = 1 .. Len(log) /\ Len(log) <= MaxEvents /\ MaxEvents \in Nat
        /\ \A i : i \in Ids => i \in Nat /\ i >= 1 /\ i <= Len(log)
    BY ProcessFacts DEF PollSelect, At, ProcessOK, Attending, Serving, Polls, Mine
  <1> DEFINE s == Mine(c)
  <1>2. PICK n \in 0 .. Len(log) :
          n = (IF Drains(c) THEN cli[c].floor ELSE cli[c].seen) /\ Passed(base, s, n)
    BY <1>1 DEF ProcessOK, Acking, Draining, Drains, Mine, Polls
  <1>3. PICK rows \in SUBSET (1 .. MaxEvents) :
          rows = First(s, n) /\ rows \subseteq Ids /\ \A j \in rows : j > n
    <2>1. First(s, n) \subseteq Ids
      BY <1>1 DEF First, Ahead
    <2>2. First(s, n) \subseteq 1 .. MaxEvents
      BY <1>1, <2>1
    <2>3. \A j \in First(s, n) : j > n
      BY DEF First, Ahead
    <2> QED
      BY <2>1, <2>2, <2>3
  <1> DEFINE p == [cli[c] EXCEPT !.page = rows, !.event = 0, !.at = "next"]
  <1>4. /\ p \in Process /\ p.at = "next" /\ p.sub = cli[c].sub /\ p.page = rows
        /\ p.floor = cli[c].floor /\ p.pending = cli[c].pending /\ p.mode = cli[c].mode
    <2>1. 0 \in 0 .. MaxEvents /\ "next" \in Labels
      BY <1>1 DEF Labels
    <2> QED
      BY <1>1, <2>1 DEF Process
  <1>5. cli' = [cli EXCEPT ![c] = p]
    BY <1>2, <1>3 DEF PollSelect, Page, First, Become
  <1> HIDE DEF p
  <1>6. Attending(p) /\ Acking(base, p)
    BY <1>1, <1>4 DEF Attending, Acking
  <1>7. Paging(base, p)
    <2> SUFFICES ASSUME NEW j \in rows
        PROVE  /\ j \in Ids /\ base[s] < j
               /\ \A i \in live : Matches(s, i) /\ base[s] < i /\ i < j =>
                    <<s, i>> \in written \/ i \in rows
      BY <1>1, <1>4 DEF Paging
    <2>1. j \in Ids /\ base[s] < j
      BY <1>1, <1>2, <1>3 DEF Passed
    <2>2. ASSUME NEW i \in live, Matches(s, i), base[s] < i, i < j
          PROVE  <<s, i>> \in written \/ i \in rows
      <3>1. CASE i <= n
        BY <1>2, <2>2, <3>1 DEF Passed
      <3>2. CASE i > n
        <4>1. i \in Ahead(s, n)
          BY <2>2, <3>2 DEF Ahead
        <4> QED
          BY <1>1, <1>3, <2>2, <4>1, PageIsPrefix
      <3> QED
        BY <1>1, <3>1, <3>2
    <2> QED
      BY <2>1, <2>2
  <1>8. Drains(c) => Waiting(p) \subseteq Ahead(s, n)
    <2>1. Drains(c) => \A i \in Waiting(cli[c]) : i > n /\ Matches(s, i)
      BY <1>1, <1>2 DEF ProcessOK, Draining, Drains, Polls
    <2> QED
      BY <1>4, <2>1 DEF Waiting, Ahead
  <1>9. Draining(base, p)
    BY <1>1, <1>4 DEF ProcessOK, Draining, Drains, Polls, Waiting
  <1>10. Delivering(p)
    <2>1. ASSUME Drains(c), NEW j \in rows, NEW i \in Waiting(p), i < j PROVE i \in rows
      BY <1>1, <1>3, <1>8, <2>1, PageIsPrefix
    <2>2. ASSUME Drains(c), rows = {} PROVE Waiting(p) = {}
      <3>1. First(s, n) = {} /\ n \in Int
        BY <1>1, <1>3, <2>2
      <3>2. Ahead(s, n) = {}
        BY <1>1, <3>1, PageNotEmpty
      <3> QED
        BY <1>8, <2>2, <3>2
    <2> QED
      BY <1>1, <1>4, <2>1, <2>2 DEF ProcessOK, Delivering, Drains
  <1>11. Moves(base, c)
    BY <1>4, <1>5, <1>6, <1>7, <1>9, <1>10 DEF Moves, ProcessOK
  <1> QED
    BY <1>11, CliOnlyGood DEF PollSelect

(* A row is written: everything before it has been, for this cursor.       *)
LEMMA WriteGood ==
  ASSUME NEW base \in [Subs -> Nat], InvAt(base), NEW c \in Clis, Write(c)
  PROVE  Good(base)
  <1>1. /\ cli[c] \in Process /\ ProcessOK(base, cli[c]) /\ cli[c].at = "next"
        /\ cli[c].sub = Mine(c) /\ Mine(c) \in Subs
        /\ cursor[Mine(c)] \in {"active", "deregistered"}
        /\ Typed /\ live \subseteq Ids /\ Len(log) \in Nat
        /\ Ids = 1 .. Len(log) /\ Len(log) <= MaxEvents /\ MaxEvents \in Nat
        /\ \A i : i \in Ids => i \in Nat /\ i >= 1 /\ i <= Len(log)
    BY ProcessFacts DEF Write, At, ProcessOK, Attending, Serving, Polls, Mine
  <1>2. PICK k \in Process : k = cli[c] /\ ProcessOK(base, k) /\ k.sub \in Subs
                             /\ cursor[k.sub] \in {"active", "deregistered"}
                             /\ k.at = "next"
    BY <1>1
  <1> DEFINE s == k.sub
             label == IF k.mode.ack THEN "ack" ELSE "next"
  <1>3. PICK e \in k.page :
          /\ \A j \in k.page : e <= j
          /\ written' = written \cup {<<s, e>>}
          /\ Become(c, [k EXCEPT
               !.page = k.page \ {e}, !.event = e,
               !.floor = IF k.mode.drain THEN e ELSE k.floor,
               !.pending = k.pending \ {e}, !.at = label])
    BY <1>2 DEF Write, Drains, Mine
  <1>4. /\ UNCHANGED <<vars, spent>>
        /\ UNCHANGED <<log, live, cursor>>
    BY StoreStutters DEF Write
  <1>5. /\ e \in Ids /\ base[s] < e /\ base[s] \in Nat /\ e \in 1 .. MaxEvents
        /\ \A j \in k.page : j \in Ids
    BY <1>1, <1>2, <1>3 DEF ProcessOK, Paging
  <1> DEFINE floor == IF k.mode.drain THEN e ELSE k.floor
             p == [k EXCEPT !.page = k.page \ {e}, !.event = e, !.floor = floor,
                            !.pending = k.pending \ {e}, !.at = label]
  <1>6. label \in Labels /\ label \in {"next", "ack"}
    BY DEF Labels
  <1>7. floor \in Int /\ (k.mode.drain => floor = e)
    BY <1>2, <1>5 DEF Process
  <1> HIDE DEF label, floor
  <1>8. /\ p \in Process /\ p.at = label /\ p.sub = s /\ p.page = k.page \ {e}
        /\ p.event = e /\ p.floor = floor /\ p.pending = k.pending \ {e} /\ p.mode = k.mode
    <2>1. /\ k.page \ {e} \in SUBSET (1 .. MaxEvents) /\ k.pending \ {e} \in SUBSET (1 .. MaxEvents)
      BY <1>2 DEF Process
    <2>2. e \in 0 .. MaxEvents
      BY <1>1, <1>5
    <2> QED
      BY <1>2, <1>6, <1>7, <2>1, <2>2 DEF Process
  <1>9. cli' = [cli EXCEPT ![c] = p]
    BY <1>3 DEF Become, label, floor
  <1> HIDE DEF p
  <1>10. Passed(base, s, e)'
    <2>1. ASSUME NEW i \in live, Matches(s, i), base[s] < i, i <= e
          PROVE  <<s, i>> \in written'
      <3>1. CASE i = e
        BY <1>3, <3>1
      <3>2. CASE i # e
        <4>1. i < e /\ i \notin k.page
          BY <1>1, <1>3, <1>5, <2>1, <3>2
        <4> QED
          BY <1>2, <1>3, <2>1, <4>1 DEF ProcessOK, Paging
      <3> QED
        BY <3>1, <3>2
    <2>2. base[s] <= e
      BY <1>1, <1>5
    <2> QED
      BY <1>4, <2>1, <2>2 DEF Passed, Matches
  <1>11. Attending(p)' /\ Acking(base, p)'
    BY <1>2, <1>4, <1>5, <1>6, <1>8, <1>10 DEF Attending, Acking, Ids
  <1>12. Paging(base, p)'
    <2> SUFFICES ASSUME NEW j \in k.page
        PROVE  /\ j \in Ids /\ base[s] < j
               /\ \A i \in live : Matches(s, i) /\ base[s] < i /\ i < j =>
                    <<s, i>> \in written' \/ i \in k.page \ {e}
      BY <1>4, <1>8 DEF Paging, Matches, Ids
    <2> QED
      BY <1>2, <1>3 DEF ProcessOK, Paging
  <1>13. k.mode.drain => /\ Waiting(p) \subseteq Waiting(k) \ {e}
                         /\ \A i \in Waiting(p) : i > e /\ Matches(s, i)
    <2> SUFFICES ASSUME k.mode.drain, NEW i \in Waiting(p)
        PROVE  i \in Waiting(k) \ {e} /\ i > e /\ Matches(s, i)
      OBVIOUS
    <2>1. i \in Waiting(k) /\ i # e /\ i \in live
      BY <1>8 DEF Waiting
    <2>2. Matches(s, i)
      BY <1>2, <2>1 DEF ProcessOK, Draining, Polls
    <2>3. i < e => i \in k.page
      BY <1>2, <1>3, <2>1 DEF ProcessOK, Delivering
    <2>4. i > e
      BY <1>1, <1>3, <1>5, <2>1, <2>3
    <2> QED
      BY <2>1, <2>2, <2>4
  <1>14. Waiting(p)' = Waiting(p)
    BY <1>4 DEF Waiting
  <1>15. Draining(base, p)'
    <2>1. e \in 0 .. Len(log)
      BY <1>1, <1>5
    <2> QED
      BY <1>4, <1>7, <1>8, <1>10, <1>13, <1>14, <2>1 DEF Draining, Matches
  <1>16. Delivering(p)'
    <2>1. p.pending \subseteq Ids' /\ e # 0
      BY <1>1, <1>2, <1>4, <1>5, <1>8 DEF ProcessOK, Delivering, Ids
    <2>2. k.mode.drain => \A j \in k.page, i \in Waiting(k) : i < j => i \in k.page
      BY <1>2 DEF ProcessOK, Delivering
    <2>3. k.mode.drain => \A j \in p.page, i \in Waiting(p) : i < j => i \in p.page
      BY <1>8, <1>13, <2>2
    <2> QED
      BY <1>6, <1>8, <1>14, <2>1, <2>3 DEF Delivering
  <1>17. Arrives(base, c)
    BY <1>8, <1>9, <1>11, <1>12, <1>15, <1>16 DEF Arrives, ProcessOK
  <1>18. RowsTyped'
    BY <1>2, <1>3, <1>4, <1>5 DEF RowsTyped, InvAt, CliTypeOK
  <1>19. InvAt(base)'
    BY <1>3, <1>4, <1>17, <1>18, IdleStore, ProcessKeeps
  <1>20. ALO!Handle(s, e)
    BY <1>3, <1>4, StoreStutters DEF ALO!Handle, ALO!requests, Ids
  <1>21. ALO!Next
    BY <1>2, <1>5, <1>20 DEF ALO!Next
  <1> QED
    BY <1>19, <1>21 DEF Good

LEMMA PassEndsGood ==
  ASSUME NEW base \in [Subs -> Nat], InvAt(base), NEW c \in Clis,
         NextPage(c) \/ Empty(c) \/ Wake(c)
  PROVE  Good(base)
  <1>1. /\ cli[c] \in Process /\ ProcessOK(base, cli[c]) /\ cli[c].at \in {"next", "pause"}
        /\ cli[c].sub = Mine(c) /\ cli[c].at \in Polls /\ cli[c].at \in Serving
    BY ProcessFacts DEF NextPage, Empty, Wake, PageDone, At, Mine, Polls, Serving
  <1>2. CliOnly
    BY DEF NextPage, Empty, Wake
  <1>3. Drains(c) => /\ cli[c].floor \in 0 .. Len(log) /\ Passed(base, Mine(c), cli[c].floor)
                     /\ \A i \in Waiting(cli[c]) : i > cli[c].floor
    BY <1>1 DEF ProcessOK, Draining, Drains
  <1>4. CASE NextPage(c)
    BY <1>1, <1>2, <1>3, <1>4, RepeatMoves, CliOnlyGood DEF NextPage
  <1>5. CASE Empty(c)
    <2>1. /\ cli[c].at = "next" /\ cli[c].page = {} /\ cli[c].event = 0 /\ cli[c].mode.drain
      BY <1>5 DEF Empty, PageDone, Drains, At
    <2>2. Waiting(cli[c]) = {}
      BY <1>1, <2>1 DEF ProcessOK, Delivering
    <2>3. CASE Exit(c)
      BY <1>2, <2>2, <2>3, ExitMoves, CliOnlyGood
    <2>4. CASE Become(c, [cli[c] EXCEPT !.seen = 0, !.at = "pause"])
      <3> DEFINE p == [cli[c] EXCEPT !.seen = 0, !.at = "pause"]
      <3>1. /\ p \in Process /\ p.at = "pause" /\ p.sub = cli[c].sub
            /\ p.mode = cli[c].mode /\ p.floor = cli[c].floor
            /\ p.pending = cli[c].pending
        <4>1. "pause" \in Labels /\ 0 \in Int
          BY DEF Labels
        <4> QED
          BY <1>1, <4>1 DEF Process
      <3>2. cli' = [cli EXCEPT ![c] = p]
        BY <2>4 DEF Become
      <3> HIDE DEF p
      <3>3. Attending(p) /\ Acking(base, p) /\ Paging(base, p)
        BY <1>1, <3>1 DEF ProcessOK, Attending, Acking, Paging
      <3>4. Draining(base, p) /\ Delivering(p)
        BY <1>1, <2>2, <3>1 DEF ProcessOK, Draining, Delivering, Waiting
      <3>5. Moves(base, c)
        BY <3>1, <3>2, <3>3, <3>4 DEF Moves, ProcessOK
      <3> QED
        BY <1>2, <3>5, CliOnlyGood
    <2> QED
      BY <1>5, <2>3, <2>4 DEF Empty
  <1>6. CASE Wake(c)
    <2>1. Goto(c, "poll")
      BY <1>6 DEF Wake
    <2>2. ASSUME NEW p \in Process, p.at = "poll", p.sub = cli[c].sub, p.mode = cli[c].mode,
                 p.floor = cli[c].floor, p.pending = cli[c].pending
          PROVE  ProcessOK(base, p)
      <3>1. Attending(p) /\ Acking(base, p) /\ Paging(base, p)
        BY <1>1, <2>2 DEF ProcessOK, Attending, Acking, Paging
      <3>2. Draining(base, p) /\ Delivering(p)
        BY <1>1, <2>2 DEF ProcessOK, Draining, Delivering, Waiting
      <3> QED
        BY <3>1, <3>2 DEF ProcessOK
    <2>3. Moves(base, c)
      BY <2>1, <2>2, GotoMoves DEF Labels
    <2> QED
      BY <1>2, <2>3, CliOnlyGood
  <1> QED
    BY <1>4, <1>5, <1>6

LEMMA SpendTyped ==
  ASSUME CliTypeOK, NEW kind \in DOMAIN Budget, kind # "any", Spend(kind)
  PROVE  spent' \in [DOMAIN Budget -> Nat]
  <1>1. spent \in [DOMAIN Budget -> Nat] /\ "any" \in DOMAIN Budget
    BY CliAssumption DEF CliTypeOK
  <1>2. PICK n \in Nat : n = spent[kind] + 1
    BY <1>1
  <1>3. PICK f \in [DOMAIN Budget -> Nat] : f = [spent EXCEPT ![kind] = n]
    BY <1>1
  <1>4. PICK m \in Nat : m = spent["any"] + 1
    BY <1>1
  <1>5. spent' = [f EXCEPT !["any"] = m]
    BY <1>1, <1>2, <1>3, <1>4 DEF Spend
  <1> QED
    BY <1>3, <1>5

(* A drain that a signal ends was waiting with nothing left to write.      *)
LEMMA DisturbGood ==
  ASSUME NEW base \in [Subs -> Nat], InvAt(base), NEW c \in Clis, Disturb(c)
  PROVE  Good(base)
  <1>1. cli[c] \in Process /\ ProcessOK(base, cli[c]) /\ CliTypeOK
    BY ProcessFacts DEF InvAt
  <1>2. spent' \in [DOMAIN Budget -> Nat] /\ UNCHANGED <<vars, written>>
    <2>1. {"crash", "dberror", "signal"} \subseteq DOMAIN Budget
      BY CliAssumption
    <2>2. PICK kind \in {"crash", "dberror", "signal"} : Spend(kind)
      BY DEF Disturb, DbError, Signal, Crash
    <2> QED
      BY <1>1, <2>1, <2>2, SpendTyped DEF Disturb, DbError, Signal, Crash
  <1>3. CASE DbError(c)
    <2>1. ASSUME cli[c].at \in {"poll", "oldest", "select", "ack"}, ~Drains(c),
                 Repeat(c, cli[c])
          PROVE  Moves(base, c)
      BY <1>1, <2>1, RepeatMoves DEF Polls
    <2> QED
      BY <1>2, <1>3, <2>1, FailMoves, LocalGood DEF DbError
  <1>4. CASE Signal(c)
    <2>1. ASSUME Drains(c) PROVE Waiting(cli[c]) = {} /\ Exit(c)
      BY <1>1, <1>4, <2>1 DEF ProcessOK, Delivering, Drains, Signal, At
    <2>2. Moves(base, c)
      BY <1>4, <2>1, ExitMoves, FailMoves DEF Signal
    <2> QED
      BY <1>2, <2>2, LocalGood
  <1>5. CASE Crash(c)
    BY <1>2, <1>5, FailMoves, LocalGood DEF Crash
  <1> QED
    BY <1>3, <1>4, <1>5 DEF Disturb

--------------------------------------------------------------------------------
(* Acknowledging and re-anchoring.                                         *)

(* An ack settles what it passes, or claims again what it moves behind.    *)
LEMMA PromiseAcks ==
  ASSUME NEW base \in [Subs -> Nat], StoreAt(base), NEW s \in Subs, NEW n \in 0 .. Len(log),
         Passed(base, s, n), Ack(s, n), UNCHANGED written
  PROVE  [ALO!Next]_(ALO!vars)
  <1>1. /\ Typed /\ Claims /\ Bounded /\ AcksPassed(base)
        /\ Ids = 1 .. Len(log) /\ Len(log) \in Nat /\ Len(log) <= MaxEvents
        /\ MaxEvents \in Nat
    BY IdRange, StoreAssumption DEF StoreAt, RetentionInv, Bounded
  <1>2. /\ UNCHANGED <<log, live, sub, cursor>> /\ cursor[s] = "active"
        /\ due' = [due EXCEPT ![s] =
             IF ActiveConsumer(s) THEN {i \in due[s] : i > n} \cup Ahead(s, n) ELSE {}]
    BY <1>1 DEF Ack, MoveCursor, tables
  <1>3. /\ due \in [Subs -> SUBSET Ids] /\ live \subseteq Ids /\ due[s] \subseteq Ids
        /\ pos[s] \in Int /\ base[s] \in Nat /\ base[s] <= pos[s] /\ n \in Int
        /\ \A i \in Ids : i \in Int
    BY <1>1, <1>2 DEF Typed, TypeOK, AcksPassed, Passed
  <1>4. CASE ~ActiveConsumer(s)
    <2>1. due[s] = {}
      BY <1>1, <1>4 DEF Claims
    <2>2. due' = due
      BY <1>2, <1>3, <1>4, <2>1
    <2> QED
      BY <1>2, <2>2, PromiseStutters
  <1>5. CASE ActiveConsumer(s) /\ n < pos[s]
    <2> DEFINE more == [r \in Subs |-> IF r = s THEN Ahead(s, n) ELSE {}]
    <2>1. Ahead(s, n) \subseteq 1 .. MaxEvents
      <3>1. Ahead(s, n) \subseteq Ids
        BY <1>3 DEF Ahead
      <3> QED
        BY <1>1, <3>1
    <2>2. \A i \in due[s] : i > n
      BY <1>1, <1>3, <1>5 DEF Claims
    <2>3. more \in [Subs -> SUBSET (1 .. MaxEvents)]
      BY <2>1
    <2>4. due'[s] = due[s] \cup Ahead(s, n)
      BY <1>2, <1>3, <1>5, <2>2
    <2>5. due' = [r \in Subs |-> due[r] \cup more[r]]
      BY <1>2, <1>3, <2>4
    <2>6. ALO!Claim
      BY <1>2, <2>3, <2>5 DEF ALO!Claim, ALO!requests, Ids
    <2> QED
      BY <2>6 DEF ALO!Next
  <1>6. CASE ActiveConsumer(s) /\ n >= pos[s]
    <2> DEFINE done == {i \in due[s] : i <= n}
    <2>1. Ahead(s, n) \subseteq Ahead(s, pos[s])
      BY <1>3, <1>6 DEF Ahead
    <2>2. Ahead(s, n) \subseteq due[s] /\ \A i \in Ahead(s, n) : i > n
      BY <1>1, <1>6, <2>1 DEF Bounded, Ahead
    <2>3. due'[s] = due[s] \ done
      BY <1>2, <1>3, <1>6, <2>2
    <2>4. due' = [due EXCEPT ![s] = @ \ done]
      BY <1>2, <1>3, <2>3
    <2>5. ASSUME NEW i \in done PROVE ALO!Settled(s, i)
      <3>1. Matches(s, i) /\ i > pos[s] /\ i \in Ids /\ i <= n
        BY <1>1, <1>3 DEF Claims
      <3>2. base[s] < i
        BY <1>3, <3>1
      <3>3. i \in live => <<s, i>> \in written
        BY <3>1, <3>2 DEF Passed
      <3> QED
        BY <3>1, <3>3 DEF ALO!Settled
    <2>6. ALO!Settle(s)
      <3>1. done \in SUBSET due[s]
        OBVIOUS
      <3>2. UNCHANGED <<written, Ids \ live, sub>>
        BY <1>2 DEF Ids
      <3> HIDE DEF done
      <3> QED
        BY <2>4, <2>5, <3>1, <3>2 DEF ALO!Settle, ALO!requests
    <2> QED
      BY <2>6 DEF ALO!Next
  <1> QED
    BY <1>3, <1>4, <1>5, <1>6

LEMMA AckKeeps ==
  ASSUME NEW base \in [Subs -> Nat], StoreAt(base), NEW s \in Subs, NEW n \in 0 .. Len(log),
         Passed(base, s, n), Ack(s, n), UNCHANGED written
  PROVE  StoreAt(base)' /\ Grows
  <1>1. /\ Typed /\ Bounded /\ AcksPassed(base)
        /\ Ids = 1 .. Len(log) /\ Len(log) \in Nat /\ Len(log) <= MaxEvents
        /\ MaxEvents \in Nat
    BY IdRange, StoreAssumption DEF StoreAt, RetentionInv, Bounded
  <1>2. /\ UNCHANGED <<log, live, sub, cursor>>
        /\ pos' = [pos EXCEPT ![s] = n]
        /\ due' = [due EXCEPT ![s] =
             IF ActiveConsumer(s) THEN {i \in due[s] : i > n} \cup Ahead(s, n) ELSE {}]
    BY <1>1 DEF Ack, MoveCursor, tables
  <1>3. RetentionInv'
    <2>1. n \in 0 .. MaxEvents
      BY <1>1
    <2>2. Next
      BY <2>1 DEF Consume, Next
    <2> QED
      BY <2>2, RetentionNext DEF StoreAt
  <1>4. Grows
    BY <1>2 DEF Grows, Ids
  <1>5. due \in [Subs -> SUBSET Ids] /\ pos \in [Subs -> 0 .. Len(log)]
    BY <1>1 DEF Typed, TypeOK, Bounded
  <1>6. Bounded'
    <2>1. \A r \in Subs : ActiveConsumer(r)' => Ahead(r, pos'[r]) \subseteq due'[r]
      <3> SUFFICES ASSUME NEW r \in Subs, ActiveConsumer(r)
          PROVE  Ahead(r, pos'[r]) \subseteq due'[r]
        BY <1>2 DEF ActiveConsumer
      <3>1. CASE r = s
        BY <1>2, <1>5, <3>1
      <3>2. CASE r # s
        BY <1>1, <1>2, <1>5, <3>2 DEF Bounded
      <3> QED
        BY <3>1, <3>2
    <2>2. \A r \in Subs : ActiveConsumer(r)' => Ahead(r, pos[r])' \subseteq due'[r]
      BY <1>2, <2>1 DEF Ahead, Matches
    <2> QED
      BY <1>1, <1>2, <1>5, <2>2 DEF Bounded
  <1>7. AcksPassed(base)'
    <2> SUFFICES ASSUME NEW r \in Subs, cursor'[r] \in {"active", "deregistered"}
        PROVE  Passed(base, r, pos[r])'
      BY DEF AcksPassed
    <2>1. PICK m \in 0 .. Len(log) : m = pos'[r]
      BY <1>2, <1>5
    <2>2. Passed(base, r, m)
      BY <1>1, <1>2, <1>5, <2>1 DEF AcksPassed
    <2>3. Passed(base, r, m)'
      BY <1>2, <2>2 DEF Passed, Matches
    <2> QED
      BY <2>1, <2>3
  <1> QED
    BY <1>3, <1>4, <1>6, <1>7 DEF StoreAt

LEMMA AckStepGood ==
  ASSUME NEW base \in [Subs -> Nat], InvAt(base), NEW c \in Clis, Moves(base, c),
         NEW s \in Subs, NEW n \in 0 .. Len(log), Passed(base, s, n), Ack(s, n), StoreToo
  PROVE  Good(base)
  <1>1. UNCHANGED written /\ RowsTyped' /\ StoreAt(base)
    BY DEF StoreToo, RowsTyped, InvAt, CliTypeOK
  <1>2. StoreAt(base)' /\ Grows
    BY <1>1, AckKeeps
  <1>3. InvAt(base)'
    BY <1>1, <1>2, ProcessKeeps
  <1>4. [ALO!Next]_(ALO!vars)
    BY <1>1, PromiseAcks
  <1> QED
    BY <1>3, <1>4 DEF Good

(* The row written last may be acknowledged, and so may the position just  *)
(* before the oldest row.                                                  *)
LEMMA AckingGood ==
  ASSUME NEW base \in [Subs -> Nat], InvAt(base), NEW c \in Clis, AckWritten(c) \/ Recover(c)
  PROVE  Good(base)
  <1>1. /\ cli[c] \in Process /\ ProcessOK(base, cli[c]) /\ cli[c].at \in {"ack", "reanchor"}
        /\ cli[c].sub = Mine(c) /\ Mine(c) \in Subs
        /\ cursor[Mine(c)] \in {"active", "deregistered"}
        /\ live \subseteq Ids /\ Len(log) \in Nat
        /\ \A i : i \in Ids => i \in Nat /\ i >= 1 /\ i <= Len(log)
    BY ProcessFacts DEF AckWritten, Recover, At, ProcessOK, Attending, Serving, Polls, Mine
  <1>2. ASSUME UNCHANGED vars, Fail(c), StoreToo PROVE Good(base)
    BY <1>2, FailMoves, CliOnlyGood DEF CliOnly, StoreToo
  <1>3. CASE AckWritten(c)
    <2>1. PICK e \in 0 .. Len(log) :
            e = cli[c].event /\ e # 0 /\ Passed(base, Mine(c), e) /\ cli[c].at = "ack"
      <3>1. cli[c].at = "ack"
        BY <1>3 DEF AckWritten, At
      <3>2. cli[c].event \in Ids /\ Passed(base, Mine(c), cli[c].event)
        BY <1>1, <3>1 DEF ProcessOK, Acking
      <3> QED
        BY <1>1, <3>1, <3>2
    <2>2. CASE Ack(Mine(c), e) /\ Goto(c, "next")
      <3>1. ASSUME NEW p \in Process, p.at = "next", p.sub = cli[c].sub,
                   p.mode = cli[c].mode, p.floor = cli[c].floor, p.page = cli[c].page,
                   p.event = cli[c].event, p.pending = cli[c].pending
            PROVE  ProcessOK(base, p)
        <4>1. Attending(p) /\ Acking(base, p)
          BY <1>1, <3>1 DEF Attending, Acking
        <4>2. Paging(base, p) /\ Draining(base, p)
          BY <1>1, <2>1, <3>1 DEF ProcessOK, Paging, Draining, Waiting, Polls
        <4>3. Delivering(p)
          BY <1>1, <2>1, <3>1 DEF ProcessOK, Delivering, Waiting
        <4> QED
          BY <4>1, <4>2, <4>3 DEF ProcessOK
      <3>2. Moves(base, c)
        BY <2>2, <3>1, GotoMoves DEF Labels
      <3> QED
        BY <1>1, <1>3, <2>1, <2>2, <3>2, AckStepGood DEF AckWritten
    <2> QED
      BY <1>2, <1>3, <2>1, <2>2 DEF AckWritten
  <1>4. CASE Recover(c)
    <2>1. PICK n \in 0 .. Len(log) :
            /\ n = cli[c].seen /\ Passed(base, Mine(c), n)
            /\ \A i \in live : i > n
      BY <1>1, <1>4 DEF Recover, At, ProcessOK, Acking, Delivering
    <2>2. ASSUME Ack(Mine(c), n),
                 Repeat(c, [cli[c] EXCEPT !.floor = IF Drains(c) THEN cli[c].seen ELSE 0])
          PROVE  Good(base)
      <3> DEFINE floor == IF Drains(c) THEN n ELSE 0
                 p == [cli[c] EXCEPT !.floor = floor]
      <3>1. floor \in Int /\ (Drains(c) => floor = n)
        BY <1>1
      <3>2. Repeat(c, p)
        BY <2>1, <2>2
      <3> HIDE DEF floor
      <3>3. /\ p \in Process /\ p.mode = cli[c].mode /\ p.sub = cli[c].sub
            /\ p.pending = cli[c].pending /\ p.floor = floor
        BY <1>1, <3>1 DEF Process
      <3> HIDE DEF p
      <3>4. \A i \in Waiting(cli[c]) : i > n
        BY <2>1 DEF Waiting
      <3>5. cli[c].at \in Polls
        BY <1>1 DEF Polls
      <3>6. Moves(base, c)
        BY <2>1, <3>1, <3>2, <3>3, <3>4, <3>5, RepeatMoves
      <3> QED
        BY <1>1, <1>4, <2>1, <2>2, <3>6, AckStepGood DEF Recover
    <2> QED
      BY <1>2, <1>4, <2>1, <2>2 DEF Recover
  <1> QED
    BY <1>3, <1>4

--------------------------------------------------------------------------------
(* Registration.                                                           *)
LEMMA RegisterNewGood ==
  ASSUME NEW base \in [Subs -> Nat], InvAt(base), NEW c \in Clis, RegisterNew(c)
  PROVE  Good(base)
  <1>1. /\ Typed /\ Bounded /\ AcksPassed(base) /\ CliTypeOK
        /\ cli[c] \in Process /\ ProcessOK(base, cli[c]) /\ UNCHANGED written
        /\ sub \in [Subs -> {"absent", "active", "deregistered"}]
        /\ cursor \in [Subs -> {"absent", "reading", "inserting", "active", "deregistered"}]
    BY ProcessFacts DEF InvAt, RegisterNew, Typed, TypeOK
  <1>2. PICK s \in Subs, init \in {"oldest", "latest"} :
          /\ RegisterSubscription(s, init)
          /\ Become(c, [cli[c] EXCEPT !.sub = s, !.at = "register"])
    BY DEF RegisterNew
  <1>3. /\ UNCHANGED <<log, live, pos, due, written>>
        /\ sub[s] = "absent" /\ sub' = [sub EXCEPT ![s] = "active"]
        /\ cursor'[s] \in {"reading", "inserting"}
        /\ \A r \in Subs : r # s => cursor'[r] = cursor[r]
        /\ cursor[s] = "absent"
    BY <1>1, <1>2 DEF RegisterSubscription, tables, Bounded
  <1>4. RetentionInv' /\ Typed'
    <2>1. Next
      BY <1>2 DEF Register, Next
    <2> QED
      BY <2>1, RetentionNext DEF InvAt, StoreAt, RetentionInv
  <1>5. Grows
    BY <1>1, <1>3 DEF Grows, Ids
  <1>6. Bounded'
    BY <1>1, <1>3 DEF Bounded, ActiveConsumer, Ahead, Matches
  <1>7. AcksPassed(base)'
    BY <1>1, <1>3, <1>4, <1>5, AcksStay
  <1>8. RowsTyped'
    <2>1. "again" \in DOMAIN Budget /\ spent \in [DOMAIN Budget -> Nat]
      BY <1>1, CliAssumption DEF CliTypeOK
    <2>2. UNCHANGED spent \/ Spend("again")
      BY DEF RegisterNew
    <2>3. spent' \in [DOMAIN Budget -> Nat]
      BY <1>1, <2>1, <2>2, SpendTyped
    <2> QED
      BY <1>1, <2>3 DEF RowsTyped, CliTypeOK
  <1>9. Moves(base, c)
    <2> DEFINE p == [cli[c] EXCEPT !.sub = s, !.at = "register"]
    <2>1. p \in Process /\ p.at = "register" /\ p.sub = s /\ p.pending = cli[c].pending
      <3>1. "register" \in Labels
        BY DEF Labels
      <3> QED
        BY <1>1, <3>1 DEF Process
    <2>2. cli' = [cli EXCEPT ![c] = p]
      BY <1>2 DEF Become
    <2> HIDE DEF p
    <2>3. ProcessOK(base, p)
      BY <1>1, <2>1 DEF ProcessOK, Attending, Acking, Paging, Draining, Delivering, Serving,
                        Polls
    <2> QED
      BY <2>1, <2>2, <2>3 DEF Moves
  <1>10. InvAt(base)'
    BY <1>4, <1>5, <1>6, <1>7, <1>8, <1>9, ProcessKeeps DEF StoreAt
  <1>11. {r \in Subs : sub'[r] = "deregistered"} = {r \in Subs : sub[r] = "deregistered"}
    BY <1>1, <1>3
  <1>12. UNCHANGED ALO!vars
    BY <1>3, <1>11 DEF ALO!vars, ALO!requests, Ids
  <1> QED
    BY <1>10, <1>12 DEF Good

LEMMA ReadHeadGood ==
  ASSUME NEW base \in [Subs -> Nat], InvAt(base), NEW c \in Clis, At(c, "register"),
         RegisterReadHead(Mine(c)), UNCHANGED cli, StoreToo
  PROVE  Good(base)
  <1> DEFINE s == Mine(c)
  <1>1. /\ Typed /\ Bounded /\ AcksPassed(base) /\ s \in Subs
        /\ cursor \in [Subs -> {"absent", "reading", "inserting", "active", "deregistered"}]
        /\ Ids = 1 .. Len(log) /\ Len(log) \in Nat /\ live \subseteq Ids
    BY ProcessFacts DEF Typed, TypeOK, At, ProcessOK, Attending, Mine
  <1>2. /\ UNCHANGED <<log, live, sub, due, written>>
        /\ cursor[s] = "reading" /\ cursor' = [cursor EXCEPT ![s] = "inserting"]
    BY DEF RegisterReadHead, tables, StoreToo
  <1>3. /\ pos' \in [Subs -> 0 .. Len(log)]
        /\ \A r \in Subs : r # s => pos'[r] = pos[r]
    <2>1. pos \in [Subs -> 0 .. Len(log)]
      BY <1>1 DEF Bounded
    <2>2. CASE UNCHANGED pos
      BY <2>1, <2>2
    <2>3. ASSUME NEW m \in live, pos' = [pos EXCEPT ![s] = m]
          PROVE  pos' \in [Subs -> 0 .. Len(log)] /\ \A r \in Subs : r # s => pos'[r] = pos[r]
      <3>1. m \in 0 .. Len(log)
        BY <1>1
      <3> QED
        BY <2>1, <2>3, <3>1
    <2> QED
      BY <2>2, <2>3 DEF RegisterReadHead
  <1>4. RetentionInv' /\ Typed'
    <2>1. Next
      BY <1>1 DEF Register, Next
    <2> QED
      BY <2>1, RetentionNext DEF InvAt, StoreAt, RetentionInv
  <1>5. Grows
    BY <1>1, <1>2 DEF Grows, Ids
  <1>6. \A r \in Subs : cursor'[r] \in {"active", "deregistered"} =>
          cursor[r] = cursor'[r] /\ pos'[r] = pos[r]
    BY <1>1, <1>2, <1>3
  <1>7. Bounded'
    <2>1. ASSUME NEW r \in Subs, ActiveConsumer(r)' PROVE Ahead(r, pos[r])' \subseteq due'[r]
      <3>1. ActiveConsumer(r) /\ pos'[r] = pos[r]
        BY <1>2, <1>6, <2>1 DEF ActiveConsumer
      <3> QED
        BY <1>1, <1>2, <3>1 DEF Bounded, Ahead, Matches
    <2>2. \A r \in Subs : sub'[r] = "absent" => cursor'[r] = "absent"
      BY <1>1, <1>2 DEF Bounded
    <2> QED
      BY <1>1, <1>2, <1>3, <2>1, <2>2 DEF Bounded
  <1>8. AcksPassed(base)'
    BY <1>1, <1>4, <1>5, <1>6, AcksStay
  <1>9. RowsTyped'
    BY DEF StoreToo, RowsTyped, InvAt, CliTypeOK
  <1>10. InvAt(base)'
    BY <1>4, <1>5, <1>7, <1>8, <1>9, NoProcessKeeps DEF StoreAt
  <1>11. UNCHANGED ALO!vars
    BY <1>2, PromiseStutters
  <1> QED
    BY <1>10, <1>11 DEF Good

(* Until its cursor is active nobody relies on where a subscription began. *)
LEMMA Rebase ==
  ASSUME NEW base \in [Subs -> Nat], InvAt(base), NEW s \in Subs, cursor[s] = "inserting",
         NEW n \in Nat
  PROVE  InvAt([base EXCEPT ![s] = n])
  <1> DEFINE anew == [base EXCEPT ![s] = n]
  <1>1. \A r \in Subs : r # s => anew[r] = base[r]
    OBVIOUS
  <1>2. AcksPassed(anew)
    BY <1>1 DEF InvAt, StoreAt, AcksPassed, Passed
  <1>3. ASSUME NEW c \in Clis PROVE ProcessOK(anew, cli[c])
    <2>1. PICK p \in Process : p = cli[c] /\ ProcessOK(base, p)
      BY ProcessFacts
    <2>2. CASE p.at \in Serving
      <3>1. p.sub \in Subs /\ p.sub # s
        BY <2>1, <2>2 DEF ProcessOK, Attending
      <3>2. anew[p.sub] = base[p.sub]
        BY <1>1, <3>1
      <3> HIDE DEF anew
      <3>3. \A m : Passed(anew, p.sub, m) <=> Passed(base, p.sub, m)
        BY <3>2 DEF Passed
      <3> QED
        BY <2>1, <3>2, <3>3 DEF ProcessOK, Acking, Paging, Draining
    <2>3. CASE p.at \notin Serving
      <3> HIDE DEF anew
      <3>1. Acking(anew, p) /\ Paging(anew, p) /\ Draining(anew, p)
        BY <2>3 DEF Acking, Paging, Draining, Serving, Polls
      <3> QED
        BY <2>1, <3>1 DEF ProcessOK
    <2> QED
      BY <2>1, <2>2, <2>3
  <1> HIDE DEF anew
  <1>4. InvAt(anew)
    BY <1>2, <1>3 DEF InvAt, StoreAt
  <1> QED
    BY <1>4 DEF anew

LEMMA RegisterCursorGood ==
  ASSUME NEW base \in [Subs -> Nat], InvAt(base), NEW c \in Clis, At(c, "register"),
         RegisterCursor(Mine(c)), Goto(c, IF Drains(c) THEN "begin" ELSE "poll"), StoreToo
  PROVE  \E b \in [Subs -> Nat] : Good(b)
  <1>1. /\ Typed /\ Claims /\ Bounded
        /\ cli[c] \in Process /\ ProcessOK(base, cli[c]) /\ Mine(c) \in Subs
        /\ cli[c].at = "register"
        /\ sub \in [Subs -> {"absent", "active", "deregistered"}]
        /\ cursor \in [Subs -> {"absent", "reading", "inserting", "active", "deregistered"}]
        /\ due \in [Subs -> SUBSET Ids] /\ pos \in [Subs -> 0 .. Len(log)]
        /\ Ids = 1 .. Len(log) /\ Len(log) \in Nat /\ live \subseteq Ids
        /\ Len(log) <= MaxEvents /\ MaxEvents \in Nat
    BY ProcessFacts DEF Bounded, Typed, TypeOK, At, ProcessOK, Attending, Mine
  <1>2. PICK s \in Subs : s = Mine(c)
    BY <1>1
  <1>3. PICK n \in Nat : n = pos[s] /\ n <= Len(log)
    BY <1>1
  <1>4. /\ UNCHANGED <<log, live, pos, sub, written>>
        /\ cursor[s] = "inserting" /\ cursor' = [cursor EXCEPT ![s] = "active"]
        /\ due' = [due EXCEPT ![s] = IF sub[s] = "active" THEN Ahead(s, n) ELSE {}]
    BY <1>2, <1>3 DEF RegisterCursor, tables, StoreToo
  <1>5. PICK b \in [Subs -> Nat] : b = [base EXCEPT ![s] = n]
    OBVIOUS
  <1>6. InvAt(b) /\ b[s] = n
    BY <1>4, <1>5, Rebase
  <1>7. RetentionInv' /\ Typed'
    <2>1. Next
      BY <1>2 DEF Register, Next
    <2> QED
      BY <2>1, RetentionNext DEF InvAt, StoreAt, RetentionInv
  <1>8. Grows
    BY <1>1, <1>4 DEF Grows, Ids
  <1>9. due[s] = {}
    BY <1>1, <1>4 DEF Claims, ActiveConsumer
  <1>10. Bounded'
    <2>1. ASSUME NEW r \in Subs, ActiveConsumer(r)' PROVE Ahead(r, pos[r])' \subseteq due'[r]
      <3>1. Ahead(r, pos[r])' = Ahead(r, pos[r])
        BY <1>4 DEF Ahead, Matches
      <3>2. CASE r = s
        <4>1. sub[s] = "active"
          BY <1>4, <2>1, <3>2 DEF ActiveConsumer
        <4>2. due'[s] = Ahead(s, n)
          BY <1>1, <1>4, <4>1
        <4> QED
          BY <1>3, <3>1, <3>2, <4>2
      <3>3. CASE r # s
        <4>1. ActiveConsumer(r) /\ due'[r] = due[r]
          BY <1>1, <1>4, <2>1, <3>3 DEF ActiveConsumer
        <4> QED
          BY <1>1, <3>1, <4>1 DEF Bounded
      <3> QED
        BY <3>2, <3>3
    <2>2. \A r \in Subs : sub'[r] = "absent" => cursor'[r] = "absent"
      BY <1>1, <1>4 DEF Bounded
    <2> QED
      BY <1>1, <1>4, <2>1, <2>2 DEF Bounded
  <1>11. AcksPassed(b)'
    <2> SUFFICES ASSUME NEW r \in Subs, cursor'[r] \in {"active", "deregistered"}
        PROVE  Passed(b, r, pos[r])'
      BY DEF AcksPassed
    <2>1. PICK m \in 0 .. Len(log) : m = pos[r] /\ m = pos'[r]
      BY <1>1, <1>4
    <2>2. CASE r = s
      <3>1. m = n /\ \A i \in live' : i \in Int
        BY <1>1, <1>3, <1>4, <2>1, <2>2
      <3>2. Passed(b, s, m)'
        BY <1>6, <3>1 DEF Passed
      <3> QED
        BY <2>1, <2>2, <3>2
    <2>3. CASE r # s
      <3>1. Passed(b, r, m)
        BY <1>1, <1>4, <1>6, <2>1, <2>3 DEF InvAt, StoreAt, AcksPassed
      <3>2. Passed(b, r, m)'
        BY <1>4, <3>1 DEF Passed, Matches
      <3> QED
        BY <2>1, <3>2
    <2> QED
      BY <2>2, <2>3
  <1>12. Arrives(b, c)
    <2> DEFINE label == IF Drains(c) THEN "begin" ELSE "poll"
    <2>1. label \in Labels /\ label \in {"begin", "poll"} /\ (Drains(c) => label = "begin")
      BY DEF Labels
    <2>2. Become(c, [cli[c] EXCEPT !.at = label])
      BY DEF Goto
    <2> HIDE DEF label
    <2>3. PICK p \in Process :
            /\ p = [cli[c] EXCEPT !.at = label]
            /\ p.at \in {"begin", "poll"} /\ p.sub = s
            /\ p.pending = cli[c].pending /\ p.mode = cli[c].mode
            /\ p.mode.drain => p.at = "begin"
      <3> DEFINE q == [cli[c] EXCEPT !.at = label]
      <3>1. q \in Process /\ q.at = label /\ q.sub = cli[c].sub /\ q.mode = cli[c].mode
            /\ q.pending = cli[c].pending
        BY <1>1, <2>1 DEF Process
      <3> QED
        BY <1>2, <2>1, <3>1 DEF Mine, Drains
    <2>4. cursor'[s] \in {"active", "deregistered"}
      BY <1>1, <1>4
    <2>5. Attending(p)' /\ Acking(b, p)' /\ Paging(b, p)'
      BY <2>3, <2>4 DEF Attending, Acking, Paging
    <2>6. p.pending \subseteq Ids'
      BY <1>1, <1>4, <2>3 DEF ProcessOK, Delivering, Ids
    <2>7. Draining(b, p)' /\ Delivering(p)'
      BY <2>3, <2>6 DEF Draining, Delivering, Polls
    <2> QED
      BY <2>2, <2>3, <2>5, <2>7 DEF Arrives, ProcessOK, Become
  <1>13. RowsTyped'
    BY DEF StoreToo, RowsTyped, InvAt, CliTypeOK
  <1>14. InvAt(b)'
    BY <1>6, <1>7, <1>8, <1>10, <1>11, <1>12, <1>13, ProcessKeeps DEF StoreAt
  <1>15. ALO!Claim
    <2> DEFINE more == [r \in Subs |-> IF r = s /\ sub[s] = "active" THEN Ahead(s, n) ELSE {}]
    <2>1. Ahead(s, n) \subseteq 1 .. MaxEvents
      <3>1. Ahead(s, n) \subseteq Ids
        BY <1>1 DEF Ahead
      <3> QED
        BY <1>1, <3>1
    <2>2. more \in [Subs -> SUBSET (1 .. MaxEvents)]
      BY <2>1
    <2>3. due' = [r \in Subs |-> due[r] \cup more[r]]
      BY <1>1, <1>4, <1>9
    <2> HIDE DEF more
    <2> QED
      BY <1>4, <2>2, <2>3 DEF ALO!Claim, ALO!requests, Ids
  <1> QED
    BY <1>14, <1>15 DEF Good, ALO!Next

--------------------------------------------------------------------------------
(* Operators and the rest of the bus.                                      *)
LEMMA UnsubscribeGood ==
  ASSUME NEW base \in [Subs -> Nat], InvAt(base), NEW s \in Subs, Unsubscribe(s)
  PROVE  Good(base)
  <1>1. /\ Typed /\ Claims /\ Bounded /\ AcksPassed(base) /\ CliTypeOK
        /\ sub \in [Subs -> {"absent", "active", "deregistered"}]
        /\ cursor \in [Subs -> {"absent", "reading", "inserting", "active", "deregistered"}]
        /\ due \in [Subs -> SUBSET Ids]
    BY DEF InvAt, StoreAt, RetentionInv, Typed, TypeOK
  <1>2. Deregister(s) /\ Spend("deregister") /\ UNCHANGED <<cli, written>>
    BY DEF Unsubscribe
  <1>3. /\ UNCHANGED <<log, live, pos>>
        /\ sub[s] # "absent" /\ sub' = [sub EXCEPT ![s] = "deregistered"]
        /\ cursor' = [cursor EXCEPT ![s] = IF cursor[s] = "active" THEN "deregistered"
                                           ELSE cursor[s]]
        /\ due' = [due EXCEPT ![s] = {}]
    BY <1>1, <1>2 DEF Deregister, tables
  <1>4. RetentionInv' /\ Typed'
    <2>1. Next
      BY <1>2 DEF Next
    <2> QED
      BY <2>1, RetentionNext DEF InvAt, StoreAt, RetentionInv
  <1>5. \A r \in Subs : cursor'[r] \in {"active", "deregistered"} <=>
                          cursor[r] \in {"active", "deregistered"}
    BY <1>1, <1>3
  <1>6. Grows
    BY <1>2, <1>3, <1>5 DEF Grows, Ids
  <1>7. Bounded'
    <2>1. ASSUME NEW r \in Subs, ActiveConsumer(r)' PROVE Ahead(r, pos[r])' \subseteq due'[r]
      <3>1. r # s
        BY <1>1, <1>3, <2>1 DEF ActiveConsumer
      <3>2. ActiveConsumer(r) /\ due'[r] = due[r]
        BY <1>1, <1>3, <2>1, <3>1 DEF ActiveConsumer
      <3> QED
        BY <1>1, <1>3, <3>2 DEF Bounded, Ahead, Matches
    <2>2. \A r \in Subs : sub'[r] = "absent" => cursor'[r] = "absent"
      BY <1>1, <1>3 DEF Bounded
    <2> QED
      BY <1>1, <1>3, <2>1, <2>2 DEF Bounded
  <1>8. AcksPassed(base)'
    BY <1>1, <1>3, <1>4, <1>5, <1>6, AcksStay
  <1>9. RowsTyped'
    <2>1. "deregister" \in DOMAIN Budget
      BY CliAssumption
    <2>2. spent' \in [DOMAIN Budget -> Nat]
      BY <1>1, <1>2, <2>1, SpendTyped
    <2> QED
      BY <1>1, <1>2, <2>2 DEF RowsTyped, CliTypeOK
  <1>10. InvAt(base)'
    BY <1>2, <1>4, <1>6, <1>7, <1>8, <1>9, NoProcessKeeps DEF StoreAt
  <1>11. [ALO!Next]_(ALO!vars)
    <2> DEFINE left == {r \in Subs : sub[r] = "deregistered"}
    <2>1. CASE sub[s] = "deregistered"
      <3>1. due[s] = {} /\ sub' = sub
        BY <1>1, <1>3, <2>1 DEF Claims, ActiveConsumer
      <3>2. due' = due
        BY <1>1, <1>3, <3>1
      <3> QED
        BY <1>2, <1>3, <3>1, <3>2, PromiseStutters
    <2>2. CASE sub[s] # "deregistered"
      <3>1. {r \in Subs : sub'[r] = "deregistered"} = left \cup {s} /\ s \notin left
        BY <1>1, <1>3, <2>2
      <3>2. ALO!Withdraw(s)
        BY <1>1, <1>2, <1>3, <3>1 DEF ALO!Withdraw, Ids
      <3> QED
        BY <3>2 DEF ALO!Next
    <2> QED
      BY <2>1, <2>2
  <1> QED
    BY <1>10, <1>11 DEF Good

(* A published row is a new claim of every cursor that waits for it.       *)
LEMMA PublishGood ==
  ASSUME NEW base \in [Subs -> Nat], InvAt(base), NEW t \in Types, NEW ttl \in Ttls,
         Publish(t, ttl), UNCHANGED <<cli, spent, written>>
  PROVE  Good(base)
  <1>1. /\ Typed /\ RetentionInv /\ Bounded /\ AcksPassed(base) /\ CliTypeOK
        /\ Ids = 1 .. Len(log) /\ Len(log) \in Nat /\ live \subseteq Ids
        /\ due \in [Subs -> SUBSET Ids] /\ pos \in [Subs -> 0 .. Len(log)]
        /\ MaxEvents \in Nat
    BY IdRange, StoreAssumption DEF InvAt, StoreAt, RetentionInv, Bounded, Typed, TypeOK
  <1>2. PICK row \in Row : AcceptRow(row)
    <2> DEFINE r == [type |-> t, key |-> NoKey, emitted |-> clock,
                     expires |-> clock + ttl, dedup |-> clock + DedupTtl]
    <2>1. clock \in Nat /\ clock + ttl \in Nat /\ clock + DedupTtl \in Nat
      BY <1>1, StoreAssumption DEF Typed, TypeOK
    <2>2. r \in Row
      BY <2>1 DEF Row
    <2> QED
      BY <2>2 DEF Publish
  <1> DEFINE id == Len(log) + 1
  <1>3. /\ log' \in Seq(Row) /\ acceptedAt' \in Seq(Nat)
        /\ Len(log') = id /\ Ids' = Ids \cup {id} /\ id \notin Ids
        /\ \A i \in Ids : log'[i] = log[i]
        /\ log'[id] = row
    BY <1>1, <1>2, RowExtendsLog DEF Typed
  <1>4. /\ UNCHANGED <<clock, archived, reported, sub, cursor, pos, reset, attempts>>
        /\ UNCHANGED <<released, step, draft>>
        /\ Len(log) < MaxEvents /\ live' = live \cup {id}
        /\ due' = [s \in Subs |->
             IF ActiveConsumer(s) /\ id > pos[s] /\ row.type \in Filter[s]
             THEN due[s] \cup {id} ELSE due[s]]
    BY <1>2 DEF AcceptRow, Publish, emits
  <1> HIDE DEF id
  <1>5. Typed'
    <2>1. live' \subseteq Ids' /\ archived' \subseteq Ids' /\ released' \subseteq Ids'
      BY <1>1, <1>3, <1>4 DEF Typed, TypeOK
    <2>2. due' \in [Subs -> SUBSET Ids']
      BY <1>1, <1>3, <1>4
    <2> QED
      BY <1>1, <1>3, <1>4, <2>1, <2>2 DEF Typed, TypeOK
  <1>6. RetentionInv'
    BY <1>1, <1>2, <1>5, RetentionRow
  <1>7. Grows
    BY <1>1, <1>3, <1>4 DEF Grows
  <1>8. id \in 1 .. MaxEvents /\ id = Len(log) + 1 /\ id \in Int
    BY <1>1, <1>4 DEF id
  <1>9. Bounded'
    <2>1. Len(log') <= MaxEvents
      BY <1>3, <1>8
    <2>2. pos' \in [Subs -> 0 .. Len(log')]
      BY <1>1, <1>3, <1>4, <1>8
    <2>3. ASSUME NEW s \in Subs, ActiveConsumer(s)', NEW i \in Ahead(s, pos[s])'
          PROVE  i \in due'[s]
      <3>1. ActiveConsumer(s) /\ i \in live' /\ i > pos[s] /\ Matches(s, i)'
        BY <1>4, <2>3 DEF ActiveConsumer, Ahead
      <3>2. CASE i = id
        <4>1. row.type \in Filter[s]
          BY <1>3, <3>1, <3>2 DEF Matches
        <4> QED
          BY <1>4, <3>1, <3>2, <4>1
      <3>3. CASE i \in live
        <4>1. Matches(s, i)
          BY <1>1, <1>3, <3>1, <3>3 DEF Matches
        <4>2. i \in due[s]
          BY <1>1, <3>1, <3>3, <4>1 DEF Bounded, Ahead
        <4> QED
          BY <1>4, <4>2
      <3> QED
        BY <1>4, <3>1, <3>2, <3>3
    <2>4. \A s \in Subs : sub'[s] = "absent" => cursor'[s] = "absent"
      BY <1>1, <1>4 DEF Bounded
    <2> QED
      BY <2>1, <2>2, <2>3, <2>4 DEF Bounded
  <1>10. AcksPassed(base)'
    BY <1>1, <1>4, <1>5, <1>7, AcksStay
  <1>11. InvAt(base)'
    BY <1>1, <1>6, <1>7, <1>9, <1>10, NoProcessKeeps DEF StoreAt, RowsTyped, CliTypeOK
  <1>12. ALO!Claim
    <2> DEFINE more == [s \in Subs |->
                 IF ActiveConsumer(s) /\ id > pos[s] /\ row.type \in Filter[s]
                 THEN {id} ELSE {}]
    <2>1. more \in [Subs -> SUBSET (1 .. MaxEvents)]
      BY <1>8
    <2>2. due' = [s \in Subs |-> due[s] \cup more[s]]
      BY <1>4
    <2>3. Ids' \ live' = Ids \ live
      BY <1>1, <1>3, <1>4
    <2> HIDE DEF more
    <2> QED
      BY <1>4, <2>1, <2>2, <2>3 DEF ALO!Claim, ALO!requests
  <1> QED
    BY <1>11, <1>12 DEF Good, ALO!Next

(* A step that leaves the log, the subscriptions and the claims alone; the *)
(* sweep may remove events.                                                *)
LEMMA TablesKeep ==
  ASSUME NEW base \in [Subs -> Nat], InvAt(base), [Next]_vars, live' \subseteq live,
         UNCHANGED <<log, sub, cursor, pos, due, cli, spent, written>>
  PROVE  Good(base)
  <1>1. /\ Typed /\ Bounded /\ AcksPassed(base) /\ live \subseteq Ids
        /\ Ids = 1 .. Len(log) /\ Len(log) \in Nat /\ Len(log) <= MaxEvents
        /\ MaxEvents \in Nat /\ CliTypeOK
    BY IdRange, StoreAssumption DEF InvAt, StoreAt, RetentionInv, Bounded
  <1>2. RetentionInv' /\ Typed'
    BY RetentionNext DEF InvAt, StoreAt, RetentionInv
  <1>3. Grows
    BY DEF Grows, Ids
  <1>4. Bounded'
    BY <1>1 DEF Bounded, ActiveConsumer, Ahead, Matches
  <1>5. AcksPassed(base)'
    BY <1>1, <1>2, <1>3, AcksStay
  <1>6. InvAt(base)'
    BY <1>1, <1>2, <1>3, <1>4, <1>5, NoProcessKeeps DEF StoreAt, RowsTyped, CliTypeOK
  <1>7. ALO!Sweep
    <2> DEFINE gone == live \ live'
    <2>1. Ids' \ live' = (Ids \ live) \cup gone
      BY <1>1 DEF Ids
    <2>2. gone \in SUBSET (1 .. MaxEvents)
      BY <1>1
    <2> HIDE DEF gone
    <2> QED
      BY <2>1, <2>2 DEF ALO!Sweep, ALO!requests
  <1> QED
    BY <1>6, <1>7 DEF Good, ALO!Next

LEMMA BackgroundGood ==
  ASSUME NEW base \in [Subs -> Nat], InvAt(base), Background
  PROVE  Good(base)
  <1>1. UNCHANGED <<cli, spent, written>>
    BY DEF Background
  <1>2. CASE Sweep
    BY <1>1, <1>2, TablesKeep DEF Sweep, subscribers, Next
  <1>3. CASE Tick
    BY <1>1, <1>3, TablesKeep DEF Tick, tables, subscribers, Next
  <1>4. ASSUME NEW t \in Types, NEW ttl \in Ttls, Publish(t, ttl) PROVE Good(base)
    BY <1>1, <1>4, PublishGood
  <1> QED
    BY <1>2, <1>3, <1>4 DEF Background

--------------------------------------------------------------------------------
LEMMA InvInit == CliInit => CliInv /\ ALO!Init
  <1> SUFFICES ASSUME CliInit PROVE CliInv /\ ALO!Init
    OBVIOUS
  <1> USE DEF CliInit
  <1>1. PICK base \in [Subs -> Nat] : base = [s \in Subs |-> 0]
    OBVIOUS
  <1>2. Init /\ RetentionInv
    BY RetentionInit
  <1>3. Len(log) = 0 /\ Ids = {} /\ live = {} /\ MaxEvents \in Nat
    BY StoreAssumption DEF Init, Ids
  <1>4. Bounded
    <2>1. pos \in [Subs -> 0 .. Len(log)]
      BY <1>2, <1>3 DEF Init
    <2>2. \A s \in Subs : sub[s] = "absent" /\ cursor[s] = "absent"
      BY <1>2 DEF Init
    <2> QED
      BY <1>3, <2>1, <2>2 DEF Bounded, ActiveConsumer
  <1>5. AcksPassed(base)
    BY <1>2 DEF AcksPassed, Init
  <1>6. PICK p \in Process : p = Down("down") /\ p.at = "down" /\ p.pending = {}
    BY Outside
  <1>7. \A c \in Clis : cli[c] = p
    BY <1>6
  <1>8. CliTypeOK
    BY <1>6, <1>7 DEF CliTypeOK
  <1>9. \A c \in Clis : ProcessOK(base, cli[c])
    BY <1>6, <1>7, OutsideOK
  <1>10. ALO!Init
    BY <1>2, <1>3 DEF ALO!Init, Init
  <1> QED
    BY <1>2, <1>4, <1>5, <1>8, <1>9, <1>10 DEF CliInv, InvAt, StoreAt

LEMMA RunGood ==
  ASSUME NEW base \in [Subs -> Nat], InvAt(base), NEW c \in Clis, Run(c)
  PROVE  \E b \in [Subs -> Nat] : Good(b)
  <1>1. CASE RegisterRest(c)
    BY <1>1, ReadHeadGood, RegisterCursorGood DEF RegisterRest
  <1>2. CASE Found(c) \/ Ambiguous(c) \/ Begin(c)
    BY <1>2, FoundGood, LaunchEndsGood, BeginGood
  <1>3. CASE RegisterNew(c)
    BY <1>3, RegisterNewGood
  <1>4. CASE PollCursor(c) \/ PollFresh(c) \/ PollStale(c)
    BY <1>4, PollGood
  <1>5. CASE PollSelect(c) \/ Write(c)
    BY <1>5, SelectGood, WriteGood
  <1>6. CASE AckWritten(c) \/ Recover(c)
    BY <1>6, AckingGood
  <1>7. CASE NextPage(c) \/ Empty(c) \/ Wake(c)
    BY <1>7, PassEndsGood
  <1> QED
    BY <1>1, <1>2, <1>3, <1>4, <1>5, <1>6, <1>7 DEF Run

LEMMA InvStep ==
  ASSUME CliInv, [CliNext]_cliVars
  PROVE  CliInv' /\ [ALO!Next]_(ALO!vars)
  <1>1. PICK base \in [Subs -> Nat] : InvAt(base)
    BY DEF CliInv
  <1>2. ASSUME NEW c \in Clis, Launch(c) \/ Run(c) \/ Disturb(c)
        PROVE  \E b \in [Subs -> Nat] : Good(b)
    BY <1>1, <1>2, LaunchEndsGood, RunGood, DisturbGood
  <1>3. ASSUME NEW s \in Subs, Unsubscribe(s) PROVE Good(base)
    BY <1>1, <1>3, UnsubscribeGood
  <1>4. Background => Good(base)
    BY <1>1, BackgroundGood
  <1>5. ASSUME UNCHANGED cliVars PROVE Good(base)
    <2>1. UNCHANGED <<vars, cli, spent, written>>
      BY <1>5 DEF cliVars
    <2>2. UNCHANGED <<log, live, sub, cursor, pos, due>>
      BY <2>1, StoreStutters
    <2> QED
      BY <1>1, <2>1, <2>2, TablesKeep
  <1>6. PICK b \in [Subs -> Nat] : Good(b)
    BY <1>1, <1>2, <1>3, <1>4, <1>5 DEF CliNext
  <1> QED
    BY <1>6 DEF Good, CliInv

(* commands/cmd-subscribe.js: the local state of every process keeps to its *)
(* type through every crash, signal and error, and whoever polls has found *)
(* or registered a cursor.                                                 *)
THEOREM CliTypeCorrect == CliSpec => []CliTypeOK
  <1>1. CliInv => CliTypeOK
    BY DEF CliInv, InvAt
  <1>2. CliInit => CliInv
    BY InvInit
  <1>3. CliInv /\ [CliNext]_cliVars => CliInv'
    BY InvStep
  <1> QED
    BY <1>1, <1>2, <1>3, PTL DEF CliSpec

(* commands/cmd-subscribe.js "deliver all events pending past the cursor,   *)
(* then exit 0": however many processes share the cursor of a drain and    *)
(* wherever they move it, a drain that exits 0 has written every event it  *)
(* found pending when it began, unless a sweep took it.                    *)
THEOREM DrainsDeliver == CliSpec => []DrainDeliversPending
  <1>1. CliInv => DrainDeliversPending
    BY DEF CliInv, InvAt, ProcessOK, Delivering, Waiting, DrainDeliversPending, At
  <1>2. CliInit => CliInv
    BY InvInit
  <1>3. CliInv /\ [CliNext]_cliVars => CliInv'
    BY InvStep
  <1> QED
    BY <1>1, <1>2, <1>3, PTL DEF CliSpec

(* commands/cmd-subscribe.js "every un-swept event is still delivered,      *)
(* preserving at-least-once for what survived": any mixture of streaming   *)
(* and draining processes on one cursor, with and without --no-ack, keeps  *)
(* every claim until somebody has written the event or a sweep took it.    *)
THEOREM LoopsDeliverAtLeastOnce == CliSpec => LoopsImplementAtLeastOnce
  <1> SUFFICES CliSpec => ALO!Spec
    BY DEF LoopsImplementAtLeastOnce
  <1>1. CliInit => CliInv /\ ALO!Init
    BY InvInit
  <1>2. CliInv /\ [CliNext]_cliVars => CliInv' /\ [ALO!Next]_(ALO!vars)
    BY InvStep
  <1> QED
    BY <1>1, <1>2, PTL DEF CliSpec, ALO!Spec

(* lib/sweep.js under any number of command lines: unless the policy is     *)
(* discard, what is unacked is in the events table or in the archive.      *)
THEOREM LoopsKeepUnacked == CliSpec => []UnackedIsStored
  <1>1. CliInv => UnackedIsStored
    BY DEF CliInv, InvAt, StoreAt, RetentionInv
  <1>2. CliInit => CliInv
    BY InvInit
  <1>3. CliInv /\ [CliNext]_cliVars => CliInv'
    BY InvStep
  <1> QED
    BY <1>1, <1>2, <1>3, PTL DEF CliSpec
================================================================================
