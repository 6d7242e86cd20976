------------------------------ MODULE EventStore ------------------------------
(***************************************************************************)
(* The SQLite database that every wicked-bus process opens: the tables     *)
(* events, events_archive, subscriptions, cursors and delivery_attempts,   *)
(* and the library calls that change them: emit(), register(),             *)
(* deregister(), ack(), reanchorCursor(), the replay command, the retry    *)
(* bookkeeping of subscribe() and the v1 sweep.                            *)
(*                                                                         *)
(* One action is one SQL transaction (or one autocommitted statement):     *)
(* what separate processes can interleave.  Rows are immutable except for  *)
(* their idempotency key, so the log of everything ever accepted, log,     *)
(* gives each event_id its row, and the tables are sets of event ids.      *)
(***************************************************************************)
EXTENDS Integers, Sequences

CONSTANTS
  Producers,    \* processes that call emit()
  Keys,         \* idempotency keys producers choose themselves
  NoKey,        \* stands for the fresh UUID emit() mints when none is given
  Types,        \* event types
  Subs,         \* identities register() mints: a subscription and its cursor
  Filter,       \* Filter[s]: the event types the filter of s matches
  Ttls,         \* lifetimes in hours: config.ttl_hours and per-event overrides
  DedupTtl,     \* config.dedup_ttl_hours
  Cap,          \* config.unacked_retention_days, in hours
  Policy,       \* config.unacked_policy
  ArchiveMode,  \* config.archive_mode
  ReplayFrom,   \* event ids given to the replay command
  MaxRetries,   \* subscribe()'s maxRetries: the largest attempts it records
  NoRow,        \* no emit() in progress
  MaxEvents,    \* bound: events ever accepted
  MaxHour       \* bound: last hour of the clock

ASSUME StoreAssumption ==
  /\ NoKey \notin Keys
  /\ Filter \in [Subs -> SUBSET Types]
  /\ Ttls \subseteq Nat
  /\ DedupTtl \in Nat
  /\ Cap \in Nat \ {0}
  /\ Policy \in {"retain", "archive", "discard"}
  /\ ArchiveMode \in BOOLEAN
  /\ ReplayFrom \subseteq Nat
  /\ MaxRetries \in Nat
  /\ MaxEvents \in Nat
  /\ MaxHour \in Nat

VARIABLES
  clock,      \* Date.now(), in hours
  log,        \* log[i]: the row accepted with event_id i (AUTOINCREMENT)
  live,       \* event ids in the events table
  released,   \* live rows renamed by releaseExpiredKey()
  archived,   \* event ids in events_archive
  step,       \* step[p]: where the emit() of producer p is
  draft,      \* draft[p]: the row that emit() is about to insert
  sub,        \* sub[s]: the row of subscriptions
  cursor,     \* cursor[s]: the row of cursors, or how far register() got
  pos,        \* pos[s]: cursors.last_event_id
  reset,      \* reset[s]: positions a replay command is about to write
  attempts,   \* attempts[s][i]: delivery_attempts.attempts, 0 without a row
  \* History variables: no table holds them, the properties are about them.
  acceptedAt, \* acceptedAt[i]: the hour event i was committed
  due,        \* due[s]: events s has a claim to and has not acked
  reported    \* <<s, i, fate>>: lines of the sweeps' reconciliation reports

tables == <<log, live, released, archived, acceptedAt, reported>>
emits  == <<step, draft>>
subscribers == <<sub, cursor, pos, reset, attempts, due>>
vars == <<clock, tables, emits, subscribers>>

Row == [type : Types, key : Keys \cup {NoKey},
        emitted : Nat, expires : Nat, dedup : Nat]

Ids == DOMAIN log

-----------------------------------------------------------------------------
(* Reading the tables.                                                     *)

\* The live row that claims an idempotency key (the UNIQUE constraint).
Holders(k) == {i \in live \ released : log[i].key = k /\ k # NoKey}

\* MIN(event_id), MAX(event_id).
IsOldest(m) == m \in live /\ \A i \in live : m <= i
IsNewest(m) == m \in live /\ \A i \in live : m >= i

Matches(s, i) == log[i].type \in Filter[s]

\* The cursors collectOwedExpired() visits.
ActiveConsumer(s) == cursor[s] = "active" /\ sub[s] = "active"

\* Live events beyond position n that the filter of s matches: what poll()
\* can still return.
Ahead(s, n) == {i \in live : i > n /\ Matches(s, i)}

-----------------------------------------------------------------------------
(* emit(): the clock is read first, the INSERT follows, and only when the  *)
(* INSERT hits the UNIQUE constraint does a second transaction look for an *)
(* expired dedup window to release.                                        *)

EmitBegin(p, t, k, ttl) ==
  /\ step[p] = "idle"
  /\ Len(log) < MaxEvents
  /\ step' = [step EXCEPT ![p] = "insert"]
  /\ draft' = [draft EXCEPT ![p] =
       [type |-> t, key |-> k, emitted |-> clock,
        expires |-> clock + ttl, dedup |-> clock + DedupTtl]]
  /\ UNCHANGED <<clock, tables, subscribers>>

\* Mutant: a rolled-back INSERT burns an id the log never sees.
AcceptSkippingId(p) ==
  LET id == Len(log) + 2 IN
  /\ Len(log) < MaxEvents
  /\ log' = Append(log, draft[p])
  /\ live' = live \cup {id}
  /\ acceptedAt' = Append(acceptedAt, clock)
  /\ step' = [step EXCEPT ![p] = "idle"]
  /\ draft' = [draft EXCEPT ![p] = NoRow]
  /\ UNCHANGED <<clock, archived, reported, subscribers>>

\* A row gets the next event_id, and every active consumer whose filter
\* matches it has a claim to it.
AcceptRow(row) ==
  LET id == Len(log) + 1 IN
  /\ Len(log) < MaxEvents
  /\ log' = Append(log, row)
  /\ live' = live \cup {id}
  /\ acceptedAt' = Append(acceptedAt, clock)
  /\ due' = [s \in Subs |->
       IF ActiveConsumer(s) /\ id > pos[s] /\ row.type \in Filter[s]
       THEN due[s] \cup {id} ELSE due[s]]
  /\ UNCHANGED <<clock, archived, reported, sub, cursor, pos, reset, attempts>>

Accept(p) ==
  /\ AcceptRow(draft[p])
  /\ step' = [step EXCEPT ![p] = "idle"]
  /\ draft' = [draft EXCEPT ![p] = NoRow]

EmitInsert(p) ==
  /\ step[p] = "insert"
  /\ Holders(draft[p].key) = {}
  /\ Accept(p)
  /\ UNCHANGED released

EmitConflict(p) ==
  /\ step[p] = "insert"
  /\ Holders(draft[p].key) # {}
  /\ step' = [step EXCEPT ![p] = "release"]
  /\ UNCHANGED <<clock, tables, draft, subscribers>>

\* Mutant: the last hour of the window counts as closed.
ReleasableEarly(p) ==
  {h \in Holders(draft[p].key) : log[h].dedup <= draft[p].emitted}

\* A holder whose dedup window closed before this emit() read the clock.
Releasable(p) == {h \in Holders(draft[p].key) : log[h].dedup < draft[p].emitted}

EmitRelease(p) ==
  /\ step[p] = "release"
  /\ Releasable(p) # {}
  /\ released' = released \cup Releasable(p)
  /\ Accept(p)

EmitStop(p, to) ==
  /\ step' = [step EXCEPT ![p] = to]
  /\ draft' = [draft EXCEPT ![p] = NoRow]
  /\ UNCHANGED <<clock, tables, subscribers>>

\* WB-002 DUPLICATE_EVENT
EmitDuplicate(p) ==
  /\ step[p] = "release"
  /\ Releasable(p) = {}
  /\ EmitStop(p, "idle")

\* Nothing is accepted: WB-004 DISK_FULL closes the connection, any other
\* error (SQLITE_BUSY) is thrown to the caller.
EmitFails(p) ==
  /\ step[p] \in {"insert", "release"}
  /\ EmitStop(p, "closed") \/ EmitStop(p, "idle")

-----------------------------------------------------------------------------
(* register() and deregister().  register() is three statements without a  *)
(* transaction: the subscription, MAX(event_id) for 'latest', the cursor.  *)

RegisterSubscription(s, init) ==
  /\ sub[s] = "absent"
  /\ sub' = [sub EXCEPT ![s] = "active"]
  /\ cursor' = [cursor EXCEPT ![s] =
       IF init = "latest" THEN "reading" ELSE "inserting"]
  /\ UNCHANGED <<clock, tables, emits, pos, reset, attempts, due>>

RegisterReadHead(s) ==
  /\ cursor[s] = "reading"
  /\ \/ live = {} /\ UNCHANGED pos
     \/ \E m \in live : IsNewest(m) /\ pos' = [pos EXCEPT ![s] = m]
  /\ cursor' = [cursor EXCEPT ![s] = "inserting"]
  /\ UNCHANGED <<clock, tables, emits, sub, reset, attempts, due>>

RegisterCursor(s) ==
  /\ cursor[s] = "inserting"
  /\ cursor' = [cursor EXCEPT ![s] = "active"]
  /\ due' = [due EXCEPT ![s] = IF sub[s] = "active" THEN Ahead(s, pos[s]) ELSE {}]
  /\ UNCHANGED <<clock, tables, emits, sub, pos, reset, attempts>>

\* The soft delete of a subscription and of the cursors it has by then.
Deregister(s) ==
  /\ sub[s] # "absent"
  /\ sub' = [sub EXCEPT ![s] = "deregistered"]
  /\ cursor' = [cursor EXCEPT ![s] = IF @ = "active" THEN "deregistered" ELSE @]
  /\ due' = [due EXCEPT ![s] = {}]
  /\ UNCHANGED <<clock, tables, emits, pos, reset, attempts>>

-----------------------------------------------------------------------------
(* Moving a cursor.  What lies beyond the new position is claimed (again); *)
(* what lies at or before it is settled.                                   *)

MoveCursor(s, n) ==
  /\ pos' = [pos EXCEPT ![s] = n]
  /\ due' = [due EXCEPT ![s] =
       IF ActiveConsumer(s) THEN {i \in @ : i > n} \cup Ahead(s, n) ELSE {}]
  /\ UNCHANGED <<clock, tables, emits, sub, cursor, attempts>>

\* ack() and reanchorCursor(): any position, forward or backward.
Ack(s, n) ==
  /\ cursor[s] = "active"
  /\ n >= 0
  /\ MoveCursor(s, n)
  /\ UNCHANGED reset

\* The replay command refuses an inactive cursor (WB-006) and to start before
\* the oldest live event (WB-003).  Bound: one such command at a time.
ReplayCheck(s, from) ==
  /\ cursor[s] = "active"
  /\ live = {} \/ \E m \in live : m <= from
  /\ reset[s] = {}
  /\ reset' = [reset EXCEPT ![s] = {from - 1}]
  /\ UNCHANGED <<clock, tables, emits, sub, cursor, pos, attempts, due>>

\* What it checked may no longer hold when it writes.
ReplayWrite(s) ==
  \E n \in reset[s] :
    /\ MoveCursor(s, n)
    /\ reset' = [reset EXCEPT ![s] = {}]

\* The retry counter subscribe() keeps for a failed delivery.
UpsertAttempt(s, i, n) ==
  /\ cursor[s] \in {"active", "deregistered"}
  /\ attempts' = [attempts EXCEPT ![s][i] = n]
  /\ UNCHANGED <<clock, tables, emits, sub, cursor, pos, reset, due>>

DeleteAttempt(s, i) ==
  /\ attempts' = [attempts EXCEPT ![s][i] = 0]
  /\ UNCHANGED <<clock, tables, emits, sub, cursor, pos, reset, due>>

-----------------------------------------------------------------------------
(* runSweep(): one transaction.                                            *)

Expired == {i \in live : log[i].expires < clock}

\* Mutant: the event right after the cursor is taken for acked.
OwedOffByOne(s) ==
  {i \in Expired :
     \/ ActiveConsumer(s) /\ i > pos[s] + 1 /\ Matches(s, i)
     \/ cursor[s] = "active" /\ attempts[s][i] > 0}

\* Mutant: pending retries are forgotten.
OwedByPosition(s) ==
  {i \in Expired : ActiveConsumer(s) /\ i > pos[s] /\ Matches(s, i)}

\* collectOwedExpired(): by position and filter, or by a pending retry.
Owed(s) ==
  {i \in Expired :
     \/ ActiveConsumer(s) /\ i > pos[s] /\ Matches(s, i)
     \/ cursor[s] = "active" /\ attempts[s][i] > 0}

OwedIds == UNION {Owed(s) : s \in Subs}

\* owedPairsWithCap(): past the retention cap, which only 'retain' applies.
OverCap(i) == log[i].emitted < clock - Cap
Capped == {i \in OwedIds : Policy = "retain" /\ OverCap(i)}

\* Mutant: under archive_mode owed rows are expected to be copied already.
SweptToArchiveUnowedOnly ==
  (IF ArchiveMode THEN Expired \ OwedIds
   ELSE IF Policy = "archive" THEN OwedIds ELSE {}) \cup Capped

\* Mutant: archive_mode only copies what some consumer owes.
SweptToArchiveOwedOnly ==
  (IF Policy = "archive" THEN OwedIds ELSE {}) \cup Capped

SweptToArchive ==
  (IF ArchiveMode THEN Expired \ OwedIds ELSE {})
  \cup (IF Policy = "archive" THEN OwedIds ELSE {})
  \cup Capped

\* Mutant: rows past the cap are archived but stay in the events table.
SweptKeepingCapped ==
  IF Policy = "retain" THEN Expired \ OwedIds ELSE Expired

Swept == IF Policy = "retain" THEN (Expired \ OwedIds) \cup Capped ELSE Expired

\* Under 'retain' only the cap moves an owed event, and it archives.
Fate == IF Policy = "discard" THEN "discarded" ELSE "archived"

\* Mutant: the report is built from what the DELETE left behind.
ReportLinesAfterDelete ==
  UNION {{<<s, i, Fate>> : i \in Owed(s) \ Swept} : s \in Subs}

\* buildUnackedReport(): one line per owed event that leaves the live table.
ReportLines == UNION {{<<s, i, Fate>> : i \in Owed(s) \cap Swept} : s \in Subs}

Sweep ==
  /\ archived' = archived \cup SweptToArchive
  /\ live' = live \ Swept
  /\ reported' = reported \cup ReportLines
  /\ UNCHANGED <<clock, log, released, acceptedAt, emits, subscribers>>

Tick ==
  /\ clock < MaxHour
  /\ clock' = clock + 1
  /\ UNCHANGED <<tables, emits, subscribers>>

-----------------------------------------------------------------------------
Init ==
  /\ clock = 0
  /\ log = <<>> /\ acceptedAt = <<>>
  /\ live = {} /\ released = {} /\ archived = {} /\ reported = {}
  /\ step = [p \in Producers |-> "idle"]
  /\ draft = [p \in Producers |-> NoRow]
  /\ sub = [s \in Subs |-> "absent"]
  /\ cursor = [s \in Subs |-> "absent"]
  /\ pos = [s \in Subs |-> 0]
  /\ reset = [s \in Subs |-> {}]
  /\ attempts = [s \in Subs |-> [i \in 1 .. MaxEvents |-> 0]]
  /\ due = [s \in Subs |-> {}]

Emit(p) ==
  \/ \E t \in Types, k \in Keys \cup {NoKey}, ttl \in Ttls : EmitBegin(p, t, k, ttl)
  \/ EmitInsert(p)
  \/ EmitConflict(p)
  \/ EmitRelease(p)
  \/ EmitDuplicate(p)
  \/ EmitFails(p)

Register(s) ==
  \/ \E init \in {"oldest", "latest"} : RegisterSubscription(s, init)
  \/ RegisterReadHead(s)
  \/ RegisterCursor(s)

Consume(s) ==
  \/ \E n \in 0 .. MaxEvents : Ack(s, n)
  \/ \E from \in ReplayFrom : ReplayCheck(s, from)
  \/ ReplayWrite(s)
  \/ \E i \in Ids, n \in 1 .. MaxRetries : UpsertAttempt(s, i, n)
  \/ \E i \in Ids : DeleteAttempt(s, i)

Next ==
  \/ \E p \in Producers : Emit(p)
  \/ \E s \in Subs : Register(s) \/ Deregister(s) \/ Consume(s)
  \/ Sweep
  \/ Tick

Spec == Init /\ [][Next]_vars

\* The sweep is a setInterval timer and time passes; nobody has to emit,
\* consume or register anything.
FairSpec == Spec /\ WF_vars(Sweep) /\ WF_vars(Tick)

-----------------------------------------------------------------------------
(* Every variable holds what its table can hold.                           *)
TypeOK ==
  /\ clock \in Nat
  /\ log \in Seq(Row)
  /\ acceptedAt \in Seq(Nat)
  /\ live \subseteq Ids /\ released \subseteq Ids /\ archived \subseteq Ids
  /\ step \in [Producers -> {"idle", "insert", "release", "closed"}]
  /\ draft \in [Producers -> Row \cup {NoRow}]
  /\ sub \in [Subs -> {"absent", "active", "deregistered"}]
  /\ cursor \in [Subs -> {"absent", "reading", "inserting", "active", "deregistered"}]
  /\ pos \in [Subs -> Int]
  /\ reset \in [Subs -> SUBSET Int]
  /\ attempts \in [Subs -> [1 .. MaxEvents -> Nat]]
  /\ due \in [Subs -> SUBSET Ids]
  /\ reported \subseteq Subs \X Nat \X {"archived", "discarded"}

(* README "Unacked events are never swept by default": under 'retain' an   *)
(* event an active consumer has a claim to and never acked stays in the    *)
(* events table until it is older than unacked_retention_days, and then it *)
(* is in events_archive.                                                   *)
RetainedUntilCap ==
  Policy = "retain" =>
    \A s \in Subs : \A i \in due[s] \ live : i \in archived /\ OverCap(i)

(* README "archive (copied to events_archive, then deleted)": no policy    *)
(* but 'discard' lets an unacked event leave both tables.                  *)
UnackedIsStored ==
  Policy # "discard" => \A s \in Subs : due[s] \subseteq live \cup archived

(* README "so a loss is always named, never silent": an unacked event that *)
(* left the events table is in some sweep's report under the cursor that   *)
(* still had a claim to it, and the report tells whether it was archived.  *)
LossIsReported ==
  \A s \in Subs : \A i \in due[s] \ live :
    <<s, i, IF i \in archived THEN "archived" ELSE "discarded">> \in reported

(* README "Dedup is a separate window": an event is only accepted under a  *)
(* reused idempotency key after the windows of every earlier event with    *)
(* that key have closed.                                                   *)
DedupWindow ==
  \A i, j \in Ids :
    i < j /\ log[i].key = log[j].key /\ log[i].key # NoKey
      => log[i].dedup < acceptedAt[j]

(* A sweep never takes an event away from a retry in progress: an event    *)
(* with delivery_attempts of a cursor that is not deregistered leaves the  *)
(* events table only for events_archive (unless the policy is 'discard').  *)
PendingRetrySurvives ==
  [][Policy # "discard" =>
       \A s \in Subs, i \in live :
         attempts[s][i] > 0 /\ cursor[s] = "active" => i \in (live \cup archived)']_vars

(* README "archive_mode: true keeps swept rows in events_archive": every   *)
(* accepted event is in one of the two tables.                             *)
ArchiveModeKeepsAll == ArchiveMode => Ids \subseteq live \cup archived

(* lib/sweep.js "an abandoned registered cursor cannot hold its backlog    *)
(* live forever": under 'retain' every event leaves the events table once  *)
(* it is expired and past the cap, whoever still owes it.                  *)
BacklogDrains ==
  \A i \in 1 .. MaxEvents :
    (/\ i \in live
     /\ log[i].expires < MaxHour
     /\ log[i].emitted < MaxHour - Cap) ~> (i \notin live)
=============================================================================
