# wicked-bus: a TLA+ model

wicked-bus is an event bus in one SQLite file. Every process of a project
(producers, consumers, operators at the command line, an optional daemon) opens
the file through the same library; there is no server that orders their calls.
What each call may assume about the others is therefore only what SQLite's
transactions give it, and most library calls are several transactions long.
These modules model the calls at that grain.

## The system

| Part | State it keeps | Operations | Talks to |
|---|---|---|---|
| Event store (`lib/emit.js`, `lib/schema.sql`) | `events` with AUTOINCREMENT ids and a UNIQUE idempotency key | `emit()` | sweep (removes rows), registry, CAS, daemon |
| Registration (`lib/register.js`) | `subscriptions`, `cursors`, provider sidecars | `register()`, `deregister()`, `deregisterByPlugin()` | sweep and poll read both tables |
| Cursors (`lib/poll.js`, `commands/cmd-replay.js`) | `cursors.last_event_id` | `poll()`, `ack()`, `reanchorCursor()`, replay command | sweep (what is owed) |
| v1 sweep (`lib/sweep.js`, `lib/retention.js`) | `events_archive` | `runSweep()`, timer in `wicked-bus subscribe`, `wicked-bus cleanup` | cursors, subscriptions, `delivery_attempts` |
| Managed subscriber (`lib/subscribe.js`) | in-memory loop, `delivery_attempts` | `subscribe()`, `stop()`, timers, user handler | all tables |
| Dead letters (`lib/dlq.js`) | `dead_letters` | list, replay request, drop | served by the subscriber loop |
| CLI consumer (`commands/cmd-subscribe.js`) | in-memory loop | streaming and drain modes, WB-003 recovery | poll, ack, sweep timer |
| Daemon (`lib/daemon.js`, `lib/ipc-protocol.js`) | bounded queue per session | broadcast, flush, degraded notice | notify and client sockets |
| Daemon notify and client (`lib/daemon-notify.js`, `lib/daemon-client.js`) | socket buffers | notify, subscribe, reconnect | daemon |
| Push-or-poll (`lib/subscribe-push-or-poll.js`) | mode, last seen id | switch between push and poll, ack before yield | daemon client, poll |
| Daemon singleton (`lib/daemon-singleton.js`) | lock file with pid | acquire, take over, coordinated spawn | other starters |
| Tiered sweep (`lib/sweep-v2.js`, `lib/archive.js`) | monthly warm databases | insert into bucket, delete from live | locked buckets, cursors |
| Queries (`lib/query.js`) | none | `pollResolve()` over live and warm tiers | tiered sweep |
| CAS (`lib/cas.js`, `lib/atomic.js`) | blob files | `put()`, `gc()` | emit, dead letters |
| Registry, causality, checkpoint, migrations, config, validation, dashboard | as named | lookups, context propagation, pragmas, DDL, HTTP | |

Hard behaviour: several processes interleave inside every library call; the
loop of a consumer awaits its handler between reading a cursor and writing it;
processes crash between the transactions of one logical step; the sweep
recomputes from the tables, at a moment nobody chooses, what may be destroyed;
operators move cursors under running loops. `PROJECT.json` lists these hazards
at their lines.

What makes each part correct, in short: no accepted event leaves the store
while somebody has a claim to it except as the policy says and with a report
(store, sweep, registration); a reused key is refused inside its window (emit);
every claim is settled by the handler or a dead letter, in order, after exactly
the granted retries, and eventually (subscriber, command line); a stop ends and
a drain ends having written what was pending (subscriber, command line); what
the cursor passes was handed over, whatever mode delivered it (daemon,
push-or-poll); one daemon per project, reachable at its socket (singleton); a
row is in some tier at any time and a query finds it (tiered sweep, queries); no
blob that a row names is collected (CAS).

## Modules

| Module | Models | Extends |
|---|---|---|
| `EventStore` | the database and every library call on it, one action per transaction | |
| `AtLeastOnce` | the abstract delivery promise to a subscription | |
| `Subscriber` | `subscribe()` in any number of processes | `EventStore`, implements `AtLeastOnce` |
| `CliSubscribe` | `wicked-bus subscribe`, streaming and draining, in any number of processes | `EventStore`, implements `AtLeastOnce` |
| `TieredSweep` | `runSweepV2()` and `pollResolve()` over live table and bucket files | `EventStore` |
| `PushOrPoll` | producers, daemon, sessions and one `subscribePushOrPoll()` consumer | |
| `DaemonLock` | lock file, socket path, spawn lock and the processes that race for them | |
| `CasGc` | `put()`, the row it belongs to, and `gc()` | |
| `MC*` | instances of each for TLC | |
| `EventStore_proofs`, `Subscriber_proofs`, `CliSubscribe_proofs`, `TieredSweep_proofs`, `PushOrPoll_proofs`, `CasGc_proofs`, `DaemonLock_proofs` | theorems | the module they are about |
| `SubscriberOrder_proofs` | theorems about a single worker | `Subscriber_proofs` |

### EventStore

`log` is the sequence of all rows ever accepted; a row's position is its
`event_id`, which AUTOINCREMENT never reuses. Rows do not change except for a
released idempotency key, so the tables are sets of ids: `live` (`events`),
`archived` (`events_archive`), `released` (rows renamed by
`releaseExpiredKey()`). `sub`, `cursor`, `pos`, `attempts` are the columns of
`subscriptions`, `cursors` and `delivery_attempts` that the code branches on.
Time is `clock`, in hours, and only `Tick` moves it.

- `emit()` reads the clock (`EmitBegin`), inserts (`EmitInsert`), and on the
  UNIQUE error (`EmitConflict`) runs a second transaction that releases an
  expired key and inserts (`EmitRelease`) or throws WB-002 (`EmitDuplicate`).
  `EmitFails` is WB-004 and every rethrown error.
- `register()` is three statements: `RegisterSubscription`, `RegisterReadHead`
  (only for `latest`), `RegisterCursor`. `Deregister` is one transaction.
- `Ack` is `ack()` and `reanchorCursor()`, which write any position. The replay
  command checks (`ReplayCheck`) and then writes without a condition
  (`ReplayWrite`).
- `Sweep` is `runSweep()`, one transaction, built from `Owed`
  (`collectOwedExpired()`), `OverCap` and `Capped` (`owedPairsWithCap()`),
  `SweptToArchive`, `Swept` and `ReportLines`. `runSweep()` reads the clock just
  before its transaction begins; the model reads it inside. An older clock
  expires fewer rows.

The filter language is abstracted to the set of event types a filter matches;
payloads, metadata and causality fields are left out.

History variables, which no table holds: `due[s]`, the events `s` has a claim to
(they were inserted, registered over or rewound over while its cursor and
subscription were active, and its cursor has not passed them since);
`acceptedAt`; `reported`.

### Subscriber

`loop[w]` is the closure state of `subscribe()` in process `w`; `loop[w].at`
names the statement that runs next, so that the actions of other processes fall
between any two statements of `registerOrResume()`, `drainReplays()`, `poll()`,
`processEvent()` and the WB-003 branch of `tick()`. The handler returns or
throws, at its own pace. `DbError` lets any statement throw and follows the
exception to where the code catches it: inside the `try` around the handler (a
failed attempt), inside the one around a replay, or in `tick()`, which ends with
the rest of the batch dropped (also when `getAttempts()` throws before the
handler is called). While it registers or resumes, nothing catches it: it leaves
`subscribe()`, and the process counts as down. `Stop` is
`stop()`, which can only run between awaits; `Crash` and `Restart` lose the
closure and keep the database. `OperateLetter`, `RewindCheck`, `Rewind` and
`Unsubscribe` are the operator commands. `dlq` keeps every row of `dead_letters`
at its `dl_id`; a deleted one is `"gone"`.

History variables: `handled` and `buried`, the deliveries since the last rewind
over them, and `failures`, the handler calls that threw.

`AtLeastOnce` has claims (`owed`) that may be settled only when the handler
accepted the event, it became a dead letter, or the sweep took it; a
deregistration withdraws claims, and a replay makes new ones. `Subscriber`
implements it with `owed <- due`, `swept <- Ids \ live`, `left` the
deregistered subscriptions and `asking` those with a replay command in
progress. The replay of the abstract specification is what an operator expects
of the command: the claims stay until they are delivered anew. The code does
not keep to that, since the ack of a delivery under way overwrites the replayed
position, so the runs and the theorem that show the refinement have no replay
command (`Budget["rewind"] = 0`); `SubLive` has one.

### CliSubscribe

`cli[c]` is a process started with one of the command lines in `Modes[c]`, and
`.at` the statement it runs next. Nothing between two polls awaits, so `Signal`
is seen only in the pause of a loop. `Found`, `Ambiguous` and `RegisterNew` are
the lookup by plugin and filter; `PollCursor`, `PollFresh`/`PollStale` and
`PollSelect` the three reads of `poll()`, for a drain with `afterEventId` as its
in-memory `floor`; `Recover` is `recoverFromStale()`; `Write` and `AckWritten`
go through a page row by row. `DbError` lets a statement throw: a stream reports
it and polls again, a drain ends. `written` is history, and `pending` what lay
before a drain when it began. The module implements `AtLeastOnce` with `handled
<- written`: what is written to the output counts as delivered, also by another
process on the same cursor and also with `--no-ack`. The replay command is not
composed with it; an `emit()` is the one step in which its row is accepted.

### TieredSweep

A bucket file is missing, bare (no tables yet) or ready, and has its rows, the id
range in its `_meta` and its seal; files sort by month and split suffix. `job[w]`
is the closure of a running `runSweepV2()`: `ReadOwed`, `DropOwed` (policy
`discard`), `SelectBatch` (candidates, target buckets, sealing), then for each
bucket either `SkipLocked`, or `OpenBucket`, which tests for the file;
`CreateFile`, `CreateTables`, `FirstMin` and `FirstMax` if it was not there, the
commits of `createBucket()` (its CREATE statements are one step); `InsertRows`,
`ReadRange` and `WriteRange`; and last `DeleteMoved` with its recheck and report.
Sweepers hold no lock against each other: two may create one file, and one may
write a range that it read before the other's rows came (`RangeInHand`). `Crash`
is the death of a sweeper or an exception, such as the insert into a bare file.
`page[r]` is a running `pollResolve()`: `Probe`, `ListBuckets`, `ReadBucket`
(which may end in WB-013), and `FastPage` or `SpillPage`. The lock of `archive
compact` and `export` is a choice in `SkipLocked`, because nothing in the program
under model takes it. The ceiling on attached buckets is left out (the bounds
have fewer buckets), and a reader asks for every type.

History: a bucket's `late` are the rows that another sweeper's range was written
over, or is about to be. They may be found all the same; what is promised of
ranges, and of what readers find through them, is promised of the others.

### PushOrPoll

Events are the ids `1 .. head`. `notes` are the `produced` frames on their way,
each on a connection of its own, so they may overtake each other or time out
(`Mishaps`). `conn[c]` is both ends of one connection with its session: queue,
frames on the wire, the hello and the largest ack the daemon has yet to read.
`Flush` writes a prefix of the queue; the frame whose `write()` reports
back-pressure is on the wire and still at the head of the queue, as in
`_flush()`. `Enqueued` drops the oldest frame at the cap and may degrade a
session that stays above its watermark; the clock of that decision is left
open. `me` is the generator: `Connect`, `SafePoll`, `Take` and `Frame` (both ack
and then hand over), `EndIterator`, `LeavePush`, `StayPolling`. `PersistAck`
may fail silently. `Leave` is `close()` or the death of the process. History:
`handed`, `overtaken` (live events passed by the ack of a pushed frame), `cut`
(acked, not yet yielded when the process died).

### DaemonLock

Each action is one system call. A file is who created it and the pid in it,
which arrives in a later call: `Create` then `WritePid`. A starter that finds
the file goes through `Exists`, `ReadPid`, `Refused` or `ProbeDead`,
`UnlinkStale`, and again. `ClearSocket`, `Listen`, `Signal`, `CloseServer` and
`Release` are `startDaemon()` and `shutdown()`. `Probe` to `Wait` are
`coordinatedSpawn()`, which no module of the program calls yet; `Spawn` starts a
daemon as its caller would. A crash leaves every file. `robbed` is history: the
processes whose file another one unlinked while they lived. A pid is never
given to another process.

### CasGc

`names` tells which blob a row refers to, `live`, `archived`, `dead` and `warm`
where rows are, `mtime` which blobs have a file. `PutFound` returns at once for
an existing file, `PutMissing` and `PutWrites` write one; `Insert` or
`EmitFails` follow. `gc()` reads table after table (`GcLive`, `GcArchive`,
`GcDead`), bucket after bucket, and then takes unmarked files that are old
enough (`GcStat`, `GcUnlink`), or aborts. Meanwhile the sweeps, dead-lettering
and drops move rows (`Rearrange`). `Bury` is `moveToDeadLetter()`, which inserts
the event a worker has in memory whether or not a table still has its row: under
`discard`, or when another worker has settled it, a sweep may have removed it
first. History: `reused`, the blobs whose old file an `emit()` found in place
with a `gc()` at work before its row came, and `strayed`, those of events that
were dead-lettered from memory alone, too late for a `gc()` that had read
`dead_letters` or taken the file. An `emit()` takes less time than the grace
period (its `Tick` guard); the period is seven days and an `emit()` waits five
seconds for a lock.

## Runs

| Run | Question | Instance |
|---|---|---|
| `StoreRetain` | is every unacked event kept until the cap, then archived and reported; are events under retry safe; does an abandoned backlog drain | 1 subscription with a filter, 2 types, 2 events, lifetimes 0 and 1, hours 0..3, cap 2 |
| `StoreDedup` | is a key accepted twice inside its window, two producers racing; does `archive_mode` keep every row | 2 producers, 1 key, 3 events, lifetimes 1 and 2, window 1, hours 0..3 |
| `SubOne` | does one loop implement `AtLeastOnce`, in order, without stale retry rows, with nothing unacked lost | a crash, a database error, a stop and a deregistration anywhere, three of them in one behaviour; 2 events, policy `archive` |
| `SubShared` | do two loops on one cursor implement `AtLeastOnce`, and bury only after the granted attempts | 2 workers, 2 events, sweeps, no faults: a crashed worker is one that takes no further step |
| `SubLive` | is every surviving claim settled, every requested replay served, every `stop()` completed; are attempts counted across restarts | one worker; a crash, a stop, a replay command, an operation on a dead letter, two of them in one behaviour |
| `Cli` | do a stream and a drain on one cursor implement `AtLeastOnce`, does a drain deliver and end, does a stream serve every claim | 2 processes, 3 command lines, 2 identities, 2 events, one fault of any kind |
| `Tiered` | is a row always in some tier and, unless late, in a bucket whose range names it, is what is owed never moved unnamed, is a reader never told that moved rows older than the live ones are gone | 2 sweepers that crash at will, 1 reader or 1 subscription, 2 events, months of one hour, one split, `retain` |
| `Push` | does the cursor pass only what was handed over or overtaken; does polling take over; does a queue drain | queue, watermark and page 1; 2 events, lost and overtaking frames, 2 daemon starts, a crash |
| `Cas` | is the file of a referenced blob kept, but for reused and strayed ones | 2 producers of one payload, 2 buckets, one of them allowed to be missing, grace 2, clock 0..3 |
| `Lock` | are two owners possible only after a robbery, is a serving daemon reachable, does every start settle | 3 daemons, 2 spawners, 1 crash |

Expected violations, each quoted with its document in `PROJECT.json`:

| Run | What it shows |
|---|---|
| `TieredGap` | with different lifetimes, an event swept from between two live ones is in a bucket that `pollResolve()` never opens, and the reader passes it |
| `PushLoses` | an event whose frame reaches the daemon between the catch-up poll and the hello is lost to the consumer once the next frame is acked, with no crash and no lost message |

The bounds. Two events are enough for the orders these properties are about: one
before and one behind the cursor, one swept and one surviving, one retried and one
waiting, one pushed and one overtaken. A third is given where three rows meet
(`StoreDedup`, `TieredGap`). The clock reaches every relation of lifetime, window,
cap, month or grace to the present: before, at and after it. `Tiered` has two
sweepers, which differ in name only (symmetry), and a state constraint
(`Instances`) that keeps the sum of what goes on within reach: there are readers
or there is a subscription; two processes sweep or read at a time; two sweeps meet
in the last hour only, when both rows are there and none has been read, with one
bucket each, which is where one can write over the range of the other; buckets
fill up only where there is no subscription; and an `emit()` commits in the hour
it began. That the meetings matter shows when `FoundByRange` is checked without
its exception for late rows: it fails. What the constraint cuts off, such as two
sweepers and a subscription at once, is in the theorems, which hold for every
value of the bounds. A file without rows is never full. `Push` has a queue of one,
so that every overflow, drop and degradation happens with two events, and one
connection at a time. `Cas` has one blob, since nothing relates two. `Lock` needs
three starters: an owner, one that takes its file away, and a third that profits.
`Budget`, `MaxCrashes` and `MaxStarts` bound faults; `MaxEvents`, `MaxRows`,
`MaxHour` and `MaxClock` the data; `MaxWire` stops repeated copies of one frame;
`MaxSplit` the suffixes of a month; one replay command per cursor runs at a time.

Deadlock is checked except in `Push`, `PushLoses` and `Lock`: a consumer that saw
WB-003 has ended for good, and so have daemons that were refused.

### Fairness

`StoreRetain` assumes weak fairness of `Sweep` and `Tick`. Time passes; the sweep
is a `setInterval` timer of every streaming `wicked-bus subscribe` process
(`startSweep()` in `lib/sweep.js`, errors swallowed, always rearmed) or a
scheduled `wicked-bus cleanup`. `sweep_interval_minutes: 0` turns the timer off;
then `BacklogDrains` is not promised.

`SubLive` assumes weak fairness of `Run(w)`, the steps of the worker itself: a
timer that is set fires, a statement completes or throws, the handler settles,
and a process that went down is started again. Nothing is assumed of which way
a handler ends: it may throw for ever. `Cli` assumes the same of a running
process, and that a process that only streams is started again; a drain is not.

`Push` assumes that the caller keeps iterating (`Consumer`), that a database
asked again and again is not busy each time (`Take(FALSE)`), that the daemon
reads its sockets, and that a session drained again and again is at some time
accepted as a whole: a reader that never empties its socket leaves frames
queued, which is what the bound on the queue is for. Nothing is assumed of
producers, frames on their way, or the daemon's life. `Lock` assumes that a
started daemon process makes its next system call; nobody has to start or stop
one, and nothing is assumed of spawners.

## Proofs

Every invariant, action property and refinement that a passing run checks is also a
theorem; the liveness properties are not.

`EventStore_proofs` holds for every set of producers, keys, types,
subscriptions, filters and lifetimes, every policy and cap, from
`StoreAssumption` alone.

- `TypeCorrect`: `TypeOK`. It is made inductive by `Typed`: an `emit()` past its
  clock read holds a row.
- `Retention`, `UnackedStored`, `NoSilentLoss`: the retention guarantee of the
  sweep against every interleaving of the other calls. The inductive invariant
  `RetentionInv` adds two facts to the three properties: every claim is one that
  the sweep recomputes from position, filter and the soft-delete columns
  (`Claims`), and no event is in both tables (`OneTable`). The heart of it is
  `RetentionSweep`; `RetentionKept` disposes of the steps that leave the tables
  alone.
- `RetriesSurvive`: the action property `PendingRetrySurvives`; only `Sweep`
  removes events (`OnlySweepRemoves`), and a pending retry puts an event in
  `Owed`.
- `Deduplication`: `DedupWindow`, under the condition `TtlCoversWindow` that no
  lifetime is shorter than the dedup window. `emit()` does not enforce that
  (`ttl_hours` may be any override): a row that expires earlier is swept with its
  key, which is then free, as TLC shows when 0 is added to the lifetimes of
  `StoreDedup`. `DedupInv` adds that one unreleased live row holds a key, that a row
  whose window is open is live and unreleased, and that clock readings are
  ordered.

- `ArchiveKeeps`: `ArchiveModeKeepsAll`, for every policy but `discard`, by
  the property itself with `Typed` (`ArchiveInv`).

Policy `discard` is covered by the theorems alone, which hold under every policy.
With `archive_mode`, `discard` still destroys what is owed (`lib/sweep.js:95`
copies only rows nobody owes), hence the condition of `ArchiveKeeps`.

`Subscriber_proofs`, for any number of workers and subscriptions, every batch
size and retry budget, and any number of crashes, restarts, stops, database
errors, deregistrations and operations on dead letters; all but
`AtLeastOnceDelivery` also with any number of replay commands.

- `SubscriberTypeCorrect`: `SubscriberTypeOK`. After a replay command nothing is
  known of what a cursor has passed, so the invariant `UsageInv` says less than
  `SubscriberInv` below: what the local state of a worker names exists (`Naming`),
  a counter that a delivery resumes from is at most `MaxRetries`, and a position a
  worker may write is one the store takes (`Sized`).
- `UsesTheStore`: from the same invariant, every step of the workers and of the
  operators is a step of `EventStore`, so what is proved there holds in the
  composition; `WorkersKeepUnacked` is that for `UnackedIsStored`.
- `AtLeastOnceDelivery`: `ImplementsAtLeastOnce`, where `NoRewinds` excludes the
  replay command: its write is undone by the ack of a delivery that was already
  under way. The invariant `SubscriberInv`
  says that for every subscription there is a `base`, the position its cursor was
  created at, such that every surviving event from there to the cursor is settled
  (`AcksPassed`), and likewise every surviving event up to whatever a worker may
  ack next: its `floor`, the event in hand, and for each event of a batch what the
  batch does not hold before it (`WorkerOK`). One worker's facts survive the steps
  of the others because a new event has a new id, rows are immutable, and what is
  settled stays settled (`Grows`). An ack that moves the cursor back, by a slower
  worker, only adds claims.
- `BuriedAfterBudget`: `DeadLetterAfterBudget`, where in addition
  `OnlyHandlersFail`: the one `catch` around the handler also counts a database
  error or a deregistered cursor as a failed attempt, and then fewer handler calls
  precede the dead letter. `CountInv` ties the retry rows and the attempt in hand
  to the calls that failed, on top of `UsageInv`.

`SubscriberOrder_proofs`, for one worker (`OneWorker`) without a replay command
(`NoRewinds`), and otherwise as above:

- `DeliversInOrder`, `RetriesAreUnacked`: `HandledInOrder`, `RetryRowsAreUnacked`.
  `OrderInv` says that what the worker has in hand is the front of what lies beyond
  its cursor (`Front`): the batch holds every surviving event before its last one,
  the event in hand is the first, and its retry row is gone before it is acked. An
  ack then passes no other event's row (`OrderAcks`), and the recovery from WB-003
  none at all (`OrderReanchor`). Two workers on one cursor move it under each other,
  and a rewind moves it under the worker; neither hypothesis can be dropped.

`CliSubscribe_proofs`, for any number of processes with any command lines on any
number of cursors, from the assumptions of the modules alone:

- `CliTypeCorrect`: `CliTypeOK`; `LoopsKeepUnacked`: `UnackedIsStored` in the
  composition.
- `LoopsDeliverAtLeastOnce`: `LoopsImplementAtLeastOnce`. As for the workers above,
  `CliInv` has a `base` for every cursor, from which everything that survives up to
  a position a process may write has been written to an output (`Acking`), and a
  page leaves out nothing unwritten before a row it holds (`Paging`).
- `DrainsDeliver`: `DrainDeliversPending`. For a drain, `CliInv` adds that what it
  still has to write lies beyond its in-memory floor (`Draining`), and is in its
  page before any later row, hence gone when it finds the queue empty
  (`Delivering`). Other processes move the durable cursor only; a drain reads it
  again just to notice WB-003, whose recovery stops short of every surviving row,
  and selects by its floor: that is why its promise survives them.

`TieredSweep_proofs`, from `TieredAssumption` and `StoreAssumption` alone, for any
number of sweepers, readers, months and splits:

- `TieredTypeCorrect`, `NeverOutsideBothTiers`, `OwedNamed`: `TieredTypeOK`,
  `InSomeTier`, `OwedLeavesNamed`. The inductive invariant `TierInv` says of a
  sweep in progress (`JobOK`) that what it notes as moved expired before it began
  and is in some bucket already, which is why its delete is harmless whoever else
  sweeps, and of a query (`CallOK`) that what it knows to have left the live tier
  is out of it, and older than the oldest live row it saw. `OwedNamed` rests on the
  recheck inside the delete: by `Claims` of `EventStore_proofs` it sees every claim
  there is at that moment, also one that came after the sweep read who owes what.
- `RangesFind`, `NobodyTurnedAway`, `UnfilledPagesComplete`: `FoundByRange`,
  `NeverTurnedAway` and the action property `UnfilledPageHasNoGap`. All three
  except late rows, and the last two speak of events older than every live row
  the query saw: `pollResolve()` looks for nothing between two live rows. That a
  bucket covers an id is not inductive: a crash between the insert and the range
  leaves rows that no range names, and a bucket that is sealed then covers them no
  more. `ShelfInv` therefore speaks of ids within the range proper (`Shelved`), of
  which all are that a sweep deletes and no range was written over; of the range a
  sweeper has in hand, which holds every row of its bucket that is not late
  (`Holds`); and of what a query must still find in the buckets on its list
  (`CallFinds`). `OpeningStep` is the step at which `createBucket()` writes a first
  range over rows that are already there.

`PushOrPoll_proofs`, from `PushAssumption`, for any number of events, connections,
daemon starts and crashes, every page size, queue bound and watermark, and frames
that are lost, late or dropped:

- `PushTypeCorrect`, `OvertakingAloneLoses`: `PushTypeOK`, `LostOnlyByOvertaking`.
  `PushInv` adds `PageInOrder`: a page being worked through holds every live event
  older than one of its rows, unless that event is accounted for already. Without it the ack of a row of the page could pass an event that was
  never read.

`CasGc_proofs`, from `CasAssumption`, for any number of producers, payloads,
buckets and rows and any grace period:

- `CasTypeCorrect`, `ReferencedKept`: `CasTypeOK`, `ReferencedIsKept`. The
  inductive invariant `CasInv` says what a `gc()` in progress knows at each of its
  reads: every row of the tables it has read is `Safe`, its blob marked, or its
  file too young, or excepted (`ReadIsKnown`, `Excused`). That is inductive because
  rows move only from tables read early to tables read late (`CasMove`): the order
  of the reads in `collectLiveShasOrAbort()` is what the theorem rests on. The one
  way back, a dead letter of an event that is in no table, is the exception
  (`CasBury`). `EmitsAreShort` keeps
  a `put()` that writes over a file away from one that `gc()` is about to unlink.

`DaemonLock_proofs`, from `LockAssumption`, for any number of daemons, spawners
and crashes:

- `LockTypeCorrect`, `SingleUnlessRobbed`, `ReachableUnlessRobbed`: conjuncts or
  consequences of `LockInv`, which adds that an owner nobody robbed still has its
  file at the path (`OwnersFile`, `SpawnersFile`). There is one file, so there is
  one such owner; everything done to the socket path is done by an owner, so
  without a robbery the path leads to the one that serves.

Two lemmas that many of these cite, `LeastExists` and `GreatestExists` (a nonempty
set of ids has an oldest and a newest), are in `EventStore_proofs`, as are the lemmas
about `Claims` that the compositions share.

Only model-checked: the liveness properties (temporal reasoning about fairness
and ENABLED is out of the prover's reach).

## What the models show of the code

Beside the two expected violations, building the models showed behaviours that
no property forbids because no text of the repository promises otherwise, or
because the property states the exception:

- The sweep may remove the holder of a key between the failed INSERT and the
  release transaction of another `emit()`, which then reports WB-002 with no
  original event.
- A deregistration between the statements of `register()` leaves an active
  cursor of a deregistered subscription.
- The ack of a delivery already under way undoes a replay command.
- A database error in the ack after a handler succeeded spends a retry
  (`lib/subscribe.js:365`), so a dead letter may belong to an event that was
  handled.
- Two owners of `daemon.lock` are possible: a starter that reads the file before
  its pid is written, or that read an older one, unlinks the file of a live
  owner (`robbed`). The comments at `lib/daemon-singleton.js:4` ("exactly one
  daemon process owns the socket") and `:68` (the unlink "is safe because the prior
  process is dead") say otherwise. `SecondOwnerNeedsRobbery` excepts it, so no run
  reports it as a violation; run and theorem say that nothing else makes two
  owners.
- `put()` does not renew the time of a file it finds, so a `gc()` that began
  before the row is inserted may remove a file older than the grace period
  (`reused`).
- A worker that dead-letters an event whose row a sweep has removed inserts it from
  memory (`lib/subscribe.js:171`). If a `gc()` has read `dead_letters` by then, or
  has taken the blob file, the dead letter names a payload that is gone
  (`strayed`).
- Two sweeps at once may leave an event in a bucket whose `_meta` range misses it,
  where no query looks for it: one of them reads the range (`lib/sweep-v2.js:311`),
  the other inserts a row and widens the range, and the first writes what it read
  (`:319`); or one creates a file that the other has created and filled
  (`lib/archive.js:53`), and writes its own first range. Design section 14.1 (T12)
  has one worker own a bucket; the code has no such owner. A later sweep into the
  bucket repairs the range, unless it is sealed. Such rows are `late`, and the
  properties hold of all others.
- `startSweep()` (`lib/sweep.js:152`) drops the report of its sweep, so
  `LossIsReported` reaches only those who call the sweep themselves, as
  `wicked-bus cleanup` does.
- Under back-pressure a frame is written again, and a swallowed ack error leaves
  the cursor behind an event that was handed over: in push mode an event may be
  handed over twice.
- Two `wicked-bus subscribe` processes that register the same plugin and filter
  at once leave two cursors, and both are refused from then on (WB-001).

## Plan

Done: every module above, in the order of their table. What would come next:

1. `PushOrPoll` with two connections of one consumer, for the `close` handler that
   deletes a newer session, and with filters.
2. A run of its own for each behaviour above that a comment of the code denies: two
   owners of `daemon.lock`, and rows out of their bucket's range.
3. `Filter`: `matchesFilter()` against `buildFilterSql()` over bounded names.

## Not modelled

The dashboard (read-only), migrations (DDL), checkpointing (SQLite internals),
validation, configuration and path helpers (pure functions), causality (data
carried along), argument parsing and printing, provider sidecar files, the
validation of the schema registry (a function of the event; its offload is in
`CasGc`), the byte framing of the socket protocol, `VACUUM`, compaction and
export of archive files, and `--cursor-id`, which skips the lookup of a cursor.
