-------------------------------- MODULE CasGc --------------------------------
(***************************************************************************)
(* The content-addressable store: payloads that cas-auto moves out of their*)
(* rows into blob files, and gc(), which removes the files no row names.   *)
(*                                                                         *)
(* No lock and no transaction spans files and tables.  An emit() tests for *)
(* the file, writes it if need be, and inserts its row later.  gc() reads  *)
(* one table after the other, then the buckets one by one, then examines   *)
(* the files, while rows keep moving between the tables it reads.          *)
(***************************************************************************)
EXTENDS Integers, FiniteSets

CONSTANTS
  Producers,     \* processes that call emit()
  Blobs,         \* payload contents, as good as their SHA-256
  Buckets,       \* warm bucket files
  Allowed,       \* allow_missing_buckets
  Grace,         \* grace_days, in units of the clock
  MaxRows, MaxClock   \* bounds

ASSUME CasAssumption ==
  /\ Allowed \subseteq Buckets
  /\ Grace \in Nat \ {0} /\ MaxRows \in Nat /\ MaxClock \in Nat

VARIABLES
  clock,
  names,     \* names[r]: the blob row r refers to, for every row ever inserted
  live,      \* the rows of the events table
  archived,  \* those of events_archive
  dead,      \* those dead_letters has a copy of
  warm,      \* warm[b]: those of bucket b
  mtime,     \* mtime[x]: when the file of blob x was written, for x with a file
  emit,      \* emit[p]: the emit() in progress in process p
  gc,        \* the gc() in progress
  reused,    \* history: blobs whose file a gc() took for old while an emit() had
             \* found it in place and its row was not yet to be seen
  strayed    \* history: blobs of events that became dead letters when no table a
             \* gc() reads had them any more, too late for it or for their file

tables == <<names, live, archived, dead, warm>>
history == <<reused, strayed>>
casVars == <<clock, tables, mtime, emit, gc, history>>

Rows == DOMAIN names
Files == DOMAIN mtime
Warm == UNION {warm[b] : b \in Buckets}

NamedBy(S) == {names[r] : r \in S}

\* Rows whose blob somebody may still ask for.
Referring == live \cup archived \cup dead \cup UNION {warm[b] : b \in Buckets \ Allowed}

-----------------------------------------------------------------------------
(* emit() with cas-auto: applyRegistry() puts the payload, the INSERT comes*)
(* later.                                                                  *)

NoEmit == [at |-> "idle", blob |-> "none", since |-> 0]

Marking == gc.at # "idle"

\* The file of x is past the grace period of a gc() that began at now.
Old(x, now) == now - mtime[x] >= Grace

\* put() returns at once when the file exists; its mtime stays what it was.
PutFound(p, x) ==
  /\ emit[p].at = "idle" /\ x \in Files
  /\ emit' = [emit EXCEPT ![p] = [at |-> "insert", blob |-> x, since |-> clock]]
  /\ reused' = IF Marking /\ Old(x, gc.now) THEN reused \cup {x} ELSE reused
  /\ UNCHANGED <<clock, tables, mtime, gc, strayed>>

PutMissing(p, x) ==
  /\ emit[p].at = "idle" /\ x \notin Files
  /\ emit' = [emit EXCEPT ![p] = [at |-> "write", blob |-> x, since |-> clock]]
  /\ UNCHANGED <<clock, tables, mtime, gc, history>>

\* The temporary file is renamed into place, over one another put() may have placed.
PutWrites(p) ==
  /\ emit[p].at = "write"
  /\ mtime' = [x \in Files \cup {emit[p].blob} |-> IF x = emit[p].blob THEN clock ELSE mtime[x]]
  /\ emit' = [emit EXCEPT ![p].at = "insert"]
  /\ UNCHANGED <<clock, tables, gc, history>>

\* Mutant: the row is built after the envelope has been let go.
InsertAfterReset(p) ==
  LET r == Cardinality(Rows) + 1 IN
  /\ emit[p].at = "insert" /\ r <= MaxRows
  /\ emit' = [emit EXCEPT ![p] = NoEmit]
  /\ names' = [q \in Rows \cup {r} |-> IF q = r THEN emit'[p].blob ELSE names[q]]
  /\ live' = live \cup {r}
  /\ UNCHANGED <<clock, archived, dead, warm, mtime, gc, history>>

\* Bound: MaxRows.
Insert(p) ==
  LET r == Cardinality(Rows) + 1 IN
  /\ emit[p].at = "insert" /\ r <= MaxRows
  /\ names' = [q \in Rows \cup {r} |-> IF q = r THEN emit[p].blob ELSE names[q]]
  /\ live' = live \cup {r}
  /\ emit' = [emit EXCEPT ![p] = NoEmit]
  /\ UNCHANGED <<clock, archived, dead, warm, mtime, gc, history>>

\* WB-002, WB-004, a crash: the file stays without a row.
EmitFails(p) ==
  /\ emit[p].at # "idle"
  /\ emit' = [emit EXCEPT ![p] = NoEmit]
  /\ UNCHANGED <<clock, tables, mtime, gc, history>>

-----------------------------------------------------------------------------
(* How rows move (lib/sweep.js, lib/sweep-v2.js, lib/subscribe.js,         *)
(* lib/dlq.js).                                                            *)

Move(l, a, d, w) ==
  /\ live' = l /\ archived' = a /\ dead' = d /\ warm' = w
  /\ UNCHANGED <<clock, names, mtime, emit, gc, history>>

\* runSweep(): an expired row is deleted, or copied to events_archive first.
Sweep(r, keep) ==
  /\ r \in live
  /\ Move(live \ {r}, IF keep THEN archived \cup {r} ELSE archived, dead, warm)

\* runSweepV2(): into a bucket first, out of the events table later.
ToBucket(r, b) ==
  /\ r \in live \ Warm
  /\ Move(live, archived, dead, [warm EXCEPT ![b] = @ \cup {r}])

OutOfLive(r) == r \in live \cap Warm /\ Move(live \ {r}, archived, dead, warm)

\* The gc() in progress has read dead_letters, and not met x so far.
PastDead(x) == gc.at = "buckets" /\ x \notin gc.marked

\* moveToDeadLetter(): the worker inserts the event it has in memory, whether or
\* not a table still has the row.
Bury(r) ==
  /\ dead' = dead \cup {r}
  /\ strayed' = IF r \notin Referring /\ (PastDead(names[r]) \/ names[r] \notin Files)
                THEN strayed \cup {names[r]} ELSE strayed
  /\ UNCHANGED <<clock, names, live, archived, warm, mtime, emit, gc, reused>>

\* dropDeadLetter(), or a replay that succeeded.
Unbury(r) == r \in dead /\ Move(live, archived, dead \ {r}, warm)

-----------------------------------------------------------------------------
(* gc().                                                                   *)

NoGc == [at |-> "idle", now |-> 0, marked |-> {}, todo |-> {}, doomed |-> {}]

\* Blobs of rows that are still to be inserted.
Held == {emit[p].blob : p \in {q \in Producers : emit[q].at = "insert"}}

GcLive ==
  /\ gc.at = "idle"
  /\ gc' = [NoGc EXCEPT !.at = "archive", !.now = clock, !.marked = NamedBy(live)]
  /\ reused' = reused \cup {x \in Held \cap Files : Old(x, clock)}
  /\ UNCHANGED <<clock, tables, mtime, emit, strayed>>

GcArchive ==
  /\ gc.at = "archive"
  /\ gc' = [gc EXCEPT !.at = "dead", !.marked = @ \cup NamedBy(archived)]
  /\ UNCHANGED <<clock, tables, mtime, emit, history>>

\* Mutant: the dead letter queue is left out.
GcDeadSkipping ==
  /\ gc.at = "dead"
  /\ gc' = [gc EXCEPT !.at = "buckets", !.todo = {b \in Buckets : warm[b] # {}}]
  /\ UNCHANGED <<clock, tables, mtime, emit, history>>

\* Also lists the buckets: a bucket file exists once it has a row.
GcDead ==
  /\ gc.at = "dead"
  /\ gc' = [gc EXCEPT !.at = "buckets", !.marked = @ \cup NamedBy(dead),
                      !.todo = {b \in Buckets : warm[b] # {}} \ Allowed]
  /\ UNCHANGED <<clock, tables, mtime, emit, history>>

GcBucket(b) ==
  /\ gc.at = "buckets" /\ b \in gc.todo
  /\ gc' = [gc EXCEPT !.marked = @ \cup NamedBy(warm[b]), !.todo = @ \ {b}]
  /\ UNCHANGED <<clock, tables, mtime, emit, history>>

\* WB-010: a bucket cannot be read; or the process dies.
GcAborts ==
  /\ gc.at # "idle"
  /\ gc' = NoGc
  /\ UNCHANGED <<clock, tables, mtime, emit, history>>

\* walkCasFiles(): the directories as they are read, an unmarked file among them
\* that stat() finds old enough.
GcStat(x) ==
  /\ gc.at = "buckets" /\ gc.todo = {} /\ gc.doomed = {}
  /\ x \in Files \ gc.marked
  /\ Old(x, gc.now)
  /\ gc' = [gc EXCEPT !.doomed = {x}]
  /\ UNCHANGED <<clock, tables, mtime, emit, history>>

GcUnlink(x) ==
  /\ x \in gc.doomed
  /\ mtime' = [y \in Files \ {x} |-> mtime[y]]
  /\ gc' = [gc EXCEPT !.doomed = {}]
  /\ UNCHANGED <<clock, tables, emit, history>>

GcEnds ==
  /\ gc.at = "buckets" /\ gc.todo = {} /\ gc.doomed = {}
  /\ \A x \in Files \ gc.marked : ~Old(x, gc.now)
  /\ gc' = NoGc
  /\ UNCHANGED <<clock, tables, mtime, emit, history>>

\* An emit(), which waits for a lock at most, does not take as long as Grace.
Tick ==
  /\ clock < MaxClock
  /\ \A p \in Producers : emit[p].at # "idle" => clock + 1 - emit[p].since < Grace
  /\ clock' = clock + 1
  /\ UNCHANGED <<tables, mtime, emit, gc, history>>

-----------------------------------------------------------------------------
CasInit ==
  /\ clock = 0 /\ names = [r \in {} |-> "none"]
  /\ live = {} /\ archived = {} /\ dead = {} /\ warm = [b \in Buckets |-> {}]
  /\ mtime = [x \in {} |-> 0]
  /\ emit = [p \in Producers |-> NoEmit]
  /\ gc = NoGc /\ reused = {} /\ strayed = {}

Emit(p) ==
  \/ \E x \in Blobs : PutFound(p, x) \/ PutMissing(p, x)
  \/ PutWrites(p) \/ Insert(p) \/ EmitFails(p)

Rearrange ==
  \E r \in Rows :
    \/ \E keep \in BOOLEAN : Sweep(r, keep)
    \/ \E b \in Buckets : ToBucket(r, b)
    \/ OutOfLive(r) \/ Bury(r) \/ Unbury(r)

Gc ==
  \/ GcLive \/ GcArchive \/ GcDead
  \/ \E b \in Buckets : GcBucket(b)
  \/ \E x \in Blobs : GcStat(x) \/ GcUnlink(x)
  \/ GcEnds

CasNext == (\E p \in Producers : Emit(p)) \/ Rearrange \/ Gc \/ GcAborts \/ Tick

CasSpec == CasInit /\ [][CasNext]_casVars

-----------------------------------------------------------------------------
(* Every variable holds what its table, file or process can hold.          *)
CasTypeOK ==
  /\ clock \in 0 .. MaxClock
  /\ Rows \subseteq Nat /\ NamedBy(Rows) \subseteq Blobs
  /\ live \cup archived \cup dead \cup Warm \subseteq Rows
  /\ Files \subseteq Blobs /\ \A x \in Files : mtime[x] \in 0 .. clock
  /\ gc.at \in {"idle", "archive", "dead", "buckets"} /\ gc.now \in 0 .. clock
  /\ gc.marked \cup gc.doomed \cup reused \cup strayed \subseteq Blobs /\ gc.todo \subseteq Buckets
  /\ \A p \in Producers :
       /\ emit[p].at \in {"idle", "write", "insert"} /\ emit[p].since \in 0 .. clock
       /\ emit[p].at # "idle" => emit[p].blob \in Blobs

(* DESIGN-v2 6.3 (silent skip would "permanently destroy referenced        *)
(* objects"), lib/cas.js "The DLQ owns that reference": however its row    *)
(* moves between the tables while gc() reads them, a blob that a row or a  *)
(* dead letter names keeps its file.  Two calls alone may lose it: an      *)
(* emit() that found a file older than the grace period, and inserts its   *)
(* row while gc() is at work; and a worker that dead-letters an event when *)
(* no table gc() reads has it any more, after gc() has read dead_letters or *)
(* has taken the file.                                                     *)
ReferencedIsKept == NamedBy(Referring) \subseteq Files \cup reused \cup strayed
=============================================================================
