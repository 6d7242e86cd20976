----------------------------- MODULE TieredSweep -----------------------------
(***************************************************************************)
(* The tiered store: runSweepV2() moves expired rows of the events table   *)
(* into monthly bucket files, each a database of its own, and pollResolve()*)
(* reads pages across both tiers.                                          *)
(*                                                                         *)
(* The two tiers share no transaction.  A sweep is one step per commit:    *)
(* it reads who owes what, selects a batch and its buckets, and for each   *)
(* bucket creates the file if need be, inserts the rows, reads the id range*)
(* and writes it to _meta; last it deletes the moved rows from the live    *)
(* table, rechecking ownership.  A reader probes, lists the buckets, reads *)
(* them one by one and then the live table.  Other processes, sweeps of    *)
(* other subscribers among them, run between any two of these steps, and a *)
(* sweeper may die at each.                                                *)
(***************************************************************************)
EXTENDS EventStore, FiniteSets

CONSTANTS
  Sweepers,     \* processes that run the sweep
  Readers,      \* processes that call pollResolve()
  SweepBatch,   \* config.sweep_batch_size
  PageSize,     \* pollResolve()'s batchSize
  MonthLength,  \* hours in a month
  MaxSplit      \* bound: buckets of a month beyond the first

ASSUME TieredAssumption ==
  /\ SweepBatch \in Nat \ {0} /\ PageSize \in Nat \ {0}
  /\ MonthLength \in Nat \ {0}
  /\ MaxSplit \in Nat

VARIABLES
  bucket,   \* bucket[b]: a bucket file, its rows and what its _meta says
  job,      \* job[w]: the sweep in progress in process w
  page,     \* page[r]: the pollResolve() call in progress in process r
  read      \* read[r]: the last event id reader r was given

tiers == <<bucket, job, page, read>>
tieredVars == <<vars, tiers>>

Month(i) == log[i].emitted \div MonthLength
Months == 0 .. (MaxHour \div MonthLength)

\* Bucket files sort by name: by month, then by split suffix.
Buckets == Months \X (0 .. MaxSplit)
Before(b, c) == b[1] < c[1] \/ (b[1] = c[1] /\ b[2] < c[2])

\* file: "none", "bare" without its tables, or "ready"; min and max: the range in
\* _meta, 0 when it is not there; late: history, rows that another sweeper's range
\* was written over.
NoBucket == [file |-> "none", rows |-> {}, min |-> 0, max |-> 0, sealed |-> FALSE,
             late |-> {}]

Exists(b) == bucket[b].file # "none"
Warm == UNION {bucket[b].rows : b \in Buckets}
Late == UNION {bucket[b].late : b \in Buckets}

Least(S) == CHOOSE m \in S : \A i \in S : m <= i
Greatest(S) == CHOOSE m \in S : \A i \in S : m >= i

\* The first n of a set of ids (ORDER BY event_id LIMIT n).
FirstN(S, n) == {i \in S : Cardinality({j \in S : j < i}) < n}

-----------------------------------------------------------------------------
(* runSweepV2().                                                           *)

NoJob == [at |-> "idle", now |-> 0, owed |-> {}, batch |-> {}, plan |-> {}, moved |-> {},
          lo |-> 0, hi |-> 0]

ExpiredBy(now) == {i \in live : log[i].expires < now}

\* The pairs collectOwedExpired() finds.
OwedTo(s, now) ==
  {i \in ExpiredBy(now) :
     \/ ActiveConsumer(s) /\ i > pos[s] /\ Matches(s, i)
     \/ cursor[s] = "active" /\ attempts[s][i] > 0}
OwedPairs(now) == UNION {{s} \X OwedTo(s, now) : s \in Subs}

PastCap(i, now) == log[i].emitted < now - Cap

\* Owed rows that 'retain' keeps live.
Held(pairs, now) ==
  IF Policy = "retain" THEN {p[2] : p \in {q \in pairs : ~PastCap(q[2], now)}} ELSE {}

\* Step 1: who owes what.
ReadOwed(w) ==
  /\ job[w].at = "idle"
  /\ job' = [job EXCEPT ![w].at = IF OwedPairs(clock) = {} THEN "select" ELSE "drop",
                        ![w].now = clock, ![w].owed = OwedPairs(clock)]
  /\ UNCHANGED <<vars, bucket, page, read>>

\* Under 'discard' alone: what was owed is deleted and never reaches a bucket.
DropOwed(w) ==
  LET dropped == {p \in job[w].owed : Policy = "discard"} IN
  /\ job[w].at = "drop"
  /\ live' = live \ {p[2] : p \in dropped}
  /\ reported' = reported \cup {<<p[1], p[2], "discarded">> : p \in dropped}
  /\ job' = [job EXCEPT ![w].at = "select"]
  /\ UNCHANGED <<clock, log, released, archived, acceptedAt, emits, subscribers,
                 bucket, page, read>>

\* The oldest expired rows that are not held, a batch of them.
Candidates(w) ==
  LET held == Held(job[w].owed, job[w].now)
  IN  FirstN(FirstN(ExpiredBy(job[w].now), SweepBatch + Cardinality(held)) \ held,
             SweepBatch)

Splits(m) == {k \in 0 .. MaxSplit : Exists(<<m, k>>)}

\* chooseBucketForMonth(): the latest file of the month, or the next one when
\* it is sealed or has grown past bucket_max_bytes (full).
Latest(m) == <<m, Greatest(Splits(m))>>
TargetOf(m, full) ==
  IF Splits(m) = {} THEN <<m, 0>>
  ELSE IF bucket[Latest(m)].sealed \/ full THEN <<m, Latest(m)[2] + 1>> ELSE Latest(m)

\* Step 2: the batch and a bucket for each of its months; a file that is full, as one
\* with rows may be, is sealed before the next one is used.  Bound: MaxSplit.
SelectBatch(w) ==
  /\ job[w].at = "select"
  /\ \E full \in SUBSET {m \in {Month(i) : i \in Candidates(w)} :
                          Splits(m) # {} /\ bucket[Latest(m)].rows # {}} :
       LET plan == {TargetOf(m, m \in full) : m \in {Month(i) : i \in Candidates(w)}}
           outgrown == {Latest(m) : m \in full}
       IN  /\ plan \subseteq Buckets
           /\ bucket' = [b \in Buckets |->
                IF b \in outgrown THEN [bucket[b] EXCEPT !.sealed = TRUE] ELSE bucket[b]]
           /\ job' = [job EXCEPT ![w] =
                IF plan = {} THEN NoJob
                ELSE [@ EXCEPT !.at = "open", !.batch = Candidates(w), !.plan = plan]]
  /\ UNCHANGED <<vars, page, read>>

\* The rows of the batch that go to bucket b, and whether it is b's turn.
Group(w, b) == {i \in job[w].batch : Month(i) = b[1]}
Turn(w, b) ==
  /\ b \in job[w].plan
  /\ \E i \in Group(w, b) : \A j \in job[w].batch : i <= j

\* On to the next bucket, or to the delete when there is none.
AfterGroup(w, b) ==
  IF job[w].plan = {b} /\ job[w].moved = {} THEN NoJob
  ELSE [job[w] EXCEPT !.at = IF job[w].plan = {b} THEN "delete" ELSE "open",
                      !.lo = 0, !.hi = 0,
                      !.batch = @ \ Group(w, b), !.plan = @ \ {b}]

\* Step 3, insertBatchIntoBucket().  While an operator's command holds the bucket's
\* advisory lock, which nothing here knows before it looks, its rows are left for a
\* later sweep.
SkipLocked(w, b) ==
  /\ job[w].at = "open" /\ Turn(w, b)
  /\ job' = [job EXCEPT ![w] = AfterGroup(w, b)]
  /\ UNCHANGED <<vars, bucket, page, read>>

\* existsSync(), before the file is opened or created.
OpenBucket(w, b) ==
  /\ job[w].at = "open" /\ Turn(w, b)
  /\ job' = [job EXCEPT ![w].at = IF Exists(b) THEN "insert" ELSE "create"]
  /\ UNCHANGED <<vars, bucket, page, read>>

\* createBucket(): the file; its tables, all in one step here; and a first range, in
\* two commits, over any that another sweeper wrote since.
CreateFile(w, b) ==
  /\ job[w].at = "create" /\ Turn(w, b)
  /\ bucket' = [bucket EXCEPT ![b].file = IF @ = "none" THEN "bare" ELSE @]
  /\ job' = [job EXCEPT ![w].at = "tables"]
  /\ UNCHANGED <<vars, page, read>>

CreateTables(w, b) ==
  /\ job[w].at = "tables" /\ Turn(w, b)
  /\ bucket' = [bucket EXCEPT ![b].file = "ready"]
  /\ job' = [job EXCEPT ![w].at = "min"]
  /\ UNCHANGED <<vars, page, read>>

FirstMin(w, b) ==
  /\ job[w].at = "min" /\ Turn(w, b)
  /\ bucket' = [bucket EXCEPT ![b].min = Least(Group(w, b)), ![b].late = bucket[b].rows]
  /\ job' = [job EXCEPT ![w].at = "max"]
  /\ UNCHANGED <<vars, page, read>>

FirstMax(w, b) ==
  /\ job[w].at = "max" /\ Turn(w, b)
  /\ bucket' = [bucket EXCEPT ![b].max = Greatest(Group(w, b)), ![b].late = bucket[b].rows]
  /\ job' = [job EXCEPT ![w].at = "insert"]
  /\ UNCHANGED <<vars, page, read>>

\* Another sweeper has read the range of b and is to write it.
RangeInHand(w, b) == \E v \in Sweepers \ {w} : job[v].at = "range" /\ Turn(v, b)

\* Mutant: the live rows go before the bucket has them.
InsertRowsDeletingFirst(w, b) ==
  /\ job[w].at = "insert" /\ Turn(w, b)
  /\ live' = live \ Group(w, b)
  /\ job' = [job EXCEPT ![w].at = "rows"]
  /\ UNCHANGED <<clock, log, released, archived, acceptedAt, reported, emits, subscribers,
                 bucket, page, read>>

\* INSERT OR IGNORE of the whole group in one commit, sealed or not.
InsertRows(w, b) ==
  /\ job[w].at = "insert" /\ Turn(w, b) /\ bucket[b].file = "ready"
  /\ bucket' = [bucket EXCEPT ![b].rows = @ \cup Group(w, b),
       ![b].late = IF RangeInHand(w, b) THEN @ \cup (Group(w, b) \ bucket[b].rows) ELSE @]
  /\ job' = [job EXCEPT ![w].at = "rows", ![w].moved = @ \cup Group(w, b)]
  /\ UNCHANGED <<vars, page, read>>

\* The range the bucket holds now is read, and then written to _meta.
ReadRange(w, b) ==
  /\ job[w].at = "rows" /\ Turn(w, b)
  /\ job' = [job EXCEPT ![w].lo = Least(bucket[b].rows),
                        ![w].hi = Greatest(bucket[b].rows), ![w].at = "range"]
  /\ UNCHANGED <<vars, bucket, page, read>>

\* Mutant: only the upper end of the range is maintained.
WriteRangeMaxOnly(w, b) ==
  /\ job[w].at = "range" /\ Turn(w, b)
  /\ bucket' = [bucket EXCEPT ![b].max = job[w].hi]
  /\ job' = [job EXCEPT ![w] = AfterGroup(w, b)]
  /\ UNCHANGED <<vars, page, read>>

WriteRange(w, b) ==
  /\ job[w].at = "range" /\ Turn(w, b)
  /\ bucket' = [bucket EXCEPT ![b].min = job[w].lo, ![b].max = job[w].hi]
  /\ job' = [job EXCEPT ![w] = AfterGroup(w, b)]
  /\ UNCHANGED <<vars, page, read>>

\* The owed pairs the delete transaction sees, which only 'retain' asks for.
SeenAtDelete(w) ==
  {p \in OwedPairs(job[w].now) : Policy = "retain" /\ p[2] \in job[w].moved}

\* Rows that gained an owner since step 1 stay live.
KeptAtDelete(w) == {p[2] : p \in {q \in SeenAtDelete(w) : ~PastCap(q[2], job[w].now)}}

\* Mutant: owners that came after step 1 are not named.
NamedStepOne(w) ==
  {p \in job[w].owed : p[2] \in job[w].moved
                       /\ (Policy = "archive" \/ PastCap(p[2], job[w].now))}

\* The pairs a report names as archived: those of step 1, and under 'retain'
\* the owners of over-cap rows that appeared since.
Named(w) ==
  {p \in job[w].owed \cup SeenAtDelete(w) :
     /\ p[2] \in job[w].moved
     /\ Policy = "archive" \/ PastCap(p[2], job[w].now)
     /\ Policy # "discard"}

\* Step 4: one transaction on the live table, and the report.
DeleteMoved(w) ==
  /\ job[w].at = "delete"
  /\ live' = live \ (job[w].moved \ KeptAtDelete(w))
  /\ reported' = reported \cup {<<p[1], p[2], "archived">> : p \in Named(w)}
  /\ job' = [job EXCEPT ![w] = NoJob]
  /\ UNCHANGED <<clock, log, released, archived, acceptedAt, emits, subscribers,
                 bucket, page, read>>

\* The process dies, or an exception ends the sweep, as the insert into a file
\* without tables does; the next sweep starts over.
Crash(w) ==
  /\ job[w].at # "idle"
  /\ job' = [job EXCEPT ![w] = NoJob]
  /\ UNCHANGED <<vars, bucket, page, read>>

-----------------------------------------------------------------------------
(* pollResolve(): the reader's position is the last id it was given.       *)

\* known: history, the ids that had left the live tier when the call began.
NoPage == [at |-> "idle", minLive |-> 0, todo |-> {}, rows |-> {}, count |-> 0, known |-> {}]

\* MIN(event_id) of the live tier, 0 when it is empty.
OldestLive == IF live = {} THEN 0 ELSE Least(live)

\* Mutant: the oldest live row is taken for one the reader already has.
ProbeBefore(r) ==
  /\ page[r].at = "idle"
  /\ page' = [page EXCEPT ![r] = [NoPage EXCEPT
       !.at = IF live # {} /\ read[r] >= OldestLive THEN "live" ELSE "list",
       !.minLive = OldestLive - 1, !.known = Ids \ live]]
  /\ UNCHANGED <<vars, bucket, job, read>>

\* Step 1.
Probe(r) ==
  /\ page[r].at = "idle"
  /\ page' = [page EXCEPT ![r] = [NoPage EXCEPT
       !.at = IF live # {} /\ read[r] >= OldestLive THEN "live" ELSE "list",
       !.minLive = OldestLive, !.known = Ids \ live]]
  /\ UNCHANGED <<vars, bucket, job, read>>

\* bucketsCoveringRange(): an unsealed bucket may still grow; one that has no range
\* is empty, and one that cannot be read is for the reader to find out.
Covers(b, from, to) ==
  \/ bucket[b].file = "bare"
  \/ /\ bucket[b].min \in 1 .. to
     /\ bucket[b].sealed /\ bucket[b].max # 0 => bucket[b].max >= from

\* Mutant: an empty live tier is taken for one that starts at 0.
GapEmptyLive(r) == {b \in Buckets : Covers(b, read[r], page[r].minLive - 1)}

\* Step 3: the buckets of the gap, up to the oldest live row or without end.
Gap(r) ==
  {b \in Buckets :
     Covers(b, read[r], IF page[r].minLive = 0 THEN MaxEvents ELSE page[r].minLive - 1)}

\* With neither a bucket nor a live row the page is empty; a gap that no bucket
\* covers is WB-003.
ListBuckets(r) ==
  /\ page[r].at = "list"
  /\ page' = [page EXCEPT ![r] =
       IF Gap(r) = {} /\ (page[r].minLive = 0 \/ read[r] + 1 < page[r].minLive) THEN NoPage
       ELSE [@ EXCEPT !.at = "warm", !.todo = Gap(r)]]
  /\ UNCHANGED <<vars, bucket, job, read>>

\* Mutant: only the first bucket of the gap is opened.
ReadBucketOnce(r) ==
  LET b == CHOOSE c \in page[r].todo : \A d \in page[r].todo \ {c} : Before(c, d)
      rows == FirstN({i \in bucket[b].rows : i > read[r]}, PageSize - page[r].count) IN
  /\ page[r].at = "warm" /\ page[r].todo # {} /\ page[r].count < PageSize
  /\ page' = [page EXCEPT ![r].todo = {}, ![r].rows = rows, ![r].count = Cardinality(rows)]
  /\ UNCHANGED <<vars, bucket, job, read>>

\* Step 4: the next bucket in name order, as long as the page has room (a row two
\* buckets hold counts twice).  A bucket that cannot be attached is WB-013, and
\* the call ends.
ReadBucket(r) ==
  LET b == CHOOSE c \in page[r].todo : \A d \in page[r].todo \ {c} : Before(c, d)
      rows == FirstN({i \in bucket[b].rows : i > read[r]}, PageSize - page[r].count) IN
  /\ page[r].at = "warm" /\ page[r].todo # {} /\ page[r].count < PageSize
  /\ \/ page' = [page EXCEPT ![r] = NoPage]
     \/ /\ bucket[b].file = "ready"
        /\ page' = [page EXCEPT ![r].todo = @ \ {b}, ![r].rows = @ \cup rows,
                               ![r].count = @ + Cardinality(rows)]
  /\ UNCHANGED <<vars, bucket, job, read>>

Return(r, rows) ==
  /\ read' = [read EXCEPT ![r] = IF rows = {} THEN @ ELSE Greatest(rows)]
  /\ page' = [page EXCEPT ![r] = NoPage]
  /\ UNCHANGED <<vars, bucket, job>>

LiveAfter(r) == {i \in live : i > read[r]}

\* Step 2: the fast path, when the position is not before the oldest live row.
FastRows(r) == FirstN(LiveAfter(r), PageSize)
FastPage(r) == page[r].at = "live" /\ Return(r, FastRows(r))

\* Steps 5 and 6: live rows if the warm ones leave room, dedupe, sort, cut.
SpillRows(r) ==
  FirstN(page[r].rows \cup
           (IF page[r].count < PageSize THEN FirstN(LiveAfter(r), PageSize) ELSE {}),
         PageSize)

SpillPage(r) ==
  /\ page[r].at = "warm"
  /\ page[r].todo = {} \/ page[r].count >= PageSize
  /\ Return(r, SpillRows(r))

-----------------------------------------------------------------------------
TieredInit ==
  /\ Init
  /\ bucket = [b \in Buckets |-> NoBucket]
  /\ job = [w \in Sweepers |-> NoJob]
  /\ page = [r \in Readers |-> NoPage]
  /\ read = [r \in Readers |-> 0]

RunSweepV2(w) ==
  \/ ReadOwed(w) \/ DropOwed(w) \/ SelectBatch(w)
  \/ \E b \in job[w].plan :
       \/ SkipLocked(w, b) \/ OpenBucket(w, b)
       \/ CreateFile(w, b) \/ CreateTables(w, b) \/ FirstMin(w, b) \/ FirstMax(w, b)
       \/ InsertRows(w, b) \/ ReadRange(w, b) \/ WriteRange(w, b)
  \/ DeleteMoved(w)

PollResolve(r) ==
  \/ Probe(r) \/ ListBuckets(r) \/ ReadBucket(r) \/ FastPage(r) \/ SpillPage(r)

\* The rest of the library, which knows nothing of the warm tier.
Library ==
  \/ \E p \in Producers : Emit(p)
  \/ \E s \in Subs : Register(s) \/ Deregister(s) \/ \E n \in Ids : Ack(s, n)
  \/ Tick

TieredNext ==
  \/ Library /\ UNCHANGED tiers
  \/ \E w \in Sweepers : RunSweepV2(w) \/ Crash(w)
  \/ \E r \in Readers : PollResolve(r)

TieredSpec == TieredInit /\ [][TieredNext]_tieredVars

-----------------------------------------------------------------------------
TieredTypeOK ==
  /\ TypeOK
  /\ bucket \in [Buckets ->
       [file : {"none", "bare", "ready"}, rows : SUBSET Ids, min : Nat, max : Nat,
        sealed : BOOLEAN, late : SUBSET Ids]]
  /\ job \in [Sweepers ->
       [at : {"idle", "drop", "select", "open", "create", "tables", "min", "max",
              "insert", "rows", "range", "delete"},
        now : Nat, owed : SUBSET (Subs \X Ids), batch : SUBSET Ids, plan : SUBSET Buckets,
        moved : SUBSET Ids, lo : Nat, hi : Nat]]
  /\ page \in [Readers ->
       [at : {"idle", "live", "list", "warm"}, minLive : Nat, todo : SUBSET Buckets,
        rows : SUBSET Ids, count : Nat, known : SUBSET Ids]]
  /\ read \in [Readers -> Nat]

(* DESIGN-v2 5.1, Decision 9: no accepted event is ever outside both tiers, *)
(* whichever sweeper dies where, with several of them at work.             *)
InSomeTier == Policy # "discard" => Ids \subseteq live \cup Warm

(* DESIGN-v2 5.4: whatever left the live tier is in a bucket whose range in *)
(* _meta contains it, so that a reader that needs it opens that bucket.    *)
(* Sweepers hold no lock (DESIGN-v2 14.1, T12: one worker owns a bucket),  *)
(* so rows that came between another's read of the range and its write, or *)
(* before another one created the same file again, are excepted.           *)
FoundByRange ==
  Policy # "discard" =>
    \A i \in Ids \ (live \cup Late) : \E b \in Buckets : i \in bucket[b].rows /\ Covers(b, i, i)

(* lib/sweep-v2.js "a cursor registered since step 1 keeps its rows live":  *)
(* under 'retain' an event somebody has a claim to leaves the live tier    *)
(* only past the cap, for a bucket, and named in a report for that cursor. *)
OwedLeavesNamed ==
  Policy = "retain" =>
    \A s \in Subs : \A i \in due[s] \ live :
      i \in Warm /\ OverCap(i) /\ <<s, i, "archived">> \in reported

(* DESIGN-v2 5.4 "Routine sweep-driven catchup never raises WB-003" and     *)
(* "the subscriber never silently stalls": a call that finds no bucket to  *)
(* open is not missing an event that had left the live tier before it and  *)
(* is older than every live row, but for the late ones of FoundByRange.    *)
(* (It may miss one between two live rows: the gap ends below the oldest.) *)
NeverTurnedAway ==
  Policy # "discard" =>
    \A r \in Readers :
      page[r].at = "list" /\ Gap(r) = {} =>
        \A i \in page[r].known \ Late : i <= read[r] \/ page[r].minLive \in 1 .. i

(* What is left of "no event is lost" (DESIGN-v2 5.3): a page that was not *)
(* filled contains every event beyond the position that had left the live *)
(* tier when the call began and is older than every live row, but for the  *)
(* late ones of FoundByRange.                                              *)
UnfilledPageHasNoGap ==
  [][Policy # "discard" =>
       \A r \in Readers :
         SpillPage(r) /\ page[r].count < PageSize =>
           \A i \in page[r].known \ Late :
             i <= read[r] \/ page[r].minLive \in 1 .. i \/ i \in SpillRows(r)]_tieredVars

(* DESIGN-v2 5.3 "no event is lost": a page that moves the reader past an  *)
(* event contains it, at least when no sweep is at work and nothing entered *)
(* or left the live tier during the call.                                  *)
NothingSkipped ==
  [][\A r \in Readers : \A i \in Ids :
       /\ read[r] < i /\ i <= read'[r]
       /\ \A w \in Sweepers : job[w].at = "idle"
       /\ page[r].known = Ids \ live /\ page[r].minLive = OldestLive
       => i \in IF page[r].at = "live" THEN FastRows(r) ELSE SpillRows(r)]_tieredVars
=============================================================================
