-------------------------- MODULE TieredSweep_proofs --------------------------
(***************************************************************************)
(* Theorems about TieredSweep, for every number of sweepers and readers,   *)
(* batch and page sizes and calendars.                                     *)
(***************************************************************************)
EXTENDS TieredSweep, EventStore_proofs, FiniteSetTheorems

(* Files, sweeps and calls, whatever ids have been given out so far.       *)
File ==
  [file : {"none", "bare", "ready"}, rows : SUBSET Nat, min : Nat, max : Nat,
   sealed : BOOLEAN, late : SUBSET Nat]

JobLabels ==
  {"idle", "drop", "select", "open", "create", "tables", "min", "max", "insert", "rows",
   "range", "delete"}
Job ==
  [at : JobLabels, now : Nat, owed : SUBSET (Subs \X Nat), batch : SUBSET Nat,
   plan : SUBSET Buckets, moved : SUBSET Nat, lo : Nat, hi : Nat]

CallLabels == {"idle", "live", "list", "warm"}
Call ==
  [at : CallLabels, minLive : Nat, todo : SUBSET Buckets, rows : SUBSET Nat,
   count : Nat, known : SUBSET Nat]

Shaped ==
  /\ bucket \in [Buckets -> File]
  /\ job \in [Sweepers -> Job]
  /\ page \in [Readers -> Call]
  /\ read \in [Readers -> Nat]

(* The rows of sweep j that go to bucket b, and whether it is b's turn.    *)
GroupOf(j, b) == {i \in j.batch : Month(i) = b[1]}
TurnOf(j, b) == b \in j.plan /\ \E i \in GroupOf(j, b) : \A k \in j.batch : i <= k

(* A sweep moves expired rows only, has one bucket for a month, and notes  *)
(* a row as moved when a bucket has it; only the rows of the bucket whose  *)
(* turn it is are both moved and still in the batch.                       *)
JobOK(j) ==
  /\ j.now <= clock
  /\ j.owed \subseteq Subs \X Ids
  /\ \A i \in j.batch \cup j.moved : i \in Ids /\ log[i].expires < j.now
  /\ \A b, c \in j.plan : b[1] = c[1] => b = c
  /\ j.at \in {"idle", "drop", "select"} => j.batch = {} /\ j.moved = {} /\ j.plan = {}
  /\ j.moved \subseteq Warm
  /\ IF j.at \in {"rows", "range"}
     THEN \A b \in Buckets : TurnOf(j, b) =>
            j.moved \cap j.batch \subseteq GroupOf(j, b) /\ GroupOf(j, b) \subseteq bucket[b].rows
     ELSE j.moved \cap j.batch = {}

(* A call knows ids that left the live tier before it began; what is live  *)
(* now is not older than the oldest live row it saw, or newer than what it *)
(* knows.                                                                  *)
CallOK(p) ==
  /\ p.rows \subseteq Ids /\ p.known \subseteq Ids \ live
  /\ Cardinality(p.rows) <= p.count
  /\ p.minLive <= Len(log)
  /\ \A i \in p.known, k \in live : IF p.minLive = 0 THEN i < k ELSE p.minLive <= k

TierInv ==
  /\ Typed /\ Claims /\ Len(log) <= MaxEvents
  /\ Shaped
  /\ \A b \in Buckets : bucket[b].rows \subseteq Ids /\ bucket[b].late \subseteq bucket[b].rows
  /\ \A w \in Sweepers : JobOK(job[w])
  /\ \A r \in Readers : CallOK(page[r])
  /\ InSomeTier /\ OwedLeavesNamed

--------------------------------------------------------------------------------
(* The operators of the model.                                             *)
LEMMA IdFacts ==
  ASSUME Typed
  PROVE  /\ Ids = 1 .. Len(log) /\ Len(log) \in Nat /\ live \subseteq Ids /\ Ids \subseteq Nat
         /\ IsFiniteSet(Ids) /\ clock \in Nat
         /\ \A i : i \in Ids => i \in Nat /\ i >= 1 /\ i <= Len(log)
  <1>1. /\ Ids = 1 .. Len(log) /\ Len(log) \in Nat /\ live \subseteq Ids /\ clock \in Nat
    BY DEF Typed, TypeOK, Ids
  <1>2. IsFiniteSet(1 .. Len(log))
    BY <1>1, FS_Interval
  <1> QED
    BY <1>1, <1>2

LEMMA LeastIn ==
  ASSUME NEW S, S \subseteq Nat, S # {}
  PROVE  Least(S) \in S /\ \A i \in S : Least(S) <= i
  <1>1. PICK m \in S : \A i \in S : m <= i
    BY LeastExists
  <1> QED
    BY <1>1 DEF Least

LEMMA GreatestIn ==
  ASSUME NEW S, S \subseteq Nat, S # {}, NEW n \in Nat, \A i \in S : i <= n
  PROVE  Greatest(S) \in S /\ \A i \in S : Greatest(S) >= i
  <1>1. PICK m \in S : \A i \in S : m >= i
    BY GreatestExists
  <1> QED
    BY <1>1 DEF Greatest

LEMMA RangeTyped ==
  ASSUME Typed, NEW S, S \subseteq Ids, S # {}
  PROVE  /\ Least(S) \in Nat /\ Greatest(S) \in Nat /\ Least(S) # 0
         /\ \A i \in S : Least(S) <= i /\ i <= Greatest(S)
  <1>1. /\ S \subseteq Nat /\ Len(log) \in Nat /\ \A i \in S : i <= Len(log) /\ i >= 1
    BY IdFacts
  <1>2. Least(S) \in S /\ \A i \in S : Least(S) <= i
    BY <1>1, LeastIn
  <1>3. Greatest(S) \in S /\ \A i \in S : Greatest(S) >= i
    BY <1>1, GreatestIn
  <1>4. Least(S) \in Nat /\ Greatest(S) \in Nat /\ Least(S) >= 1
    BY <1>1, <1>2, <1>3
  <1>5. \A i \in S : i <= Greatest(S)
    <2> SUFFICES ASSUME NEW i \in S PROVE i <= Greatest(S)
      OBVIOUS
    <2>1. Greatest(S) >= i /\ i \in Nat
      BY <1>1, <1>3
    <2> QED
      BY <1>4, <2>1
  <1>6. Least(S) # 0
    BY <1>4
  <1> QED
    BY <1>2, <1>4, <1>5, <1>6

(* FirstN takes rows only, at most n of them, and all of them when it does *)
(* not fill up.                                                            *)
LEMMA FirstSubset == ASSUME NEW S, NEW n PROVE FirstN(S, n) \subseteq S
  BY DEF FirstN

LEMMA FirstIsPrefix ==
  ASSUME NEW S, S \subseteq Nat, IsFiniteSet(S), NEW n \in Int, NEW k \in FirstN(S, n),
         NEW i \in S, i <= k
  PROVE  i \in FirstN(S, n)
  <1> DEFINE Below(x) == {j \in S : j < x}
  <1>1. Cardinality(Below(k)) < n /\ k \in S
    BY DEF FirstN
  <1>2. Below(i) \subseteq Below(k)
    <2> SUFFICES ASSUME NEW h \in S, h < i PROVE h < k
      OBVIOUS
    <2>1. h \in Nat /\ i \in Nat /\ k \in Nat
      BY <1>1
    <2> QED
      BY <2>1
  <1>3. IsFiniteSet(Below(k))
    BY FS_Subset
  <1>4. /\ Cardinality(Below(i)) <= Cardinality(Below(k))
        /\ Cardinality(Below(i)) \in Nat /\ Cardinality(Below(k)) \in Nat
    BY <1>2, <1>3, FS_Subset, FS_CardinalityType
  <1>5. Cardinality(Below(i)) < n
    BY <1>1, <1>4
  <1> QED
    BY <1>5 DEF FirstN

LEMMA FirstNotFull ==
  ASSUME NEW S, S \subseteq Nat, IsFiniteSet(S), NEW n \in Int,
         Cardinality(FirstN(S, n)) < n
  PROVE  FirstN(S, n) = S
  <1> SUFFICES ASSUME S \ FirstN(S, n) # {} PROVE FALSE
    BY FirstSubset
  <1> DEFINE Rest == S \ FirstN(S, n)
             Below(x) == {j \in S : j < x}
  <1>1. PICK m \in Rest : \A i \in Rest : m <= i
    <2>1. Rest \subseteq Nat
      OBVIOUS
    <2> QED
      BY <2>1, LeastExists
  <1>2. Below(m) \subseteq FirstN(S, n)
    <2> SUFFICES ASSUME NEW h \in S, h < m, h \notin FirstN(S, n) PROVE FALSE
      OBVIOUS
    <2>1. m <= h
      BY <1>1
    <2>2. h \in Nat /\ m \in Nat
      BY <1>1
    <2> QED
      BY <2>1, <2>2
  <1>3. IsFiniteSet(FirstN(S, n))
    BY FirstSubset, FS_Subset
  <1>4. /\ Cardinality(Below(m)) <= Cardinality(FirstN(S, n))
        /\ Cardinality(Below(m)) \in Nat /\ Cardinality(FirstN(S, n)) \in Nat
    BY <1>2, <1>3, FS_Subset, FS_CardinalityType
  <1>5. ~(Cardinality(Below(m)) < n)
    BY <1>1 DEF FirstN
  <1> QED
    BY <1>4, <1>5

(* Buckets sort by name, so a set of them has a first one.                 *)
LEMMA NextBucket ==
  ASSUME NEW S, S \subseteq Buckets, S # {}
  PROVE  (CHOOSE c \in S : \A d \in S \ {c} : Before(c, d)) \in S
  <1> DEFINE Firsts == {b[1] : b \in S}
  <1>1. \A b \in S : b = <<b[1], b[2]>> /\ b[1] \in Nat /\ b[2] \in Nat
    BY DEF Buckets, Months
  <1>2. PICK m \in Firsts : \A k \in Firsts : m <= k
    <2>1. Firsts \subseteq Nat /\ Firsts # {}
      BY <1>1
    <2> QED
      BY <2>1, LeastExists
  <1> DEFINE Seconds == {b[2] : b \in {c \in S : c[1] = m}}
  <1>3. PICK n \in Seconds : \A k \in Seconds : n <= k
    <2>1. Seconds \subseteq Nat /\ Seconds # {}
      BY <1>1, <1>2
    <2> QED
      BY <2>1, LeastExists
  <1>4. PICK c \in S : c[1] = m /\ c[2] = n
    BY <1>3
  <1>5. ASSUME NEW d \in S \ {c} PROVE Before(c, d)
    <2>1. d[1] \in Nat /\ d[2] \in Nat /\ m \in Nat /\ n \in Nat
      BY <1>1, <1>4, <1>5
    <2>2. m <= d[1]
      BY <1>2, <1>5
    <2>3. CASE d[1] = m
      <3>1. n <= d[2]
        BY <1>3, <1>5, <2>3
      <3>2. d[2] # n
        BY <1>1, <1>4, <1>5, <2>3
      <3> QED
        BY <1>4, <2>1, <2>3, <3>1, <3>2 DEF Before
    <2>4. CASE d[1] # m
      BY <1>4, <2>1, <2>2, <2>4 DEF Before
    <2> QED
      BY <2>3, <2>4
  <1> QED
    BY <1>5

--------------------------------------------------------------------------------
(* What a step of one process leaves as it was for the others.             *)
LEMMA JobStays ==
  ASSUME NEW j \in Job, JobOK(j),
         clock \in Nat, clock' \in Nat, clock <= clock',
         Ids \subseteq Ids', \A i \in Ids : log'[i] = log[i],
         \A b \in Buckets : bucket[b].rows \subseteq bucket'[b].rows
  PROVE  JobOK(j)'
  <1>1. j.batch \subseteq Ids /\ j.now \in Nat
    BY DEF JobOK, Job
  <1>2. \A b \in Buckets : GroupOf(j, b)' = GroupOf(j, b)
    BY <1>1 DEF GroupOf, Month
  <1>3. \A b \in Buckets : TurnOf(j, b)' <=> TurnOf(j, b)
    BY <1>2 DEF TurnOf
  <1>4. Warm \subseteq Warm'
    BY DEF Warm
  <1>5. j.now <= clock'
    BY <1>1 DEF JobOK
  <1>6. \A i \in j.batch \cup j.moved : i \in Ids' /\ log'[i].expires < j.now
    BY DEF JobOK
  <1>7. IF j.at \in {"rows", "range"}
        THEN \A b \in Buckets : TurnOf(j, b)' =>
               /\ j.moved \cap j.batch \subseteq GroupOf(j, b)'
               /\ GroupOf(j, b)' \subseteq bucket'[b].rows
        ELSE j.moved \cap j.batch = {}
    BY <1>2, <1>3 DEF JobOK
  <1>8. /\ j.owed \subseteq Subs \X Ids'
        /\ \A b, c \in j.plan : b[1] = c[1] => b = c
        /\ j.at \in {"idle", "drop", "select"} => j.batch = {} /\ j.moved = {} /\ j.plan = {}
        /\ j.moved \subseteq Warm'
    BY <1>4 DEF JobOK
  <1> QED
    BY <1>5, <1>6, <1>7, <1>8 DEF JobOK

LEMMA CallStays ==
  ASSUME NEW p \in Call, CallOK(p), Typed, Typed', Ids \subseteq Ids',
         live' \subseteq live \cup (Ids' \ Ids)
  PROVE  CallOK(p)'
  <1>1. /\ Ids = 1 .. Len(log) /\ Ids' = 1 .. Len(log')
        /\ Len(log) \in Nat /\ Len(log') \in Nat /\ live \subseteq Ids
    BY DEF Typed, TypeOK, Ids
  <1>2. p.known \subseteq Ids /\ p.minLive \in Nat /\ p.minLive <= Len(log)
    BY DEF CallOK, Call
  <1>3. Len(log) <= Len(log')
    <2>1. CASE Len(log) = 0
      BY <1>1, <2>1
    <2>2. CASE Len(log) # 0
      <3>1. Len(log) \in Ids
        BY <1>1, <2>2
      <3> QED
        BY <1>1, <3>1
    <2> QED
      BY <2>1, <2>2
  <1>4. ASSUME NEW i \in p.known, NEW k \in live'
        PROVE  IF p.minLive = 0 THEN i < k ELSE p.minLive <= k
    <2>1. CASE k \in live
      BY <2>1 DEF CallOK
    <2>2. CASE k \notin live
      <3>1. k \in Ids' \ Ids
        BY <2>2
      <3>2. k \in Nat /\ k > Len(log) /\ i \in Nat /\ i <= Len(log)
        BY <1>1, <1>2, <3>1
      <3> QED
        BY <1>1, <1>2, <3>2
    <2> QED
      BY <2>1, <2>2
  <1>5. p.known \subseteq Ids' \ live' /\ p.rows \subseteq Ids'
    BY DEF CallOK
  <1>6. p.minLive <= Len(log')
    BY <1>1, <1>2, <1>3
  <1> QED
    BY <1>4, <1>5, <1>6 DEF CallOK

(* A sweeper's step, which leaves the tables alone but for what it deletes *)
(* and reports.                                                            *)
OthersOfSweep ==
  <<clock, log, released, archived, acceptedAt, emits, subscribers, page, read>>

LEMMA SweeperKeeps ==
  ASSUME NEW w \in Sweepers, NEW j \in Job, TierInv, UNCHANGED OthersOfSweep,
         job' = [job EXCEPT ![w] = j], JobOK(j)',
         bucket' \in [Buckets -> File],
         \A b \in Buckets :
           /\ bucket[b].rows \subseteq bucket'[b].rows /\ bucket'[b].rows \subseteq Ids
           /\ bucket'[b].late \subseteq bucket'[b].rows,
         Typed', live' \subseteq live, InSomeTier', OwedLeavesNamed'
  PROVE  TierInv'
  <1>1. /\ job \in [Sweepers -> Job] /\ page \in [Readers -> Call]
        /\ read \in [Readers -> Nat]
        /\ \A v \in Sweepers : JobOK(job[v])
        /\ \A r \in Readers : CallOK(page[r])
        /\ clock \in Nat /\ Typed
    BY DEF TierInv, Shaped, Typed, TypeOK
  <1>2. /\ clock' = clock /\ log' = log /\ page' = page /\ read' = read /\ Ids' = Ids
        /\ due' = due /\ cursor' = cursor /\ sub' = sub /\ pos' = pos
    BY DEF OthersOfSweep, subscribers, Ids
  <1>3. ASSUME NEW v \in Sweepers PROVE JobOK(job[v])'
    <2>1. CASE v = w
      BY <1>1, <2>1
    <2>2. CASE v # w
      <3>1. PICK i \in Job : i = job[v]
        BY <1>1
      <3>2. job'[v] = i
        BY <1>1, <2>2, <3>1
      <3>3. JobOK(i)
        BY <1>1, <3>1
      <3>4. JobOK(i)'
        BY <1>1, <1>2, <3>3, JobStays
      <3> QED
        BY <3>2, <3>4
    <2> QED
      BY <2>1, <2>2
  <1>4. ASSUME NEW r \in Readers PROVE CallOK(page[r])'
    <2>1. PICK p \in Call : p = page[r]
      BY <1>1
    <2>2. CallOK(p)
      BY <1>1, <2>1
    <2>3. CallOK(p)'
      BY <1>1, <1>2, <2>2, CallStays
    <2> QED
      BY <1>2, <2>1, <2>3
  <1>5. Claims'
    BY <1>2 DEF TierInv, Claims, ActiveConsumer, Matches
  <1>6. Shaped'
    BY <1>1, <1>2 DEF Shaped
  <1> QED
    BY <1>2, <1>3, <1>4, <1>5, <1>6 DEF TierInv

(* As long as it deletes nothing, what the tables promise holds on.        *)
LEMMA TablesStay ==
  ASSUME TierInv, UNCHANGED vars,
         \A b \in Buckets : bucket[b].rows \subseteq bucket'[b].rows
  PROVE  Typed' /\ live' \subseteq live /\ InSomeTier' /\ OwedLeavesNamed'
  <1>1. Typed'
    BY TypedNext DEF TierInv
  <1>2. UNCHANGED <<clock, log, live, reported, due>> /\ Ids' = Ids
    BY DEF vars, tables, subscribers, Ids
  <1>3. Warm \subseteq Warm'
    BY DEF Warm
  <1>4. InSomeTier'
    BY <1>2, <1>3 DEF TierInv, InSomeTier
  <1>5. OwedLeavesNamed'
    BY <1>2, <1>3 DEF TierInv, OwedLeavesNamed, OverCap
  <1> QED
    BY <1>1, <1>2, <1>4, <1>5

LEMMA ReaderKeeps ==
  ASSUME NEW r \in Readers, NEW p \in Call, TierInv, UNCHANGED <<vars, bucket, job>>,
         page' = [page EXCEPT ![r] = p], CallOK(p), read' \in [Readers -> Nat]
  PROVE  TierInv'
  <1>1. /\ job \in [Sweepers -> Job] /\ page \in [Readers -> Call]
        /\ bucket \in [Buckets -> File]
        /\ \A v \in Sweepers : JobOK(job[v])
        /\ \A c \in Readers : CallOK(page[c])
        /\ clock \in Nat /\ Typed /\ Claims
    BY DEF TierInv, Shaped, Typed, TypeOK
  <1>2. Typed' /\ InSomeTier' /\ OwedLeavesNamed'
    BY TablesStay
  <1>3. /\ UNCHANGED <<clock, log, live, due, cursor, sub, pos, bucket, job>> /\ Ids' = Ids
    BY DEF vars, tables, subscribers, Ids
  <1>4. ASSUME NEW v \in Sweepers PROVE JobOK(job[v])'
    <2>1. PICK i \in Job : i = job[v]
      BY <1>1
    <2>2. JobOK(i)
      BY <1>1, <2>1
    <2>3. JobOK(i)'
      BY <1>1, <1>3, <2>2, JobStays
    <2> QED
      BY <1>3, <2>1, <2>3
  <1>5. ASSUME NEW c \in Readers PROVE CallOK(page[c])'
    <2>1. PICK q \in Call : q = page'[c] /\ CallOK(q)
      BY <1>1
    <2>2. CallOK(q)'
      BY <1>1, <1>2, <1>3, <2>1, CallStays
    <2> QED
      BY <2>1, <2>2
  <1>6. Claims'
    BY <1>1, <1>3 DEF Claims, ActiveConsumer, Matches
  <1>7. Shaped'
    BY <1>1, <1>3 DEF Shaped
  <1> QED
    BY <1>2, <1>3, <1>4, <1>5, <1>6, <1>7 DEF TierInv

--------------------------------------------------------------------------------
(* The rest of the library, and the steps that change nothing.             *)
LEMMA LibrarySteps ==
  ASSUME Typed, Claims, Len(log) <= MaxEvents, Library \/ UNCHANGED vars
  PROVE  /\ Typed' /\ Claims' /\ Len(log') <= MaxEvents
         /\ clock <= clock' /\ reported' = reported
         /\ Ids \subseteq Ids' /\ \A i \in Ids : log'[i] = log[i]
         /\ live \subseteq live' /\ live' \subseteq live \cup (Ids' \ Ids)
         /\ Ids' \ Ids \subseteq live'
         /\ \A s \in Subs : due'[s] \subseteq due[s] \cup live'
  <1>1. clock \in Nat /\ TypeOK /\ Len(log) \in Nat
    BY DEF Typed, TypeOK
  <1> DEFINE Goal ==
        /\ Typed' /\ Claims' /\ Len(log') <= MaxEvents
        /\ clock <= clock' /\ reported' = reported
        /\ Ids \subseteq Ids' /\ \A i \in Ids : log'[i] = log[i]
        /\ live \subseteq live' /\ live' \subseteq live \cup (Ids' \ Ids)
        /\ Ids' \ Ids \subseteq live'
        /\ \A s \in Subs : due'[s] \subseteq due[s] \cup live'
  <1>2. ASSUME UNCHANGED <<clock, tables>>, Typed', Claims',
               \A s \in Subs : due'[s] \subseteq due[s] \cup live
        PROVE  Goal
    BY <1>1, <1>2 DEF tables, Ids
  <1>3. ASSUME NEW p \in Producers, Emit(p) PROVE Goal
    <2>1. Typed'
      BY <1>3, TypedEmit
    <2>2. ASSUME NEW row \in Row, AcceptRow(row) PROVE Goal
      <3>1. /\ Ids' = Ids \cup {Len(log) + 1} /\ Len(log) + 1 \notin Ids
            /\ \A i \in Ids : log'[i] = log[i]
            /\ Len(log') = Len(log) + 1
        BY <1>1, <2>2, RowExtendsLog
      <3>2. /\ Claims' /\ live' = live \cup {Len(log) + 1}
            /\ \A s \in Subs : due'[s] \subseteq due[s] \cup live'
        BY <2>2, ClaimsRow
      <3>3. clock' = clock /\ reported' = reported /\ Len(log) < MaxEvents
        BY <2>2 DEF AcceptRow
      <3>4. Len(log') <= MaxEvents /\ clock <= clock'
        BY <1>1, <3>1, <3>3, StoreAssumption
      <3> QED
        BY <2>1, <3>1, <3>2, <3>3, <3>4
    <2>3. ASSUME draft[p] \in Row, Accept(p) PROVE Goal
      <3>1. PICK row \in Row : row = draft[p]
        BY <2>3
      <3>2. AcceptRow(row)
        BY <2>3, <3>1 DEF Accept
      <3> QED
        BY <2>2, <3>2
    <2>4. ASSUME UNCHANGED <<clock, tables, subscribers>> PROVE Goal
      <3>1. Claims' /\ due' = due
        BY <2>4 DEF Claims, ActiveConsumer, Matches, tables, subscribers
      <3> QED
        BY <1>2, <2>1, <2>4, <3>1
    <2> HIDE DEF Goal
    <2>5. ASSUME NEW t \in Types, NEW k \in Keys \cup {NoKey}, NEW ttl \in Ttls,
                 EmitBegin(p, t, k, ttl)
          PROVE  Goal
      BY <2>4, <2>5 DEF EmitBegin
    <2>6. CASE EmitInsert(p)
      BY <2>3, <2>6 DEF EmitInsert, Typed
    <2>7. CASE EmitRelease(p)
      BY <2>3, <2>7 DEF EmitRelease, Typed
    <2>8. CASE EmitConflict(p)
      BY <2>4, <2>8 DEF EmitConflict
    <2>9. CASE EmitDuplicate(p) \/ EmitFails(p)
      BY <2>4, <2>9 DEF EmitDuplicate, EmitFails, EmitStop
    <2> QED
      BY <1>3, <2>5, <2>6, <2>7, <2>8, <2>9 DEF Emit
  <1>4. ASSUME NEW s \in Subs, Register(s) \/ Deregister(s) PROVE Goal
    <2>1. Typed'
      BY <1>4, TypedSubscriber
    <2> QED
      BY <1>2, <1>4, <2>1, ClaimsRegistered
  <1>5. ASSUME NEW s \in Subs, NEW n \in Ids, Ack(s, n) PROVE Goal
    <2>1. n \in Int
      BY <1>1 DEF TypeOK, Ids
    <2>2. Ahead(s, n) \subseteq Ids
      BY <1>1 DEF Ahead, TypeOK
    <2>3. Typed'
      BY <1>5, <2>1, <2>2 DEF Ack, MoveCursor, Typed, TypeOK, tables, emits, Ids
    <2>4. Claims' /\ \A r \in Subs : due'[r] \subseteq due[r] \cup live
      BY <1>5, <2>1, ClaimsMoved DEF Ack
    <2> QED
      BY <1>2, <1>5, <2>3, <2>4 DEF Ack, MoveCursor
  <1>6. ASSUME Tick PROVE Goal
    <2>1. clock' = clock + 1 /\ UNCHANGED <<tables, emits, subscribers>>
      BY <1>6 DEF Tick
    <2>2. Typed'
      BY <1>6, TypedNext DEF Next
    <2>3. Claims' /\ due' = due
      BY <2>1 DEF Claims, ActiveConsumer, Matches, tables, subscribers
    <2> QED
      BY <1>1, <2>1, <2>2, <2>3 DEF tables, Ids
  <1>7. ASSUME UNCHANGED vars PROVE Goal
    <2>1. Typed'
      BY <1>7, TypedNext
    <2>2. Claims' /\ UNCHANGED <<clock, tables, due>>
      BY <1>7 DEF Claims, ActiveConsumer, Matches, vars, tables, subscribers
    <2> QED
      BY <1>2, <2>1, <2>2
  <1> HIDE DEF Goal
  <1>8. Goal
    BY <1>3, <1>4, <1>5, <1>6, <1>7 DEF Library
  <1> QED
    BY <1>8 DEF Goal

LEMMA TierLibrary ==
  ASSUME TierInv, Library \/ UNCHANGED vars, UNCHANGED tiers
  PROVE  TierInv'
  <1>1. /\ Typed' /\ Claims' /\ Len(log') <= MaxEvents
        /\ clock <= clock' /\ reported' = reported
        /\ Ids \subseteq Ids' /\ \A i \in Ids : log'[i] = log[i]
        /\ live \subseteq live' /\ live' \subseteq live \cup (Ids' \ Ids)
        /\ Ids' \ Ids \subseteq live'
        /\ \A s \in Subs : due'[s] \subseteq due[s] \cup live'
    BY LibrarySteps DEF TierInv
  <1>2. /\ job \in [Sweepers -> Job] /\ page \in [Readers -> Call]
        /\ \A v \in Sweepers : JobOK(job[v])
        /\ \A r \in Readers : CallOK(page[r])
        /\ clock \in Nat /\ clock' \in Nat /\ Typed
        /\ \A b \in Buckets :
             bucket[b].rows \subseteq Ids /\ bucket[b].late \subseteq bucket[b].rows
    BY <1>1 DEF TierInv, Shaped, Typed, TypeOK
  <1>3. /\ UNCHANGED <<bucket, job, page, read>> /\ Warm' = Warm
    BY DEF tiers, Warm
  <1>4. ASSUME NEW v \in Sweepers PROVE JobOK(job[v])'
    <2>1. PICK i \in Job : i = job[v]
      BY <1>2
    <2>2. JobOK(i)
      BY <1>2, <2>1
    <2>3. JobOK(i)'
      BY <1>1, <1>2, <1>3, <2>2, JobStays
    <2> QED
      BY <1>3, <2>1, <2>3
  <1>5. ASSUME NEW r \in Readers PROVE CallOK(page[r])'
    <2>1. PICK p \in Call : p = page[r]
      BY <1>2
    <2>2. CallOK(p)
      BY <1>2, <2>1
    <2>3. CallOK(p)'
      BY <1>1, <1>2, <2>2, CallStays
    <2> QED
      BY <1>3, <2>1, <2>3
  <1>6. InSomeTier'
    BY <1>1, <1>3 DEF TierInv, InSomeTier
  <1>7. \A i \in Ids : OverCap(i) => OverCap(i)'
    <2> SUFFICES ASSUME NEW i \in Ids, OverCap(i) PROVE OverCap(i)'
      OBVIOUS
    <2>1. log[i].emitted \in Nat
      <3>1. log[i] \in Row
        BY DEF TierInv, Typed, TypeOK, Ids
      <3> QED
        BY <3>1 DEF Row
    <2> QED
      BY <1>1, <1>2, <2>1, StoreAssumption DEF OverCap
  <1>8. OwedLeavesNamed'
    <2> SUFFICES ASSUME Policy = "retain", NEW s \in Subs, NEW i \in (due[s] \ live)'
                 PROVE  i \in Warm' /\ OverCap(i)' /\ <<s, i, "archived">> \in reported'
      BY DEF OwedLeavesNamed
    <2>1. i \in due[s] \ live
      BY <1>1
    <2>2. i \in Ids
      BY <2>1 DEF TierInv, Typed, TypeOK
    <2> QED
      BY <1>1, <1>3, <1>7, <2>1, <2>2 DEF TierInv, OwedLeavesNamed
  <1>9. Shaped'
    BY <1>3 DEF TierInv, Shaped
  <1> QED
    BY <1>1, <1>2, <1>3, <1>4, <1>5, <1>6, <1>8, <1>9 DEF TierInv

LEMMA TierInit == TieredInit => TierInv
  <1> SUFFICES ASSUME TieredInit PROVE TierInv
    OBVIOUS
  <1>1. Typed
    BY TypedInit DEF TieredInit
  <1>2. /\ Ids = {} /\ Len(log) = 0 /\ live = {} /\ clock = 0
        /\ \A s \in Subs : due[s] = {}
    BY DEF TieredInit, Init, Ids
  <1>3. NoBucket \in File /\ NoBucket.rows = {} /\ NoBucket.late = {}
    BY DEF NoBucket, File
  <1>4. NoJob \in Job
    <2>1. "idle" \in JobLabels
      BY DEF JobLabels
    <2> QED
      BY <2>1 DEF NoJob, Job
  <1>5. NoPage \in Call
    <2>1. "idle" \in CallLabels
      BY DEF CallLabels
    <2> QED
      BY <2>1 DEF NoPage, Call
  <1>6. JobOK(NoJob)
    BY <1>2 DEF JobOK, NoJob
  <1>7. CallOK(NoPage)
    BY <1>2, FS_EmptySet DEF CallOK, NoPage
  <1>8. Shaped
    BY <1>3, <1>4, <1>5 DEF Shaped, TieredInit
  <1>9. Claims /\ InSomeTier /\ OwedLeavesNamed
    BY <1>2 DEF Claims, InSomeTier, OwedLeavesNamed
  <1> QED
    BY <1>1, <1>2, <1>3, <1>6, <1>7, <1>8, <1>9, StoreAssumption DEF TierInv, TieredInit

--------------------------------------------------------------------------------
(* The sweep, step by step.                                                *)
LEMMA SweepFacts ==
  ASSUME TierInv, NEW w \in Sweepers
  PROVE  /\ job[w] \in Job /\ JobOK(job[w]) /\ NoJob \in Job /\ JobOK(NoJob)
         /\ job \in [Sweepers -> Job] /\ bucket \in [Buckets -> File]
         /\ \A b \in Buckets :
              bucket[b].rows \subseteq Ids /\ bucket[b].late \subseteq bucket[b].rows
         /\ Typed /\ clock \in Nat
         /\ \A b : Group(w, b) = GroupOf(job[w], b) /\ (Turn(w, b) <=> TurnOf(job[w], b))
  <1>1. clock \in Nat
    BY DEF TierInv, Typed, TypeOK
  <1>2. NoJob \in Job
    <2>1. "idle" \in JobLabels
      BY DEF JobLabels
    <2> QED
      BY <2>1 DEF NoJob, Job
  <1>3. JobOK(NoJob)
    BY <1>1 DEF JobOK, NoJob
  <1>4. \A b : Group(w, b) = GroupOf(job[w], b) /\ (Turn(w, b) <=> TurnOf(job[w], b))
    BY DEF Group, GroupOf, Turn, TurnOf
  <1> QED
    BY <1>1, <1>2, <1>3, <1>4 DEF TierInv, Shaped

(* One bucket at a time has its turn.                                      *)
LEMMA TurnIsUnique ==
  ASSUME Typed, NEW j \in Job, JobOK(j), NEW b, NEW c, TurnOf(j, b), TurnOf(j, c)
  PROVE  b = c
  <1>1. PICK i \in GroupOf(j, b) : \A k \in j.batch : i <= k
    BY DEF TurnOf
  <1>2. PICK h \in GroupOf(j, c) : \A k \in j.batch : h <= k
    BY DEF TurnOf
  <1>3. i \in Nat /\ h \in Nat /\ i \in j.batch /\ h \in j.batch
    BY IdFacts DEF GroupOf, JobOK
  <1>4. i <= h /\ h <= i
    BY <1>1, <1>2, <1>3
  <1>5. i = h
    BY <1>3, <1>4
  <1>6. b[1] = c[1]
    BY <1>5 DEF GroupOf
  <1> QED
    BY <1>6 DEF JobOK, TurnOf

(* What a sweep goes on with after the bucket whose turn it was.           *)
LEMMA ContinuedJob ==
  ASSUME TierInv, NEW w \in Sweepers, NEW b \in Buckets, Turn(w, b),
         job[w].at \in {"open", "range"}
  PROVE  AfterGroup(w, b) \in Job /\ JobOK(AfterGroup(w, b))
  <1>1. PICK j \in Job : j = job[w]
    BY SweepFacts
  <1>2. JobOK(j) /\ TurnOf(j, b) /\ Group(w, b) = GroupOf(j, b) /\ NoJob \in Job /\ JobOK(NoJob)
    BY <1>1, SweepFacts
  <1>3. CASE j.plan = {b} /\ j.moved = {}
    BY <1>1, <1>2, <1>3 DEF AfterGroup
  <1>4. CASE ~(j.plan = {b} /\ j.moved = {})
    <2> DEFINE label == IF j.plan = {b} THEN "delete" ELSE "open"
               k == [j EXCEPT !.at = label, !.lo = 0, !.hi = 0,
                              !.batch = @ \ GroupOf(j, b), !.plan = @ \ {b}]
    <2>1. AfterGroup(w, b) = k
      BY <1>1, <1>2, <1>4 DEF AfterGroup
    <2>2. label \in {"open", "delete"} /\ label \in JobLabels
      BY DEF JobLabels
    <2> HIDE DEF label
    <2>3. /\ k.at = label /\ k.now = j.now /\ k.owed = j.owed /\ k.moved = j.moved
          /\ k.batch = j.batch \ GroupOf(j, b) /\ k.plan = j.plan \ {b}
          /\ k \in Job
      <3>1. j.batch \ GroupOf(j, b) \in SUBSET Nat /\ j.plan \ {b} \in SUBSET Buckets /\ 0 \in Nat
        BY DEF Job
      <3> QED
        BY <2>2, <3>1 DEF Job
    <2> HIDE DEF k
    <2>4. j.moved \cap k.batch = {}
      <3>1. CASE j.at = "open"
        BY <1>2, <2>3, <3>1 DEF JobOK
      <3>2. CASE j.at = "range"
        BY <1>2, <2>3, <3>2 DEF JobOK
      <3> QED
        BY <1>1, <3>1, <3>2
    <2>5. JobOK(k)
      BY <1>2, <2>2, <2>3, <2>4 DEF JobOK
    <2> QED
      BY <2>1, <2>3, <2>5
  <1> QED
    BY <1>3, <1>4

LEMMA OwedAreIds ==
  ASSUME Typed, NEW now \in Nat
  PROVE  OwedPairs(now) \subseteq Subs \X Ids
  <1>1. \A s \in Subs : OwedTo(s, now) \subseteq Ids
    BY DEF OwedTo, ExpiredBy, Typed, TypeOK
  <1> QED
    BY <1>1 DEF OwedPairs

LEMMA TierReadOwed ==
  ASSUME TierInv, NEW w \in Sweepers, ReadOwed(w)
  PROVE  TierInv'
  <1>1. PICK i \in Job : i = job[w]
    BY SweepFacts
  <1>2. JobOK(i) /\ clock \in Nat /\ Typed
    BY <1>1, SweepFacts
  <1>3. PICK now \in Nat : now = clock
    BY <1>2
  <1>4. OwedPairs(clock) \subseteq Subs \X Ids /\ Ids \subseteq Nat
    BY <1>2, OwedAreIds, IdFacts
  <1>5. PICK owed \in SUBSET (Subs \X Nat) : owed = OwedPairs(clock)
    BY <1>4
  <1>6. PICK label \in {"select", "drop"} :
          label = IF OwedPairs(clock) = {} THEN "select" ELSE "drop"
    OBVIOUS
  <1> DEFINE j == [i EXCEPT !.at = label, !.now = now, !.owed = owed]
  <1>7. job' = [job EXCEPT ![w] = j]
    BY <1>1, <1>3, <1>5, <1>6, SweepFacts DEF ReadOwed
  <1>8. /\ j \in Job /\ j.at = label /\ j.now = now /\ j.owed = owed
        /\ j.batch = i.batch /\ j.plan = i.plan /\ j.moved = i.moved
    <2>1. label \in JobLabels
      BY DEF JobLabels
    <2> QED
      BY <2>1 DEF Job
  <1> HIDE DEF j
  <1>9. i.batch = {} /\ i.plan = {} /\ i.moved = {}
    BY <1>1, <1>2 DEF JobOK, ReadOwed
  <1>10. JobOK(j)
    <2>1. /\ j.batch = {} /\ j.plan = {} /\ j.moved = {} /\ j.now <= clock
          /\ j.at \notin {"rows", "range"}
      BY <1>2, <1>3, <1>8, <1>9
    <2>2. j.owed \subseteq Subs \X Ids
      BY <1>4, <1>5, <1>8
    <2> QED
      BY <2>1, <2>2 DEF JobOK
  <1>11. UNCHANGED <<vars, bucket, page, read>>
    BY DEF ReadOwed
  <1>12. JobOK(j)'
    BY <1>2, <1>8, <1>10, <1>11, JobStays DEF vars, tables, Ids
  <1> QED
    BY <1>7, <1>8, <1>11, <1>12, SweepFacts, TablesStay, SweeperKeeps
       DEF OthersOfSweep, vars, tables

LEMMA TierDropOwed ==
  ASSUME TierInv, NEW w \in Sweepers, DropOwed(w)
  PROVE  TierInv'
  <1>1. PICK i \in Job : i = job[w]
    BY SweepFacts
  <1>2. JobOK(i) /\ clock \in Nat /\ Typed /\ i.at = "drop"
    BY <1>1, SweepFacts DEF DropOwed
  <1> DEFINE dropped == {p \in i.owed : Policy = "discard"}
             j == [i EXCEPT !.at = "select"]
  <1>3. /\ live' = live \ {p[2] : p \in dropped}
        /\ reported' = reported \cup {<<p[1], p[2], "discarded">> : p \in dropped}
        /\ job' = [job EXCEPT ![w] = j]
        /\ UNCHANGED <<clock, log, released, archived, acceptedAt, emits, subscribers,
                       bucket, page, read>>
    BY <1>1, SweepFacts DEF DropOwed
  <1>4. /\ j \in Job /\ j.at = "select" /\ j.now = i.now /\ j.owed = i.owed
        /\ j.batch = i.batch /\ j.plan = i.plan /\ j.moved = i.moved
    <2>1. "select" \in JobLabels
      BY DEF JobLabels
    <2> QED
      BY <2>1 DEF Job
  <1> HIDE DEF j
  <1>5. JobOK(j)
    BY <1>2, <1>4 DEF JobOK
  <1>6. {<<p[1], p[2], "discarded">> : p \in dropped}
          \subseteq Subs \X Nat \X {"archived", "discarded"}
    BY DEF Job
  <1>7. Policy # "discard" => dropped = {}
    OBVIOUS
  <1> HIDE DEF dropped
  <1>8. Ids' = Ids /\ Warm' = Warm
    BY <1>3 DEF Ids, Warm
  <1>9. Typed'
    BY <1>2, <1>3, <1>6, <1>8 DEF Typed, TypeOK, emits, subscribers
  <1>10. JobOK(j)'
    BY <1>2, <1>3, <1>4, <1>5, <1>8, JobStays
  <1>11. InSomeTier'
    BY <1>3, <1>7, <1>8 DEF TierInv, InSomeTier
  <1>12. Policy # "discard" => live' = live /\ reported' = reported
    BY <1>3, <1>7
  <1>13. OwedLeavesNamed'
    BY <1>3, <1>8, <1>12 DEF TierInv, OwedLeavesNamed, OverCap, subscribers
  <1>14. bucket' \in [Buckets -> File] /\ bucket' = bucket
    BY <1>3, SweepFacts
  <1> QED
    BY <1>3, <1>4, <1>9, <1>10, <1>11, <1>13, <1>14, SweepFacts, SweeperKeeps
       DEF OthersOfSweep

LEMMA TierCrash ==
  ASSUME TierInv, NEW w \in Sweepers, Crash(w)
  PROVE  TierInv'
  <1>1. PICK j \in Job : j = NoJob /\ JobOK(j)
    BY SweepFacts
  <1>2. job' = [job EXCEPT ![w] = j] /\ UNCHANGED <<vars, bucket, page, read>>
    BY <1>1 DEF Crash
  <1>3. JobOK(j)'
    BY <1>1, <1>2, JobStays, SweepFacts DEF vars, tables, Ids
  <1> QED
    BY <1>2, <1>3, SweepFacts, TablesStay, SweeperKeeps DEF OthersOfSweep, vars, tables

(* The batch is taken from what expired, with one bucket for each month.   *)
LEMMA SelectedBatch ==
  ASSUME TierInv, NEW w \in Sweepers
  PROVE  /\ Candidates(w) \subseteq live /\ Candidates(w) \subseteq Ids
         /\ \A i \in Candidates(w) : log[i].expires < job[w].now
         /\ \A m, full : TargetOf(m, full)[1] = m
  <1>1. Candidates(w) \subseteq ExpiredBy(job[w].now)
    BY DEF Candidates, FirstN
  <1>2. live \subseteq Ids
    BY DEF TierInv, Typed, TypeOK
  <1>3. \A m, full : TargetOf(m, full)[1] = m
    BY DEF TargetOf, Latest
  <1> QED
    BY <1>1, <1>2, <1>3 DEF ExpiredBy

LEMMA TierSelectBatch ==
  ASSUME TierInv, NEW w \in Sweepers, SelectBatch(w)
  PROVE  TierInv'
  <1>1. PICK full \in SUBSET {m \in {Month(i) : i \in Candidates(w)} :
                               Splits(m) # {} /\ bucket[Latest(m)].rows # {}} :
          LET plan == {TargetOf(m, m \in full) : m \in {Month(i) : i \in Candidates(w)}}
              outgrown == {Latest(m) : m \in full}
          IN  /\ plan \subseteq Buckets
              /\ bucket' = [b \in Buckets |->
                   IF b \in outgrown THEN [bucket[b] EXCEPT !.sealed = TRUE] ELSE bucket[b]]
              /\ job' = [job EXCEPT ![w] =
                   IF plan = {} THEN NoJob
                   ELSE [@ EXCEPT !.at = "open", !.batch = Candidates(w), !.plan = plan]]
    BY DEF SelectBatch
  <1> DEFINE targets == {TargetOf(m, m \in full) : m \in {Month(i) : i \in Candidates(w)}}
             outgrown == {Latest(m) : m \in full}
  <1>2. PICK i \in Job : i = job[w]
    BY SweepFacts
  <1>3. JobOK(i) /\ clock \in Nat /\ Typed /\ i.at = "select" /\ Ids \subseteq Nat
    BY <1>2, SweepFacts, IdFacts DEF SelectBatch
  <1>4. PICK batch \in SUBSET Nat : batch = Candidates(w)
    BY <1>3, SelectedBatch
  <1>5. PICK plan \in SUBSET Buckets : plan = targets
    BY <1>1
  <1> DEFINE selected == [i EXCEPT !.at = "open", !.batch = batch, !.plan = plan]
             j == IF plan = {} THEN NoJob ELSE selected
  <1>6. /\ bucket' = [b \in Buckets |->
             IF b \in outgrown THEN [bucket[b] EXCEPT !.sealed = TRUE] ELSE bucket[b]]
        /\ job' = [job EXCEPT ![w] = j]
        /\ UNCHANGED <<vars, page, read>>
    BY <1>1, <1>2, <1>4, <1>5, SweepFacts DEF SelectBatch
  <1>7. \A b, c \in plan : b[1] = c[1] => b = c
    BY <1>5, SelectedBatch
  <1> HIDE DEF targets, outgrown
  <1>8. /\ selected \in Job /\ selected.at = "open" /\ selected.now = i.now
        /\ selected.owed = i.owed /\ selected.batch = batch /\ selected.plan = plan
        /\ selected.moved = i.moved
    <2>1. "open" \in JobLabels
      BY DEF JobLabels
    <2> QED
      BY <2>1 DEF Job
  <1> HIDE DEF selected
  <1>9. JobOK(selected)
    <2>1. i.moved = {}
      BY <1>3 DEF JobOK
    <2>2. \A k \in batch : k \in Ids /\ log[k].expires < i.now
      BY <1>2, <1>4, SelectedBatch
    <2> QED
      BY <1>3, <1>7, <1>8, <2>1, <2>2 DEF JobOK
  <1>10. PICK k \in Job : k = j /\ JobOK(k)
    BY <1>8, <1>9, SweepFacts
  <1>11. job' = [job EXCEPT ![w] = k]
    BY <1>6, <1>10
  <1> HIDE DEF j
  <1>12. \A b \in Buckets :
           /\ bucket'[b] \in File
           /\ bucket'[b].rows = bucket[b].rows /\ bucket'[b].late = bucket[b].late
    <2> SUFFICES ASSUME NEW b \in Buckets
                 PROVE  /\ bucket'[b] \in File
                        /\ bucket'[b].rows = bucket[b].rows /\ bucket'[b].late = bucket[b].late
      OBVIOUS
    <2>1. PICK x \in File : x = bucket[b]
      BY SweepFacts
    <2>2. /\ [x EXCEPT !.sealed = TRUE] \in File
          /\ [x EXCEPT !.sealed = TRUE].rows = x.rows /\ [x EXCEPT !.sealed = TRUE].late = x.late
      <3>1. TRUE \in BOOLEAN
        OBVIOUS
      <3> QED
        BY <3>1 DEF File
    <2> QED
      BY <1>6, <2>1, <2>2
  <1>13. bucket' \in [Buckets -> File]
    BY <1>6, <1>12
  <1>14. JobOK(k)'
    BY <1>3, <1>6, <1>10, <1>12, JobStays DEF vars, tables, Ids
  <1> QED
    BY <1>6, <1>11, <1>12, <1>13, <1>14, SweepFacts, TablesStay, SweeperKeeps
       DEF OthersOfSweep, vars, tables

LEMMA TierSkipLocked ==
  ASSUME TierInv, NEW w \in Sweepers, NEW b \in Buckets, SkipLocked(w, b)
  PROVE  TierInv'
  <1>1. PICK j \in Job : j = AfterGroup(w, b) /\ JobOK(j)
    BY ContinuedJob DEF SkipLocked
  <1>2. job' = [job EXCEPT ![w] = j] /\ UNCHANGED <<vars, bucket, page, read>>
    BY <1>1 DEF SkipLocked
  <1>3. JobOK(j)'
    BY <1>1, <1>2, JobStays, SweepFacts DEF vars, tables, Ids
  <1> QED
    BY <1>2, <1>3, SweepFacts, TablesStay, SweeperKeeps DEF OthersOfSweep, vars, tables

(* The rows of a bucket whose turn it is, after they were inserted.        *)
LEMMA GroupFacts ==
  ASSUME TierInv, NEW w \in Sweepers, NEW b \in Buckets, Turn(w, b)
  PROVE  Group(w, b) \subseteq Ids /\ Group(w, b) # {}
  <1>1. JobOK(job[w])
    BY SweepFacts
  <1> QED
    BY <1>1 DEF Turn, Group, JobOK

(* Opening or creating the file takes the job on, and may make every row of *)
(* the bucket late.                                                        *)
Opening(w, b) ==
  OpenBucket(w, b) \/ CreateFile(w, b) \/ CreateTables(w, b) \/ FirstMin(w, b) \/ FirstMax(w, b)

LEMMA OpeningStep ==
  ASSUME TierInv, NEW w \in Sweepers, NEW b \in Buckets, Opening(w, b)
  PROVE  /\ job[w].at \in {"open", "create", "tables", "min", "max"}
         /\ \E label \in {"create", "tables", "min", "max", "insert"} :
              job' = [job EXCEPT ![w] = [job[w] EXCEPT !.at = label]]
         /\ \E x \in File :
              /\ bucket' = [bucket EXCEPT ![b] = x]
              /\ x.rows = bucket[b].rows
              /\ \/ x.late = x.rows
                 \/ x.late = bucket[b].late /\ x.min = bucket[b].min /\ x.max = bucket[b].max
         /\ UNCHANGED <<vars, page, read>>
  <1>1. PICK i \in Job : i = job[w]
    BY SweepFacts
  <1>2. PICK y \in File : y = bucket[b]
    BY SweepFacts
  <1>3. ASSUME Turn(w, b)
        PROVE  Least(Group(w, b)) \in Nat /\ Greatest(Group(w, b)) \in Nat
    BY <1>3, GroupFacts, SweepFacts, RangeTyped
  <1>4. CASE OpenBucket(w, b)
    <2>1. bucket' = [bucket EXCEPT ![b] = y]
      BY <1>2, <1>4, SweepFacts DEF OpenBucket
    <2> QED
      BY <1>1, <1>2, <1>4, <2>1, SweepFacts DEF OpenBucket
  <1>5. CASE CreateFile(w, b)
    <2> DEFINE x == [y EXCEPT !.file = IF @ = "none" THEN "bare" ELSE @]
    <2>1. x \in File /\ x.rows = y.rows /\ x.late = y.late /\ x.min = y.min /\ x.max = y.max
      BY DEF File
    <2>2. bucket' = [bucket EXCEPT ![b] = x]
      BY <1>2, <1>5, SweepFacts DEF CreateFile
    <2> QED
      BY <1>1, <1>2, <1>5, <2>1, <2>2, SweepFacts DEF CreateFile
  <1>6. CASE CreateTables(w, b)
    <2> DEFINE x == [y EXCEPT !.file = "ready"]
    <2>1. x \in File /\ x.rows = y.rows /\ x.late = y.late /\ x.min = y.min /\ x.max = y.max
      BY DEF File
    <2>2. bucket' = [bucket EXCEPT ![b] = x]
      BY <1>2, <1>6, SweepFacts DEF CreateTables
    <2> QED
      BY <1>1, <1>2, <1>6, <2>1, <2>2, SweepFacts DEF CreateTables
  <1>7. CASE FirstMin(w, b)
    <2>1. PICK n \in Nat : n = Least(Group(w, b))
      BY <1>3, <1>7 DEF FirstMin
    <2> DEFINE x == [y EXCEPT !.min = n, !.late = y.rows]
    <2>2. x \in File /\ x.rows = y.rows /\ x.late = x.rows
      BY DEF File
    <2>3. bucket' = [bucket EXCEPT ![b] = x]
      BY <1>2, <1>7, <2>1, SweepFacts DEF FirstMin
    <2> QED
      BY <1>1, <1>2, <1>7, <2>2, <2>3, SweepFacts DEF FirstMin
  <1>8. CASE FirstMax(w, b)
    <2>1. PICK n \in Nat : n = Greatest(Group(w, b))
      BY <1>3, <1>8 DEF FirstMax
    <2> DEFINE x == [y EXCEPT !.max = n, !.late = y.rows]
    <2>2. x \in File /\ x.rows = y.rows /\ x.late = x.rows
      BY DEF File
    <2>3. bucket' = [bucket EXCEPT ![b] = x]
      BY <1>2, <1>8, <2>1, SweepFacts DEF FirstMax
    <2> QED
      BY <1>1, <1>2, <1>8, <2>2, <2>3, SweepFacts DEF FirstMax
  <1> QED
    BY <1>4, <1>5, <1>6, <1>7, <1>8 DEF Opening

LEMMA TierOpening ==
  ASSUME TierInv, NEW w \in Sweepers, NEW b \in Buckets, Opening(w, b)
  PROVE  TierInv'
  <1>1. PICK i \in Job : i = job[w]
    BY SweepFacts
  <1>2. /\ JobOK(i) /\ clock \in Nat /\ Typed
        /\ i.at \in {"open", "create", "tables", "min", "max"}
    BY <1>1, SweepFacts, OpeningStep
  <1>3. PICK label \in {"create", "tables", "min", "max", "insert"} :
          job' = [job EXCEPT ![w] = [i EXCEPT !.at = label]]
    BY <1>1, OpeningStep
  <1>4. PICK x \in File :
          /\ bucket' = [bucket EXCEPT ![b] = x]
          /\ x.rows = bucket[b].rows
          /\ x.late = x.rows \/ x.late = bucket[b].late
    BY OpeningStep
  <1>5. UNCHANGED <<vars, page, read>>
    BY OpeningStep
  <1> DEFINE j == [i EXCEPT !.at = label]
  <1>6. /\ j \in Job /\ j.at = label /\ j.now = i.now /\ j.owed = i.owed
        /\ j.batch = i.batch /\ j.plan = i.plan /\ j.moved = i.moved
    <2>1. label \in JobLabels
      BY DEF JobLabels
    <2> QED
      BY <2>1 DEF Job
  <1>7. job' = [job EXCEPT ![w] = j]
    BY <1>3
  <1> HIDE DEF j
  <1>8. JobOK(j)
    BY <1>2, <1>6 DEF JobOK
  <1>9. /\ bucket' \in [Buckets -> File]
        /\ \A c \in Buckets :
             /\ bucket[c].rows \subseteq bucket'[c].rows /\ bucket'[c].rows \subseteq Ids
             /\ bucket'[c].late \subseteq bucket'[c].rows
    BY <1>4, SweepFacts
  <1>10. JobOK(j)'
    BY <1>2, <1>5, <1>6, <1>8, <1>9, JobStays DEF vars, tables, Ids
  <1> QED
    BY <1>5, <1>6, <1>7, <1>9, <1>10, SweepFacts, TablesStay, SweeperKeeps
       DEF OthersOfSweep, vars, tables

LEMMA TierInsertRows ==
  ASSUME TierInv, NEW w \in Sweepers, NEW b \in Buckets, InsertRows(w, b)
  PROVE  TierInv'
  <1>1. PICK i \in Job : i = job[w]
    BY SweepFacts
  <1>2. /\ JobOK(i) /\ clock \in Nat /\ Typed /\ i.at = "insert" /\ TurnOf(i, b)
        /\ Ids \subseteq Nat
    BY <1>1, SweepFacts, IdFacts DEF InsertRows
  <1>3. PICK group \in SUBSET Nat :
          group = Group(w, b) /\ group = GroupOf(i, b) /\ group \subseteq Ids /\ group # {}
    BY <1>1, <1>2, GroupFacts, SweepFacts DEF InsertRows
  <1> DEFINE rows == bucket[b].rows \cup group
             late == IF RangeInHand(w, b)
                       THEN bucket[b].late \cup (group \ bucket[b].rows)
                       ELSE bucket[b].late
             x == [bucket[b] EXCEPT !.rows = rows, !.late = late]
             j == [i EXCEPT !.at = "rows", !.moved = @ \cup group]
  <1>4. /\ bucket' = [bucket EXCEPT ![b] = x]
        /\ job' = [job EXCEPT ![w] = j]
        /\ UNCHANGED <<vars, page, read>>
    BY <1>1, <1>3, SweepFacts DEF InsertRows
  <1>5. /\ j \in Job /\ j.at = "rows" /\ j.now = i.now /\ j.owed = i.owed
        /\ j.batch = i.batch /\ j.plan = i.plan /\ j.moved = i.moved \cup group
    <2>1. "rows" \in JobLabels /\ i.moved \cup group \in SUBSET Nat
      BY DEF JobLabels, Job
    <2> QED
      BY <2>1 DEF Job
  <1>6. rows \subseteq Ids /\ rows \in SUBSET Nat /\ late \subseteq rows /\ late \in SUBSET Nat
    BY <1>2, <1>3, SweepFacts
  <1>7. x \in File /\ x.rows = rows /\ x.late = late
    <2>1. PICK y \in File : y = bucket[b]
      BY SweepFacts
    <2> HIDE DEF rows, late
    <2> QED
      BY <1>6, <2>1 DEF File
  <1> HIDE DEF x, j
  <1>8. /\ bucket' \in [Buckets -> File] /\ bucket'[b].rows = rows /\ bucket'[b].late = late
        /\ \A c \in Buckets : c # b => bucket'[c] = bucket[c]
    BY <1>4, <1>7, SweepFacts
  <1>9. \A c \in Buckets :
          /\ bucket[c].rows \subseteq bucket'[c].rows /\ bucket'[c].rows \subseteq Ids
          /\ bucket'[c].late \subseteq bucket'[c].rows
    BY <1>6, <1>8, SweepFacts
  <1>10. Ids' = Ids /\ log' = log /\ clock' = clock
    BY <1>4 DEF vars, tables, Ids
  <1>11. Warm \subseteq Warm' /\ group \subseteq Warm'
    BY <1>8, <1>9 DEF Warm
  <1>12. JobOK(j)'
    <2>1. \A k \in j.batch \cup j.moved : k \in Ids /\ log[k].expires < j.now
      BY <1>2, <1>3, <1>5 DEF JobOK, GroupOf
    <2>2. j.moved \subseteq Warm'
      BY <1>2, <1>5, <1>11 DEF JobOK
    <2>3. \A c : GroupOf(j, c)' = GroupOf(i, c) /\ (TurnOf(j, c)' <=> TurnOf(i, c))
      BY <1>5, <1>10 DEF GroupOf, TurnOf, Month
    <2>4. \A c \in Buckets : TurnOf(j, c)' =>
            /\ j.moved \cap j.batch \subseteq GroupOf(j, c)'
            /\ GroupOf(j, c)' \subseteq bucket'[c].rows
      <3> SUFFICES ASSUME NEW c \in Buckets, TurnOf(i, c)
                   PROVE  /\ j.moved \cap j.batch \subseteq GroupOf(i, c)
                          /\ GroupOf(i, c) \subseteq bucket'[c].rows
        BY <2>3
      <3>1. c = b
        BY <1>2, TurnIsUnique
      <3>2. i.moved \cap i.batch = {}
        BY <1>2 DEF JobOK
      <3> QED
        BY <1>3, <1>5, <1>8, <3>1, <3>2
    <2>5. /\ j.now <= clock' /\ j.owed \subseteq Subs \X Ids
          /\ \A c, d \in j.plan : c[1] = d[1] => c = d
      BY <1>2, <1>5, <1>10 DEF JobOK
    <2> QED
      BY <1>5, <1>10, <2>1, <2>2, <2>4, <2>5 DEF JobOK
  <1> QED
    BY <1>4, <1>5, <1>8, <1>9, <1>12, TablesStay, SweeperKeeps DEF OthersOfSweep, vars, tables

LEMMA TierReadRange ==
  ASSUME TierInv, NEW w \in Sweepers, NEW b \in Buckets, ReadRange(w, b)
  PROVE  TierInv'
  <1>1. PICK i \in Job : i = job[w]
    BY SweepFacts
  <1>2. JobOK(i) /\ clock \in Nat /\ Typed /\ i.at = "rows" /\ TurnOf(i, b)
    BY <1>1, SweepFacts DEF ReadRange
  <1>3. bucket[b].rows \subseteq Ids /\ bucket[b].rows # {}
    <2>1. GroupOf(i, b) \subseteq bucket[b].rows
      BY <1>2 DEF JobOK
    <2> QED
      BY <1>2, <2>1, SweepFacts DEF TurnOf
  <1>4. PICK lo \in Nat, hi \in Nat :
          lo = Least(bucket[b].rows) /\ hi = Greatest(bucket[b].rows)
    BY <1>2, <1>3, RangeTyped
  <1> DEFINE j == [i EXCEPT !.lo = lo, !.hi = hi, !.at = "range"]
  <1>5. job' = [job EXCEPT ![w] = j] /\ UNCHANGED <<vars, bucket, page, read>>
    BY <1>1, <1>4, SweepFacts DEF ReadRange
  <1>6. /\ j \in Job /\ j.at = "range" /\ j.now = i.now /\ j.owed = i.owed
        /\ j.batch = i.batch /\ j.plan = i.plan /\ j.moved = i.moved
    <2>1. "range" \in JobLabels
      BY DEF JobLabels
    <2> QED
      BY <2>1 DEF Job
  <1> HIDE DEF j
  <1>7. JobOK(j)
    BY <1>2, <1>6 DEF JobOK, TurnOf, GroupOf
  <1>8. JobOK(j)'
    BY <1>2, <1>5, <1>6, <1>7, JobStays DEF vars, tables, Ids
  <1> QED
    BY <1>5, <1>6, <1>8, SweepFacts, TablesStay, SweeperKeeps DEF OthersOfSweep, vars, tables

LEMMA TierWriteRange ==
  ASSUME TierInv, NEW w \in Sweepers, NEW b \in Buckets, WriteRange(w, b)
  PROVE  TierInv'
  <1>1. PICK j \in Job : j = AfterGroup(w, b) /\ JobOK(j)
    BY ContinuedJob DEF WriteRange
  <1>2. PICK lo \in Nat, hi \in Nat : lo = job[w].lo /\ hi = job[w].hi
    BY SweepFacts DEF Job
  <1>3. PICK x \in File : x = bucket[b]
    BY SweepFacts
  <1> DEFINE y == [x EXCEPT !.min = lo, !.max = hi]
  <1>4. /\ job' = [job EXCEPT ![w] = j] /\ bucket' = [bucket EXCEPT ![b] = y]
        /\ UNCHANGED <<vars, page, read>>
    BY <1>1, <1>2, <1>3, SweepFacts DEF WriteRange
  <1>5. y \in File /\ y.rows = x.rows /\ y.late = x.late
    BY DEF File
  <1> HIDE DEF y
  <1>6. /\ bucket' \in [Buckets -> File]
        /\ \A c \in Buckets :
             bucket'[c].rows = bucket[c].rows /\ bucket'[c].late = bucket[c].late
    BY <1>3, <1>4, <1>5, SweepFacts
  <1>7. JobOK(j)'
    BY <1>1, <1>4, <1>6, JobStays, SweepFacts DEF vars, tables, Ids
  <1> QED
    BY <1>4, <1>6, <1>7, SweepFacts, TablesStay, SweeperKeeps DEF OthersOfSweep, vars, tables

(* The delete finds every claim that an active consumer has, however late  *)
(* it was made, and lets go of the row only past the cap.                  *)
LEMMA TierDeleteMoved ==
  ASSUME TierInv, NEW w \in Sweepers, DeleteMoved(w)
  PROVE  TierInv'
  <1>1. PICK i \in Job : i = job[w]
    BY SweepFacts
  <1>2. /\ JobOK(i) /\ clock \in Nat /\ Typed /\ Ids \subseteq Nat
        /\ i.now \in Nat /\ i.owed \in SUBSET (Subs \X Nat)
    BY <1>1, SweepFacts, IdFacts DEF Job
  <1>3. PICK j \in Job : j = NoJob /\ JobOK(j)
    BY SweepFacts
  <1>4. /\ live' = live \ (i.moved \ KeptAtDelete(w))
        /\ reported' = reported \cup {<<p[1], p[2], "archived">> : p \in Named(w)}
        /\ job' = [job EXCEPT ![w] = j]
        /\ UNCHANGED <<clock, log, released, archived, acceptedAt, emits, subscribers,
                       bucket, page, read>>
    BY <1>1, <1>3 DEF DeleteMoved
  <1>5. Ids' = Ids /\ Warm' = Warm
    BY <1>4 DEF Ids, Warm
  <1>6. Named(w) \subseteq Subs \X Nat
    <2>1. OwedPairs(i.now) \subseteq Subs \X Nat
      BY <1>2, OwedAreIds
    <2> QED
      BY <1>1, <1>2, <2>1 DEF Named, SeenAtDelete
  <1>7. {<<p[1], p[2], "archived">> : p \in Named(w)} \subseteq Subs \X Nat \X {"archived", "discarded"}
    BY <1>6
  <1>8. Typed'
    BY <1>2, <1>4, <1>5, <1>7 DEF Typed, TypeOK, emits, subscribers
  <1>9. InSomeTier'
    BY <1>2, <1>4, <1>5 DEF TierInv, InSomeTier, JobOK
  <1>10. OwedLeavesNamed'
    <2> SUFFICES ASSUME Policy = "retain", NEW s \in Subs, NEW k \in due[s], k \notin live'
                 PROVE  k \in Warm /\ OverCap(k) /\ <<s, k, "archived">> \in reported'
      BY <1>4, <1>5 DEF OwedLeavesNamed, OverCap, subscribers
    <2>1. CASE k \notin live
      BY <1>4, <2>1 DEF TierInv, OwedLeavesNamed
    <2>2. CASE k \in live
      <3>1. k \in i.moved /\ k \notin KeptAtDelete(w)
        BY <1>4, <2>2
      <3>2. k \in Ids /\ log[k].expires < i.now
        BY <1>2, <3>1 DEF JobOK
      <3>3. ActiveConsumer(s) /\ k > pos[s] /\ Matches(s, k)
        BY DEF TierInv, Claims
      <3>4. k \in OwedTo(s, i.now)
        BY <2>2, <3>2, <3>3 DEF OwedTo, ExpiredBy
      <3>5. <<s, k>> \in OwedPairs(i.now)
        BY <3>4 DEF OwedPairs
      <3>6. <<s, k>> \in SeenAtDelete(w)
        BY <1>1, <3>1, <3>5 DEF SeenAtDelete
      <3>7. PastCap(k, i.now)
        BY <1>1, <3>1, <3>6 DEF KeptAtDelete
      <3>8. OverCap(k)
        <4>1. log[k].emitted \in Nat /\ i.now <= clock /\ Cap \in Nat
          <5>1. log[k] \in Row
            BY <1>2, <3>2 DEF Typed, TypeOK, Ids
          <5> QED
            BY <1>2, <5>1, StoreAssumption DEF Row, JobOK
        <4> QED
          BY <1>2, <3>7, <4>1 DEF PastCap, OverCap
      <3>9. <<s, k>> \in Named(w)
        BY <1>1, <3>1, <3>6, <3>7 DEF Named
      <3>10. <<s, k, "archived">> \in reported'
        BY <1>4, <3>9
      <3> QED
        BY <1>2, <3>1, <3>8, <3>10 DEF JobOK
    <2> QED
      BY <2>1, <2>2
  <1>11. JobOK(j)'
    BY <1>2, <1>3, <1>4, <1>5, JobStays
  <1>12. bucket' \in [Buckets -> File] /\ bucket' = bucket
    BY <1>4, SweepFacts
  <1> QED
    BY <1>4, <1>8, <1>9, <1>10, <1>11, <1>12, SweepFacts, SweeperKeeps DEF OthersOfSweep

--------------------------------------------------------------------------------
(* The readers.                                                            *)
LEMMA CallFacts ==
  ASSUME TierInv, NEW r \in Readers
  PROVE  /\ page[r] \in Call /\ CallOK(page[r]) /\ NoPage \in Call /\ CallOK(NoPage)
         /\ page \in [Readers -> Call] /\ read \in [Readers -> Nat] /\ read[r] \in Nat
         /\ Typed
         /\ \A b \in Buckets :
              bucket[b].rows \subseteq Ids /\ bucket[b].late \subseteq bucket[b].rows
  <1>1. NoPage \in Call
    <2>1. "idle" \in CallLabels
      BY DEF CallLabels
    <2> QED
      BY <2>1 DEF NoPage, Call
  <1>2. CallOK(NoPage)
    BY FS_EmptySet, IdFacts DEF CallOK, NoPage, TierInv
  <1> QED
    BY <1>1, <1>2 DEF TierInv, Shaped

LEMMA TierProbe ==
  ASSUME TierInv, NEW r \in Readers, Probe(r)
  PROVE  TierInv'
  <1>1. /\ Typed /\ live \subseteq Ids /\ Ids \subseteq Nat /\ Len(log) \in Nat
        /\ \A i \in Ids : i \in Nat /\ i >= 1 /\ i <= Len(log)
    BY CallFacts, IdFacts
  <1>2. PICK m \in Nat : m = OldestLive /\ m <= Len(log) /\ \A k \in live : m # 0 /\ m <= k
    <2>1. CASE live = {}
      BY <1>1, <2>1 DEF OldestLive
    <2>2. CASE live # {}
      <3>1. Least(live) \in live /\ \A k \in live : Least(live) <= k
        BY <1>1, <2>2, LeastIn
      <3>2. Least(live) \in Nat /\ Least(live) >= 1 /\ Least(live) <= Len(log)
        BY <1>1, <3>1
      <3> QED
        BY <2>2, <3>1, <3>2 DEF OldestLive
    <2> QED
      BY <2>1, <2>2
  <1>3. PICK known \in SUBSET Nat : known = Ids \ live
    BY <1>1
  <1>4. PICK label \in {"live", "list"} :
          label = IF live # {} /\ read[r] >= OldestLive THEN "live" ELSE "list"
    OBVIOUS
  <1> DEFINE p == [NoPage EXCEPT !.at = label, !.minLive = m, !.known = known]
  <1>5. page' = [page EXCEPT ![r] = p] /\ UNCHANGED <<vars, bucket, job, read>>
    BY <1>2, <1>3, <1>4 DEF Probe
  <1>6. /\ p \in Call /\ p.minLive = m /\ p.known = known /\ p.rows = {} /\ p.count = 0
    <2>1. label \in CallLabels
      BY DEF CallLabels
    <2> QED
      BY <2>1, CallFacts DEF Call, NoPage
  <1> HIDE DEF p
  <1>7. CallOK(p)
    BY <1>2, <1>3, <1>6, FS_EmptySet DEF CallOK
  <1> QED
    BY <1>5, <1>6, <1>7, CallFacts, ReaderKeeps

LEMMA TierListBuckets ==
  ASSUME TierInv, NEW r \in Readers, ListBuckets(r)
  PROVE  TierInv'
  <1>1. PICK q \in Call : q = page[r] /\ CallOK(q)
    BY CallFacts
  <1>2. PICK gap \in SUBSET Buckets : gap = Gap(r)
    BY DEF Gap
  <1> DEFINE opened == [q EXCEPT !.at = "warm", !.todo = gap]
  <1>3. opened \in Call /\ CallOK(opened)
    <2>1. "warm" \in CallLabels
      BY DEF CallLabels
    <2>2. /\ opened \in Call /\ opened.minLive = q.minLive /\ opened.known = q.known
          /\ opened.rows = q.rows /\ opened.count = q.count
      BY <2>1 DEF Call
    <2> HIDE DEF opened
    <2> QED
      BY <1>1, <2>2 DEF CallOK
  <1>4. \E p \in {NoPage, opened} : page' = [page EXCEPT ![r] = p]
    BY <1>1, <1>2, CallFacts DEF ListBuckets
  <1> HIDE DEF opened
  <1>5. PICK p \in Call : page' = [page EXCEPT ![r] = p] /\ CallOK(p)
    BY <1>3, <1>4, CallFacts
  <1> QED
    BY <1>5, CallFacts, ReaderKeeps DEF ListBuckets

(* The rows that a reader takes from the next bucket.                      *)
NextOf(r) == CHOOSE c \in page[r].todo : \A d \in page[r].todo \ {c} : Before(c, d)
RowsOf(r, b) == FirstN({i \in bucket[b].rows : i > read[r]}, PageSize - page[r].count)

LEMMA NextRows ==
  ASSUME TierInv, NEW r \in Readers, page[r].todo # {}
  PROVE  /\ NextOf(r) \in page[r].todo /\ NextOf(r) \in Buckets
         /\ \A b \in Buckets : RowsOf(r, b) \subseteq bucket[b].rows
         /\ \A b \in Buckets : IsFiniteSet(RowsOf(r, b)) /\ Cardinality(RowsOf(r, b)) \in Nat
  <1>1. page[r].todo \subseteq Buckets
    BY CallFacts DEF Call
  <1>2. NextOf(r) \in page[r].todo
    BY <1>1, NextBucket DEF NextOf
  <1>3. ASSUME NEW b \in Buckets
        PROVE  /\ RowsOf(r, b) \subseteq bucket[b].rows
               /\ IsFiniteSet(RowsOf(r, b)) /\ Cardinality(RowsOf(r, b)) \in Nat
    <2>1. RowsOf(r, b) \subseteq bucket[b].rows
      BY FirstSubset DEF RowsOf
    <2>2. RowsOf(r, b) \subseteq Ids /\ IsFiniteSet(Ids)
      BY <2>1, CallFacts, IdFacts
    <2>3. IsFiniteSet(RowsOf(r, b))
      BY <2>2, FS_Subset
    <2> QED
      BY <2>1, <2>3, FS_CardinalityType
  <1> QED
    BY <1>1, <1>2, <1>3

(* What the reader's call is when it has read bucket b.                    *)
Read(q, b, rows) ==
  [q EXCEPT !.todo = @ \ {b}, !.rows = @ \cup rows, !.count = @ + Cardinality(rows)]

LEMMA ReadCall ==
  ASSUME Typed, NEW q \in Call, CallOK(q), NEW b, NEW rows, rows \subseteq Ids
  PROVE  /\ Read(q, b, rows) \in Call /\ CallOK(Read(q, b, rows))
         /\ Read(q, b, rows).at = q.at /\ Read(q, b, rows).minLive = q.minLive
         /\ Read(q, b, rows).known = q.known /\ Read(q, b, rows).todo = q.todo \ {b}
         /\ Read(q, b, rows).rows = q.rows \cup rows
         /\ Read(q, b, rows).count = q.count + Cardinality(rows)
  <1>1. IsFiniteSet(Ids) /\ Ids \subseteq Nat /\ q.rows \subseteq Ids
    BY IdFacts DEF CallOK
  <1>2. /\ IsFiniteSet(rows) /\ IsFiniteSet(q.rows)
        /\ Cardinality(rows) \in Nat /\ Cardinality(q.rows) \in Nat
    BY <1>1, FS_Subset, FS_CardinalityType
  <1> DEFINE n == Cardinality(rows)
             p == [q EXCEPT !.todo = @ \ {b}, !.rows = @ \cup rows, !.count = @ + n]
  <1>3. n \in Nat
    BY <1>2
  <1> HIDE DEF n
  <1>4. /\ p \in Call /\ p.minLive = q.minLive /\ p.known = q.known /\ p.at = q.at
        /\ p.todo = q.todo \ {b} /\ p.rows = q.rows \cup rows /\ p.count = q.count + n
    <2>1. q.todo \ {b} \in SUBSET Buckets /\ q.rows \cup rows \in SUBSET Nat /\ q.count + n \in Nat
      <3>1. q.todo \in SUBSET Buckets /\ q.rows \in SUBSET Nat /\ q.count \in Nat
        BY DEF Call
      <3>2. q.todo \ {b} \in SUBSET Buckets
        BY <3>1
      <3>3. q.rows \cup rows \in SUBSET Nat
        BY <1>1, <3>1
      <3>4. q.count + n \in Nat
        BY <1>3, <3>1
      <3> QED
        BY <3>2, <3>3, <3>4
    <2> QED
      BY <2>1 DEF Call
  <1>5. Cardinality(q.rows \cup rows) <= q.count + n
    <2>1. /\ Cardinality(q.rows \cup rows) =
               Cardinality(q.rows) + Cardinality(rows) - Cardinality(q.rows \cap rows)
          /\ IsFiniteSet(q.rows \cap rows)
      BY <1>2, FS_Union, FS_Intersection
    <2>2. Cardinality(q.rows \cap rows) \in Nat
      BY <2>1, FS_CardinalityType
    <2>3. Cardinality(q.rows) <= q.count /\ q.count \in Nat
      BY DEF CallOK, Call
    <2> QED
      BY <1>2, <2>1, <2>2, <2>3 DEF n
  <1>6. p = Read(q, b, rows)
    BY DEF Read, n
  <1> HIDE DEF p
  <1>7. CallOK(p)
    BY <1>1, <1>4, <1>5 DEF CallOK
  <1> QED
    BY <1>4, <1>6, <1>7 DEF n

LEMMA ReadBucketSteps ==
  ASSUME TierInv, NEW r \in Readers, ReadBucket(r)
  PROVE  /\ page[r].at = "warm" /\ page[r].todo # {} /\ page[r].count < PageSize
         /\ \/ page' = [page EXCEPT ![r] = NoPage]
            \/ page' = [page EXCEPT ![r] = Read(page[r], NextOf(r), RowsOf(r, NextOf(r)))]
         /\ UNCHANGED <<vars, bucket, job, read>>
  BY CallFacts DEF ReadBucket, Read, NextOf, RowsOf

LEMMA TierReadBucket ==
  ASSUME TierInv, NEW r \in Readers, ReadBucket(r)
  PROVE  TierInv'
  <1>1. PICK q \in Call : q = page[r] /\ CallOK(q)
    BY CallFacts
  <1>2. PICK b \in Buckets : b = NextOf(r)
    BY NextRows, ReadBucketSteps
  <1>3. PICK rows \in SUBSET Ids : rows = RowsOf(r, b)
    BY <1>2, NextRows, ReadBucketSteps, CallFacts
  <1>4. Read(q, b, rows) \in Call /\ CallOK(Read(q, b, rows))
    BY <1>1, CallFacts, ReadCall
  <1>5. PICK p \in Call : page' = [page EXCEPT ![r] = p] /\ CallOK(p)
    BY <1>1, <1>2, <1>3, <1>4, CallFacts, ReadBucketSteps
  <1> QED
    BY <1>5, CallFacts, ReaderKeeps, ReadBucketSteps

LEMMA TierReturn ==
  ASSUME TierInv, NEW r \in Readers, NEW rows, rows \subseteq Ids, Return(r, rows)
  PROVE  TierInv'
  <1>1. PICK p \in Call : p = NoPage /\ CallOK(p)
    BY CallFacts
  <1>2. page' = [page EXCEPT ![r] = p] /\ UNCHANGED <<vars, bucket, job>>
    BY <1>1 DEF Return
  <1>3. rows # {} => Greatest(rows) \in Nat
    BY CallFacts, RangeTyped
  <1>4. read' \in [Readers -> Nat]
    BY <1>3, CallFacts DEF Return
  <1> QED
    BY <1>1, <1>2, <1>4, ReaderKeeps

LEMMA PagesAreIds ==
  ASSUME TierInv, NEW r \in Readers
  PROVE  FastRows(r) \subseteq Ids /\ SpillRows(r) \subseteq Ids
  <1>1. LiveAfter(r) \subseteq Ids
    BY CallFacts DEF LiveAfter, Typed, TypeOK
  <1>2. FirstN(LiveAfter(r), PageSize) \subseteq Ids
    BY <1>1, FirstSubset
  <1>3. page[r].rows \subseteq Ids
    BY CallFacts DEF CallOK
  <1> QED
    BY <1>2, <1>3, FirstSubset DEF FastRows, SpillRows

LEMMA TierReader ==
  ASSUME TierInv, NEW r \in Readers, PollResolve(r)
  PROVE  TierInv'
  <1>1. CASE FastPage(r) \/ SpillPage(r)
    BY <1>1, PagesAreIds, TierReturn DEF FastPage, SpillPage
  <1> QED
    BY <1>1, TierProbe, TierListBuckets, TierReadBucket DEF PollResolve

LEMMA TierNext == TierInv /\ [TieredNext]_tieredVars => TierInv'
  <1> SUFFICES ASSUME TierInv, [TieredNext]_tieredVars PROVE TierInv'
    OBVIOUS
  <1>1. ASSUME NEW w \in Sweepers, RunSweepV2(w) \/ Crash(w) PROVE TierInv'
    <2>1. job[w].plan \subseteq Buckets
      BY SweepFacts DEF Job
    <2>2. ASSUME NEW b \in job[w].plan,
                 \/ SkipLocked(w, b) \/ Opening(w, b)
                 \/ InsertRows(w, b) \/ ReadRange(w, b) \/ WriteRange(w, b)
          PROVE  TierInv'
      BY <2>1, <2>2, TierSkipLocked, TierOpening, TierInsertRows, TierReadRange, TierWriteRange
    <2> QED
      BY <1>1, <2>2, TierReadOwed, TierDropOwed, TierSelectBatch, TierDeleteMoved, TierCrash
         DEF RunSweepV2, Opening
  <1>2. CASE UNCHANGED tieredVars
    BY <1>2, TierLibrary DEF tieredVars
  <1> QED
    BY <1>1, <1>2, TierLibrary, TierReader DEF TieredNext

(* Every file, sweep and call holds what it can hold, and names accepted   *)
(* events only, with any number of sweepers and readers at work.           *)
THEOREM TieredTypeCorrect == TieredSpec => []TieredTypeOK
  <1>1. TierInv => TieredTypeOK
    <2> SUFFICES ASSUME TierInv PROVE TieredTypeOK
      OBVIOUS
    <2>1. ASSUME NEW b \in Buckets
          PROVE  bucket[b] \in
                   [file : {"none", "bare", "ready"}, rows : SUBSET Ids, min : Nat, max : Nat,
                    sealed : BOOLEAN, late : SUBSET Ids]
      <3>1. /\ bucket[b] \in File
            /\ bucket[b].rows \in SUBSET Ids /\ bucket[b].late \in SUBSET Ids
        BY DEF TierInv, Shaped
      <3> QED
        BY <3>1 DEF File
    <2>2. ASSUME NEW w \in Sweepers
          PROVE  job[w] \in
                   [at : {"idle", "drop", "select", "open", "create", "tables", "min", "max",
                          "insert", "rows", "range", "delete"},
                    now : Nat, owed : SUBSET (Subs \X Ids), batch : SUBSET Ids, plan : SUBSET Buckets,
                    moved : SUBSET Ids, lo : Nat, hi : Nat]
      <3>1. job[w] \in Job /\ JobOK(job[w])
        BY DEF TierInv, Shaped
      <3>2. /\ job[w].owed \in SUBSET (Subs \X Ids)
            /\ job[w].batch \in SUBSET Ids /\ job[w].moved \in SUBSET Ids
        BY <3>1 DEF JobOK
      <3> QED
        BY <3>1, <3>2 DEF Job, JobLabels
    <2>3. ASSUME NEW r \in Readers
          PROVE  page[r] \in
                   [at : {"idle", "live", "list", "warm"}, minLive : Nat, todo : SUBSET Buckets,
                    rows : SUBSET Ids, count : Nat, known : SUBSET Ids]
      <3>1. page[r] \in Call /\ CallOK(page[r])
        BY DEF TierInv, Shaped
      <3>2. page[r].rows \in SUBSET Ids /\ page[r].known \in SUBSET Ids
        BY <3>1 DEF CallOK
      <3> QED
        BY <3>1, <3>2 DEF Call, CallLabels
    <2>4. bucket \in [Buckets ->
            [file : {"none", "bare", "ready"}, rows : SUBSET Ids, min : Nat, max : Nat,
             sealed : BOOLEAN, late : SUBSET Ids]]
      BY <2>1 DEF TierInv, Shaped
    <2>5. job \in [Sweepers ->
            [at : {"idle", "drop", "select", "open", "create", "tables", "min", "max",
                   "insert", "rows", "range", "delete"},
             now : Nat, owed : SUBSET (Subs \X Ids), batch : SUBSET Ids, plan : SUBSET Buckets,
             moved : SUBSET Ids, lo : Nat, hi : Nat]]
      BY <2>2 DEF TierInv, Shaped
    <2>6. page \in [Readers ->
            [at : {"idle", "live", "list", "warm"}, minLive : Nat, todo : SUBSET Buckets,
             rows : SUBSET Ids, count : Nat, known : SUBSET Ids]]
      BY <2>3 DEF TierInv, Shaped
    <2> QED
      BY <2>4, <2>5, <2>6 DEF TierInv, Shaped, Typed, TieredTypeOK
  <1> QED
    BY <1>1, TierInit, TierNext, PTL DEF TieredSpec

(* Unless the policy is 'discard', no accepted event is ever outside both  *)
(* tiers, whichever sweeper dies where, with any number of them at work.   *)
THEOREM NeverOutsideBothTiers == TieredSpec => []InSomeTier
  <1>1. TierInv => InSomeTier
    BY DEF TierInv
  <1> QED
    BY <1>1, TierInit, TierNext, PTL DEF TieredSpec

(* Under 'retain' an event somebody has a claim to leaves the live tier    *)
(* only past the cap, for a bucket, and with its owner named in a report,  *)
(* whenever that owner came and whatever other sweeps do.                  *)
THEOREM OwedNamed == TieredSpec => []OwedLeavesNamed
  <1>1. TierInv => OwedLeavesNamed
    BY DEF TierInv
  <1> QED
    BY <1>1, TierInit, TierNext, PTL DEF TieredSpec

--------------------------------------------------------------------------------
(* The ranges in _meta are true, but for the late rows, and pages can be    *)
(* built on them.  That a bucket covers an id is not inductive: a crash     *)
(* between the insert and the range leaves rows outside a range, and        *)
(* sealing the file uncovers them.  That it holds the id within its range,  *)
(* unless the row came late (Shelved), is, and it is only for such rows     *)
(* that the delete comes.                                                  *)
Ranged(b, i) == bucket[b].min # 0 /\ bucket[b].min <= i /\ i <= bucket[b].max
Holds(b, i) == i \in bucket[b].rows /\ (i \in bucket[b].late \/ Ranged(b, i))

Shelved(i) == \E b \in Buckets : Holds(b, i)

AllShelved == Policy # "discard" => \A i \in Ids \ live : Shelved(i)

(* The moved rows of earlier buckets are shelved; the range that is about  *)
(* to be written spans the bucket, but for the rows that came since.       *)
JobShelves(j) ==
  /\ \A i \in j.moved \ j.batch : Shelved(i)
  /\ j.at = "range" => \A b \in Buckets : TurnOf(j, b) =>
       j.lo # 0 /\ \A i \in bucket[b].rows \ bucket[b].late : j.lo <= i /\ i <= j.hi

(* What a call p at position n has to find in the warm tier, and will.     *)
Missing(p, n) == {i \in p.known \ Late : i > n /\ ~(p.minLive \in 1 .. i)}

CallFinds(p, n) ==
  p.at = "warm" /\ p.count < PageSize =>
    \A i \in Missing(p, n) : i \in p.rows \/ \E b \in p.todo : i \in bucket[b].rows

ShelfInv ==
  /\ TierInv
  /\ AllShelved
  /\ \A w \in Sweepers : JobShelves(job[w])
  /\ Policy # "discard" => \A r \in Readers : CallFinds(page[r], read[r])

LEMMA ShelvedStays ==
  ASSUME \A b \in Buckets : \A i : Holds(b, i) => Holds(b, i)'
  PROVE  \A i : Shelved(i) => Shelved(i)'
  BY DEF Shelved

(* Steps of a sweeper, which change no call: no row that another's range is *)
(* about to be written over comes but as a late one.                       *)
LEMMA ShelfSweeper ==
  ASSUME ShelfInv, TierInv', NEW w \in Sweepers, JobShelves(job[w])',
         \A v \in Sweepers \ {w} : job'[v] = job[v],
         \A v \in Sweepers \ {w} : \A b \in Buckets :
           job[v].at = "range" /\ TurnOf(job[v], b) =>
             bucket'[b].rows \ bucket'[b].late \subseteq bucket[b].rows \ bucket[b].late,
         \A b \in Buckets :
           bucket[b].rows \subseteq bucket'[b].rows /\ bucket[b].late \subseteq bucket'[b].late,
         \A b \in Buckets : \A i : Holds(b, i) => Holds(b, i)',
         Policy # "discard" => \A i \in live \ live' : Shelved(i),
         UNCHANGED <<log, page, read>>
  PROVE  ShelfInv'
  <1>1. \A i : Shelved(i) => Shelved(i)'
    BY ShelvedStays
  <1>2. AllShelved'
    BY <1>1 DEF ShelfInv, AllShelved, Ids
  <1>3. ASSUME NEW v \in Sweepers PROVE JobShelves(job[v])'
    <2>1. CASE v = w
      BY <2>1
    <2>2. CASE v # w
      <3>1. PICK j \in Job : j = job[v] /\ JobShelves(j)
        BY DEF ShelfInv, TierInv, Shaped
      <3>2. job'[v] = j
        BY <2>2, <3>1
      <3>3. \A b : TurnOf(j, b)' <=> TurnOf(j, b)
        BY DEF TurnOf, GroupOf, Month
      <3>4. ASSUME j.at = "range", NEW b \in Buckets, TurnOf(j, b)
            PROVE  /\ j.lo # 0
                   /\ \A i \in bucket'[b].rows \ bucket'[b].late : j.lo <= i /\ i <= j.hi
        <4>1. bucket'[b].rows \ bucket'[b].late \subseteq bucket[b].rows \ bucket[b].late
          BY <2>2, <3>1, <3>4
        <4> QED
          BY <3>1, <3>4, <4>1 DEF JobShelves
      <3>5. \A i \in j.moved \ j.batch : Shelved(i)'
        BY <1>1, <3>1 DEF JobShelves
      <3>6. JobShelves(j)'
        BY <3>3, <3>4, <3>5 DEF JobShelves
      <3> QED
        BY <3>2, <3>6
    <2> QED
      BY <2>1, <2>2
  <1>4. ASSUME NEW r \in Readers, CallFinds(page[r], read[r]) PROVE CallFinds(page[r], read[r])'
    <2>1. PICK p \in Call : p = page[r]
      BY DEF ShelfInv, TierInv, Shaped
    <2>2. p.todo \subseteq Buckets
      BY DEF Call
    <2>3. Late \subseteq Late'
      BY DEF Late
    <2>4. Missing(p, read[r])' \subseteq Missing(p, read[r])
      BY <2>3 DEF Missing
    <2>5. CallFinds(p, read[r])'
      BY <1>4, <2>1, <2>2, <2>4 DEF CallFinds
    <2> QED
      BY <2>1, <2>5
  <1> QED
    BY <1>2, <1>3, <1>4 DEF ShelfInv

LEMMA ShelfTables ==
  ASSUME ShelfInv, NEW w \in Sweepers, ReadOwed(w) \/ DropOwed(w) \/ Crash(w)
  PROVE  ShelfInv'
  <1>1. PICK i \in Job : i = job[w] /\ JobOK(i)
    BY SweepFacts DEF ShelfInv
  <1>2. TierInv' /\ job \in [Sweepers -> Job]
    BY TierReadOwed, TierDropOwed, TierCrash, SweepFacts DEF ShelfInv
  <1>3. job'[w].moved = {} /\ job'[w].at # "range"
    <2>1. CASE ReadOwed(w)
      BY <1>1, <1>2, <2>1 DEF ReadOwed, JobOK, Job
    <2>2. CASE DropOwed(w)
      BY <1>1, <1>2, <2>2 DEF DropOwed, JobOK, Job
    <2>3. CASE Crash(w)
      BY <1>2, <2>3 DEF Crash, NoJob
    <2> QED
      BY <2>1, <2>2, <2>3
  <1>4. JobShelves(job[w])'
    BY <1>3 DEF JobShelves
  <1>5. UNCHANGED <<log, bucket, page, read>> /\ (Policy # "discard" => live' = live)
    BY DEF ReadOwed, DropOwed, Crash, vars, tables
  <1>6. \A b \in Buckets : \A k : Holds(b, k) => Holds(b, k)'
    BY <1>5 DEF Holds, Ranged
  <1>7. \A v \in Sweepers \ {w} : job'[v] = job[v]
    BY <1>2 DEF ReadOwed, DropOwed, Crash
  <1> QED
    BY <1>2, <1>4, <1>5, <1>6, <1>7, ShelfSweeper

LEMMA ShelfSelectBatch ==
  ASSUME ShelfInv, NEW w \in Sweepers, SelectBatch(w)
  PROVE  ShelfInv'
  <1>1. PICK i \in Job : i = job[w] /\ JobOK(i)
    BY SweepFacts DEF ShelfInv
  <1>2. TierInv' /\ job \in [Sweepers -> Job] /\ bucket \in [Buckets -> File]
    BY TierSelectBatch, SweepFacts DEF ShelfInv
  <1>3. i.moved = {}
    BY <1>1 DEF SelectBatch, JobOK
  <1>4. PICK plan, outgrown :
          /\ bucket' = [b \in Buckets |->
               IF b \in outgrown THEN [bucket[b] EXCEPT !.sealed = TRUE] ELSE bucket[b]]
          /\ job' = [job EXCEPT ![w] =
               IF plan = {} THEN NoJob
               ELSE [@ EXCEPT !.at = "open", !.batch = Candidates(w), !.plan = plan]]
    BY DEF SelectBatch
  <1>5. job'[w].moved = {} /\ job'[w].at # "range"
    BY <1>1, <1>2, <1>3, <1>4 DEF NoJob, Job
  <1>6. JobShelves(job[w])'
    BY <1>5 DEF JobShelves
  <1>7. ASSUME NEW b \in Buckets
        PROVE  /\ bucket'[b].rows = bucket[b].rows /\ bucket'[b].late = bucket[b].late
               /\ bucket'[b].min = bucket[b].min /\ bucket'[b].max = bucket[b].max
    <2>1. PICK x \in File : x = bucket[b]
      BY <1>2
    <2> QED
      BY <1>4, <2>1 DEF File
  <1>8. \A b \in Buckets : \A k : Holds(b, k) => Holds(b, k)'
    BY <1>7 DEF Holds, Ranged
  <1>9. UNCHANGED <<log, live, page, read>>
    BY DEF SelectBatch, vars, tables
  <1>10. \A v \in Sweepers \ {w} : job'[v] = job[v]
    BY <1>2, <1>4
  <1> QED
    BY <1>2, <1>6, <1>7, <1>8, <1>9, <1>10, ShelfSweeper

(* Whatever was moved and is no longer in the batch is shelved, when the   *)
(* rows of the bucket whose turn it was are.                               *)
LEMMA ContinuedShelves ==
  ASSUME ShelfInv, NEW w \in Sweepers, NEW b \in Buckets, Turn(w, b),
         job[w].at \in {"open", "range"}, job' = [job EXCEPT ![w] = AfterGroup(w, b)],
         \A i : Shelved(i) => Shelved(i)',
         job[w].at = "range" => \A i \in bucket[b].rows : Shelved(i)'
  PROVE  JobShelves(job[w])'
  <1>1. PICK j \in Job : j = job[w] /\ JobOK(j) /\ TurnOf(j, b) /\ Group(w, b) = GroupOf(j, b)
    BY SweepFacts DEF ShelfInv
  <1>2. job'[w] = AfterGroup(w, b)
    BY SweepFacts DEF ShelfInv
  <1>3. CASE j.plan = {b} /\ j.moved = {}
    BY <1>1, <1>2, <1>3 DEF AfterGroup, NoJob, JobShelves
  <1>4. CASE ~(j.plan = {b} /\ j.moved = {})
    <2> DEFINE label == IF j.plan = {b} THEN "delete" ELSE "open"
               k == [j EXCEPT !.at = label, !.lo = 0, !.hi = 0,
                              !.batch = @ \ GroupOf(j, b), !.plan = @ \ {b}]
    <2>1. job'[w] = k
      BY <1>1, <1>2, <1>4 DEF AfterGroup
    <2>2. label # "range"
      OBVIOUS
    <2> HIDE DEF label
    <2>3. k.at = label /\ k.moved = j.moved /\ k.batch = j.batch \ GroupOf(j, b)
      BY DEF Job
    <2> HIDE DEF k
    <2>4. ASSUME NEW i \in j.moved, i \notin j.batch \ GroupOf(j, b) PROVE Shelved(i)'
      <3>1. CASE i \notin j.batch
        BY <1>1, <3>1 DEF ShelfInv, JobShelves
      <3>2. CASE i \in j.batch
        <4>1. j.at = "range" /\ i \in GroupOf(j, b)
          BY <1>1, <2>4, <3>2 DEF JobOK
        <4>2. i \in bucket[b].rows
          BY <1>1, <4>1 DEF JobOK
        <4> QED
          BY <1>1, <4>1, <4>2
      <3> QED
        BY <3>1, <3>2
    <2>5. \A i \in (job[w].moved)' \ (job[w].batch)' : Shelved(i)'
      BY <2>1, <2>3, <2>4
    <2> QED
      BY <2>1, <2>2, <2>3, <2>5 DEF JobShelves
  <1> QED
    BY <1>3, <1>4

LEMMA ShelfSkipLocked ==
  ASSUME ShelfInv, NEW w \in Sweepers, NEW b \in Buckets, SkipLocked(w, b)
  PROVE  ShelfInv'
  <1>1. TierInv'
    BY TierSkipLocked DEF ShelfInv
  <1>2. UNCHANGED <<log, live, bucket, page, read>>
    BY DEF SkipLocked, vars, tables
  <1>3. \A c \in Buckets : \A i : Holds(c, i) => Holds(c, i)'
    BY <1>2 DEF Holds, Ranged
  <1>4. \A i : Shelved(i) => Shelved(i)'
    BY <1>3, ShelvedStays
  <1>5. JobShelves(job[w])'
    BY <1>4, ContinuedShelves DEF SkipLocked
  <1>6. \A v \in Sweepers \ {w} : job'[v] = job[v]
    BY SweepFacts DEF ShelfInv, SkipLocked
  <1> QED
    BY <1>1, <1>2, <1>3, <1>5, <1>6, ShelfSweeper

LEMMA ShelfOpening ==
  ASSUME ShelfInv, NEW w \in Sweepers, NEW b \in Buckets, Opening(w, b)
  PROVE  ShelfInv'
  <1>1. PICK i \in Job : i = job[w] /\ JobShelves(i)
    BY SweepFacts DEF ShelfInv
  <1>2. TierInv' /\ job \in [Sweepers -> Job] /\ bucket \in [Buckets -> File]
    BY TierOpening, SweepFacts DEF ShelfInv
  <1>3. PICK label \in {"create", "tables", "min", "max", "insert"} :
          job' = [job EXCEPT ![w] = [i EXCEPT !.at = label]]
    BY <1>1, OpeningStep DEF ShelfInv
  <1>4. PICK x \in File :
          /\ bucket' = [bucket EXCEPT ![b] = x]
          /\ x.rows = bucket[b].rows
          /\ \/ x.late = x.rows
             \/ x.late = bucket[b].late /\ x.min = bucket[b].min /\ x.max = bucket[b].max
    BY OpeningStep DEF ShelfInv
  <1>5. UNCHANGED <<log, live, page, read>>
    BY OpeningStep DEF ShelfInv, vars, tables
  <1>6. bucket'[b] = x /\ \A c \in Buckets \ {b} : bucket'[c] = bucket[c]
    BY <1>2, <1>4
  <1>7. \A c \in Buckets :
          /\ bucket'[c].rows = bucket[c].rows
          /\ bucket[c].late \subseteq bucket'[c].late
    BY <1>4, <1>6, SweepFacts DEF ShelfInv
  <1>8. \A c \in Buckets : \A k : Holds(c, k) => Holds(c, k)'
    BY <1>4, <1>6 DEF Holds, Ranged
  <1>9. JobShelves(job[w])'
    <2>1. /\ job'[w].at # "range" /\ job'[w].batch = i.batch /\ job'[w].moved = i.moved
      BY <1>2, <1>3 DEF Job
    <2>2. \A k : Shelved(k) => Shelved(k)'
      BY <1>8, ShelvedStays
    <2> QED
      BY <1>1, <2>1, <2>2 DEF JobShelves
  <1>10. \A v \in Sweepers \ {w} : job'[v] = job[v]
    BY <1>2, <1>3
  <1> QED
    BY <1>2, <1>5, <1>7, <1>8, <1>9, <1>10, ShelfSweeper

LEMMA ShelfInsertRows ==
  ASSUME ShelfInv, NEW w \in Sweepers, NEW b \in Buckets, InsertRows(w, b)
  PROVE  ShelfInv'
  <1>1. PICK i \in Job : i = job[w] /\ Group(w, b) = GroupOf(i, b)
    BY SweepFacts DEF ShelfInv
  <1>2. TierInv' /\ job \in [Sweepers -> Job] /\ bucket \in [Buckets -> File]
    BY TierInsertRows, SweepFacts DEF ShelfInv
  <1> DEFINE rows == bucket[b].rows \cup Group(w, b)
             late == IF RangeInHand(w, b)
                       THEN bucket[b].late \cup (Group(w, b) \ bucket[b].rows)
                       ELSE bucket[b].late
  <1>3. /\ bucket' = [bucket EXCEPT ![b] = [bucket[b] EXCEPT !.rows = rows, !.late = late]]
        /\ job' = [job EXCEPT ![w].at = "rows", ![w].moved = @ \cup Group(w, b)]
        /\ UNCHANGED <<vars, page, read>>
    BY <1>2 DEF InsertRows
  <1>4. /\ bucket'[b].rows = rows /\ bucket'[b].late = late
        /\ bucket'[b].min = bucket[b].min /\ bucket'[b].max = bucket[b].max
        /\ \A c \in Buckets \ {b} : bucket'[c] = bucket[c]
    <2>1. PICK x \in File : x = bucket[b]
      BY <1>2
    <2> HIDE DEF rows, late
    <2> QED
      BY <1>2, <1>3, <2>1 DEF File
  <1>5. bucket[b].rows \subseteq rows /\ bucket[b].late \subseteq late
    OBVIOUS
  <1>6. ASSUME NEW v \in Sweepers \ {w}, NEW c \in Buckets, job[v].at = "range", TurnOf(job[v], c)
        PROVE  bucket'[c].rows \ bucket'[c].late \subseteq bucket[c].rows \ bucket[c].late
    <2>1. CASE c # b
      BY <1>4, <2>1
    <2>2. CASE c = b
      <3>1. RangeInHand(w, b)
        BY <1>6, <2>2, SweepFacts DEF RangeInHand, ShelfInv
      <3> QED
        BY <1>4, <2>2, <3>1
    <2> QED
      BY <2>1, <2>2
  <1> HIDE DEF rows, late
  <1>7. \A c \in Buckets : \A k : Holds(c, k) => Holds(c, k)'
    BY <1>4, <1>5 DEF Holds, Ranged
  <1>8. \A k : Shelved(k) => Shelved(k)'
    BY <1>7, ShelvedStays
  <1>9. JobShelves(job[w])'
    <2>1. /\ job'[w].at = "rows" /\ job'[w].batch = i.batch
          /\ job'[w].moved = i.moved \cup GroupOf(i, b)
      BY <1>1, <1>2, <1>3 DEF Job
    <2>2. GroupOf(i, b) \subseteq i.batch
      BY DEF GroupOf
    <2>3. \A k \in i.moved \ i.batch : Shelved(k)
      BY <1>1 DEF ShelfInv, JobShelves
    <2> QED
      BY <1>8, <2>1, <2>2, <2>3 DEF JobShelves
  <1>10. \A c \in Buckets :
           bucket[c].rows \subseteq bucket'[c].rows /\ bucket[c].late \subseteq bucket'[c].late
    BY <1>4, <1>5
  <1>11. UNCHANGED <<log, live, page, read>> /\ \A v \in Sweepers \ {w} : job'[v] = job[v]
    BY <1>2, <1>3 DEF vars, tables
  <1> QED
    BY <1>2, <1>6, <1>7, <1>9, <1>10, <1>11, ShelfSweeper

LEMMA ShelfReadRange ==
  ASSUME ShelfInv, NEW w \in Sweepers, NEW b \in Buckets, ReadRange(w, b)
  PROVE  ShelfInv'
  <1>1. PICK i \in Job : i = job[w] /\ JobOK(i) /\ TurnOf(i, b)
    BY SweepFacts DEF ShelfInv, ReadRange
  <1>2. TierInv' /\ job \in [Sweepers -> Job] /\ Typed
    BY TierReadRange, SweepFacts DEF ShelfInv
  <1>3. bucket[b].rows \subseteq Ids /\ bucket[b].rows # {}
    <2>1. GroupOf(i, b) \subseteq bucket[b].rows
      BY <1>1 DEF JobOK, ReadRange
    <2> QED
      BY <1>1, <2>1, SweepFacts DEF TurnOf, ShelfInv
  <1>4. PICK lo \in Nat, hi \in Nat :
          /\ lo = Least(bucket[b].rows) /\ hi = Greatest(bucket[b].rows) /\ lo # 0
          /\ \A k \in bucket[b].rows : lo <= k /\ k <= hi
    BY <1>2, <1>3, RangeTyped
  <1> DEFINE j == [i EXCEPT !.lo = lo, !.hi = hi, !.at = "range"]
  <1>5. job'[w] = j /\ UNCHANGED <<vars, bucket, page, read>>
    BY <1>1, <1>2, <1>4 DEF ReadRange
  <1>6. /\ j.lo = lo /\ j.hi = hi /\ j.batch = i.batch /\ j.moved = i.moved /\ j.plan = i.plan
    BY DEF Job
  <1> HIDE DEF j
  <1>7. /\ UNCHANGED <<log, live, page, read>> /\ bucket' = bucket
        /\ \A v \in Sweepers \ {w} : job'[v] = job[v]
    BY <1>2, <1>5 DEF vars, tables, ReadRange
  <1>8. \A c \in Buckets : \A k : Holds(c, k) => Holds(c, k)'
    BY <1>7 DEF Holds, Ranged
  <1>9. \A k : Shelved(k) => Shelved(k)'
    BY <1>8, ShelvedStays
  <1>10. JobShelves(job[w])'
    <2>1. \A k \in i.moved \ i.batch : Shelved(k)
      BY <1>1 DEF ShelfInv, JobShelves
    <2>2. \A c : TurnOf(j, c)' <=> TurnOf(i, c)
      BY <1>6, <1>7 DEF TurnOf, GroupOf, Month
    <2>3. \A c : TurnOf(j, c)' => c = b
      BY <1>1, <1>2, <2>2, TurnIsUnique
    <2> QED
      BY <1>4, <1>5, <1>6, <1>7, <1>9, <2>1, <2>3 DEF JobShelves
  <1> QED
    BY <1>2, <1>7, <1>8, <1>10, ShelfSweeper

LEMMA ShelfWriteRange ==
  ASSUME ShelfInv, NEW w \in Sweepers, NEW b \in Buckets, WriteRange(w, b)
  PROVE  ShelfInv'
  <1>1. PICK i \in Job : i = job[w] /\ JobOK(i) /\ TurnOf(i, b)
    BY SweepFacts DEF ShelfInv, WriteRange
  <1>2. TierInv' /\ bucket \in [Buckets -> File]
    BY TierWriteRange, SweepFacts DEF ShelfInv
  <1>3. PICK x \in File : x = bucket[b]
    BY <1>2
  <1>4. PICK lo \in Nat, hi \in Nat : lo = i.lo /\ hi = i.hi
    BY DEF Job
  <1> DEFINE y == [x EXCEPT !.min = lo, !.max = hi]
  <1>5. /\ bucket' = [bucket EXCEPT ![b] = y]
        /\ job' = [job EXCEPT ![w] = AfterGroup(w, b)]
        /\ UNCHANGED <<vars, page, read>>
    BY <1>1, <1>2, <1>3, <1>4 DEF WriteRange
  <1>6. y.rows = x.rows /\ y.late = x.late /\ y.min = lo /\ y.max = hi
    BY DEF File
  <1> HIDE DEF y
  <1>7. bucket'[b] = y /\ \A c \in Buckets \ {b} : bucket'[c] = bucket[c]
    BY <1>2, <1>5
  <1>8. lo # 0 /\ \A k \in bucket[b].rows \ bucket[b].late : lo <= k /\ k <= hi
    BY <1>1, <1>4 DEF ShelfInv, JobShelves, WriteRange
  <1>9. \A k \in bucket[b].rows : Holds(b, k)'
    BY <1>3, <1>6, <1>7, <1>8 DEF Holds, Ranged
  <1>10. \A c \in Buckets : \A k : Holds(c, k) => Holds(c, k)'
    BY <1>7, <1>9 DEF Holds, Ranged
  <1>11. (\A k : Shelved(k) => Shelved(k)') /\ \A k \in bucket[b].rows : Shelved(k)'
    BY <1>9, <1>10, ShelvedStays DEF Shelved
  <1>12. JobShelves(job[w])'
    BY <1>1, <1>5, <1>11, ContinuedShelves DEF WriteRange
  <1>13. UNCHANGED <<log, live, page, read>> /\ \A v \in Sweepers \ {w} : job'[v] = job[v]
    BY <1>5, SweepFacts DEF vars, tables, ShelfInv
  <1>14. \A c \in Buckets :
           bucket'[c].rows = bucket[c].rows /\ bucket'[c].late = bucket[c].late
    BY <1>3, <1>6, <1>7
  <1> QED
    BY <1>2, <1>10, <1>12, <1>13, <1>14, ShelfSweeper

LEMMA ShelfDeleteMoved ==
  ASSUME ShelfInv, NEW w \in Sweepers, DeleteMoved(w)
  PROVE  ShelfInv'
  <1>1. PICK i \in Job : i = job[w] /\ JobOK(i) /\ i.at = "delete"
    BY SweepFacts DEF ShelfInv, DeleteMoved
  <1>2. TierInv' /\ job \in [Sweepers -> Job]
    BY TierDeleteMoved, SweepFacts DEF ShelfInv
  <1>3. /\ UNCHANGED <<log, bucket, page, read>> /\ live \ live' \subseteq i.moved
        /\ job'[w] = NoJob /\ \A v \in Sweepers \ {w} : job'[v] = job[v]
    BY <1>1, <1>2 DEF DeleteMoved
  <1>4. \A k \in i.moved : Shelved(k)
    BY <1>1 DEF ShelfInv, JobShelves, JobOK
  <1>5. JobShelves(job[w])'
    BY <1>3 DEF JobShelves, NoJob
  <1>6. \A c \in Buckets : \A k : Holds(c, k) => Holds(c, k)'
    BY <1>3 DEF Holds, Ranged
  <1> QED
    BY <1>2, <1>3, <1>4, <1>5, <1>6, ShelfSweeper

(* The buckets a call opens hold what is missing.                          *)
LEMMA GapFinds ==
  ASSUME ShelfInv, Policy # "discard", NEW r \in Readers,
         NEW i \in Missing(page[r], read[r])
  PROVE  \E b \in Gap(r) : i \in bucket[b].rows
  <1>1. PICK q \in Call : q = page[r] /\ CallOK(q)
    BY CallFacts DEF ShelfInv
  <1>2. PICK n \in Nat : n = read[r]
    BY CallFacts DEF ShelfInv
  <1>3. i \in Ids \ live /\ i \notin Late /\ i > n /\ ~(q.minLive \in 1 .. i) /\ q.minLive \in Nat
    BY <1>1, <1>2 DEF Missing, CallOK, Call
  <1>4. i \in Nat /\ i <= MaxEvents /\ Len(log) \in Nat /\ MaxEvents \in Nat
    <2>1. Typed /\ Len(log) <= MaxEvents
      BY DEF ShelfInv, TierInv
    <2>2. i <= Len(log) /\ i \in Nat /\ Len(log) \in Nat
      BY <1>3, <2>1, IdFacts
    <2> QED
      BY <2>1, <2>2, StoreAssumption
  <1>5. PICK b \in Buckets : Holds(b, i)
    BY <1>3 DEF ShelfInv, AllShelved, Shelved
  <1>6. PICK x \in File : x = bucket[b]
    BY DEF ShelfInv, TierInv, Shaped
  <1>7. x.min \in Nat /\ x.max \in Nat /\ x.min # 0 /\ x.min <= i /\ i <= x.max
    BY <1>3, <1>5, <1>6 DEF Holds, Ranged, Late, File
  <1> DEFINE to == IF q.minLive = 0 THEN MaxEvents ELSE q.minLive - 1
  <1>8. x.min \in 1 .. to
    <2>1. CASE q.minLive = 0
      BY <1>4, <1>7, <2>1
    <2>2. CASE q.minLive # 0
      <3>1. i < q.minLive
        BY <1>3, <1>4, <2>2
      <3> QED
        BY <1>3, <1>4, <1>7, <2>2, <3>1
    <2> QED
      BY <2>1, <2>2
  <1>9. x.max >= n
    BY <1>3, <1>4, <1>7
  <1>10. Covers(b, n, to)
    BY <1>6, <1>8, <1>9 DEF Covers
  <1>11. b \in Gap(r)
    BY <1>1, <1>2, <1>10 DEF Gap
  <1> QED
    BY <1>5, <1>11 DEF Holds

(* Steps of a reader.                                                      *)
LEMMA ShelfReader ==
  ASSUME ShelfInv, TierInv', NEW r \in Readers, UNCHANGED <<vars, bucket, job>>,
         page' \in [Readers -> Call], read' \in [Readers -> Nat],
         \A c \in Readers \ {r} : page'[c] = page[c] /\ read'[c] = read[c],
         Policy # "discard" => CallFinds(page[r], read[r])'
  PROVE  ShelfInv'
  <1>1. UNCHANGED <<log, live, bucket, job>>
    BY DEF vars, tables
  <1>2. AllShelved' /\ \A w \in Sweepers : JobShelves(job[w])'
    BY <1>1 DEF ShelfInv, AllShelved, JobShelves, Shelved, Holds, Ranged, Ids, TurnOf,
                GroupOf, Month
  <1>3. ASSUME Policy # "discard", NEW c \in Readers PROVE CallFinds(page[c], read[c])'
    <2>1. CASE c = r
      BY <1>3, <2>1
    <2>2. CASE c # r
      <3>1. CallFinds(page[c], read[c])
        BY <1>3 DEF ShelfInv
      <3> QED
        BY <1>1, <2>2, <3>1 DEF CallFinds, Missing, Late
    <2> QED
      BY <2>1, <2>2
  <1> QED
    BY <1>2, <1>3 DEF ShelfInv

LEMMA ShelfProbe ==
  ASSUME ShelfInv, NEW r \in Readers, Probe(r) \/ FastPage(r) \/ SpillPage(r)
  PROVE  ShelfInv'
  <1>1. TierInv'
    BY TierReader DEF ShelfInv, PollResolve
  <1>2. /\ page \in [Readers -> Call] /\ read \in [Readers -> Nat]
        /\ page' \in [Readers -> Call] /\ read' \in [Readers -> Nat]
    BY <1>1 DEF ShelfInv, TierInv, Shaped
  <1>3. page'[r].at # "warm"
    <2>1. CASE Probe(r)
      <3>1. PICK label \in {"live", "list"} :
              label = IF live # {} /\ read[r] >= OldestLive THEN "live" ELSE "list"
        OBVIOUS
      <3>2. page'[r] = [NoPage EXCEPT !.at = label, !.minLive = OldestLive, !.known = Ids \ live]
        BY <1>2, <2>1, <3>1 DEF Probe
      <3> QED
        BY <3>2 DEF NoPage
    <2>2. CASE FastPage(r) \/ SpillPage(r)
      BY <1>2, <2>2 DEF FastPage, SpillPage, Return, NoPage
    <2> QED
      BY <2>1, <2>2
  <1>4. UNCHANGED <<vars, bucket, job>>
    BY DEF Probe, FastPage, SpillPage, Return
  <1>5. \A c \in Readers \ {r} : page'[c] = page[c] /\ read'[c] = read[c]
    BY <1>2 DEF Probe, FastPage, SpillPage, Return
  <1> QED
    BY <1>1, <1>2, <1>3, <1>4, <1>5, ShelfReader DEF CallFinds

LEMMA ShelfListBuckets ==
  ASSUME ShelfInv, NEW r \in Readers, ListBuckets(r)
  PROVE  ShelfInv'
  <1>1. TierInv'
    BY TierListBuckets DEF ShelfInv
  <1>2. /\ page \in [Readers -> Call] /\ read \in [Readers -> Nat]
        /\ page' \in [Readers -> Call] /\ read' \in [Readers -> Nat]
    BY <1>1 DEF ShelfInv, TierInv, Shaped
  <1>3. PICK q \in Call : q = page[r]
    BY <1>2
  <1>4. UNCHANGED <<vars, bucket, job, read>>
    BY DEF ListBuckets
  <1>5. \A c \in Readers \ {r} : page'[c] = page[c] /\ read'[c] = read[c]
    BY <1>2, <1>4 DEF ListBuckets
  <1>6. page'[r] = NoPage \/ page'[r] = [q EXCEPT !.at = "warm", !.todo = Gap(r)]
    BY <1>2, <1>3 DEF ListBuckets
  <1>7. ASSUME Policy # "discard" PROVE CallFinds(page[r], read[r])'
    <2>1. CASE page'[r] = NoPage
      BY <2>1 DEF CallFinds, NoPage
    <2>2. CASE page'[r] = [q EXCEPT !.at = "warm", !.todo = Gap(r)]
      <3>1. page'[r].todo = Gap(r) /\ page'[r].known = q.known /\ page'[r].minLive = q.minLive
        BY <2>2 DEF Call
      <3>2. Missing(page[r], read[r])' = Missing(page[r], read[r])
        BY <1>3, <1>4, <3>1 DEF Missing, Late
      <3> QED
        BY <1>4, <1>7, <3>1, <3>2, GapFinds DEF CallFinds
    <2> QED
      BY <1>6, <2>1, <2>2
  <1> QED
    BY <1>1, <1>2, <1>4, <1>5, <1>7, ShelfReader

(* A bucket that does not fill the page gave all it has.                   *)
LEMMA WholeBucket ==
  ASSUME TierInv, NEW r \in Readers, NEW b \in Buckets,
         page[r].count + Cardinality(RowsOf(r, b)) < PageSize,
         Cardinality(RowsOf(r, b)) \in Nat
  PROVE  RowsOf(r, b) = {i \in bucket[b].rows : i > read[r]}
  <1> DEFINE S == {i \in bucket[b].rows : i > read[r]}
             n == PageSize - page[r].count
  <1>1. page[r].count \in Nat /\ PageSize \in Nat
    BY CallFacts, TieredAssumption DEF Call
  <1>2. n \in Int /\ Cardinality(RowsOf(r, b)) < n
    BY <1>1
  <1>3. S \subseteq Ids /\ IsFiniteSet(Ids) /\ Ids \subseteq Nat
    BY CallFacts, IdFacts
  <1>4. IsFiniteSet(S) /\ S \subseteq Nat
    BY <1>3, FS_Subset
  <1>5. RowsOf(r, b) = FirstN(S, n)
    BY DEF RowsOf
  <1> HIDE DEF S, n
  <1>6. RowsOf(r, b) = S
    BY <1>2, <1>4, <1>5, FirstNotFull
  <1> QED
    BY <1>6 DEF S

LEMMA ShelfReadBucket ==
  ASSUME ShelfInv, NEW r \in Readers, ReadBucket(r)
  PROVE  ShelfInv'
  <1>1. TierInv' /\ TierInv
    BY TierReadBucket DEF ShelfInv
  <1>2. /\ page \in [Readers -> Call] /\ read \in [Readers -> Nat]
        /\ page' \in [Readers -> Call] /\ read' \in [Readers -> Nat]
    BY <1>1 DEF TierInv, Shaped
  <1>3. PICK q \in Call : q = page[r] /\ CallOK(q)
    BY <1>1, CallFacts
  <1>4. PICK b \in Buckets : b = NextOf(r) /\ b \in q.todo
    BY <1>1, <1>3, NextRows, ReadBucketSteps
  <1>5. PICK rows \in SUBSET Ids :
          rows = RowsOf(r, b) /\ rows \subseteq bucket[b].rows /\ Cardinality(rows) \in Nat
    BY <1>1, <1>4, NextRows, ReadBucketSteps, CallFacts
  <1>6. /\ UNCHANGED <<vars, bucket, job, read>>
        /\ page' = [page EXCEPT ![r] = NoPage] \/ page' = [page EXCEPT ![r] = Read(q, b, rows)]
    BY <1>1, <1>3, <1>4, <1>5, ReadBucketSteps
  <1>7. \A c \in Readers \ {r} : page'[c] = page[c] /\ read'[c] = read[c]
    BY <1>2, <1>6
  <1>8. page'[r] = NoPage \/ page'[r] = Read(q, b, rows)
    BY <1>2, <1>6
  <1>9. ASSUME Policy # "discard" PROVE CallFinds(page[r], read[r])'
    <2>1. CASE page'[r] = NoPage
      BY <2>1 DEF CallFinds, NoPage
    <2>2. CASE page'[r] = Read(q, b, rows)
      <3>1. PICK p \in Call : p = Read(q, b, rows)
        BY <1>1, <1>3, ReadCall, CallFacts
      <3>2. /\ p.at = q.at /\ p.minLive = q.minLive /\ p.known = q.known
            /\ p.todo = q.todo \ {b} /\ p.rows = q.rows \cup rows
            /\ p.count = q.count + Cardinality(rows)
        BY <1>1, <1>3, <3>1, ReadCall, CallFacts
      <3> SUFFICES ASSUME p.at = "warm", p.count < PageSize, NEW i \in Missing(p, read[r])
                   PROVE  i \in p.rows \/ \E c \in p.todo : i \in bucket[c].rows
        BY <1>6, <2>2, <3>1 DEF CallFinds, Missing, Late
      <3>3. q.count < PageSize /\ CallFinds(q, read[r])
        BY <1>3, <1>9, ReadBucketSteps, <1>1 DEF ShelfInv
      <3>4. i \in Missing(q, read[r]) /\ i > read[r]
        BY <3>2 DEF Missing
      <3>5. i \in q.rows \/ \E c \in q.todo : i \in bucket[c].rows
        BY <3>2, <3>3, <3>4 DEF CallFinds
      <3>6. CASE i \in bucket[b].rows
        <4>1. rows = {k \in bucket[b].rows : k > read[r]}
          BY <1>1, <1>3, <1>5, <3>2, WholeBucket
        <4> QED
          BY <3>2, <3>4, <3>6, <4>1
      <3> QED
        BY <3>2, <3>5, <3>6
    <2> QED
      BY <1>8, <2>1, <2>2
  <1> QED
    BY <1>1, <1>2, <1>6, <1>7, <1>9, ShelfReader

LEMMA ShelfLibrary ==
  ASSUME ShelfInv, Library \/ UNCHANGED vars, UNCHANGED tiers
  PROVE  ShelfInv'
  <1>1. TierInv' /\ TierInv
    BY TierLibrary DEF ShelfInv
  <1>2. /\ Ids \subseteq Ids' /\ (\A i \in Ids : log'[i] = log[i])
        /\ live \subseteq live' /\ Ids' \ Ids \subseteq live'
    BY LibrarySteps DEF ShelfInv, TierInv
  <1>3. UNCHANGED <<bucket, job, page, read>>
    BY DEF tiers
  <1>4. \A i : Shelved(i) <=> Shelved(i)'
    BY <1>3 DEF Shelved, Holds, Ranged
  <1>5. AllShelved'
    BY <1>2, <1>4 DEF ShelfInv, AllShelved
  <1>6. ASSUME NEW w \in Sweepers PROVE JobShelves(job[w])'
    <2>1. PICK j \in Job : j = job[w] /\ JobOK(j) /\ JobShelves(j)
      BY <1>1, SweepFacts DEF ShelfInv
    <2>2. j.batch \subseteq Ids
      BY <2>1 DEF JobOK
    <2>3. \A b : TurnOf(j, b)' <=> TurnOf(j, b)
      BY <1>2, <2>2 DEF TurnOf, GroupOf, Month
    <2>4. JobShelves(j)'
      BY <1>3, <1>4, <2>1, <2>3 DEF JobShelves
    <2> QED
      BY <1>3, <2>1, <2>4
  <1>7. Policy # "discard" => \A r \in Readers : CallFinds(page[r], read[r])'
    BY <1>3 DEF ShelfInv, CallFinds, Missing, Late
  <1> QED
    BY <1>1, <1>5, <1>6, <1>7 DEF ShelfInv

LEMMA ShelfNext == ShelfInv /\ [TieredNext]_tieredVars => ShelfInv'
  <1> SUFFICES ASSUME ShelfInv, [TieredNext]_tieredVars PROVE ShelfInv'
    OBVIOUS
  <1>1. ASSUME NEW w \in Sweepers, RunSweepV2(w) \/ Crash(w) PROVE ShelfInv'
    <2>1. job[w].plan \subseteq Buckets
      BY SweepFacts DEF Job, ShelfInv
    <2>2. ASSUME NEW b \in job[w].plan,
                 \/ SkipLocked(w, b) \/ Opening(w, b)
                 \/ InsertRows(w, b) \/ ReadRange(w, b) \/ WriteRange(w, b)
          PROVE  ShelfInv'
      BY <2>1, <2>2, ShelfSkipLocked, ShelfOpening, ShelfInsertRows, ShelfReadRange,
         ShelfWriteRange
    <2> QED
      BY <1>1, <2>2, ShelfTables, ShelfSelectBatch, ShelfDeleteMoved DEF RunSweepV2, Opening
  <1>2. ASSUME NEW r \in Readers, PollResolve(r) PROVE ShelfInv'
    BY <1>2, ShelfProbe, ShelfListBuckets, ShelfReadBucket DEF PollResolve
  <1>3. CASE UNCHANGED tieredVars
    BY <1>3, ShelfLibrary DEF tieredVars
  <1> QED
    BY <1>1, <1>2, <1>3, ShelfLibrary DEF TieredNext

LEMMA ShelfInit == TieredInit => ShelfInv
  <1> SUFFICES ASSUME TieredInit PROVE ShelfInv
    OBVIOUS
  <1>1. TierInv
    BY TierInit
  <1>2. AllShelved
    BY DEF AllShelved, TieredInit, Init, Ids
  <1>3. \A w \in Sweepers : JobShelves(job[w])
    BY DEF TieredInit, NoJob, JobShelves
  <1>4. \A r \in Readers : CallFinds(page[r], read[r])
    BY DEF TieredInit, NoPage, CallFinds
  <1> QED
    BY <1>1, <1>2, <1>3, <1>4 DEF ShelfInv

(* Unless the policy is 'discard', whatever left the live tier is in a      *)
(* bucket whose range in _meta contains it, with any number of sweepers at *)
(* work and whichever of their commits they die between.  Excepted are the *)
(* rows another sweeper's range was written over: those that came between  *)
(* its read and its write of the range, or before it created a file that   *)
(* was there already.                                                      *)
THEOREM RangesFind == TieredSpec => []FoundByRange
  <1>1. ShelfInv => FoundByRange
    <2> SUFFICES ASSUME ShelfInv, Policy # "discard", NEW i \in Ids \ (live \cup Late)
                 PROVE  \E b \in Buckets : i \in bucket[b].rows /\ Covers(b, i, i)
      BY DEF FoundByRange
    <2>1. PICK b \in Buckets : i \in bucket[b].rows /\ Ranged(b, i)
      BY DEF ShelfInv, AllShelved, Shelved, Holds, Late
    <2>2. i \in Nat /\ bucket[b].min \in Nat /\ bucket[b].max \in Nat
      <3>1. bucket[b] \in File
        BY DEF ShelfInv, TierInv, Shaped
      <3>2. Typed
        BY DEF ShelfInv, TierInv
      <3> QED
        BY <3>1, <3>2, IdFacts DEF File
    <2> QED
      BY <2>1, <2>2 DEF Ranged, Covers
  <1> QED
    BY <1>1, ShelfInit, ShelfNext, PTL DEF TieredSpec

(* Unless the policy is 'discard', a call that finds no bucket to open, and *)
(* so may be answered with WB-003, is not missing an event that had left   *)
(* the live tier before it and is older than every live row it saw, late   *)
(* rows excepted.  An event between two live rows it may miss: the gap     *)
(* ends below the oldest of them.                                          *)
THEOREM NobodyTurnedAway == TieredSpec => []NeverTurnedAway
  <1>1. ShelfInv => NeverTurnedAway
    <2> SUFFICES ASSUME ShelfInv, Policy # "discard", NEW r \in Readers, Gap(r) = {},
                        NEW i \in page[r].known \ Late
                 PROVE  i <= read[r] \/ page[r].minLive \in 1 .. i
      BY DEF NeverTurnedAway
    <2>1. i \notin Missing(page[r], read[r])
      BY GapFinds
    <2>2. i \in Nat /\ read[r] \in Nat
      <3>1. TierInv
        BY DEF ShelfInv
      <3> QED
        BY <3>1, CallFacts DEF Call
    <2> QED
      BY <2>1, <2>2 DEF Missing
  <1> QED
    BY <1>1, ShelfInit, ShelfNext, PTL DEF TieredSpec

(* The cut that makes a page of warm and live rows keeps every missing row: *)
(* below one there are only rows of the page, which is not full.           *)
LEMMA CutKeepsMissing ==
  ASSUME ShelfInv, Policy # "discard", NEW r \in Readers, SpillPage(r),
         page[r].count < PageSize, NEW i \in Missing(page[r], read[r])
  PROVE  i \in SpillRows(r)
  <1>1. PICK q \in Call : q = page[r] /\ CallOK(q) /\ CallFinds(q, read[r])
    <2>1. TierInv
      BY DEF ShelfInv
    <2> QED
      BY <2>1, CallFacts DEF ShelfInv
  <1>2. q.count \in Nat /\ PageSize \in Nat /\ ~(q.count >= PageSize) /\ q.count < PageSize
    BY <1>1, TieredAssumption DEF Call
  <1>3. i \in q.rows
    BY <1>1, <1>2 DEF SpillPage, CallFinds
  <1> DEFINE newer == FirstN(LiveAfter(r), PageSize)
             all == q.rows \cup newer
             below == {k \in all : k < i}
  <1>4. SpillRows(r) = FirstN(all, PageSize)
    BY <1>1 DEF SpillRows
  <1>5. below \subseteq q.rows
    <2> SUFFICES ASSUME NEW k \in newer, k < i PROVE FALSE
      OBVIOUS
    <2>1. k \in live
      BY FirstSubset DEF LiveAfter
    <2>2. i \in Nat /\ k \in Nat /\ q.minLive \in Nat
      <3>1. Typed
        BY DEF ShelfInv, TierInv
      <3> QED
        BY <1>1, <2>1, <3>1, IdFacts DEF Call, Missing
    <2>3. i \in q.known /\ ~(q.minLive \in 1 .. i)
      BY <1>1 DEF Missing
    <2>4. IF q.minLive = 0 THEN i < k ELSE q.minLive <= k
      BY <1>1, <2>1, <2>3 DEF CallOK
    <2> QED
      BY <2>2, <2>3, <2>4
  <1>6. Cardinality(below) < PageSize
    <2>1. Typed
      BY DEF ShelfInv, TierInv
    <2>2. IsFiniteSet(q.rows)
      BY <1>1, <2>1, IdFacts, FS_Subset DEF CallOK
    <2>3. /\ Cardinality(below) <= Cardinality(q.rows) /\ IsFiniteSet(below)
          /\ Cardinality(q.rows) \in Nat
      BY <1>5, <2>2, FS_Subset, FS_CardinalityType
    <2>4. Cardinality(below) \in Nat
      BY <2>3, FS_CardinalityType
    <2>5. Cardinality(q.rows) <= q.count
      BY <1>1 DEF CallOK
    <2> HIDE DEF below
    <2> QED
      BY <1>2, <2>3, <2>4, <2>5
  <1>7. i \in FirstN(all, PageSize)
    BY <1>3, <1>6 DEF FirstN
  <1> QED
    BY <1>4, <1>7

(* Unless the policy is 'discard', a page that was not filled contains      *)
(* whatever beyond the position had left the live tier when the call began *)
(* and is older than every row that was live then, late rows excepted,     *)
(* however the sweeps, the emits and the acks went on during the call.     *)
THEOREM UnfilledPagesComplete == TieredSpec => UnfilledPageHasNoGap
  <1>1. ASSUME ShelfInv, Policy # "discard", NEW r \in Readers, SpillPage(r),
               page[r].count < PageSize, NEW i \in page[r].known \ Late
        PROVE  i <= read[r] \/ page[r].minLive \in 1 .. i \/ i \in SpillRows(r)
    <2>1. i \in Nat /\ read[r] \in Nat
      <3>1. TierInv
        BY <1>1 DEF ShelfInv
      <3> QED
        BY <3>1, CallFacts DEF Call
    <2>2. i \in Missing(page[r], read[r]) => i \in SpillRows(r)
      BY <1>1, CutKeepsMissing
    <2> QED
      BY <2>1, <2>2 DEF Missing
  <1>2. ShelfInv =>
          [Policy # "discard" =>
             \A r \in Readers :
               SpillPage(r) /\ page[r].count < PageSize =>
                 \A i \in page[r].known \ Late :
                   i <= read[r] \/ page[r].minLive \in 1 .. i \/ i \in SpillRows(r)]_tieredVars
    BY <1>1
  <1> QED
    BY <1>2, ShelfInit, ShelfNext, PTL DEF TieredSpec, UnfilledPageHasNoGap
================================================================================
