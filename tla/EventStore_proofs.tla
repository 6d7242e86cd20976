--------------------------- MODULE EventStore_proofs ---------------------------
(***************************************************************************)
(* Theorems about EventStore, for every value of its constants.            *)
(***************************************************************************)
EXTENDS EventStore, WellFoundedInduction, TLAPS

(* Ids are natural numbers: a set of them has a least member, and one that *)
(* is bounded a greatest.                                                  *)
LEMMA LeastExists ==
  ASSUME NEW S, S \subseteq Nat, S # {}
  PROVE  \E m \in S : \A i \in S : m <= i
  <1> DEFINE R == OpToRel(<, Nat)
  <1>1. \A x, y \in Nat : x < y => <<x, y>> \in R
    BY Zenon DEF OpToRel
  <1>2. IsWellFoundedOn(R, Nat)
    BY NatLessThanWellFounded, Zenon
  <1> HIDE DEF R
  <1>3. PICK m \in S : \A i \in S : <<i, m>> \notin R
    BY <1>2, WFMin
  <1>4. ASSUME NEW i \in S PROVE m <= i
    <2>1. i \in Nat /\ m \in Nat /\ ~(i < m)
      BY <1>1, <1>3
    <2> QED
      BY <2>1
  <1> QED
    BY <1>4

LEMMA GreatestExists ==
  ASSUME NEW S, S \subseteq Nat, S # {}, NEW n \in Nat, \A i \in S : i <= n
  PROVE  \E m \in S : \A i \in S : m >= i
  <1> DEFINE T == {n - i : i \in S}
  <1>1. T \subseteq Nat /\ T # {}
    <2>1. \A i \in S : n - i \in Nat
      OBVIOUS
    <2> QED
      BY <2>1
  <1>2. PICK t \in T : \A u \in T : t <= u
    BY <1>1, LeastExists
  <1>3. PICK m \in S : t = n - m
    OBVIOUS
  <1>4. ASSUME NEW i \in S PROVE m >= i
    <2>1. n - m <= n - i /\ i \in Nat /\ m \in Nat
      BY <1>2, <1>3
    <2> QED
      BY <2>1
  <1> QED
    BY <1>4

(* What the log and the accepted ids look like after a row is inserted.    *)
LEMMA RowExtendsLog ==
  ASSUME NEW row \in Row, TypeOK, AcceptRow(row)
  PROVE  /\ log' \in Seq(Row)
         /\ acceptedAt' \in Seq(Nat)
         /\ Len(log') = Len(log) + 1
         /\ Ids' = Ids \cup {Len(log) + 1}
         /\ Len(log) + 1 \notin Ids
         /\ \A i \in Ids : log'[i] = log[i]
         /\ log'[Len(log) + 1] = row
  <1>1. Ids = 1 .. Len(log) /\ Len(log) \in Nat
    BY DEF TypeOK, Ids
  <1>2. log' = Append(log, row) /\ acceptedAt' = Append(acceptedAt, clock)
    BY DEF AcceptRow
  <1>3. Len(log') = Len(log) + 1 /\ log' \in Seq(Row)
    BY <1>2 DEF TypeOK
  <1>4. acceptedAt' \in Seq(Nat)
    BY <1>2 DEF TypeOK
  <1>5. Ids' = 1 .. (Len(log) + 1)
    BY <1>3 DEF Ids
  <1>6. \A i \in Ids : log'[i] = log[i]
    BY <1>1, <1>2 DEF TypeOK
  <1>7. log'[Len(log) + 1] = row
    BY <1>1, <1>2 DEF TypeOK
  <1> QED
    BY <1>1, <1>3, <1>4, <1>5, <1>6, <1>7

LEMMA AcceptExtendsLog ==
  ASSUME NEW p \in Producers, TypeOK, draft[p] \in Row, Accept(p)
  PROVE  /\ log' \in Seq(Row)
         /\ acceptedAt' \in Seq(Nat)
         /\ Len(log') = Len(log) + 1
         /\ Ids' = Ids \cup {Len(log) + 1}
         /\ Len(log) + 1 \notin Ids
         /\ \A i \in Ids : log'[i] = log[i]
         /\ log'[Len(log) + 1] = draft[p]
  <1> DEFINE row == draft[p]
  <1>1. row \in Row /\ AcceptRow(row)
    BY DEF Accept
  <1> HIDE DEF row
  <1>2. /\ log' \in Seq(Row)
        /\ acceptedAt' \in Seq(Nat)
        /\ Len(log') = Len(log) + 1
        /\ Ids' = Ids \cup {Len(log) + 1}
        /\ Len(log) + 1 \notin Ids
        /\ \A i \in Ids : log'[i] = log[i]
        /\ log'[Len(log) + 1] = row
    BY <1>1, RowExtendsLog
  <1> QED
    BY <1>2 DEF row

(* Every variable keeps to its table's type, and an emit() that is past    *)
(* reading the clock always holds a complete row.                          *)
Typed ==
  /\ TypeOK
  /\ \A p \in Producers : step[p] \in {"insert", "release"} => draft[p] \in Row

LEMMA TypedInit == Init => Typed
  BY StoreAssumption DEF Init, Typed, TypeOK, Ids, Row

LEMMA TypedEmit ==
  ASSUME NEW p \in Producers, Typed, Emit(p)
  PROVE  Typed'
  <1> USE DEF Typed
  <1>1. ASSUME NEW t \in Types, NEW k \in Keys \cup {NoKey}, NEW ttl \in Ttls,
               EmitBegin(p, t, k, ttl)
        PROVE  Typed'
    <2> DEFINE row == [type |-> t, key |-> k, emitted |-> clock,
                       expires |-> clock + ttl, dedup |-> clock + DedupTtl]
    <2>1. row \in Row
      BY <1>1, StoreAssumption DEF TypeOK, Row
    <2>2. /\ step' = [step EXCEPT ![p] = "insert"]
          /\ draft' = [draft EXCEPT ![p] = row]
          /\ UNCHANGED <<clock, tables, subscribers>>
      BY <1>1 DEF EmitBegin
    <2> QED
      BY <2>1, <2>2 DEF TypeOK, tables, subscribers, Ids
  <1>2. ASSUME draft[p] \in Row, Accept(p),
               released' = released \/ released' \subseteq live \cup released
        PROVE  Typed'
    <2>1. /\ log' \in Seq(Row) /\ acceptedAt' \in Seq(Nat)
          /\ Ids' = Ids \cup {Len(log) + 1}
      BY <1>2, AcceptExtendsLog
    <2>2. live' \subseteq Ids' /\ archived' \subseteq Ids' /\ released' \subseteq Ids'
      BY <1>2, <2>1 DEF Accept, AcceptRow, TypeOK
    <2>3. due' \in [Subs -> SUBSET Ids']
      BY <1>2, <2>1 DEF Accept, AcceptRow, TypeOK
    <2>4. /\ step' \in [Producers -> {"idle", "insert", "release", "closed"}]
          /\ draft' \in [Producers -> Row \cup {NoRow}]
          /\ \A q \in Producers : step'[q] \in {"insert", "release"} => draft'[q] \in Row
      BY <1>2 DEF Accept, AcceptRow, TypeOK
    <2>5. UNCHANGED <<clock, reported, sub, cursor, pos, reset, attempts>>
      BY <1>2 DEF Accept, AcceptRow
    <2> QED
      BY <2>1, <2>2, <2>3, <2>4, <2>5 DEF TypeOK
  <1>3. CASE EmitInsert(p)
    BY <1>2, <1>3 DEF EmitInsert
  <1>4. CASE EmitRelease(p)
    BY <1>2, <1>4 DEF EmitRelease, Releasable, Holders
  <1>5. CASE EmitConflict(p)
    BY <1>5 DEF EmitConflict, TypeOK, tables, subscribers, Ids
  <1>6. CASE EmitDuplicate(p)
    BY <1>6 DEF EmitDuplicate, EmitStop, TypeOK, tables, subscribers, Ids
  <1>7. CASE EmitFails(p)
    BY <1>7 DEF EmitFails, EmitStop, TypeOK, tables, subscribers, Ids
  <1> QED
    BY <1>1, <1>3, <1>4, <1>5, <1>6, <1>7 DEF Emit

LEMMA TypedSubscriber ==
  ASSUME NEW s \in Subs, Typed, Register(s) \/ Deregister(s) \/ Consume(s)
  PROVE  Typed'
  <1> USE DEF Typed, TypeOK, tables, emits, Ids
  <1>1. \A n : Ahead(s, n) \subseteq Ids
    BY DEF Ahead
  <1>2. ASSUME NEW n \in Int, MoveCursor(s, n), reset' \in [Subs -> SUBSET Int]
        PROVE  Typed'
    BY <1>1, <1>2 DEF MoveCursor
  <1>3. CASE Register(s)
    <2>1. ASSUME NEW init \in {"oldest", "latest"}, RegisterSubscription(s, init)
          PROVE  Typed'
      BY <2>1 DEF RegisterSubscription
    <2>2. CASE RegisterReadHead(s)
      BY <2>2 DEF RegisterReadHead
    <2>3. CASE RegisterCursor(s)
      BY <1>1, <2>3 DEF RegisterCursor
    <2> QED
      BY <1>3, <2>1, <2>2, <2>3 DEF Register
  <1>4. CASE Deregister(s)
    BY <1>4 DEF Deregister
  <1>5. CASE Consume(s)
    <2>1. ASSUME NEW n \in 0 .. MaxEvents, Ack(s, n) PROVE Typed'
      BY <1>2, <2>1 DEF Ack
    <2>2. ASSUME NEW from \in ReplayFrom, ReplayCheck(s, from) PROVE Typed'
      <3>1. from - 1 \in Int
        BY StoreAssumption
      <3> QED
        BY <2>2, <3>1 DEF ReplayCheck
    <2>5. CASE ReplayWrite(s)
      BY <1>2, <2>5 DEF ReplayWrite
    <2>3. ASSUME NEW i \in Ids, NEW n \in 1 .. MaxRetries, UpsertAttempt(s, i, n)
          PROVE  Typed'
      <3>1. n \in Nat /\ attempts' = [attempts EXCEPT ![s][i] = n]
        BY <2>3 DEF UpsertAttempt
      <3>2. attempts' \in [Subs -> [1 .. MaxEvents -> Nat]]
        BY <3>1
      <3> QED
        BY <2>3, <3>2 DEF UpsertAttempt
    <2>4. ASSUME NEW i \in Ids, DeleteAttempt(s, i) PROVE Typed'
      <3>1. attempts' \in [Subs -> [1 .. MaxEvents -> Nat]]
        BY <2>4 DEF DeleteAttempt
      <3> QED
        BY <2>4, <3>1 DEF DeleteAttempt
    <2> QED
      BY <1>5, <2>1, <2>2, <2>3, <2>4, <2>5 DEF Consume
  <1> QED
    BY <1>3, <1>4, <1>5

(* The lines of a sweep's report, one per cursor and owed event it removes. *)
LEMMA ReportLineShape ==
  \A line : line \in ReportLines <=>
    \E s \in Subs : \E i \in Owed(s) \cap Swept : line = <<s, i, Fate>>
  <1> DEFINE Lines(s) == {<<s, i, Fate>> : i \in Owed(s) \cap Swept}
  <1>1. ReportLines = UNION {Lines(s) : s \in Subs}
    BY DEF ReportLines
  <1>2. ASSUME NEW line, NEW s
        PROVE  line \in Lines(s) <=> \E i \in Owed(s) \cap Swept : line = <<s, i, Fate>>
    OBVIOUS
  <1> HIDE DEF Lines
  <1>3. ASSUME NEW line
        PROVE  line \in ReportLines <=> \E s \in Subs : line \in Lines(s)
    BY <1>1
  <1> QED
    BY <1>2, <1>3

LEMMA TypedSweep == Typed /\ Sweep => Typed'
  <1> SUFFICES ASSUME Typed, Sweep PROVE Typed'
    OBVIOUS
  <1>1. Expired \subseteq Ids /\ \A s \in Subs : Owed(s) \subseteq Expired
    BY DEF Typed, TypeOK, Expired, Owed
  <1>2. SweptToArchive \subseteq Ids
    BY <1>1 DEF SweptToArchive, Capped, OwedIds
  <1>3. ReportLines \subseteq Subs \X Nat \X {"archived", "discarded"}
    <2>1. Ids \subseteq Nat
      BY DEF Typed, TypeOK, Ids
    <2>2. Fate \in {"archived", "discarded"}
      BY DEF Fate
    <2>3. ASSUME NEW line \in ReportLines
          PROVE  line \in Subs \X Nat \X {"archived", "discarded"}
      <3>1. PICK s \in Subs : \E i \in Owed(s) : line = <<s, i, Fate>>
        BY <2>3, ReportLineShape
      <3>2. PICK i \in Owed(s) : line = <<s, i, Fate>>
        BY <3>1
      <3>3. i \in Nat
        BY <1>1, <2>1
      <3> QED
        BY <2>2, <3>2, <3>3
    <2> QED
      BY <2>3
  <1> QED
    BY <1>2, <1>3 DEF Typed, TypeOK, Sweep, emits, subscribers, Ids

LEMMA TypedNext == Typed /\ [Next]_vars => Typed'
  <1> SUFFICES ASSUME Typed, [Next]_vars PROVE Typed'
    OBVIOUS
  <1>1. CASE Tick
    BY <1>1 DEF Tick, Typed, TypeOK, tables, emits, subscribers, Ids
  <1>2. CASE UNCHANGED vars
    BY <1>2 DEF Typed, TypeOK, vars, tables, emits, subscribers, Ids
  <1> QED
    BY <1>1, <1>2, TypedEmit, TypedSubscriber, TypedSweep DEF Next

(* The tables never hold anything but rows, ids and states of their own    *)
(* kind, whatever the processes interleave.                                *)
THEOREM TypeCorrect == Spec => []TypeOK
  <1>1. Typed => TypeOK
    BY DEF Typed
  <1> QED
    BY <1>1, TypedInit, TypedNext, PTL DEF Spec

-----------------------------------------------------------------------------
(* The retention guarantee.  Nothing in the code records a claim: the sweep *)
(* recomputes who owes what from positions, filters and the two soft-delete *)
(* columns.  What makes the guarantee inductive is that every claim is one  *)
(* the sweep recomputes (Claims) and that an event is in one table at a     *)
(* time (OneTable).                                                         *)
Claims ==
  \A s \in Subs : \A i \in due[s] :
    ActiveConsumer(s) /\ i > pos[s] /\ Matches(s, i)

OneTable == live \cap archived = {}

RetentionInv ==
  Typed /\ Claims /\ OneTable /\ RetainedUntilCap /\ UnackedIsStored /\ LossIsReported

LEMMA RetentionInit == Init => RetentionInv
  <1> SUFFICES ASSUME Init PROVE RetentionInv
    OBVIOUS
  <1>1. Typed
    BY TypedInit
  <1> QED
    BY <1>1 DEF RetentionInv, Init, Claims, OneTable, RetainedUntilCap, UnackedIsStored,
                LossIsReported

(* A step that leaves the tables and the clock alone and gives out no claim *)
(* but to live events keeps the guarantee.                                  *)
LEMMA RetentionKept ==
  ASSUME RetentionInv, UNCHANGED <<clock, tables>>,
         \A s \in Subs : due'[s] \subseteq due[s] \cup live
  PROVE  (RetainedUntilCap /\ UnackedIsStored /\ LossIsReported /\ OneTable)'
  BY DEF RetentionInv, RetainedUntilCap, UnackedIsStored, LossIsReported, OneTable,
         tables, OverCap

(* A claim is to an event beyond the position, and new claims are to live  *)
(* events.                                                                 *)
LEMMA ClaimsRow ==
  ASSUME NEW row \in Row, Typed, Claims, AcceptRow(row)
  PROVE  /\ Claims'
         /\ live' = live \cup {Len(log) + 1}
         /\ \A s \in Subs : due'[s] \subseteq due[s] \cup live'
  <1> DEFINE id == Len(log) + 1
  <1>1. /\ Ids' = Ids \cup {id} /\ id \notin Ids
        /\ \A i \in Ids : log'[i] = log[i]
        /\ log'[id] = row
    BY RowExtendsLog DEF Typed
  <1>2. /\ live' = live \cup {id}
        /\ UNCHANGED <<sub, cursor, pos>>
        /\ due' = [s \in Subs |->
             IF ActiveConsumer(s) /\ id > pos[s] /\ row.type \in Filter[s]
             THEN due[s] \cup {id} ELSE due[s]]
    BY DEF AcceptRow
  <1>3. \A s \in Subs : due[s] \subseteq Ids
    BY DEF Typed, TypeOK
  <1>4. Claims'
    BY <1>1, <1>2, <1>3 DEF Claims, ActiveConsumer, Matches
  <1> QED
    BY <1>2, <1>4

LEMMA ClaimsMoved ==
  ASSUME NEW s \in Subs, NEW n \in Int, Typed, Claims, MoveCursor(s, n)
  PROVE  Claims' /\ \A r \in Subs : due'[r] \subseteq due[r] \cup live
  <1>1. /\ due \in [Subs -> SUBSET Ids] /\ pos \in [Subs -> Int] /\ Ids \subseteq Int
    BY DEF Typed, TypeOK, Ids
  <1>2. Claims'
    BY <1>1 DEF MoveCursor, Ahead, Claims, ActiveConsumer, Matches, tables
  <1>3. \A r \in Subs : due'[r] \subseteq due[r] \cup live
    BY <1>1 DEF MoveCursor, Ahead
  <1> QED
    BY <1>2, <1>3

LEMMA ClaimsRegistered ==
  ASSUME NEW s \in Subs, Typed, Claims, Register(s) \/ Deregister(s)
  PROVE  /\ Claims' /\ UNCHANGED <<clock, tables>>
         /\ \A r \in Subs : due'[r] \subseteq due[r] \cup live
  <1>1. /\ due \in [Subs -> SUBSET Ids] /\ pos \in [Subs -> Int] /\ Ids \subseteq Int
        /\ sub \in [Subs -> {"absent", "active", "deregistered"}]
        /\ cursor \in [Subs -> {"absent", "reading", "inserting", "active", "deregistered"}]
    BY DEF Typed, TypeOK, Ids
  <1> USE <1>1 DEF Claims, ActiveConsumer, Matches, tables
  <1>2. ASSUME NEW init \in {"oldest", "latest"}, RegisterSubscription(s, init)
        PROVE  Claims' /\ UNCHANGED <<clock, tables, due>>
    BY <1>2 DEF RegisterSubscription
  <1>3. CASE RegisterReadHead(s)
    <2>1. due' = due /\ \A r \in Subs : r # s => pos'[r] = pos[r] /\ cursor'[r] = cursor[r]
      BY <1>3 DEF RegisterReadHead
    <2>2. Claims'
      BY <1>3, <2>1 DEF RegisterReadHead
    <2> QED
      BY <1>3, <2>1, <2>2 DEF RegisterReadHead
  <1>4. CASE RegisterCursor(s)
    <2>1. Claims'
      BY <1>4 DEF RegisterCursor, Ahead
    <2>2. \A r \in Subs : due'[r] \subseteq due[r] \cup live
      BY <1>4 DEF RegisterCursor, Ahead
    <2> QED
      BY <1>4, <2>1, <2>2 DEF RegisterCursor
  <1>5. CASE Deregister(s)
    BY <1>5 DEF Deregister
  <1> QED
    BY <1>2, <1>3, <1>4, <1>5 DEF Register

(* A new event is live, and so are the claims it gives out.                *)
LEMMA RetentionRow ==
  ASSUME NEW row \in Row, RetentionInv, Typed', AcceptRow(row)
  PROVE  RetentionInv'
  <1> DEFINE id == Len(log) + 1
  <1>1. /\ Ids' = Ids \cup {id} /\ id \notin Ids
        /\ \A i \in Ids : log'[i] = log[i]
    BY RowExtendsLog DEF RetentionInv, Typed
  <1>2. live' = live \cup {id} /\ UNCHANGED <<clock, archived, reported>>
    BY DEF AcceptRow
  <1>3. /\ live \subseteq Ids /\ archived \subseteq Ids
        /\ \A s \in Subs : due[s] \subseteq Ids
    BY DEF RetentionInv, Typed, TypeOK
  <1>4. Claims' /\ \A s \in Subs : due'[s] \subseteq due[s] \cup live'
    BY ClaimsRow DEF RetentionInv
  <1>5. OneTable'
    BY <1>1, <1>2, <1>3 DEF RetentionInv, OneTable
  <1>6. \A s \in Subs : due'[s] \ live' \subseteq due[s] \ live
    BY <1>2, <1>4
  <1>7. RetainedUntilCap'
    BY <1>1, <1>2, <1>3, <1>6 DEF RetentionInv, RetainedUntilCap, OverCap
  <1>8. UnackedIsStored'
    BY <1>2, <1>6 DEF RetentionInv, UnackedIsStored
  <1>9. LossIsReported'
    BY <1>2, <1>6 DEF RetentionInv, LossIsReported
  <1> QED
    BY <1>4, <1>5, <1>7, <1>8, <1>9 DEF RetentionInv

LEMMA RetentionEmit ==
  ASSUME NEW p \in Producers, RetentionInv, Emit(p)
  PROVE  RetentionInv'
  <1>1. Typed /\ Typed'
    BY TypedEmit DEF RetentionInv
  <1>2. ASSUME UNCHANGED <<clock, tables, subscribers>> PROVE RetentionInv'
    <2>1. Claims'
      BY <1>2 DEF RetentionInv, Claims, ActiveConsumer, Matches, tables, subscribers
    <2> QED
      BY <1>1, <1>2, <2>1, RetentionKept DEF RetentionInv, subscribers
  <1>3. ASSUME draft[p] \in Row, Accept(p) PROVE RetentionInv'
    <2>1. PICK row \in Row : row = draft[p]
      BY <1>3
    <2>2. AcceptRow(row)
      BY <1>3, <2>1 DEF Accept
    <2> QED
      BY <1>1, <2>2, RetentionRow
  <1>4. ASSUME NEW t \in Types, NEW k \in Keys \cup {NoKey}, NEW ttl \in Ttls,
               EmitBegin(p, t, k, ttl)
        PROVE  RetentionInv'
    BY <1>2, <1>4 DEF EmitBegin
  <1>5. CASE EmitInsert(p)
    BY <1>1, <1>3, <1>5 DEF EmitInsert, Typed
  <1>6. CASE EmitRelease(p)
    BY <1>1, <1>3, <1>6 DEF EmitRelease, Typed
  <1>7. CASE EmitConflict(p)
    BY <1>2, <1>7 DEF EmitConflict
  <1>8. CASE EmitDuplicate(p)
    BY <1>2, <1>8 DEF EmitDuplicate, EmitStop
  <1>9. CASE EmitFails(p)
    BY <1>2, <1>9 DEF EmitFails, EmitStop
  <1> QED
    BY <1>4, <1>5, <1>6, <1>7, <1>8, <1>9 DEF Emit

LEMMA RetentionSubscriber ==
  ASSUME NEW s \in Subs, RetentionInv, Register(s) \/ Deregister(s) \/ Consume(s)
  PROVE  RetentionInv'
  <1>1. Typed /\ Typed'
    BY TypedSubscriber DEF RetentionInv
  <1>3. Claims
    BY DEF RetentionInv
  <1>4. ASSUME UNCHANGED <<clock, tables>>, Claims',
               \A r \in Subs : due'[r] \subseteq due[r] \cup live
        PROVE  RetentionInv'
    BY <1>1, <1>4, RetentionKept DEF RetentionInv
  <1>5. ASSUME NEW n \in Int, MoveCursor(s, n)
        PROVE  RetentionInv'
    BY <1>1, <1>3, <1>4, <1>5, ClaimsMoved DEF MoveCursor, tables
  <1>6. CASE Register(s) \/ Deregister(s)
    BY <1>1, <1>3, <1>4, <1>6, ClaimsRegistered
  <1> USE <1>3 DEF Claims, ActiveConsumer, Matches, tables
  <1>8. CASE Consume(s)
    <2>1. ASSUME NEW n \in 0 .. MaxEvents, Ack(s, n) PROVE RetentionInv'
      BY <1>5, <2>1 DEF Ack
    <2>2. ASSUME NEW from \in ReplayFrom, ReplayCheck(s, from) PROVE RetentionInv'
      BY <1>4, <2>2 DEF ReplayCheck
    <2>5. CASE ReplayWrite(s)
      <3>1. reset[s] \subseteq Int
        BY <1>1 DEF Typed, TypeOK
      <3> QED
        BY <1>5, <2>5, <3>1 DEF ReplayWrite
    <2>3. ASSUME NEW i \in Ids, NEW n \in 1 .. MaxRetries, UpsertAttempt(s, i, n)
          PROVE  RetentionInv'
      BY <1>4, <2>3 DEF UpsertAttempt
    <2>4. ASSUME NEW i \in Ids, DeleteAttempt(s, i) PROVE RetentionInv'
      BY <1>4, <2>4 DEF DeleteAttempt
    <2> QED
      BY <1>8, <2>1, <2>2, <2>3, <2>4, <2>5 DEF Consume
  <1> QED
    BY <1>6, <1>8

LEMMA RetentionSweep == RetentionInv /\ Sweep => RetentionInv'
  <1> SUFFICES ASSUME RetentionInv, Sweep PROVE RetentionInv'
    OBVIOUS
  <1>1. Typed /\ Typed'
    BY TypedSweep DEF RetentionInv
  <1>2. /\ archived' = archived \cup SweptToArchive
        /\ live' = live \ Swept
        /\ reported' = reported \cup ReportLines
        /\ UNCHANGED <<clock, log, sub, cursor, pos, due>>
    BY DEF Sweep, subscribers
  <1>3. SweptToArchive \subseteq Swept /\ Swept \subseteq live
    <2>1. OwedIds \subseteq Expired /\ Expired \subseteq live
      BY DEF OwedIds, Owed, Expired
    <2> QED
      BY <2>1, StoreAssumption DEF SweptToArchive, Swept, Capped
  (* What the sweep takes from a consumer is what it owes that consumer.   *)
  <1>4. ASSUME NEW s \in Subs, NEW i \in due[s], i \in live, i \in Swept
        PROVE  /\ i \in Owed(s) /\ i \in OwedIds
               /\ <<s, i, Fate>> \in reported'
    <2>1. i \in Expired
      BY <1>4 DEF Swept, Capped, OwedIds, Owed
    <2>2. i \in Owed(s)
      BY <1>4, <2>1 DEF RetentionInv, Claims, Owed
    <2>3. <<s, i, Fate>> \in ReportLines
      BY <1>4, <2>2, ReportLineShape
    <2> QED
      BY <1>2, <2>2, <2>3 DEF OwedIds
  <1>5. Claims'
    BY <1>2 DEF RetentionInv, Claims, ActiveConsumer, Matches
  <1>6. OneTable'
    BY <1>2, <1>3 DEF RetentionInv, OneTable
  <1>7. RetainedUntilCap'
    <2> SUFFICES ASSUME Policy = "retain", NEW s \in Subs, NEW i \in due[s], i \notin live'
                 PROVE  i \in archived' /\ OverCap(i)
      BY <1>2 DEF RetainedUntilCap, OverCap
    <2>1. CASE i \notin live
      BY <1>2, <2>1 DEF RetentionInv, RetainedUntilCap
    <2>2. CASE i \in live
      <3>1. i \in Swept /\ i \in OwedIds
        BY <1>2, <1>4, <2>2
      <3>2. i \in Capped
        BY <3>1 DEF Swept
      <3> QED
        BY <1>2, <3>2 DEF SweptToArchive, Capped
    <2> QED
      BY <2>1, <2>2
  <1>8. UnackedIsStored'
    <2> SUFFICES ASSUME Policy # "discard", NEW s \in Subs, NEW i \in due[s],
                        i \notin live'
                 PROVE  i \in archived'
      BY <1>2 DEF UnackedIsStored
    <2>1. CASE i \notin live
      BY <1>2, <2>1 DEF RetentionInv, UnackedIsStored
    <2>2. CASE i \in live
      <3>1. i \in Swept /\ i \in OwedIds
        BY <1>2, <1>4, <2>2
      <3> QED
        BY <1>2, <3>1, StoreAssumption DEF SweptToArchive, Swept
    <2> QED
      BY <2>1, <2>2
  <1>9. LossIsReported'
    <2> SUFFICES ASSUME NEW s \in Subs, NEW i \in due[s], i \notin live'
                 PROVE  <<s, i, IF i \in archived' THEN "archived" ELSE "discarded">> \in reported'
      BY <1>2 DEF LossIsReported
    <2>1. CASE i \notin live
      <3>1. i \in archived' <=> i \in archived
        BY <1>2, <1>3, <2>1
      <3> QED
        BY <1>2, <2>1, <3>1 DEF RetentionInv, LossIsReported
    <2>2. CASE i \in live
      <3>1. i \in Swept /\ i \in OwedIds /\ <<s, i, Fate>> \in reported'
        BY <1>2, <1>4, <2>2
      <3>2. i \notin archived
        BY <2>2 DEF RetentionInv, OneTable
      <3>3. i \in archived' <=> Policy # "discard"
        BY <1>2, <3>1, <3>2, StoreAssumption DEF SweptToArchive, Swept, Capped
      <3> QED
        BY <3>1, <3>3 DEF Fate
    <2> QED
      BY <2>1, <2>2
  <1> QED
    BY <1>1, <1>5, <1>6, <1>7, <1>8, <1>9 DEF RetentionInv

LEMMA RetentionNext == RetentionInv /\ [Next]_vars => RetentionInv'
  <1> SUFFICES ASSUME RetentionInv, [Next]_vars PROVE RetentionInv'
    OBVIOUS
  <1>1. CASE Tick
    <2>1. Typed' /\ \A i \in Ids : OverCap(i) => OverCap(i)'
      <3>1. Typed'
        BY <1>1, TypedNext DEF Next, RetentionInv
      <3>2. clock' = clock + 1 /\ log' = log /\ clock \in Nat /\ log \in Seq(Row)
        BY <1>1 DEF Tick, tables, RetentionInv, Typed, TypeOK
      <3>3. \A i \in Ids : log[i].emitted \in Nat
        <4>1. \A i \in Ids : log[i] \in Row
          BY <3>2 DEF Ids
        <4> QED
          BY <4>1 DEF Row
      <3> QED
        BY <3>1, <3>2, <3>3, StoreAssumption DEF OverCap
    <2>2. \A s \in Subs : due[s] \subseteq Ids
      BY DEF RetentionInv, Typed, TypeOK
    <2>3. UNCHANGED <<log, live, archived, reported, sub, cursor, pos, due>>
      BY <1>1 DEF Tick, tables, subscribers
    <2>4. RetainedUntilCap'
      BY <2>1, <2>2, <2>3 DEF RetentionInv, RetainedUntilCap
    <2> QED
      BY <2>1, <2>3, <2>4 DEF RetentionInv, Claims, OneTable, UnackedIsStored, LossIsReported,
                              ActiveConsumer, Matches
  <1>2. CASE UNCHANGED vars
    <2>1. Typed'
      BY <1>2, TypedNext DEF RetentionInv
    <2>2. Claims'
      BY <1>2 DEF RetentionInv, Claims, ActiveConsumer, Matches, vars, tables, subscribers
    <2> QED
      BY <1>2, <2>1, <2>2, RetentionKept DEF RetentionInv, vars, subscribers
  <1> QED
    BY <1>1, <1>2, RetentionEmit, RetentionSubscriber, RetentionSweep DEF Next

(* Under 'retain' no sweep ever takes an unacked event from an active      *)
(* consumer before the cap, and past the cap it is in events_archive:      *)
(* runSweep() against every interleaving of emit, register, ack, replay    *)
(* and deregister.                                                         *)
THEOREM Retention == Spec => []RetainedUntilCap
  <1>1. RetentionInv => RetainedUntilCap
    BY DEF RetentionInv
  <1> QED
    BY <1>1, RetentionInit, RetentionNext, PTL DEF Spec

(* Unless the policy is 'discard', an unacked event is in the events table *)
(* or in events_archive, whichever sweeps ran.                             *)
THEOREM UnackedStored == Spec => []UnackedIsStored
  <1>1. RetentionInv => UnackedIsStored
    BY DEF RetentionInv
  <1> QED
    BY <1>1, RetentionInit, RetentionNext, PTL DEF Spec

(* Under every policy, a consumer that lost an unacked event from the      *)
(* events table is named with it in a sweep's report.                      *)
THEOREM NoSilentLoss == Spec => []LossIsReported
  <1>1. RetentionInv => LossIsReported
    BY DEF RetentionInv
  <1> QED
    BY <1>1, RetentionInit, RetentionNext, PTL DEF Spec

-----------------------------------------------------------------------------
(* Retries in progress.                                                     *)

(* A step other than a sweep takes no event out of either table.            *)
LEMMA OnlySweepRemoves ==
  ASSUME Next, ~ Sweep
  PROVE  live \cup archived \subseteq (live \cup archived)'
  <1>1. ASSUME NEW p \in Producers, Emit(p) PROVE live \cup archived \subseteq (live \cup archived)'
    BY <1>1 DEF Emit, EmitBegin, EmitInsert, EmitConflict, EmitRelease, EmitDuplicate,
                EmitFails, EmitStop, Accept, AcceptRow, tables
  <1>2. ASSUME NEW s \in Subs, Register(s) \/ Deregister(s) \/ Consume(s)
        PROVE  live \cup archived \subseteq (live \cup archived)'
    BY <1>2 DEF Register, RegisterSubscription, RegisterReadHead, RegisterCursor, Deregister,
                Consume, Ack, ReplayCheck, ReplayWrite, MoveCursor, UpsertAttempt, DeleteAttempt, tables
  <1>3. CASE Tick
    BY <1>3 DEF Tick, tables
  <1> QED
    BY <1>1, <1>2, <1>3 DEF Next

(* No sweep under 'retain' or 'archive' loses an event whose delivery is    *)
(* being retried, even one the cursor of the retry has already passed.      *)
THEOREM RetriesSurvive == Spec => PendingRetrySurvives
  <1>1. ASSUME [Next]_vars, Policy # "discard", NEW s \in Subs, NEW i \in live,
               attempts[s][i] > 0, cursor[s] = "active"
        PROVE  i \in (live \cup archived)'
    <2>1. CASE Sweep
      <3>1. i \in Expired => i \in Owed(s) /\ i \in OwedIds
        BY <1>1 DEF Owed, OwedIds
      <3>2. i \in Swept => i \in Expired
        BY DEF Swept, Capped, OwedIds, Owed
      <3>3. i \in Swept => i \in SweptToArchive
        BY <1>1, <3>1, <3>2, StoreAssumption DEF Swept, SweptToArchive
      <3> QED
        BY <2>1, <3>3 DEF Sweep
    <2>2. CASE Next /\ ~ Sweep
      BY <2>2, OnlySweepRemoves
    <2>3. CASE UNCHANGED vars
      BY <2>3 DEF vars, tables
    <2> QED
      BY <1>1, <2>1, <2>2, <2>3
  <1>2. [Next]_vars =>
          [Policy # "discard" =>
             \A s \in Subs, i \in live :
               attempts[s][i] > 0 /\ cursor[s] = "active" => i \in (live \cup archived)']_vars
    BY <1>1
  <1> QED
    BY <1>2, PTL DEF Spec, PendingRetrySurvives

-----------------------------------------------------------------------------
(* The dedup window.  A key is claimed by a row, so the window holds only   *)
(* because a row outlives its own window (TtlCoversWindow, what loadConfig  *)
(* checks of ttl_hours): by the time a row stops claiming its key, by a     *)
(* sweep or by a release, its window has closed.                            *)
TtlCoversWindow == \A ttl \in Ttls : DedupTtl <= ttl

RowTimes ==
  /\ Len(acceptedAt) = Len(log)
  /\ \A i \in Ids : log[i].dedup <= log[i].expires
  /\ \A p \in Producers : step[p] \in {"insert", "release"} =>
       draft[p].emitted <= clock /\ draft[p].dedup <= draft[p].expires

ClaimUntilClosed == \A i \in Ids : i \in live \ released \/ log[i].dedup < clock

OneHolder ==
  \A i, j \in live \ released : log[i].key = log[j].key /\ log[i].key # NoKey => i = j

DedupInv == Typed /\ RowTimes /\ ClaimUntilClosed /\ OneHolder /\ DedupWindow

LEMMA DedupInit == Init => DedupInv
  <1> SUFFICES ASSUME Init PROVE DedupInv
    OBVIOUS
  <1>1. Typed
    BY TypedInit
  <1>2. Ids = {}
    BY DEF Init, Ids
  <1> QED
    BY <1>1, <1>2 DEF DedupInv, Init, RowTimes, ClaimUntilClosed, OneHolder, DedupWindow

(* Types of the rows, for the arithmetic on their times.                    *)
LEMMA RowTypes ==
  ASSUME Typed
  PROVE  /\ Ids = 1 .. Len(log) /\ Len(log) \in Nat /\ clock \in Nat
         /\ \A i \in Ids : log[i].dedup \in Nat /\ log[i].expires \in Nat
         /\ \A p \in Producers : step[p] \in {"insert", "release"} =>
              draft[p].emitted \in Nat /\ draft[p].dedup \in Nat /\ draft[p].expires \in Nat
  <1>1. Ids = 1 .. Len(log) /\ Len(log) \in Nat /\ clock \in Nat /\ log \in Seq(Row)
    BY DEF Typed, TypeOK, Ids
  <1>2. \A i \in Ids : log[i] \in Row
    BY <1>1
  <1> QED
    BY <1>1, <1>2 DEF Typed, Row

LEMMA DedupAccept ==
  ASSUME NEW p \in Producers, DedupInv, Typed', Accept(p),
         step[p] \in {"insert", "release"},
         released \subseteq released',
         \A i \in released' \ released : log[i].dedup < clock,
         \A i \in live \ released' : log[i].key = draft[p].key => draft[p].key = NoKey,
         released' \subseteq Ids
  PROVE  DedupInv'
  <1> DEFINE id == Len(log) + 1
  <1>1. /\ Ids' = Ids \cup {id} /\ id \notin Ids
        /\ \A i \in Ids : log'[i] = log[i]
        /\ log'[id] = draft[p]
        /\ Len(log') = Len(log) + 1
    BY AcceptExtendsLog DEF DedupInv, Typed
  <1>2. /\ live' = live \cup {id} /\ clock' = clock
        /\ acceptedAt' = Append(acceptedAt, clock)
        /\ step' = [step EXCEPT ![p] = "idle"]
        /\ draft' = [draft EXCEPT ![p] = NoRow]
    BY DEF Accept, AcceptRow
  <1>3. /\ Ids = 1 .. Len(log) /\ Len(log) \in Nat
        /\ acceptedAt \in Seq(Nat) /\ Len(acceptedAt) = Len(log)
        /\ live \subseteq Ids
    BY DEF DedupInv, Typed, TypeOK, RowTimes, Ids
  <1>4. RowTimes'
    <2>1. Len(acceptedAt') = Len(log')
      BY <1>1, <1>2, <1>3
    <2>2. \A i \in Ids' : log'[i].dedup <= log'[i].expires
      BY <1>1 DEF DedupInv, RowTimes
    <2>3. \A q \in Producers : step'[q] \in {"insert", "release"} =>
            draft'[q].emitted <= clock' /\ draft'[q].dedup <= draft'[q].expires
      BY <1>2 DEF DedupInv, RowTimes, Typed, TypeOK
    <2> QED
      BY <2>1, <2>2, <2>3 DEF RowTimes
  <1>5. \A i \in Ids : i \in live \ released' \/ log[i].dedup < clock
    BY DEF DedupInv, ClaimUntilClosed
  <1>6. ClaimUntilClosed'
    BY <1>1, <1>2, <1>5 DEF ClaimUntilClosed
  <1>7. OneHolder'
    <2> SUFFICES ASSUME NEW i \in live' \ released', NEW j \in live' \ released',
                        log'[i].key = log'[j].key, log'[i].key # NoKey
                 PROVE  i = j
      BY DEF OneHolder
    <2>1. CASE i \in live /\ j \in live
      BY <1>1, <1>3, <2>1 DEF DedupInv, OneHolder
    <2>2. CASE i = id \/ j = id
      BY <1>1, <1>2, <1>3, <2>2
    <2> QED
      BY <1>2, <2>1, <2>2
  <1>8. DedupWindow'
    <2> SUFFICES ASSUME NEW i \in Ids', NEW j \in Ids', i < j,
                        log'[i].key = log'[j].key, log'[i].key # NoKey
                 PROVE  log'[i].dedup < acceptedAt'[j]
      BY DEF DedupWindow
    <2>1. i \in Ids /\ log'[i] = log[i]
      BY <1>1, <1>3
    <2>2. CASE j \in Ids
      <3>1. acceptedAt'[j] = acceptedAt[j]
        BY <1>2, <1>3, <2>2
      <3> QED
        BY <1>1, <2>1, <2>2, <3>1 DEF DedupInv, DedupWindow
    <2>3. CASE j = id
      <3>1. acceptedAt'[j] = clock
        BY <1>2, <1>3, <2>3
      <3>2. i \notin live \ released'
        BY <1>1, <2>1, <2>3
      <3> QED
        BY <1>5, <2>1, <3>1, <3>2
    <2> QED
      BY <1>1, <2>2, <2>3
  <1> QED
    BY <1>4, <1>6, <1>7, <1>8 DEF DedupInv

LEMMA DedupEmit ==
  ASSUME NEW p \in Producers, TtlCoversWindow, DedupInv, Emit(p)
  PROVE  DedupInv'
  <1>1. Typed /\ Typed'
    BY TypedEmit DEF DedupInv
  <1>2. ASSUME UNCHANGED <<clock, tables>>, RowTimes' PROVE DedupInv'
    BY <1>1, <1>2 DEF DedupInv, tables, ClaimUntilClosed, OneHolder, DedupWindow, Ids
  <1>3. ASSUME NEW t \in Types, NEW k \in Keys \cup {NoKey}, NEW ttl \in Ttls,
               EmitBegin(p, t, k, ttl)
        PROVE  DedupInv'
    <2>1. clock \in Nat /\ ttl \in Nat /\ DedupTtl \in Nat /\ DedupTtl <= ttl
      BY <1>1, StoreAssumption DEF Typed, TypeOK, TtlCoversWindow
    <2>2. RowTimes'
      BY <1>1, <1>3, <2>1 DEF EmitBegin, DedupInv, RowTimes, tables, Ids, Typed, TypeOK
    <2> QED
      BY <1>2, <1>3, <2>2 DEF EmitBegin
  <1>4. CASE EmitInsert(p)
    <2>1. \A i \in live \ released : log[i].key = draft[p].key => draft[p].key = NoKey
      BY <1>4 DEF EmitInsert, Holders
    <2>2. released \subseteq Ids
      BY <1>1 DEF Typed, TypeOK
    <2> QED
      BY <1>1, <1>4, <2>1, <2>2, DedupAccept DEF EmitInsert
  <1>5. CASE EmitRelease(p)
    <2>1. /\ Accept(p) /\ step[p] = "release"
          /\ released' = released \cup Releasable(p)
          /\ Releasable(p) # {}
      BY <1>5 DEF EmitRelease
    <2>2. \A i \in Releasable(p) : i \in Ids /\ i \in live \ released /\ log[i].key = draft[p].key
                                 /\ log[i].key # NoKey
      BY <1>1 DEF Releasable, Holders, Typed, TypeOK
    <2>3. \A i \in Releasable(p) : log[i].dedup < clock
      BY <1>1, <2>1, <2>2, RowTypes DEF Releasable, DedupInv, RowTimes
    <2>4. \A i \in live \ released : log[i].key = draft[p].key => i \in Releasable(p)
      BY <2>1, <2>2 DEF DedupInv, OneHolder
    <2>5. released' \subseteq Ids
      BY <1>1, <2>1, <2>2 DEF Typed, TypeOK
    <2> QED
      BY <1>1, <2>1, <2>3, <2>4, <2>5, DedupAccept
  <1>6. CASE EmitConflict(p)
    <2>1. RowTimes'
      BY <1>1, <1>6 DEF EmitConflict, DedupInv, RowTimes, tables, Ids, Typed, TypeOK
    <2> QED
      BY <1>2, <1>6, <2>1 DEF EmitConflict
  <1>7. ASSUME NEW to \in {"idle", "closed"}, EmitStop(p, to) PROVE DedupInv'
    <2>1. RowTimes'
      BY <1>1, <1>7 DEF EmitStop, DedupInv, RowTimes, tables, Ids, Typed, TypeOK
    <2> QED
      BY <1>2, <1>7, <2>1 DEF EmitStop
  <1>8. CASE EmitDuplicate(p) \/ EmitFails(p)
    BY <1>7, <1>8 DEF EmitDuplicate, EmitFails
  <1> QED
    BY <1>3, <1>4, <1>5, <1>6, <1>8 DEF Emit

LEMMA DedupNext == TtlCoversWindow /\ DedupInv /\ [Next]_vars => DedupInv'
  <1> SUFFICES ASSUME TtlCoversWindow, DedupInv, [Next]_vars PROVE DedupInv'
    OBVIOUS
  <1>1. Typed /\ Typed'
    BY TypedNext DEF DedupInv
  <1>2. ASSUME UNCHANGED <<clock, tables, emits>> PROVE DedupInv'
    BY <1>1, <1>2 DEF DedupInv, tables, emits, RowTimes, ClaimUntilClosed, OneHolder,
                      DedupWindow, Ids
  <1>3. ASSUME NEW s \in Subs, Register(s) \/ Deregister(s) \/ Consume(s)
        PROVE  DedupInv'
    <2>1. UNCHANGED <<clock, tables, emits>>
      BY <1>3 DEF Register, RegisterSubscription, RegisterReadHead, RegisterCursor, Deregister,
                  Consume, Ack, ReplayCheck, ReplayWrite, MoveCursor, UpsertAttempt, DeleteAttempt
    <2> QED
      BY <1>2, <2>1
  <1>4. CASE Sweep
    <2>1. UNCHANGED <<clock, log, released, acceptedAt, step, draft>> /\ live' = live \ Swept
      BY <1>4 DEF Sweep, emits
    <2>2. \A i \in Swept : i \in Ids /\ log[i].expires < clock
      BY <1>1 DEF Swept, Capped, OwedIds, Owed, Expired, Typed, TypeOK
    <2>3. \A i \in Swept : log[i].dedup < clock
      BY <1>1, <2>2, RowTypes DEF DedupInv, RowTimes
    <2>4. ClaimUntilClosed'
      BY <2>1, <2>3 DEF DedupInv, ClaimUntilClosed, Ids
    <2>5. RowTimes' /\ OneHolder' /\ DedupWindow'
      BY <2>1 DEF DedupInv, RowTimes, OneHolder, DedupWindow, Ids
    <2> QED
      BY <1>1, <2>4, <2>5 DEF DedupInv
  <1>5. CASE Tick
    <2>1. clock' = clock + 1 /\ UNCHANGED <<tables, emits>>
      BY <1>5 DEF Tick
    <2>2. RowTimes'
      BY <1>1, <2>1, RowTypes DEF DedupInv, RowTimes, tables, emits, Ids
    <2>3. ClaimUntilClosed'
      BY <1>1, <2>1, RowTypes DEF DedupInv, ClaimUntilClosed, tables, Ids
    <2>4. OneHolder' /\ DedupWindow'
      BY <2>1 DEF DedupInv, OneHolder, DedupWindow, tables, Ids
    <2> QED
      BY <1>1, <2>2, <2>3, <2>4 DEF DedupInv
  <1>6. CASE UNCHANGED vars
    BY <1>2, <1>6 DEF vars
  <1> QED
    BY <1>3, <1>4, <1>5, <1>6, DedupEmit DEF Next

(* When no lifetime is shorter than the dedup window, which loadConfig      *)
(* enforces of ttl_hours and a per-event ttl_hours can break, emit() never  *)
(* accepts a key again inside the window of an event that carried it.       *)
THEOREM Deduplication == TtlCoversWindow => (Spec => []DedupWindow)
  <1>1. DedupInv => DedupWindow
    BY DEF DedupInv
  <1>2. TtlCoversWindow /\ DedupInv /\ [Next]_vars => DedupInv'
    BY DedupNext
  <1> SUFFICES ASSUME TtlCoversWindow PROVE Spec => []DedupWindow
    OBVIOUS
  <1>3. DedupInv /\ [Next]_vars => DedupInv'
    BY <1>2
  <1> QED
    BY <1>1, <1>3, DedupInit, PTL DEF Spec

-----------------------------------------------------------------------------
(* README "archive_mode: true keeps swept rows in events_archive", for the *)
(* policies that are not meant to destroy anything: under 'discard' the    *)
(* sweep copies only what nobody owes.                                     *)
ArchiveInv == Typed /\ ArchiveModeKeepsAll

LEMMA ArchiveNext ==
  ASSUME Policy # "discard", ArchiveInv, [Next]_vars
  PROVE  ArchiveInv'
  <1>1. Typed /\ Typed'
    BY TypedNext DEF ArchiveInv
  <1>2. ASSUME UNCHANGED <<log, live, archived>> PROVE ArchiveInv'
    BY <1>1, <1>2 DEF ArchiveInv, ArchiveModeKeepsAll, Ids
  <1>3. ASSUME NEW p \in Producers, draft[p] \in Row, Accept(p) PROVE ArchiveInv'
    <2>1. Ids' = Ids \cup {Len(log) + 1}
      BY <1>1, <1>3, AcceptExtendsLog DEF Typed
    <2>2. live' = live \cup {Len(log) + 1} /\ archived' = archived
      BY <1>3 DEF Accept, AcceptRow
    <2> QED
      BY <1>1, <2>1, <2>2 DEF ArchiveInv, ArchiveModeKeepsAll
  <1>4. CASE Sweep
    <2>1. ArchiveMode => Swept \subseteq SweptToArchive
      BY StoreAssumption DEF Swept, SweptToArchive
    <2>2. UNCHANGED log /\ live' = live \ Swept /\ archived' = archived \cup SweptToArchive
      BY <1>4 DEF Sweep
    <2> QED
      BY <1>1, <2>1, <2>2 DEF ArchiveInv, ArchiveModeKeepsAll, Ids
  <1>5. ASSUME NEW p \in Producers, Emit(p) PROVE ArchiveInv'
    <2>1. CASE EmitInsert(p) \/ EmitRelease(p)
      BY <1>1, <1>3, <2>1 DEF EmitInsert, EmitRelease, Typed
    <2>2. ASSUME UNCHANGED tables PROVE ArchiveInv'
      BY <1>2, <2>2 DEF tables
    <2> QED
      BY <1>5, <2>1, <2>2 DEF Emit, EmitBegin, EmitConflict, EmitDuplicate, EmitFails, EmitStop
  <1>6. ASSUME NEW s \in Subs, Register(s) \/ Deregister(s) \/ Consume(s) PROVE ArchiveInv'
    <2>1. UNCHANGED tables
      BY <1>6 DEF Register, Deregister, Consume, RegisterSubscription, RegisterReadHead,
                  RegisterCursor, Ack, ReplayCheck, ReplayWrite, MoveCursor, UpsertAttempt,
                  DeleteAttempt
    <2> QED
      BY <1>2, <2>1 DEF tables
  <1>7. CASE Tick \/ UNCHANGED vars
    BY <1>2, <1>7 DEF Tick, vars, tables
  <1> QED
    BY <1>4, <1>5, <1>6, <1>7 DEF Next

(* With archive_mode every accepted event is in one of the two tables, for *)
(* every interleaving of emits, sweeps, acks and registrations.            *)
THEOREM ArchiveKeeps == Policy # "discard" => (Spec => []ArchiveModeKeepsAll)
  <1> SUFFICES ASSUME Policy # "discard" PROVE Spec => []ArchiveModeKeepsAll
    OBVIOUS
  <1>1. Init => ArchiveInv
    BY TypedInit DEF ArchiveInv, Init, ArchiveModeKeepsAll, Ids
  <1>2. ArchiveInv /\ [Next]_vars => ArchiveInv'
    BY ArchiveNext
  <1>3. ArchiveInv => ArchiveModeKeepsAll
    BY DEF ArchiveInv
  <1> QED
    BY <1>1, <1>2, <1>3, PTL DEF Spec
=============================================================================
