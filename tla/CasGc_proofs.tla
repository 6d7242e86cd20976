---------------------------- MODULE CasGc_proofs ----------------------------
(***************************************************************************)
(* Theorems about CasGc, for every number of producers, payloads, buckets  *)
(* and rows, every grace period and every set of buckets allowed to be     *)
(* missing.                                                                *)
(***************************************************************************)
EXTENDS CasGc, FiniteSetTheorems, TLAPS

EmitRecord == [at : {"idle", "write", "insert"}, blob : Blobs \cup {"none"}, since : Nat]

GcRecord ==
  [at : {"idle", "archive", "dead", "buckets"}, now : Nat, marked : SUBSET Blobs,
   todo : SUBSET Buckets, doomed : SUBSET Blobs]

(* The blobs that the exceptions of ReferencedIsKept are about.            *)
Excused == reused \cup strayed

Shaped ==
  /\ clock \in 0 .. MaxClock
  /\ \E n \in Nat : Rows = 1 .. n
  /\ names \in [Rows -> Blobs]
  /\ live \subseteq Rows /\ archived \subseteq Rows /\ dead \subseteq Rows
  /\ warm \in [Buckets -> SUBSET Rows]
  /\ Files \subseteq Blobs /\ mtime \in [Files -> 0 .. clock]
  /\ emit \in [Producers -> EmitRecord]
  /\ \A p \in Producers :
       /\ emit[p].since <= clock
       /\ emit[p].at # "idle" => emit[p].blob \in Blobs
  /\ gc \in GcRecord /\ gc.now <= clock
  /\ Excused \subseteq Blobs

(* The gc() in progress will not take the file of x, or x is excused.      *)
Safe(x) == x \in gc.marked \cup Excused \/ (x \in Files /\ ~Old(x, gc.now))

Known(S) == \A r \in S : Safe(names[r])

(* A file that a gc() is about to unlink is one that it looked at and that *)
(* nobody wrote since.                                                     *)
DoomedIsOld ==
  \A x \in gc.doomed :
    /\ gc.at = "buckets" /\ gc.todo = {}
    /\ x \in Files \ gc.marked /\ Old(x, gc.now)

(* An emit() is shorter than the grace period, so what it writes over is   *)
(* too young for any gc().                                                 *)
EmitsAreShort ==
  \A p \in Producers : emit[p].at # "idle" =>
    /\ clock - emit[p].since < Grace
    /\ emit[p].at = "write" /\ emit[p].blob \in Files => mtime[emit[p].blob] >= emit[p].since

(* The row of an emit() that has its file in place may come at any time.   *)
HeldIsKept ==
  \A p \in Producers : emit[p].at = "insert" =>
    /\ emit[p].blob \in Files \cup Excused
    /\ Marking => Safe(emit[p].blob)

(* What gc() has read stays known, whichever way the rows move: into the   *)
(* tables it has read they come from tables it read before.  Dead letters  *)
(* alone may be written from anywhere; one of an event in a bucket that is *)
(* yet to be read will be known then.                                      *)
ReadIsKnown ==
  /\ Marking => Known(live)
  /\ gc.at \in {"dead", "buckets"} => Known(archived)
  /\ gc.at = "buckets" =>
       /\ \A r \in dead : Safe(names[r]) \/ \E b \in gc.todo : r \in warm[b]
       /\ \A b \in Buckets \ (Allowed \cup gc.todo) : Known(warm[b])

Kept == \A r \in Referring : names[r] \in Files \cup Excused

CasInv == Shaped /\ DoomedIsOld /\ EmitsAreShort /\ HeldIsKept /\ ReadIsKnown /\ Kept

-----------------------------------------------------------------------------
LEMMA ShapedIsTyped == Shaped => CasTypeOK
  <1> SUFFICES ASSUME Shaped PROVE CasTypeOK
    OBVIOUS
  <1>1. Rows \subseteq Nat /\ NamedBy(Rows) \subseteq Blobs
    BY DEF Shaped, NamedBy
  <1>2. live \cup archived \cup dead \cup Warm \subseteq Rows
    <2>1. \A b \in Buckets : warm[b] \subseteq Rows
      BY DEF Shaped
    <2>2. Warm \subseteq Rows
      BY <2>1 DEF Warm
    <2> QED
      BY <2>2 DEF Shaped
  <1>3. /\ gc.at \in {"idle", "archive", "dead", "buckets"} /\ gc.now \in 0 .. clock
        /\ gc.marked \cup gc.doomed \cup Excused \subseteq Blobs /\ gc.todo \subseteq Buckets
    BY DEF Shaped, GcRecord
  <1>4. \A p \in Producers :
          /\ emit[p].at \in {"idle", "write", "insert"} /\ emit[p].since \in 0 .. clock
          /\ emit[p].at # "idle" => emit[p].blob \in Blobs
    BY DEF Shaped, EmitRecord
  <1> QED
    BY <1>1, <1>2, <1>3, <1>4 DEF Shaped, CasTypeOK, Excused

LEMMA NextRow ==
  ASSUME Shaped
  PROVE  /\ Cardinality(Rows) + 1 \notin Rows
         /\ \E n \in Nat : Rows \cup {Cardinality(Rows) + 1} = 1 .. n
  <1>1. PICK n \in Nat : Rows = 1 .. n
    BY DEF Shaped
  <1>2. Cardinality(Rows) = n
    BY <1>1, FS_Interval
  <1>3. 1 .. n + 1 = (1 .. n) \cup {n + 1}
    OBVIOUS
  <1> QED
    BY <1>1, <1>2, <1>3

LEMMA ExcusedStays == UNCHANGED history => Excused' = Excused
  BY DEF history, Excused

(* A process's emit() changes.                                             *)
LEMMA EmitStep ==
  ASSUME NEW p \in Producers, NEW e \in EmitRecord, Shaped, emit' = [emit EXCEPT ![p] = e]
  PROVE  /\ emit' \in [Producers -> EmitRecord]
         /\ emit'[p] = e
         /\ \A q \in Producers \ {p} : emit'[q] = emit[q]
  BY DEF Shaped

LEMMA NoEmitRecord == NoEmit \in EmitRecord /\ NoEmit.at = "idle" /\ NoEmit.since = 0
  BY DEF NoEmit, EmitRecord

LEMMA NoGcRecord ==
  /\ NoGc \in GcRecord /\ NoGc.at = "idle" /\ NoGc.now = 0
  /\ NoGc.doomed = {} /\ NoGc.todo = {} /\ NoGc.marked = {}
  BY DEF NoGc, GcRecord

-----------------------------------------------------------------------------
LEMMA CasInvInit == CasInit => CasInv
  <1> SUFFICES ASSUME CasInit PROVE CasInv
    OBVIOUS
  <1>1. /\ clock = 0 /\ Rows = {} /\ Files = {}
        /\ live = {} /\ archived = {} /\ dead = {} /\ Excused = {}
        /\ warm = [b \in Buckets |-> {}] /\ emit = [p \in Producers |-> NoEmit] /\ gc = NoGc
    BY DEF CasInit, Rows, Files, Excused
  <1>2. names \in [Rows -> Blobs] /\ mtime \in [Files -> 0 .. clock]
    BY DEF CasInit, Rows, Files
  <1>3. Rows = 1 .. 0 /\ 0 \in Nat
    BY <1>1
  <1>4. Shaped
    BY <1>1, <1>2, <1>3, NoEmitRecord, NoGcRecord, CasAssumption DEF Shaped
  <1>5. DoomedIsOld /\ EmitsAreShort /\ HeldIsKept
    BY <1>1, NoEmitRecord, NoGcRecord DEF DoomedIsOld, EmitsAreShort, HeldIsKept
  <1>6. ReadIsKnown /\ Kept
    BY <1>1, NoGcRecord DEF ReadIsKnown, Kept, Referring, Marking
  <1> QED
    BY <1>4, <1>5, <1>6 DEF CasInv

-----------------------------------------------------------------------------
(* Files only get younger and Excused only grows: what is safe stays safe.  *)
LEMMA SafeStays ==
  ASSUME Shaped, Shaped', gc' = gc, Excused \subseteq Excused', Files \subseteq Files',
         \A x \in Files : mtime'[x] >= mtime[x], NEW y, Safe(y)
  PROVE  Safe(y)'
  <1>1. CASE y \in gc.marked \cup Excused
    BY <1>1 DEF Safe
  <1>2. CASE y \in Files /\ ~Old(y, gc.now)
    <2>1. gc.now \in Int /\ mtime[y] \in Int /\ mtime'[y] \in Int /\ Grace \in Int
      BY <1>2, CasAssumption DEF Shaped, GcRecord
    <2>2. mtime'[y] >= mtime[y] /\ y \in Files'
      BY <1>2
    <2> QED
      BY <1>2, <2>1, <2>2 DEF Safe, Old
  <1> QED
    BY <1>1, <1>2 DEF Safe

(* A step of an emit() before its row is inserted.                         *)
LEMMA EmitKeeps ==
  ASSUME CasInv, Shaped', NEW p \in Producers, NEW e \in EmitRecord,
         emit' = [emit EXCEPT ![p] = e], UNCHANGED <<clock, tables, gc>>,
         Excused \subseteq Excused', Files \subseteq Files',
         \A x \in Files : mtime'[x] >= mtime[x],
         \A x \in gc.doomed : mtime'[x] = mtime[x],
         \A x \in Files' \ Files : mtime'[x] = clock,
         e.at # "idle" =>
           /\ clock - e.since < Grace
           /\ e.at = "write" /\ e.blob \in Files' => mtime'[e.blob] >= e.since,
         e.at = "insert" =>
           /\ e.blob \in Files' \cup Excused'
           /\ Marking => Safe(e.blob)'
  PROVE  CasInv'
  <1>1. /\ emit'[p] = e
        /\ \A q \in Producers \ {p} : emit'[q] = emit[q]
    BY EmitStep DEF CasInv
  <1>2. \A y : Safe(y) => Safe(y)'
    BY SafeStays DEF CasInv
  <1>3. DoomedIsOld'
    BY DEF CasInv, DoomedIsOld, Old
  <1>4. EmitsAreShort'
    <2> SUFFICES ASSUME NEW q \in Producers \ {p}, emit[q].at # "idle"
        PROVE  /\ clock - emit[q].since < Grace
               /\ emit[q].at = "write" /\ emit[q].blob \in Files' =>
                    mtime'[emit[q].blob] >= emit[q].since
      BY <1>1 DEF EmitsAreShort
    <2>1. clock - emit[q].since < Grace
      BY DEF CasInv, EmitsAreShort
    <2>2. ASSUME emit[q].at = "write", emit[q].blob \in Files
          PROVE  mtime'[emit[q].blob] >= emit[q].since
      <3>1. mtime'[emit[q].blob] >= mtime[emit[q].blob] /\ mtime[emit[q].blob] >= emit[q].since
        BY <2>2 DEF CasInv, EmitsAreShort
      <3>2. /\ mtime'[emit[q].blob] \in Int /\ mtime[emit[q].blob] \in Int
            /\ emit[q].since \in Int
        BY <2>2 DEF CasInv, Shaped, EmitRecord
      <3> QED
        BY <3>1, <3>2
    <2>3. ASSUME emit[q].blob \in Files' \ Files
          PROVE  mtime'[emit[q].blob] >= emit[q].since
      <3>1. mtime'[emit[q].blob] = clock /\ emit[q].since <= clock
        BY <2>3 DEF CasInv, Shaped
      <3>2. clock \in Int /\ emit[q].since \in Int
        BY DEF CasInv, Shaped, EmitRecord
      <3> QED
        BY <3>1, <3>2
    <2> QED
      BY <2>1, <2>2, <2>3
  <1>5. HeldIsKept'
    <2>1. \A q \in Producers \ {p} : emit[q].at = "insert" =>
            /\ emit[q].blob \in Files' \cup Excused'
            /\ Marking => Safe(emit[q].blob)'
      BY <1>2 DEF CasInv, HeldIsKept
    <2> QED
      BY <1>1, <2>1 DEF HeldIsKept, Marking
  <1>6. ReadIsKnown'
    <2>1. \A S : Known(S) => \A r \in S : Safe(names[r])'
      BY <1>2 DEF Known, tables
    <2> QED
      BY <2>1 DEF CasInv, ReadIsKnown, Known, Marking, tables
  <1>7. Kept'
    BY DEF CasInv, Kept, Referring, tables
  <1> QED
    BY <1>3, <1>4, <1>5, <1>6, <1>7 DEF CasInv

LEMMA EmitShaped ==
  ASSUME Shaped, NEW p \in Producers, NEW e \in EmitRecord, emit' = [emit EXCEPT ![p] = e],
         e.since <= clock, e.at # "idle" => e.blob \in Blobs,
         UNCHANGED <<clock, tables, gc>>, Rows' = Rows, Excused' \subseteq Blobs,
         Files' \subseteq Blobs, mtime' \in [Files' -> 0 .. clock]
  PROVE  Shaped'
  <1>1. /\ emit' \in [Producers -> EmitRecord] /\ emit'[p] = e
        /\ \A q \in Producers \ {p} : emit'[q] = emit[q]
    BY EmitStep
  <1>2. \A q \in Producers :
          /\ emit'[q].since <= clock
          /\ emit'[q].at # "idle" => emit'[q].blob \in Blobs
    BY <1>1 DEF Shaped
  <1> QED
    BY <1>1, <1>2 DEF Shaped, tables

LEMMA CasEmit ==
  ASSUME CasInv, NEW p \in Producers, Emit(p)
  PROVE  CasInv'
  <1> USE DEF CasInv
  <1>0. Grace \in Nat \ {0} /\ clock \in Nat /\ emit[p] \in EmitRecord
    BY CasAssumption DEF Shaped
  <1>1. ASSUME NEW x \in Blobs, PutFound(p, x) PROVE CasInv'
    <2>1. PICK e \in EmitRecord : e = [at |-> "insert", blob |-> x, since |-> clock]
      BY <1>0 DEF EmitRecord
    <2>2. /\ emit' = [emit EXCEPT ![p] = e] /\ Excused \subseteq Excused'
          /\ Excused' \subseteq Excused \cup {x}
          /\ UNCHANGED <<clock, tables, gc, mtime>> /\ x \in Files
          /\ Files' = Files /\ Rows' = Rows
      BY <1>1, <2>1 DEF PutFound, Files, Rows, tables, Excused
    <2>3. Marking => Safe(x)'
      BY <1>1, <2>2 DEF PutFound, Safe, Old, Marking, Excused
    <2>4. Shaped'
      <3>1. /\ Excused' \subseteq Blobs /\ mtime' \in [Files' -> 0 .. clock]
            /\ Files' \subseteq Blobs
        BY <2>2 DEF Shaped
      <3>2. e.since <= clock /\ e.blob \in Blobs
        BY <1>0, <2>1
      <3> QED
        BY <2>2, <3>1, <3>2, EmitShaped
    <2>5. \A y \in Files : mtime'[y] >= mtime[y]
      BY <2>2 DEF Shaped
    <2>6. clock - e.since < Grace /\ e.blob \in Files' \cup Excused'
      BY <1>0, <2>1, <2>2
    <2>7. /\ clock - e.since < Grace
          /\ e.at = "write" /\ e.blob \in Files' => mtime'[e.blob] >= e.since
      BY <2>1, <2>6
    <2>8. e.blob \in Files' \cup Excused' /\ (Marking => Safe(e.blob)')
      BY <2>1, <2>3, <2>6
    <2> QED
      BY <2>1, <2>2, <2>4, <2>5, <2>7, <2>8, EmitKeeps
  <1>2. ASSUME NEW x \in Blobs, PutMissing(p, x) PROVE CasInv'
    <2>1. PICK e \in EmitRecord : e = [at |-> "write", blob |-> x, since |-> clock]
      BY <1>0 DEF EmitRecord
    <2>2. /\ emit' = [emit EXCEPT ![p] = e] /\ x \notin Files
          /\ UNCHANGED <<clock, tables, gc, mtime, Excused>>
          /\ Files' = Files /\ Rows' = Rows
      BY <1>2, <2>1, ExcusedStays DEF PutMissing, Files, Rows, tables
    <2>3. Shaped'
      <3>1. /\ Excused' \subseteq Blobs /\ mtime' \in [Files' -> 0 .. clock]
            /\ Files' \subseteq Blobs
        BY <2>2 DEF Shaped
      <3>2. e.since <= clock /\ e.blob \in Blobs
        BY <1>0, <2>1
      <3> QED
        BY <2>2, <3>1, <3>2, EmitShaped
    <2>4. \A y \in Files : mtime'[y] >= mtime[y]
      BY <2>2 DEF Shaped
    <2>5. /\ clock - e.since < Grace /\ e.at # "insert"
          /\ e.at = "write" /\ e.blob \in Files' => mtime'[e.blob] >= e.since
      BY <1>0, <2>1, <2>2
    <2> QED
      BY <2>1, <2>2, <2>3, <2>4, <2>5, EmitKeeps
  <1>3. CASE PutWrites(p)
    <2>1. PICK x \in Blobs : x = emit[p].blob
      BY <1>3 DEF PutWrites, Shaped
    <2>2. PICK e \in EmitRecord : e = [emit[p] EXCEPT !.at = "insert"]
      BY <1>0 DEF EmitRecord
    <2>3. e.at = "insert" /\ e.blob = x /\ e.since = emit[p].since
      BY <1>0, <2>1, <2>2 DEF EmitRecord
    <2>4. emit' = [emit EXCEPT ![p] = e] /\ UNCHANGED <<clock, tables, gc, Excused>>
          /\ Rows' = Rows
      BY <1>3, <2>2, ExcusedStays DEF PutWrites, Shaped, Rows, tables
    <2>5. /\ Files' = Files \cup {x} /\ mtime'[x] = clock
          /\ \A y \in Files \ {x} : mtime'[y] = mtime[y]
          /\ mtime' = [y \in Files' |-> mtime'[y]]
      BY <1>3, <2>1 DEF PutWrites, Files
    <2>6. clock - e.since < Grace
      BY <1>3, <2>3 DEF PutWrites, EmitsAreShort
    <2>7. \A y \in Files : mtime'[y] >= mtime[y] /\ mtime'[y] \in 0 .. clock
      BY <1>0, <2>5 DEF Shaped
    <2>8. x \notin gc.doomed
      <3>1. SUFFICES ASSUME x \in gc.doomed PROVE FALSE
        OBVIOUS
      <3>2. x \in Files /\ gc.now - mtime[x] >= Grace
        BY <3>1 DEF DoomedIsOld, Old
      <3>3. mtime[x] >= emit[p].since /\ clock - emit[p].since < Grace
        BY <1>3, <2>1, <3>2 DEF PutWrites, EmitsAreShort
      <3>4. /\ gc.now <= clock /\ gc.now \in Int /\ emit[p].since \in Int
            /\ mtime[x] \in Int
        BY <1>0, <3>2 DEF Shaped, GcRecord, EmitRecord
      <3> QED
        BY <1>0, <3>2, <3>3, <3>4
    <2>9. Safe(x)'
      <3>1. gc.now <= clock /\ gc.now \in Int
        BY DEF Shaped, GcRecord
      <3> QED
        BY <1>0, <2>4, <2>5, <3>1 DEF Safe, Old
    <2>10. Shaped'
      <3>1. mtime' \in [Files' -> 0 .. clock]
        BY <1>0, <2>5, <2>7
      <3>2. emit[p].since <= clock /\ Files' \subseteq Blobs /\ Excused' \subseteq Blobs
        BY <2>4, <2>5 DEF Shaped
      <3> QED
        BY <2>3, <2>4, <3>1, <3>2, EmitShaped
    <2>11. /\ clock - e.since < Grace
           /\ e.at = "write" /\ e.blob \in Files' => mtime'[e.blob] >= e.since
      BY <2>3, <2>6
    <2>12. e.blob \in Files' \cup Excused' /\ (Marking => Safe(e.blob)')
      BY <2>3, <2>5, <2>9
    <2>13. \A y \in gc.doomed : mtime'[y] = mtime[y]
      BY <2>5, <2>8 DEF DoomedIsOld
    <2>14. \A y \in Files' \ Files : mtime'[y] = clock
      BY <2>5
    <2>15. Files \subseteq Files' /\ Excused \subseteq Excused'
      BY <2>4, <2>5
    <2>16. \A y \in Files : mtime'[y] >= mtime[y]
      BY <2>7
    <2> QED
      BY <2>4, <2>10, <2>11, <2>12, <2>13, <2>14, <2>15, <2>16, EmitKeeps
  <1>4. CASE Insert(p)
    <2>1. PICK r : r = Cardinality(Rows) + 1
      OBVIOUS
    <2>2. PICK x \in Blobs : x = emit[p].blob
      BY <1>4 DEF Insert, Shaped
    <2>3. /\ emit[p].at = "insert" /\ emit' = [emit EXCEPT ![p] = NoEmit]
          /\ names' = [q \in Rows \cup {r} |-> IF q = r THEN x ELSE names[q]]
          /\ live' = live \cup {r}
          /\ UNCHANGED <<clock, archived, dead, warm, mtime, gc, Excused>> /\ Files' = Files
      BY <1>4, <2>1, <2>2, ExcusedStays DEF Insert, Files
    <2>4. r \notin Rows /\ \E n \in Nat : Rows \cup {r} = 1 .. n
      BY <2>1, NextRow
    <2>5. emit'[p] = NoEmit /\ \A q \in Producers \ {p} : emit'[q] = emit[q]
      BY <2>3, NoEmitRecord, EmitStep
    <2>6. /\ Rows' = Rows \cup {r} /\ names'[r] = x
          /\ \A q \in Rows : names'[q] = names[q]
      BY <2>3, <2>4 DEF Rows
    <2>8. Shaped'
      <3>1. names' \in [Rows' -> Blobs]
        BY <2>3, <2>6 DEF Shaped
      <3>2. /\ emit' \in [Producers -> EmitRecord]
            /\ \A q \in Producers :
                 /\ emit'[q].since <= clock
                 /\ emit'[q].at # "idle" => emit'[q].blob \in Blobs
        BY <1>0, <2>3, <2>5, NoEmitRecord, EmitStep DEF Shaped
      <3>3. warm' \in [Buckets -> SUBSET Rows']
        BY <2>3, <2>6 DEF Shaped
      <3> QED
        BY <2>3, <2>4, <2>6, <3>1, <3>2, <3>3 DEF Shaped
    <2>9. DoomedIsOld'
      BY <2>3 DEF DoomedIsOld, Old
    <2>10. EmitsAreShort' /\ HeldIsKept'
      BY <2>3, <2>5, NoEmitRecord DEF EmitsAreShort, HeldIsKept, Marking, Safe, Old
    <2>11. \A y : Safe(y) => Safe(y)'
      BY <2>3 DEF Safe, Old
    <2>12. ReadIsKnown'
      <3>1. Marking => Safe(x)'
        BY <2>2, <2>3, <2>11 DEF HeldIsKept
      <3>2. \A b \in Buckets : warm[b] \subseteq Rows
        BY DEF Shaped
      <3>3. \A S \in SUBSET Rows : Known(S) => Known(S)'
        BY <2>6, <2>11 DEF Known
      <3>4. Marking => Known(live)'
        BY <2>3, <2>6, <3>1, <3>3 DEF ReadIsKnown, Known, Shaped, Marking
      <3>5. gc.at = "buckets" =>
              \A q \in dead' : Safe(names[q])' \/ \E b \in gc.todo : q \in warm[b]
        <4>1. \A q \in Rows : Safe(names[q]) => Safe(names[q])'
          BY <2>6, <2>11
        <4> QED
          BY <2>3, <4>1 DEF ReadIsKnown, Shaped
      <3>6. gc.at = "buckets" =>
              \A b \in Buckets \ (Allowed \cup gc.todo) : Known(warm[b])'
        BY <2>3, <3>2, <3>3 DEF ReadIsKnown, Known
      <3>7. gc.at \in {"dead", "buckets"} => Known(archived)'
        BY <2>3, <3>3 DEF ReadIsKnown, Shaped, Known
      <3> QED
        BY <2>3, <3>4, <3>5, <3>6, <3>7 DEF ReadIsKnown, Marking, Known
    <2>13. Kept'
      <3>1. \A b \in Buckets : warm[b] \subseteq Rows
        BY DEF Shaped
      <3>2. Referring \subseteq Rows
        <4>1. UNION {warm[b] : b \in Buckets \ Allowed} \subseteq Rows
          BY <3>1
        <4> QED
          BY <4>1 DEF Referring, Shaped
      <3>3. Referring' = Referring \cup {r}
        BY <2>3 DEF Referring
      <3>4. x \in Files \cup Excused
        BY <2>2, <2>3 DEF HeldIsKept
      <3> QED
        BY <2>3, <2>6, <3>2, <3>3, <3>4 DEF Kept
    <2> QED
      BY <2>8, <2>9, <2>10, <2>12, <2>13
  <1>5. CASE EmitFails(p)
    <2>1. /\ emit' = [emit EXCEPT ![p] = NoEmit]
          /\ UNCHANGED <<clock, tables, gc, mtime, Excused>>
          /\ Files' = Files /\ Rows' = Rows
      BY <1>5, ExcusedStays DEF EmitFails, Files, Rows, tables
    <2>2. Shaped'
      <3>1. /\ Excused' \subseteq Blobs /\ mtime' \in [Files' -> 0 .. clock]
            /\ Files' \subseteq Blobs
        BY <2>1 DEF Shaped
      <3>2. NoEmit.since <= clock /\ NoEmit \in EmitRecord /\ NoEmit.at = "idle"
        BY <1>0, NoEmitRecord
      <3> QED
        BY <2>1, <3>1, <3>2, EmitShaped
    <2>3. \A y \in Files : mtime'[y] >= mtime[y]
      BY <2>1 DEF Shaped
    <2> QED
      BY <2>1, <2>2, <2>3, NoEmitRecord, EmitKeeps
  <1> QED
    BY <1>1, <1>2, <1>3, <1>4, <1>5 DEF Emit

-----------------------------------------------------------------------------
(* Rows move from tables that gc() reads first to tables it reads later.   *)
LEMMA CasMove ==
  ASSUME CasInv, UNCHANGED <<clock, names, mtime, emit, gc, Excused>>,
         live' \subseteq live, archived' \subseteq live \cup archived,
         dead' \subseteq dead,
         warm' \in [Buckets -> SUBSET Rows],
         \A b \in Buckets : warm[b] \subseteq warm'[b] /\ warm'[b] \subseteq warm[b] \cup live
  PROVE  CasInv'
  <1> USE DEF CasInv
  <1>1. Files' = Files /\ Rows' = Rows
    BY DEF Files, Rows
  <1>2. Shaped'
    BY <1>1 DEF Shaped
  <1>3. DoomedIsOld' /\ EmitsAreShort'
    BY <1>1 DEF DoomedIsOld, EmitsAreShort, Old
  <1>4. \A y : Safe(y) => Safe(y)'
    BY <1>1 DEF Safe, Old
  <1>5. HeldIsKept'
    BY <1>1, <1>4 DEF HeldIsKept, Marking
  <1>6. ReadIsKnown'
    <2>1. \A S : Known(S) <=> \A r \in S : Safe(names[r])'
      BY <1>1 DEF Known, Safe, Old
    <2>2. Marking => Known(live')
      BY DEF ReadIsKnown, Known
    <2>3. gc.at \in {"dead", "buckets"} => Known(archived')
      BY DEF ReadIsKnown, Known, Marking
    <2>4. gc.at = "buckets" =>
            \A b \in Buckets \ (Allowed \cup gc.todo) : Known(warm'[b])
      BY DEF ReadIsKnown, Known, Marking
    <2>5. gc.at = "buckets" =>
            \A r \in dead' : Safe(names[r])' \/ \E b \in gc.todo : r \in warm'[b]
      <3>1. gc.todo \subseteq Buckets
        BY DEF Shaped, GcRecord
      <3> QED
        BY <1>4, <3>1 DEF ReadIsKnown
    <2> QED
      BY <2>1, <2>2, <2>3, <2>4, <2>5 DEF ReadIsKnown, Known, Marking
  <1>7. Kept'
    <2>1. Referring' \subseteq Referring
      BY DEF Referring
    <2> QED
      BY <1>1, <2>1 DEF Kept
  <1> QED
    BY <1>2, <1>3, <1>5, <1>6, <1>7

(* A dead letter is written from the worker's memory.                      *)
LEMMA CasBury ==
  ASSUME CasInv, NEW r \in Rows, Bury(r)
  PROVE  CasInv'
  <1> USE DEF CasInv
  <1>1. /\ UNCHANGED <<clock, names, live, archived, warm, mtime, emit, gc>>
        /\ dead' = dead \cup {r} /\ Files' = Files /\ Rows' = Rows
        /\ Excused' = IF r \notin Referring /\ (PastDead(names[r]) \/ names[r] \notin Files)
                      THEN Excused \cup {names[r]} ELSE Excused
    BY DEF Bury, Files, Rows, Excused
  <1>2. names[r] \in Blobs /\ warm \in [Buckets -> SUBSET Rows] /\ gc.todo \subseteq Buckets
    BY DEF Shaped, GcRecord
  <1>3. Shaped'
    BY <1>1, <1>2 DEF Shaped
  <1>4. DoomedIsOld' /\ EmitsAreShort'
    BY <1>1 DEF DoomedIsOld, EmitsAreShort, Old
  <1>5. \A y : Safe(y) => Safe(y)'
    BY <1>1 DEF Safe, Old
  <1>6. HeldIsKept'
    BY <1>1, <1>5 DEF HeldIsKept, Marking
  <1>7. ReadIsKnown'
    <2>1. \A S : Known(S) => Known(S)'
      BY <1>1, <1>5 DEF Known
    <2>2. gc.at = "buckets" => Safe(names[r])' \/ \E b \in gc.todo : r \in warm[b]
      <3> SUFFICES ASSUME gc.at = "buckets" PROVE Safe(names[r])' \/ \E b \in gc.todo : r \in warm[b]
        OBVIOUS
      <3>1. CASE r \in live \cup archived
        BY <1>1, <1>5, <3>1 DEF ReadIsKnown, Known, Marking
      <3>2. CASE r \in dead
        BY <1>1, <1>5, <3>2 DEF ReadIsKnown
      <3>3. ASSUME NEW b \in Buckets \ Allowed, r \in warm[b]
            PROVE  Safe(names[r])' \/ \E c \in gc.todo : r \in warm[c]
        BY <1>1, <1>5, <3>3 DEF ReadIsKnown, Known
      <3>4. CASE r \notin Referring
        <4>1. names[r] \in gc.marked \cup Excused'
          BY <1>1, <3>4 DEF PastDead
        <4> QED
          BY <1>1, <4>1 DEF Safe
      <3> QED
        BY <3>1, <3>2, <3>3, <3>4 DEF Referring
    <2>3. gc.at = "buckets" =>
            \A q \in dead' : Safe(names[q])' \/ \E b \in gc.todo : q \in warm[b]
      BY <1>1, <1>5, <2>2 DEF ReadIsKnown
    <2>4. Marking => Known(live)'
      BY <1>1, <1>5 DEF ReadIsKnown, Known
    <2>5. gc.at \in {"dead", "buckets"} => Known(archived)'
      BY <1>1, <1>5 DEF ReadIsKnown, Known
    <2>6. gc.at = "buckets" => \A b \in Buckets \ (Allowed \cup gc.todo) : Known(warm[b])'
      BY <1>1, <1>5 DEF ReadIsKnown, Known
    <2> QED
      BY <1>1, <2>3, <2>4, <2>5, <2>6 DEF ReadIsKnown, Known, Marking
  <1>8. Kept'
    <2>1. Referring' = Referring \cup {r}
      BY <1>1 DEF Referring
    <2>2. names[r] \in Files \cup Excused'
      BY <1>1 DEF Kept
    <2> QED
      BY <1>1, <2>1, <2>2 DEF Kept
  <1> QED
    BY <1>3, <1>4, <1>6, <1>7, <1>8

LEMMA CasRearrange ==
  ASSUME CasInv, Rearrange
  PROVE  CasInv'
  <1>0. /\ live \subseteq Rows /\ warm \in [Buckets -> SUBSET Rows]
    BY DEF CasInv, Shaped
  <1>1. ASSUME NEW r \in Rows, NEW keep \in BOOLEAN, Sweep(r, keep) PROVE CasInv'
    <2>1. /\ UNCHANGED <<clock, names, mtime, emit, gc, Excused, dead, warm>>
          /\ live' \subseteq live /\ archived' \subseteq live \cup archived
      BY <1>1, ExcusedStays DEF Sweep, Move
    <2> QED
      BY <1>0, <2>1, CasMove
  <1>2. ASSUME NEW r \in Rows, NEW b \in Buckets, ToBucket(r, b) PROVE CasInv'
    <2>1. /\ UNCHANGED <<clock, names, mtime, emit, gc, Excused, live, archived, dead>>
          /\ r \in live /\ warm' = [warm EXCEPT ![b] = @ \cup {r}]
      BY <1>2, ExcusedStays DEF ToBucket, Move
    <2>2. /\ warm' \in [Buckets -> SUBSET Rows]
          /\ \A c \in Buckets : warm[c] \subseteq warm'[c] /\ warm'[c] \subseteq warm[c] \cup live
      BY <1>0, <2>1
    <2> QED
      BY <2>1, <2>2, CasMove
  <1>3. ASSUME NEW r \in Rows, OutOfLive(r) \/ Unbury(r) PROVE CasInv'
    <2>1. /\ UNCHANGED <<clock, names, mtime, emit, gc, Excused, archived, warm>>
          /\ live' \subseteq live /\ dead' \subseteq dead
      BY <1>3, ExcusedStays DEF OutOfLive, Unbury, Move
    <2> QED
      BY <1>0, <2>1, CasMove
  <1> QED
    BY <1>1, <1>2, <1>3, CasBury DEF Rearrange

-----------------------------------------------------------------------------
(* A gc() marks more and unlinks nothing.                                  *)
LEMMA GcMarks ==
  ASSUME CasInv, UNCHANGED <<clock, tables, mtime, emit, Excused>>, Marking,
         gc' \in GcRecord, gc'.now = gc.now, gc.marked \subseteq gc'.marked,
         gc'.doomed = {},
         gc'.at \in {"dead", "buckets"} => Known(archived)',
         gc'.at = "buckets" =>
           /\ \A r \in dead : Safe(names[r])' \/ \E b \in gc'.todo : r \in warm[b]
           /\ \A b \in Buckets \ (Allowed \cup gc'.todo) : \A r \in warm[b] : Safe(names[r])'
  PROVE  CasInv'
  <1> USE DEF CasInv
  <1>1. Files' = Files /\ Rows' = Rows
    BY DEF Files, Rows, tables
  <1>2. Shaped'
    BY <1>1 DEF Shaped, tables
  <1>3. DoomedIsOld' /\ EmitsAreShort'
    BY <1>1 DEF DoomedIsOld, EmitsAreShort
  <1>4. \A y : Safe(y) => Safe(y)'
    BY <1>1 DEF Safe, Old
  <1>5. HeldIsKept'
    BY <1>1, <1>4 DEF HeldIsKept, Marking
  <1>6. Known(live)'
    BY <1>4 DEF ReadIsKnown, Known, tables
  <1>7. ReadIsKnown'
    BY <1>6 DEF ReadIsKnown, Known, tables
  <1>8. Kept'
    BY <1>1 DEF Kept, Referring, tables
  <1> QED
    BY <1>2, <1>3, <1>5, <1>7, <1>8

(* A gc() ends or is over.                                                 *)
LEMMA GcResets ==
  ASSUME CasInv, UNCHANGED <<clock, tables, mtime, emit, Excused>>, gc' = NoGc
  PROVE  CasInv'
  <1> USE DEF CasInv
  <1>1. Files' = Files /\ Rows' = Rows
    BY DEF Files, Rows, tables
  <1>2. clock \in Nat
    BY CasAssumption DEF Shaped
  <1>3. Shaped'
    BY <1>1, <1>2, NoGcRecord DEF Shaped, tables
  <1>4. DoomedIsOld' /\ EmitsAreShort'
    BY <1>1, NoGcRecord DEF DoomedIsOld, EmitsAreShort
  <1>5. HeldIsKept' /\ ReadIsKnown'
    BY <1>1, NoGcRecord DEF HeldIsKept, ReadIsKnown, Marking
  <1>6. Kept'
    BY <1>1 DEF Kept, Referring, tables
  <1> QED
    BY <1>3, <1>4, <1>5, <1>6

LEMMA CasGcBegins ==
  ASSUME CasInv, GcLive
  PROVE  CasInv'
  <1> USE DEF CasInv
  <1>1. PICK g \in GcRecord :
          g = [NoGc EXCEPT !.at = "archive", !.now = clock, !.marked = NamedBy(live)]
    <2>1. clock \in Nat /\ NamedBy(live) \subseteq Blobs
      BY CasAssumption DEF Shaped, NamedBy
    <2> QED
      BY <2>1 DEF NoGc, GcRecord
  <1>2. /\ g.at = "archive" /\ g.now = clock /\ g.marked = NamedBy(live)
        /\ g.doomed = {}
    BY <1>1 DEF NoGc
  <1>3. /\ gc' = g /\ UNCHANGED <<clock, tables, mtime, emit>>
        /\ Excused' = Excused \cup {x \in Held \cap Files : Old(x, clock)}
        /\ Files' = Files /\ Rows' = Rows
    BY <1>1 DEF GcLive, Files, Rows, tables, Excused
  <1>4. Shaped'
    <2>1. Excused' \subseteq Blobs /\ clock \in Nat
      BY <1>3, CasAssumption DEF Shaped
    <2> QED
      BY <1>2, <1>3, <2>1 DEF Shaped, tables
  <1>5. DoomedIsOld' /\ EmitsAreShort'
    BY <1>2, <1>3 DEF DoomedIsOld, EmitsAreShort
  <1>6. HeldIsKept'
    <2> SUFFICES ASSUME NEW p \in Producers, emit[p].at = "insert"
        PROVE  /\ emit[p].blob \in Files \cup Excused'
               /\ \/ emit[p].blob \in Excused'
                  \/ emit[p].blob \in Files /\ ~Old(emit[p].blob, clock)
      BY <1>2, <1>3 DEF HeldIsKept, Safe, Old
    <2>1. emit[p].blob \in Held
      BY DEF Held
    <2>2. emit[p].blob \in Files \cup Excused
      BY DEF HeldIsKept
    <2> QED
      BY <1>3, <2>1, <2>2
  <1>7. ReadIsKnown'
    <2>1. \A r \in live : names[r] \in g.marked
      BY <1>2 DEF NamedBy
    <2> QED
      BY <1>2, <1>3, <2>1 DEF ReadIsKnown, Known, Safe, tables
  <1>8. Kept'
    BY <1>3 DEF Kept, Referring, tables
  <1> QED
    BY <1>4, <1>5, <1>6, <1>7, <1>8

LEMMA CasGcReads ==
  ASSUME CasInv, GcArchive \/ GcDead \/ (\E b \in Buckets : GcBucket(b))
  PROVE  CasInv'
  <1> USE DEF CasInv
  <1>0. /\ gc \in GcRecord /\ names \in [Rows -> Blobs]
        /\ live \subseteq Rows /\ archived \subseteq Rows /\ dead \subseteq Rows
        /\ warm \in [Buckets -> SUBSET Rows]
    BY DEF Shaped
  <1>1. CASE GcArchive
    <2>1. NamedBy(archived) \subseteq Blobs
      BY <1>0 DEF NamedBy
    <2>2. /\ gc'.at = "dead" /\ gc'.now = gc.now /\ gc'.doomed = gc.doomed
          /\ gc'.marked = gc.marked \cup NamedBy(archived) /\ gc' \in GcRecord
      BY <1>0, <1>1, <2>1 DEF GcArchive, GcRecord
    <2>3. UNCHANGED <<clock, tables, mtime, emit, Excused>> /\ Marking /\ gc.doomed = {}
      BY <1>1, ExcusedStays DEF GcArchive, Marking, DoomedIsOld
    <2>4. Known(archived)'
      BY <2>2, <2>3 DEF Known, Safe, NamedBy, tables
    <2> QED
      BY <2>2, <2>3, <2>4, GcMarks
  <1>2. CASE GcDead
    <2>1. NamedBy(dead) \subseteq Blobs
      BY <1>0 DEF NamedBy
    <2>2. /\ gc'.at = "buckets" /\ gc'.now = gc.now /\ gc'.doomed = gc.doomed
          /\ gc'.marked = gc.marked \cup NamedBy(dead) /\ gc' \in GcRecord
          /\ gc'.todo = {b \in Buckets : warm[b] # {}} \ Allowed
      BY <1>0, <1>2, <2>1 DEF GcDead, GcRecord
    <2>3. /\ UNCHANGED <<clock, tables, mtime, emit, Excused>> /\ Marking /\ gc.doomed = {}
          /\ Files' = Files /\ gc.at = "dead"
      BY <1>2, ExcusedStays DEF GcDead, Marking, DoomedIsOld, Files
    <2>4. \A r \in dead : Safe(names[r])'
      BY <2>2, <2>3 DEF Safe, NamedBy, tables
    <2>5. Known(archived)'
      BY <2>2, <2>3 DEF ReadIsKnown, Known, Safe, Old, tables
    <2>6. \A b \in Buckets \ (Allowed \cup gc'.todo) : warm[b] = {}
      BY <2>2
    <2>7. warm' = warm
      BY <2>3 DEF tables
    <2>8. \A b \in Buckets \ (Allowed \cup gc'.todo) : \A r \in warm[b] : Safe(names[r])'
      BY <2>6
    <2> QED
      BY <2>2, <2>3, <2>4, <2>5, <2>8, GcMarks
  <1>3. ASSUME NEW b \in Buckets, GcBucket(b) PROVE CasInv'
    <2>1. NamedBy(warm[b]) \subseteq Blobs
      BY <1>0 DEF NamedBy
    <2>2. /\ gc'.at = "buckets" /\ gc'.now = gc.now /\ gc'.doomed = gc.doomed
          /\ gc'.marked = gc.marked \cup NamedBy(warm[b]) /\ gc' \in GcRecord
          /\ gc'.todo = gc.todo \ {b}
      BY <1>0, <1>3, <2>1 DEF GcBucket, GcRecord
    <2>3. /\ UNCHANGED <<clock, tables, mtime, emit, Excused>> /\ Marking /\ gc.doomed = {}
          /\ Files' = Files /\ gc.at = "buckets" /\ names' = names
      BY <1>3, ExcusedStays DEF GcBucket, Marking, DoomedIsOld, Files, tables
    <2>4. \A y : Safe(y) => Safe(y)'
      BY <2>2, <2>3 DEF Safe, Old
    <2>5. Known(archived)'
      BY <2>3, <2>4 DEF ReadIsKnown, Known, tables
    <2>6. \A r \in warm[b] : Safe(names[r])'
      BY <2>2, <2>3 DEF Safe, NamedBy
    <2>8. \A r \in dead : Safe(names[r])' \/ \E c \in gc'.todo : r \in warm[c]
      BY <2>2, <2>3, <2>4, <2>6 DEF ReadIsKnown
    <2>7. ASSUME NEW c \in Buckets \ (Allowed \cup gc'.todo), NEW r \in warm[c]
          PROVE  Safe(names[r])'
      <3>1. CASE c = b
        BY <2>6, <3>1
      <3>2. CASE c \in Buckets \ (Allowed \cup gc.todo)
        BY <2>3, <2>4, <3>2 DEF ReadIsKnown, Known
      <3> QED
        BY <2>2, <3>1, <3>2
    <2> QED
      BY <2>2, <2>3, <2>5, <2>7, <2>8, GcMarks
  <1> QED
    BY <1>1, <1>2, <1>3

(* gc() has read every table there is to read.                             *)
LEMMA AllRead ==
  ASSUME CasInv, gc.at = "buckets", gc.todo = {}
  PROVE  Known(Referring)
  BY DEF CasInv, ReadIsKnown, Known, Referring, Marking

LEMMA CasGcUnlinks ==
  ASSUME CasInv, NEW x \in Blobs, GcStat(x) \/ GcUnlink(x)
  PROVE  CasInv'
  <1> USE DEF CasInv
  <1>0. gc \in GcRecord /\ names \in [Rows -> Blobs]
    BY DEF Shaped
  <1>1. CASE GcStat(x)
    <2>1. /\ gc'.at = "buckets" /\ gc'.todo = {} /\ gc'.doomed = {x}
          /\ gc'.marked = gc.marked /\ gc'.now = gc.now /\ gc' \in GcRecord
          /\ gc.at = "buckets" /\ gc.todo = {}
      BY <1>0, <1>1 DEF GcStat, GcRecord
    <2>2. /\ UNCHANGED <<clock, tables, mtime, emit, Excused>>
          /\ Files' = Files /\ Rows' = Rows /\ names' = names
          /\ x \in Files \ gc.marked /\ Old(x, gc.now)
      BY <1>1, ExcusedStays DEF GcStat, Files, Rows, tables
    <2>3. Shaped'
      BY <2>1, <2>2 DEF Shaped, tables
    <2>4. DoomedIsOld' /\ EmitsAreShort'
      BY <2>1, <2>2 DEF DoomedIsOld, EmitsAreShort, Old
    <2>5. \A y : Safe(y) => Safe(y)'
      BY <2>1, <2>2 DEF Safe, Old
    <2>6. HeldIsKept'
      BY <2>1, <2>2, <2>5 DEF HeldIsKept, Marking
    <2>7. ReadIsKnown'
      BY <2>1, <2>2, <2>5 DEF ReadIsKnown, Known, Marking, tables
    <2>8. Kept'
      BY <2>2 DEF Kept, Referring, tables
    <2> QED
      BY <2>3, <2>4, <2>6, <2>7, <2>8
  <1>2. CASE GcUnlink(x)
    <2>1. /\ gc.at = "buckets" /\ gc.todo = {} /\ x \in Files \ gc.marked
          /\ Old(x, gc.now)
      BY <1>2 DEF GcUnlink, DoomedIsOld
    <2>2. /\ gc'.at = "buckets" /\ gc'.todo = {} /\ gc'.doomed = {}
          /\ gc'.marked = gc.marked /\ gc'.now = gc.now /\ gc' \in GcRecord
      BY <1>0, <1>2, <2>1 DEF GcUnlink, GcRecord
    <2>3. /\ UNCHANGED <<clock, tables, emit, Excused>>
          /\ Rows' = Rows /\ names' = names /\ Files' = Files \ {x}
          /\ mtime' = [y \in Files \ {x} |-> mtime[y]]
      BY <1>2, ExcusedStays DEF GcUnlink, Files, Rows, tables
    <2>4. ASSUME NEW y, Safe(y) PROVE Safe(y)' /\ y \in Files' \cup Excused' \cup gc.marked
      <3>1. CASE y \in gc.marked \cup Excused
        BY <2>2, <2>3, <3>1 DEF Safe
      <3>2. CASE y \in Files /\ ~Old(y, gc.now)
        BY <2>1, <2>2, <2>3, <3>2 DEF Safe, Old
      <3> QED
        BY <2>4, <3>1, <3>2 DEF Safe
    <2>5. ASSUME NEW y \in Files \cup Excused, Safe(y) PROVE y \in Files' \cup Excused'
      BY <2>1, <2>3, <2>4, <2>5
    <2>6. Shaped'
      BY <2>2, <2>3 DEF Shaped, tables
    <2>7. DoomedIsOld' /\ EmitsAreShort'
      BY <2>2, <2>3 DEF DoomedIsOld, EmitsAreShort
    <2>8. HeldIsKept'
      <3> SUFFICES ASSUME NEW p \in Producers, emit[p].at = "insert"
          PROVE  emit[p].blob \in Files' \cup Excused' /\ Safe(emit[p].blob)'
        BY <2>3 DEF HeldIsKept
      <3>1. emit[p].blob \in Files \cup Excused /\ Safe(emit[p].blob)
        BY <2>1 DEF HeldIsKept, Marking
      <3>2. PICK y : y = emit[p].blob
        OBVIOUS
      <3> QED
        BY <2>3, <2>4, <2>5, <3>1, <3>2
    <2>9. ReadIsKnown'
      BY <2>1, <2>2, <2>3, <2>4 DEF ReadIsKnown, Known, Marking, tables
    <2>10. Kept'
      <3>1. \A r \in Referring : Safe(names[r]) /\ names[r] \in Files \cup Excused
        BY <2>1, AllRead DEF Known, Kept
      <3>2. Referring' = Referring
        BY <2>3 DEF Referring, tables
      <3> QED
        BY <2>3, <2>5, <3>1, <3>2 DEF Kept
    <2> QED
      BY <2>6, <2>7, <2>8, <2>9, <2>10
  <1> QED
    BY <1>1, <1>2

LEMMA CasTick ==
  ASSUME CasInv, Tick
  PROVE  CasInv'
  <1> USE DEF CasInv
  <1>1. /\ clock' = clock + 1 /\ clock + 1 \in 0 .. MaxClock /\ clock \in Nat
        /\ UNCHANGED <<tables, mtime, emit, gc, Excused>>
        /\ Files' = Files /\ Rows' = Rows
    BY CasAssumption, ExcusedStays DEF Tick, Shaped, Files, Rows, tables
  <1>2. Shaped'
    <2>1. mtime' \in [Files' -> 0 .. clock']
      BY <1>1 DEF Shaped
    <2>2. \A p \in Producers : emit[p].since <= clock + 1
      BY <1>1 DEF Shaped, EmitRecord
    <2>3. gc.now <= clock + 1
      BY <1>1 DEF Shaped, GcRecord
    <2> QED
      BY <1>1, <2>1, <2>2, <2>3 DEF Shaped, tables
  <1>3. EmitsAreShort'
    <2>1. \A p \in Producers : emit[p].since \in Int
      BY DEF Shaped, EmitRecord
    <2>2. \A p \in Producers : emit[p].at # "idle" => clock + 1 - emit[p].since < Grace
      BY DEF Tick
    <2>3. \A p \in Producers : emit[p].at # "idle" => clock' - emit[p].since < Grace
      BY <1>1, <2>1, <2>2
    <2> QED
      BY <1>1, <2>3 DEF EmitsAreShort
  <1>4. DoomedIsOld' /\ HeldIsKept'
    BY <1>1 DEF DoomedIsOld, HeldIsKept, Safe, Old, Marking
  <1>5. ReadIsKnown' /\ Kept'
    BY <1>1 DEF ReadIsKnown, Known, Safe, Old, Marking, Kept, Referring, tables
  <1> QED
    BY <1>2, <1>3, <1>4, <1>5

LEMMA CasInvNext == CasInv /\ [CasNext]_casVars => CasInv'
  <1> SUFFICES ASSUME CasInv, [CasNext]_casVars PROVE CasInv'
    OBVIOUS
  <1>1. CASE UNCHANGED casVars
    <2>1. UNCHANGED <<clock, names, mtime, emit, gc, Excused, live, archived, dead, warm>>
      BY <1>1, ExcusedStays DEF casVars, tables
    <2>2. warm \in [Buckets -> SUBSET Rows]
      BY DEF CasInv, Shaped
    <2> QED
      BY <2>1, <2>2, CasMove
  <1>2. CASE GcEnds \/ GcAborts
    BY <1>2, GcResets, ExcusedStays DEF GcEnds, GcAborts
  <1> QED
    BY <1>1, <1>2, CasEmit, CasRearrange, CasGcBegins, CasGcReads, CasGcUnlinks, CasTick
       DEF CasNext, Gc

(* Every variable of the store, the emits and the gc() keeps its type.     *)
THEOREM CasTypeCorrect == CasSpec => []CasTypeOK
  BY CasInvInit, CasInvNext, ShapedIsTyped, PTL DEF CasSpec, CasInv

(* However rows move while gc() reads table after table, and however many  *)
(* emits are under way, a blob that a row or a dead letter names keeps its *)
(* file, with two exceptions: an emit() found an old file in place as gc() *)
(* was at work; or a worker dead-lettered an event that no table gc() reads*)
(* had any more, after gc() had read dead_letters or taken the file.       *)
THEOREM ReferencedKept == CasSpec => []ReferencedIsKept
  <1>1. CasInv => ReferencedIsKept
    BY DEF CasInv, Kept, ReferencedIsKept, NamedBy, Excused
  <1> QED
    BY <1>1, CasInvInit, CasInvNext, PTL DEF CasSpec

=============================================================================
