--------------------------- MODULE PushOrPoll_proofs ---------------------------
(***************************************************************************)
(* Theorems about PushOrPoll, for every size of the queue, the watermark   *)
(* and the page, and any number of events, connections, daemon starts,     *)
(* crashes of the consumer, lost and overtaking frames.                    *)
(***************************************************************************)
EXTENDS PushOrPoll, SequenceTheorems, FiniteSetTheorems, TLAPS

Sent == 1 .. head

(* Both ends of a connection when the events of E are committed.           *)
Session(E) ==
  [client : BOOLEAN, server : BOOLEAN, greeted : BOOLEAN, fin : BOOLEAN,
   high : BOOLEAN, draining : BOOLEAN, acked : Nat, cur : Nat,
   wire : Seq(E), queue : Seq(E)]

Fits(s) == Len(s.queue) <= QueueMax

Labels == {"start", "catchup", "drain", "stream", "poll", "page", "reprobe", "failed"}

(* What a connection carries, what the page holds and what is in hand are  *)
(* committed events; whoever reads frames has a connection, and an event   *)
(* is in hand only while a page or the stream is worked through.           *)
PushTyped ==
  /\ head \in 0 .. MaxEvents /\ live \subseteq Sent /\ cursor \in 0 .. head
  /\ notes \subseteq Sent
  /\ daemon \in [up : BOOLEAN, starts : 0 .. MaxStarts]
  /\ registered \in 0 .. MaxConns
  /\ conn \in [Conns -> Session(Sent)]
  /\ \A c \in Conns : Fits(conn[c])
  /\ me \in [at : Labels, conn : 0 .. MaxConns, batch : SUBSET Sent, hand : 0 .. head]
  /\ me.at = "stream" \/ me.at \in {"catchup", "drain"} => me.conn # 0
  /\ me.hand # 0 => me.at \in {"drain", "page", "stream"}
  /\ crashes \in 0 .. MaxCrashes
  /\ handed \cup overtaken \cup cut \subseteq Sent

(* What became of the events that the cursor has passed, but for the swept.*)
Accounted == handed \cup overtaken \cup cut \cup {me.hand}

(* A page is worked through from its oldest row, and holds every live row  *)
(* between the cursor it was read at and its newest row.                   *)
PageInOrder == \A k \in me.batch : \A j \in live : j < k => j \in me.batch \cup Accounted

PushInv == PushTyped /\ PageInOrder /\ LostOnlyByOvertaking

LEMMA Bounds ==
  {MaxEvents, MaxConns, MaxWire, MaxStarts, MaxCrashes} \subseteq Nat /\ 0 \in 0 .. MaxConns
  <1>1. {MaxEvents, MaxConns, MaxWire, MaxStarts, MaxCrashes} \subseteq Nat
    BY PushAssumption
  <1>2. MaxConns \in Nat
    BY <1>1
  <1> QED
    BY <1>1, <1>2

--------------------------------------------------------------------------------
(* Sessions.                                                               *)

LEMMA ClosedSession ==
  ASSUME NEW E
  PROVE  NoConn \in Session(E) /\ Fits(NoConn)
  <1>1. <<>> \in Seq(E) /\ Len(<<>>) = 0
    BY EmptySeq
  <1> QED
    BY <1>1, PushAssumption DEF NoConn, Session, Fits

LEMMA SessionsGrow ==
  ASSUME NEW E, NEW F, E \subseteq F, NEW s \in Session(E)
  PROVE  s \in Session(F)
  <1>1. s.wire \in Seq(F) /\ s.queue \in Seq(F)
    BY SeqMonotonic DEF Session
  <1> QED
    BY <1>1 DEF Session

LEMMA PushedFits ==
  ASSUME NEW E, NEW s \in Session(E), Fits(s), NEW i \in E
  PROVE  Pushed(s, i) \in Seq(E) /\ Len(Pushed(s, i)) <= QueueMax
  <1>1. s.queue \in Seq(E) /\ Len(s.queue) \in Nat
    BY LenProperties DEF Session
  <1>2. CASE Len(s.queue) >= QueueMax
    <2>1. s.queue # <<>>
      BY <1>1, <1>2, EmptySeq, PushAssumption
    <2>2. Tail(s.queue) \in Seq(E) /\ Len(Tail(s.queue)) = Len(s.queue) - 1
      BY <1>1, <2>1, HeadTailProperties
    <2>3. Append(Tail(s.queue), i) \in Seq(E)
          /\ Len(Append(Tail(s.queue), i)) = Len(s.queue)
      BY <1>1, <2>2, AppendProperties
    <2> QED
      BY <1>2, <2>3 DEF Pushed, Fits
  <1>3. CASE ~(Len(s.queue) >= QueueMax)
    <2>1. Append(s.queue, i) \in Seq(E) /\ Len(Append(s.queue, i)) = Len(s.queue) + 1
      BY <1>1, AppendProperties
    <2> QED
      BY <1>1, <1>3, <2>1, PushAssumption DEF Pushed
  <1> QED
    BY <1>2, <1>3

LEMMA FlushedFits ==
  ASSUME NEW E, NEW s \in Session(E), Fits(s), NEW t \in Flush(s)
  PROVE  t \in Session(E) /\ Fits(t)
  <1>1. PICK k \in 0 .. Len(s.queue) : t = Flushed(s, k)
    BY DEF Flush
  <1>2. /\ s.queue \in Seq(E) /\ s.wire \in Seq(E) /\ Len(s.queue) \in Nat
        /\ \A j \in 1 .. Len(s.queue) : s.queue[j] \in E
    BY LenProperties, ElementOfSeq DEF Session
  <1> DEFINE n == IF k < Len(s.queue) THEN k + 1 ELSE k
             sent == SubSeq(s.queue, 1, n)
             rest == SubSeq(s.queue, k + 1, Len(s.queue))
  <1>3. sent \in Seq(E)
    <2>1. n \in Int /\ \A j \in 1 .. n : s.queue[j] \in E
      BY <1>2
    <2> QED
      BY <2>1, SubSeqProperties
  <1>4. rest \in Seq(E) /\ Len(rest) \in 0 .. Len(s.queue)
    <2>1. k + 1 \in Int /\ Len(s.queue) \in Int
          /\ \A j \in k + 1 .. Len(s.queue) : s.queue[j] \in E
      BY <1>2
    <2>2. rest \in Seq(E) /\ Len(rest) = IF k + 1 <= Len(s.queue) THEN Len(s.queue) - (k + 1) + 1 ELSE 0
      BY <2>1, SubSeqProperties
    <2> QED
      BY <1>2, <2>2
  <1>5. s.wire \o sent \in Seq(E)
    BY <1>2, <1>3, ConcatProperties
  <1> DEFINE waits == s.draining \/ k < Len(s.queue)
  <1>6. t = [s EXCEPT !.wire = @ \o sent, !.queue = rest, !.draining = waits]
    BY <1>1 DEF Flushed
  <1>8. waits \in BOOLEAN
    OBVIOUS
  <1> HIDE DEF sent, rest, waits
  <1>7. t \in Session(E) /\ t.queue = rest
    BY <1>4, <1>5, <1>6, <1>8 DEF Session
  <1> QED
    BY <1>2, <1>4, <1>7, PushAssumption DEF Fits

LEMMA DegradedFits ==
  ASSUME NEW E, NEW s \in Session(E)
  PROVE  Degraded(s) \in Session(E) /\ Fits(Degraded(s))
  <1>1. <<>> \in Seq(E) /\ Len(<<>>) = 0
    BY EmptySeq
  <1>2. Degraded(s) \in Session(E) /\ Degraded(s).queue = <<>>
    BY <1>1 DEF Degraded, Session
  <1> QED
    BY <1>1, <1>2, PushAssumption DEF Fits

LEMMA EnqueuedFits ==
  ASSUME NEW E, NEW s \in Session(E), Fits(s), NEW i \in E, NEW t \in Enqueued(s, i)
  PROVE  t \in Session(E) /\ Fits(t)
  <1> DEFINE full == Len(Pushed(s, i)) >= HighMark
             u == [s EXCEPT !.queue = Pushed(s, i), !.high = full]
  <1>0. full \in BOOLEAN /\ Pushed(s, i) \in Seq(E) /\ Len(Pushed(s, i)) <= QueueMax
    BY PushedFits
  <1>3. t \in Flush(u) \cup {Degraded(u)}
    BY DEF Enqueued
  <1> HIDE DEF full
  <1>1. u \in Session(E) /\ u.queue = Pushed(s, i)
    BY <1>0 DEF Session
  <1>2. Fits(u)
    BY <1>0, <1>1 DEF Fits
  <1> HIDE DEF u
  <1> QED
    BY <1>1, <1>2, <1>3, FlushedFits, DegradedFits

LEMMA EndedFits ==
  ASSUME NEW E, NEW c \in Conns, conn[c] \in Session(E), Fits(conn[c])
  PROVE  Ended(c) \in Session(E) /\ Fits(Ended(c))
  <1>1. <<>> \in Seq(E)
    BY EmptySeq
  <1>2. CASE conn[c].server
    BY <1>1, <1>2 DEF Ended, Session, Fits
  <1>3. CASE ~conn[c].server
    BY <1>3, ClosedSession DEF Ended
  <1> QED
    BY <1>2, <1>3

--------------------------------------------------------------------------------
(* Steps.                                                                  *)

AllFit == conn \in [Conns -> Session(Sent)] /\ \A c \in Conns : Fits(conn[c])

LEMMA OneConn ==
  ASSUME AllFit, NEW c \in Conns, NEW s \in Session(Sent), Fits(s), head' = head,
         conn' = [conn EXCEPT ![c] = s]
  PROVE  AllFit'
  BY DEF AllFit, Sent

LEMMA PushInitial == PushInit => PushInv
  <1> SUFFICES ASSUME PushInit PROVE PushInv
    OBVIOUS
  <1>1. AllFit
    BY ClosedSession DEF PushInit, AllFit
  <1>2. PushTyped
    BY <1>1, PushAssumption DEF PushInit, PushTyped, AllFit, Labels, Sent
  <1> QED
    BY <1>2 DEF PushInv, PushInit, PageInOrder, LostOnlyByOvertaking

(* What the daemon, its sockets and the producers' frames do never touches *)
(* the cursor, the events or the consumer.                                 *)
LEMMA DaemonKeeps ==
  ASSUME PushInv, UNCHANGED <<db, me, crashes, history>>, notes' \subseteq notes,
         daemon' \in [up : BOOLEAN, starts : 0 .. MaxStarts],
         registered' \in 0 .. MaxConns, AllFit'
  PROVE  PushInv'
  <1>1. PushTyped'
    BY DEF PushInv, PushTyped, AllFit, db, history, Sent
  <1>2. PageInOrder' /\ LostOnlyByOvertaking'
    BY DEF PushInv, PageInOrder, LostOnlyByOvertaking, Accounted, db, history
  <1> QED
    BY <1>1, <1>2 DEF PushInv

LEMMA CommitKeeps ==
  ASSUME PushInv, Commit
  PROVE  PushInv'
  <1>1. head' = head + 1 /\ head \in Nat /\ Sent \subseteq Sent' /\ head' \in Sent'
    BY PushAssumption DEF PushInv, PushTyped, Commit, Sent
  <1>2. conn' = conn /\ AllFit'
    BY <1>1, SessionsGrow DEF Commit, PushInv, PushTyped, AllFit, Fits
  <1>3. PushTyped'
    BY <1>1, <1>2, PushAssumption DEF Commit, PushInv, PushTyped, AllFit, Sent, history
  <1>4. PageInOrder'
    <2>1. \A k \in me.batch : k \in 1 .. head
      BY DEF PushInv, PushTyped, Sent
    <2> QED
      BY <1>1, <2>1 DEF Commit, PushInv, PageInOrder, Accounted, history
  <1>5. LostOnlyByOvertaking'
    BY <1>1 DEF Commit, PushInv, PushTyped, LostOnlyByOvertaking, history
  <1> QED
    BY <1>3, <1>4, <1>5 DEF PushInv

LEMMA BusKeeps ==
  ASSUME PushInv, Bus
  PROVE  PushInv'
  <1>1. CASE Commit
    BY <1>1, CommitKeeps
  <1>2. ASSUME NEW i \in Ids, Sweep(i) PROVE PushInv'
    <2>1. PushTyped'
      BY <1>2 DEF PushInv, PushTyped, Sweep, Sent, history
    <2>2. PageInOrder' /\ LostOnlyByOvertaking'
      BY <1>2 DEF PushInv, PageInOrder, LostOnlyByOvertaking, Accounted, Sweep, history
    <2> QED
      BY <2>1, <2>2 DEF PushInv
  <1>3. ASSUME NEW i \in Ids, NotifyLost(i) PROVE PushInv'
    <2>1. AllFit'
      BY <1>3 DEF NotifyLost, PushInv, PushTyped, AllFit, Sent, db
    <2> QED
      BY <1>3, <2>1, DaemonKeeps DEF NotifyLost, PushInv, PushTyped
  <1> QED
    BY <1>1, <1>2, <1>3 DEF Bus

LEMMA DaemonStep ==
  ASSUME PushInv, Daemon
  PROVE  PushInv'
  <1>0. AllFit /\ registered \in 0 .. MaxConns /\ (registered # 0 => registered \in Conns)
    BY PushAssumption DEF PushInv, PushTyped, AllFit, Conns
  <1>1. ASSUME NEW i \in Ids, Produced(i) PROVE PushInv'
    <2>1. i \in Sent /\ head' = head
      BY <1>1 DEF Produced, PushInv, PushTyped, db
    <2>2. CASE UNCHANGED conn
      <3>1. AllFit'
        BY <1>0, <2>1, <2>2 DEF AllFit, Sent
      <3> QED
        BY <1>0, <1>1, <3>1, DaemonKeeps DEF Produced, PushInv, PushTyped
    <2>3. CASE registered # 0 /\ \E s \in Enqueued(conn[registered], i) :
                 conn' = [conn EXCEPT ![registered] = s]
      <3>1. PICK s \in Enqueued(conn[registered], i) :
              conn' = [conn EXCEPT ![registered] = s]
        BY <2>3
      <3>2. s \in Session(Sent) /\ Fits(s)
        BY <1>0, <2>1, <2>3, EnqueuedFits DEF AllFit
      <3>3. AllFit'
        BY <1>0, <2>1, <2>3, <3>1, <3>2, OneConn
      <3> QED
        BY <1>0, <1>1, <3>3, DaemonKeeps DEF Produced, PushInv, PushTyped
    <2> QED
      BY <1>1, <2>2, <2>3 DEF Produced, Broadcast
  <1>2. ASSUME NEW c \in Conns, Drain(c) PROVE PushInv'
    <2> DEFINE u == [conn[c] EXCEPT !.draining = FALSE]
    <2>1. PICK s \in Flush(u) : conn' = [conn EXCEPT ![c] = s]
      BY <1>2 DEF Drain
    <2>2. u \in Session(Sent) /\ u.queue = conn[c].queue
      BY <1>0 DEF AllFit, Session
    <2>3. Fits(u)
      BY <1>0, <2>2 DEF AllFit, Fits
    <2> HIDE DEF u
    <2>4. AllFit'
      BY <1>0, <1>2, <2>1, <2>2, <2>3, FlushedFits, OneConn DEF Drain, db
    <2> QED
      BY <1>0, <1>2, <2>4, DaemonKeeps DEF Drain, PushInv, PushTyped
  <1>3. ASSUME NEW c \in Conns, Hello(c) \/ AckFrame(c) \/ SocketClosed(c) PROVE PushInv'
    <2> DEFINE greets == [conn[c] EXCEPT !.greeted = TRUE]
               acks == [conn[c] EXCEPT !.cur = conn[c].acked]
    <2>1. \E s \in {greets, acks, NoConn} : conn' = [conn EXCEPT ![c] = s]
      BY <1>0, <1>3 DEF Hello, AckFrame, SocketClosed, AllFit
    <2>2. greets \in Session(Sent) /\ greets.queue = conn[c].queue
      BY <1>0 DEF AllFit, Session
    <2>3. acks \in Session(Sent) /\ acks.queue = conn[c].queue
      BY <1>0 DEF AllFit, Session
    <2> HIDE DEF greets, acks
    <2>4. \A s \in {greets, acks, NoConn} : s \in Session(Sent) /\ Fits(s)
      BY <1>0, <2>2, <2>3, ClosedSession DEF AllFit, Fits
    <2>5. AllFit'
      BY <1>0, <1>3, <2>1, <2>4, OneConn DEF Hello, AckFrame, SocketClosed, db
    <2>6. registered' \in 0 .. MaxConns
      BY <1>0, <1>3, PushAssumption DEF Hello, AckFrame, SocketClosed, Conns
    <2> QED
      BY <1>3, <2>5, <2>6, DaemonKeeps DEF Hello, AckFrame, SocketClosed, PushInv, PushTyped
  <1>4. CASE DaemonStarts
    <2>1. AllFit'
      BY <1>0, <1>4 DEF DaemonStarts, AllFit, Sent, db
    <2>2. daemon' \in [up : BOOLEAN, starts : 0 .. MaxStarts]
      BY <1>4, PushAssumption DEF DaemonStarts, PushInv, PushTyped
    <2> QED
      BY <1>0, <1>4, <2>1, <2>2, DaemonKeeps DEF DaemonStarts
  <1>5. CASE DaemonStops
    <2> DEFINE gone(c) == [Degraded(conn[c]) EXCEPT !.server = FALSE, !.cur = 0, !.acked = 0,
                                                    !.high = FALSE]
    <2>1. ASSUME NEW c \in Conns
          PROVE  gone(c) \in Session(Sent) /\ gone(c).queue = Degraded(conn[c]).queue
      <3>1. Degraded(conn[c]) \in Session(Sent)
        BY <1>0, DegradedFits DEF AllFit
      <3> QED
        BY <3>1 DEF Session
    <2>2. \A c \in Conns : conn'[c] \in {gone(c), NoConn}
      BY <1>5 DEF DaemonStops
    <2>3. \A c \in Conns : gone(c) \in Session(Sent) /\ Fits(gone(c))
      BY <1>0, <2>1, DegradedFits DEF AllFit, Fits
    <2>4. conn' = [c \in Conns |-> conn'[c]]
      BY <1>5 DEF DaemonStops
    <2> HIDE DEF gone
    <2>5. AllFit'
      BY <1>5, <2>2, <2>3, <2>4, ClosedSession DEF AllFit, DaemonStops, db, Sent
    <2>6. daemon' \in [up : BOOLEAN, starts : 0 .. MaxStarts]
      BY <1>5 DEF DaemonStops, PushInv, PushTyped
    <2>7. registered' \in 0 .. MaxConns
      BY <1>5, Bounds DEF DaemonStops
    <2> QED
      BY <1>5, <2>5, <2>6, <2>7, DaemonKeeps DEF DaemonStops
  <1> QED
    BY <1>1, <1>2, <1>3, <1>4, <1>5 DEF Daemon

(* The consumer.  A step of its own may close its connection, move the     *)
(* cursor and put an event in hand.                                        *)
LEMMA GeneratorKeeps ==
  ASSUME PushInv, UNCHANGED <<head, live, notes, daemon, registered, crashes>>, AllFit',
         cursor' \in 0 .. head,
         me' \in [at : Labels, conn : 0 .. MaxConns, batch : SUBSET Sent, hand : 0 .. head],
         (me.at = "stream" \/ me.at \in {"catchup", "drain"} => me.conn # 0)',
         me'.hand # 0 => me'.at \in {"drain", "page", "stream"},
         handed' \cup overtaken' \cup cut' \subseteq Sent, PageInOrder',
         LostOnlyByOvertaking'
  PROVE  PushInv'
  BY DEF PushInv, PushTyped, AllFit, Sent

LEMMA SomeConn ==
  ASSUME PushInv, me.conn # 0
  PROVE  me.conn \in Conns /\ conn[me.conn] \in Session(Sent) /\ Fits(conn[me.conn])
  BY PushAssumption DEF PushInv, PushTyped, Conns

(* Changes of mode that pass no event.                                     *)
LEMMA ModeKeeps ==
  ASSUME PushInv,
         \/ \E c \in Conns : Connect(c)
         \/ StayPolling \/ PageDone \/ FrameUnresolved \/ EndIterator \/ LeavePush
  PROVE  PushInv'
  <1>0. AllFit /\ PushTyped
    BY DEF PushInv, PushTyped, AllFit
  <1>1. UNCHANGED <<db, notes, daemon, registered, crashes, history>>
    BY DEF Connect, StayPolling, PageDone, FrameUnresolved, EndIterator, LeavePush
  <1>2. /\ me'.hand = me.hand /\ (me'.batch = me.batch \/ me'.batch = {})
        /\ me' \in [at : Labels, conn : 0 .. MaxConns, batch : SUBSET Sent, hand : 0 .. head]
        /\ (me.at = "stream" \/ me.at \in {"catchup", "drain"} => me.conn # 0)'
        /\ me'.hand # 0 => me'.at \in {"drain", "page", "stream"}
    <2>1. CASE \E c \in Conns : Connect(c)
      <3>1. PICK c \in Conns : Connect(c)
        BY <2>1
      <3>2. c \in 0 .. MaxConns /\ c # 0
        BY Bounds DEF Conns
      <3>3. /\ me \in [at : Labels, conn : 0 .. MaxConns, batch : SUBSET Sent, hand : 0 .. head]
            /\ me' = [me EXCEPT !.at = "catchup", !.conn = c] /\ me.hand = 0
        BY <1>0, <3>1 DEF Connect, PushTyped
      <3> QED
        BY <3>2, <3>3 DEF Labels
    <2>2. CASE StayPolling
      BY <1>0, <2>2 DEF StayPolling, Goto, PushTyped, Labels
    <2>3. CASE PageDone
      BY <1>0, <2>3 DEF PageDone, Goto, PushTyped, Labels
    <2>4. CASE FrameUnresolved \/ EndIterator
      BY <1>0, <2>4 DEF FrameUnresolved, EndIterator, PushTyped
    <2>5. CASE LeavePush
      BY <1>0, <2>5, Bounds DEF LeavePush, PushTyped, Labels
    <2> QED
      BY <2>1, <2>2, <2>3, <2>4, <2>5
  <1>3. AllFit'
    <2>1. ASSUME NEW c \in Conns, Connect(c) PROVE AllFit'
      <3> DEFINE s == [NoConn EXCEPT !.client = TRUE, !.server = TRUE, !.cur = cursor,
                                     !.acked = cursor]
      <3>1. NoConn \in Session(Sent) /\ Fits(NoConn) /\ cursor \in Nat
        BY <1>0, ClosedSession, PushAssumption DEF PushTyped
      <3>2. s \in Session(Sent) /\ s.queue = NoConn.queue
        BY <3>1 DEF Session
      <3>3. Fits(s) /\ conn' = [conn EXCEPT ![c] = s]
        BY <2>1, <3>1, <3>2 DEF Fits, Connect
      <3> QED
        BY <1>0, <1>1, <3>2, <3>3, OneConn DEF db
    <2>2. CASE FrameUnresolved
      <3> DEFINE s == [conn[me.conn] EXCEPT !.wire = Tail(@)]
      <3>1. me.conn \in Conns /\ conn[me.conn] \in Session(Sent) /\ Fits(conn[me.conn])
            /\ conn[me.conn].wire # <<>>
        BY <1>0, <2>2, SomeConn DEF FrameUnresolved, Streaming, PushTyped
      <3>2. Tail(conn[me.conn].wire) \in Seq(Sent)
        BY <3>1, HeadTailProperties DEF Session
      <3>3. s \in Session(Sent) /\ s.queue = conn[me.conn].queue
        BY <3>1, <3>2 DEF Session
      <3>4. Fits(s) /\ conn' = [conn EXCEPT ![me.conn] = s]
        BY <1>0, <2>2, <3>1, <3>3 DEF Fits, FrameUnresolved, AllFit
      <3> QED
        BY <1>0, <1>1, <3>1, <3>3, <3>4, OneConn DEF db
    <2>3. CASE EndIterator
      <3>1. me.conn \in Conns /\ conn' = [conn EXCEPT ![me.conn] = Ended(me.conn)]
        BY <2>3, SomeConn DEF EndIterator
      <3>2. Ended(me.conn) \in Session(Sent) /\ Fits(Ended(me.conn))
        BY <1>0, <3>1, EndedFits DEF AllFit
      <3> QED
        BY <1>0, <1>1, <3>1, <3>2, OneConn DEF db
    <2>4. CASE UNCHANGED conn
      BY <1>0, <1>1, <2>4 DEF AllFit, Sent, db
    <2> QED
      BY <2>1, <2>2, <2>3, <2>4 DEF StayPolling, PageDone, LeavePush
  <1>4. PageInOrder' /\ LostOnlyByOvertaking'
    BY <1>1, <1>2 DEF PushInv, PageInOrder, LostOnlyByOvertaking, Accounted, db, history
  <1> QED
    BY <1>0, <1>1, <1>2, <1>3, <1>4, GeneratorKeeps DEF db, history, PushTyped

(* The page that poll() returns leaves no gap behind its rows.             *)
LEMMA PageHasNoGap ==
  ASSUME PushTyped, NEW k \in Page, NEW j \in live, cursor < j, j < k
  PROVE  j \in Page
  <1> DEFINE upto(n) == live \cap (cursor + 1) .. n
  <1>1. head \in Nat /\ cursor \in Nat /\ j \in Nat /\ k \in Nat /\ PageSize \in Nat
    BY PushAssumption DEF PushTyped, Page, Sent
  <1>2. IsFiniteSet(upto(k))
    <2>1. IsFiniteSet((cursor + 1) .. k)
      BY <1>1, FS_Interval
    <2> QED
      BY <2>1, FS_Subset
  <1>3. upto(j) \subseteq upto(k)
    BY <1>1
  <1>4. Cardinality(upto(j)) <= Cardinality(upto(k)) /\ Cardinality(upto(j)) \in Nat
        /\ Cardinality(upto(k)) \in Nat
    BY <1>2, <1>3, FS_Subset, FS_CardinalityType
  <1>5. Cardinality(upto(k)) <= PageSize
    BY DEF Page
  <1> HIDE DEF upto
  <1>6. Cardinality(upto(j)) <= PageSize
    BY <1>1, <1>4, <1>5
  <1> QED
    BY <1>6 DEF Page, upto

LEMMA PollKeeps ==
  ASSUME PushInv, SafePoll
  PROVE  PushInv'
  <1>0. PushTyped /\ AllFit
    BY DEF PushInv, PushTyped, AllFit
  <1>1. UNCHANGED <<db, notes, daemon, registered, conn, crashes, history>> /\ me.hand = 0
    BY <1>0 DEF SafePoll, PushTyped
  <1>2. AllFit'
    BY <1>0, <1>1 DEF AllFit, Sent, db
  <1>3. Page \subseteq Sent
    BY <1>0 DEF Page, PushTyped
  <1>4. /\ me' \in [at : Labels, conn : 0 .. MaxConns, batch : SUBSET Sent, hand : 0 .. head]
        /\ (me.at = "stream" \/ me.at \in {"catchup", "drain"} => me.conn # 0)'
        /\ me'.hand = 0 /\ (me'.batch = {} \/ me'.batch = Page)
    BY <1>0, <1>1, <1>3 DEF SafePoll, Goto, PushTyped, Labels
  <1>5. LostOnlyByOvertaking'
    BY <1>1, <1>4 DEF PushInv, LostOnlyByOvertaking, db, history
  <1>6. PageInOrder'
    <2> SUFFICES ASSUME NEW k \in Page, NEW j \in live, j < k
                 PROVE  j \in Page \cup Accounted
      BY <1>1, <1>4 DEF PageInOrder, Accounted, db, history
    <2>1. CASE j <= cursor
      BY <2>1 DEF PushInv, LostOnlyByOvertaking, Accounted
    <2>2. CASE cursor < j
      BY <1>0, <2>2, PageHasNoGap
    <2>3. j <= cursor \/ cursor < j
      BY <1>0, PushAssumption DEF PushTyped, Sent
    <2> QED
      BY <2>1, <2>2, <2>3
  <1> QED
    BY <1>0, <1>1, <1>2, <1>4, <1>5, <1>6, GeneratorKeeps DEF db, history, PushTyped

(* The oldest row of the page is acked, then handed over.                  *)
LEMMA TakeKeeps ==
  ASSUME PushInv, NEW busy \in BOOLEAN, Take(busy)
  PROVE  PushInv'
  <1>0. PushTyped /\ AllFit
    BY DEF PushInv, PushTyped, AllFit
  <1>z. 0 \notin live
    BY <1>0, Bounds DEF PushTyped, Sent
  <1>1. PICK i \in me.batch :
          /\ me.at \in {"drain", "page"} /\ me.hand = 0 /\ \A j \in me.batch : i <= j
          /\ me' = [me EXCEPT !.batch = @ \ {i}, !.hand = i]
          /\ PersistAck(i, busy)
          /\ conn' = [c \in Conns |->
               IF c = me.conn /\ conn[c].client /\ i > conn[c].acked
               THEN [conn[c] EXCEPT !.acked = i] ELSE conn[c]]
          /\ UNCHANGED <<head, live, notes, daemon, registered, crashes, history>>
    BY DEF Take
  <1>2. i \in Sent /\ i \in 1 .. head /\ head \in Nat
    BY <1>0, Bounds DEF PushTyped, Sent
  <1>3. AllFit'
    <2> DEFINE acks(c) == [conn[c] EXCEPT !.acked = i]
    <2>1. ASSUME NEW c \in Conns
          PROVE  acks(c) \in Session(Sent) /\ acks(c).queue = conn[c].queue
      <3>1. conn[c] \in Session(Sent) /\ i \in Nat
        BY <1>0, <1>2 DEF AllFit
      <3> QED
        BY <3>1 DEF Session
    <2>2. \A c \in Conns : conn'[c] \in {acks(c), conn[c]}
      BY <1>1
    <2>3. \A c \in Conns : acks(c) \in Session(Sent) /\ Fits(acks(c))
      BY <1>0, <2>1 DEF AllFit, Fits
    <2>4. conn' = [c \in Conns |-> conn'[c]]
      BY <1>1
    <2> HIDE DEF acks
    <2> QED
      BY <1>0, <1>1, <2>2, <2>3, <2>4 DEF AllFit, Sent
  <1>4. cursor' \in {cursor, i}
    BY <1>1 DEF PersistAck
  <1>5. /\ me' \in [at : Labels, conn : 0 .. MaxConns, batch : SUBSET Sent, hand : 0 .. head]
        /\ (me.at = "stream" \/ me.at \in {"catchup", "drain"} => me.conn # 0)'
        /\ me'.hand = i /\ me'.at \in {"drain", "page"} /\ me'.batch = me.batch \ {i}
    <2>1. i \in 0 .. head
      BY <1>2
    <2> QED
      BY <1>0, <1>1, <2>1 DEF PushTyped
  <1>6. LostOnlyByOvertaking'
    <2> SUFFICES ASSUME NEW j \in live, j <= cursor'
                 PROVE  j \in handed \cup overtaken \cup cut \cup {i}
      BY <1>1, <1>5 DEF LostOnlyByOvertaking, history
    <2>1. CASE j <= cursor
      BY <1>z, <1>1, <2>1 DEF PushInv, LostOnlyByOvertaking
    <2>2. CASE j < i
      <3>1. j \notin me.batch
        BY <1>0, <1>1, <1>2, <2>2 DEF PushTyped, Sent
      <3> QED
        BY <1>z, <1>1, <2>2, <3>1 DEF PushInv, PageInOrder, Accounted
    <2>3. j \in Int /\ i \in Int
      BY <1>0, <1>2 DEF PushTyped, Sent
    <2> QED
      BY <1>4, <2>1, <2>2, <2>3
  <1>7. PageInOrder'
    BY <1>z, <1>1, <1>5 DEF PushInv, PageInOrder, Accounted, history
  <1> QED
    BY <1>0, <1>1, <1>2, <1>3, <1>4, <1>5, <1>6, <1>7, GeneratorKeeps DEF history, PushTyped

(* A frame acks its own event, whatever lies between it and the cursor.    *)
LEMMA FrameKeeps ==
  ASSUME PushInv, NEW busy \in BOOLEAN, Frame(busy)
  PROVE  PushInv'
  <1>0. PushTyped /\ AllFit
    BY DEF PushInv, PushTyped, AllFit
  <1>z. 0 \notin live
    BY <1>0, Bounds DEF PushTyped, Sent
  <1> DEFINE s == conn[me.conn]
             i == NextFrame
             t == [s EXCEPT !.wire = Tail(@), !.acked = IF i > @ THEN i ELSE @]
  <1>1. me.conn \in Conns /\ s \in Session(Sent) /\ Fits(s) /\ s.wire # <<>>
    BY <1>0, SomeConn DEF Frame, Streaming, PushTyped
  <1>2. i \in Sent /\ i \in 0 .. head /\ i # 0 /\ Tail(s.wire) \in Seq(Sent)
    <2>1. s.wire \in Seq(Sent) /\ Len(s.wire) \in Nat \ {0}
      BY <1>1, EmptySeq DEF Session
    <2>2. i \in Sent
      BY <2>1, ElementOfSeq DEF NextFrame
    <2>3. head \in Nat
      BY <1>0, Bounds DEF PushTyped
    <2>4. Tail(s.wire) \in Seq(Sent)
      BY <1>1, <2>1, HeadTailProperties
    <2> HIDE DEF s, i
    <2> QED
      BY <2>2, <2>3, <2>4 DEF Sent
  <1>3. conn' = [conn EXCEPT ![me.conn] = t]
    BY <1>0, <1>1 DEF Frame, AllFit
  <1>4. t \in Session(Sent) /\ t.queue = s.queue
    <2> DEFINE n == IF i > s.acked THEN i ELSE s.acked
    <2>1. n \in Nat
      BY <1>1, <1>2 DEF Session, Sent
    <2>2. t = [s EXCEPT !.wire = Tail(@), !.acked = n]
      OBVIOUS
    <2> HIDE DEF n, i, s
    <2> QED
      BY <1>1, <1>2, <2>1, <2>2 DEF Session
  <1>5. AllFit'
    <2>1. Fits(t)
      BY <1>1, <1>4 DEF Fits
    <2>2. head' = head
      BY DEF Frame
    <2> HIDE DEF t
    <2> QED
      BY <1>0, <1>1, <1>3, <1>4, <2>1, <2>2, OneConn
  <1>6. cursor' \in {cursor, i} /\ me' = [me EXCEPT !.hand = i] /\ me.hand = 0
        /\ me.at = "stream"
    BY DEF Frame, PersistAck, Streaming
  <1> HIDE DEF i
  <1>7. /\ me' \in [at : Labels, conn : 0 .. MaxConns, batch : SUBSET Sent, hand : 0 .. head]
        /\ (me.at = "stream" \/ me.at \in {"catchup", "drain"} => me.conn # 0)'
        /\ me'.hand = i /\ me'.at = "stream" /\ me'.batch = me.batch
    BY <1>0, <1>2, <1>6 DEF PushTyped
  <1>8. /\ UNCHANGED <<head, live, notes, daemon, registered, crashes, handed, cut>>
        /\ overtaken' = overtaken \cup {j \in live : cursor < j /\ j < i /\ cursor' = i}
    BY DEF Frame, i
  <1>9. LostOnlyByOvertaking'
    <2> SUFFICES ASSUME NEW j \in live, j <= cursor'
                 PROVE  j \in handed \cup overtaken' \cup cut \cup {i}
      BY <1>7, <1>8 DEF LostOnlyByOvertaking
    <2>1. CASE j <= cursor
      BY <1>z, <1>6, <1>8, <2>1 DEF PushInv, LostOnlyByOvertaking
    <2>2. CASE cursor < j /\ cursor' = i
      <3>1. j \in Int /\ i \in Int
        BY <1>0, <1>2 DEF PushTyped, Sent
      <3>2. j < i \/ j = i
        BY <2>2, <3>1
      <3> QED
        BY <1>8, <2>2, <3>2
    <2>3. j \in Int /\ cursor \in Int
      BY <1>0 DEF PushTyped, Sent
    <2> QED
      BY <1>6, <2>1, <2>2, <2>3
  <1>10. PageInOrder'
    BY <1>z, <1>6, <1>7, <1>8 DEF PushInv, PageInOrder, Accounted
  <1>11. cursor' \in 0 .. head
    BY <1>0, <1>2, <1>6 DEF PushTyped
  <1>12. overtaken' \subseteq Sent
    BY <1>0, <1>8 DEF PushTyped
  <1> QED
    BY <1>0, <1>5, <1>7, <1>8, <1>9, <1>10, <1>11, <1>12, GeneratorKeeps DEF PushTyped

(* The caller gets the event in hand.                                      *)
LEMMA YieldKeeps ==
  ASSUME PushInv, Yield
  PROVE  PushInv'
  <1>0. PushTyped /\ AllFit
    BY DEF PushInv, PushTyped, AllFit
  <1>1. AllFit'
    BY <1>0 DEF Yield, AllFit, Sent, db
  <1>2. me.hand \in Sent
    BY <1>0, Bounds DEF Yield, PushTyped, Sent
  <1>3. /\ me' \in [at : Labels, conn : 0 .. MaxConns, batch : SUBSET Sent, hand : 0 .. head]
        /\ (me.at = "stream" \/ me.at \in {"catchup", "drain"} => me.conn # 0)'
        /\ me'.hand = 0 /\ me'.batch = me.batch
    <2>1. 0 \in 0 .. head
      BY <1>0, Bounds DEF PushTyped
    <2> QED
      BY <1>0, <2>1 DEF Yield, PushTyped
  <1>4. LostOnlyByOvertaking' /\ PageInOrder'
    BY <1>3 DEF Yield, PushInv, LostOnlyByOvertaking, PageInOrder, Accounted, db
  <1> QED
    BY <1>0, <1>1, <1>2, <1>3, <1>4, GeneratorKeeps DEF Yield, PushTyped, db

(* The process dies or is closed, perhaps between an ack and its yield.    *)
LEMMA LeaveKeeps ==
  ASSUME PushInv, Leave
  PROVE  PushInv'
  <1>0. PushTyped /\ AllFit
    BY DEF PushInv, PushTyped, AllFit
  <1>1. AllFit'
    <2>1. \A c \in Conns : conn'[c] \in {Ended(c), conn[c]}
      BY DEF Leave
    <2>2. \A c \in Conns : Ended(c) \in Session(Sent) /\ Fits(Ended(c))
      BY <1>0, EndedFits DEF AllFit
    <2>3. conn' = [c \in Conns |-> conn'[c]]
      BY DEF Leave
    <2> QED
      BY <1>0, <2>1, <2>2, <2>3 DEF Leave, AllFit, Sent, db
  <1>2. crashes' \in 0 .. MaxCrashes
    BY <1>0, Bounds DEF Leave, PushTyped
  <1>3. me.hand \in Sent \cup {0}
    BY <1>0, Bounds DEF PushTyped, Sent
  <1>4. 0 \in 0 .. head
    BY <1>0, Bounds DEF PushTyped
  <1>5. PushTyped'
    BY <1>0, <1>1, <1>2, <1>3, <1>4, Bounds DEF Leave, PushTyped, AllFit, db, Sent, Labels
  <1>6. LostOnlyByOvertaking'
    <2>1. 0 \notin live
      BY <1>0, Bounds DEF PushTyped, Sent
    <2> QED
      BY <2>1 DEF Leave, PushInv, LostOnlyByOvertaking, db
  <1>7. PageInOrder'
    BY DEF Leave, PageInOrder
  <1> QED
    BY <1>5, <1>6, <1>7 DEF PushInv

LEMMA PushStep == PushInv /\ [PushNext]_pushVars => PushInv'
  <1> SUFFICES ASSUME PushInv, [PushNext]_pushVars PROVE PushInv'
    OBVIOUS
  <1>1. CASE UNCHANGED pushVars
    BY <1>1 DEF pushVars, db, history, PushInv, PushTyped, PageInOrder,
                LostOnlyByOvertaking, Accounted, Sent
  <1>2. CASE Consumer
    <2>1. ASSUME NEW busy \in BOOLEAN, Take(busy) \/ Frame(busy) PROVE PushInv'
      BY <2>1, TakeKeeps, FrameKeeps
    <2> QED
      BY <1>2, <2>1, ModeKeeps, PollKeeps, YieldKeeps DEF Consumer
  <1> QED
    BY <1>1, <1>2, BusKeeps, DaemonStep, LeaveKeeps DEF PushNext

(* Every frame in a queue or on a wire is a committed event, and no queue  *)
(* is longer than subscriber_queue_max, whatever back-pressure, drops,     *)
(* degradation and lost connections do to the sessions of the daemon.      *)
THEOREM PushTypeCorrect == PushSpec => []PushTypeOK
  <1>1. PushInv => PushTypeOK
    <2> SUFFICES ASSUME PushInv PROVE PushTypeOK
      OBVIOUS
    <2>0. PushTyped /\ Sent \subseteq Ids /\ head \in 0 .. MaxEvents
      BY Bounds DEF PushInv, PushTyped, Sent, Ids
    <2>1. \A c \in Conns : conn[c] \in Session(Ids)
      BY <2>0, SessionsGrow DEF PushTyped
    <2>2. me \in [at : Labels, conn : 0 .. MaxConns, batch : SUBSET Ids, hand : 0 .. MaxEvents]
      <3>1. 0 .. head \subseteq 0 .. MaxEvents
        BY <2>0, Bounds
      <3> QED
        BY <2>0, <3>1 DEF PushTyped
    <2> QED
      BY <2>0, <2>1, <2>2 DEF PushTyped, PushTypeOK, Session, Fits, Labels, Sent
  <1> QED
    BY <1>1, PushInitial, PushStep, PTL DEF PushSpec

(* lib/subscribe-push-or-poll.js "The cursor is anchored in SQLite": in    *)
(* any interleaving of frames, polls, changes of mode, failed acks and     *)
(* crashes, a surviving event behind the cursor was handed over, was in    *)
(* hand when the process died, or was overtaken by a pushed frame.         *)
THEOREM OvertakingAloneLoses == PushSpec => []LostOnlyByOvertaking
  <1>1. PushInv => LostOnlyByOvertaking
    BY DEF PushInv
  <1> QED
    BY <1>1, PushInitial, PushStep, PTL DEF PushSpec
================================================================================
