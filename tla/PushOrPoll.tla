----------------------------- MODULE PushOrPoll -----------------------------
(***************************************************************************)
(* subscribePushOrPoll(): one consumer of one cursor that streams events   *)
(* from the daemon while it can and polls the events table while it cannot *)
(*                                                                         *)
(* Four kinds of process take part.  Producers commit events and send each *)
(* in a `produced' frame on a connection of its own.  The daemon fans it   *)
(* out to the session registered for the consumer, through a bounded queue *)
(* and a socket that may push back.  The consumer drains what it has       *)
(* missed by polling, then iterates over the frames, and acks (moves the   *)
(* SQLite cursor) before each hand-off.  The sweep removes rows.           *)
(*                                                                         *)
(* A connection delivers in order; different connections do not wait for   *)
(* each other.  There is one consumer and every event matches its filter;  *)
(* the statements inside poll() are one step here.                         *)
(***************************************************************************)
EXTENDS Integers, Sequences, FiniteSets, SequencesExt

CONSTANTS
  QueueMax,   \* cfg.subscriber_queue_max
  HighMark,   \* floor(QueueMax * degrade_high_watermark)
  PageSize,   \* the batchSize of safePoll()
  Mishaps,    \* of "lost", "overtaken": what may happen to produced frames
  MaxEvents, MaxConns, MaxWire, MaxStarts, MaxCrashes   \* bounds

ASSUME PushAssumption ==
  /\ QueueMax \in Nat \ {0} /\ HighMark \in 1 .. QueueMax /\ PageSize \in Nat \ {0}
  /\ Mishaps \subseteq {"lost", "overtaken"}
  /\ {MaxEvents, MaxConns, MaxWire, MaxStarts, MaxCrashes} \subseteq Nat

VARIABLES
  head,        \* events 1 .. head are committed
  live,        \* those the sweep has left
  cursor,      \* cursors.last_event_id
  notes,       \* events whose produced frame is on its way
  daemon,      \* [up, starts]
  registered,  \* the connection in the daemon's subscribers map, 0 if none
  conn,        \* conn[c]: both ends of connection c and its session
  me,          \* the consumer: [at, conn, batch, hand]
  crashes,
  handed,      \* history: events yielded to the caller
  overtaken,   \* history: live events the ack of a later event passed by
  cut          \* history: events acked and not yet yielded when the process died

db == <<head, live, cursor>>
history == <<handed, overtaken, cut>>
pushVars == <<db, notes, daemon, registered, conn, me, crashes, history>>

Ids == 1 .. MaxEvents
Conns == 1 .. MaxConns

\* client, server: which ends are alive.  greeted: the daemon has read the hello,
\* and then the acks: only the largest one, acked, makes a difference.  wire: the
\* frames on the way to the client; fin: a degrade frame or EOF follows them.
NoConn == [client |-> FALSE, server |-> FALSE, greeted |-> FALSE, acked |-> 0,
           wire |-> <<>>, fin |-> FALSE, cur |-> 0, queue |-> <<>>, high |-> FALSE,
           draining |-> FALSE]

-----------------------------------------------------------------------------
(* The store, the producers and notifyEmit().                              *)

Commit ==
  /\ head < MaxEvents
  /\ head' = head + 1
  /\ live' = live \cup {head'}
  /\ notes' = notes \cup {head'}
  /\ UNCHANGED <<cursor, daemon, registered, conn, me, crashes, history>>

Sweep(i) ==
  /\ i \in live
  /\ live' = live \ {i}
  /\ UNCHANGED <<head, cursor, notes, daemon, registered, conn, me, crashes, history>>

\* A connect or write timeout.
NotifyLost(i) ==
  /\ i \in notes /\ "lost" \in Mishaps
  /\ notes' = notes \ {i}
  /\ UNCHANGED <<db, daemon, registered, conn, me, crashes, history>>

-----------------------------------------------------------------------------
(* The daemon's sessions.                                                  *)

\* Mutant: nobody waits for the drain event.
FlushedNotListening(s, k) ==
  [s EXCEPT !.wire = @ \o SubSeq(s.queue, 1, IF k < Len(s.queue) THEN k + 1 ELSE k),
            !.queue = SubSeq(s.queue, k + 1, Len(s.queue))]

\* _flush(): k frames are written and leave the queue; the write of the next one
\* reports back-pressure, which keeps it at the head although it is on its way.
Flushed(s, k) ==
  [s EXCEPT !.wire = @ \o SubSeq(s.queue, 1, IF k < Len(s.queue) THEN k + 1 ELSE k),
            !.queue = SubSeq(s.queue, k + 1, Len(s.queue)),
            !.draining = @ \/ k < Len(s.queue)]

\* Bound: a wire with MaxWire frames does not get the same frame over and over.
Flush(s) == {Flushed(s, k) : k \in {n \in 0 .. Len(s.queue) : n > 0 \/ Len(s.wire) < MaxWire}}

\* Mutant: the cap is tested after the frame is pushed.
PushedLate(s, i) ==
  Append(IF Len(s.queue) > QueueMax THEN Tail(s.queue) ELSE s.queue, i)

\* A full queue drops its oldest frame.
Pushed(s, i) == Append(IF Len(s.queue) >= QueueMax THEN Tail(s.queue) ELSE s.queue, i)

\* degrade(): the session is closed, what it had queued is never sent.
Degraded(s) == [s EXCEPT !.fin = TRUE, !.queue = <<>>, !.draining = FALSE]

\* enqueue(): a queue that stays above its high watermark for long enough (the
\* clock is left open) degrades the session.
Enqueued(s, i) ==
  LET full == Len(Pushed(s, i)) >= HighMark
      t == [s EXCEPT !.queue = Pushed(s, i), !.high = full]
  IN  Flush(t) \cup {x \in {Degraded(t)} : full /\ s.high}

\* broadcast() for a produced frame.  A closed session takes no frame.
Broadcast(i) ==
  IF \/ registered = 0
     \/ i <= conn[registered].cur
     \/ conn[registered].fin
  THEN UNCHANGED conn
  ELSE \E s \in Enqueued(conn[registered], i) : conn' = [conn EXCEPT ![registered] = s]

Produced(i) ==
  /\ i \in notes
  /\ "overtaken" \notin Mishaps => \A j \in notes : i <= j
  /\ notes' = notes \ {i}
  /\ IF daemon.up THEN Broadcast(i) ELSE UNCHANGED conn
  /\ UNCHANGED <<db, daemon, registered, me, crashes, history>>

\* The socket's 'drain' event.
Drain(c) ==
  /\ conn[c].draining
  /\ \E s \in Flush([conn[c] EXCEPT !.draining = FALSE]) : conn' = [conn EXCEPT ![c] = s]
  /\ UNCHANGED <<db, notes, daemon, registered, me, crashes, history>>

\* The hello frame registers the session, in place of an older one.
Hello(c) ==
  /\ conn[c].server /\ ~conn[c].greeted
  /\ conn' = [conn EXCEPT ![c].greeted = TRUE]
  /\ registered' = c
  /\ UNCHANGED <<db, notes, daemon, me, crashes, history>>

AckFrame(c) ==
  /\ conn[c].server /\ conn[c].greeted /\ conn[c].acked > conn[c].cur
  /\ conn' = [conn EXCEPT ![c].cur = conn[c].acked]
  /\ UNCHANGED <<db, notes, daemon, registered, me, crashes, history>>

\* 'close' removes whatever session is registered for the subscriber.
SocketClosed(c) ==
  /\ conn[c].server /\ conn[c].greeted /\ ~conn[c].client
  /\ conn' = [conn EXCEPT ![c] = NoConn]
  /\ registered' = 0
  /\ UNCHANGED <<db, notes, daemon, me, crashes, history>>

\* startDaemon().  Bound: MaxStarts.
DaemonStarts ==
  /\ ~daemon.up /\ daemon.starts < MaxStarts
  /\ daemon' = [up |-> TRUE, starts |-> daemon.starts + 1]
  /\ UNCHANGED <<db, notes, registered, conn, me, crashes, history>>

\* stop() degrades every session; a crash closes every socket.
DaemonStops ==
  /\ daemon.up
  /\ daemon' = [daemon EXCEPT !.up = FALSE]
  /\ registered' = 0
  /\ conn' = [c \in Conns |->
       IF conn[c].client
       THEN [Degraded(conn[c]) EXCEPT !.server = FALSE, !.cur = 0, !.acked = 0, !.high = FALSE]
       ELSE NoConn]
  /\ UNCHANGED <<db, notes, me, crashes, history>>

-----------------------------------------------------------------------------
(* The consumer.  me.at is the statement the generator runs next, me.hand  *)
(* an event that is acked and about to be yielded.                         *)

Goto(at) == me' = [me EXCEPT !.at = at, !.batch = {}, !.hand = 0]

\* The client's end of c is closed; nothing that is still on the wire is read.
Ended(c) ==
  IF conn[c].server THEN [conn[c] EXCEPT !.client = FALSE, !.wire = <<>>] ELSE NoConn

\* tryEnterPush(): a new session starts from the SQLite cursor.
Connect(c) ==
  /\ me.at \in {"start", "reprobe"} /\ me.conn = 0
  /\ daemon.up /\ conn[c] = NoConn
  /\ conn' = [conn EXCEPT ![c] =
       [NoConn EXCEPT !.client = TRUE, !.server = TRUE, !.cur = cursor, !.acked = cursor]]
  /\ me' = [me EXCEPT !.at = "catchup", !.conn = c]
  /\ UNCHANGED <<db, notes, daemon, registered, crashes, history>>

\* The daemon is not there, not asked yet, or gone again since the probe.
StayPolling ==
  /\ me.at \in {"start", "reprobe"}
  /\ Goto("poll")
  /\ UNCHANGED <<db, notes, daemon, registered, conn, crashes, history>>

\* Mutant: the page is the newest events.
PageNewest == {i \in live : i > cursor /\ Cardinality(live \cap i .. MaxEvents) <= PageSize}

\* poll(): the next page, and WB-003.
Page == {i \in live : i > cursor /\ Cardinality(live \cap (cursor + 1) .. i) <= PageSize}
SweptPast == live # {} /\ \A i \in live : cursor < i - 1

\* safePoll(): before streaming, and once per round of poll mode.  WB-003 is not
\* caught: it ends the iteration.
SafePoll ==
  /\ me.at \in {"catchup", "poll"}
  /\ IF SweptPast THEN Goto("failed")
     ELSE me' = [me EXCEPT !.at = IF me.at = "catchup" THEN "drain" ELSE "page", !.batch = Page]
  /\ UNCHANGED <<db, notes, daemon, registered, conn, crashes, history>>

\* persistAck() swallows every error, also SQLITE_BUSY.
PersistAck(i, busy) == IF busy THEN UNCHANGED cursor ELSE cursor' = i

\* The next event of the page; pushSub.ack() does nothing once its end is closed.
Take(busy) ==
  \E i \in me.batch :
    /\ me.at \in {"drain", "page"} /\ me.hand = 0 /\ \A j \in me.batch : i <= j
    /\ me' = [me EXCEPT !.batch = @ \ {i}, !.hand = i]
    /\ PersistAck(i, busy)
    /\ conn' = [c \in Conns |->
         IF c = me.conn /\ conn[c].client /\ i > conn[c].acked
         THEN [conn[c] EXCEPT !.acked = i] ELSE conn[c]]
    /\ UNCHANGED <<head, live, notes, daemon, registered, crashes, history>>

Yield ==
  /\ me.hand # 0
  /\ handed' = handed \cup {me.hand}
  /\ me' = [me EXCEPT !.hand = 0]
  /\ UNCHANGED <<db, notes, daemon, registered, conn, crashes, overtaken, cut>>

PageDone ==
  /\ me.at \in {"drain", "page"} /\ me.batch = {} /\ me.hand = 0
  /\ Goto(IF me.at = "drain" THEN "stream" ELSE "reprobe")
  /\ UNCHANGED <<db, notes, daemon, registered, conn, crashes, history>>

\* The next frame carries its event, or only its id because of its size: then the
\* row is looked up, and the frame passed over when the sweep has taken it.
NextFrame == conn[me.conn].wire[1]
Streaming == me.at = "stream" /\ me.hand = 0 /\ conn[me.conn].wire # <<>>

Frame(busy) ==
  /\ Streaming
  /\ me' = [me EXCEPT !.hand = NextFrame]
  /\ PersistAck(NextFrame, busy)
  /\ conn' = [conn EXCEPT ![me.conn].wire = Tail(@),
                          ![me.conn].acked = IF NextFrame > @ THEN NextFrame ELSE @]
  /\ overtaken' = overtaken \cup
       {j \in live : cursor < j /\ j < NextFrame /\ cursor' = NextFrame}
  /\ UNCHANGED <<head, live, notes, daemon, registered, crashes, handed, cut>>

FrameUnresolved ==
  /\ Streaming /\ NextFrame \notin live
  /\ conn' = [conn EXCEPT ![me.conn].wire = Tail(@)]
  /\ UNCHANGED <<db, notes, daemon, registered, me, crashes, history>>

\* endIterator(), on a degrade frame or EOF, whatever the generator is waiting for.
EndIterator ==
  /\ me.conn # 0 /\ me.hand = 0 /\ conn[me.conn].client /\ conn[me.conn].fin
  /\ conn' = [conn EXCEPT ![me.conn] = Ended(me.conn)]
  /\ UNCHANGED <<db, notes, daemon, registered, me, crashes, history>>

\* Mutant: the generator waits for another frame.
LeavePushStaying ==
  /\ me.at = "stream" /\ me.hand = 0 /\ ~conn[me.conn].client
  /\ UNCHANGED pushVars

LeavePush ==
  /\ me.at = "stream" /\ me.hand = 0 /\ ~conn[me.conn].client
  /\ me' = [me EXCEPT !.at = "poll", !.conn = 0]
  /\ UNCHANGED <<db, notes, daemon, registered, conn, crashes, history>>

\* The process dies, or its caller calls close() (never between an ack and its
\* yield); later somebody subscribes again.  Bound: MaxCrashes.
Leave ==
  /\ me.at # "start" /\ crashes < MaxCrashes
  /\ crashes' = crashes + 1
  /\ me' = [at |-> "start", conn |-> 0, batch |-> {}, hand |-> 0]
  /\ cut' = cut \cup ({me.hand} \ {0})
  /\ conn' = [c \in Conns |-> IF c = me.conn THEN Ended(c) ELSE conn[c]]
  /\ UNCHANGED <<db, notes, daemon, registered, handed, overtaken>>

-----------------------------------------------------------------------------
PushInit ==
  /\ head = 0 /\ live = {} /\ cursor = 0 /\ notes = {}
  /\ daemon = [up |-> FALSE, starts |-> 0] /\ registered = 0
  /\ conn = [c \in Conns |-> NoConn]
  /\ me = [at |-> "start", conn |-> 0, batch |-> {}, hand |-> 0] /\ crashes = 0
  /\ handed = {} /\ overtaken = {} /\ cut = {}

Bus == Commit \/ \E i \in Ids : Sweep(i) \/ NotifyLost(i)

Daemon ==
  \/ \E i \in Ids : Produced(i)
  \/ \E c \in Conns : Drain(c) \/ Hello(c) \/ AckFrame(c) \/ SocketClosed(c)
  \/ DaemonStarts \/ DaemonStops

Consumer ==
  \/ \E c \in Conns : Connect(c)
  \/ StayPolling \/ SafePoll \/ Yield \/ PageDone
  \/ \E busy \in BOOLEAN : Take(busy) \/ Frame(busy)
  \/ FrameUnresolved \/ EndIterator \/ LeavePush

PushNext == Bus \/ Daemon \/ Consumer \/ Leave

PushSpec == PushInit /\ [][PushNext]_pushVars

\* The caller keeps iterating, a database that is asked again is not busy for ever,
\* the daemon reads its sockets, and one that is drained and read takes frames.
Fairness ==
  /\ WF_pushVars(Consumer)
  /\ SF_pushVars(Take(FALSE))
  /\ \A c \in Conns :
       /\ WF_pushVars(Hello(c) \/ SocketClosed(c))
       /\ SF_pushVars(Drain(c) /\ conn'[c].queue = <<>>)

FairPushSpec == PushSpec /\ Fairness

-----------------------------------------------------------------------------
(* Every variable holds what its process can hold.                         *)
PushTypeOK ==
  /\ head \in 0 .. MaxEvents /\ live \subseteq 1 .. head /\ cursor \in 0 .. head
  /\ notes \subseteq 1 .. head
  /\ daemon \in [up : BOOLEAN, starts : 0 .. MaxStarts]
  /\ registered \in 0 .. MaxConns
  /\ \A c \in Conns :
       /\ conn[c] \in [client : BOOLEAN, server : BOOLEAN, greeted : BOOLEAN, fin : BOOLEAN,
                       high : BOOLEAN, draining : BOOLEAN, acked : Nat, cur : Nat,
                       wire : Seq(Ids), queue : Seq(Ids)]
       /\ Len(conn[c].queue) <= QueueMax
  /\ me \in [at : {"start", "catchup", "drain", "stream", "poll", "page", "reprobe", "failed"},
             conn : 0 .. MaxConns, batch : SUBSET Ids, hand : 0 .. MaxEvents]
  /\ crashes \in 0 .. MaxCrashes
  /\ handed \cup overtaken \cup cut \subseteq Ids

(* lib/subscribe-push-or-poll.js "The cursor is anchored in SQLite":       *)
(* through every change of mode, crash, failed ack and degraded session,   *)
(* an event the cursor has passed was handed to the caller, or was the one *)
(* in hand when the process died, or was overtaken by a pushed frame.      *)
LostOnlyByOvertaking ==
  \A i \in live :
    i <= cursor => i \in handed \cup overtaken \cup cut \cup {me.hand}

(* DESIGN-v2 7.4 "falls back to poll": once the daemon is gone for good,   *)
(* whatever connection the consumer thought it had, every event still ahead *)
(* of its cursor is handed over (or swept, or the cursor is swept past).   *)
PollTakesOver ==
  \A i \in Ids :
    i \in live /\ i > cursor /\ ~daemon.up /\ daemon.starts = MaxStarts
      ~> i \in handed \/ i \notin live \/ i <= cursor \/ me.at = "failed"

(* lib/daemon.js "wait for 'drain'": a frame in the queue of a session is  *)
(* sent in the end, or dropped, or the session ends; back-pressure never   *)
(* leaves it there, unless nobody reads the other end any more.            *)
QueueDrains ==
  \A c \in Conns, i \in Ids :
    i \in ToSet(conn[c].queue) ~> i \notin ToSet(conn[c].queue) \/ me.at = "failed"

(* DESIGN-v2 7.4 "mode transitions never lose events": an event the cursor *)
(* has passed was handed to the caller, unless the process died.           *)
NothingLost == \A i \in live : i <= cursor => i \in handed \cup cut \cup {me.hand}
=============================================================================
