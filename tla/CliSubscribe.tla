----------------------------- MODULE CliSubscribe -----------------------------
(***************************************************************************)
(* `wicked-bus subscribe`: the streaming loop and the drain loop of the    *)
(* command line, run by several processes with the same plugin and filter  *)
(* over the shared database of EventStore.                                 *)
(*                                                                         *)
(* Nothing between two polls awaits anything, so a signal is only seen in  *)
(* the pause of a loop; other processes still run between two statements.  *)
(***************************************************************************)
EXTENDS EventStore, FiniteSets

CONSTANTS
  Clis,       \* processes that run the command
  Modes,      \* Modes[c]: the command lines c may be started with
  BatchSize,  \* --batch-size
  NoSub,      \* not a subscription
  Budget      \* bound: Budget[kind] faults of each kind, or registrations
              \* after the first, and Budget["any"] of all together

Mode == [drain : BOOLEAN,    \* --drain
         ack : BOOLEAN,      \* FALSE for --no-ack
         recover : BOOLEAN,  \* FALSE for --on-stale fail
         idle : BOOLEAN]     \* --idle-timeout

\* register() mints the identities of Subs in increasing order.
ASSUME CliAssumption ==
  /\ Subs \subseteq Nat /\ NoSub \notin Subs
  /\ Modes \in [Clis -> SUBSET Mode]
  /\ BatchSize \in Nat \ {0}
  /\ Budget \in [{"crash", "dberror", "signal", "deregister", "again", "any"} -> Nat]

VARIABLES
  cli,     \* cli[c]: the local state of process c
  spent,   \* spent[kind]: how often that kind of fault happened
  written  \* history: <<s, i>>: event i was written to the output for s

cliVars == <<vars, cli, spent, written>>

Labels == {"down", "lookup", "register", "begin", "poll", "oldest", "reanchor",
           "select", "next", "ack", "pause", "drained", "failed"}

Process ==
  [at : Labels, mode : Mode, sub : Subs \cup {NoSub},
   seen : Int,                        \* the position poll() compares
   floor : Int,                       \* runDrain()'s in-memory floor
   page : SUBSET (1 .. MaxEvents),    \* rows of the page not yet written
   event : 0 .. MaxEvents,            \* the row written last, 0 on an empty page
   pending : SUBSET (1 .. MaxEvents)] \* history: what was pending when a drain
                                      \* began, less what it wrote

Start(m) ==
  [at |-> "lookup", mode |-> m, sub |-> NoSub, seen |-> 0, floor |-> 0,
   page |-> {}, event |-> 0, pending |-> {}]

AnyMode == [drain |-> FALSE, ack |-> TRUE, recover |-> TRUE, idle |-> FALSE]
Down(label) == [Start(AnyMode) EXCEPT !.at = label]

At(c, label) == cli[c].at = label
Drains(c) == cli[c].mode.drain
Mine(c) == cli[c].sub
CursorOpen(c) == cursor[Mine(c)] = "active"

Become(c, p) == cli' = [cli EXCEPT ![c] = p]
Goto(c, label) == Become(c, [cli[c] EXCEPT !.at = label])
Fail(c) == Become(c, Down("failed"))

\* A drain exits 0.
Exit(c) ==
  Become(c, [Down("drained") EXCEPT !.pending = cli[c].pending])

\* Bound: Budget.
Spend(kind) ==
  /\ spent[kind] < Budget[kind] /\ spent["any"] < Budget["any"]
  /\ spent' = [spent EXCEPT ![kind] = @ + 1, !["any"] = @ + 1]

CliOnly == UNCHANGED <<vars, spent, written>>
StoreToo == UNCHANGED <<spent, written>>

\* After a pass over a page, a recovery or a caught error; the locals of the
\* iteration are gone.
Repeat(c, p) ==
  Become(c, [p EXCEPT !.at = IF Drains(c) THEN "poll" ELSE "pause",
                      !.seen = 0, !.page = {}, !.event = 0])

-----------------------------------------------------------------------------
(* The cursor of this plugin and filter: found, ambiguous, or registered.   *)

Launch(c) ==
  /\ cli[c].at \in {"down", "drained", "failed"}
  /\ \E m \in Modes[c] : Become(c, Start(m))
  /\ CliOnly

Existing == {s \in Subs : ActiveConsumer(s)}

\* Mutant: the cursor that was found is not kept.
FoundForgotten(c) ==
  /\ At(c, "lookup") /\ Cardinality(Existing) = 1
  /\ Goto(c, IF Drains(c) THEN "begin" ELSE "poll")
  /\ CliOnly

Found(c) ==
  /\ At(c, "lookup") /\ Cardinality(Existing) = 1
  /\ \E s \in Existing :
       Become(c, [cli[c] EXCEPT !.sub = s, !.at = IF Drains(c) THEN "begin" ELSE "poll"])
  /\ CliOnly

\* WB-001 ambiguous subscription
Ambiguous(c) ==
  /\ At(c, "lookup") /\ Cardinality(Existing) > 1
  /\ Fail(c)
  /\ CliOnly

RegisterNew(c) ==
  /\ At(c, "lookup") /\ Existing = {}
  /\ IF \A s \in Subs : sub[s] = "absent" THEN UNCHANGED spent ELSE Spend("again")
  /\ \E s \in Subs, init \in {"oldest", "latest"} :
       /\ \A r \in Subs : sub[r] = "absent" => s <= r
       /\ RegisterSubscription(s, init)
       /\ Become(c, [cli[c] EXCEPT !.sub = s, !.at = "register"])
  /\ UNCHANGED written

RegisterRest(c) ==
  /\ At(c, "register")
  /\ \/ RegisterReadHead(Mine(c)) /\ UNCHANGED cli
     \/ RegisterCursor(Mine(c)) /\ Goto(c, IF Drains(c) THEN "begin" ELSE "poll")
  /\ StoreToo

\* runDrain() reads the position it starts from.
Begin(c) ==
  /\ At(c, "begin")
  /\ Become(c, [cli[c] EXCEPT !.floor = pos[Mine(c)], !.at = "poll",
                              !.pending = Ahead(Mine(c), pos[Mine(c)])])
  /\ CliOnly

-----------------------------------------------------------------------------
(* poll() and recoverFromStale().                                          *)

\* WB-006 is fatal to both loops.
PollCursor(c) ==
  /\ At(c, "poll")
  /\ \/ CursorOpen(c) /\ Become(c, [cli[c] EXCEPT !.seen = pos[Mine(c)], !.at = "oldest"])
     \/ ~CursorOpen(c) /\ Fail(c)
  /\ CliOnly

\* Whether the durable position is behind the oldest row m (WB-003).
Stale(c, m) == IsOldest(m) /\ cli[c].seen < m - 1

PollFresh(c) ==
  /\ At(c, "oldest")
  /\ \A m \in live : ~Stale(c, m)
  /\ Goto(c, "select")
  /\ CliOnly

\* Mutant: the recovery fast-forwards to the head of the stream.
PollStaleToHead(c) ==
  /\ At(c, "oldest")
  /\ \E m, h \in live :
       /\ Stale(c, m) /\ IsNewest(h)
       /\ \/ cli[c].mode.recover /\ Become(c, [cli[c] EXCEPT !.seen = h, !.at = "reanchor"])
          \/ ~cli[c].mode.recover /\ Fail(c)
  /\ CliOnly

\* WB-003, under --on-stale recover and fail.
PollStale(c) ==
  /\ At(c, "oldest")
  /\ \E m \in live :
       /\ Stale(c, m)
       /\ \/ cli[c].mode.recover /\ Become(c, [cli[c] EXCEPT !.seen = m - 1, !.at = "reanchor"])
          \/ ~cli[c].mode.recover /\ Fail(c)
  /\ CliOnly

\* Mutant: WB-003 is reported and the cursor stays where it is.
RecoverReportOnly(c) == At(c, "reanchor") /\ Repeat(c, cli[c]) /\ CliOnly

\* The drain loop's floor follows the cursor, wherever it was.
Recover(c) ==
  /\ At(c, "reanchor")
  /\ \/ /\ CursorOpen(c) /\ Ack(Mine(c), cli[c].seen)
        /\ Repeat(c, [cli[c] EXCEPT !.floor = IF Drains(c) THEN cli[c].seen ELSE 0])
     \/ ~CursorOpen(c) /\ UNCHANGED vars /\ Fail(c)
  /\ StoreToo

\* The first BatchSize rows beyond afterEventId, or beyond the position.
Page(c) ==
  LET rows == Ahead(Mine(c), IF Drains(c) THEN cli[c].floor ELSE cli[c].seen)
  IN  {i \in rows : Cardinality({j \in rows : j < i}) < BatchSize}

PollSelect(c) ==
  /\ At(c, "select")
  /\ Become(c, [cli[c] EXCEPT !.page = Page(c), !.event = 0, !.at = "next"])
  /\ CliOnly

-----------------------------------------------------------------------------
(* The page is written row by row, each row acknowledged unless --no-ack.   *)

\* Mutant: the floor only follows what was acknowledged.
WriteFloorWithAck(c) ==
  /\ At(c, "next")
  /\ \E i \in cli[c].page :
       /\ \A j \in cli[c].page : i <= j
       /\ written' = written \cup {<<Mine(c), i>>}
       /\ Become(c, [cli[c] EXCEPT
            !.page = @ \ {i}, !.event = i,
            !.floor = IF Drains(c) /\ cli[c].mode.ack THEN i ELSE @,
            !.pending = @ \ {i},
            !.at = IF cli[c].mode.ack THEN "ack" ELSE "next"])
  /\ UNCHANGED <<vars, spent>>

Write(c) ==
  /\ At(c, "next")
  /\ \E i \in cli[c].page :
       /\ \A j \in cli[c].page : i <= j
       /\ written' = written \cup {<<Mine(c), i>>}
       /\ Become(c, [cli[c] EXCEPT
            !.page = @ \ {i}, !.event = i,
            !.floor = IF Drains(c) THEN i ELSE @,
            !.pending = @ \ {i},
            !.at = IF cli[c].mode.ack THEN "ack" ELSE "next"])
  /\ UNCHANGED <<vars, spent>>

AckWritten(c) ==
  /\ At(c, "ack")
  /\ \/ CursorOpen(c) /\ Ack(Mine(c), cli[c].event) /\ Goto(c, "next")
     \/ ~CursorOpen(c) /\ UNCHANGED vars /\ Fail(c)
  /\ StoreToo

PageDone(c) == At(c, "next") /\ cli[c].page = {}

NextPage(c) ==
  /\ PageDone(c)
  /\ ~Drains(c) \/ cli[c].event # 0
  /\ Repeat(c, cli[c])
  /\ CliOnly

\* Mutant: a drain without an idle timeout takes one page.
EmptyAfterOnePage(c) ==
  /\ PageDone(c) /\ Drains(c)
  /\ \/ Exit(c)
     \/ cli[c].mode.idle /\ Become(c, [cli[c] EXCEPT !.seen = 0, !.at = "pause"])
  /\ CliOnly

\* The queue is empty: the drain ends, or waits until its idle window closes.
Empty(c) ==
  /\ PageDone(c) /\ Drains(c) /\ cli[c].event = 0
  /\ \/ Exit(c)
     \/ cli[c].mode.idle /\ Become(c, [cli[c] EXCEPT !.seen = 0, !.at = "pause"])
  /\ CliOnly

Wake(c) == At(c, "pause") /\ Goto(c, "poll") /\ CliOnly

-----------------------------------------------------------------------------
(* Faults, signals and operators.                                          *)

\* A statement throws: the streaming loop reports it and polls again, a drain
\* and whatever is outside the try block ends.
DbError(c) ==
  /\ Spend("dberror")
  /\ \/ cli[c].at \in {"poll", "oldest", "select", "ack"} /\ ~Drains(c) /\ Repeat(c, cli[c])
     \/ cli[c].at \in {"poll", "oldest", "select", "ack"} /\ Drains(c) /\ Fail(c)
     \/ cli[c].at \in {"lookup", "register", "begin", "reanchor"} /\ Fail(c)
  /\ UNCHANGED <<vars, written>>

Signal(c) ==
  /\ At(c, "pause")
  /\ Spend("signal")
  /\ IF Drains(c) THEN Exit(c) ELSE Become(c, Down("down"))
  /\ UNCHANGED <<vars, written>>

Crash(c) ==
  /\ cli[c].at \notin {"down", "drained", "failed"}
  /\ Spend("crash")
  /\ Become(c, Down("down"))
  /\ UNCHANGED <<vars, written>>

Unsubscribe(s) ==
  /\ Spend("deregister")
  /\ Deregister(s)
  /\ UNCHANGED <<cli, written>>

-----------------------------------------------------------------------------
CliInit ==
  /\ Init
  /\ cli = [c \in Clis |-> Down("down")]
  /\ spent = [kind \in DOMAIN Budget |-> 0]
  /\ written = {}

Run(c) ==
  \/ Found(c) \/ Ambiguous(c) \/ RegisterNew(c) \/ RegisterRest(c) \/ Begin(c)
  \/ PollCursor(c) \/ PollFresh(c) \/ PollStale(c) \/ Recover(c) \/ PollSelect(c)
  \/ Write(c) \/ AckWritten(c) \/ NextPage(c) \/ Empty(c) \/ Wake(c)

Disturb(c) == DbError(c) \/ Signal(c) \/ Crash(c)

\* The rest of the bus.  The loops cannot tell when an emit() began, nor that
\* one failed.
Publish(t, ttl) ==
  /\ AcceptRow([type |-> t, key |-> NoKey, emitted |-> clock,
                expires |-> clock + ttl, dedup |-> clock + DedupTtl])
  /\ UNCHANGED <<released, emits>>

Background ==
  /\ (\E t \in Types, ttl \in Ttls : Publish(t, ttl)) \/ Sweep \/ Tick
  /\ UNCHANGED <<cli, spent, written>>

CliNext ==
  \/ \E c \in Clis : Launch(c) \/ Run(c) \/ Disturb(c)
  \/ \E s \in Subs : Unsubscribe(s)
  \/ Background

CliSpec == CliInit /\ [][CliNext]_cliVars

\* A process that only streams, acknowledges and recovers.
Streams(c) ==
  Modes[c] # {} /\ \A m \in Modes[c] : ~m.drain /\ m.ack /\ m.recover

\* A live process runs and its timers fire; a streaming process is started
\* again when it ended.
FairCliSpec ==
  /\ CliSpec
  /\ \A c \in Clis : WF_cliVars(Run(c)) /\ (Streams(c) => WF_cliVars(Launch(c)))

-----------------------------------------------------------------------------
(* Every variable of a process has its type, and whoever polls has found   *)
(* or registered a cursor.                                                 *)
CliTypeOK ==
  /\ cli \in [Clis -> Process]
  /\ spent \in [DOMAIN Budget -> Nat]
  /\ written \subseteq Subs \X (1 .. MaxEvents)
  /\ \A c \in Clis :
       cli[c].at \notin {"down", "lookup", "drained", "failed"} => Mine(c) \in Subs

ALO == INSTANCE AtLeastOnce WITH
  Events <- 1 .. MaxEvents, owed <- due, handled <- written, buried <- {},
  swept <- Ids \ live, left <- {s \in Subs : sub[s] = "deregistered"}, asking <- {}

(* commands/cmd-subscribe.js "every un-swept event is still delivered,      *)
(* preserving at-least-once for what survived": whatever mixture of        *)
(* streaming and draining processes shares the cursor, one with --no-ack   *)
(* among them, it never passes an event that nobody wrote and no sweep took.*)
LoopsImplementAtLeastOnce == ALO!Spec

(* commands/cmd-subscribe.js "deliver all events pending past the cursor,   *)
(* then exit 0": a drain that exits 0 has itself written every event that  *)
(* was pending when it began, unless a sweep took it, also while other     *)
(* processes move the cursor under it.                                     *)
DrainDeliversPending ==
  \A c \in Clis : At(c, "drained") => cli[c].pending \cap live = {}

(* commands/cmd-subscribe.js "Without it, the loop exits the moment the     *)
(* queue is empty": a drain without an idle timeout ends, with --no-ack    *)
(* too, although the durable position never moves.                         *)
DrainEnds ==
  \A c \in {d \in Clis : \E m \in Modes[d] : m.drain /\ ~m.idle} :
    (At(c, "begin") /\ ~cli[c].mode.idle) ~> cli[c].at \in {"drained", "failed", "down"}

(* commands/cmd-subscribe.js "so a long-lived drain loop heals itself":     *)
(* when nothing more is emitted and a streaming process is kept running,   *)
(* every claim is settled or swept in the end, through crashes, errors and *)
(* WB-003; only a second registration of the same plugin and filter can    *)
(* leave one unserved (WB-001).                                            *)
ClaimsServed ==
  <>[]((\A s \in Subs : due[s] \cap live = {}) \/ Cardinality(Existing) > 1)
=============================================================================
