------------------------------ MODULE Subscriber ------------------------------
(***************************************************************************)
(* The managed consumer loop subscribe(), run by one or more processes     *)
(* over the shared database of EventStore, with its retries, its dead      *)
(* letter queue and the operator commands that meet it there.              *)
(*                                                                         *)
(* Workers that use the same plugin and filter resume the same cursor.     *)
(* An action of a worker is one SQL statement or one await of the loop:    *)
(* loop[w].at names the statement that runs next.                          *)
(***************************************************************************)
EXTENDS EventStore, FiniteSets

CONSTANTS
  Workers,    \* processes that call subscribe() with the same plugin and filter
  BatchSize,  \* opts.batchSize
  NoSub,      \* not a subscription
  Budget      \* bound: Budget[kind] faults and operator calls of each kind,
              \* Budget["any"] of all kinds together

\* register() mints the identities of Subs in increasing order.
ASSUME SubscriberAssumption ==
  /\ Subs \subseteq Nat /\ NoSub \notin Subs
  /\ BatchSize \in Nat \ {0}
  /\ Budget \in [{"crash", "dberror", "stop", "letter", "rewind", "deregister", "any"} -> Nat]

VARIABLES
  loop,      \* loop[w]: the local state of the loop of w
  dlq,       \* dlq[d]: the row of dead_letters with dl_id d
  spent,     \* spent[kind]: how often that kind of fault or call happened
  \* History variables.
  handled,   \* <<s, i>>: a handler call of s for i returned (since a rewind)
  buried,    \* <<s, i>>: i was dead-lettered for s (since a rewind)
  failures   \* failures[s][i]: handler calls of s for i that threw

ghosts == <<handled, buried, failures>>
subscriberVars == <<vars, loop, dlq, spent, ghosts>>

Labels == {"start", "register", "idle", "drain", "replay", "replayDelete",
           "replayKeep", "poll", "oldest", "reanchor", "select", "next",
           "handle", "unretry", "ack", "retry", "sleep", "bury", "buryClean",
           "buryAck", "stopped", "down"}

Loop == [at : Labels, halting : BOOLEAN, sub : Subs \cup {NoSub}, floor : Int,
         batch : SUBSET (1 .. MaxEvents), event : 0 .. MaxEvents,
         tries : 0 .. MaxRetries + 1, letter : Nat]

Halted(label) ==
  [at |-> label, halting |-> FALSE, sub |-> NoSub, floor |-> 0, batch |-> {},
   event |-> 0, tries |-> 0, letter |-> 0]

Letter == [sub : Subs, event : 1 .. MaxEvents,
           reason : {"exhausted", "shutdown"}, state : {"kept", "asked", "gone"}]

At(w, label) == loop[w].at = label
Goto(w, label) == loop' = [loop EXCEPT ![w].at = label]
Mine(w) == loop[w].sub
CursorOpen(w) == cursor[Mine(w)] = "active"

\* Only the loop moves; only the loop and the store move.
LoopOnly == UNCHANGED <<vars, dlq, spent, ghosts>>
StoreToo == UNCHANGED <<dlq, spent, ghosts>>

\* Mutant: the finally block always schedules the next tick.
EndTickAlways(w) == "idle"

\* The finally block of tick(): the next timer, or finalizeStop().
EndTick(w) == IF loop[w].halting THEN "stopped" ELSE "idle"

-----------------------------------------------------------------------------
(* registerOrResume(): the newest active cursor of this plugin and filter, *)
(* or a new registration.                                                  *)

Resume(w) ==
  /\ At(w, "start")
  /\ \E s \in Subs :
       /\ ActiveConsumer(s)
       /\ \A r \in Subs : ActiveConsumer(r) => r <= s
       /\ loop' = [loop EXCEPT ![w].sub = s, ![w].at = "idle"]
  /\ LoopOnly

RegisterNew(w) ==
  /\ At(w, "start")
  /\ \A s \in Subs : ~ActiveConsumer(s)
  /\ \E s \in Subs, init \in {"oldest", "latest"} :
       /\ \A r \in Subs : sub[r] = "absent" => s <= r
       /\ RegisterSubscription(s, init)
       /\ loop' = [loop EXCEPT ![w].sub = s, ![w].at = "register"]
  /\ StoreToo

RegisterRest(w) ==
  /\ At(w, "register")
  /\ \/ RegisterReadHead(Mine(w)) /\ UNCHANGED loop
     \/ RegisterCursor(Mine(w)) /\ Goto(w, "idle")
  /\ StoreToo

-----------------------------------------------------------------------------
(* drainReplays(): dead letters whose replay was requested, before polling. *)

StartTick(w) == At(w, "idle") /\ Goto(w, "drain") /\ LoopOnly

Asked(w) == {d \in DOMAIN dlq : dlq[d].sub = Mine(w) /\ dlq[d].state = "asked"}

DrainPick(w) ==
  /\ At(w, "drain") /\ ~loop[w].halting
  /\ \E d \in Asked(w) :
       /\ \A e \in Asked(w) : d <= e
       /\ loop' = [loop EXCEPT ![w].letter = d, ![w].at = "replay"]
  /\ LoopOnly

DrainDone(w) ==
  /\ At(w, "drain")
  /\ \/ loop[w].halting /\ Goto(w, EndTick(w))
     \/ ~loop[w].halting /\ Asked(w) = {} /\ Goto(w, "poll")
  /\ LoopOnly

ReplayReturns(w) ==
  /\ At(w, "replay")
  /\ handled' = handled \cup {<<Mine(w), dlq[loop[w].letter].event>>}
  /\ Goto(w, "replayDelete")
  /\ UNCHANGED <<vars, dlq, spent, buried, failures>>

ReplayThrows(w) == At(w, "replay") /\ Goto(w, "replayKeep") /\ LoopOnly

ReplayDelete(w) ==
  /\ At(w, "replayDelete")
  /\ dlq' = [dlq EXCEPT ![loop[w].letter].state = "gone"]
  /\ Goto(w, "drain")
  /\ UNCHANGED <<vars, spent, ghosts>>

\* Mutant: a replay that failed stays requested.
ReplayKeepAsked(w) ==
  /\ At(w, "replayKeep")
  /\ Goto(w, IF loop[w].halting THEN EndTick(w) ELSE "poll")
  /\ LoopOnly

ReplayKeep(w) ==
  /\ At(w, "replayKeep")
  /\ dlq' = [dlq EXCEPT ![loop[w].letter].state = IF @ = "gone" THEN @ ELSE "kept"]
  /\ Goto(w, IF loop[w].halting THEN EndTick(w) ELSE "poll")
  /\ UNCHANGED <<vars, spent, ghosts>>

-----------------------------------------------------------------------------
(* poll(): three reads without a transaction, then the re-anchoring that    *)
(* answers WB-003.                                                         *)

PollCursor(w) ==
  /\ At(w, "poll")
  /\ IF CursorOpen(w)
     THEN loop' = [loop EXCEPT ![w].floor = pos[Mine(w)], ![w].at = "oldest"]
     ELSE Goto(w, EndTick(w))  \* WB-006
  /\ LoopOnly

\* Mutant: the recovery fast-forwards to the head of the stream.
PollOldestToHead(w) ==
  /\ At(w, "oldest")
  /\ IF \E m \in live : IsOldest(m) /\ loop[w].floor < m - 1
     THEN \E h \in live : IsNewest(h)
            /\ loop' = [loop EXCEPT ![w].floor = h, ![w].at = "reanchor"]
     ELSE Goto(w, "select")
  /\ LoopOnly

\* WB-003 CURSOR_BEHIND_TTL_WINDOW
PollOldest(w) ==
  /\ At(w, "oldest")
  /\ \/ \E m \in live :
          /\ IsOldest(m) /\ loop[w].floor < m - 1
          /\ loop' = [loop EXCEPT ![w].floor = m - 1, ![w].at = "reanchor"]
     \/ /\ \A m \in live : IsOldest(m) => loop[w].floor >= m - 1
        /\ Goto(w, "select")
  /\ LoopOnly

\* Mutant: WB-003 is only reported, and the cursor stays where it is.
ReanchorReportOnly(w) == At(w, "reanchor") /\ Goto(w, EndTick(w)) /\ LoopOnly

Reanchor(w) ==
  /\ At(w, "reanchor")
  /\ IF CursorOpen(w) THEN Ack(Mine(w), loop[w].floor) ELSE UNCHANGED vars
  /\ Goto(w, EndTick(w))
  /\ StoreToo

\* The first BatchSize events beyond the floor.
Page(s, n) ==
  {i \in Ahead(s, n) : Cardinality({j \in Ahead(s, n) : j < i}) < BatchSize}

PollSelect(w) ==
  /\ At(w, "select")
  /\ loop' = [loop EXCEPT ![w].batch = Page(Mine(w), loop[w].floor), ![w].at = "next"]
  /\ LoopOnly

-----------------------------------------------------------------------------
(* processEvent(), for each event of the batch in order.                   *)

\* Mutant: the batch is processed in any order.
TakeAny(w) ==
  /\ At(w, "next") /\ ~loop[w].halting
  /\ \E i \in loop[w].batch :
       loop' = [loop EXCEPT ![w].event = i, ![w].batch = @ \ {i},
                            ![w].tries = attempts[Mine(w)][i], ![w].at = "handle"]
  /\ LoopOnly

\* Mutant: the delivery itself already counts as an attempt.
TakeCounted(w) ==
  /\ At(w, "next") /\ ~loop[w].halting
  /\ \E i \in loop[w].batch :
       /\ \A j \in loop[w].batch : i <= j
       /\ loop' = [loop EXCEPT ![w].event = i, ![w].batch = @ \ {i},
                               ![w].tries = attempts[Mine(w)][i] + 1, ![w].at = "handle"]
  /\ LoopOnly

Take(w) ==
  /\ At(w, "next") /\ ~loop[w].halting
  /\ \E i \in loop[w].batch :
       /\ \A j \in loop[w].batch : i <= j
       /\ loop' = [loop EXCEPT ![w].event = i, ![w].batch = @ \ {i},
                               ![w].tries = attempts[Mine(w)][i], ![w].at = "handle"]
  /\ LoopOnly

BatchDone(w) ==
  /\ At(w, "next")
  /\ loop[w].batch = {} \/ loop[w].halting
  /\ Goto(w, EndTick(w))
  /\ LoopOnly

\* Mutant: success leaves the retry counter behind.
HandlerReturnsKeepingRetry(w) ==
  /\ At(w, "handle")
  /\ handled' = handled \cup {<<Mine(w), loop[w].event>>}
  /\ Goto(w, "ack")
  /\ UNCHANGED <<vars, dlq, spent, buried, failures>>

HandlerReturns(w) ==
  /\ At(w, "handle")
  /\ handled' = handled \cup {<<Mine(w), loop[w].event>>}
  /\ Goto(w, "unretry")
  /\ UNCHANGED <<vars, dlq, spent, buried, failures>>

\* Mutant: every failure is retried.
CaughtForever(w) ==
  loop' = [loop EXCEPT ![w].tries = @ + 1, ![w].at = "retry"]

\* The catch block: whatever threw counts as a failed attempt.
Caught(w) ==
  loop' = [loop EXCEPT
    ![w].tries = @ + 1,
    ![w].at = IF loop[w].tries + 1 > MaxRetries THEN "bury" ELSE "retry"]

HandlerThrows(w) ==
  /\ At(w, "handle")
  /\ failures' = [failures EXCEPT ![Mine(w)][loop[w].event] =
       IF @ > MaxRetries THEN @ ELSE @ + 1]
  /\ Caught(w)
  /\ UNCHANGED <<vars, dlq, spent, handled, buried>>

Unretry(w) ==
  /\ At(w, "unretry")
  /\ DeleteAttempt(Mine(w), loop[w].event)
  /\ Goto(w, "ack")
  /\ StoreToo

\* WB-006 from ack() lands in the same catch block as a handler error.
AckEvent(w) ==
  /\ At(w, "ack")
  /\ \/ CursorOpen(w) /\ Ack(Mine(w), loop[w].event) /\ Goto(w, "next")
     \/ ~CursorOpen(w) /\ UNCHANGED vars /\ Caught(w)
  /\ StoreToo

Retry(w) ==
  /\ At(w, "retry")
  /\ UpsertAttempt(Mine(w), loop[w].event, loop[w].tries)
  /\ Goto(w, "sleep")
  /\ StoreToo

\* The backoff timer fires.  stop() may have come too late to cancel it.
Awake(w) ==
  /\ At(w, "sleep")
  /\ Goto(w, IF loop[w].halting THEN "bury" ELSE "handle")
  /\ LoopOnly

\* moveToDeadLetter(), deleteDeliveryAttempt(), ack(): three transactions.
Bury(w) ==
  /\ At(w, "bury")
  /\ dlq' = Append(dlq,
       [sub |-> Mine(w), event |-> loop[w].event, state |-> "kept",
        reason |-> IF loop[w].tries > MaxRetries THEN "exhausted" ELSE "shutdown"])
  /\ buried' = buried \cup {<<Mine(w), loop[w].event>>}
  /\ Goto(w, "buryClean")
  /\ UNCHANGED <<vars, spent, handled, failures>>

BuryClean(w) ==
  /\ At(w, "buryClean")
  /\ DeleteAttempt(Mine(w), loop[w].event)
  /\ Goto(w, "buryAck")
  /\ StoreToo

BuryAck(w) ==
  /\ At(w, "buryAck")
  /\ \/ CursorOpen(w) /\ Ack(Mine(w), loop[w].event) /\ Goto(w, "next")
     \/ ~CursorOpen(w) /\ UNCHANGED vars /\ Goto(w, EndTick(w))
  /\ StoreToo

-----------------------------------------------------------------------------
(* Faults, shutdown and operators.                                         *)

Spend(kind) ==
  /\ spent[kind] < Budget[kind] /\ spent["any"] < Budget["any"]
  /\ spent' = [spent EXCEPT ![kind] = @ + 1, !["any"] = @ + 1]

\* A statement throws (SQLITE_BUSY, an I/O error): inside the try block it is
\* caught as a failed attempt, during a replay as a failed replay; while
\* registering it leaves subscribe(), before there is a loop; and anywhere else,
\* the read of the attempts included, it ends the tick and drops the batch.
DbError(w) ==
  /\ Spend("dberror")
  /\ \/ At(w, "unretry") /\ Caught(w)
     \/ At(w, "ack") /\ Caught(w)
     \/ At(w, "replayDelete") /\ Goto(w, "replayKeep")
     \/ /\ loop[w].at \in {"start", "register"}
        /\ loop' = [loop EXCEPT ![w] = Halted("down")]
     \/ At(w, "next") /\ loop[w].batch # {} /\ ~loop[w].halting /\ Goto(w, EndTick(w))
     \/ /\ loop[w].at \in {"drain", "replayKeep", "poll", "oldest", "reanchor",
                           "select", "retry", "bury", "buryClean", "buryAck"}
        /\ Goto(w, EndTick(w))
  /\ UNCHANGED <<vars, dlq, ghosts>>

\* stop() runs between two awaits of the loop.
Stop(w) ==
  /\ loop[w].at \in {"idle", "replay", "handle", "next", "sleep"}
  /\ ~loop[w].halting
  /\ Spend("stop")
  /\ loop' = [loop EXCEPT
       ![w].halting = TRUE,
       ![w].at = CASE @ = "idle" -> "stopped"
                   [] @ = "sleep" -> "bury"
                   [] OTHER -> @]
  /\ UNCHANGED <<vars, dlq, ghosts>>

Crash(w) ==
  /\ loop[w].at \notin {"start", "stopped", "down"}
  /\ Spend("crash")
  /\ loop' = [loop EXCEPT ![w] = Halted("down")]
  /\ UNCHANGED <<vars, dlq, ghosts>>

Restart(w) ==
  /\ loop[w].at \in {"stopped", "down"}
  /\ loop' = [loop EXCEPT ![w] = Halted("start")]
  /\ LoopOnly

\* replayDeadLetter() and dropDeadLetter()
OperateLetter(d, to) ==
  /\ dlq[d].state # "gone"
  /\ Spend("letter")
  /\ dlq' = [dlq EXCEPT ![d].state = to]
  /\ UNCHANGED <<vars, loop, ghosts>>

\* The replay command: its write is a new claim to everything it moves the
\* cursor before.
RewindCheck(s, from) ==
  /\ Spend("rewind")
  /\ ReplayCheck(s, from)
  /\ UNCHANGED <<loop, dlq, ghosts>>

Rewind(s) ==
  /\ ReplayWrite(s)
  /\ handled' = handled \ ({s} \X due'[s])
  /\ buried' = buried \ ({s} \X due'[s])
  /\ UNCHANGED <<loop, dlq, spent, failures>>

Unsubscribe(s) ==
  /\ Spend("deregister")
  /\ Deregister(s)
  /\ UNCHANGED <<loop, dlq, ghosts>>

-----------------------------------------------------------------------------
SubscriberInit ==
  /\ Init
  /\ loop = [w \in Workers |-> Halted("start")]
  /\ dlq = <<>>
  /\ spent = [kind \in DOMAIN Budget |-> 0]
  /\ handled = {} /\ buried = {}
  /\ failures = [s \in Subs |-> [i \in 1 .. MaxEvents |-> 0]]

\* What a worker does by itself, handler outcomes included.
Run(w) ==
  \/ Resume(w) \/ RegisterNew(w) \/ RegisterRest(w) \/ Restart(w)
  \/ StartTick(w) \/ DrainPick(w) \/ DrainDone(w)
  \/ ReplayReturns(w) \/ ReplayThrows(w) \/ ReplayDelete(w) \/ ReplayKeep(w)
  \/ PollCursor(w) \/ PollOldest(w) \/ Reanchor(w) \/ PollSelect(w)
  \/ Take(w) \/ BatchDone(w)
  \/ HandlerReturns(w) \/ HandlerThrows(w) \/ Unretry(w) \/ AckEvent(w)
  \/ Retry(w) \/ Awake(w) \/ Bury(w) \/ BuryClean(w) \/ BuryAck(w)

Disturb(w) == DbError(w) \/ Stop(w) \/ Crash(w)

Operate ==
  \/ \E d \in DOMAIN dlq, to \in {"asked", "gone"} : OperateLetter(d, to)
  \/ \E s \in Subs, from \in ReplayFrom : RewindCheck(s, from)
  \/ \E s \in Subs : Rewind(s) \/ Unsubscribe(s)

\* The rest of the bus.
Background ==
  /\ (\E p \in Producers : Emit(p)) \/ Sweep \/ Tick
  /\ UNCHANGED <<loop, dlq, spent, ghosts>>

SubscriberNext ==
  \/ \E w \in Workers : Run(w) \/ Disturb(w)
  \/ Operate
  \/ Background

SubscriberSpec == SubscriberInit /\ [][SubscriberNext]_subscriberVars

\* The timers and promises of a live process fire, its handler returns or
\* throws, and a process that went down is started again.
FairSubscriberSpec == SubscriberSpec /\ \A w \in Workers : WF_subscriberVars(Run(w))

-----------------------------------------------------------------------------
(* Every variable of the loop and of dead_letters has its type.            *)
SubscriberTypeOK ==
  /\ loop \in [Workers -> Loop]
  /\ dlq \in Seq(Letter)
  /\ spent \in [DOMAIN Budget -> Nat]
  /\ handled \subseteq Subs \X (1 .. MaxEvents)
  /\ buried \subseteq Subs \X (1 .. MaxEvents)
  /\ failures \in [Subs -> [1 .. MaxEvents -> 0 .. MaxRetries + 1]]

ALO == INSTANCE AtLeastOnce WITH
  Events <- 1 .. MaxEvents, owed <- due, swept <- Ids \ live,
  left <- {s \in Subs : sub[s] = "deregistered"}, asking <- {s \in Subs : reset[s] # {}}

(* lib/subscribe.js "DELIVERY GUARANTEE: AT-LEAST-ONCE": however many       *)
(* workers share the cursor and whenever they crash, stop or meet a        *)
(* database error, a cursor never passes an event it owes before the       *)
(* handler accepted it, it is a dead letter or the sweep has taken it.     *)
ImplementsAtLeastOnce == ALO!Spec

(* lib/subscribe.js "If the handler throws, the event is retried": while   *)
(* an event is being retried nothing after it is handled; the handler is   *)
(* called for an event only when every earlier claim of the subscription   *)
(* is settled or swept.                                                    *)
HandledInOrder ==
  \A w \in Workers :
    At(w, "handle") => \A i \in due[Mine(w)] \cap live : i >= loop[w].event

(* lib/retention.js "In-flight retries ... are owed": the counter of a live *)
(* event belongs to an event the cursor has not passed; a stale one would  *)
(* make the sweep retain a settled event.                                  *)
RetryRowsAreUnacked ==
  \A s \in Subs : \A i \in live : attempts[s][i] > 0 => i > pos[s]

(* lib/subscribe.js "only dead-lettered + acked once the retry budget is   *)
(* exhausted": a dead letter that does not come from a shutdown belongs to *)
(* an event whose handler threw maxRetries + 1 times, counting the         *)
(* attempts made before crashes and restarts.                              *)
DeadLetterAfterBudget ==
  \A d \in DOMAIN dlq :
    dlq[d].reason = "exhausted" =>
      failures[dlq[d].sub][dlq[d].event] > MaxRetries

(* A worker whose stop() was called ends, whatever it was doing.           *)
StopCompletes ==
  \A w \in Workers : loop[w].halting ~> loop[w].at \in {"stopped", "down"}

(* README "Unacked events are re-delivered": every claim to an event that  *)
(* survives is settled in the end; in particular a cursor behind the sweep *)
(* (WB-003) is not wedged, and a retry does not go on for ever.            *)
EveryClaimSettles ==
  \A s \in Subs, i \in 1 .. MaxEvents : i \in due[s] ~> i \notin due[s] \cap live

(* lib/dlq.js "The next tick of the managed subscribe() loop for this      *)
(* cursor will drain pending replays": a requested replay is carried out,  *)
(* and a replay that fails does not stay requested.                        *)
ReplayRequestServed ==
  \A d \in 1 .. MaxEvents :
    (d \in DOMAIN dlq /\ dlq[d].state = "asked")
      ~> ~(d \in DOMAIN dlq /\ dlq[d].state = "asked")
=============================================================================
