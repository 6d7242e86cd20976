------------------------------ MODULE AtLeastOnce ------------------------------
(***************************************************************************)
(* What the bus promises a subscription, without cursors, batches, retries *)
(* or processes: an event it has a claim to stays claimed until a handler  *)
(* has accepted it, it is a dead letter, or the sweep has removed it from  *)
(* the events table.  Redelivery is allowed at any time; an operator's     *)
(* replay is a new claim that earlier deliveries do not settle.            *)
(***************************************************************************)
CONSTANTS
  Subs,   \* subscriptions
  Events  \* event ids

VARIABLES
  owed,     \* owed[s]: the unsettled claims of s
  handled,  \* <<s, i>>: the handler of s accepted i
  buried,   \* <<s, i>>: i became a dead letter of s
  swept,    \* events no longer in the events table
  left,     \* subscriptions that were deregistered
  asking    \* subscriptions whose replay was asked for and has not begun

requests == <<left, asking>>
vars == <<owed, handled, buried, swept, requests>>

Settled(s, i) == <<s, i>> \in handled \cup buried \/ i \in swept

Init ==
  /\ owed = [s \in Subs |-> {}]
  /\ handled = {} /\ buried = {} /\ swept = {}
  /\ left = {} /\ asking = {}

\* Publication, registration and redelivery.
Claim ==
  /\ \E more \in [Subs -> SUBSET Events] :
       owed' = [s \in Subs |-> owed[s] \cup more[s]]
  /\ UNCHANGED <<handled, buried, swept, requests>>

AskReplay(s) ==
  /\ asking' = asking \cup {s}
  /\ UNCHANGED <<owed, handled, buried, swept, left>>

\* The operator's replay chooses the claims; they have to be delivered anew.
Replay(s) ==
  \E again \in SUBSET Events :
    /\ s \in asking
    /\ owed' = [owed EXCEPT ![s] = again]
    /\ handled' = handled \ ({s} \X again)
    /\ buried' = buried \ ({s} \X again)
    /\ asking' = asking \ {s}
    /\ UNCHANGED <<swept, left>>

Handle(s, i) ==
  /\ handled' = handled \cup {<<s, i>>}
  /\ UNCHANGED <<owed, buried, swept, requests>>

Bury(s, i) ==
  /\ buried' = buried \cup {<<s, i>>}
  /\ UNCHANGED <<owed, handled, swept, requests>>

Sweep ==
  /\ \E gone \in SUBSET Events : swept' = swept \cup gone
  /\ UNCHANGED <<owed, handled, buried, requests>>

Settle(s) ==
  /\ \E done \in SUBSET owed[s] :
       /\ \A i \in done : Settled(s, i)
       /\ owed' = [owed EXCEPT ![s] = @ \ done]
  /\ UNCHANGED <<handled, buried, swept, requests>>

\* A deregistered subscription gives up its claims.
Withdraw(s) ==
  /\ left' = left \cup {s}
  /\ s \notin left
  /\ owed' = [owed EXCEPT ![s] = {}]
  /\ UNCHANGED <<handled, buried, swept, asking>>

Next ==
  \/ Claim
  \/ Sweep
  \/ \E s \in Subs : AskReplay(s) \/ Replay(s) \/ Settle(s) \/ Withdraw(s)
  \/ \E s \in Subs, i \in Events : Handle(s, i) \/ Bury(s, i)

Spec == Init /\ [][Next]_vars
=============================================================================
