---------------------------- MODULE MCTieredSweep ----------------------------
(* Instances of TieredSweep for TLC.                                         *)
EXTENDS TieredSweep, TLC

CONSTANTS a

AllTypes == [s \in Subs |-> Types]

\* Sweepers differ in name only.
Alike == Permutations(Sweepers)

Sweeping == {w \in Sweepers : job[w].at # "idle"}
Polling == {r \in Readers : page[r].at # "idle"}

\* Bounds: an emit() takes no hour and does not close its connection.
PromptEmits ==
  \A p \in Producers : step[p] # "closed" /\ (step[p] = "insert" => draft[p].emitted = clock)

\* Readers without subscriptions: two processes are at work at a time; two sweeps
\* meet in the last hour, when every row is there and none has been read, with a
\* bucket each, which may be the same.
WithReaders ==
  /\ \A s \in Subs : sub[s] = "absent"
  /\ Cardinality(Sweeping) + Cardinality(Polling) <= 2
  /\ Cardinality(Sweeping) = 2 =>
       /\ clock = MaxHour /\ Len(log) = MaxEvents
       /\ \A w \in Sweeping : Cardinality(job[w].plan) <= 1
       /\ \A r \in Readers : read[r] = 0

\* Subscriptions without readers: one sweep at a time, and no bucket is full.
WithSubscriptions ==
  /\ \A r \in Readers : page[r].at = "idle" /\ read[r] = 0
  /\ Cardinality(Sweeping) <= 1 /\ Late = {}
  /\ \A b \in Buckets : ~bucket[b].sealed

Instances == PromptEmits /\ (WithReaders \/ WithSubscriptions)
=============================================================================
