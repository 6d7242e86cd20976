---------------------------- MODULE MCCliSubscribe ----------------------------
(* Instances of CliSubscribe for TLC: one process that streams, one that is *)
(* started with several command lines that drain.                          *)
EXTENDS CliSubscribe, TLC

CONSTANTS a, c1, c2

AllTypes == [s \in Subs |-> Types]

OneStreamsOneDrains ==
  (c1 :> {AnyMode})
  @@ (c2 :> {[drain |-> TRUE, ack |-> FALSE, recover |-> TRUE, idle |-> FALSE],
             [drain |-> TRUE, ack |-> TRUE, recover |-> FALSE, idle |-> TRUE]})

Faults ==
  [kind \in {"crash", "dberror", "signal", "deregister", "again", "any"} |-> 1]
=============================================================================
