----------------------------- MODULE MCSubscriber -----------------------------
(* Instances of Subscriber for TLC: the filters, and how many faults and     *)
(* operator calls of each kind a run allows.                                 *)
EXTENDS Subscriber, TLC

CONSTANTS a

AllTypes == [s \in Subs |-> Types]

Quiet == [kind \in {"crash", "dberror", "stop", "letter", "rewind", "deregister", "any"} |-> 0]

Faults ==
  [Quiet EXCEPT !["crash"] = 1, !["dberror"] = 1, !["stop"] = 1, !["deregister"] = 1, !["any"] = 3]
Serviced ==
  [Quiet EXCEPT !["crash"] = 1, !["letter"] = 1, !["stop"] = 1, !["rewind"] = 1, !["any"] = 2]

SymWorkers == Permutations(Workers)
=============================================================================
