---------------------------- MODULE MCCheckpoint ----------------------------
(* One bundle that crosses blocks and two copies of a template bundle.  The *)
(* planner's outcomes differ from the first one in the layers of one copy,  *)
(* in its candidate, in dropping it, and in leaving the normal bundle out.  *)
EXTENDS Checkpoint

CONSTANTS n1, i1, i2, t1, t2, l1, l2

MCNormal == {n1}
MCInstance == {i1, i2}
MCTopo == {t1, t2}
MCLayer == {l1, l2}

R(t, l) == [topo |-> t, layer |-> l]
P(n, i, j) == [b \in {n1, i1, i2} |-> CASE b = n1 -> n [] b = i1 -> i [] b = i2 -> j]

MCOutcome ==
  {P(R(t1, l1), R(t1, l1), R(t1, l1)),
   P(R(t2, l2), R(t1, l2), R(t1, l1)),
   P(R(t1, l1), R(t2, l1), R(t1, l1)),
   P(None, R(t1, l1), None)}
=============================================================================
