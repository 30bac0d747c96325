----------------------------- MODULE MCHealers -----------------------------
(***************************************************************************)
(* Three bundles.  p has a candidate whose layers are all masked (pH) and  *)
(* one the solver cuts, and cuts again (pB); q has two candidates; r holds *)
(* a band the others want without being in an overlap at first; k is a     *)
(* template copy.                                                          *)
(***************************************************************************)
EXTENDS Healers

MCBundle == {"p", "q", "r", "k"}
MCLocked == {"k"}
MCPool == [b \in MCBundle |->
  CASE b = "p" -> <<"pA", "pB", "pH">>
    [] b = "q" -> <<"qA", "qB">>
    [] b = "r" -> <<"rA", "rB">>
    [] OTHER -> <<"kA">>]

MCLayers(b, t, r) ==
  CASE t.shape = "pH" -> None
    [] t.shape = "qA" /\ r["p"] # None /\ r["p"].topo.shape = "pB" -> "M6"
    [] OTHER -> "M4"

(* The batch planner: a pinned bundle keeps its candidate if it can, any   *)
(* other takes its first.                                                  *)
MCBatch(s) ==
  [b \in MCBundle |->
     LET i == IF s[b].pin /\ s[b].sel # 0 THEN s[b].sel ELSE 1 IN
     IF s[b].pool[i].shape = "pH" THEN [sel |-> 0, layers |-> None]
                                  ELSE [sel |-> i, layers |-> "M4"]]

On(r, b, shape) == r[b] # None /\ r[b].topo.shape = shape

(* A cycle of p and r is cut on p, and once p is cut another one of p and  *)
(* q.                                                                      *)
MCSplits(r) ==
  {b \in {"p"} : /\ On(r, "p", "pB")
                 /\ \/ r["p"].topo.cuts = 0 /\ On(r, "r", "rB")
                    \/ r["p"].topo.cuts = 1 /\ On(r, "q", "qB")}

(* Pairs of candidates that overlap, and on how many places. *)
Conflicts ==
  {<<"pA", "qA", 3>>, <<"pA", "qB", 3>>, <<"pB", "qA", 1>>, <<"pB", "rA", 2>>,
   <<"pA", "rB", 1>>, <<"qB", "rA", 1>>, <<"qA", "kA", 1>>}

Present(r) ==
  {c \in Conflicts : \E a, b \in MCBundle : On(r, a, c[1]) /\ On(r, b, c[2])}
MCOverlaps(r) ==
  FoldFunction(LAMBDA x, n : x + n, 0, [c \in Present(r) |-> c[3]])
MCSlack(r) == IF On(r, "q", "qB") THEN 1 ELSE 0
MCParties(r) ==
  {b \in MCBundle : \E c \in Present(r) : On(r, b, c[1]) \/ On(r, b, c[2])}
=============================================================================
