---------------------------- MODULE PlanSearch ----------------------------
(***************************************************************************)
(* The search for a route of one bundle: plan_bundle of                    *)
(* src/src/congestion_planner.cpp, and what a route puts on the books.     *)
(*                                                                         *)
(* Demand is counted in tracks.  Scores are left out: where the code takes *)
(* the cheapest of several admissible routes the model takes any of them.  *)
(***************************************************************************)
EXTENDS Tracks, Sequences

CONSTANTS
  Band,      \* (cut, band) pairs of the routing grid
  Budget,    \* (share group, shared layer) pairs with a declared budget
  Plan,      \* routes: records [topo, layers], one layer per segment
  None,      \* no route: the result of a search that found nothing
  Upto,      \* Upto[p][k][s]: what the first k segments of p charge on s
  Sees,      \* Sees[p][s]: the capacity of s as the scoring of p sees it
  Cap,       \* Cap[s]: the capacity of band s, the budget of budget s
  InWindow   \* the routes whose segments all fit their slide windows

Slot == Band \cup Budget

ASSUME PlanAssumption ==
  /\ None \notin Plan
  /\ \A p \in Plan :
       /\ Len(p.layers) \in Nat
       /\ \A k \in 0..Len(p.layers), s \in Slot : Upto[p][k][s] \in Nat

ASSUME CapAssumption ==
  \A s \in Slot : Cap[s] \in Nat /\ \A p \in Plan : Sees[p][s] \in 0..Cap[s]

-----------------------------------------------------------------------------
(* What a route charges.                                                   *)

Demand(p) == Upto[p][Len(p.layers)]

(* commit_plan with sign +1 and -1. *)
Charge(u, p) == [s \in Slot |-> u[s] + Demand(p)[s]]
Uncharge(u, p) == [s \in Slot |-> u[s] - Demand(p)[s]]

-----------------------------------------------------------------------------
(* The search, held to the candidates T, against the books u.              *)

PlansOf(t) == {p \in Plan : p.topo = t}

(* Mutant of FitsUpto: one track too many passes for a fit. *)
FitsUptoOffByOne(p, k, u) ==
  \A s \in Slot : Upto[p][k][s] > 0 => u[s] + Upto[p][k][s] <= Sees[p][s] + 1

(* The first k segments of p, charged one after the other, overflow no     *)
(* band and exceed no share budget.                                        *)
FitsUpto(p, k, u) ==
  \A s \in Slot : Upto[p][k][s] > 0 => u[s] + Upto[p][k][s] <= Sees[p][s]

Fits(p, u) == FitsUpto(p, Len(p.layers), u)

Admissible(p, mode, u) ==
  /\ mode = "STRICT" => Fits(p, u)
  /\ mode # "BEST_EFFORT" => p \in InWindow

(* Layers are chosen segment by segment and never reconsidered, so a       *)
(* candidate can fail although some combination of its layers fits: after  *)
(* k - 1 good choices no layer is left for segment k.                      *)
GetsStuck(t, u) ==
  \E p \in PlansOf(t) : \E k \in 1..Len(p.layers) :
     /\ FitsUpto(p, k - 1, u)
     /\ \A q \in PlansOf(t) :
          (\A i \in 1..(k - 1) : q.layers[i] = p.layers[i]) => ~FitsUpto(q, k, u)

MayFail(t, mode, u) ==
  \/ PlansOf(t) = {}
  \/ mode = "STRICT" /\ GetsStuck(t, u)
  \/ /\ mode # "BEST_EFFORT"
     /\ \E p \in PlansOf(t) \ InWindow : mode = "STRICT" => Fits(p, u)

(* The routes it may come back with; None if no candidate of T has one. *)
Found(T, mode, u) ==
  {p \in Plan : p.topo \in T /\ Admissible(p, mode, u)}
    \cup {none \in {None} : \A t \in T : MayFail(t, mode, u)}

(* The ladder without rip-up: an overflow-free route; if there is none, one *)
(* with overflow; if there is none, one outside the windows.               *)
Relax(T, u) ==
  LET over == Found(T, "ALLOW_OVERFLOW", u)
  IN  (over \ {None}) \cup (IF None \in over THEN Found(T, "BEST_EFFORT", u) ELSE {})
Ladder(T, u) ==
  LET strict == Found(T, "STRICT", u)
  IN  (strict \ {None}) \cup (IF None \in strict THEN Relax(T, u) ELSE {})

(* The bands whose overflow kept a layer of some segment from being used. *)
ContendedBy(T, u) ==
  {s \in Band : \E p \in Plan : \E k \in 1..Len(p.layers) :
     /\ p.topo \in T
     /\ FitsUpto(p, k - 1, u)
     /\ Upto[p][k][s] > Upto[p][k - 1][s]
     /\ u[s] + Upto[p][k][s] > Sees[p][s]}
=============================================================================
