------------------------- MODULE CongestionPlanner -------------------------
(***************************************************************************)
(* The greedy bundle planner of src/src/congestion_planner.cpp: one run of *)
(* CongestionPlanner::optimize_topologies over freshly built congestion    *)
(* books, and the runs that follow it.                                     *)
(*                                                                         *)
(* The run visits the bundles in order of importance.  A bundle is routed  *)
(* overflow-free if it can be; if not, one bundle routed earlier may be    *)
(* ripped up and both replanned; if that fails the bundle is routed with   *)
(* overflow, or outside its slide windows, or not at all.  Refinement      *)
(* passes then revisit every bundle.  All of it reads and writes one set   *)
(* of books: the demand standing on each band of the routing grid and on   *)
(* each share budget, which reservations of bundles still to come and the  *)
(* routes of bundles already planned have charged.                         *)
(*                                                                         *)
(* A bundle that is pinned has the candidates it is pinned to in Pin.      *)
(***************************************************************************)
EXTENDS PlanSearch, SequencesExt

CONSTANTS
  Bundle,    \* the bundle wrappers handed to the planner
  Pool,      \* Pool[b]: the candidate topologies of b
  Pin,       \* Pin[b]: the candidates b is pinned to, {} if it is not
  Reserve,   \* Reserve[b][s]: the demand b parks before its turn
  Locked,    \* bottom-up template copies
  Priority,  \* Priority[b]: hier.priority
  Width,     \* Width[b]: input.width
  Passes     \* refine_passes

ASSUME FiniteAssumption == IsFiniteSet(Bundle) /\ IsFiniteSet(Slot)

ASSUME ReserveAssumption == \A b \in Bundle, s \in Slot : Reserve[b][s] \in Nat

ASSUME PassesAssumption == Passes \in Nat

VARIABLES
  pc,         \* where optimize_topologies is
  usage,      \* usage[s]: cuts_ band usage, and share_used_
  parked,     \* bundles whose reservation stands in usage
  todo,       \* bundles still to take their turn
  committed,  \* the order in which bundles were committed
  plan,       \* plan[b]: the committed route of b
  asn,        \* asn[b]: the assignment that will be returned for b
  soft,       \* bundles committed by the overflow or best-effort stage
  target,     \* the bundle whose turn it is
  contended,  \* the bands whose overflow disqualified its candidates
  victim,     \* the bundle ripped up for it
  mine,       \* the route it found with the victim gone
  tried,      \* the victims already tried for it
  pass,       \* refinement pass
  changed     \* whether that pass changed a route

vars == <<pc, usage, parked, todo, committed, plan, asn, soft, target,
          contended, victim, mine, tried, pass, changed>>

-----------------------------------------------------------------------------
(* apply_reservation with sign -1. *)
Release(u, b) == [s \in Slot |-> u[s] - Reserve[b][s]]

(* The candidates it looks at: a pin outside the pool counts as none. *)
Sweep(b) == IF Pin[b] \cap Pool[b] # {} THEN Pin[b] \cap Pool[b] ELSE Pool[b]

plan_bundle(b, mode, u) == Found(Sweep(b), mode, u)
Contended(b, u) == ContendedBy(Sweep(b), u)

-----------------------------------------------------------------------------
(* Orders.                                                                 *)

(* a is planned before b: locked first, then priority, then width.  Equal  *)
(* bundles come in either order.                                           *)
Precedes(a, b) ==
  \/ a \in Locked /\ b \notin Locked
  \/ /\ a \in Locked <=> b \in Locked
     /\ \/ Priority[a] > Priority[b]
        \/ Priority[a] = Priority[b] /\ Width[a] > Width[b]

IsNext(b) == b \in todo /\ \A c \in todo : ~Precedes(c, b)

(* The demand v holds on the contended bands, and how late v was planned. *)
plan_band_overlap(v) == Total(contended, Demand(plan[v]))
Turn(v) == CHOOSE i \in DOMAIN committed : committed[i] = v

(* a is revisited before b by a refinement pass: a stable sort, so that of  *)
(* equal bundles the one committed first comes first.                      *)
RefinesBefore(a, b) ==
  \/ Priority[a] < Priority[b]
  \/ /\ Priority[a] = Priority[b]
     /\ \/ Width[a] < Width[b]
        \/ Width[a] = Width[b] /\ Turn(a) < Turn(b)

Victims ==
  {v \in Bundle : /\ plan[v] # None
                  /\ v \notin Locked \cup tried
                  /\ plan_band_overlap(v) > 0}

(* Most relief first, ties to the most recently committed. *)
IsNextVictim(v) ==
  /\ v \in Victims
  /\ \A w \in Victims :
       \/ plan_band_overlap(w) < plan_band_overlap(v)
       \/ /\ plan_band_overlap(w) = plan_band_overlap(v)
          /\ Turn(w) <= Turn(v)

-----------------------------------------------------------------------------
Init ==
  /\ pc = "idle"
  /\ usage = [s \in Slot |-> 0]
  /\ parked = {} /\ todo = {} /\ committed = <<>>
  /\ plan = [b \in Bundle |-> None] /\ asn = [b \in Bundle |-> None]
  /\ soft = {} /\ contended = {} /\ tried = {}
  /\ target = None /\ victim = None /\ mine = None
  /\ pass = 0 /\ changed = FALSE

(* The bundles with candidates: only these park, and release, a reservation. *)
Routable == {b \in Bundle : Pool[b] # {}}

(* build_congestion_map empties the books; optimize_topologies then parks  *)
(* the reservations of every bundle that has a candidate.                  *)
Start ==
  /\ pc \in {"idle", "done"}
  /\ pc' = "turn"
  /\ parked' = Routable
  /\ usage' = [s \in Slot |-> Total(Routable, [b \in Routable |-> Reserve[b][s]])]
  /\ todo' = Bundle
  /\ committed' = <<>>
  /\ plan' = [b \in Bundle |-> None] /\ asn' = [b \in Bundle |-> None]
  /\ soft' = {} /\ pass' = 0 /\ changed' = FALSE
  /\ UNCHANGED <<target, contended, victim, mine, tried>>

(* A bundle without candidates parked nothing and gets nothing. *)
SkipEmpty(b) ==
  /\ pc = "turn" /\ IsNext(b) /\ b \notin Routable
  /\ todo' = todo \ {b}
  /\ UNCHANGED <<pc, usage, parked, committed, plan, asn, soft, target,
                 contended, victim, mine, tried, pass, changed>>

(* Book the route p of b, found by the strict search (s = {}) or by one of *)
(* the two relaxed ones (s = {b}).                                         *)
Commit(b, p, u, s) ==
  /\ usage' = Charge(u, p)
  /\ plan' = [plan EXCEPT ![b] = p]
  /\ asn' = [asn EXCEPT ![b] = p]
  /\ committed' = Append(committed, b)
  /\ soft' = soft \cup s

(* A turn begins with the release of the bundle's own reservation.  Stage 1: *)
(* an overflow-free route.                                                 *)
PlanStrict(b) ==
  /\ pc = "turn" /\ IsNext(b) /\ b \in Routable
  /\ todo' = todo \ {b} /\ parked' = parked \ {b}
  /\ \E p \in plan_bundle(b, "STRICT", Release(usage, b)) :
       /\ p # None
       /\ Commit(b, p, Release(usage, b), {})
  /\ UNCHANGED <<pc, target, contended, victim, mine, tried, pass, changed>>

(* No overflow-free route: look for a bundle to rip up. *)
EnterLadder(b) ==
  /\ pc = "turn" /\ IsNext(b) /\ b \in Routable
  /\ None \in plan_bundle(b, "STRICT", Release(usage, b))
  /\ todo' = todo \ {b} /\ parked' = parked \ {b}
  /\ usage' = Release(usage, b)
  /\ pc' = "ladder" /\ target' = b
  /\ contended' = Contended(b, Release(usage, b)) /\ tried' = {}
  /\ UNCHANGED <<committed, plan, asn, soft, victim, mine, pass, changed>>

(* Stage 2, once per victim: rip it up, *)
RipUp(v) ==
  /\ pc = "ladder" /\ IsNextVictim(v)
  /\ usage' = Uncharge(usage, plan[v])
  /\ pc' = "ripped" /\ victim' = v
  /\ UNCHANGED <<parked, todo, committed, plan, asn, soft, target, contended,
                 mine, tried, pass, changed>>

(* book the target's route if it now has one, *)
PlanMine ==
  /\ pc = "ripped"
  /\ \E p \in plan_bundle(target, "STRICT", usage) :
       /\ p # None
       /\ usage' = Charge(usage, p)
       /\ mine' = p
  /\ pc' = "squeezed"
  /\ UNCHANGED <<parked, todo, committed, plan, asn, soft, target, contended,
                 victim, tried, pass, changed>>

LeaveLadder ==
  /\ pc' = "turn" /\ target' = None /\ victim' = None /\ mine' = None
  /\ contended' = {} /\ tried' = {}

(* Mutant of AcceptRipUp: the victim may overflow. *)
AcceptRipUpOverflow ==
  /\ pc = "squeezed"
  /\ \E p \in plan_bundle(victim, "ALLOW_OVERFLOW", usage) :
       /\ p # None
       /\ usage' = Charge(usage, p)
       /\ plan' = [plan EXCEPT ![victim] = p, ![target] = mine]
       /\ asn' = [asn EXCEPT ![victim] = p, ![target] = mine]
  /\ committed' = Append(committed, target)
  /\ soft' = soft \ {victim}
  /\ LeaveLadder
  /\ UNCHANGED <<parked, todo, pass, changed>>

(* Mutant of AcceptRipUp: the assignment of the victim is not rewritten. *)
AcceptRipUpStale ==
  /\ pc = "squeezed"
  /\ \E p \in plan_bundle(victim, "STRICT", usage) :
       /\ p # None
       /\ usage' = Charge(usage, p)
       /\ plan' = [plan EXCEPT ![victim] = p, ![target] = mine]
       /\ asn' = [asn EXCEPT ![target] = mine]
  /\ committed' = Append(committed, target)
  /\ soft' = soft \ {victim}
  /\ LeaveLadder
  /\ UNCHANGED <<parked, todo, pass, changed>>

(* and keep both moves if the victim has a route beside it: *)
AcceptRipUp ==
  /\ pc = "squeezed"
  /\ \E p \in plan_bundle(victim, "STRICT", usage) :
       /\ p # None
       /\ usage' = Charge(usage, p)
       /\ plan' = [plan EXCEPT ![victim] = p, ![target] = mine]
       /\ asn' = [asn EXCEPT ![victim] = p, ![target] = mine]
  /\ committed' = Append(committed, target)
  /\ soft' = soft \ {victim}
  /\ LeaveLadder
  /\ UNCHANGED <<parked, todo, pass, changed>>

(* Mutant of Restore: the target's trial route stays in the books. *)
RestoreHalf ==
  /\ pc \in {"ripped", "squeezed"}
  /\ None \in plan_bundle(IF pc = "ripped" THEN target ELSE victim, "STRICT", usage)
  /\ usage' = Charge(usage, plan[victim])
  /\ pc' = "ladder" /\ tried' = tried \cup {victim}
  /\ victim' = None /\ mine' = None
  /\ UNCHANGED <<parked, todo, committed, plan, asn, soft, target, contended,
                 pass, changed>>

(* Mutant of Restore: the same victim is taken again. *)
RestoreRetries ==
  /\ \/ /\ pc = "ripped"
        /\ None \in plan_bundle(target, "STRICT", usage)
        /\ usage' = Charge(usage, plan[victim])
     \/ /\ pc = "squeezed"
        /\ None \in plan_bundle(victim, "STRICT", usage)
        /\ usage' = Charge(Uncharge(usage, mine), plan[victim])
  /\ pc' = "ladder"
  /\ victim' = None /\ mine' = None
  /\ UNCHANGED <<parked, todo, committed, plan, asn, soft, target, contended,
                 tried, pass, changed>>

(* otherwise undo them, in the state the failure left. *)
Restore ==
  /\ \/ /\ pc = "ripped"
        /\ None \in plan_bundle(target, "STRICT", usage)
        /\ usage' = Charge(usage, plan[victim])
     \/ /\ pc = "squeezed"
        /\ None \in plan_bundle(victim, "STRICT", usage)
        /\ usage' = Charge(Uncharge(usage, mine), plan[victim])
  /\ pc' = "ladder" /\ tried' = tried \cup {victim}
  /\ victim' = None /\ mine' = None
  /\ UNCHANGED <<parked, todo, committed, plan, asn, soft, target, contended,
                 pass, changed>>

(* Stages 3 and 4: with overflow, or failing that outside the windows. *)
Relaxed(b) == Relax(Sweep(b), usage)

PlanRelaxed ==
  /\ pc = "ladder" /\ Victims = {}
  /\ \E p \in Relaxed(target) :
       \/ p # None /\ Commit(target, p, usage, {target})
       \/ p = None /\ UNCHANGED <<usage, plan, asn, committed, soft>>
  /\ LeaveLadder
  /\ UNCHANGED <<parked, todo, pass, changed>>

(* Refinement pass n starts over all committed bundles. *)
StartPass(n) ==
  /\ pc' = "refine" /\ pass' = n /\ changed' = FALSE
  /\ todo' = ToSet(committed)
  /\ UNCHANGED <<usage, parked, committed, plan, asn, soft, target, contended,
                 victim, mine, tried>>

Finish ==
  /\ pc' = "done"
  /\ UNCHANGED <<usage, parked, todo, committed, plan, asn, soft, target,
                 contended, victim, mine, tried, pass, changed>>

EndTurns ==
  /\ pc = "turn" /\ todo = {}
  /\ IF Passes > 0 THEN StartPass(1) ELSE Finish

EndPass ==
  /\ pc = "refine" /\ todo = {}
  /\ IF changed /\ pass < Passes THEN StartPass(pass + 1) ELSE Finish

IsNextRefined(b) == b \in todo /\ \A c \in todo : ~RefinesBefore(c, b)

(* A bundle is ripped up and searched again.  It keeps its route, which is *)
(* booked again unchanged, when it is locked or pinned, when nothing was   *)
(* found, or when its old topology is found too and no other beats it.     *)
KeepRoute(b) ==
  /\ pc = "refine" /\ IsNextRefined(b)
  /\ LET u == Uncharge(usage, plan[b])
     IN  \/ b \in Locked \/ Pin[b] # {}
         \/ None \in plan_bundle(b, "STRICT", u)
         \/ \E p \in plan_bundle(b, "STRICT", u) \ {None} :
              p.topo = plan[b].topo
  /\ usage' = Charge(Uncharge(usage, plan[b]), plan[b])
  /\ todo' = todo \ {b}
  /\ UNCHANGED <<pc, parked, committed, plan, asn, soft, target, contended,
                 victim, mine, tried, pass, changed>>

(* Mutant of AdoptRoute: locked and pinned bundles are revisited too, and   *)
(* the sweep of a pinned one is not held to its pin.                       *)
AdoptRouteAny(b) ==
  /\ pc = "refine" /\ IsNextRefined(b)
  /\ \E p \in {q \in Plan : /\ q.topo \in Pool[b]
                          /\ Admissible(q, "STRICT", Uncharge(usage, plan[b]))} :
       /\ p.topo # plan[b].topo
       /\ usage' = Charge(Uncharge(usage, plan[b]), p)
       /\ plan' = [plan EXCEPT ![b] = p]
       /\ asn' = [asn EXCEPT ![b] = p]
  /\ soft' = soft \ {b}
  /\ todo' = todo \ {b} /\ changed' = TRUE
  /\ UNCHANGED <<pc, parked, committed, target, contended, victim, mine,
                 tried, pass>>

(* It moves to an overflow-free route of another topology that scores      *)
(* better than every one of the old, or if the old topology has none.      *)
AdoptRoute(b) ==
  /\ pc = "refine" /\ IsNextRefined(b)
  /\ b \notin Locked /\ Pin[b] = {}
  /\ \E p \in plan_bundle(b, "STRICT", Uncharge(usage, plan[b])) :
       /\ p # None /\ p.topo # plan[b].topo
       /\ usage' = Charge(Uncharge(usage, plan[b]), p)
       /\ plan' = [plan EXCEPT ![b] = p]
       /\ asn' = [asn EXCEPT ![b] = p]
  /\ soft' = soft \ {b}
  /\ todo' = todo \ {b} /\ changed' = TRUE
  /\ UNCHANGED <<pc, parked, committed, target, contended, victim, mine,
                 tried, pass>>

Next ==
  \/ Start \/ EndTurns \/ EndPass
  \/ PlanMine \/ AcceptRipUp \/ Restore \/ PlanRelaxed
  \/ \E b \in Bundle :
       SkipEmpty(b) \/ PlanStrict(b) \/ EnterLadder(b) \/ RipUp(b)
         \/ KeepRoute(b) \/ AdoptRoute(b)

Spec == Init /\ [][Next]_vars

(* optimize_topologies is one call: once started it runs on. *)
FairSpec == Spec /\ WF_vars(pc \notin {"idle", "done"} /\ Next)

-----------------------------------------------------------------------------
(* Properties.                                                             *)

TypeOK ==
  /\ pc \in {"idle", "turn", "ladder", "ripped", "squeezed", "refine", "done"}
  /\ usage \in [Slot -> Int]
  /\ parked \subseteq Bundle /\ todo \subseteq Bundle
  /\ committed \in Seq(Bundle)
  /\ plan \in [Bundle -> Plan \cup {None}]
  /\ asn \in [Bundle -> Plan \cup {None}]
  /\ soft \subseteq Bundle /\ tried \subseteq Bundle
  /\ contended \subseteq Band
  /\ target \in Bundle \cup {None} /\ victim \in Bundle \cup {None}
  /\ mine \in Plan \cup {None}
  /\ pass \in 0..Passes /\ changed \in BOOLEAN

(* What b should hold on s: its reservation until its turn, then its route; *)
(* nothing while it is ripped up, and the route found with the victim gone  *)
(* while that is being tried.                                              *)
Holds(b, s) ==
  IF b \in parked THEN Reserve[b][s]
  ELSE IF pc \in {"ripped", "squeezed"} /\ b = victim THEN 0
  ELSE IF pc = "squeezed" /\ b = target THEN Demand(mine)[s]
  ELSE IF plan[b] # None THEN Demand(plan[b])[s]
  ELSE 0

(* The books are exact at every moment: each band and budget shows the sum *)
(* of the reservations and routes that stand.  Every release, rip-up, undo *)
(* and restore of optimize_topologies is the inverse of what it undoes.    *)
BooksBalance ==
  \A s \in Slot : usage[s] = Total(Bundle, [b \in Bundle |-> Holds(b, s)])

(* What a finished run leaves in the cuts is the demand of the assignments *)
(* it returns, with no reservation left over: the congestion the later     *)
(* stages and the viewer read is that of the routes they get.              *)
BooksAreDelivered ==
  pc = "done" =>
    \A s \in Slot :
       usage[s] = Total({b \in Bundle : asn[b] # None},
                        [b \in {c \in Bundle : asn[c] # None} |-> Demand(asn[b])[s]])

(* The demand of the bundles that were routed overflow-free. *)
HardDemand(s) ==
  Total(Bundle, [b \in Bundle |-> IF plan[b] # None /\ b \notin soft
                                    THEN Demand(plan[b])[s] ELSE 0])

(* "Overflow is a hard constraint": however bundles were ripped up, moved  *)
(* and refined, those routed overflow-free fit together, so an overflowing *)
(* band always carries a bundle that the planner warned about.             *)
HardDemandFits == \A s \in Slot : HardDemand(s) <= Cap[s]

(* A route booked by a strict search leaves room for everything that stands *)
(* when it is booked, the reservations of bundles still to come included.  *)
StrictLeavesRoom ==
  [][\A b \in Bundle :
       plan'[b] \notin {None, plan[b]} /\ b \notin soft' =>
         \A s \in Slot : Demand(plan'[b])[s] > 0 => usage'[s] <= Cap[s]]_vars

(* Once planned, a bundle only moves to an overflow-free route, a locked   *)
(* one never moves, and a pinned one stays with its candidates.            *)
MovesAreSound ==
  [][\A b \in Bundle :
       plan[b] # None /\ plan'[b] \notin {None, plan[b]} =>
         /\ b \notin Locked \cup soft'
         /\ Pin[b] \cap Pool[b] # {} => plan'[b].topo \in Pin[b]]_vars

(* Every run ends: no rip-up is tried twice for a turn, and refinement     *)
(* stops at its last pass at the latest.                                   *)
RunEnds == pc = "turn" ~> pc = "done"

=============================================================================
