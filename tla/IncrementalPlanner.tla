------------------------- MODULE IncrementalPlanner -------------------------
(***************************************************************************)
(* The incremental calls of src/src/congestion_planner.cpp on a planned    *)
(* session, in the order the healers make them (negotiate.py, ripup.py,    *)
(* rr_trials.py, nuts.cpp, reports.py).                                    *)
(*                                                                         *)
(* A call recharges the books from the routes of the other bundles and     *)
(* then charges and uncharges single routes.  replan_bundle_ripup does so  *)
(* many times: it rips up one bundle after the other to make room, and     *)
(* what did not help it puts back.  The measured contention of             *)
(* negotiate_congestion stands on the same books.                          *)
(*                                                                         *)
(* Abstractions.  Demand and routes are those of PlanSearch.  A selection  *)
(* without layers is no route.  The session decides freely which bundles   *)
(* it replans, what contention it charges and what it accepts.             *)
(***************************************************************************)
EXTENDS PlanSearch

CONSTANTS
  Bundle, Pool, Group, Locked,  \* as in ReplanContract
  StartRoute,  \* the routes of the batch run, and the bundles pinned to them
  StartPinned,
  Target,      \* the bundles it replans
  Prices       \* the contention an iteration may measure: functions on Slot

ASSUME SessionAssumption ==
  /\ IsFiniteSet(Bundle) /\ None \notin Bundle
  /\ StartRoute \in [Bundle -> Plan \cup {None}] /\ StartPinned \subseteq Bundle
  /\ Target \subseteq Bundle /\ Prices \subseteq [Slot -> Nat]

VARIABLES
  usage,      \* cuts_ band usage, and share_used_
  charged,    \* charge_log_: the route recorded for each bundle
  injected,   \* injected_
  route,      \* route[b]: the committed route of b
  pinned,     \* bundles pinned to the topology they have
  pc,         \* "prompt", "negotiate" (between iterations), "round" (in one),
              \* "ladder", "ripped", "squeezed" (in replan_bundle_ripup)
  snap,       \* the routes and pins when the iteration that runs began
  call,       \* the target of the call that runs
  contended,  \* the bands whose overflow disqualified its candidates
  tried, victim, mine  \* as in CongestionPlanner

session == <<route, pinned, snap>>
search == <<call, contended, tried, victim, mine>>
vars == <<usage, charged, injected, session, pc, search>>

Calling == pc \in {"ladder", "ripped", "squeezed"}

Contract == INSTANCE ReplanContract
  WITH books <- IF Calling THEN None ELSE usage, busy <- call

Movable(b) == Contract!Movable(b)
Sweep(b) == Contract!Sweep(b)
Free(b) == Contract!Free(b)

-----------------------------------------------------------------------------
Init ==
  /\ route = StartRoute /\ pinned = StartPinned
  /\ charged = route /\ injected = [s \in Slot |-> 0]
  /\ usage = Contract!Books(route)
  /\ pc = "prompt" /\ snap = None
  /\ call = None /\ contended = {} /\ tried = {} /\ victim = None /\ mine = None

(* commit_plan with sign +1 and -1: what it takes off is what is recorded. *)
Commit(u, c, b, p) == [usage |-> Charge(u, p), charged |-> [c EXCEPT ![b] = p]]
Uncommit(u, c, b) == [usage |-> Uncharge(u, c[b]), charged |-> [c EXCEPT ![b] = None]]

Book(x) == usage' = x.usage /\ charged' = x.charged

(* Zero the books, commit every route but that of b, add the injected      *)
(* demand.                                                                 *)
recharge_committed_(b) ==
  LET r == [c \in Bundle |-> IF c = b THEN None ELSE route[c]] IN
  [usage |-> Contract!Books(r), charged |-> r]

-----------------------------------------------------------------------------
(* At the prompt, and in ripup_reroute.                                    *)

recharge_committed ==
  /\ pc = "prompt"
  /\ Book(recharge_committed_(None))
  /\ UNCHANGED <<injected, session, pc, search>>

(* All candidates of b are scored beside the others, then everything is    *)
(* charged again.                                                          *)
candidate_costs(b) ==
  /\ pc = "prompt" /\ Pool[b] # {}
  /\ Book(recharge_committed_(None))
  /\ UNCHANGED <<injected, session, pc, search>>

(* The candidates of b are planned beside the others; nothing is charged.  *)
replan_candidates(b) ==
  /\ pc = "prompt" /\ Pool[b] # {} /\ b \notin Locked
  /\ Book(recharge_committed_(b))
  /\ UNCHANGED <<injected, session, pc, search>>

(* A trial of ripup_reroute: b is pinned to its candidate t and planned    *)
(* alone; the session keeps the move or puts its wrapper back.             *)
replan_bundle(b, t) ==
  LET beside == recharge_committed_(b) IN
  /\ pc = "prompt" /\ Movable(b)
  /\ \E p \in Ladder(Contract!To(b, t), beside.usage) :
       \/ p = None /\ Book(beside) /\ UNCHANGED session
       \/ /\ p # None
          /\ Book(Commit(beside.usage, beside.charged, b, p))
          /\ \/ UNCHANGED session
             \/ /\ route' = [route EXCEPT ![b] = p]
                /\ pinned' = pinned \cup {b} /\ UNCHANGED snap
  /\ UNCHANGED <<injected, pc, search>>

-----------------------------------------------------------------------------
(* negotiate_congestion.                                                   *)

(* An iteration: clear_injected_demand, inject_band_demand, the snapshot.  *)
BeginRound ==
  /\ pc \in {"prompt", "negotiate"}
  /\ \E d \in Prices :
       /\ usage' = [s \in Slot |-> usage[s] - injected[s] + d[s]]
       /\ injected' = d
  /\ pc' = "round" /\ snap' = [route |-> route, pinned |-> pinned]
  /\ UNCHANGED <<charged, route, pinned, search>>

(* The iteration improved, or is undone (also by an exception). *)
EndRound ==
  /\ pc = "round" /\ pc' = "negotiate"
  /\ \/ UNCHANGED <<route, pinned>>
     \/ route' = snap.route /\ pinned' = snap.pinned
  /\ snap' = None
  /\ UNCHANGED <<usage, charged, injected, search>>

EndNegotiate ==
  /\ pc = "negotiate" /\ pc' = "prompt"
  /\ usage' = [s \in Slot |-> usage[s] - injected[s]]
  /\ injected' = [s \in Slot |-> 0]
  /\ UNCHANGED <<charged, session, search>>

-----------------------------------------------------------------------------
(* replan_bundle_ripup.                                                    *)

(* The target is unpinned and searched beside the others. *)
Enter(b) ==
  LET beside == recharge_committed_(b) IN
  /\ pc = "round" /\ Movable(b)
  /\ pinned' = pinned \ {b}
  /\ call' = b
  /\ Book(beside)
  /\ pc' = "ladder" /\ tried' = {}
  /\ contended' = ContendedBy(Free(b), beside.usage)
  /\ UNCHANGED <<injected, route, snap, victim, mine>>

Return(r) ==
  /\ route' = r
  /\ pc' = "round" /\ call' = None
  /\ contended' = {} /\ tried' = {} /\ victim' = None /\ mine' = None
  /\ UNCHANGED <<injected, pinned, snap>>

Strict == Found(Free(call), "STRICT", usage)

ReturnStrict ==
  /\ pc = "ladder" /\ tried = {}
  /\ \E p \in Strict \ {None} :
       /\ Book(Commit(usage, charged, call, p))
       /\ Return([route EXCEPT ![call] = p])

(* What a bundle holds of the contended bands; most relief first. *)
plan_band_overlap(v) == Total(contended, Demand(route[v]))
Victims ==
  {v \in Bundle \ ({call} \cup Locked \cup tried) :
     route[v] # None /\ plan_band_overlap(v) > 0}

Rest(x) == /\ Book(x)
           /\ UNCHANGED <<injected, session, call, contended>>

RipUp(v) ==
  /\ pc = "ladder" /\ None \in Strict
  /\ v \in Victims /\ \A w \in Victims : plan_band_overlap(w) <= plan_band_overlap(v)
  /\ pc' = "ripped" /\ victim' = v
  /\ Rest(Uncommit(usage, charged, v)) /\ UNCHANGED <<tried, mine>>

PlanMine ==
  /\ pc = "ripped"
  /\ \E p \in Strict \ {None} :
       mine' = p /\ Rest(Commit(usage, charged, call, p))
  /\ pc' = "squeezed"
  /\ UNCHANGED <<tried, victim>>

Theirs == Found(Sweep(victim), "STRICT", usage)

(* Mutant of AcceptRipUp: the victim may overflow. *)
AcceptRipUpOverflow ==
  /\ pc = "squeezed"
  /\ \E q \in Found(Sweep(victim), "ALLOW_OVERFLOW", usage) \ {None} :
       /\ Book(Commit(usage, charged, victim, q))
       /\ Return([route EXCEPT ![call] = mine, ![victim] = q])

AcceptRipUp ==
  /\ pc = "squeezed"
  /\ \E q \in Theirs \ {None} :
       /\ Book(Commit(usage, charged, victim, q))
       /\ Return([route EXCEPT ![call] = mine, ![victim] = q])

(* Mutant of Restore: the target's trial route stays on the books. *)
RestoreHalf ==
  /\ IF pc = "ripped" THEN None \in Strict ELSE pc = "squeezed" /\ None \in Theirs
  /\ Rest(Commit(usage, charged, victim, route[victim]))
  /\ pc' = "ladder" /\ tried' = tried \cup {victim} /\ victim' = None /\ mine' = None

(* Mutant of Restore: the same victim is taken again. *)
RestoreRetries ==
  /\ \/ /\ pc = "ripped" /\ None \in Strict
        /\ Rest(Commit(usage, charged, victim, route[victim]))
     \/ /\ pc = "squeezed" /\ None \in Theirs
        /\ LET undone == Uncommit(usage, charged, call)
           IN  Rest(Commit(undone.usage, undone.charged, victim, route[victim]))
  /\ pc' = "ladder" /\ UNCHANGED tried /\ victim' = None /\ mine' = None

(* No room: undo, in the state the failure left. *)
Restore ==
  /\ \/ /\ pc = "ripped" /\ None \in Strict
        /\ Rest(Commit(usage, charged, victim, route[victim]))
     \/ /\ pc = "squeezed" /\ None \in Theirs
        /\ LET undone == Uncommit(usage, charged, call)
           IN  Rest(Commit(undone.usage, undone.charged, victim, route[victim]))
  /\ pc' = "ladder" /\ tried' = tried \cup {victim} /\ victim' = None /\ mine' = None

(* No victim made room: with overflow, or outside the windows, or not at   *)
(* all, which leaves the target off the books.                             *)
ReturnRelaxed ==
  /\ pc = "ladder" /\ None \in Strict /\ Victims = {}
  /\ \E p \in Relax(Free(call), usage) :
       \/ p = None /\ Return(route) /\ UNCHANGED <<usage, charged>>
       \/ /\ p # None
          /\ Book(Commit(usage, charged, call, p))
          /\ Return([route EXCEPT ![call] = p])

-----------------------------------------------------------------------------
Run == ReturnStrict \/ PlanMine \/ AcceptRipUp \/ Restore \/ ReturnRelaxed
         \/ \E v \in Bundle : RipUp(v)

Next ==
  \/ recharge_committed \/ BeginRound \/ EndRound \/ EndNegotiate \/ Run
  \/ \E b \in Target :
       \/ candidate_costs(b) \/ replan_candidates(b) \/ Enter(b)
       \/ \E t \in Pool[b] : replan_bundle(b, t)

Spec == Init /\ [][Next]_vars

(* A call runs until it returns. *)
FairSpec == Spec /\ WF_vars(Run)

-----------------------------------------------------------------------------
(* Properties.                                                             *)

TypeOK ==
  /\ usage \in [Slot -> Nat] /\ injected \in [Slot -> Nat]
  /\ charged \in Contract!Routes /\ route \in Contract!Routes
  /\ pinned \subseteq Bundle /\ tried \subseteq Bundle /\ contended \subseteq Band
  /\ pc \in {"prompt", "negotiate", "round", "ladder", "ripped", "squeezed"}
  /\ call # None <=> Calling
  /\ mine \in Plan \cup {None} /\ victim \in Bundle \cup {None}

(* committed_charges() "describes exactly the charges currently standing   *)
(* in cuts_": at every moment, in the middle of a call too, what the books *)
(* show is the record and the injected demand, once.                       *)
BooksMatchTheRecord ==
  \A s \in Slot :
    usage[s] = injected[s] +
      Total(Bundle, [b \in Bundle |-> IF charged[b] = None THEN 0
                                                           ELSE Demand(charged[b])[s]])

(* However many victims a call rips up and restores, and whatever stale    *)
(* trials it finds on the books, it answers, and leaves the books, as if   *)
(* they had been drawn up from scratch.                                    *)
KeepsTheContract == Contract!Spec

(* A call returns: no victim is tried twice. *)
CallsReturn == Calling ~> pc = "round"
=============================================================================
