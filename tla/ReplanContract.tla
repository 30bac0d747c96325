--------------------------- MODULE ReplanContract ---------------------------
(***************************************************************************)
(* What the incremental calls of the congestion planner promise            *)
(* (congestion_planner.h), with no step inside a call: the answer of a     *)
(* call and the books it leaves are those of books drawn up from scratch   *)
(* from the routes of the session and the injected demand.                 *)
(***************************************************************************)
EXTENDS PlanSearch

CONSTANTS
  Bundle,  \* the bundle wrappers of the session
  Pool,    \* Pool[b]: the candidate topologies of b
  Group,   \* Group[b]: the candidates of its pinned group, {} if it has none
  Locked   \* bottom-up template copies

VARIABLES
  books,     \* the demand on every slot, None while a call runs
  injected,  \* injected[s]: measured contention charged on s
  route,     \* route[b]: the committed route of b, None if it has none
  pinned,    \* bundles pinned to the topology they have
  busy       \* the target of the call that runs, None between calls

vars == <<books, injected, route, pinned, busy>>

Routes == [Bundle -> Plan \cup {None}]

(* The books for the routes r. *)
Books(r) ==
  [s \in Slot |->
     Total(Bundle, [b \in Bundle |-> IF r[b] = None THEN 0 ELSE Demand(r[b])[s]])
       + injected[s]]

Without(b) == [route EXCEPT ![b] = None]
With(b, p) == [route EXCEPT ![b] = p]

(* The candidates a search for b looks at if b is not pinned, if it is     *)
(* pinned to t, and as things are.  A pinned group comes first.            *)
Free(b) == IF Group[b] \cap Pool[b] # {} THEN Group[b] \cap Pool[b] ELSE Pool[b]
To(b, t) == IF Group[b] \cap Pool[b] # {} THEN Free(b) ELSE {t}
Sweep(b) == IF b \in pinned THEN To(b, route[b].topo) ELSE Free(b)

Movable(b) == b \notin Locked /\ Pool[b] # {} /\ route[b] # None

-----------------------------------------------------------------------------
Init ==
  /\ injected = [s \in Slot |-> 0] /\ busy = None
  /\ route \in Routes /\ pinned \subseteq Bundle
  /\ books = Books(route)

(* The session changes routes and pins: books are not touched. *)
Edit ==
  /\ busy = None /\ route' \in Routes /\ pinned' \subseteq Bundle
  /\ UNCHANGED <<books, injected, busy>>

(* inject_band_demand, clear_injected_demand. *)
Price ==
  /\ busy = None /\ injected' \in [Slot -> Nat]
  /\ books' = [s \in Slot |-> books[s] - injected[s] + injected'[s]]
  /\ UNCHANGED <<route, pinned, busy>>

(* recharge_committed and candidate_costs; replan_candidates leaves its    *)
(* target out.                                                             *)
Redraw ==
  /\ busy = None
  /\ books' \in {Books(route)} \cup {Books(Without(b)) : b \in Bundle}
  /\ UNCHANGED <<injected, route, pinned, busy>>

(* replan_bundle, for a bundle pinned to t, moves no other bundle; the     *)
(* session may then put it back.                                           *)
Single(b, t) ==
  /\ busy = None /\ Movable(b)
  /\ \E p \in Ladder(To(b, t), Books(Without(b))) :
       \/ p = None /\ books' = Books(Without(b)) /\ UNCHANGED <<route, pinned>>
       \/ /\ p # None /\ books' = Books(With(b, p))
          /\ \/ UNCHANGED <<route, pinned>>
             \/ route' = With(b, p) /\ pinned' = pinned \cup {b}
  /\ UNCHANGED <<injected, busy>>

(* replan_bundle_ripup is called for an unpinned bundle, *)
Enter(b) ==
  /\ busy = None /\ Movable(b)
  /\ busy' = b /\ books' = None
  /\ pinned' = pinned \ {b}
  /\ UNCHANGED <<injected, route>>

(* and plans it beside the others as the ladder without rip-up does, *)
Alone ==
  /\ busy # None
  /\ LET b == busy IN
     \E p \in Ladder(Free(b), Books(Without(b))) :
       \/ p = None /\ books' = Books(Without(b)) /\ UNCHANGED route
       \/ p # None /\ route' = With(b, p) /\ books' = Books(route')
  /\ busy' = None
  /\ UNCHANGED <<injected, pinned>>

(* or, if it has no overflow-free route there, moves one other bundle, not *)
(* a template copy, and both are overflow-free: the target with the victim *)
(* gone, the victim beside the target.                                     *)
Displace(v) ==
  /\ busy # None /\ v # busy /\ v \notin Locked /\ route[v] # None
  /\ LET b == busy IN
     /\ None \in Found(Free(b), "STRICT", Books(Without(b)))
     /\ \E p \in Found(Free(b), "STRICT", Books([Without(b) EXCEPT ![v] = None])) :
          /\ p # None
          /\ \E q \in Found(Sweep(v), "STRICT", Books([With(b, p) EXCEPT ![v] = None])) :
               q # None /\ route' = [With(b, p) EXCEPT ![v] = q]
  /\ books' = Books(route') /\ busy' = None
  /\ UNCHANGED <<injected, pinned>>

Next ==
  \/ Edit \/ Price \/ Redraw \/ Alone
  \/ \E b \in Bundle :
       Enter(b) \/ Displace(b) \/ \E t \in Pool[b] : Single(b, t)

Spec == Init /\ [][Next]_vars
=============================================================================
