-------------------------- MODULE CheckpointStore --------------------------
(***************************************************************************)
(* What a BDB file promises to the sessions that write it: it is changed   *)
(* by whole saves only.  A save of a stage replaces the rows of that stage *)
(* with what the session holds, drops what was derived from the rows it    *)
(* replaced, and is in the file as a whole or not at all, whatever the     *)
(* session or the process does in the meantime.                            *)
(***************************************************************************)
CONSTANTS
  Normal,    \* bundles with rows of their own from the bundler on
  Instance,  \* copies of template bundles, stored by the planner's save
  None, NoLayer

VARIABLES
  file,      \* the rows on disk
  plan,      \* the plan of the session: per bundle None, or [topo, layer]
  chosen,    \* per normal bundle the candidate a save of the pools selects
  nuts,      \* the placed route of the session
  det        \* its detailed route

vars == <<file, plan, chosen, nuts, det>>

Bundle == Normal \cup Instance
NoRows == [b \in Bundle |-> None]
Rows(f) == {b \in Bundle : f[b] # None}
Without(f, S) == [b \in Bundle |-> IF b \in S THEN None ELSE f[b]]

(* A file nothing was saved in. *)
Blank == [known |-> {}, templates |-> FALSE, pool |-> {}, plan |-> NoRows,
          bus |-> NoRows, net |-> NoRows, snap |-> None]

(* A file and what was saved, but for the row counts of its fingerprint,   *)
(* which describes the routed rows beside it or is absent.                 *)
Holds(t, described) ==
  /\ [file' EXCEPT !.snap = None] = [t EXCEPT !.snap = None]
  /\ described <=> file'.snap # None
  /\ described => file'.snap.bus = t.bus /\ file'.snap.net = t.net

(* The bundles alone: everything that hung on their old rows is gone. *)
Bundles == [Blank EXCEPT !.known = Normal, !.templates = TRUE]

(* And with their candidates: the layers of an earlier plan are gone too. *)
Topologies ==
  [Bundles EXCEPT
     !.pool = Normal,
     !.plan = [b \in Bundle |->
                 IF b \in Normal /\ chosen[b] # None
                 THEN [topo |-> chosen[b], layer |-> NoLayer] ELSE None]]

(* The plan, over a store s: of the instances exactly those that have one; *)
(* a normal bundle without one keeps the rows it had, and so does one      *)
(* whose candidates were never stored.                                     *)
PlanRow(s, b) ==
  IF b \in Instance \/ (plan[b] # None /\ (b \in s.known => b \in s.pool))
  THEN plan[b] ELSE s.plan[b]

(* The routes that go with a save of the plan: those of all instances, or  *)
(* those of the instances whose rows change.                               *)
Replaced(s) == {b \in Instance : s.plan[b] # plan[b]}

Planned(s, gone) ==
  LET new == (Rows(plan) \cap Normal) \ s.known
  IN  [s EXCEPT !.known = (s.known \cap Normal) \cup Rows(plan),
                !.pool = s.pool \cup new,
                !.plan = [b \in Bundle |-> PlanRow(s, b)],
                !.bus = Without(s.bus, gone),
                !.net = Without(s.net, gone)]

(* The placed route, and the detailed one over the placed one it refines. *)
Routed(s) == [s EXCEPT !.bus = nuts, !.net = NoRows]
Detailed(s) == [s EXCEPT !.net = det]

(* A save of a route that finds bundles missing saves the plan first. *)
WithParents(s, f) == IF Rows(f) \subseteq s.known THEN s ELSE Planned(s, Instance)

SaveBundles == Holds(Bundles, FALSE)
SaveTopologies == Holds(Topologies, FALSE)
SavePlan ==
  \/ Holds(Planned(file, Instance), FALSE)
  \/ Holds(Planned(file, Replaced(file)), Replaced(file) = {} /\ file.snap # None)
SaveRoute == Holds(Routed(WithParents(file, nuts)), TRUE)
SaveDetailed ==
  \/ Holds(Detailed(WithParents(file, det)), TRUE)
  \/ Holds(Detailed(Routed(WithParents(file, nuts))), TRUE)

Save ==
  /\ UNCHANGED <<plan, chosen, nuts, det>>
  /\ SaveBundles \/ SaveTopologies \/ SavePlan \/ SaveRoute \/ SaveDetailed

(* The session works on its own state, or is gone, or is another one. *)
Work == UNCHANGED file

Init == file = Blank /\ plan = NoRows /\ nuts = NoRows /\ det = NoRows
Next == Save \/ Work
Spec == Init /\ [][Next]_vars
=============================================================================
