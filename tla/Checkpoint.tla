----------------------------- MODULE Checkpoint -----------------------------
(***************************************************************************)
(* Saving a routing session into its BDB file and resuming from it         *)
(* (buda_session/persist.py, the batches and clears of bdb.cpp).  Every    *)
(* stage command ends in saves; a save is a stack of nested batches that   *)
(* becomes one transaction; the process may die, a statement may be        *)
(* refused, and a COMMIT may fail between any two steps of it.             *)
(*                                                                         *)
(* The rows of a bundle are one value, [topo, layer]; a placed or detailed *)
(* route stores per bundle the plan it was solved from.  Row details, pins,*)
(* hand-edited candidates and rule stamps are left out.                    *)
(***************************************************************************)
EXTENDS Integers, FiniteSets, Sequences

CONSTANTS
  Normal,      \* bundles planned as they are: flat, or crossing blocks
  Instance,    \* per-instance copies of template bundles ({}: a flat design)
  Topo, Layer, \* candidates and layers
  Outcome,     \* the plans the planner may decide
  None, NoLayer,
  MaxCommands, MaxFaults, MaxRestarts   \* bounds of the exploration

Bundle == Normal \cup Instance
Row == [topo : Topo, layer : Layer \cup {NoLayer}]
Plans == [Bundle -> Row \cup {None}]
NoRows == [b \in Bundle |-> None]
Rows(f) == {b \in Bundle : f[b] # None}
Without(f, S) == [b \in Bundle |-> IF b \in S THEN None ELSE f[b]]

ASSUME CheckpointAssumption ==
  /\ Normal # {} /\ Normal \cap Instance = {}
  /\ IsFiniteSet(Normal) /\ IsFiniteSet(Instance)
  /\ None \notin Topo \cup Row /\ NoLayer \notin Layer
  /\ None \notin [bus : Plans, net : Plans, n : Nat]
  /\ Outcome \subseteq [Bundle -> [topo : Topo, layer : Layer] \cup {None}]

VARIABLES
  stage,     \* of the session: "empty", "bundled", or "pool" once it has candidates
  expanded,  \* the bundle list is the per-instance one of a hierarchical plan
  original,  \* what the wrappers kept from before the expansion select, or None
  planner,   \* a planner object exists
  plan, nuts, det,
  memo,      \* _persisted_plan_fp: the instance rows of the last plan save, or None
  open,      \* a BDB is open
  disk,      \* its committed rows
  work,      \* its rows as this connection sees them
  depth,     \* _batch_depth
  todo,      \* what is left of the saves of the current command
  spent      \* commands, faults and restarts so far

session == <<stage, expanded, original, planner, plan, nuts, det>>
store == <<disk, work, depth>>
vars == <<session, memo, open, store, todo, spent>>

Blank == [known |-> {}, templates |-> FALSE, pool |-> {}, plan |-> NoRows,
          bus |-> NoRows, net |-> NoRows, snap |-> None]

-----------------------------------------------------------------------------
(* The saves, as the steps they are made of; nothing without an open BDB.  *)

Batch(steps) == <<"begin">> \o steps \o <<"commit">>

PersistBundles == Batch(<<"clear bundles", "bundles">>)
PersistTopologies == Batch(PersistBundles \o <<"topologies">>)
PersistPlannerOutput(selective) ==
  Batch(<<IF selective THEN "plan selectively" ELSE "plan">>)
PersistNuts(n) == IF n = NoRows THEN <<>> ELSE Batch(<<"parents", "clear bus", "bus">>)
PersistDetailedNuts(d) == IF d = NoRows THEN <<>> ELSE Batch(<<"placed", "net">>)
CheckpointRouting(n, d) ==
  PersistPlannerOutput(TRUE) \o PersistNuts(n) \o PersistDetailedNuts(d)

Next1(step) == todo # <<>> /\ Head(todo) = step
Done == todo' = Tail(todo)

begin_batch ==
  /\ Next1("begin")
  /\ depth' = depth + 1
  /\ work' = IF depth = 0 THEN disk ELSE work
  /\ Done
  /\ UNCHANGED <<session, memo, open, disk, spent>>

commit_batch ==
  /\ Next1("commit")
  /\ depth' = depth - 1
  /\ disk' = IF depth = 1 THEN work ELSE disk
  /\ Done
  /\ UNCHANGED <<session, memo, open, work, spent>>

(* A statement inside a batch writes the rows of the open transaction. *)
Write(s) == work' = s /\ Done /\ UNCHANGED <<session, open, disk, depth, spent>>

(* The list a save of bundles or candidates describes: the one from before *)
(* the expansion, which a session resumed after it does not have.          *)
Resumed == expanded /\ original = None
TopoOf(row) == IF row = None THEN None ELSE row.topo
Chosen ==
  IF expanded /\ original # None THEN original
  ELSE [n \in Normal |-> TopoOf(plan[n])]

clear_bundles ==
  /\ Next1("clear bundles")
  /\ memo' = None
  /\ Write(Blank)

persist_bundles ==
  /\ Next1("bundles") /\ ~Resumed
  /\ UNCHANGED memo
  /\ Write([work EXCEPT !.known = Normal, !.templates = TRUE])

Selected(n) == IF Chosen[n] = None THEN None
               ELSE [topo |-> Chosen[n], layer |-> NoLayer]

persist_topologies ==
  /\ Next1("topologies")
  /\ UNCHANGED memo
  /\ Write([work EXCEPT
              !.pool = Normal,
              !.plan = [b \in Bundle |-> IF b \in Normal THEN Selected(b) ELSE None]])

-----------------------------------------------------------------------------
(* The planner's save.  The memo holds what the last one stored for each   *)
(* instance; when a selective save finds the same instances, it skips the  *)
(* equal ones, updates those whose layers alone moved and rewrites the     *)
(* others.  Any other save drops and rewrites all instances.               *)

Planned == Rows(plan) \cap Instance

LayersOnly(i) == memo[i].topo = plan[i].topo /\ memo[i].layer # plan[i].layer

InstanceRow(i, selective) ==
  CASE selective /\ memo[i] = plan[i] -> work.plan[i]
    [] selective /\ LayersOnly(i) ->
         IF work.plan[i] = None THEN None
         ELSE [work.plan[i] EXCEPT !.layer = plan[i].layer]
    [] OTHER -> plan[i]

(* A bundle with no plan is passed over; a known one is updated where its  *)
(* candidates have rows; an unknown one is stored whole.                   *)
NormalRow(n) ==
  IF plan[n] # None /\ (n \in work.known => n \in work.pool)
  THEN plan[n] ELSE work.plan[n]

Selective == Next1("plan selectively") /\ memo # None /\ DOMAIN memo = Planned
Changed == {i \in Planned : memo[i] # plan[i]}
Added == IF Selective THEN {i \in Changed : ~LayersOnly(i)} ELSE Planned

(* What clear_expanded_bundles, or per instance clear_bundle_routing and   *)
(* clear_expanded_bundle, take away.                                       *)
Cleared == IF Selective THEN Changed ELSE Instance

(* Mutant of ClearsSnapshot: a layer update keeps the fingerprint. *)
ClearsSnapshotOnRewrite == ~Selective \/ Added # {}

ClearsSnapshot == ~Selective \/ Changed # {}

PlannerRows ==
  [work EXCEPT
     !.known = (@ \cap Normal) \cup Rows(plan),
     !.pool = @ \cup ((Rows(plan) \cap Normal) \ work.known),
     !.plan = [b \in Bundle |->
                 IF b \in Normal THEN NormalRow(b)
                 ELSE IF b \in Planned THEN InstanceRow(b, Selective) ELSE None],
     !.bus = Without(@, Cleared),
     !.net = Without(@, Cleared),
     !.snap = IF ClearsSnapshot THEN None ELSE @]

persist_planner_output ==
  /\ Next1("plan") \/ Next1("plan selectively")
  /\ Added = {} \/ work.templates
  /\ memo' = [i \in Planned |-> plan[i]]
  /\ Write(PlannerRows)

-----------------------------------------------------------------------------
(* The routes.                                                             *)

(* Rows of a route need the rows of their bundles: a save that finds some  *)
(* missing saves the plan first.                                           *)
Parents(f) == IF Rows(f) \subseteq work.known THEN <<>> ELSE PersistPlannerOutput(FALSE)

ensure_parents ==
  /\ Next1("parents")
  /\ todo' = Parents(nuts) \o Tail(todo)
  /\ UNCHANGED <<session, memo, open, store, spent>>

(* Mutant of ensure_placed: only the bundles' rows are asked for. *)
EnsureParentsOnly ==
  /\ Next1("placed")
  /\ todo' = Parents(det) \o Tail(todo)
  /\ UNCHANGED <<session, memo, open, store, spent>>

(* Detailed rows describe placed ones: those are saved first when missing. *)
ensure_placed ==
  /\ Next1("placed")
  /\ todo' = (IF Rows(det) \subseteq Rows(work.bus) THEN Parents(det)
              ELSE PersistNuts(nuts)) \o Tail(todo)
  /\ UNCHANGED <<session, memo, open, store, spent>>

(* The fingerprint is hashed over the rows; the number of placed rows is   *)
(* counted by the save that wrote them and kept by the one that did not.   *)
Snapshot(bus, net, n) == [bus |-> bus, net |-> net, n |-> n]
KeptCount == IF work.snap = None THEN 0 ELSE work.snap.n

clear_bus_routing ==
  /\ Next1("clear bus")
  /\ UNCHANGED memo
  /\ Write([work EXCEPT !.bus = NoRows, !.net = NoRows, !.snap = None])

persist_nuts ==
  /\ Next1("bus")
  /\ Rows(nuts) \subseteq work.known
  /\ UNCHANGED memo
  /\ Write([work EXCEPT !.bus = nuts,
              !.snap = Snapshot(nuts, NoRows, Cardinality(Rows(nuts)))])

persist_detailed_nuts ==
  /\ Next1("net")
  /\ Rows(det) \subseteq work.known
  /\ UNCHANGED memo
  /\ Write([work EXCEPT !.net = det, !.snap = Snapshot(work.bus, det, KeptCount)])

Step ==
  \/ begin_batch \/ commit_batch
  \/ clear_bundles \/ persist_bundles \/ persist_topologies
  \/ persist_planner_output \/ ensure_parents \/ ensure_placed
  \/ clear_bus_routing \/ persist_nuts \/ persist_detailed_nuts

-----------------------------------------------------------------------------
(* What goes wrong.                                                        *)

(* The rows a step needs are not there, or the step needs rows of a bundle *)
(* list it does not have: the database refuses it.                         *)
Refused ==
  \/ Next1("bundles") /\ Resumed
  \/ (Next1("plan") \/ Next1("plan selectively")) /\ Added # {} /\ ~work.templates
  \/ Next1("bus") /\ ~(Rows(nuts) \subseteq work.known)
  \/ Next1("net") /\ ~(Rows(det) \subseteq work.known)

AFault == spent.faults < MaxFaults /\ spent' = [spent EXCEPT !.faults = @ + 1]

(* Mutant of rollback_batch: the nested batch alone is left. *)
RollbackOneLevel ==
  /\ depth > 0 /\ todo # <<>>
  /\ (Refused /\ UNCHANGED spent) \/ AFault
  /\ depth' = depth - 1 /\ work' = disk /\ memo' = None /\ todo' = <<>>
  /\ UNCHANGED <<session, open, disk>>

(* Mutant of rollback_batch: the memo outlives the rows it described. *)
RollbackKeepsMemo ==
  /\ depth > 0 /\ todo # <<>>
  /\ (Refused /\ UNCHANGED spent) \/ AFault
  /\ depth' = 0 /\ work' = disk /\ todo' = <<>>
  /\ UNCHANGED <<session, memo, open, disk>>

(* Mutant of rollback_batch: what was written so far is kept. *)
CommitOnFailure ==
  /\ depth > 0 /\ todo # <<>>
  /\ (Refused /\ UNCHANGED spent) \/ AFault
  /\ depth' = 0 /\ disk' = work /\ memo' = None /\ todo' = <<>>
  /\ UNCHANGED <<session, open, work>>

(* An exception in a batch, and a COMMIT that fails, roll the whole stack  *)
(* back, forget the memo and end the command; what the command did to the  *)
(* session stays.                                                          *)
rollback_batch ==
  /\ depth > 0 /\ todo # <<>>
  /\ (Refused /\ UNCHANGED spent) \/ AFault
  /\ depth' = 0 /\ work' = disk /\ memo' = None /\ todo' = <<>>
  /\ UNCHANGED <<session, open, disk>>

(* A BEGIN that fails ends the command before anything is written. *)
BeginFails ==
  /\ Next1("begin") /\ depth = 0
  /\ AFault
  /\ todo' = <<>>
  /\ UNCHANGED <<session, memo, open, store>>

(* The process ends, killed or not; the file keeps what was committed. *)
Crash ==
  /\ spent.restarts < MaxRestarts
  /\ spent' = [spent EXCEPT !.restarts = @ + 1]
  /\ stage' = "empty" /\ expanded' = FALSE /\ original' = None /\ planner' = FALSE
  /\ plan' = NoRows /\ nuts' = NoRows /\ det' = NoRows
  /\ memo' = None /\ open' = FALSE
  /\ work' = disk /\ depth' = 0 /\ todo' = <<>>
  /\ UNCHANGED disk

-----------------------------------------------------------------------------
(* The commands.  Each changes the session and leaves its saves to do.     *)

Command ==
  /\ todo = <<>> /\ spent.commands < MaxCommands
  /\ spent' = [spent EXCEPT !.commands = @ + 1]
  /\ UNCHANGED store

Saves(steps) == todo' = IF open THEN steps ELSE <<>>

open_bdb ==
  /\ Command
  /\ open' = TRUE /\ memo' = None
  /\ UNCHANGED <<session, todo>>

run_bundler ==
  /\ Command
  /\ stage' = "bundled" /\ expanded' = FALSE /\ original' = None
  /\ plan' = NoRows
  /\ Saves(PersistBundles)
  /\ UNCHANGED <<planner, nuts, det, memo, open>>

generate_topologies ==
  /\ Command
  /\ stage # "empty" /\ ~expanded
  /\ stage' = "pool" /\ plan' = NoRows
  /\ Saves(PersistTopologies)
  /\ UNCHANGED <<expanded, original, planner, nuts, det, memo, open>>

(* A plan is decided anew for every bundle; a hierarchical one expands the *)
(* templates, from the list it kept when there is an expansion already.    *)
run_planner ==
  /\ Command
  /\ stage = "pool" /\ ~Resumed
  /\ plan' \in Outcome
  /\ planner' = TRUE
  /\ expanded' = (Instance # {})
  /\ original' = IF expanded \/ Instance = {} THEN original ELSE Chosen
  /\ Saves(PersistPlannerOutput(FALSE))
  /\ UNCHANGED <<stage, nuts, det, memo, open>>

SameTopos(p, q) == \A b \in Bundle : TopoOf(p[b]) = TopoOf(q[b])

(* The candidate is set on the wrapper and on the one it was expanded from;*)
(* a live planner then assigns layers again, where it can.                 *)
select_topology(n, t) ==
  /\ Command
  /\ stage = "pool"
  /\ LET set == [plan EXCEPT ![n] = [topo |-> t,
                   layer |-> IF plan[n] = None THEN NoLayer ELSE plan[n].layer]]
     IN  \/ plan' = set
         \/ planner /\ plan' \in {o \in Outcome : Rows(o) = Rows(set) /\ o[n].topo = t}
  /\ original' = IF original = None THEN None ELSE [original EXCEPT ![n] = t]
  /\ Saves(PersistTopologies)
  /\ UNCHANGED <<stage, expanded, planner, nuts, det, memo, open>>

(* The route is solved from the plan; an escalation may move layers first. *)
run_nuts ==
  /\ Command
  /\ Rows(plan) # {}
  /\ plan' \in {plan} \cup {o \in Outcome : SameTopos(o, plan)}
  /\ nuts' = plan' /\ det' = NoRows
  /\ Saves((IF plan' = plan THEN <<>> ELSE PersistPlannerOutput(TRUE)) \o PersistNuts(nuts'))
  /\ UNCHANGED <<stage, expanded, original, planner, memo, open>>

run_detailed_nuts ==
  /\ Command
  /\ nuts # NoRows
  /\ det' = nuts
  /\ Saves(PersistDetailedNuts(det'))
  /\ UNCHANGED <<stage, expanded, original, planner, plan, nuts, memo, open>>

(* A healer that moved bundles commits the plan and the routes it reached. *)
heal ==
  /\ Command
  /\ nuts # NoRows
  /\ plan' \in {o \in Outcome : Rows(o) = Rows(plan)}
  /\ nuts' = plan'
  /\ det' = IF det = NoRows THEN NoRows ELSE plan'
  /\ Saves(CheckpointRouting(nuts', det'))
  /\ UNCHANGED <<stage, expanded, original, planner, memo, open>>

(* A fresh session takes bundles, plan and placed route from the file, in  *)
(* the view from before the expansion or in the expanded one.              *)
Seen(f, view) == [b \in Bundle |-> IF b \in Normal \/ view THEN f[b] ELSE None]

load_pipeline(view) ==
  /\ Command
  /\ open /\ stage = "empty"
  /\ disk.pool = Normal
  /\ view => Rows(disk.plan) \cap Instance # {}
  /\ stage' = "pool" /\ expanded' = view
  /\ plan' = Seen(disk.plan, view)
  /\ nuts' = Seen(disk.bus, view)
  /\ memo' = None
  /\ UNCHANGED <<original, planner, det, open, todo>>

-----------------------------------------------------------------------------
Init ==
  /\ stage = "empty" /\ expanded = FALSE /\ original = None /\ planner = FALSE
  /\ plan = NoRows /\ nuts = NoRows /\ det = NoRows
  /\ memo = None /\ open = FALSE
  /\ disk = Blank /\ work = Blank /\ depth = 0 /\ todo = <<>>
  /\ spent = [commands |-> 0, faults |-> 0, restarts |-> 0]

Next ==
  \/ Step \/ rollback_batch \/ BeginFails \/ Crash
  \/ open_bdb \/ run_bundler \/ generate_topologies \/ run_planner
  \/ \E n \in Normal, t \in Topo : select_topology(n, t)
  \/ run_nuts \/ run_detailed_nuts \/ heal
  \/ \E view \in BOOLEAN : load_pipeline(view)

Spec == Init /\ [][Next]_vars

-----------------------------------------------------------------------------
(* Types; and between commands no transaction is left open.  *)
Stored ==
  [known : SUBSET Bundle, templates : BOOLEAN, pool : SUBSET Normal,
   plan : Plans, bus : Plans, net : Plans,
   snap : {None} \cup [bus : Plans, net : Plans, n : 0..Cardinality(Bundle)]]

(* Every variable keeps its type, and when a command has ended, in whatever *)
(* way, no batch is left half open and the connection sees the file.        *)
TypeOK ==
  /\ stage \in {"empty", "bundled", "pool"}
  /\ expanded \in BOOLEAN /\ planner \in BOOLEAN /\ open \in BOOLEAN
  /\ original \in {None} \cup [Normal -> Topo \cup {None}]
  /\ plan \in Plans /\ nuts \in Plans /\ det \in Plans
  /\ memo = None \/ (DOMAIN memo \subseteq Instance /\ \A i \in DOMAIN memo : memo[i] \in Row)
  /\ disk \in Stored /\ work \in Stored
  /\ depth \in Nat
  /\ depth = 0 => work = disk
  /\ todo = <<>> => depth = 0

(* The fingerprint in the file is that of the routed rows in the file: a   *)
(* save that changes or drops routed rows writes it again or drops it.     *)
SnapshotDescribesTheRows ==
  disk.snap # None => disk.snap.bus = disk.bus /\ disk.snap.net = disk.net

(* What the session remembers to have stored of the instances is what this *)
(* connection would read back: a save that skips the unchanged ones leaves *)
(* the same rows as one that writes them all.                              *)
MemoIsTrue ==
  memo # None =>
    \A i \in Instance :
       work.plan[i] = IF i \in DOMAIN memo THEN memo[i] ELSE None

(* A detailed wire in the file lies over a placed bundle in the file: a    *)
(* session that opens the BDB late, or loses routes to a new plan, saves   *)
(* the placed route before the detailed one.                               *)
DetailedOverPlaced == Rows(disk.net) \subseteq Rows(disk.bus)

(* Whatever fails or dies, the file changes by whole saves only. *)
Store == INSTANCE CheckpointStore WITH file <- disk, chosen <- Chosen
WritesWholeSaves == Store!Spec
=============================================================================
