------------------------------ MODULE Healers ------------------------------
(***************************************************************************)
(* The healer loops of a routed session: ripup_reroute                     *)
(* (src/src/buda_session/ripup.py, rr_state.py, rr_trials.py) and          *)
(* negotiate_congestion (negotiate.py), over a flat session that has run   *)
(* the abstract track solver (stage a).                                    *)
(*                                                                         *)
(* A healer tries a move on the live session: it pins a bundle to another  *)
(* candidate, plans it again, solves the tracks again, which may cut the   *)
(* selected topology of any bundle and adopt the split into its pool,      *)
(* measures the overlaps, and puts everything back from a snapshot.  Only  *)
(* a move that lowers the metric is made for good.                         *)
(*                                                                         *)
(* Abstractions.  The batch planner, the layer choice for one bundle and   *)
(* the track solver are functions of what the code hands to them.  The     *)
(* worker threads of the parallel sweep try moves on private copies and    *)
(* every winner is replayed here, so they are left out; so are group pins, *)
(* forced layers, bottom-up classes and the healing of dead spans.         *)
(***************************************************************************)
EXTENDS Naturals, FiniteSets, Sequences, SequencesExt

CONSTANTS
  Bundle,           \* the bundle wrappers of the session
  None,
  Pool,             \* Pool[b]: the shapes generated for b
  Locked,           \* bottom-up template copies
  Batch(_),         \* the decisions of a full planner run on a session
  Layers(_, _, _),  \* Layers(b, t, r): layers for topology t of b beside the
                    \* routes r, None if its layer mask admits none
  Overlaps(_),      \* overlaps of the solved routes
  Slack(_),         \* overlaps more when the solver skips tighten_pulls
  Parties(_),       \* the bundles on either side of an overlap
  Splits(_),        \* the bundles whose topology the solver cuts
  MaxIter,          \* max_iter of ripup_reroute
  NegIter,          \* max_iter of negotiate_congestion
  TopN              \* _RR_SCREEN_TOP_N

ASSUME BoundsAssumption == MaxIter \in Nat /\ NegIter \in Nat /\ TopN \in Nat \ {0}
ASSUME NoneAssumption ==
  None \notin Bundle /\ None \notin [metric : Nat, move : Bundle \X Nat]
ASSUME PoolAssumption ==
  \A b \in Bundle : Pool[b] \in Seq(ToSet(Pool[b])) /\ Pool[b] # <<>>

VARIABLES
  ses,         \* ses[b]: the wrapper of b and its dogleg bookkeeping
  nuts,        \* nuts_result: the routes solved, and whether untightened
  cuts,        \* the routes charged in the planner's books, None: no planner
  injected,    \* the planner holds injected demand
  bdb,         \* the session as last handed to the database
  unsaved,     \* a healer died after it had made moves
  pc,          \* "idle", or where the running healer is
  it,          \* iteration of its loop
  committed,   \* moves made (ripup), iterations accepted (negotiate)
  snap,        \* the snapshot of the iteration
  cur,         \* the metric at its start
  contenders,  \* the bundles under contention
  waiting,     \* those not scanned, or not replanned, yet
  at,          \* the contender being scanned
  moves,       \* its candidates still to try
  deferred,    \* screened-out moves, then the moves of band occupants
  trial,       \* how far the trial of a move has come
  move,        \* the move tried, <<bundle, candidate>>
  dirty,       \* the bundles it changed
  best         \* the best improving move, [metric, move]

session == <<ses, nuts, cuts, injected>>
store == <<bdb, unsaved>>
loop == <<pc, it, committed, snap, cur>>
search == <<contenders, waiting, at, moves, deferred, best>>
probe == <<trial, move, dirty>>
vars == <<session, store, loop, search, probe>>

-----------------------------------------------------------------------------
(* Routes and results.                                                     *)

Whole(shape) == [shape |-> shape, cuts |-> 0]
Split(t) == [t EXCEPT !.cuts = @ + 1]
Topo(w) == w.pool[w.sel]

(* has_committed_plan_: a selection inside the pool, and layers. *)
Routed(w) == w.sel \in DOMAIN w.pool /\ w.layers # None
Route(w) == IF Routed(w) THEN [topo |-> Topo(w), layers |-> w.layers] ELSE None
Routes(s) == [b \in Bundle |-> Route(s[b])]
Others(s, b) == [Routes(s) EXCEPT ![b] = None]

Solved(s, fast) == [routes |-> Routes(s), fast |-> fast]
Metric(n) == Overlaps(n.routes) + (IF n.fast THEN Slack(n.routes) ELSE 0)

(* _adopt_doglegs: a split overwrites the slot its bundle has, or is       *)
(* appended, and is selected with the overrides of its segments.           *)
Adopt(w) ==
  LET has == w.slot \in DOMAIN w.pool IN
  [w EXCEPT
     !.pool = IF has THEN [@ EXCEPT ![w.slot] = Split(Topo(w))]
                     ELSE Append(@, Split(Topo(w))),
     !.slot = IF has THEN @ ELSE Len(w.pool) + 1,
     !.orig = IF has THEN @ ELSE w.sel,
     !.sel  = IF has THEN w.slot ELSE Len(w.pool) + 1,
     !.over = Split(Topo(w))]
Adopted(s) ==
  [b \in Bundle |-> IF Routed(s[b]) /\ b \in Splits(Routes(s)) THEN Adopt(s[b])
                                                               ELSE s[b]]

(* _reset_doglegs. *)
Undogleg(w) ==
  IF w.slot = 0 THEN w
  ELSE LET pool == RemoveAt(w.pool, w.slot) IN
       [w EXCEPT !.pool = pool, !.slot = 0, !.orig = 0, !.over = None,
                 !.sel = IF w.orig \in DOMAIN pool THEN w.orig ELSE 1]

(* run_planner: forget the splits, plan everything, and clear the plan of  *)
(* every bundle that got no assignment.                                    *)
Replanned(s) ==
  LET r == [b \in Bundle |-> Undogleg(s[b])] IN
  [b \in Bundle |-> [r[b] EXCEPT !.sel = Batch(r)[b].sel,
                                 !.layers = Batch(r)[b].layers]]

-----------------------------------------------------------------------------
(* Snapshot and restore.                                                   *)

(* _rr_snapshot. *)
Snapshot == [ses |-> ses, nuts |-> nuts]

(* Mutant of RestoredPool: the split overwritten in place is not put back. *)
RestoredPoolKeepsSplit(now, then) ==
  IF Len(now) < Len(then.pool) THEN InsertAt(now, then.slot, then.pool[then.slot])
                               ELSE SubSeq(now, 1, Len(then.pool))

(* A pool that lost its split gets it back, one that grew is trimmed, and  *)
(* the split the snapshot holds goes over whatever stands in its slot.     *)
RestoredPool(now, then) ==
  LET sized == IF Len(now) < Len(then.pool)
               THEN InsertAt(now, then.slot, then.pool[then.slot])
               ELSE SubSeq(now, 1, Len(then.pool)) IN
  IF then.slot \in DOMAIN sized THEN [sized EXCEPT ![then.slot] = then.pool[then.slot]]
                                ELSE sized

(* _rr_restore: the wrappers in only, and the bookkeeping of all. *)
Restored(only) ==
  [b \in Bundle |->
     IF b \in only
     THEN [snap.ses[b] EXCEPT !.pool = RestoredPool(ses[b].pool, snap.ses[b])]
     ELSE [ses[b] EXCEPT !.slot = snap.ses[b].slot, !.orig = snap.ses[b].orig]]

Rollback(only) ==
  /\ ses' = Restored(only)
  /\ nuts' = snap.nuts

-----------------------------------------------------------------------------
(* One trial.                                                              *)

(* _rr_trial: pin b to candidate t; overrides sized for another topology go. *)
Pinned(s, b, t) ==
  [s EXCEPT ![b].sel = t, ![b].pin = TRUE,
            ![b].over = IF s[b].slot # 0 \/ t # s[b].sel THEN None ELSE @]

LayersOf(s, b) == Layers(b, Topo(s[b]), Others(s, b))

(* _rr_rerun: plan the target alone (replan_bundle), or if nothing can host *)
(* it run the whole planner.                                                *)
Rerun(s, b) ==
  IF LayersOf(s, b) # None THEN [s EXCEPT ![b].layers = LayersOf(s, b)]
                           ELSE Replanned(s)

(* What trying candidate t for b gives, up to the solve. *)
Planned(s, b, t) == Rerun(Pinned(s, b, t), b)

(* _rr_candidate_order: the other candidates of b, in pools no longer than  *)
(* its cap and without candidates too wide for their windows.               *)
Alternates(s, b) == DOMAIN s[b].pool \ {s[b].sel}

StartTrial(b, t) ==
  /\ trial = "none"
  /\ trial' = "pinned" /\ move' = <<b, t>>
  /\ ses' = Pinned(ses, b, t)
  /\ UNCHANGED <<nuts, cuts, injected, store, loop, dirty>>

(* Mutant of Replan: a trial that runs the planner command stores its plan. *)
ReplanPersists ==
  /\ trial = "pinned"
  /\ ses' = Rerun(ses, move[1])
  /\ cuts' = Routes(ses')
  /\ dirty' = IF LayersOf(ses, move[1]) # None THEN {move[1]} ELSE Bundle
  /\ bdb' = IF LayersOf(ses, move[1]) # None THEN bdb ELSE [bdb EXCEPT !.ses = ses']
  /\ trial' = "planned"
  /\ UNCHANGED <<nuts, injected, unsaved, loop, search, move>>

Replan ==
  /\ trial = "pinned"
  /\ ses' = Rerun(ses, move[1])
  /\ cuts' = Routes(ses')
  /\ dirty' = IF LayersOf(ses, move[1]) # None THEN {move[1]} ELSE Bundle
  /\ trial' = "planned"
  /\ UNCHANGED <<nuts, injected, store, loop, search, move>>

(* Mutant of Solve: only the target counts as changed. *)
SolveForgetsAdoptions ==
  /\ trial = "planned"
  /\ nuts' = Solved(ses, TRUE)
  /\ ses' = Adopted(ses)
  /\ trial' = "solved"
  /\ UNCHANGED <<cuts, injected, store, loop, search, move, dirty>>

Solve ==
  /\ trial = "planned"
  /\ nuts' = Solved(ses, TRUE)
  /\ ses' = Adopted(ses)
  /\ dirty' = dirty \cup {b \in Bundle : ses'[b].slot # 0}
  /\ trial' = "solved"
  /\ UNCHANGED <<cuts, injected, store, loop, search, move>>

(* Mutant of Improves: an equal metric is taken. *)
ImprovesOrTies(m) == m <= cur /\ (best = None \/ m < best.metric)

Improves(m) == m < cur /\ (best = None \/ m < best.metric)

(* Mutant of Verdict: the move stays on the list. *)
VerdictForgetsMove ==
  LET m == Metric(nuts) IN
  /\ trial = "solved"
  /\ Rollback(dirty)
  /\ best' = IF Improves(m) THEN [metric |-> m, move |-> move] ELSE best
  /\ moves' = IF m = 0 THEN {} ELSE moves
  /\ trial' = "none" /\ move' = None /\ dirty' = {}
  /\ UNCHANGED <<cuts, injected, store, loop, contenders, waiting, at, deferred>>

(* _rr_scan_moves: measure, roll back, remember the best; a perfect move   *)
(* ends the scan of its bundle.                                            *)
Verdict ==
  LET m == Metric(nuts) IN
  /\ trial = "solved"
  /\ Rollback(dirty)
  /\ best' = IF Improves(m) THEN [metric |-> m, move |-> move] ELSE best
  /\ moves' = IF m = 0 THEN {} ELSE moves \ {move[2]}
  /\ trial' = "none" /\ move' = None /\ dirty' = {}
  /\ UNCHANGED <<cuts, injected, store, loop, contenders, waiting, at, deferred>>

(* Back to the prompt. *)
Idle ==
  /\ pc' = "idle" /\ it' = 0 /\ committed' = 0 /\ snap' = None /\ cur' = 0
  /\ contenders' = {} /\ waiting' = {} /\ at' = None /\ moves' = {}
  /\ deferred' = {} /\ best' = None

(* Mutant of TrialRaises: only what counts as changed so far is put back. *)
TrialRaisesDirty ==
  /\ trial \in {"pinned", "planned"}
  /\ Rollback(dirty)
  /\ unsaved' = (unsaved \/ committed > 0)
  /\ Idle
  /\ trial' = "none" /\ move' = None /\ dirty' = {}
  /\ UNCHANGED <<cuts, injected, bdb>>

(* _rr_guarded_move: an exception in a trial rolls everything back. *)
TrialRaises ==
  /\ trial \in {"pinned", "planned"}
  /\ Rollback(Bundle)
  /\ unsaved' = (unsaved \/ committed > 0)
  /\ Idle
  /\ trial' = "none" /\ move' = None /\ dirty' = {}
  /\ UNCHANGED <<cuts, injected, bdb>>

-----------------------------------------------------------------------------
(* The commands before a healer.                                           *)

Init ==
  /\ ses = [b \in Bundle |->
              [pool |-> [i \in DOMAIN Pool[b] |-> Whole(Pool[b][i])],
               sel |-> 0, pin |-> FALSE, layers |-> None, over |-> None,
               slot |-> 0, orig |-> 0]]
  /\ nuts = None /\ cuts = None /\ injected = FALSE
  /\ bdb = [ses |-> None, nuts |-> None] /\ unsaved = FALSE
  /\ pc = "idle" /\ it = 0 /\ committed = 0 /\ snap = None /\ cur = 0
  /\ contenders = {} /\ waiting = {} /\ at = None /\ moves = {}
  /\ deferred = {} /\ best = None
  /\ trial = "none" /\ move = None /\ dirty = {}

(* run_planner keeps the result of an earlier solve. *)
RunPlanner ==
  /\ pc = "idle"
  /\ ses' = Replanned(ses)
  /\ cuts' = Routes(ses')
  /\ injected' = FALSE
  /\ bdb' = [bdb EXCEPT !.ses = ses']
  /\ UNCHANGED <<nuts, unsaved, loop, search, probe>>

RunNuts ==
  /\ pc = "idle"
  /\ \E b \in Bundle : ses[b].sel \in DOMAIN ses[b].pool
  /\ nuts' = Solved(ses, FALSE)
  /\ ses' = Adopted(ses)
  /\ bdb' = [bdb EXCEPT !.nuts = nuts']
  /\ UNCHANGED <<cuts, injected, unsaved, loop, search, probe>>

Ready == pc = "idle" /\ cuts # None /\ nuts # None /\ Metric(nuts) > 0

(* _checkpoint_routing, if the healer changed anything. *)
Checkpoint ==
  IF committed > 0
  THEN bdb' = [ses |-> ses', nuts |-> nuts'] /\ unsaved' = FALSE
  ELSE UNCHANGED store

-----------------------------------------------------------------------------
(* ripup_reroute.                                                          *)

StartRipup ==
  /\ Ready
  /\ pc' = "ripup"
  /\ UNCHANGED <<session, store, it, committed, snap, cur, search, probe>>

(* _rr_contenders: the parties of the overlaps, or any bundle that could   *)
(* move; template copies never.                                            *)
Contenders ==
  LET free == Parties(nuts.routes) \ Locked IN
  IF free # {} THEN free ELSE {b \in Bundle \ Locked : Len(ses[b].pool) > 1}

Exhausted == it = MaxIter \/ Metric(nuts) = 0 \/ Contenders = {}

Iterate ==
  /\ pc = "ripup" /\ ~Exhausted
  /\ pc' = "scan" /\ it' = it + 1
  /\ cur' = Metric(nuts) /\ snap' = Snapshot
  /\ contenders' = Contenders /\ waiting' = Contenders
  /\ UNCHANGED <<session, store, committed, at, moves, deferred, best, probe>>

(* Mutant of Scan: what the screen puts off is dropped. *)
ScanDropsRest(b) ==
  /\ pc = "scan" /\ at = None /\ best = None /\ b \in waiting
  /\ \E kept \in SUBSET Alternates(ses, b) :
       /\ Cardinality(kept) =
            (IF Cardinality(Alternates(ses, b)) > TopN THEN TopN
             ELSE Cardinality(Alternates(ses, b)))
       /\ moves' = kept
  /\ at' = b /\ waiting' = waiting \ {b}
  /\ UNCHANGED <<session, store, loop, contenders, deferred, best, probe>>

(* Take up a contender.  The screen keeps TopN of its alternates and       *)
(* defers the others.                                                      *)
Scan(b) ==
  /\ pc = "scan" /\ at = None /\ best = None /\ b \in waiting
  /\ \E kept \in SUBSET Alternates(ses, b) :
       /\ Cardinality(kept) =
            (IF Cardinality(Alternates(ses, b)) > TopN THEN TopN
             ELSE Cardinality(Alternates(ses, b)))
       /\ moves' = kept
       /\ deferred' = deferred \cup ({b} \X (Alternates(ses, b) \ kept))
  /\ at' = b /\ waiting' = waiting \ {b}
  /\ UNCHANGED <<session, store, loop, contenders, best, probe>>

(* Every kept move of the contender is tried, so that its best one wins. *)
TryKept(t) ==
  /\ pc = "scan" /\ t \in moves
  /\ StartTrial(at, t)
  /\ UNCHANGED search

NextContender ==
  /\ pc = "scan" /\ at # None /\ moves = {} /\ trial = "none" /\ best = None
  /\ at' = None
  /\ UNCHANGED <<session, store, loop, contenders, waiting, moves, deferred,
                 best, probe>>

(* The scan has stalled: the deferred moves, one by one, up to the first   *)
(* that improves.                                                          *)
StartSweep ==
  /\ pc = "scan" /\ at = None /\ waiting = {} /\ best = None
  /\ pc' = "sweep"
  /\ UNCHANGED <<session, store, it, committed, snap, cur, search, probe>>

TryDeferred(b, t) ==
  /\ pc \in {"sweep", "occupants"} /\ best = None /\ <<b, t>> \in deferred
  /\ StartTrial(b, t)
  /\ deferred' = deferred \ {<<b, t>>}
  /\ UNCHANGED <<contenders, waiting, at, moves, best>>

(* _rr_global_pass: moves of bundles that hold the contended bands without *)
(* being contended, as many as its budgets let through.                    *)
StartOccupants ==
  /\ pc = "sweep" /\ deferred = {} /\ trial = "none" /\ best = None
  /\ pc' = "occupants"
  /\ \E free \in SUBSET (Bundle \ (contenders \cup Locked)) :
       deferred' = UNION {{b} \X Alternates(ses, b) : b \in free}
  /\ UNCHANGED <<session, store, it, committed, snap, cur, contenders, waiting,
                 at, moves, best, probe>>

(* Make the best move: run it once more, in full, from the snapshot, and   *)
(* charge the books with the outcome.                                      *)
Commit ==
  /\ trial = "none" /\ best # None /\ moves = {}
  /\ LET s == Planned(ses, best.move[1], best.move[2]) IN
       /\ nuts' = Solved(s, FALSE)
       /\ ses' = Adopted(s)
       /\ cuts' = Routes(ses')
  /\ committed' = committed + 1
  /\ pc' = "ripup"
  /\ contenders' = {} /\ waiting' = {} /\ at' = None /\ deferred' = {} /\ best' = None
  /\ UNCHANGED <<injected, store, it, snap, cur, moves, probe>>

Stalled == pc = "occupants" /\ deferred = {} /\ trial = "none" /\ best = None

EndRipup ==
  /\ Stalled \/ (pc = "ripup" /\ Exhausted)
  /\ UNCHANGED <<session, probe>>
  /\ Checkpoint
  /\ Idle

-----------------------------------------------------------------------------
(* negotiate_congestion.                                                   *)

StartNegotiate ==
  /\ Ready
  /\ pc' = "negotiate"
  /\ UNCHANGED <<session, store, it, committed, snap, cur, search, probe>>

(* Charge every overlap where it is and take up its parties. *)
Inject ==
  /\ pc = "negotiate" /\ it < NegIter /\ Metric(nuts) > 0
  /\ pc' = "reprice" /\ it' = it + 1
  /\ cur' = Metric(nuts) /\ snap' = Snapshot
  /\ injected' = TRUE
  /\ waiting' = Parties(nuts.routes)
  /\ UNCHANGED <<ses, nuts, cuts, store, committed, contenders, at, moves,
                 deferred, best, probe>>

(* An assignment put on a wrapper. *)
Assigned(s, b, i, layers) ==
  [s EXCEPT ![b].sel = i, ![b].layers = layers,
            ![b].over = IF i # s[b].sel THEN None ELSE @]

(* What the planner can give b beside the other routes: any candidate a    *)
(* layer admits, its pinned one if it is pinned.                           *)
Plannable(s, b) ==
  {i \in DOMAIN s[b].pool :
     /\ s[b].pin => i = s[b].sel
     /\ Layers(b, s[b].pool[i], Others(s, b)) # None}
Given(s, b, i) == Assigned(s, b, i, Layers(b, s[b].pool[i], Others(s, b)))

(* Unpin b and plan it under the prices (replan_bundle_ripup); to make     *)
(* room the planner may move one more bundle, but no template copy.        *)
Reprice(b) ==
  LET s == [ses EXCEPT ![b].pin = FALSE] IN
  /\ pc = "reprice" /\ b \in waiting
  /\ waiting' = waiting \ {b}
  /\ IF b \in Locked THEN UNCHANGED <<ses, cuts>>
     ELSE IF s[b].sel \notin DOMAIN s[b].pool THEN ses' = s /\ UNCHANGED cuts
     ELSE IF Plannable(s, b) = {} THEN ses' = s /\ cuts' = Others(s, b)
     ELSE \E i \in Plannable(s, b) :
            LET mine == Given(s, b, i) IN
            /\ \/ ses' = mine
               \/ \E v \in Bundle \ (Locked \cup {b}) :
                    /\ Routed(mine[v])
                    /\ \E j \in Plannable(mine, v) : ses' = Given(mine, v, j)
            /\ cuts' = Routes(ses')
  /\ UNCHANGED <<nuts, injected, store, loop, contenders, at, moves, deferred,
                 best, probe>>

Resolve ==
  /\ pc = "reprice" /\ waiting = {}
  /\ pc' = "judge"
  /\ nuts' = Solved(ses, FALSE)
  /\ ses' = Adopted(ses)
  /\ UNCHANGED <<cuts, injected, store, it, committed, snap, cur, search, probe>>

Accept ==
  /\ pc = "judge" /\ Metric(nuts) < cur
  /\ pc' = "negotiate" /\ committed' = committed + 1
  /\ UNCHANGED <<session, store, it, snap, cur, search, probe>>

(* Mutant of EndNegotiate: an accepted result is not stored. *)
EndNegotiateUnsaved ==
  /\ \/ pc = "judge" /\ Metric(nuts) >= cur /\ Rollback(Bundle)
     \/ pc = "negotiate" /\ (it = NegIter \/ Metric(nuts) = 0) /\ UNCHANGED <<ses, nuts>>
  /\ injected' = FALSE
  /\ UNCHANGED <<cuts, store, probe>>
  /\ Idle

(* The first iteration that does not improve ends the command, *)
EndNegotiate ==
  /\ \/ pc = "judge" /\ Metric(nuts) >= cur /\ Rollback(Bundle)
     \/ pc = "negotiate" /\ (it = NegIter \/ Metric(nuts) = 0) /\ UNCHANGED <<ses, nuts>>
  /\ injected' = FALSE
  /\ Checkpoint
  /\ UNCHANGED <<cuts, probe>>
  /\ Idle

(* unless it runs with press. *)
Press ==
  /\ pc = "judge" /\ Metric(nuts) >= cur
  /\ Rollback(Bundle)
  /\ pc' = "negotiate"
  /\ UNCHANGED <<cuts, injected, store, it, committed, snap, cur, search, probe>>

(* Mutant of NegotiateRaises: the demand stays in the books. *)
NegotiateRaisesLeaks ==
  /\ pc = "reprice"
  /\ Rollback(Bundle)
  /\ unsaved' = (unsaved \/ committed > 0)
  /\ Idle
  /\ UNCHANGED <<cuts, injected, bdb, probe>>

(* An exception in an iteration undoes it. *)
NegotiateRaises ==
  /\ pc = "reprice"
  /\ Rollback(Bundle)
  /\ injected' = FALSE
  /\ unsaved' = (unsaved \/ committed > 0)
  /\ Idle
  /\ UNCHANGED <<cuts, bdb, probe>>

-----------------------------------------------------------------------------
Ripup ==
  \/ Iterate
  \/ \E b \in Bundle : Scan(b)
  \/ \E t \in moves : TryKept(t)
  \/ Replan \/ Solve \/ Verdict \/ TrialRaises
  \/ NextContender \/ StartSweep \/ StartOccupants
  \/ \E m \in deferred : TryDeferred(m[1], m[2])
  \/ Commit \/ EndRipup

Negotiate ==
  \/ Inject
  \/ \E b \in Bundle : Reprice(b)
  \/ Resolve \/ Accept \/ Press \/ EndNegotiate \/ NegotiateRaises

Next ==
  \/ RunPlanner \/ RunNuts \/ StartRipup \/ StartNegotiate
  \/ Ripup \/ Negotiate

Spec == Init /\ [][Next]_vars

(* A healer is one synchronous call: it runs until it returns. *)
FairSpec == Spec /\ WF_vars(Ripup) /\ WF_vars(Negotiate)

-----------------------------------------------------------------------------
(* Properties.                                                             *)

Topologies ==
  [shape : UNION {ToSet(Pool[b]) : b \in Bundle}, cuts : Nat]

(* Every variable has its type, and the indices the code follows without a *)
(* bounds check lie in the pool.                                           *)
TypeOK ==
  /\ \A b \in Bundle :
       /\ ses[b].pool \in Seq(Topologies)
       /\ ses[b].sel \in {0} \cup DOMAIN ses[b].pool
       /\ ses[b].slot \in {0} \cup DOMAIN ses[b].pool
       /\ ses[b].orig \in {0} \cup DOMAIN ses[b].pool
       /\ ses[b].pin \in BOOLEAN
       /\ ses[b].over \in Topologies \cup {None}
  /\ injected \in BOOLEAN /\ unsaved \in BOOLEAN
  /\ it \in 0..(MaxIter + NegIter) /\ committed \in 0..it /\ cur \in Nat
  /\ contenders \subseteq Bundle /\ waiting \subseteq Bundle /\ dirty \subseteq Bundle
  /\ trial \in {"none", "pinned", "planned", "solved"}
  /\ pc \in {"idle", "ripup", "scan", "sweep", "occupants",
             "negotiate", "reprice", "judge"}

(* Between trials of an iteration the session is, wrapper by wrapper and   *)
(* split by split, what the snapshot saw, although a trial may have cut    *)
(* topologies of other bundles, overwritten an adopted split, or run the   *)
(* whole planner, and only the bundles it is said to have changed are      *)
(* written back (rr_state.py: "so it can be fully restored").              *)
TrialsLeaveNoTrace ==
  pc \in {"scan", "sweep", "occupants"} /\ trial = "none" =>
    ses = snap.ses /\ nuts = snap.nuts

(* An iteration that makes no move, whether it finds none, is rejected or   *)
(* dies of an exception in the middle of a trial or of a repricing, leaves  *)
(* the session as it found it: bundles that the fallback to the whole       *)
(* planner moved, unpinned bundles and adopted splits included (ripup.py:   *)
(* "must not leave trial state live").                                      *)
IterationsEndWhole ==
  [][/\ pc \in {"scan", "sweep", "occupants", "reprice", "judge"}
     /\ pc' \in {"idle", "negotiate"} /\ committed' <= committed
     => ses' = snap.ses /\ nuts' = snap.nuts]_vars

(* Nothing speculative reaches the database: a healer writes once, when it *)
(* ends, and what it then holds (ripup.py: "A trial's state must NEVER     *)
(* reach the BDB").                                                        *)
StoredAtRest ==
  [][bdb' # bdb => /\ pc' = "idle" /\ trial' = "none"
                   /\ bdb'.ses # bdb.ses => bdb'.ses = ses'
                   /\ bdb'.nuts # bdb.nuts => bdb'.nuts = nuts']_vars

(* At the prompt the database holds the routing the session holds, unless  *)
(* a healer died after it had made moves; only a split that run_nuts       *)
(* adopted waits for the next checkpoint of the plan                       *)
(* (ripup.py: "must reflect what this session now holds").                 *)
CheckpointIsLive ==
  pc = "idle" /\ ~unsaved =>
    /\ bdb.nuts = nuts
    /\ bdb.ses # None => \A b \in Bundle : ses[b].slot = 0 => bdb.ses[b] = ses[b]

(* A move that was made lowered the metric, although it was measured on a  *)
(* solve that skips a pass and made by another run of planner and solver;  *)
(* so did an accepted negotiation.                                         *)
MovesLowerTheMetric ==
  [][committed' > committed => Metric(nuts') < cur]_vars

(* When ripup_reroute gives up for want of an improving move, no other     *)
(* candidate of any contender improves, screened out or not (ripup.py:     *)
(* "so no reachable fix is ever pruned away").                             *)
StopIsCertified ==
  [][Stalled /\ EndRipup =>
       \A b \in contenders : \A t \in Alternates(ses, b) :
         Metric(Solved(Planned(ses, b, t), TRUE)) >= cur]_vars

(* Injected demand prices a negotiation and nothing after it: neither the  *)
(* trials of a later ripup nor the commands at the prompt.                 *)
InjectedNeverLeaks ==
  injected => pc \in {"negotiate", "reprice", "judge"} /\ trial = "none"

(* A healer returns. *)
HealersReturn == (pc # "idle") ~> (pc = "idle")

(* What nuts.md promises: ripup_reroute "re-routes a contending bundle to  *)
(* an alternate topology candidate" and keeps such a move if it reduces    *)
(* the metric, so a move made leaves its bundle on that candidate.         *)
MoveIsMade ==
  [][(committed' > committed /\ best # None) =>
       LET b == best.move[1] IN
       /\ Routed(ses'[b])
       /\ Topo(ses'[b]).shape = ses[b].pool[best.move[2]].shape]_vars
=============================================================================
