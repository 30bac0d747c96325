# BUDA, specified in TLA+

This directory holds the TLA+ specifications of BUDA, the bus and interconnect
planner of this repository (C++20 engines under `src/src/*.cpp`, a Python session
and its commands under `src/src/buda_session/` and `src/src/buda_cmds/`, a FastAPI
backend under `src/src/web/`), the TLC configurations that model-check them on
small instances, and proofs of their most important properties that TLAPS checks
for every value of the constants. `PROJECT.json` lists the components, the runs,
the mutants, the source lines of every definition, the hazards and the findings.

Paths below are relative to `src/src/` unless they start with `docs/` (`src/docs/`).

Contents: [inventory](#1-inventory), [plan](#2-plan), [modules and
code](#3-modules-and-code), [runs](#4-runs), [findings](#5-findings),
[fairness](#6-fairness), [proofs](#7-proofs), [what is only
model-checked](#8-what-is-only-model-checked), [what is not
modelled](#9-what-is-not-modelled).

## 1. Inventory

A BUDA script drives one *session* (`buda_session/`): bundles of nets get
candidate topologies, a planner selects one candidate per bundle and a layer per
segment, a track solver (NUTS) places the segments, may cut topologies to break
cycles, and a detailed solver places bits and vias. *Healers* then try moves on
the live session and keep those that lower a measured metric. A database keeps
checkpoints; a web server runs commands of several sessions in one process.

| component | code | state | operations | interacts through |
|---|---|---|---|---|
| Congestion planner | `congestion_planner.cpp` | demand per band (`cuts_`), share books, parked reservations, committed plans, injected demand | `build_congestion_map`, `optimize_topologies`, `recharge_committed`, `replan_bundle`, `replan_bundle_ripup`, `inject_band_demand` | called by `run_planner` and the healers; the viewer reads its cuts |
| Band spreading | `congestion_planner.cpp` `for_each_band_w` | charge log | charge and exact uncharge of a segment over bands | inside the planner |
| Candidate pool | `buda_session/edit.py`, `buda_cmds/*` | pool vector, selection, pins, dogleg slot and original, per-segment overrides | generate, accrete, select, group, unpin, edit commit, plan, solve | raw indices shared by planner, NUTS, healers and database |
| Healers | `buda_session/ripup.py`, `rr_*.py`, `negotiate.py`, `refine.py` | snapshot, contenders, moves, deferred moves, dirty set | trial, restore, sweep, commit, inject, checkpoint | drive planner and NUTS on the live session |
| Refinement and parallel sweep | `buda_session/refine.py`, `rr_sweeps.py`, `trial_sweep.cpp` | chunks, private copies per worker, a shared job index | screen, score and replay moves | drives trials; results replayed by the healer |
| NUTS | `nuts.cpp`, `nuts_geom.h`, `nuts_dogleg.cpp` | track and span of every segment, snapshots, constraint graph | solve layers, settle spans, repair, corner rounds, tighten, break cycles | result adopted into the pool, measured by the healers |
| Detailed NUTS | `detailed_nuts.cpp` | bit tracks, vias | place, cull, abort | after NUTS |
| Topology generation | `topology*.cpp`, `topo_edit.cpp`, ... | none | candidates from geometry | fills the pool |
| Bundler | `bundler.cpp`, `bundle_refiner.cpp` | groups | group nets, refine | before generation |
| Hierarchical flow | `buda_session/hier.py`, `nutsflow.py` | templates, expanded wrappers, locked copies | expand, solve once, copy | planner, NUTS, healers |
| Database | `bdb.cpp`, `buda_session/persist.py` | SQLite rows per stage, batch depth, memo of the last planner save | nested batches, selective save, checkpoint, `load_pipeline` | every stage command |
| Script interpreter | `buda_cli.py`, `buda_script.py`, `buda_cmds/control_cmds.py` | loop and condition stack | run commands | everything |
| Web backend | `web/server.py`, `web/runner.py` | session locks, engine lock, clients | routes, stages, heartbeats | runs commands in a thread |
| Routing grid and layers | `routing_grid.cpp`, `layering.cpp` | patterns, overrides | queries | capacities |
| Verification | `verify.cpp` | none | audit | read-only |
| Rules, floorplanning, interchange, reports, bindings, SQLite | see `PROJECT.json` | | | |

What is hard, and what would make each part correct:

* **Congestion planner.** One set of books is charged and uncharged in some dozen
  places: reservations are parked and taken back, a victim is ripped up and
  restored or moved, refinement lifts a route and puts it back. Correct means:
  the books are exact at every step, the assignments returned are those in the
  books, what was accepted as overflow-free stays so together, and the ladder and
  the refinement terminate.
* **Candidate pool.** Four kinds of raw index point into a vector that commands
  sort, extend, replace and delete from. Correct means: no command makes an index
  name another candidate, deletes a genuine one or leaves a split behind.
* **Healers.** Hundreds of trials run on the live session, each touching other
  bundles through adopted splits or a fallback to the whole planner, and a scoped
  restore. Correct means: a rejected trial leaves no trace and reaches no
  database, a move made is the move measured, the stop verdict rests on all moves,
  injected prices are gone afterwards.
* **Web backend.** Coroutines, executor threads, two kinds of lock and a
  process-wide stdout capture. Correct means: captures are exclusive, a session is
  not read while a stage mutates it, frames are in order, nobody waits forever.
* **Database.** A save is a stack of nested batches over rows that depend on each
  other, and skips what it remembers to have written. Correct means: the file
  changes by whole saves whatever fails or dies, what is remembered is true, the
  fingerprint is that of the rows, and no trial is ever stored.
* **Parallel sweep.** Threads take jobs from one counter, may raise and may not be
  startable; a commit makes the rest of a chunk stale. Correct means: the moves of
  the sequential loop, in its order, on any interleaving.
* **NUTS.** Every move of a track moves the ends of perpendicular wires, which may
  then collide; labels of the ends go stale; passes are undone by snapshots.
  Correct means: every wire reaches its junctions at every moment, no pass leaves
  more overlaps than it found, shortcuts of the settling are exact, and blocks
  that are crossed on purpose stay covered.
* **Hierarchical flow.** All copies of a template are the same route.
* **Script interpreter.** Loops end; an error leaves the stack usable.

Everything in this code that is hard to test is listed, at its line, under
"hazards" in `PROJECT.json`, with the property that covers it or the reason why
none does yet.

## 2. Plan

Order: the part whose failure corrupts most comes first.

| step | module | what | abstract specification or composition | state |
|---|---|---|---|---|
| 1 | `Tracks`, `CongestionPlanner` | the batch planner and its books | the books as the sum of what stands | done, proved |
| 2 | `WebServer` | handlers, locks, executor, clients | | done, safety proved |
| 3 | `CandidatePool` | indices into one bundle's pool | | done, proved |
| 4 | `Healers` | ripup_reroute and negotiate_congestion | restore as the identity; composes pool, planner and NUTS results of several bundles | done for stage a, safety proved |
| 5 | `PlanSearch`, `IncrementalPlanner` | recharge, replan, replan with rip-up, injected demand | implements `ReplanContract` (books drawn up from scratch at every call) | done, proved with its refinement |
| 6 | `TrialSweep`, `RefineSweep` | the pool of threads under refine_selection | implements `SequentialRefine` (the sequential loop) | done, proved with its refinement |
| 7 | `Checkpoint` | saves, batches, faults, crashes, `load_pipeline` | implements `CheckpointStore` (whole saves) | done, proved with its refinement |
| 8 | `Nuts` | the passes of the track solver | the global settling as the meaning of the scoped one | done, proved |
| 9 | `HealersStageB` | lexicographic metric, class and release moves, the scan of ripup_reroute on the pool of 6 | extends 4 | planned |
| 10 | `EditSession` | the steps of an edit session and its seats | implements the atomic commit of 3 | planned |
| 11 | `Dogleg` | the constraint graph and cycle breaking between two solves of 8 | operators, against a reference definition of a cycle | planned |
| 12 | `BandSpread` | `for_each_band_w` and the charge log | operators; uncharge is the inverse of charge | planned |
| 13 | `Bundler`, `Script`, `HierFlow` | grouping; control flow; template classes | | planned |

The modules compose in one direction: `PlanSearch` (how a route is found) lies
under `CongestionPlanner` and under `IncrementalPlanner` and its contract;
`RefineSweep` INSTANCEs the thread pool `TrialSweep`; `Healers` takes planner and
solver as operators, because it must be right for any.

Every invariant, action property and refinement of the passing runs is proved
(section 7). What is still worth proving, in this order: that the incremental
calls keep `HardDemandFits` of the batch run wherever their contract does not
allow overflow; a measure that every step of a healer and of `optimize_topologies`
lowers, the part of `HealersReturn` and `RunEnds` that needs no temporal logic;
that no handler of `WebServer` waits for a lock whose holder waits for it.

## 3. Modules and code

Every constant with an assumption has it named next to its declaration. No module
declares a RECURSIVE operator. `map` in `PROJECT.json` gives the lines of every
definition; the tables here give the idea.

### CongestionPlanner (over PlanSearch and Tracks)

One run of `optimize_topologies` on fresh books (`build_congestion_map`), and the
runs after it. A *slot* is a band of a cut or a share budget; a *plan* is a
candidate with a layer per segment. `Upto[p][k][s]` is what the first k segments
of p charge on slot s; `Tracks!Total` sums over a set of bundles.

| model | code |
|---|---|
| `usage` | `cuts_[..].usage`, `share_used_` |
| `parked` | the reservations charged before the loop (cpp:2653-2674) |
| `todo`, `committed` | the importance order, the order of commits |
| `plan`, `asn` | the committed plans, the assignments to return |
| `soft` | bundles committed by stages 3 to 5 |
| `target`, `contended`, `victim`, `mine`, `tried` | stage 2: the rip-up of one victim |
| `pass`, `changed` | refinement |
| `PlanStrict`, `EnterLadder`, `RipUp`, `PlanMine`, `AcceptRipUp`, `Restore`, `LeaveLadder`, `PlanRelaxed` | stages 1 to 5 of a turn |
| `StartPass`, `KeepRoute`, `AdoptRoute`, `EndPass`, `Finish` | the refinement passes and the return |

Abstractions: demand counts tracks; where the code takes the cheapest admissible
route the model takes any admissible one, so what holds here holds for every cost
function. A route is admissible by the code's gates in their order: layer masks,
overflow of a band as *this* scoring sees it (slide windows narrow it), the share
budget, the slide window. In refinement the code tests only `topology_pinned`
(cpp:2963), so a bundle with a group pin wholly outside its pool is revisited
there; the model never moves a bundle with a non-empty `Pin`.

### WebServer

The handlers of `web/server.py` and the command shim of `web/runner.py`. `loop` is
the handler that keeps the event loop from one await to the next; `owner`, `line`
are the asyncio locks (first come first served); `engine` is `_ENGINE_LOCK`, a
thread lock; `pc` is the place of every request; `clients`, `peer`, `inbox`,
`mail` are the WebSocket clients and broadcasts in progress; `beat`, `beatMail` the
heartbeat task. Reading a session and running a command have a beginning and an
end each, so that what another thread does in between can be told. A send either
completes or fails; an exception inside `serialize_state` is left out; repeated
heartbeats of a stage count as one frame.

### CandidatePool

One bundle of a flat session: `pool` is `input.candidates`, `sel` the selection,
`pinned` and `group` the two pin modes, `slot` and `orig` the dogleg bookkeeping,
`over` the topology the per-segment override arrays were sized for (the code does
not record which, it only compares lengths). Sorting a pool and dropping some of
its candidates are one operator, `Arranged`: the place of a candidate is the number
of those that stay and come before it. An index is 1-based and 0 stands for
-1 or for an absent entry. The actions are the commands: `Generate` and its
variants (regeneration), `GenerateMore` (accretion and re-sort), `SelectTopology`,
`SelectGroup`, `Unpin`, `EditCommit`, `RunPlanner` (which first resets the dogleg)
and `RunNuts` (which may split the selected topology and adopt the split). No
database, no selections sidecar, no `pin_plan`; an edit session is one step.

### Healers

The healers of a flat session at stage a (NUTS overlaps, before detailed NUTS).

| model | code |
|---|---|
| `ses[b]` | wrapper of b: candidates, selection, pin, `seg_layers`, overrides, and its entries in `_dogleg_slot`, `_dogleg_originals` |
| `nuts` | `nuts_result`; `fast` says it was solved without `tighten_pulls` |
| `cuts` | the routes charged in the planner's books |
| `injected` | `inject_band_demand` not yet cleared |
| `bdb`, `unsaved` | what was last handed to the database; a healer died after a move |
| `snap` | `_rr_snapshot` of the iteration |
| `trial`, `move`, `dirty` | `_rr_trial`/`_rr_rerun` in progress, `_rr_dirty` |
| `moves`, `deferred`, `best` | kept and screened-out moves, the best move so far |
| `StartTrial`, `Replan`, `Solve`, `Verdict` | pin; `replan_bundle` or the fallback `run_planner`; `_run_nuts_internal` and `_adopt_doglegs`; measure and scoped `_rr_restore` |
| `TrialRaises`, `NegotiateRaises` | `_rr_guarded_move`, negotiate's except |
| `Iterate`, `Scan`, `NextContender`, `StartSweep`, `StartOccupants`, `Commit`, `EndRipup` | the loop of `_ripup_reroute` |
| `Inject`, `Reprice`, `Resolve`, `Accept`, `Press`, `EndNegotiate` | the loop of `_negotiate_congestion` |

The batch planner (`Batch`), the layers a candidate gets beside given routes
(`Layers`, None if its mask admits none), the overlaps of given routes
(`Overlaps`, `Slack` more without tightening), who takes part in them (`Parties`)
and whose topology the solver cuts (`Splits`) are constant operators: the engines
are functions of what they are handed. A trial is three steps, so that exceptions
can strike between them. The negotiating planner takes any candidate a layer
admits, with or without one victim. The order of contenders and the ranking of
candidates are free, which covers every ranking. Left out: stage b, group pins,
forced layers, template classes, release moves, dead-span heals, edge flips, warm
trials, seat faults in the metric, and the parallel sweep (whose winners are
replayed sequentially before they count; `RefineSweep` has it under
`refine_selection`). Pools are no longer
than the trial cap and hold no candidate that the static width gate drops. The
split is always the last slot here; `generate_more_topologies`, which can move it
(and then trips the assertion of `rr_state.py:138`), is in `CandidatePool`. An
exception in the re-run of a commit is left out. `bdb` is the session as last
handed to persistence; which rows that writes is the subject of `Checkpoint`.

### IncrementalPlanner (over PlanSearch), ReplanContract

The calls the healers make on a planned session. `PlanSearch` is `plan_bundle`: it
says which routes a search of a given mode may return against given books, and
that it may return none although one fits, because it chooses layers segment by
segment and never goes back.

| model | code |
|---|---|
| `usage`, `charged`, `injected` | `cuts_` and `share_used_`, `charge_log_`, `injected_` |
| `route`, `pinned` | the wrappers' committed plans and pins |
| `snap` | the snapshot of an iteration of `negotiate_congestion` |
| `call`, `contended`, `tried`, `victim`, `mine` | `replan_bundle_ripup` in progress |
| `recharge_committed`, `candidate_costs`, `replan_candidates`, `replan_bundle` | the calls of the same names, each one step |
| `Enter`, `ReturnStrict`, `RipUp`, `PlanMine`, `AcceptRipUp`, `Restore`, `ReturnRelaxed` | `replan_bundle_ripup`, one victim after the other |
| `BeginRound`, `EndRound`, `EndNegotiate` | an iteration: prices, snapshot, accept or restore; the prices are cleared |

`ReplanContract` has the same calls without the steps inside: the answer of a call
is one that books drawn up from scratch would give, and the books it leaves are
those of the session it leaves. While a call runs the contract's books are `None`.
A selection without layers is no route; template classes negotiate as one bundle;
`extend_grid_for` is left out.

### RefineSweep (over TrialSweep), SequentialRefine

`TrialSweep` is `parallel_screen` and `parallel_sweep`: workers take the next index
from `next`, write `out[i]`, and are joined; creating a thread may fail at any of
them and evaluating a job may raise. `RefineSweep` is the command around it.

| model | code |
|---|---|
| `Gather`, `StartScreen`, `TakeScreens` | a chunk of bundles; their alternates screened by the pool |
| `StartSweep`, `TakeOutcomes` | the kept moves evaluated by the pool against the session as it stands |
| `PassOver`, `ReplayRejects`, `ReplayCommits` | the walk in the order of the bundles: nothing flagged; flagged, but no sequential trial moves; a move, after which the rest is gathered anew |
| `Raise`, `EndChunk`, `EndSweep` | an exception of a trial; the chunk is widened; the sweep is repeated |

`SequentialRefine` visits the bundles one by one and moves to the first alternate
the accept test takes. A session is opaque; which alternates it has, how they are
screened and what is accepted are constant operators. An evaluation may promise
what the trial does not keep ("accept" is always possible), may give up, and may
reject only what the trial would reject: that much the code takes from the engine.

### Checkpoint, CheckpointStore

A session, one connection and its file. A row of a bundle is one value, its
candidate and layer; a placed or a detailed route stores per bundle the plan it was
solved from. A command queues its saves as steps in `todo`; `begin` and `commit`
nest (`depth`), and only the outermost commit moves `work` to `disk`.

| model | code |
|---|---|
| `stage`, `expanded`, `original`, `planner`, `plan`, `nuts`, `det` | the session: pools, per-instance view and the list from before it, planner, plan, routes |
| `memo` | `_persisted_plan_fp` |
| `clear_bundles`, `persist_bundles`, `persist_topologies`, `persist_planner_output`, `persist_nuts`, `persist_detailed_nuts`, `ensure_parents`, `ensure_placed` | the statements of a save |
| `begin_batch`, `commit_batch`, `BeginFails`, `Refused`, `rollback_batch`, `Crash` | the batch, and what breaks it |
| `run_bundler`, `generate_topologies`, `run_planner`, `select_topology`, `run_nuts`, `run_detailed_nuts`, `heal`, `open_bdb`, `load_pipeline` | the commands |

`CheckpointStore` knows whole saves only. Left out: pins, hand-edited candidates,
rule stamps, the row details of template members and `keep_user`; run_planner on a
session resumed with the expanded view, a regeneration over an expanded list and
partial loads; post-NUTS commands and viewer previews, which do not persist. A
refused statement (`Refused`) takes back its whole batch. That is what the code does
wherever it hears of the refusal; some sixty writers of `bdb.cpp` (the updates from
line 573 on, the inserts from line 3464 on, `set_topology_selected` at 5411) call
`sqlite3_step` and drop its answer. What runs and proofs say of refused statements
holds for refusals that are reported.

### Nuts (over Tracks)

`run` and `rerun_layer` of `nuts.cpp` as a sequence of passes over the track and
the span of every segment.

| model | code |
|---|---|
| `pos[s]`, `span[s]` | `track_position` and `placed`, `span_lo` and `span_hi` |
| `Junction` | `rev_conn_map`, with the labels `lo_end` and `is_endpoint` |
| `Faces`, `Crossing` | `busterm_faces`, `passthru_spans` |
| `do_span_adjustments`, `settle_spans`, `settle_spans_scoped`, `tighten_spans_to_reach` | the functions of the same names |
| `SeedLayer`, `RespanLayer`, `SweepLead`, `SweepCross`, `EndFixpoint` | `orientation_fixpoint` |
| `RepairVictim`, `RepairCluster`, `EndRepair` | `repair_overlaps` |
| `CornerRound`, `CornerKept`, `CornerReversed`, `EndCorner` | `resolve_corner_overlaps` |
| `TightenMove`, `EndTighten`, `TightenSpans` | `tighten_pulls` and the last contraction |
| `best`, `start`, `corner` | the `PlacementSnapshot`s of the three passes |

How a span follows its partners is modelled in full: stale end labels, sliced
requests, jogs, the coverage of partners and faces, reversed spans. The election of anchors is that
of the code: per bundle and block, or per rectangle where the rectangles of a block
need their own (`own_anchor`), the first seated crossing by segment and rectangle.
Where the code
computes the best track, the model takes any track of the window; where a pass
compares distances or counts rounds, it may stop at any time. A cluster repack may
seat the whole layer anew, of which the code takes the part that contends for the
windows of the cluster; a corner round may be taken back whether or not it helped,
because the interval violations that also decide this are not counted. So what
holds here holds for every scoring, order and cap. All buses are one track wide: half widths,
and with them the junction reach (`BUDA_NUTS_JUNCTION_REACH`), are left out, and so
are keepouts (part of the windows), the count of interval violations, split bounds kept for the
detailed solver, fixed segments of bottom-up copies, the re-solve after a dogleg,
warm reruns and the threads of `solve_group`.

## 4. Runs

All runs use the MC modules, which give the constants; no definition is replaced.

| run | expect | states | bounds | shows |
|---|---|---|---|---|
| `planner` | pass | 1 501 | 8 bundles, 3 bands, 1 budget, 2 refinement passes | books balance and are delivered, strict routes fit and stay, moves are sound, every run ends |
| `web_sessions` | pass | 12 711 | 2 sessions, a stage, two batches, a client | captures exclusive, no torn read, every request answered |
| `web_frames` | pass | 164 377 | 2 stages of a session, 2 clients that come and go | frames in order, done reaches who stays |
| `web_bad` | violation | | a rejected edit beside a stage | finding |
| `pool` | pass | 56 945 | 2 generated shapes of a family, a drawn one ranked between, `MaxCuts = 1`, `MaxPool = 4` | splits named, overrides die, candidates kept, accretion keeps references |
| `pool_reset` | violation | | the same | finding |
| `healers` | pass | 42 269 | 4 bundles, `MaxIter = 2`, `NegIter = 1`, `TopN = 1` | trials leave no trace, nothing speculative is stored, moves lower the metric, a stop is certified, prices do not leak, an iteration without a move leaves nothing half done, healers return |
| `healers_drop` | violation | | the same | finding |
| `incremental` | pass | 3 416 | 5 bundles, 3 bands, 1 budget, 2 price vectors | books are the record in the middle of a call, calls keep the contract and return |
| `refine_sweep` | pass | 7 771 | 5 bundles, 2 threads, `TopN = 2`, `MaxMoves = 3`, chunks of 3 to 6 | every job answered, no stale outcome read, the sequential moves, the command returns |
| `persistence` | pass | 719 462 | a normal bundle, 2 instances, 4 plans, `MaxCommands = 9`, `MaxFaults = 1`, `MaxRestarts = 1` | whole saves, true memo, fingerprint of the rows, detailed over placed |
| `nuts` | pass | 27 981 | 7 segments of 2 bundles on 3 layers, coordinates 0..4 | wires reach, no pass is worse than the fixpoint, scoped settling exact, crossings stay covered |

The type invariants of `CongestionPlanner`, `WebServer`, `IncrementalPlanner` and
`Healers` are proved and therefore not run; `CandidatePool` and `Checkpoint` are run
with theirs as well, which say more than a type: every index names a place of its
pool, and no batch outlives its command.

Why the bounds are enough for the interesting cases:

* `planner`: the eight bundles are one of each kind the ladder distinguishes: a
  global one, two of middle rank (one pinned) that contend for a band and a
  budget, a local one with a reservation, a locked copy, one wider than its slide
  windows, one whose mask admits nothing, one without candidates. Rip-ups succeed
  and fail, restore, and refinement moves bundles twice; all actions fire. Two
  passes are needed for the fixpoint test.
* `web_*`: two sessions are needed for the engine lock to matter beyond the
  session lock; two stages for frames to be out of order; two clients for a
  broadcast that breaks in the middle. Requests are finite, so the system stops
  when all are answered: these configurations do not check deadlock, and
  `EveryRequestAnswered` takes its place.
* `pool`: four places hold both shapes, the drawn one and a split; the drawn shape
  ranks between so that a re-sort moves a split into the middle. One cut per shape
  is enough to append, overwrite, re-sort, delete and leave behind.
* `healers`: p has a candidate no layer admits (fallback to the whole planner) and
  one the solver cuts, and cuts again if q moves (a split overwritten in place);
  r occupies a band without being in an overlap (the occupants' pass); with
  `TopN = 1` the screen defers a move of p. Two iterations let a second iteration start
  from a session with an adopted split. There are several commits, stalls,
  rejected trials and accepted and rejected negotiations, and exceptions in all of
  their steps.

* `incremental`: a is wide and finds its band held by three bundles: n holds most of
  it and cannot leave, m can, k is a locked copy. So a call rips up n, restores it,
  rips up m and succeeds, or fails on both and relaxes; g stays in its pinned group.
  Prices of 2 and 1 make calls start from books that are full by injection alone.
* `refine_sweep`: bundle 1 finds a lane only in a second sweep, 2 never, 3 unless its
  screen fails, 4 only once 3 has moved in the same chunk (the stale case), 5 is
  pinned. Two threads suffice for every order of claim and completion of two jobs,
  and either may fail to start.
* `persistence`: the four plans differ in the layer of one instance, in its
  candidate, in the presence of the other and of the normal bundle, which are the
  cases of the selective save. Nine commands reach plan, route, detailed route, a
  second plan and their saves on both sides of a restart; one fault can strike at
  any statement, BEGIN or COMMIT. It stops when the commands are spent, so deadlock
  is not checked.
* `nuts`: one bundle has a trunk cut at a jog with a tap in passing, the other two
  aligned stubs on a trunk; they compete for one track on each of two layers.
  Overlaps of both kinds (trunk on trunk, stub on stub) arise, repairs, corner
  rounds and tightenings succeed and are taken back, spans become reversed, and the
  block can be covered by either stub.

Every property of a passing run has a mutant: a plausible bug of the code (a
dropped reset, an off-by-one, a lock not taken, a restore that forgets half) for
which TLC finds it violated. They stand next to the definitions they change.

## 5. Findings

Each is a run that TLC finds violated; `PROJECT.json` quotes the line it contradicts.

* `healers_drop`: `ripup_reroute` can make a move that takes a bundle off the
  design: a candidate no allowed layer can carry is tried, the incremental planner
  finds nothing, the fallback `run_planner` leaves the bundle unplanned, its
  overlaps are gone, and the metric has improved.
* `web_bad`: an edit rejected for bad input reads the session without its lock
  while a stage may be running on it.
* `pool_reset`: after an accretion moved the split in front of its original, the
  reset restores the wrong candidate.

Other behaviour met while modelling, which the models have and no property forbids:

* A pin set after a dogleg was adopted is lost at the next `run_planner`
  (`buda_session/edit.py:102`); `edit_commit pin` leaves a group pin beside the
  single pin (`buda_cmds/edit_cmds.py:392`); the split of a drawn candidate
  outlives a regeneration as an ordinary candidate (`buda_session/edit.py:840`).
* A `ripup_reroute` that made moves and then stops for want of an improving one
  leaves the last rejected trial in the planner's cuts (`buda_session/ripup.py:2118`)
  until the next call of any healer recharges them.
* A `run_planner` on a planned flat session clears the fingerprint and keeps the
  placed rows; the detailed save that follows stores a count of 0 for them
  (`buda_session/persist.py:1142`), where `src/test/tests/test_bdb_dnuts_persist.py:122`
  expects the bus counts to survive a detailed rewrite.
* The checkpoint of a healer is three transactions (`buda_session/nutsflow.py:2468`):
  a crash between them leaves a new plan beside cleared routes. Each is whole.
* The detailed save asks whether placed rows exist, not whether they are those of
  this plan (`buda_session/persist.py:1135`).
* A `select_topology` after `run_planner` saves the pools anew, and with that every
  stored layer and route is gone (`buda_cmds/planner_cmds.py:410`); after
  `load_pipeline expanded` its save is refused by a foreign key and rolled back.
* Tightening and single-victim repair do not look at the split bounds of corner
  constraints, which `nuts.cpp:2806` calls hard; the repair in `rerun_layer` may move
  segments of other layers (`nuts.cpp:4194`); a cluster repack is kept at an equal
  global count (`nuts.cpp:3493`) although `nuts.cpp:3218` speaks of a strict drop.

## 6. Fairness

* `CongestionPlanner`: weak fairness on a step while a run is in progress.
  `optimize_topologies` is one synchronous call.
* `WebServer`: strong fairness on each handler and heartbeat, weak on the greeting
  of a client. asyncio serves ready tasks in order, its locks are first come first
  served, and executor threads are scheduled; strong fairness is needed because a
  handler is disabled whenever another one keeps the loop. No request need arrive
  and no client need come or go.
* `Healers`: weak fairness on the steps of the running healer, again one
  synchronous call. A user need never start one.
* `IncrementalPlanner`: weak fairness on the steps inside `replan_bundle_ripup`, a
  loop in one synchronous call. No call need be made.
* `RefineSweep`: weak fairness on the command and on its threads. The command is
  synchronous; a started `std::thread` is scheduled until it returns.
* `CandidatePool`, `Checkpoint` and `Nuts` state no liveness: commands come when the
  user types them, a process may die at any point, and the passes of the solver are
  counted loops whose counters the model leaves out.

## 7. Proofs

TLAPS proves, for every value of the constants that satisfies the stated
assumptions, in a module `<name>_proofs` per component:

* `CongestionPlanner`: `TypeOK`, `BooksBalance`, `BooksAreDelivered`,
  `HardDemandFits`, `StrictLeavesRoom`, `MovesAreSound`.
* `WebServer`: `TypeOK`, `CaptureIsExclusive`, `FramesInOrder`,
  `DoneReachesClients`, and `NoTornRead` under the hypothesis that no request with
  bad input shares a session with a stage, which is exactly what run `web_bad`
  shows to be needed.
* `CandidatePool`: `TypeOK`, `SplitsAreNamed`, `OverridesDieWithTheSplit`,
  `CandidatesAreKept` and `AccretionKeepsReferences`, for any shapes, ranks,
  families and bounds, if the generator finds finitely many shapes.
* `Checkpoint`: `TypeOK`, `SnapshotDescribesTheRows`, `MemoIsTrue`,
  `DetailedOverPlaced`, and `WritesWholeSaves`, the refinement of `CheckpointStore`,
  for any bundles and plans and any number of commands, faults and restarts.
* `Healers`: `TrialsLeaveNoTrace`, `StoredAtRest`, `CheckpointIsLive`,
  `InjectedNeverLeaks` and `IterationsEndWhole` for any planner and any solver, and
  `MovesLowerTheMetric` and `StopIsCertified` under the hypothesis `Tightens`: overlaps are counted in
  natural numbers and the pass that a trial skips (tighten_pulls) adds none.
  `TypeOK` too, under `Tightens` and `Answers`: for a session whose indices are
  sound the planner returns candidates of the pools it was handed, and the parties
  of an overlap are bundles. Both hypotheses quantify over all sessions and routes,
  which TLC cannot enumerate; the operators of `MCHealers` satisfy them.
* `IncrementalPlanner`: `TypeOK`, `BooksMatchTheRecord`, and `KeepsTheContract`, the
  refinement of `ReplanContract`.
* `RefineSweep`: `SweepIsComplete`, `OutcomesAreFresh`, and `MatchesSequential`, the
  refinement of `SequentialRefine`, for any number of threads, bundles and moves.
* `Nuts`: `JunctionsAreReached`, `NeverWorse`, `ScopedSettleIsExact` and
  `AnchorsStayCovered`, for any segments, junctions, windows, crossings and layers;
  and `SettledInv`, that repairs, corner rounds and tightenings begin from settled
  spans.

**Sums.** `Total(S, f)` counts pairs (a bundle, one of its tracks) as the
cardinality of a finite set, which needs no recursion. Lemmas at the head of
`CongestionPlanner_proofs` and `IncrementalPlanner_proofs` say what the planner's
steps do to a sum: splitting off one element, changing the value at
one element, comparing two functions.

**The books.** `BooksBalance` is inductive together with types and `Shape`: where
the run stands determines who is parked, planned, ripped up or half booked
(`Holds`). With it every action changes one or two terms of the sum by what it
charges. `BooksAreDelivered` needs that at the end nothing is parked and `asn`
agrees with `plan`.

**Hard demand.** `HardDemandFits` is not inductive: between `PlanMine` and
`AcceptRipUp` the target stands with the victim gone. The strengthening
(`HardFits`) adds `TrialFits`: during the trial the hard demand without the victim
plus the target's route fits; accepting adds the victim's new route, which a
strict search found against that very state, and restoring returns to the demand
of before. Reservations and soft routes only add to `usage`, so a strict search
that finds room in the books finds it for the hard demand.

**Moves.** `MovesAreSound` and `StrictLeavesRoom` are action properties from these
invariants and `RipUpSound`: while a rip-up is tried the target's route has room
in the books wherever it stands, and the victim is no template copy. The lemma
`NewRoute` names the ways in which a bundle can come by a new route.

**Web backend.** `Places` says where each kind of handler can be at all, `Counted`
that a handler at work has a command left. `Held` says what it then holds:
`EngineHeld` (who executes or greets holds the engine lock), `LoopHeld` (who waits
for the engine, reads or runs a command outside the executor keeps the loop) and
`SessionHeld` (whoever is between its start and its answer owns its session,
except requests with bad input). Two commands at once would both hold the engine,
and a read under a running command would hold its session or its engine lock too.
For the frames, `Inboxes` says what is wanted of each inbox: greeted first, the
frames of a stage together, its start first and its end last. What keeps it so is
`Told`: a stage that speaks is the last that a client of its session has heard,
for it holds the session until it is answered (`Held`); who is still in the mail of
a broadcast has not heard it; and who heard the start and is neither gone nor in the
mail of the end has heard the end. `BeatRuns` says that a heartbeat task lives only
while its command runs, `Rooms` and `Joined` that a client hears its own session.

**The pool.** `Sound` is the conjunction of the three invariants, and inductive as
such: the split that a re-plan deletes is the one at `slot`, so `SplitsAreNamed` is
what makes the deletion hit no genuine candidate. The difficulty is the re-sort. A
sorted pool is defined by counting: the place of a candidate is how many come before
it. `ArrangedRearranges` shows by counting alone, without induction over the
sequence, that this is a rearrangement of those that stay, so that the uid map of
`_resort_pool_preserving_selection` finds every candidate again at one place;
`MovedFollows` and `MergeIs` carry that to selection, slot, original and group.
`ResetRestoresOriginal` is no theorem: run `pool_reset` refutes it.

**The database.** The invariant `Inv` relates the open transaction to what is left
of the command. `Control` describes the stack of nested batches as a stack of frames
(what remains to do once a batch has ended, and how many are open then) and says, for
each step a batch may stand at, what the transaction has made of the file so far.
That is the refinement argument as well: before the outermost COMMIT the abstract
store has not moved, and at that COMMIT the working copy is what one whole save makes
of the file (`Saved`). `Sound` is asked of the file and of the working copy, that is
also between two statements of a save: a fingerprint describes the rows, routed rows
have their bundles' rows, detailed wires lie over placed bundles, and an instance is
known by its plan. A refused statement, a failed COMMIT and a crash return to the
file and forget the memo.

**Healers.** The planner and the solver are arbitrary operators here, so nothing
is known of a session after a trial but what the code around them guarantees.
`Trace` says how far the live session may then be from the snapshot. While a trial
is pinned no pool has changed and only the target's wrapper differs; after a
rerun each pool has the length of before or has lost exactly its split, which
stands last (`Back`); after a solve the pools differ from the old ones at the
split and behind it only (`Near`), and the wrappers that differ are in `dirty`.
This is as much as `_rr_restore` needs: it re-inserts, trims, and overwrites the
split, and `NearRestores` shows that this gives the old pool. An exception finds the trial at
any of these places and restores as if every bundle were dirty (`RollbackOfAll`);
`StepEndsWhole` goes through the ways out of an iteration. `Session` carries
the one fact about the pools on which this depends, that a split is the last
topology of its pool. `Live` carries the database through a healer: as long as no
move has been made, the session it would return to is the one that is stored.
`Best` says that what a trial measured is a function of the snapshot and the move,
so the full run that makes the move repeats it; `Certified` says where every
candidate of every contender is while nothing improves: waiting, put off, under
trial, or measured and no better. `Indices` is what keeps the indices in their
pools: a wrapper fits (`Fit`) if its selection lies in a pool that is never empty
and the candidate its split stands for is one before the split, so that it is still
there when the split goes; session and snapshot fit, and whatever is on a list,
under trial or remembered as best is a candidate of the snapshot, to which every
trial returns. `Counters` bounds the moves by the iterations.

**The incremental calls.** `Record` says that the books are those of the routes
recorded as charged plus the prices, which every charge and uncharge keeps.
`Standing` says what the record is while a call runs: the session's routes without
the target, without a victim that is ripped up, and with the target's trial route
once it is booked. So at each return the books are those of the session's routes
with what the call decided, which is the contract's answer; the steps before it are
stutters. The lemmas `SameBooks` and `SameSearch` identify the operators of the
contract with those of the planner.

**The sweep.** `PoolInv` says that indices below the counter are written or in the
hands of a live worker and the others are untouched; when all workers have found
nothing left, everything is written. `Layout` says where in the flat list of
outcomes the moves of a bundle stand, `Fresh` that every outcome still to be read
was measured against the present session, and `Ahead` that the bundles the
sequential loop has still to visit are those from the walk's place on. A bundle
passed over is one whose moves were all rejected, hence rejected by the sequential
visit too; a replay is that visit.

**The track solver.** `Placement` says of tracks and spans that a segment with a
placed partner reaches all of them and its faces. It is not inductive alone: passes
return to remembered placements, so `PlacementInv` says it of these too. The span of
a follower depends on the tracks of its partners, its own span and its faces and
on no other span; hence settling the followers of what moved restores it.

`ScopedSettleIsExact` says more, that this gives every segment the wire that settling
all of them would, and for that the others must be settled when a repair or a
tightening begins. The comment at `nuts.cpp:979` says that the order of calls
sees to it; here it is proved. A span is `Settled` if an end that is in order stands
at something it must reach wherever its requests set it, and a reversed one wherever
it is requested at all: such a span is a fixpoint up to the name of its ends. An
adjustment makes its follower so, and leaves so whoever is not a partner of what
moved. `SettledInv` carries it from the respan of the seed, where the layers are
settled one after the other and each remains so, over sweeps and repairs to the
tightening, and says it of the snapshots these may return to.

The contraction
pulls an end in no further than the outermost coordinate that must be reached.
`CountInv` bounds the overlaps of the placement and of each snapshot it may return
to by what the fixpoint left.

## 8. What is only model-checked

* Liveness (`RunEnds`, `EveryRequestAnswered`, `HealersReturn`, `CallsReturn`,
  `RefineEnds`): fairness and ENABLED are out of the prover's reach.
* The three properties that runs refute (`web_bad`, `pool_reset`, `healers_drop`).
* Facts that need induction over data: what a recursive definition computes for
  every input cannot be proved with the installed provers. The modules therefore
  avoid recursion.

## 9. What is not modelled

Steps 9 to 13 of the plan: stage b of the healers, class and release moves, the scan
and the deferred sweep of `ripup_reroute` on the thread pool, edit sessions step by
step, cycle breaking, band spreading, the bundler, the script interpreter, the
hierarchical flow. Of the modelled parts: the greedy spreading of a demand over bands,
`extend_grid_for`, selections without layers and template classes (planner); what
section 3 lists under `Checkpoint` and under `Nuts`.

Left out for good: topology generation, detailed bit placement, floorplanning and
verification geometry (numeric algorithms over large data, out of TLC's reach), the
interchange parsers, reports and viewers (pure input and output), the bindings and
the vendored SQLite.
