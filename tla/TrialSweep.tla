----------------------------- MODULE TrialSweep -----------------------------
(***************************************************************************)
(* parallel_sweep and parallel_screen (src/src/trial_sweep.cpp): a list of *)
(* jobs is worked off by threads that take the next index from a shared    *)
(* atomic counter, compute on private copies of planner and bundles and    *)
(* write the outcome of a job into its place.                              *)
(*                                                                         *)
(* The caller blocks in the call, so the session is the one it handed      *)
(* over.  Only one command runs in a process at a time, so g_sweep_mutex   *)
(* and the swap of std::cout's buffer are left out.                        *)
(***************************************************************************)
EXTENDS Naturals, Sequences, FiniteSets

CONSTANTS
  Worker,      \* the threads of the machine
  None,        \* a place not written, a worker without a job
  NThreads,    \* n_threads
  Verdicts(_)  \* what evaluating a job may record: its result, or that an
               \* exception made it unevaluable

VARIABLES
  pool,  \* "off", "starting" threads, "joining" them, "joined"
  jobs,  \* the jobs of the call
  out,   \* the outcomes
  next,  \* the shared index
  crew,  \* the workers started
  at,    \* at[w]: the index worker w has taken
  gone   \* the workers that found nothing left

poolVars == <<pool, jobs, out, next, crew, at, gone>>

PoolInit ==
  /\ pool = "off" /\ jobs = <<>> /\ out = <<>> /\ next = 1
  /\ crew = {} /\ gone = {} /\ at = [w \in Worker |-> None]

(* The call.  The callers do not make it with an empty list. *)
Call(js) ==
  /\ pool = "off"
  /\ pool' = "starting" /\ jobs' = js /\ next' = 1
  /\ out' = [i \in DOMAIN js |-> None]
  /\ UNCHANGED <<crew, at, gone>>

Spawn(w) ==
  /\ pool = "starting" /\ w \notin crew
  /\ NThreads > 1 /\ Cardinality(crew) < NThreads /\ Cardinality(crew) < Len(jobs)
  /\ crew' = crew \cup {w}
  /\ UNCHANGED <<pool, jobs, out, next, at, gone>>

(* Mutant of Spawned: no worker runs when no thread could be started. *)
SpawnedWithoutFallback ==
  /\ pool = "starting"
  /\ pool' = "joining"
  /\ UNCHANGED <<jobs, out, next, crew, at, gone>>

(* Creating a thread may fail at any of them: those that run are kept, and *)
(* if there is none the caller works off the list itself.                  *)
Spawned ==
  /\ pool = "starting"
  /\ pool' = "joining"
  /\ IF crew = {} THEN \E w \in Worker : crew' = {w} ELSE UNCHANGED crew
  /\ UNCHANGED <<jobs, out, next, at, gone>>

(* next.fetch_add(1). *)
Claim(w) ==
  /\ w \in crew /\ at[w] = None /\ w \notin gone
  /\ IF next <= Len(jobs)
     THEN at' = [at EXCEPT ![w] = next] /\ next' = next + 1 /\ UNCHANGED gone
     ELSE gone' = gone \cup {w} /\ UNCHANGED <<at, next>>
  /\ UNCHANGED <<pool, jobs, out, crew>>

Evaluate(w) ==
  /\ at[w] # None
  /\ \E v \in Verdicts(jobs[at[w]]) : out' = [out EXCEPT ![at[w]] = v]
  /\ at' = [at EXCEPT ![w] = None]
  /\ UNCHANGED <<pool, jobs, next, crew, gone>>

(* Mutant of Join: waits for as many threads as were asked for. *)
JoinAll ==
  /\ pool = "joining" /\ Cardinality(gone) >= NThreads
  /\ pool' = "joined"
  /\ UNCHANGED <<jobs, out, next, crew, at, gone>>

Join ==
  /\ pool = "joining" /\ crew \subseteq gone
  /\ pool' = "joined"
  /\ UNCHANGED <<jobs, out, next, crew, at, gone>>

(* The caller has taken the outcomes. *)
Release ==
  /\ pool = "joined"
  /\ pool' = "off" /\ crew' = {} /\ gone' = {} /\ jobs' = <<>> /\ out' = <<>>
  /\ next' = 1
  /\ UNCHANGED at

Work ==
  \/ \E w \in Worker : Spawn(w) \/ Claim(w) \/ Evaluate(w)
  \/ Spawned \/ Join

(* When the call returns every job has an outcome of its own, whichever    *)
(* threads could be started and however they were scheduled; on the way no *)
(* two workers write the same place, and none writes a place twice         *)
(* (trial_sweep.cpp: "the shared atomic index means fewer workers still    *)
(* drain every move").                                                     *)
SweepIsComplete ==
  /\ pool = "joined" => \A i \in DOMAIN jobs : out[i] \in Verdicts(jobs[i])
  /\ \A w \in Worker : at[w] # None =>
       /\ out[at[w]] = None
       /\ \A v \in Worker \ {w} : at[v] # at[w]
=============================================================================
