---------------------------- MODULE RefineSweep ----------------------------
(***************************************************************************)
(* refine_selection with its parallel sweep (_refine_parallel_sweep of     *)
(* src/src/buda_session/refine.py, _rr_screen_scores_many and              *)
(* _rr_sweep_eval of rr_sweeps.py) over the pool of threads of TrialSweep. *)
(*                                                                         *)
(* Bundles are taken up in chunks; the pool screens the alternates of a    *)
(* chunk, then evaluates the moves kept, all against the session as it     *)
(* stands; the outcomes are walked in the order of the bundles.  A bundle  *)
(* with a promising or an unevaluable move is handed to the sequential     *)
(* trials, whose verdict counts; when they make a move, the rest of the    *)
(* chunk is stale and is gathered anew.                                    *)
(***************************************************************************)
EXTENDS Naturals, Sequences, FiniteSets

CONSTANTS
  N, Session, Start, Eligible(_, _), Alternates(_, _), Screened(_, _),
  Accepts(_, _, _), Moved(_, _, _), TopN, MaxMoves,  \* as in SequentialRefine
  ChunkMin, ChunkMax,                                \* moves in a chunk
  Worker, None, NThreads                             \* as in TrialSweep

ASSUME RefineAssumption == N \in Nat /\ TopN \in Nat \ {0} /\ MaxMoves \in Nat
ASSUME ChunkAssumption == ChunkMin \in Nat \ {0} /\ ChunkMax \in Nat /\ ChunkMin <= ChunkMax
ASSUME ThreadsAssumption ==
  /\ IsFiniteSet(Worker) /\ NThreads \in 1..Cardinality(Worker) /\ None \notin Nat
ASSUME SessionAssumption ==
  /\ Start \in Session
  /\ \A s \in Session : \A b \in 1..N : Eligible(s, b) =>
       /\ Alternates(s, b) \in Seq(Nat) /\ Alternates(s, b) # <<>>
       /\ Screened(s, b) \in Seq(Nat) /\ Len(Screened(s, b)) = Len(Alternates(s, b))
       /\ \A t \in {Alternates(s, b)[i] : i \in DOMAIN Alternates(s, b)} \cup
                   {Screened(s, b)[i] : i \in DOMAIN Screened(s, b)} :
            Moved(s, b, t) \in Session

VARIABLES
  ses, sweeping, committed, trials,  \* as in SequentialRefine
  last,   \* the same: what the walk has reached, kept for the comparison
  pc,     \* "gather", "screen", "ranked", "evaluate", "walk", "done", "raised"
  i,      \* the bundle to take up next
  width,  \* cur_chunk
  nmv,    \* the moves the chunk will hold
  group,  \* the bundles of the chunk: [bundle, first, tops], tops the moves
          \* kept and first the moves of those before it
  outs,   \* the outcomes of the moves, in that order
  k,      \* the place of the walk in group
  pool, jobs, out, next, crew, at, gone    \* as in TrialSweep

command == <<ses, last, sweeping, committed, trials>>
chunk == <<i, width, nmv, group, outs, k>>
workers == <<pool, jobs, out, next, crew, at, gone>>
vars == <<command, pc, chunk, workers>>

Top(alts) == SubSeq(alts, 1, IF Len(alts) < TopN THEN Len(alts) ELSE TopN)

-----------------------------------------------------------------------------
(* The jobs of the pool.                                                   *)

ScreenJob(b) == [kind |-> "screen", base |-> ses, bundle |-> b]
SweepJob(b, t) == [kind |-> "sweep", base |-> ses, bundle |-> b, cand |-> t]

(* Mutant of Verdicts: a move that cannot be evaluated counts as rejected. *)
VerdictsHideFailures(job) ==
  IF job.kind = "screen"
  THEN {Top(Screened(job.base, job.bundle)), Top(Alternates(job.base, job.bundle))}
  ELSE {"accept", "reject"}

(* What screening leaves: the best of the ranked alternates, or, if it     *)
(* raises or some candidate cannot be planned, the first of the unranked.  *)
(* What evaluating a move can say: its result, that it could not be        *)
(* evaluated (no incremental plan, an exception), or, where the engine and *)
(* the session differ, a promise the trial then does not keep.             *)
Verdicts(job) ==
  IF job.kind = "screen"
  THEN {Top(Screened(job.base, job.bundle)), Top(Alternates(job.base, job.bundle))}
  ELSE {"accept", "unevaluable"} \cup
       (IF Accepts(job.base, job.bundle, job.cand) THEN {} ELSE {"reject"})

INSTANCE TrialSweep

-----------------------------------------------------------------------------
(* One chunk.                                                              *)

Init ==
  /\ ses = Start /\ last = 0 /\ sweeping = FALSE /\ committed = 0 /\ trials = 0
  /\ pc = "gather" /\ i = 1 /\ width = ChunkMin
  /\ nmv = 0 /\ group = <<>> /\ outs = <<>> /\ k = 0
  /\ PoolInit

Kept(b) == IF Len(Alternates(ses, b)) < TopN THEN Len(Alternates(ses, b)) ELSE TopN

(* Take up the next bundle.  How many moves it will keep is known before   *)
(* it is screened.                                                         *)
Gather ==
  /\ pc = "gather" /\ i <= N /\ nmv < width /\ committed < MaxMoves
  /\ i' = i + 1
  /\ IF Eligible(ses, i)
     THEN /\ group' = Append(group, [bundle |-> i, first |-> nmv, tops |-> <<>>])
          /\ nmv' = nmv + Kept(i)
     ELSE UNCHANGED <<group, nmv>>
  /\ UNCHANGED <<command, pc, width, outs, k, workers>>

StartScreen ==
  /\ pc = "gather" /\ group # <<>> /\ (i > N \/ nmv >= width)
  /\ pc' = "screen"
  /\ Call([m \in DOMAIN group |-> ScreenJob(group[m].bundle)])
  /\ UNCHANGED <<command, chunk>>

TakeScreens ==
  /\ pc = "screen"
  /\ pc' = "ranked"
  /\ group' = [m \in DOMAIN group |-> [group[m] EXCEPT !.tops = out[m]]]
  /\ Release
  /\ UNCHANGED <<command, i, width, nmv, outs, k>>

(* The member of the chunk to which move p belongs. *)
Owner(p) == CHOOSE m \in DOMAIN group :
  p \in (group[m].first + 1)..(group[m].first + Len(group[m].tops))

StartSweep ==
  /\ pc = "ranked"
  /\ pc' = "evaluate"
  /\ Call([p \in 1..nmv |->
             SweepJob(group[Owner(p)].bundle, group[Owner(p)].tops[p - group[Owner(p)].first])])
  /\ UNCHANGED <<command, chunk>>

TakeOutcomes ==
  /\ pc = "evaluate"
  /\ pc' = "walk" /\ outs' = out /\ k' = 1
  /\ Release
  /\ UNCHANGED <<command, i, width, nmv, group>>

-----------------------------------------------------------------------------
(* The walk.                                                               *)

Here == group[k]
Outcome(g, j) == outs[g.first + j]
Flagged(g) == \E j \in DOMAIN g.tops : Outcome(g, j) # "reject"

(* No move of the bundle can be accepted: count the trials not run. *)
PassOver ==
  /\ pc = "walk" /\ k <= Len(group) /\ ~Flagged(Here)
  /\ last' = Here.bundle /\ trials' = trials + Len(Here.tops) /\ k' = k + 1
  /\ UNCHANGED <<ses, sweeping, committed, pc, i, width, nmv, group, outs, workers>>

Taken(j) ==
  /\ Accepts(ses, Here.bundle, Here.tops[j])
  /\ \A h \in 1..(j - 1) : ~Accepts(ses, Here.bundle, Here.tops[h])

(* The sequential trials of the bundle find nothing. *)
ReplayRejects ==
  /\ pc = "walk" /\ k <= Len(group) /\ Flagged(Here)
  /\ \A j \in DOMAIN Here.tops : ~Accepts(ses, Here.bundle, Here.tops[j])
  /\ last' = Here.bundle /\ trials' = trials + Len(Here.tops) /\ k' = k + 1
  /\ UNCHANGED <<ses, sweeping, committed, pc, i, width, nmv, group, outs, workers>>

(* Mutant of ReplayCommits: the walk goes on along the stale chunk. *)
ReplayCommitsAndWalksOn ==
  /\ pc = "walk" /\ k <= Len(group) /\ Flagged(Here) /\ committed < MaxMoves
  /\ \E j \in DOMAIN Here.tops :
       /\ Taken(j)
       /\ ses' = Moved(ses, Here.bundle, Here.tops[j])
       /\ committed' = committed + 1 /\ trials' = trials + j
  /\ last' = Here.bundle /\ sweeping' = TRUE /\ k' = k + 1
  /\ UNCHANGED <<pc, i, width, nmv, group, outs, workers>>

(* They find a move and make it.  What the chunk holds is stale: the       *)
(* bundles after this one are gathered again.                              *)
ReplayCommits ==
  /\ pc = "walk" /\ k <= Len(group) /\ Flagged(Here)
  /\ \E j \in DOMAIN Here.tops :
       /\ Taken(j)
       /\ ses' = Moved(ses, Here.bundle, Here.tops[j])
       /\ committed' = committed + 1 /\ trials' = trials + j
  /\ last' = Here.bundle /\ sweeping' = TRUE
  /\ pc' = "gather" /\ i' = Here.bundle + 1 /\ width' = ChunkMin
  /\ nmv' = 0 /\ group' = <<>> /\ outs' = <<>> /\ k' = 0
  /\ UNCHANGED workers

(* A trial raises. *)
Raise ==
  /\ pc = "walk" /\ k <= Len(group) /\ Flagged(Here)
  /\ pc' = "raised"
  /\ UNCHANGED <<command, chunk, workers>>

(* A chunk that moved nothing: widen. *)
EndChunk ==
  /\ pc = "walk" /\ k > Len(group)
  /\ pc' = "gather"
  /\ width' = IF 2 * width < ChunkMax THEN 2 * width ELSE ChunkMax
  /\ nmv' = 0 /\ group' = <<>> /\ outs' = <<>> /\ k' = 0
  /\ UNCHANGED <<command, i, workers>>

(* The sweep is over: another one if it moved something. *)
EndSweep ==
  /\ pc = "gather" /\ group = <<>> /\ (i > N \/ committed >= MaxMoves)
  /\ IF sweeping /\ committed < MaxMoves
     THEN i' = 1 /\ width' = ChunkMin /\ last' = 0 /\ sweeping' = FALSE /\ UNCHANGED pc
     ELSE pc' = "done" /\ UNCHANGED <<i, width, last, sweeping>>
  /\ UNCHANGED <<ses, committed, trials, nmv, group, outs, k, workers>>

Threads == Work /\ UNCHANGED <<command, pc, chunk>>

Command ==
  \/ Gather \/ StartScreen \/ TakeScreens \/ StartSweep \/ TakeOutcomes
  \/ PassOver \/ ReplayRejects \/ ReplayCommits \/ Raise \/ EndChunk \/ EndSweep

Next == Threads \/ Command

Spec == Init /\ [][Next]_vars

(* The call runs until it returns, and so does every thread it started. *)
FairSpec == Spec /\ WF_vars(Threads) /\ WF_vars(Command)

-----------------------------------------------------------------------------
(* Properties.                                                             *)

(* An outcome the walk still has to read was measured against the session  *)
(* as it now stands, and a rejected move would be rejected by the          *)
(* sequential trial as well: no move is skipped on the word of a worker    *)
(* that saw another session (refine.py: "After a commit the baseline       *)
(* changed: the chunk's remaining evaluations are stale").                 *)
OutcomesAreFresh ==
  pc = "walk" => \A m \in k..Len(group) :
    /\ group[m].tops \in {Top(Screened(ses, group[m].bundle)),
                          Top(Alternates(ses, group[m].bundle))}
    /\ \A j \in DOMAIN group[m].tops :
         Outcome(group[m], j) = "reject" =>
           ~Accepts(ses, group[m].bundle, group[m].tops[j])

(* Whatever the number of threads, their interleaving, the exceptions in   *)
(* them and the size of the chunks, the command makes the moves of the     *)
(* sequential loop, in its order and with its count of trials (refine.py:  *)
(* "committed moves, printed lines and trial counts match the sequential   *)
(* sweep exactly").                                                        *)
Sequential == INSTANCE SequentialRefine
  WITH phase <- CASE pc = "done" -> "done" [] pc = "raised" -> "raised"
                  [] OTHER -> "sweep"
MatchesSequential == Sequential!Spec

(* The command returns. *)
RefineEnds == <>(pc \in {"done", "raised"})
=============================================================================
