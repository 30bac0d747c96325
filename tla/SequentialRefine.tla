-------------------------- MODULE SequentialRefine --------------------------
(***************************************************************************)
(* refine_selection as it promises to behave, whatever the pool of threads *)
(* does: the sequential loop of _refine_selection                          *)
(* (src/src/buda_session/refine.py).  The bundles are visited in the order *)
(* of the session; each has its alternates ranked beside the session as it *)
(* stands at the visit, tries the best TopN of them in full, in that       *)
(* order, and moves to the first that the accept test takes.  Sweeps are   *)
(* repeated until one moves nothing or the moves are spent.                *)
(*                                                                         *)
(* A session is opaque.  The trials of a visit that moves nothing leave no *)
(* trace (TrialsLeaveNoTrace of Healers), so a visit is one step.          *)
(***************************************************************************)
EXTENDS Naturals, Sequences

CONSTANTS
  N,                 \* the bundles are 1..N, in the order of the session
  Session,           \* the sessions
  Start,             \* the session the command finds
  Eligible(_, _),    \* _refine_eligible(b) in a session
  Alternates(_, _),  \* the other candidates of b, by index
  Screened(_, _),    \* the same, best-screened first
  Accepts(_, _, _),  \* Accepts(s, b, t): the accept test takes candidate t
  Moved(_, _, _),    \* the session after that move has been made
  TopN,              \* _RR_SCREEN_TOP_N
  MaxMoves           \* max_moves

VARIABLES
  ses,        \* the session
  last,       \* the bundle visited last in this sweep
  sweeping,   \* this sweep has moved something
  committed,  \* moves made
  trials,     \* full trials run, as the closing line reports them
  phase       \* "sweep", "done", "raised"

vars == <<ses, last, sweeping, committed, trials, phase>>

Top(alts) == SubSeq(alts, 1, IF Len(alts) < TopN THEN Len(alts) ELSE TopN)

(* The moves tried for b: ranked, or in order of their index when the      *)
(* screen is not available.                                                *)
Tops(s, b) == {Top(Screened(s, b)), Top(Alternates(s, b))}

Upcoming(s, l, b) ==
  /\ b \in 1..N /\ b > l /\ Eligible(s, b)
  /\ \A c \in (l + 1)..(b - 1) : ~Eligible(s, c)

(* The first move of tops that the accept test takes. *)
FirstTaken(s, b, tops, j) ==
  /\ j \in DOMAIN tops /\ Accepts(s, b, tops[j])
  /\ \A k \in 1..(j - 1) : ~Accepts(s, b, tops[k])

Init ==
  /\ ses = Start /\ last = 0 /\ sweeping = FALSE
  /\ committed = 0 /\ trials = 0 /\ phase = "sweep"

(* _refine_try_bundle. *)
Visit(b, tops) ==
  /\ phase = "sweep" /\ committed < MaxMoves /\ Upcoming(ses, last, b)
  /\ last' = b
  /\ \/ \E j \in DOMAIN tops :
          /\ FirstTaken(ses, b, tops, j)
          /\ ses' = Moved(ses, b, tops[j])
          /\ committed' = committed + 1 /\ trials' = trials + j
          /\ sweeping' = TRUE
     \/ /\ \A j \in DOMAIN tops : ~Accepts(ses, b, tops[j])
        /\ trials' = trials + Len(tops)
        /\ UNCHANGED <<ses, committed, sweeping>>
  /\ UNCHANGED phase

(* A trial raises: it is rolled back and the command ends. *)
Raise ==
  /\ phase = "sweep" /\ committed < MaxMoves
  /\ \E b \in 1..N : Upcoming(ses, last, b)
  /\ phase' = "raised"
  /\ UNCHANGED <<ses, last, sweeping, committed, trials>>

SweepOver == committed >= MaxMoves \/ \A b \in 1..N : ~Upcoming(ses, last, b)

EndSweep ==
  /\ phase = "sweep" /\ SweepOver
  /\ IF sweeping /\ committed < MaxMoves
     THEN last' = 0 /\ sweeping' = FALSE /\ UNCHANGED phase
     ELSE phase' = "done" /\ UNCHANGED <<last, sweeping>>
  /\ UNCHANGED <<ses, committed, trials>>

Next ==
  \/ \E b \in 1..N : \E tops \in Tops(ses, b) : Visit(b, tops)
  \/ Raise
  \/ EndSweep

Spec == Init /\ [][Next]_vars
=============================================================================
