--------------------------- MODULE MCRefineSweep ---------------------------
(* A candidate has a lane and a length; bundles on one lane overlap.       *)
(* Bundle 1 finds a lane only after bundle 4 has left it, hence in a       *)
(* second sweep; 2 never finds one; 3 does, unless the screen fails; 4     *)
(* does once 3 has moved, in the same chunk; 5 is pinned by the user.      *)
EXTENDS RefineSweep, TLC, SequencesExt, FiniteSetsExt

CONSTANTS w1, w2, none

MCN == 5
Lane   == << <<1, 2, 9>>, <<5, 6, 8>>, <<7, 5, 1, 3>>, <<9, 7>>, <<4, 6>> >>
Length == << <<5, 6, 4>>, <<3, 4, 5>>, <<4, 1, 2, 3>>, <<5, 3>>, <<2, 1>> >>

MCSession ==
  [sel : {<<a, b, c, d, 1>> : a \in 1..3, b \in 1..3, c \in 1..4, d \in 1..2},
   pin : {p \cup {5} : p \in SUBSET (1..4)}]
MCStart == [sel |-> <<1, 1, 1, 1, 1>>, pin |-> {5}]

Overlap(sel) == Cardinality({p \in (1..5) \X (1..5) :
                  p[1] < p[2] /\ Lane[p[1]][sel[p[1]]] = Lane[p[2]][sel[p[2]]]})

MCEligible(s, b) == b \notin s.pin
MCAlternates(s, b) == SetToSortSeq(DOMAIN Lane[b] \ {s.sel[b]}, LAMBDA x, y : x < y)
MCScreened(s, b) ==
  LET bad(t) == Overlap([s.sel EXCEPT ![b] = t]) IN
  SetToSortSeq(DOMAIN Lane[b] \ {s.sel[b]},
    LAMBDA x, y : bad(x) < bad(y) \/ (bad(x) = bad(y) /\ x < y))
MCAccepts(s, b, t) ==
  /\ Overlap([s.sel EXCEPT ![b] = t]) <= Overlap(s.sel)
  /\ Length[b][t] < Length[b][s.sel[b]]
MCMoved(s, b, t) == [sel |-> [s.sel EXCEPT ![b] = t], pin |-> s.pin \cup {b}]
=============================================================================
