------------------------------- MODULE Tracks -------------------------------
(***************************************************************************)
(* Sums of track demand.                                                   *)
(*                                                                         *)
(* The congestion planner keeps one number per band, the demand that all   *)
(* bundles together put there.  A demand of n is read here as n tracks, a  *)
(* track as the pair of its owner and its index, and the sum of the        *)
(* demands of several owners as the number of their tracks.                *)
(***************************************************************************)
EXTENDS Integers, FiniteSets

(* The tracks that the owners in S claim under the demand f. *)
TracksOf(S, f) == UNION {{x} \X (1..f[x]) : x \in S}

(* The sum of f over S, f being natural-valued and S finite. *)
Total(S, f) == Cardinality(TracksOf(S, f))

=============================================================================
