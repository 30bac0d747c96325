-------------------------- MODULE MCCandidatePool --------------------------
(***************************************************************************)
(* Two generated shapes, a and b, variants of one nominal locus, and one   *)
(* drawn shape that ranks between them.  One split per shape is enough for *)
(* a split to be appended, overwritten, re-sorted into the middle, deleted *)
(* and left behind, and four places hold all the shapes and a split.       *)
(***************************************************************************)
EXTENDS CandidatePool

CONSTANTS a, b, u

MCGenerated == {a, b}
MCHand == {u}
MCRank == (a :> 1) @@ (u :> 2) @@ (b :> 3)
MCFamilies == {{a, b}}
=============================================================================
