------------------------------- MODULE MCNuts -------------------------------
(***************************************************************************)
(* Two bundles on three layers.  The first has a trunk that was split: the *)
(* pieces 1 and 4 run from block faces to the jog 3, and 2 taps the first  *)
(* of them in passing.  Of the second, 6 and 7 are aligned and hang off    *)
(* the trunk 5.  The piece 1 and the trunk 5 may get the same track, and   *)
(* so may 2 and both of 6 and 7.  A block is crossed by 6, and by 7 on     *)
(* some tracks; of another, whose rectangles need an anchor each, both     *)
(* cross the first, 6 alone the second.                                    *)
(***************************************************************************)
EXTENDS Nuts

MCSeg == 1..7
MCBundle == <<"a", "a", "a", "a", "b", "b", "b">>
MCLayer == <<2, 1, 3, 2, 2, 1, 1>>
MCOrder == <<1, 2, 3>>
MCLead == {1, 3}
MCWindow == <<{1, 2}, {1, 2}, {1, 2}, {4}, {2, 3}, {1, 2}, {1, 2}>>
MCNominal ==
  <<<<0, 2>>, <<0, 2>>, <<2, 4>>, <<2, 4>>, <<1, 4>>, <<2, 4>>, <<2, 4>>>>
Meeting(s, slo, send, t, tlo, tend) ==
  {[of |-> s, to |-> t, lo |-> slo, end |-> send],
   [of |-> t, to |-> s, lo |-> tlo, end |-> tend]}
MCJunction ==
  Meeting(1, FALSE, FALSE, 2, FALSE, TRUE)
    \cup Meeting(1, FALSE, TRUE, 3, TRUE, TRUE)
    \cup Meeting(4, TRUE, TRUE, 3, FALSE, TRUE)
    \cup Meeting(5, TRUE, TRUE, 6, TRUE, TRUE)
    \cup Meeting(5, TRUE, TRUE, 7, TRUE, TRUE)
MCFaces == <<{0}, {0}, {}, {4}, {4}, {}, {4}>>
MCPull == <<Unplaced, Unplaced, Unplaced, Unplaced, Unplaced, 2, 2>>
MCCrossing ==
  {[seg |-> 6, block |-> "m", rect |-> 0, own |-> FALSE, lo |-> 3, hi |-> 4, seats |-> {1, 2}],
   [seg |-> 7, block |-> "m", rect |-> 0, own |-> FALSE, lo |-> 3, hi |-> 4, seats |-> {2}],
   [seg |-> 6, block |-> "o", rect |-> 0, own |-> TRUE, lo |-> 2, hi |-> 3, seats |-> {1}],
   [seg |-> 6, block |-> "o", rect |-> 1, own |-> TRUE, lo |-> 3, hi |-> 4, seats |-> {1}],
   [seg |-> 7, block |-> "o", rect |-> 0, own |-> TRUE, lo |-> 2, hi |-> 3, seats |-> {1, 2}]}
=============================================================================
