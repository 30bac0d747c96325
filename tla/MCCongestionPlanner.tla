------------------------ MODULE MCCongestionPlanner ------------------------
(***************************************************************************)
(* A small design for CongestionPlanner: three bands and one share budget, *)
(* eight bundles.  A global bundle g, two of middle rank (m, n), a local   *)
(* one with a reservation (l), a locked template copy (k), one whose bus   *)
(* is wider than its slide windows (w), one whose layer mask admits        *)
(* nothing (x) and one without candidates (e).                             *)
(***************************************************************************)
EXTENDS CongestionPlanner


MCBundle == {"g", "m", "n", "l", "k", "w", "x", "e"}
MCBand == {"b1", "b2", "b3"}
MCBudget == {"s1"}

MCPool == [b \in MCBundle |->
  CASE b = "g" -> {"gI", "gZ"} [] b = "m" -> {"mI", "mZ"} [] b = "n" -> {"nI", "nZ"}
    [] b = "l" -> {"lI", "lZ"} [] b = "k" -> {"kI"} [] b = "w" -> {"wI"}
    [] b = "x" -> {"xI"} [] OTHER -> {}]

(* Per candidate its segments, per segment the layers it may take and what *)
(* it charges there: a pair is a slot and a number of tracks.              *)
Segs(t) ==
  CASE t = "gI" -> << [M4 |-> {<<"b1", 2>>}, M6 |-> {<<"b2", 2>>}] >>
    [] t = "gZ" -> << [M4 |-> {<<"b1", 2>>}], [M5 |-> {<<"b3", 2>>}] >>
    [] t = "mI" -> << [M4 |-> {<<"b2", 1>>, <<"s1", 1>>}, M6 |-> {<<"b3", 1>>}] >>
    [] t = "mZ" -> << [M4 |-> {<<"b1", 1>>}], [M5 |-> {<<"b2", 1>>}, M7 |-> {<<"b3", 1>>}] >>
    [] t = "nI" -> << [M4 |-> {<<"b2", 2>>, <<"s1", 1>>}, M6 |-> {<<"b1", 2>>}] >>
    [] t = "nZ" -> << [M4 |-> {<<"b3", 1>>}] >>
    [] t = "lI" -> << [M4 |-> {<<"b1", 2>>}] >>
    [] t = "lZ" -> << [M4 |-> {<<"b3", 2>>}] >>
    [] t = "kI" -> << [M4 |-> {<<"b3", 1>>}, M6 |-> {<<"b2", 1>>}] >>
    [] t = "wI" -> << [M4 |-> {<<"b3", 1>>}] >>
    [] OTHER -> << [none \in {} |-> {}] >>

MCPlan ==
  UNION {{[topo |-> t, layers |-> ls] :
            ls \in {f \in [DOMAIN Segs(t) -> {"M4", "M5", "M6", "M7"}] :
                      \A i \in DOMAIN Segs(t) : f[i] \in DOMAIN Segs(t)[i]}} :
          t \in UNION {MCPool[b] : b \in MCBundle}}

SegDemand(p, i, s) ==
  LET there == {d \in Segs(p.topo)[i][p.layers[i]] : d[1] = s}
  IN  IF there = {} THEN 0 ELSE (CHOOSE d \in there : TRUE)[2]

MCUpto == [p \in MCPlan |->
  [k \in 0..Len(p.layers) |->
    [s \in MCBand \cup MCBudget |->
       Total(1..k, [i \in 1..k |-> SegDemand(p, i, s)])]]]

MCCap == [s \in MCBand \cup MCBudget |->
            CASE s = "b1" -> 5 [] s = "b2" -> 3 [] s = "b3" -> 3 [] OTHER -> 1]
(* The scoring of m sees band b3 narrowed by its slide window. *)
MCSees == [p \in MCPlan |-> [s \in MCBand \cup MCBudget |->
             IF p.topo = "mZ" /\ s = "b3" THEN 1 ELSE MCCap[s]]]
MCInWindow == {p \in MCPlan : p.topo # "wI"}
MCPin == [b \in MCBundle |-> IF b = "n" THEN {"nI"} ELSE {}]
MCReserve == [b \in MCBundle |-> [s \in MCBand \cup MCBudget |->
               IF b = "l" /\ s = "b2" THEN 1 ELSE 0]]
MCLocked == {"k"}
MCPriority == [b \in MCBundle |->
  CASE b = "g" -> 3 [] b \in {"m", "n"} -> 2 [] OTHER -> 1]
MCWidth == [b \in MCBundle |-> IF b \in {"g", "l"} THEN 2 ELSE 1]

=============================================================================
