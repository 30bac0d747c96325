------------------------ MODULE MCIncrementalPlanner ------------------------
(***************************************************************************)
(* Three bands, a share budget, five bundles.  a is wide and wants b1 or   *)
(* b2; n holds most of b1 but has nowhere else to go, m can make room; g   *)
(* stays in its group; k is a template copy on the same band.              *)
(***************************************************************************)
EXTENDS IncrementalPlanner

MCBundle == {"a", "m", "n", "g", "k"}
MCTarget == {"a", "g"}
MCBand == {"b1", "b2", "b3"}
MCBudget == {"s1"}
MCPool == [b \in MCBundle |->
  CASE b = "a" -> {"aI", "aX"} [] b = "m" -> {"mI", "mZ"}
    [] b = "n" -> {"nI"} [] b = "g" -> {"gI", "gU"} [] OTHER -> {"kI"}]
MCGroup == [b \in MCBundle |-> IF b = "g" THEN {"gI"} ELSE {}]
MCLocked == {"k"}

(* Per candidate its segments, per segment the layers it may take and what *)
(* it charges there: a pair is a slot and a number of tracks.              *)
Segs(t) ==
  CASE t = "aI" -> << [M4 |-> {<<"b1", 2>>}, M6 |-> {<<"b2", 2>>}] >>
    [] t = "mI" -> << [M4 |-> {<<"b1", 1>>, <<"s1", 1>>}, M6 |-> {<<"b3", 1>>}] >>
    [] t = "mZ" -> << [M4 |-> {<<"b2", 1>>}] >>
    [] t = "nI" -> << [M4 |-> {<<"b1", 2>>}] >>
    [] t = "gI" -> << [M4 |-> {<<"b2", 2>>, <<"s1", 1>>}, M6 |-> {<<"b3", 1>>}] >>
    [] t = "gU" -> << [M4 |-> {<<"b1", 1>>}] >>
    [] t = "kI" -> << [M4 |-> {<<"b1", 1>>}] >>
    [] OTHER -> << [none \in {} |-> {}] >>

MCPlan ==
  UNION {{[topo |-> t, layers |-> ls] :
            ls \in {f \in [DOMAIN Segs(t) -> {"M4", "M5", "M6"}] :
                      \A i \in DOMAIN Segs(t) : f[i] \in DOMAIN Segs(t)[i]}} :
          t \in UNION {MCPool[b] : b \in MCBundle}}

SegDemand(p, i, s) ==
  LET there == {d \in Segs(p.topo)[i][p.layers[i]] : d[1] = s}
  IN  IF there = {} THEN 0 ELSE (CHOOSE d \in there : TRUE)[2]

MCUpto == [p \in MCPlan |->
  [k \in 0..Len(p.layers) |->
    [s \in MCBand \cup MCBudget |->
       Total(1..k, [i \in 1..k |-> SegDemand(p, i, s)])]]]
MCCap == [s \in MCBand \cup MCBudget |->
            CASE s = "b1" -> 5 [] s = "b2" -> 3 [] s = "b3" -> 2 [] OTHER -> 1]
MCSees == [p \in MCPlan |-> MCCap]
MCInWindow == {p \in MCPlan : p.topo # "gI" \/ p.layers = <<"M4">>}

MCStartRoute == [b \in MCBundle |->
  CASE b = "a" -> [topo |-> "aI", layers |-> <<"M4">>]
    [] b = "m" -> [topo |-> "mI", layers |-> <<"M4">>]
    [] b = "n" -> [topo |-> "nI", layers |-> <<"M4">>]
    [] b = "g" -> [topo |-> "gI", layers |-> <<"M6">>]
    [] OTHER -> [topo |-> "kI", layers |-> <<"M4">>]]
MCStartPinned == {"m"}
MCPrices == {[s \in MCBand \cup MCBudget |-> IF s = "b1" THEN 2 ELSE 0],
             [s \in MCBand \cup MCBudget |-> IF s \in {"b2", "b3"} THEN 1 ELSE 0]}
=============================================================================
