----------------------- MODULE CongestionPlanner_proofs -----------------------
(***************************************************************************)
(* What CongestionPlanner keeps true for every design: types, the exact    *)
(* balance of the congestion books, and the fit of the routes committed    *)
(* without overflow.                                                       *)
(***************************************************************************)
EXTENDS CongestionPlanner, FiniteSetTheorems, FunctionTheorems, TLAPS

-----------------------------------------------------------------------------
(* Sums of track demand.  They follow from counting tracks: no induction   *)
(* over the owners is needed.                                              *)

(* A track belongs to one owner and has an index below its demand. *)
LEMMA TracksMember ==
  ASSUME NEW S, NEW f
  PROVE  \A t : t \in TracksOf(S, f) <=>
                  \E x \in S : \E i \in 1..f[x] : t = <<x, i>>
BY DEF TracksOf

(* The tracks of one owner: as many as its demand. *)
LEMMA OwnTracks ==
  ASSUME NEW x, NEW n \in Nat
  PROVE  IsFiniteSet({x} \X (1..n)) /\ Cardinality({x} \X (1..n)) = n
<1>1. IsFiniteSet({x}) /\ Cardinality({x}) = 1
  BY FS_Singleton
<1>2. IsFiniteSet(1..n) /\ Cardinality(1..n) = n
  BY FS_Interval
<1>3. /\ IsFiniteSet({x} \X (1..n))
      /\ Cardinality({x} \X (1..n)) = Cardinality({x}) * Cardinality(1..n)
  BY <1>1, <1>2, FS_Product
<1> QED  BY <1>1, <1>2, <1>3

(* Finitely many owners claim finitely many tracks: the sum is a number. *)
LEMMA TracksFinite ==
  ASSUME NEW S, IsFiniteSet(S), NEW f, \A x \in S : f[x] \in Nat
  PROVE  IsFiniteSet(TracksOf(S, f)) /\ Total(S, f) \in Nat
<1> DEFINE T == {{x} \X (1..f[x]) : x \in S}
<1> DEFINE own == [x \in S |-> {x} \X (1..f[x])]
<1>1. own \in Surjection(S, T)
  <2>1. own \in [S -> T]
    OBVIOUS
  <2>2. \A t \in T : \E x \in S : own[x] = t
    OBVIOUS
  <2> QED  BY <2>1, <2>2 DEF Surjection
<1>2. IsFiniteSet(T)
  <2> HIDE DEF T, own
  <2> QED  BY <1>1, FS_Surjection
<1>3. ASSUME NEW t \in T  PROVE IsFiniteSet(t)
  <2>1. PICK x \in S : t = {x} \X (1..f[x])
    OBVIOUS
  <2>2. IsFiniteSet({x} \X (1..f[x]))
    BY OwnTracks
  <2> QED  BY <2>1, <2>2
<1>4. IsFiniteSet(UNION T)
  <2> HIDE DEF T, own
  <2> QED  BY <1>2, <1>3, FS_UNION
<1>5. TracksOf(S, f) = UNION T
  BY DEF TracksOf
<1>6. IsFiniteSet(TracksOf(S, f))
  BY <1>4, <1>5
<1> QED  BY <1>6, FS_CardinalityType DEF Total

(* One owner can be taken out of a sum. *)
LEMMA TotalSplit ==
  ASSUME NEW S, IsFiniteSet(S), NEW f, \A x \in S : f[x] \in Nat, NEW b \in S
  PROVE  /\ Total(S \ {b}, f) \in Nat
         /\ Total(S, f) = Total(S \ {b}, f) + f[b]
<1> DEFINE rest == TracksOf(S \ {b}, f)
<1> DEFINE own == {b} \X (1..f[b])
<1>1. IsFiniteSet(S \ {b})
  BY FS_RemoveElement
<1>2. IsFiniteSet(rest) /\ Total(S \ {b}, f) \in Nat
  BY <1>1, TracksFinite
<1>3. IsFiniteSet(own) /\ Cardinality(own) = f[b]
  BY OwnTracks
<1>4. TracksOf(S, f) = rest \cup own
  <2>1. \A t : t \in own <=> \E i \in 1..f[b] : t = <<b, i>>
    OBVIOUS
  <2> HIDE DEF own
  <2>2. \A t : t \in TracksOf(S, f) <=> t \in rest \/ t \in own
    BY <2>1, TracksMember
  <2> QED  BY <2>2
<1>5. rest \cap own = {}
  BY TracksMember
<1>6. Cardinality(rest \cup own) = Cardinality(rest) + Cardinality(own) - 0
  <2> HIDE DEF rest, own
  <2> QED  BY <1>2, <1>3, <1>5, FS_Union, FS_EmptySet
<1> QED  BY <1>2, <1>3, <1>4, <1>6 DEF Total

(* The sum depends on the demands only, whatever function carries them. *)
LEMMA TotalSame ==
  ASSUME NEW S, NEW f, NEW g, \A x \in S : f[x] = g[x]
  PROVE  Total(S, f) = Total(S, g)
<1>1. \A t : t \in TracksOf(S, f) <=> t \in TracksOf(S, g)
  BY TracksMember
<1>2. TracksOf(S, f) = TracksOf(S, g)
  BY <1>1
<1> QED  BY <1>2 DEF Total

(* When one owner changes its demand the sum changes by as much. *)
LEMMA TotalChange ==
  ASSUME NEW S, IsFiniteSet(S), NEW f, NEW g, NEW b \in S,
         \A x \in S : f[x] \in Nat /\ g[x] \in Nat,
         \A x \in S \ {b} : f[x] = g[x]
  PROVE  Total(S, g) = Total(S, f) - f[b] + g[b]
<1>1. Total(S \ {b}, f) = Total(S \ {b}, g)
  BY TotalSame
<1>2. /\ Total(S \ {b}, f) \in Nat
      /\ Total(S, f) = Total(S \ {b}, f) + f[b]
  BY TotalSplit
<1>3. Total(S, g) = Total(S \ {b}, g) + g[b]
  BY TotalSplit
<1> QED  BY <1>1, <1>2, <1>3

(* More owners with larger demands have a larger sum. *)
LEMMA TotalMonotone ==
  ASSUME NEW S, IsFiniteSet(S), NEW T \in SUBSET S, NEW f, NEW g,
         \A x \in S : g[x] \in Nat,
         \A x \in T : f[x] \in Nat /\ f[x] <= g[x]
  PROVE  Total(T, f) <= Total(S, g)
<1>1. TracksOf(T, f) \subseteq TracksOf(S, g)
  <2>1. \A x \in T : x \in S /\ \A i \in 1..f[x] : i \in 1..g[x]
    OBVIOUS
  <2>2. \A t : t \in TracksOf(T, f) => t \in TracksOf(S, g)
    BY <2>1, TracksMember
  <2> QED  BY <2>2
<1>2. IsFiniteSet(TracksOf(S, g))
  BY TracksFinite
<1> QED  BY <1>1, <1>2, FS_Subset DEF Total

(* Owners without demand can be left out of a sum. *)
LEMMA TotalSubset ==
  ASSUME NEW S, NEW T \in SUBSET S, NEW f, NEW g,
         \A x \in T : f[x] = g[x],
         \A x \in S \ T : g[x] = 0
  PROVE  Total(T, f) = Total(S, g)
<1>1. \A t : t \in TracksOf(T, f) <=> t \in TracksOf(S, g)
  BY TracksMember
<1>2. TracksOf(T, f) = TracksOf(S, g)
  BY <1>1
<1> QED  BY <1>2 DEF Total

(* Without demand the sum is zero. *)
LEMMA TotalZero ==
  ASSUME NEW S, NEW f, \A x \in S : f[x] = 0
  PROVE  Total(S, f) = 0
<1>1. \A t : t \notin TracksOf(S, f)
  BY TracksMember
<1>2. TracksOf(S, f) = {}
  BY <1>1
<1> QED  BY <1>2, FS_EmptySet DEF Total

-----------------------------------------------------------------------------
(* Routes and what they charge.                                            *)

(* What a route charges on a band or budget is a number of tracks. *)
LEMMA DemandNat ==
  ASSUME NEW p \in Plan, NEW s \in Slot
  PROVE  Demand(p)[s] \in Nat
<1>1. Len(p.layers) \in 0..Len(p.layers)
  BY PlanAssumption
<1> QED  BY <1>1, PlanAssumption DEF Demand

(* A search returns a route or None, and in strict mode one that fits. *)
LEMMA PlanBundle ==
  ASSUME NEW b, NEW mode, NEW u, NEW p \in plan_bundle(b, mode, u)
  PROVE  /\ p \in Plan \cup {None}
         /\ p # None => p \in Plan
         /\ p # None /\ mode = "STRICT" => Fits(p, u)
BY DEF plan_bundle, Found, Admissible

(* An overflow-free route leaves the bands it charges within capacity. *)
LEMMA FitsCap ==
  ASSUME NEW p \in Plan, NEW u, Fits(p, u), NEW s \in Slot, u[s] \in Int,
         Demand(p)[s] > 0
  PROVE  u[s] + Demand(p)[s] <= Cap[s]
<1>1. u[s] + Demand(p)[s] <= Sees[p][s]
  BY DEF Fits, FitsUpto, Demand
<1>2. Sees[p][s] \in 0..Cap[s] /\ Cap[s] \in Nat
  BY CapAssumption
<1> QED  BY <1>1, <1>2, DemandNat

(* Charging a route, taking it back and releasing a reservation keep the   *)
(* books integral.                                                         *)
LEMMA BooksType ==
  ASSUME NEW u \in [Slot -> Int]
  PROVE  /\ \A p \in Plan : Charge(u, p) \in [Slot -> Int]
         /\ \A p \in Plan : Uncharge(u, p) \in [Slot -> Int]
         /\ \A b \in Bundle : Release(u, b) \in [Slot -> Int]
BY DemandNat, ReserveAssumption DEF Charge, Uncharge, Release

LEMMA FiniteBundles == IsFiniteSet(Bundle) /\ IsFiniteSet(Routable)
<1>1. Routable \in SUBSET Bundle
  BY DEF Routable
<1> QED  BY <1>1, FiniteAssumption, FS_Subset

(* What the reservations of all routable bundles add up to. *)
LEMMA ReserveNat ==
  ASSUME NEW s \in Slot
  PROVE  Total(Routable, [b \in Routable |-> Reserve[b][s]]) \in Nat
<1>1. \A b \in Routable : [c \in Routable |-> Reserve[c][s]][b] \in Nat
  BY ReserveAssumption DEF Routable
<1> QED  BY <1>1, FiniteBundles, TracksFinite

-----------------------------------------------------------------------------
(* The shape of a run: which variables hold what in which phase.  The      *)
(* balance of the books is inductive only together with it.                *)

Turns == {"turn", "ladder", "ripped", "squeezed"}

Shape ==
  /\ asn = plan
  /\ pc \notin Turns => parked = {}
  /\ pc \in Turns => /\ parked = todo \cap Routable
                     /\ \A b \in todo : plan[b] = None
  /\ pc \in Turns \ {"turn"} => /\ target \in Bundle /\ target \notin todo
                                /\ plan[target] = None
  /\ pc \in {"ripped", "squeezed"} => victim \in Bundle /\ plan[victim] # None
  /\ pc = "squeezed" => mine \in Plan
  /\ \A b \in ToSet(committed) : plan[b] # None
  /\ pc = "refine" => \A b \in todo : plan[b] # None
  /\ pc = "idle" => usage = [s \in Slot |-> 0] /\ plan = [b \in Bundle |-> None]

TypeShape == TypeOK /\ Shape

LEMMA InitTypeShape == Init => TypeShape
<1> SUFFICES ASSUME Init  PROVE TypeShape
  OBVIOUS
<1>1. <<>> \in Seq(Bundle) /\ ToSet(<<>>) = {}
  BY DEF ToSet
<1>2. TypeOK
  <2>1. usage \in [Slot -> Int] /\ plan \in [Bundle -> Plan \cup {None}]
    BY DEF Init
  <2>2. committed \in Seq(Bundle) /\ pass \in 0..Passes
    BY <1>1, PassesAssumption DEF Init
  <2> QED  BY <2>1, <2>2 DEF Init, TypeOK
<1>3. Shape
  BY <1>1 DEF Init, Shape, Turns
<1> QED  BY <1>2, <1>3 DEF TypeShape

(* The bundles of a commit order, and of a longer one. *)
LEMMA ToSetType ==
  ASSUME NEW q \in Seq(Bundle)
  PROVE  ToSet(q) \subseteq Bundle
BY DEF ToSet

LEMMA ToSetAppend ==
  ASSUME NEW q \in Seq(Bundle), NEW b \in Bundle
  PROVE  /\ Append(q, b) \in Seq(Bundle)
         /\ ToSet(q) \subseteq Bundle
         /\ ToSet(Append(q, b)) = ToSet(q) \cup {b}
<1>1. Append(q, b) \in Seq(Bundle)
  OBVIOUS
<1>2. ToSet(q) \subseteq Bundle
  BY ToSetType
<1>3. DOMAIN Append(q, b) = DOMAIN q \cup {Len(q) + 1}
  OBVIOUS
<1>4. \A i \in DOMAIN q : Append(q, b)[i] = q[i]
  OBVIOUS
<1>5. Append(q, b)[Len(q) + 1] = b
  OBVIOUS
<1> HIDE DEF ToSet
<1>6. ToSet(Append(q, b)) = ToSet(q) \cup {b}
  BY <1>3, <1>4, <1>5, Zenon DEF ToSet
<1> QED  BY <1>1, <1>2, <1>6

LEMMA NextTypeShape == TypeShape /\ [Next]_vars => TypeShape'
<1> SUFFICES ASSUME TypeOK, Shape, [Next]_vars  PROVE TypeOK' /\ Shape'
  BY DEF TypeShape
<1> USE DEF Turns
<1>1. CASE Start
  <2>1. ToSet(<<>>) = {} /\ <<>> \in Seq(Bundle)
    BY DEF ToSet
  <2>2. usage' \in [Slot -> Int]
    BY <1>1, ReserveNat DEF Start
  <2>3. Routable \subseteq Bundle
    BY DEF Routable
  <2>4. TypeOK'
    <3>1. committed' \in Seq(Bundle) /\ pass' \in 0..Passes
      BY <1>1, <2>1, PassesAssumption DEF Start
    <3>2. plan' \in [Bundle -> Plan \cup {None}] /\ asn' = plan'
      BY <1>1 DEF Start
    <3> QED  BY <1>1, <2>2, <2>3, <3>1, <3>2 DEF Start, TypeOK
  <2>5. Shape'
    BY <1>1, <2>1, <2>3 DEF Start, Shape
  <2> QED  BY <2>4, <2>5
<1>2. ASSUME NEW b \in Bundle, SkipEmpty(b)  PROVE TypeOK' /\ Shape'
  BY <1>2 DEF SkipEmpty, TypeOK, Shape
<1>3. ASSUME NEW b \in Bundle, PlanStrict(b)  PROVE TypeOK' /\ Shape'
  <2>1. PICK p \in plan_bundle(b, "STRICT", Release(usage, b)) :
             p # None /\ Commit(b, p, Release(usage, b), {})
    BY <1>3 DEF PlanStrict
  <2>2. p \in Plan
    BY <2>1, PlanBundle
  <2>3. usage' \in [Slot -> Int]
    BY <2>1, <2>2, BooksType DEF Commit, TypeOK
  <2>4. committed' \in Seq(Bundle) /\ ToSet(committed') = ToSet(committed) \cup {b}
    BY <2>1, ToSetAppend DEF Commit, TypeOK
  <2>5. ToSet(committed) \subseteq Bundle
    BY ToSetType DEF TypeOK
  <2>6. TypeOK'
    BY <1>3, <2>1, <2>2, <2>3, <2>4 DEF PlanStrict, Commit, TypeOK
  <2>7. Shape'
    BY <1>3, <2>1, <2>2, <2>4, <2>5 DEF PlanStrict, Commit, TypeOK, Shape, IsNext
  <2> QED  BY <2>6, <2>7
<1>4. ASSUME NEW b \in Bundle, EnterLadder(b)  PROVE TypeOK' /\ Shape'
  <2>1. usage' \in [Slot -> Int]
    BY <1>4, BooksType DEF EnterLadder, TypeOK
  <2>2. contended' \subseteq Band
    BY <1>4 DEF EnterLadder, Contended, ContendedBy
  <2>3. TypeOK'
    BY <1>4, <2>1, <2>2 DEF EnterLadder, TypeOK
  <2>4. Shape'
    BY <1>4 DEF EnterLadder, TypeOK, Shape, IsNext
  <2> QED  BY <2>3, <2>4
<1>5. ASSUME NEW v \in Bundle, RipUp(v)  PROVE TypeOK' /\ Shape'
  <2>1. plan[v] \in Plan
    BY <1>5 DEF RipUp, IsNextVictim, Victims, TypeOK
  <2>2. usage' \in [Slot -> Int]
    BY <1>5, <2>1, BooksType DEF RipUp, TypeOK
  <2>3. TypeOK'
    BY <1>5, <2>2 DEF RipUp, TypeOK
  <2>4. Shape'
    BY <1>5 DEF RipUp, IsNextVictim, Victims, Shape
  <2> QED  BY <2>3, <2>4
<1>6. CASE PlanMine
  <2>1. PICK p \in plan_bundle(target, "STRICT", usage) :
             p # None /\ usage' = Charge(usage, p) /\ mine' = p
    BY <1>6 DEF PlanMine
  <2>2. p \in Plan
    BY <2>1, PlanBundle
  <2>3. usage' \in [Slot -> Int]
    BY <2>1, <2>2, BooksType DEF TypeOK
  <2> QED  BY <1>6, <2>1, <2>2, <2>3 DEF PlanMine, TypeOK, Shape
<1>7. CASE AcceptRipUp
  <2>1. PICK p \in plan_bundle(victim, "STRICT", usage) :
             /\ p # None /\ usage' = Charge(usage, p)
             /\ plan' = [plan EXCEPT ![victim] = p, ![target] = mine]
             /\ asn' = [asn EXCEPT ![victim] = p, ![target] = mine]
    BY <1>7 DEF AcceptRipUp
  <2>2. p \in Plan
    BY <2>1, PlanBundle
  <2>3. usage' \in [Slot -> Int]
    BY <2>1, <2>2, BooksType DEF TypeOK
  <2>4. /\ committed' \in Seq(Bundle)
        /\ ToSet(committed') = ToSet(committed) \cup {target}
        /\ ToSet(committed) \subseteq Bundle
    BY <1>7, ToSetAppend DEF AcceptRipUp, TypeOK, Shape
  <2>5. TypeOK'
    BY <1>7, <2>1, <2>2, <2>3, <2>4 DEF AcceptRipUp, LeaveLadder, TypeOK, Shape
  <2>6. mine # None
    BY <1>7, PlanAssumption DEF AcceptRipUp, Shape
  <2>7. Shape'
    BY <1>7, <2>1, <2>2, <2>4, <2>6 DEF AcceptRipUp, LeaveLadder, TypeOK, Shape
  <2> QED  BY <2>5, <2>7
<1>8. CASE Restore
  <2>1. plan[victim] \in Plan
    BY <1>8 DEF Restore, TypeOK, Shape
  <2>2. usage' \in [Slot -> Int]
    <3>1. CASE pc = "ripped"
      BY <1>8, <2>1, <3>1, BooksType DEF Restore, TypeOK
    <3>2. CASE pc = "squeezed"
      <4>1. Uncharge(usage, mine) \in [Slot -> Int]
        BY <3>2, BooksType DEF TypeOK, Shape
      <4> QED  BY <1>8, <2>1, <3>2, <4>1, BooksType DEF Restore
    <3> QED  BY <1>8, <3>1, <3>2 DEF Restore
  <2>3. TypeOK'
    BY <1>8, <2>2 DEF Restore, TypeOK, Shape
  <2>4. Shape'
    BY <1>8 DEF Restore, Shape
  <2> QED  BY <2>3, <2>4
<1>9. CASE PlanRelaxed
  <2>1. target \in Bundle /\ pc = "ladder"
    BY <1>9 DEF PlanRelaxed, Shape
  <2>2. PICK p \in Relaxed(target) :
             \/ p # None /\ Commit(target, p, usage, {target})
             \/ p = None /\ UNCHANGED <<usage, plan, asn, committed, soft>>
    BY <1>9 DEF PlanRelaxed
  <2>3. p # None => p \in Plan
    BY <2>2 DEF Relaxed, Relax, Found
  <2>4. CASE p = None /\ UNCHANGED <<usage, plan, asn, committed, soft>>
    BY <1>9, <2>1, <2>4 DEF PlanRelaxed, LeaveLadder, TypeOK, Shape
  <2>5. CASE p # None /\ Commit(target, p, usage, {target})
    <3>1. usage' \in [Slot -> Int]
      BY <2>3, <2>5, BooksType DEF Commit, TypeOK
    <3>2. /\ committed' \in Seq(Bundle)
          /\ ToSet(committed') = ToSet(committed) \cup {target}
          /\ ToSet(committed) \subseteq Bundle
      BY <2>1, <2>5, ToSetAppend DEF Commit, TypeOK
    <3>3. TypeOK'
      BY <1>9, <2>1, <2>3, <2>5, <3>1, <3>2
         DEF PlanRelaxed, LeaveLadder, Commit, TypeOK
    <3>4. Shape'
      BY <1>9, <2>1, <2>3, <2>5, <3>2
         DEF PlanRelaxed, LeaveLadder, Commit, TypeOK, Shape
    <3> QED  BY <3>3, <3>4
  <2> QED  BY <2>2, <2>4, <2>5
<1> DEFINE Over == pc \in {"turn", "refine"} /\ todo = {}
<1>15. ASSUME Over, NEW n \in 1..Passes, StartPass(n)  PROVE TypeOK' /\ Shape'
  <2>1. ToSet(committed) \subseteq Bundle
    BY ToSetType DEF TypeOK
  <2>2. pass' \in 0..Passes
    BY <1>15, PassesAssumption DEF StartPass
  <2>3. TypeOK'
    BY <1>15, <2>1, <2>2 DEF StartPass, TypeOK
  <2>4. Shape'
    BY <1>15 DEF StartPass, Shape
  <2> QED  BY <2>3, <2>4
<1>16. ASSUME Over, Finish  PROVE TypeOK' /\ Shape'
  BY <1>16 DEF Finish, TypeOK, Shape
<1>10. CASE EndTurns
  BY <1>10, <1>15, <1>16, PassesAssumption DEF EndTurns
<1>11. CASE EndPass
  BY <1>11, <1>15, <1>16, PassesAssumption DEF EndPass, TypeOK
<1>12. ASSUME NEW b \in Bundle, KeepRoute(b)  PROVE TypeOK' /\ Shape'
  <2>1. plan[b] \in Plan
    BY <1>12 DEF KeepRoute, IsNextRefined, TypeOK, Shape
  <2>2. usage' \in [Slot -> Int]
    BY <1>12, <2>1, BooksType DEF KeepRoute, TypeOK
  <2> QED  BY <1>12, <2>2 DEF KeepRoute, TypeOK, Shape
<1>13. ASSUME NEW b \in Bundle, AdoptRoute(b)  PROVE TypeOK' /\ Shape'
  <2>1. plan[b] \in Plan
    BY <1>13 DEF AdoptRoute, IsNextRefined, TypeOK, Shape
  <2>2. PICK p \in plan_bundle(b, "STRICT", Uncharge(usage, plan[b])) :
             /\ p # None /\ usage' = Charge(Uncharge(usage, plan[b]), p)
             /\ plan' = [plan EXCEPT ![b] = p] /\ asn' = [asn EXCEPT ![b] = p]
    BY <1>13 DEF AdoptRoute
  <2>3. p \in Plan
    BY <2>2, PlanBundle
  <2>4. usage' \in [Slot -> Int]
    BY <2>1, <2>2, <2>3, BooksType DEF TypeOK
  <2>5. ToSet(committed) \subseteq Bundle
    BY ToSetType DEF TypeOK
  <2> QED  BY <1>13, <2>2, <2>3, <2>4, <2>5 DEF AdoptRoute, TypeOK, Shape
<1>14. CASE UNCHANGED vars
  BY <1>14 DEF vars, TypeOK, Shape
<1> QED
  BY <1>1, <1>2, <1>3, <1>4, <1>5, <1>6, <1>7, <1>8, <1>9, <1>10, <1>11,
     <1>12, <1>13, <1>14 DEF Next

(* The variables keep their types in every design. *)
THEOREM TypeCorrect == Spec => []TypeOK
<1>1. TypeShape => TypeOK
  BY DEF TypeShape
<1> QED  BY <1>1, InitTypeShape, NextTypeShape, PTL DEF Spec

-----------------------------------------------------------------------------
(* The balance of the books.                                               *)

Held(s) == [b \in Bundle |-> Holds(b, s)]

LEMMA HeldNat ==
  ASSUME TypeShape, NEW s \in Slot, NEW b \in Bundle
  PROVE  Holds(b, s) \in Nat
BY DemandNat, ReserveAssumption DEF TypeShape, TypeOK, Shape, Holds

(* One bundle exchanges what it holds, and the books follow. *)
LEMMA BalanceOne ==
  ASSUME TypeShape, TypeShape', BooksBalance, NEW b \in Bundle,
         \A s \in Slot : \A c \in Bundle \ {b} : Holds(c, s)' = Holds(c, s),
         \A s \in Slot : usage'[s] = usage[s] - Holds(b, s) + Holds(b, s)'
  PROVE  BooksBalance'
<1> SUFFICES ASSUME NEW s \in Slot
             PROVE  usage'[s] = Total(Bundle, Held(s)')
  BY DEF BooksBalance, Held
<1>1. \A c \in Bundle : /\ Held(s)[c] = Holds(c, s)
                        /\ Held(s)'[c] = Holds(c, s)'
  BY DEF Held
<1>2. \A c \in Bundle : Holds(c, s) \in Nat
  BY HeldNat
<1>3. \A c \in Bundle : Holds(c, s)' \in Nat
  BY DemandNat, ReserveAssumption DEF TypeShape, TypeOK, Shape, Holds
<1>4. Total(Bundle, Held(s)') = Total(Bundle, Held(s)) - Held(s)[b] + Held(s)'[b]
  BY <1>1, <1>2, <1>3, FiniteAssumption, TotalChange
<1>5. usage[s] = Total(Bundle, Held(s))
  BY DEF BooksBalance, Held
<1> QED  BY <1>1, <1>4, <1>5

(* Two bundles do. *)
LEMMA BalanceTwo ==
  ASSUME TypeShape, TypeShape', BooksBalance,
         NEW b \in Bundle, NEW d \in Bundle, b # d,
         \A s \in Slot : \A c \in Bundle \ {b, d} : Holds(c, s)' = Holds(c, s),
         \A s \in Slot : usage'[s] = usage[s] - Holds(b, s) - Holds(d, s)
                                       + Holds(b, s)' + Holds(d, s)'
  PROVE  BooksBalance'
<1> SUFFICES ASSUME NEW s \in Slot
             PROVE  usage'[s] = Total(Bundle, Held(s)')
  BY DEF BooksBalance, Held
<1>1. \A c \in Bundle : /\ Held(s)[c] = Holds(c, s)
                        /\ Held(s)'[c] = Holds(c, s)'
  BY DEF Held
<1>2. \A c \in Bundle : Holds(c, s) \in Nat
  BY HeldNat
<1>3. \A c \in Bundle : Holds(c, s)' \in Nat
  BY DemandNat, ReserveAssumption DEF TypeShape, TypeOK, Shape, Holds
<1>6. \A c \in Bundle : Held(s)[c] \in Nat /\ Held(s)'[c] \in Nat
  BY <1>1, <1>2, <1>3
<1>7. \A c \in Bundle \ {b, d} : Held(s)[c] = Held(s)'[c]
  BY <1>1
<1>4. Total(Bundle, Held(s)') = Total(Bundle, Held(s)) - Held(s)[b] - Held(s)[d]
                                  + Held(s)'[b] + Held(s)'[d]
  <2> DEFINE half == [c \in Bundle |-> IF c = b THEN Held(s)'[c] ELSE Held(s)[c]]
  <2>1. \A c \in Bundle : half[c] \in Nat
    BY <1>6
  <2>2. half[b] = Held(s)'[b] /\ half[d] = Held(s)[d]
    OBVIOUS
  <2>3. \A c \in Bundle \ {b} : Held(s)[c] = half[c]
    OBVIOUS
  <2>4. \A c \in Bundle \ {d} : half[c] = Held(s)'[c]
    BY <1>7
  <2> HIDE DEF half
  <2>5. Total(Bundle, half) = Total(Bundle, Held(s)) - Held(s)[b] + half[b]
    BY <1>6, <2>1, <2>3, FiniteAssumption, TotalChange
  <2>6. Total(Bundle, Held(s)') = Total(Bundle, half) - half[d] + Held(s)'[d]
    BY <1>6, <2>1, <2>4, FiniteAssumption, TotalChange
  <2>7. Total(Bundle, Held(s)) \in Nat /\ Total(Bundle, half) \in Nat
    BY <1>6, <2>1, FiniteAssumption, TracksFinite
  <2> QED  BY <1>6, <2>1, <2>2, <2>5, <2>6, <2>7
<1>5. usage[s] = Total(Bundle, Held(s))
  BY DEF BooksBalance, Held
<1> QED  BY <1>1, <1>4, <1>5

(* Nobody does, and the books stand still. *)
LEMMA BalanceSame ==
  ASSUME BooksBalance,
         \A s \in Slot : usage'[s] = usage[s],
         \A s \in Slot : \A b \in Bundle : Holds(b, s)' = Holds(b, s)
  PROVE  BooksBalance'
<1> SUFFICES ASSUME NEW s \in Slot
             PROVE  usage'[s] = Total(Bundle, Held(s)')
  BY DEF BooksBalance, Held
<1>1. \A b \in Bundle : Held(s)[b] = Held(s)'[b]
  BY DEF Held
<1>2. Total(Bundle, Held(s)) = Total(Bundle, Held(s)')
  BY <1>1, TotalSame
<1> QED  BY <1>2 DEF BooksBalance, Held

LEMMA InitBalance == Init => BooksBalance
<1> SUFFICES ASSUME Init, NEW s \in Slot
             PROVE  usage[s] = Total(Bundle, Held(s))
  BY DEF BooksBalance, Held
<1>1. \A b \in Bundle : Held(s)[b] = 0
  BY DEF Init, Held, Holds
<1> QED  BY <1>1, TotalZero DEF Init

LEMMA StartBalance == TypeShape' /\ Start => BooksBalance'
<1> SUFFICES ASSUME TypeShape', Start, NEW s \in Slot
             PROVE  usage'[s] = Total(Bundle, Held(s)')
  BY DEF BooksBalance, Held
<1> DEFINE reserve == [b \in Routable |-> Reserve[b][s]]
<1>1. Routable \in SUBSET Bundle
  BY DEF Routable
<1>2. \A b \in Routable : reserve[b] = Held(s)'[b]
  BY <1>1 DEF Start, Held, Holds
<1>3. \A b \in Bundle \ Routable : Held(s)'[b] = 0
  BY DEF Start, Held, Holds
<1>4. Total(Routable, reserve) = Total(Bundle, Held(s)')
  <2> HIDE DEF reserve
  <2> QED  BY <1>1, <1>2, <1>3, TotalSubset
<1> QED  BY <1>4 DEF Start

LEMMA NextBalance == TypeShape /\ TypeShape' /\ BooksBalance /\ [Next]_vars => BooksBalance'
<1> SUFFICES ASSUME TypeShape, TypeShape', BooksBalance, [Next]_vars
             PROVE  BooksBalance'
  OBVIOUS
<1>0. TypeOK /\ Shape /\ TypeOK' /\ Shape'
  BY DEF TypeShape
<1> USE DEF Turns
<1>a. \A b \in Bundle : plan[b] # None => plan[b] \in Plan
  BY <1>0 DEF TypeOK
<1>b. \A s \in Slot : usage[s] \in Int
  BY <1>0 DEF TypeOK
<1>c. \A p \in Plan : \A s \in Slot : Demand(p)[s] \in Nat
  BY DemandNat
<1>1. CASE Start
  BY <1>1, StartBalance
<1>2. ASSUME NEW b \in Bundle, SkipEmpty(b)  PROVE BooksBalance'
  BY <1>2, BalanceSame DEF SkipEmpty, Holds
<1>3. ASSUME NEW b \in Bundle, PlanStrict(b)  PROVE BooksBalance'
  <2>1. PICK p \in plan_bundle(b, "STRICT", Release(usage, b)) :
             p # None /\ Commit(b, p, Release(usage, b), {})
    BY <1>3 DEF PlanStrict
  <2>2. p \in Plan
    BY <2>1, PlanBundle
  <2>3. b \in parked /\ b \notin parked'
    BY <1>0, <1>3 DEF PlanStrict, IsNext, Shape
  <2>4. plan'[b] = p /\ \A c \in Bundle \ {b} : plan'[c] = plan[c]
    BY <1>0, <2>1 DEF Commit, TypeOK
  <2>5. \A s \in Slot : Holds(b, s) = Reserve[b][s] /\ Holds(b, s)' = Demand(p)[s]
    BY <1>3, <2>1, <2>3, <2>4 DEF PlanStrict, Holds
  <2>6. \A s \in Slot : \A c \in Bundle \ {b} : Holds(c, s)' = Holds(c, s)
    BY <1>3, <2>4 DEF PlanStrict, Holds
  <2>7. \A s \in Slot : usage'[s] = usage[s] - Holds(b, s) + Holds(b, s)'
    BY <1>b, <1>c, <2>1, <2>2, <2>5, ReserveAssumption DEF Commit, Charge, Release
  <2> QED  BY <2>6, <2>7, BalanceOne
<1>4. ASSUME NEW b \in Bundle, EnterLadder(b)  PROVE BooksBalance'
  <2>1. b \in parked /\ b \notin parked' /\ plan[b] = None
    BY <1>0, <1>4 DEF EnterLadder, IsNext, Shape
  <2>2. \A s \in Slot : Holds(b, s) = Reserve[b][s] /\ Holds(b, s)' = 0
    BY <1>4, <2>1 DEF EnterLadder, Holds
  <2>3. \A s \in Slot : \A c \in Bundle \ {b} : Holds(c, s)' = Holds(c, s)
    BY <1>4 DEF EnterLadder, Holds
  <2>4. \A s \in Slot : usage'[s] = usage[s] - Holds(b, s) + Holds(b, s)'
    BY <1>4, <1>b, <2>2, ReserveAssumption DEF EnterLadder, Release
  <2> QED  BY <2>3, <2>4, BalanceOne
<1>5. ASSUME NEW v \in Bundle, RipUp(v)  PROVE BooksBalance'
  <2>1. plan[v] # None /\ v \notin parked
    BY <1>0, <1>5 DEF RipUp, IsNextVictim, Victims, Shape
  <2>2. \A s \in Slot : Holds(v, s) = Demand(plan[v])[s] /\ Holds(v, s)' = 0
    BY <1>5, <2>1 DEF RipUp, Holds
  <2>3. \A s \in Slot : \A c \in Bundle \ {v} : Holds(c, s)' = Holds(c, s)
    BY <1>5 DEF RipUp, Holds
  <2>4. \A s \in Slot : usage'[s] = usage[s] - Holds(v, s) + Holds(v, s)'
    BY <1>5, <1>a, <1>b, <1>c, <2>1, <2>2 DEF RipUp, Uncharge
  <2> QED  BY <2>3, <2>4, BalanceOne
<1>6. CASE PlanMine
  <2>1. PICK p \in plan_bundle(target, "STRICT", usage) :
             p # None /\ usage' = Charge(usage, p) /\ mine' = p
    BY <1>6 DEF PlanMine
  <2>2. p \in Plan
    BY <2>1, PlanBundle
  <2>3. PICK t \in Bundle : t = target
    BY <1>0, <1>6 DEF PlanMine, Shape
  <2>4. t # victim /\ t \notin parked /\ plan[t] = None
    BY <1>0, <1>6, <2>3 DEF PlanMine, Shape
  <2>5. \A s \in Slot : Holds(t, s) = 0 /\ Holds(t, s)' = Demand(p)[s]
    BY <1>6, <2>1, <2>3, <2>4 DEF PlanMine, Holds
  <2>6. \A s \in Slot : \A c \in Bundle \ {t} : Holds(c, s)' = Holds(c, s)
    BY <1>6, <2>3 DEF PlanMine, Holds
  <2>7. \A s \in Slot : usage'[s] = usage[s] - Holds(t, s) + Holds(t, s)'
    BY <1>b, <1>c, <2>1, <2>2, <2>5 DEF Charge
  <2> QED  BY <2>6, <2>7, BalanceOne
<1>7. CASE AcceptRipUp
  <2>1. PICK p \in plan_bundle(victim, "STRICT", usage) :
             /\ p # None /\ usage' = Charge(usage, p)
             /\ plan' = [plan EXCEPT ![victim] = p, ![target] = mine]
    BY <1>7 DEF AcceptRipUp
  <2>2. p \in Plan
    BY <2>1, PlanBundle
  <2>3. PICK t \in Bundle, v \in Bundle : t = target /\ v = victim
    BY <1>0, <1>7 DEF AcceptRipUp, Shape
  <2>4. t # v /\ t \notin parked /\ v \notin parked /\ mine \in Plan /\ mine # None
    BY <1>0, <1>7, <2>3, PlanAssumption DEF AcceptRipUp, Shape
  <2>5. /\ plan'[v] = p /\ plan'[t] = mine
        /\ \A c \in Bundle \ {v, t} : plan'[c] = plan[c]
    BY <1>0, <2>1, <2>3, <2>4 DEF TypeOK
  <2>6. pc = "squeezed" /\ pc' = "turn" /\ parked' = parked
    BY <1>7 DEF AcceptRipUp, LeaveLadder
  <2>7. \A s \in Slot : Holds(v, s) = 0 /\ Holds(v, s)' = Demand(p)[s]
    BY <2>1, <2>3, <2>4, <2>5, <2>6 DEF Holds
  <2>8. \A s \in Slot : \A c \in Bundle \ {v} : Holds(c, s)' = Holds(c, s)
    BY <2>3, <2>4, <2>5, <2>6 DEF Holds
  <2>9. \A s \in Slot : usage'[s] = usage[s] - Holds(v, s) + Holds(v, s)'
    BY <1>b, <1>c, <2>1, <2>2, <2>7 DEF Charge
  <2> QED  BY <2>8, <2>9, BalanceOne
<1>8. CASE Restore
  <2>1. PICK t \in Bundle, v \in Bundle : t = target /\ v = victim
    BY <1>0, <1>8 DEF Restore, Shape
  <2>2. /\ t # v /\ t \notin parked /\ plan[t] = None
        /\ v \notin parked /\ plan[v] \in Plan /\ plan[v] # None
    BY <1>0, <1>8, <2>1 DEF Restore, Shape, TypeOK
  <2>3. plan' = plan /\ parked' = parked /\ pc' = "ladder"
    BY <1>8 DEF Restore
  <2>4. \A s \in Slot : Holds(v, s) = 0 /\ Holds(v, s)' = Demand(plan[v])[s]
    BY <1>8, <2>1, <2>2, <2>3 DEF Restore, Holds
  <2>5. CASE pc = "ripped"
    <3>1. \A s \in Slot : \A c \in Bundle \ {v} : Holds(c, s)' = Holds(c, s)
      BY <2>1, <2>2, <2>3, <2>5 DEF Holds
    <3>2. \A s \in Slot : usage'[s] = usage[s] - Holds(v, s) + Holds(v, s)'
      BY <1>8, <1>b, <1>c, <2>1, <2>2, <2>4, <2>5 DEF Restore, Charge
    <3> QED  BY <3>1, <3>2, BalanceOne
  <2>6. CASE pc = "squeezed"
    <3>1. mine \in Plan
      BY <1>0, <2>6 DEF Shape
    <3>2. \A s \in Slot : Holds(t, s) = Demand(mine)[s] /\ Holds(t, s)' = 0
      BY <2>1, <2>2, <2>3, <2>6 DEF Holds
    <3>3. \A s \in Slot : \A c \in Bundle \ {v, t} : Holds(c, s)' = Holds(c, s)
      BY <2>1, <2>2, <2>3, <2>6 DEF Holds
    <3>4. \A s \in Slot : usage'[s] = usage[s] - Demand(mine)[s] + Demand(plan[v])[s]
      BY <1>8, <2>1, <2>6 DEF Restore, Charge, Uncharge
    <3>5. \A s \in Slot : usage'[s] = usage[s] - Holds(v, s) - Holds(t, s)
                                        + Holds(v, s)' + Holds(t, s)'
      BY <1>b, <1>c, <2>2, <2>4, <3>1, <3>2, <3>4
    <3> QED  BY <2>2, <3>3, <3>5, BalanceTwo
  <2> QED  BY <1>8, <2>5, <2>6 DEF Restore
<1>9. CASE PlanRelaxed
  <2>1. PICK t \in Bundle : t = target
    BY <1>0, <1>9 DEF PlanRelaxed, Shape
  <2>2. pc = "ladder" /\ t \notin parked /\ plan[t] = None
    BY <1>0, <1>9, <2>1 DEF PlanRelaxed, Shape
  <2>3. PICK p \in Relaxed(t) :
             \/ p # None /\ Commit(t, p, usage, {t})
             \/ p = None /\ UNCHANGED <<usage, plan, asn, committed, soft>>
    BY <1>9, <2>1 DEF PlanRelaxed
  <2>4. p # None => p \in Plan
    BY <2>3 DEF Relaxed, Relax, Found
  <2>5. pc' = "turn" /\ parked' = parked
    BY <1>9 DEF PlanRelaxed, LeaveLadder
  <2>6. CASE p = None /\ UNCHANGED <<usage, plan, asn, committed, soft>>
    BY <2>2, <2>5, <2>6, BalanceSame DEF Holds
  <2>7. CASE p # None /\ Commit(t, p, usage, {t})
    <3>1. plan'[t] = p /\ \A c \in Bundle \ {t} : plan'[c] = plan[c]
      BY <1>0, <2>7 DEF Commit, TypeOK
    <3>2. \A s \in Slot : Holds(t, s) = 0 /\ Holds(t, s)' = Demand(p)[s]
      BY <2>2, <2>5, <2>7, <3>1 DEF Holds
    <3>3. \A s \in Slot : \A c \in Bundle \ {t} : Holds(c, s)' = Holds(c, s)
      BY <2>2, <2>5, <3>1 DEF Holds
    <3>4. \A s \in Slot : usage'[s] = usage[s] - Holds(t, s) + Holds(t, s)'
      BY <1>b, <1>c, <2>4, <2>7, <3>2 DEF Commit, Charge
    <3> QED  BY <3>3, <3>4, BalanceOne
  <2> QED  BY <2>3, <2>6, <2>7
<1>10. CASE EndTurns
  BY <1>10, BalanceSame DEF EndTurns, StartPass, Finish, Holds
<1>11. CASE EndPass
  BY <1>11, BalanceSame DEF EndPass, StartPass, Finish, Holds
<1>12. ASSUME NEW b \in Bundle, KeepRoute(b)  PROVE BooksBalance'
  <2>1. plan[b] \in Plan
    BY <1>0, <1>12 DEF KeepRoute, IsNextRefined, TypeOK, Shape
  <2>2. \A s \in Slot : usage'[s] = usage[s]
    BY <1>12, <1>b, <1>c, <2>1 DEF KeepRoute, Charge, Uncharge
  <2> QED  BY <1>12, <2>2, BalanceSame DEF KeepRoute, Holds
<1>13. ASSUME NEW b \in Bundle, AdoptRoute(b)  PROVE BooksBalance'
  <2>1. plan[b] \in Plan /\ plan[b] # None
    BY <1>0, <1>13 DEF AdoptRoute, IsNextRefined, TypeOK, Shape
  <2>2. PICK p \in plan_bundle(b, "STRICT", Uncharge(usage, plan[b])) :
             /\ p # None /\ usage' = Charge(Uncharge(usage, plan[b]), p)
             /\ plan' = [plan EXCEPT ![b] = p]
    BY <1>13 DEF AdoptRoute
  <2>3. p \in Plan
    BY <2>2, PlanBundle
  <2>4. plan'[b] = p /\ \A c \in Bundle \ {b} : plan'[c] = plan[c]
    BY <1>0, <2>2 DEF TypeOK
  <2>5. pc = "refine" /\ pc' = pc /\ parked' = parked /\ parked = {}
    BY <1>0, <1>13 DEF AdoptRoute, Shape
  <2>6. \A s \in Slot : /\ Holds(b, s) = Demand(plan[b])[s]
                        /\ Holds(b, s)' = Demand(p)[s]
    BY <2>1, <2>2, <2>4, <2>5 DEF Holds
  <2>7. \A s \in Slot : \A c \in Bundle \ {b} : Holds(c, s)' = Holds(c, s)
    BY <2>4, <2>5 DEF Holds
  <2>8. \A s \in Slot : usage'[s] = usage[s] - Holds(b, s) + Holds(b, s)'
    BY <1>b, <1>c, <2>1, <2>2, <2>3, <2>6 DEF Charge, Uncharge
  <2> QED  BY <2>7, <2>8, BalanceOne
<1>14. CASE UNCHANGED vars
  BY <1>14, BalanceSame DEF vars, Holds
<1> QED
  BY <1>1, <1>2, <1>3, <1>4, <1>5, <1>6, <1>7, <1>8, <1>9, <1>10, <1>11,
     <1>12, <1>13, <1>14 DEF Next

(* At every moment each band and budget shows exactly the reservations and *)
(* routes that stand: every release, rip-up, undo and restore of           *)
(* optimize_topologies takes back what was charged, whatever was booked in *)
(* between.                                                                *)
THEOREM BooksAlwaysBalance == Spec => []BooksBalance
<1>1. Init => TypeShape /\ BooksBalance
  BY InitTypeShape, InitBalance
<1>2. TypeShape /\ BooksBalance /\ [Next]_vars => (TypeShape /\ BooksBalance)'
  BY NextTypeShape, NextBalance
<1> QED  BY <1>1, <1>2, PTL DEF Spec

(* When a run is over the books are those of the assignments it returns.   *)
THEOREM BooksDelivered == Spec => []BooksAreDelivered
<1>1. TypeShape /\ BooksBalance => BooksAreDelivered
  <2> SUFFICES ASSUME TypeShape, BooksBalance, pc = "done", NEW s \in Slot
               PROVE  usage[s] = Total({b \in Bundle : asn[b] # None},
                        [b \in {c \in Bundle : asn[c] # None} |-> Demand(asn[b])[s]])
    BY DEF BooksAreDelivered
  <2> DEFINE routed == {b \in Bundle : asn[b] # None}
  <2> DEFINE mass == [b \in {c \in Bundle : asn[c] # None} |-> Demand(asn[b])[s]]
  <2>1. asn = plan /\ parked = {}
    BY DEF TypeShape, Shape, Turns
  <2>2. \A b \in routed : mass[b] = Held(s)[b]
    BY <2>1 DEF Held, Holds
  <2>3. \A b \in Bundle \ routed : Held(s)[b] = 0
    BY <2>1 DEF Held, Holds
  <2>4. routed \in SUBSET Bundle
    OBVIOUS
  <2>5. Total(routed, mass) = Total(Bundle, Held(s))
    <3> HIDE DEF routed, mass
    <3> QED  BY <2>2, <2>3, <2>4, TotalSubset
  <2> QED  BY <2>5 DEF BooksBalance, Held
<1>2. Init => TypeShape /\ BooksBalance
  BY InitTypeShape, InitBalance
<1>3. TypeShape /\ BooksBalance /\ [Next]_vars => (TypeShape /\ BooksBalance)'
  BY NextTypeShape, NextBalance
<1> QED  BY <1>1, <1>2, <1>3, PTL DEF Spec

-----------------------------------------------------------------------------
(* The fit of the routes committed without overflow.                       *)

Hard(b, s) ==
  IF plan[b] # None /\ b \notin soft THEN Demand(plan[b])[s] ELSE 0

(* While a rip-up is tried, the target stands with its trial route and the *)
(* victim does not stand.                                                  *)
OnTrial(b, s) ==
  IF b = victim THEN 0 ELSE IF b = target THEN Demand(mine)[s] ELSE Hard(b, s)

TrialFits ==
  pc = "squeezed" =>
    \A s \in Slot : Total(Bundle, [b \in Bundle |-> OnTrial(b, s)]) <= Cap[s]

HardFits == HardDemandFits /\ TrialFits

LEMMA HardNat ==
  ASSUME TypeShape, NEW s \in Slot, NEW b \in Bundle
  PROVE  /\ Hard(b, s) \in Nat
         /\ pc = "squeezed" => OnTrial(b, s) \in Nat
BY DemandNat DEF TypeShape, TypeOK, Shape, Hard, OnTrial

(* A demand pointwise below one that fits, fits. *)
LEMMA SmallerFits ==
  ASSUME NEW s \in Slot, NEW f, NEW g,
         \A b \in Bundle : f[b] \in Nat /\ g[b] \in Nat /\ g[b] <= f[b],
         Total(Bundle, f) <= Cap[s]
  PROVE  Total(Bundle, g) <= Cap[s]
<1>1. Total(Bundle, g) <= Total(Bundle, f)
  BY FiniteAssumption, TotalMonotone
<1>2. Total(Bundle, g) \in Nat /\ Total(Bundle, f) \in Nat
  BY FiniteAssumption, TracksFinite
<1> QED  BY <1>1, <1>2, CapAssumption

(* A route that fits the books u, which hold at least the demand g of the  *)
(* others, can join them; where it charges nothing it changes nothing, and *)
(* g stays below what fitted before.                                       *)
LEMMA RoomForOne ==
  ASSUME NEW s \in Slot, NEW b \in Bundle, NEW p \in Plan,
         NEW u, u[s] \in Int, Fits(p, u),
         NEW f, NEW g, NEW h,
         \A c \in Bundle : f[c] \in Nat /\ g[c] \in Nat /\ h[c] \in Nat,
         \A c \in Bundle \ {b} : g[c] <= f[c] /\ g[c] <= h[c],
         g[b] <= Demand(p)[s], h[b] = 0,
         Total(Bundle, h) = u[s],
         Total(Bundle, f) <= Cap[s]
  PROVE  Total(Bundle, g) <= Cap[s]
<1>1. Demand(p)[s] \in Nat
  BY DemandNat
<1>2. CASE Demand(p)[s] = 0
  <2>1. \A c \in Bundle : g[c] <= f[c]
    BY <1>2
  <2> QED  BY <2>1, SmallerFits
<1>3. CASE Demand(p)[s] > 0
  <2> DEFINE rest == [c \in Bundle |-> IF c = b THEN 0 ELSE g[c]]
  <2>1. /\ \A c \in Bundle : rest[c] \in Nat /\ rest[c] <= h[c]
        /\ rest[b] = 0
        /\ \A c \in Bundle \ {b} : rest[c] = g[c]
    OBVIOUS
  <2> HIDE DEF rest
  <2>7. \A c \in Bundle : rest[c] \in Nat /\ g[c] \in Nat
    BY <2>1
  <2>8. \A c \in Bundle \ {b} : rest[c] = g[c]
    BY <2>1
  <2>2. Total(Bundle, g) = Total(Bundle, rest) - rest[b] + g[b]
    BY <2>7, <2>8, FiniteAssumption, TotalChange
  <2>3. Total(Bundle, rest) <= Total(Bundle, h)
    BY <2>1, FiniteAssumption, TotalMonotone
  <2>4. u[s] + Demand(p)[s] <= Cap[s]
    BY <1>3, FitsCap
  <2>5. Total(Bundle, rest) \in Nat
    BY <2>1, FiniteAssumption, TracksFinite
  <2>6. Cap[s] \in Nat
    BY CapAssumption
  <2> QED  BY <1>1, <2>1, <2>2, <2>3, <2>4, <2>5, <2>6
<1> QED  BY <1>1, <1>2, <1>3

HardMass(s) == [b \in Bundle |-> Hard(b, s)]
TrialMass(s) == [b \in Bundle |-> OnTrial(b, s)]

LEMMA InitHardFits == Init => HardFits
<1> SUFFICES ASSUME Init, NEW s \in Slot  PROVE Total(Bundle, HardMass(s)) <= Cap[s]
  BY DEF HardFits, HardDemandFits, TrialFits, Init, HardDemand, HardMass, Hard
<1>1. \A b \in Bundle : HardMass(s)[b] = 0
  BY DEF Init, HardMass, Hard
<1> QED  BY <1>1, TotalZero, CapAssumption

(* Nothing moves that was booked without overflow: the fit is kept. *)
LEMMA HardKept ==
  ASSUME TypeShape, TypeShape', HardFits, pc' # "squeezed",
         \A s \in Slot : \A b \in Bundle : Hard(b, s)' <= Hard(b, s)
  PROVE  HardFits'
<1> SUFFICES ASSUME NEW s \in Slot  PROVE Total(Bundle, HardMass(s)') <= Cap[s]
  BY DEF HardFits, HardDemandFits, TrialFits, HardDemand, HardMass, Hard
<1>1. \A b \in Bundle : Hard(b, s)' \in Nat
  BY DemandNat DEF TypeShape, TypeOK, Hard
<1>2. \A b \in Bundle : /\ HardMass(s)[b] \in Nat /\ HardMass(s)'[b] \in Nat
                        /\ HardMass(s)'[b] <= HardMass(s)[b]
  BY <1>1, HardNat DEF HardMass
<1>3. Total(Bundle, HardMass(s)) <= Cap[s]
  BY DEF HardFits, HardDemandFits, HardDemand, HardMass, Hard
<1> QED  BY <1>2, <1>3, SmallerFits

LEMMA NextHardFits ==
  TypeShape /\ TypeShape' /\ BooksBalance /\ HardFits /\ [Next]_vars => HardFits'
<1> SUFFICES ASSUME TypeShape, TypeShape', BooksBalance, HardFits, [Next]_vars
             PROVE  HardFits'
  OBVIOUS
<1>0. TypeOK /\ Shape /\ TypeOK' /\ Shape'
  BY DEF TypeShape
<1> USE DEF Turns
<1>b. \A s \in Slot : usage[s] \in Int /\ usage[s] = Total(Bundle, Held(s))
  BY <1>0 DEF TypeOK, BooksBalance, Held
<1>c. \A p \in Plan : \A s \in Slot : Demand(p)[s] \in Nat
  BY DemandNat
<1>d. \A s \in Slot : \A b \in Bundle : /\ Hard(b, s) \in Nat /\ Holds(b, s) \in Nat
                                        /\ pc = "squeezed" => OnTrial(b, s) \in Nat
  BY HardNat, HeldNat
<1>e. \A s \in Slot : \A b \in Bundle : Hard(b, s)' \in Nat
  BY DemandNat DEF TypeShape, TypeOK, Hard
<1>f. \A s \in Slot : Total(Bundle, HardMass(s)) <= Cap[s]
  BY DEF HardFits, HardDemandFits, HardDemand, HardMass, Hard
<1>g. (\A s \in Slot : Total(Bundle, HardMass(s)') <= Cap[s]) /\ pc' # "squeezed" => HardFits'
  BY DEF HardFits, HardDemandFits, TrialFits, HardDemand, HardMass, Hard
<1>h. \A s \in Slot : \A b \in Bundle :
         /\ HardMass(s)[b] = Hard(b, s) /\ HardMass(s)'[b] = Hard(b, s)'
         /\ Held(s)[b] = Holds(b, s)
  BY DEF HardMass, Held
<1>1. CASE Start
  BY <1>1, <1>d, HardKept DEF Start, Hard
<1>2. ASSUME NEW b \in Bundle, SkipEmpty(b)  PROVE HardFits'
  BY <1>2, <1>d, HardKept DEF SkipEmpty, Hard
<1>3. ASSUME NEW b \in Bundle, PlanStrict(b)  PROVE HardFits'
  <2>1. PICK p \in plan_bundle(b, "STRICT", Release(usage, b)) :
             p # None /\ Commit(b, p, Release(usage, b), {})
    BY <1>3 DEF PlanStrict
  <2>2. p \in Plan /\ Fits(p, Release(usage, b))
    BY <2>1, PlanBundle
  <2>3. b \in parked /\ pc = "turn" /\ pc' = "turn"
    BY <1>0, <1>3 DEF PlanStrict, IsNext, Shape
  <2>4. /\ plan'[b] = p /\ \A c \in Bundle \ {b} : plan'[c] = plan[c]
        /\ soft' = soft
    BY <1>0, <2>1 DEF Commit, TypeOK
  <2>5. ASSUME NEW s \in Slot  PROVE Total(Bundle, HardMass(s)') <= Cap[s]
    <3> DEFINE u == Release(usage, b)
    <3> DEFINE others == [c \in Bundle |-> IF c = b THEN 0 ELSE Held(s)[c]]
    <3>1. u[s] = usage[s] - Reserve[b][s] /\ u[s] \in Int /\ Reserve[b][s] \in Nat
      BY <1>b, ReserveAssumption DEF Release
    <3>2. Holds(b, s) = Reserve[b][s]
      BY <2>3 DEF Holds
    <3>3. \A c \in Bundle : Held(s)[c] \in Nat /\ others[c] \in Nat
      BY <1>d, <1>h
    <3>4. \A c \in Bundle \ {b} : Held(s)[c] = others[c]
      OBVIOUS
    <3>5. others[b] = 0
      OBVIOUS
    <3>6. \A c \in Bundle \ {b} : HardMass(s)'[c] <= HardMass(s)[c]
      BY <1>d, <1>h, <2>4 DEF Hard
    <3>7. \A c \in Bundle \ {b} : HardMass(s)'[c] <= others[c]
      BY <1>0, <1>d, <1>h, <2>3, <2>4 DEF Hard, Holds, Shape
    <3>8. HardMass(s)'[b] <= Demand(p)[s]
      BY <1>c, <1>h, <2>2, <2>4 DEF Hard
    <3>9. \A c \in Bundle : HardMass(s)[c] \in Nat /\ HardMass(s)'[c] \in Nat
      BY <1>d, <1>e, <1>h
    <3> HIDE DEF others, u
    <3>10. Total(Bundle, others) = Total(Bundle, Held(s)) - Held(s)[b] + others[b]
      BY <3>3, <3>4, FiniteAssumption, TotalChange
    <3>11. Total(Bundle, others) = u[s]
      BY <1>b, <1>h, <3>1, <3>2, <3>5, <3>10
    <3>12. Fits(p, u)
      BY <2>2 DEF u
    <3> QED
      BY <1>f, <2>2, <3>1, <3>3, <3>5, <3>6, <3>7, <3>8, <3>9, <3>11, <3>12, RoomForOne
  <2> QED  BY <1>g, <2>3, <2>5
<1>4. ASSUME NEW b \in Bundle, EnterLadder(b)  PROVE HardFits'
  BY <1>4, <1>d, HardKept DEF EnterLadder, Hard
<1>5. ASSUME NEW v \in Bundle, RipUp(v)  PROVE HardFits'
  BY <1>5, <1>d, HardKept DEF RipUp, Hard
<1>6. CASE PlanMine
  <2>1. PICK p \in plan_bundle(target, "STRICT", usage) :
             p # None /\ usage' = Charge(usage, p) /\ mine' = p
    BY <1>6 DEF PlanMine
  <2>2. p \in Plan /\ Fits(p, usage)
    BY <2>1, PlanBundle
  <2>3. PICK t \in Bundle, v \in Bundle : t = target /\ v = victim
    BY <1>0, <1>6 DEF PlanMine, Shape
  <2>4. t # v /\ plan[t] = None
    BY <1>0, <1>6, <2>3 DEF PlanMine, Shape
  <2>5. /\ plan' = plan /\ soft' = soft /\ victim' = victim /\ target' = target
        /\ pc = "ripped" /\ parked = todo \cap Routable
    BY <1>0, <1>6 DEF PlanMine, Shape
  <2>6. ASSUME NEW s \in Slot  PROVE Total(Bundle, TrialMass(s)') <= Cap[s]
    <3>1. \A c \in Bundle : TrialMass(s)'[c] = OnTrial(c, s)'
      BY DEF TrialMass
    <3>2. OnTrial(t, s)' = Demand(p)[s] /\ OnTrial(v, s)' = 0
      BY <2>1, <2>3, <2>4, <2>5 DEF OnTrial
    <3>3. \A c \in Bundle \ {t, v} : OnTrial(c, s)' = Hard(c, s)
      BY <2>3, <2>5 DEF OnTrial, Hard
    <3>4. \A c \in Bundle \ {t, v} : Hard(c, s) <= Holds(c, s)
      BY <1>0, <1>d, <2>3, <2>5 DEF Hard, Holds, Shape
    <3>5. Holds(t, s) = 0
      BY <1>0, <1>6, <2>3, <2>4, <2>5 DEF Holds, Shape
    <3>6. \A c \in Bundle : /\ HardMass(s)[c] \in Nat /\ TrialMass(s)'[c] \in Nat
                            /\ Held(s)[c] \in Nat
      BY <1>c, <1>d, <1>h, <2>2, <3>1, <3>2, <3>3
    <3>7. \A c \in Bundle \ {t} : /\ TrialMass(s)'[c] <= HardMass(s)[c]
                                  /\ TrialMass(s)'[c] <= Held(s)[c]
      BY <1>d, <1>h, <3>1, <3>2, <3>3, <3>4
    <3>8. TrialMass(s)'[t] <= Demand(p)[s] /\ Held(s)[t] = 0
      BY <1>c, <1>h, <2>2, <3>1, <3>2, <3>5
    <3> QED  BY <1>b, <1>f, <2>2, <3>6, <3>7, <3>8, RoomForOne
  <2> QED
    BY <2>5, <2>6 DEF HardFits, HardDemandFits, HardDemand, TrialFits, TrialMass
<1>7. CASE AcceptRipUp
  <2>1. PICK p \in plan_bundle(victim, "STRICT", usage) :
             /\ p # None /\ usage' = Charge(usage, p)
             /\ plan' = [plan EXCEPT ![victim] = p, ![target] = mine]
    BY <1>7 DEF AcceptRipUp
  <2>2. p \in Plan /\ Fits(p, usage)
    BY <2>1, PlanBundle
  <2>3. PICK t \in Bundle, v \in Bundle : t = target /\ v = victim
    BY <1>0, <1>7 DEF AcceptRipUp, Shape
  <2>4. t # v /\ t \notin parked /\ mine \in Plan
    BY <1>0, <1>7, <2>3 DEF AcceptRipUp, Shape
  <2>5. /\ plan'[v] = p /\ plan'[t] = mine
        /\ \A c \in Bundle \ {v, t} : plan'[c] = plan[c]
    BY <1>0, <2>1, <2>3, <2>4 DEF TypeOK
  <2>6. /\ pc = "squeezed" /\ pc' = "turn" /\ soft' = soft \ {v}
        /\ parked = todo \cap Routable
    BY <1>0, <1>7, <2>3 DEF AcceptRipUp, LeaveLadder, Shape
  <2>7. ASSUME NEW s \in Slot  PROVE Total(Bundle, HardMass(s)') <= Cap[s]
    <3>1. \A c \in Bundle : TrialMass(s)[c] = OnTrial(c, s)
      BY DEF TrialMass
    <3>2. \A c \in Bundle \ {t, v} : Hard(c, s)' = Hard(c, s)
      BY <2>5, <2>6 DEF Hard
    <3>3. \A c \in Bundle \ {t, v} : Hard(c, s) = OnTrial(c, s) /\ Hard(c, s) <= Holds(c, s)
      BY <1>0, <1>d, <2>3, <2>6 DEF OnTrial, Hard, Holds, Shape
    <3>4. Hard(t, s)' <= Demand(mine)[s] /\ Hard(v, s)' <= Demand(p)[s]
      BY <1>c, <2>2, <2>4, <2>5 DEF Hard
    <3>5. OnTrial(t, s) = Demand(mine)[s] /\ Holds(t, s) = Demand(mine)[s]
      BY <2>3, <2>4, <2>6 DEF OnTrial, Holds
    <3>6. Holds(v, s) = 0
      BY <1>0, <1>7, <2>3, <2>6 DEF Holds, Shape
    <3>7. \A c \in Bundle : /\ TrialMass(s)[c] \in Nat /\ HardMass(s)'[c] \in Nat
                            /\ Held(s)[c] \in Nat
      BY <1>d, <1>e, <1>h, <2>6, <3>1
    <3>8. \A c \in Bundle \ {v} : /\ HardMass(s)'[c] <= TrialMass(s)[c]
                                  /\ HardMass(s)'[c] <= Held(s)[c]
      BY <1>d, <1>h, <2>6, <3>1, <3>2, <3>3, <3>4, <3>5
    <3>9. HardMass(s)'[v] <= Demand(p)[s] /\ Held(s)[v] = 0
      BY <1>h, <3>4, <3>6
    <3>10. Total(Bundle, TrialMass(s)) <= Cap[s]
      BY <2>6 DEF HardFits, TrialFits, TrialMass
    <3> QED  BY <1>b, <2>2, <3>7, <3>8, <3>9, <3>10, RoomForOne
  <2> QED  BY <1>g, <2>6, <2>7
<1>8. CASE Restore
  BY <1>8, <1>d, HardKept DEF Restore, Hard
<1>9. CASE PlanRelaxed
  <2>1. PICK t \in Bundle : t = target
    BY <1>0, <1>9 DEF PlanRelaxed, Shape
  <2>2. PICK p \in Relaxed(t) :
             \/ p # None /\ Commit(t, p, usage, {t})
             \/ p = None /\ UNCHANGED <<usage, plan, asn, committed, soft>>
    BY <1>9, <2>1 DEF PlanRelaxed
  <2>3. pc' = "turn"
    BY <1>9 DEF PlanRelaxed, LeaveLadder
  <2>4. \A s \in Slot : \A c \in Bundle : Hard(c, s)' <= Hard(c, s)
    BY <1>0, <1>d, <2>2 DEF Commit, Hard, TypeOK
  <2> QED  BY <2>3, <2>4, HardKept
<1>10. CASE EndTurns
  BY <1>10, <1>d, HardKept DEF EndTurns, StartPass, Finish, Hard
<1>11. CASE EndPass
  BY <1>11, <1>d, HardKept DEF EndPass, StartPass, Finish, Hard
<1>12. ASSUME NEW b \in Bundle, KeepRoute(b)  PROVE HardFits'
  BY <1>12, <1>d, HardKept DEF KeepRoute, Hard
<1>13. ASSUME NEW b \in Bundle, AdoptRoute(b)  PROVE HardFits'
  <2>1. plan[b] \in Plan /\ plan[b] # None
    BY <1>0, <1>13 DEF AdoptRoute, IsNextRefined, TypeOK, Shape
  <2>2. PICK p \in plan_bundle(b, "STRICT", Uncharge(usage, plan[b])) :
             p # None /\ plan' = [plan EXCEPT ![b] = p]
    BY <1>13 DEF AdoptRoute
  <2>3. p \in Plan /\ Fits(p, Uncharge(usage, plan[b]))
    BY <2>2, PlanBundle
  <2>4. plan'[b] = p /\ \A c \in Bundle \ {b} : plan'[c] = plan[c]
    BY <1>0, <2>2 DEF TypeOK
  <2>5. pc = "refine" /\ pc' = pc /\ parked = {} /\ soft' = soft \ {b}
    BY <1>0, <1>13 DEF AdoptRoute, Shape
  <2>6. ASSUME NEW s \in Slot  PROVE Total(Bundle, HardMass(s)') <= Cap[s]
    <3> DEFINE u == Uncharge(usage, plan[b])
    <3> DEFINE others == [c \in Bundle |-> IF c = b THEN 0 ELSE Held(s)[c]]
    <3>1. u[s] = usage[s] - Demand(plan[b])[s] /\ u[s] \in Int
      BY <1>b, <1>c, <2>1 DEF Uncharge
    <3>2. Holds(b, s) = Demand(plan[b])[s]
      BY <2>1, <2>5 DEF Holds
    <3>3. \A c \in Bundle : Held(s)[c] \in Nat /\ others[c] \in Nat
      BY <1>d, <1>h
    <3>4. \A c \in Bundle \ {b} : Held(s)[c] = others[c]
      OBVIOUS
    <3>5. others[b] = 0
      OBVIOUS
    <3>6. \A c \in Bundle \ {b} : HardMass(s)'[c] <= HardMass(s)[c]
      BY <1>d, <1>h, <2>4, <2>5 DEF Hard
    <3>7. \A c \in Bundle \ {b} : HardMass(s)'[c] <= others[c]
      BY <1>d, <1>h, <2>4, <2>5 DEF Hard, Holds
    <3>8. HardMass(s)'[b] <= Demand(p)[s]
      BY <1>c, <1>h, <2>3, <2>4 DEF Hard
    <3>9. \A c \in Bundle : HardMass(s)[c] \in Nat /\ HardMass(s)'[c] \in Nat
      BY <1>d, <1>e, <1>h
    <3> HIDE DEF others, u
    <3>10. Total(Bundle, others) = Total(Bundle, Held(s)) - Held(s)[b] + others[b]
      BY <3>3, <3>4, FiniteAssumption, TotalChange
    <3>11. Total(Bundle, others) = u[s]
      BY <1>b, <1>c, <1>h, <2>1, <3>1, <3>2, <3>5, <3>10
    <3>12. Fits(p, u)
      BY <2>3 DEF u
    <3> QED
      BY <1>f, <2>3, <3>1, <3>3, <3>5, <3>6, <3>7, <3>8, <3>9, <3>11, <3>12, RoomForOne
  <2> QED  BY <1>g, <2>5, <2>6
<1>14. CASE UNCHANGED vars
  BY <1>14 DEF vars, HardFits, HardDemandFits, HardDemand, TrialFits, OnTrial, Hard
<1> QED
  BY <1>1, <1>2, <1>3, <1>4, <1>5, <1>6, <1>7, <1>8, <1>9, <1>10, <1>11,
     <1>12, <1>13, <1>14 DEF Next

(* Whatever was ripped up, moved and refined, the routes committed without *)
(* overflow fit together on every band and in every share budget.          *)
THEOREM HardDemandAlwaysFits == Spec => []HardDemandFits
<1>1. Init => TypeShape /\ BooksBalance /\ HardFits
  BY InitTypeShape, InitBalance, InitHardFits
<1>2. TypeShape /\ BooksBalance /\ HardFits /\ [Next]_vars
        => (TypeShape /\ BooksBalance /\ HardFits)'
  BY NextTypeShape, NextBalance, NextHardFits
<1>3. HardFits => HardDemandFits
  BY DEF HardFits
<1> QED  BY <1>1, <1>2, <1>3, PTL DEF Spec

-----------------------------------------------------------------------------
(* What a step may do to a route.                                          *)

(* During a rip-up the target's trial route has room where it stands, and  *)
(* the victim is a bundle that may be moved.                               *)
RipUpSound ==
  /\ pc = "squeezed" =>
       \A s \in Slot : Demand(mine)[s] > 0 => usage[s] <= Cap[s]
  /\ pc \in {"ripped", "squeezed"} => victim \notin Locked

(* A route booked on top of the books u has room where it stands. *)
LEMMA ChargeRoom ==
  ASSUME NEW u \in [Slot -> Int], NEW p \in Plan, Fits(p, u), NEW s \in Slot,
         Demand(p)[s] > 0
  PROVE  Charge(u, p)[s] <= Cap[s]
BY FitsCap DEF Charge

LEMMA NextRipUpSound ==
  TypeShape /\ RipUpSound /\ [Next]_vars => RipUpSound'
<1> SUFFICES ASSUME TypeOK, Shape, RipUpSound, [Next]_vars  PROVE RipUpSound'
  BY DEF TypeShape
<1>1. CASE PlanMine
  <2>1. PICK p \in plan_bundle(target, "STRICT", usage) :
             p # None /\ usage' = Charge(usage, p) /\ mine' = p
    BY <1>1 DEF PlanMine
  <2>2. p \in Plan /\ Fits(p, usage)
    BY <2>1, PlanBundle
  <2>3. \A s \in Slot : Demand(mine')[s] > 0 => usage'[s] <= Cap[s]
    BY <2>1, <2>2, ChargeRoom DEF TypeOK
  <2>4. victim' \notin Locked
    BY <1>1 DEF PlanMine, RipUpSound
  <2> QED  BY <2>3, <2>4 DEF RipUpSound, Demand
<1>2. ASSUME NEW v \in Bundle, RipUp(v)  PROVE RipUpSound'
  BY <1>2 DEF RipUp, IsNextVictim, Victims, RipUpSound
<1>3. CASE UNCHANGED vars
  BY <1>3 DEF vars, RipUpSound, Demand
<1>4. CASE pc' \notin {"ripped", "squeezed"}
  BY <1>4 DEF RipUpSound
<1>5. ASSUME Next, ~PlanMine, \A v \in Bundle : ~RipUp(v)
      PROVE  pc' \notin {"ripped", "squeezed"}
  <2>1. CASE Start \/ EndTurns \/ EndPass \/ AcceptRipUp \/ Restore \/ PlanRelaxed
    BY <2>1 DEF Start, EndTurns, EndPass, StartPass, Finish, AcceptRipUp,
                Restore, PlanRelaxed, LeaveLadder
  <2>2. ASSUME NEW b \in Bundle,
               \/ SkipEmpty(b) \/ PlanStrict(b) \/ EnterLadder(b)
               \/ KeepRoute(b) \/ AdoptRoute(b)
        PROVE  pc' \notin {"ripped", "squeezed"}
    BY <2>2 DEF SkipEmpty, PlanStrict, EnterLadder, KeepRoute, AdoptRoute
  <2> QED  BY <1>5, <2>1, <2>2 DEF Next
<1> QED  BY <1>1, <1>2, <1>3, <1>4, <1>5

LEMMA InitRipUpSound == Init => RipUpSound
BY DEF Init, RipUpSound

(* A bundle gets a new route in three ways only: in its own strict turn,   *)
(* as the victim or the target of an accepted rip-up, or in a refinement   *)
(* pass; a fourth, the relaxed search, marks it.                           *)
LEMMA NewRoute ==
  ASSUME TypeShape, [Next]_vars, NEW b \in Bundle, plan'[b] \notin {None, plan[b]}
  PROVE  \/ PlanStrict(b)
         \/ AcceptRipUp /\ b \in {victim, target}
         \/ AdoptRoute(b)
         \/ PlanRelaxed /\ b = target /\ b \in soft'
<1>0. TypeOK /\ Shape
  BY DEF TypeShape
<1>1. CASE Start
  BY <1>1 DEF Start
<1>2. ASSUME NEW c \in Bundle, PlanStrict(c)  PROVE b = c
  BY <1>0, <1>2 DEF PlanStrict, Commit, TypeOK
<1>3. ASSUME NEW c \in Bundle, AdoptRoute(c)  PROVE b = c
  BY <1>0, <1>3 DEF AdoptRoute, TypeOK
<1>4. CASE AcceptRipUp
  BY <1>0, <1>4 DEF AcceptRipUp, TypeOK, Shape, Turns
<1>5. CASE PlanRelaxed
  <2>1. b = target /\ b \in soft'
    BY <1>0, <1>5 DEF PlanRelaxed, Commit, TypeOK
  <2> QED  BY <1>5, <2>1
<1>6. CASE PlanMine \/ Restore \/ EndTurns \/ EndPass \/ UNCHANGED vars
  BY <1>6 DEF PlanMine, Restore, EndTurns, EndPass, StartPass, Finish, vars
<1>7. ASSUME NEW c \in Bundle, SkipEmpty(c) \/ EnterLadder(c) \/ RipUp(c) \/ KeepRoute(c)
      PROVE  FALSE
  BY <1>7 DEF SkipEmpty, EnterLadder, RipUp, KeepRoute
<1> QED  BY <1>1, <1>2, <1>3, <1>4, <1>5, <1>6, <1>7 DEF Next

LEMMA StrictStep ==
  ASSUME TypeShape, RipUpSound, [Next]_vars, NEW b \in Bundle,
         plan'[b] \notin {None, plan[b]}, b \notin soft',
         NEW s \in Slot, Demand(plan'[b])[s] > 0
  PROVE  usage'[s] <= Cap[s]
<1>0. TypeOK /\ Shape
  BY DEF TypeShape
<1>1. CASE PlanStrict(b)
  <2>1. PICK p \in plan_bundle(b, "STRICT", Release(usage, b)) :
             p # None /\ Commit(b, p, Release(usage, b), {})
    BY <1>1 DEF PlanStrict
  <2>2. p \in Plan /\ Fits(p, Release(usage, b)) /\ Release(usage, b) \in [Slot -> Int]
    BY <1>0, <2>1, PlanBundle, BooksType DEF TypeOK
  <2>3. plan'[b] = p /\ usage' = Charge(Release(usage, b), p)
    BY <1>0, <2>1 DEF Commit, TypeOK
  <2> QED  BY <2>2, <2>3, ChargeRoom
<1>2. CASE AcceptRipUp /\ b \in {victim, target}
  <2>1. PICK p \in plan_bundle(victim, "STRICT", usage) :
             /\ p # None /\ usage' = Charge(usage, p)
             /\ plan' = [plan EXCEPT ![victim] = p, ![target] = mine]
    BY <1>2 DEF AcceptRipUp
  <2>2. p \in Plan /\ Fits(p, usage) /\ usage \in [Slot -> Int]
    BY <1>0, <2>1, PlanBundle DEF TypeOK
  <2>3. CASE Demand(p)[s] > 0
    BY <2>1, <2>2, <2>3, ChargeRoom
  <2>4. CASE Demand(p)[s] = 0
    <3>1. b = target /\ plan'[b] = mine
      BY <1>0, <1>2, <2>1, <2>2, <2>4 DEF AcceptRipUp, TypeOK, Shape, Turns
    <3>2. usage[s] <= Cap[s]
      BY <1>2, <3>1 DEF AcceptRipUp, RipUpSound
    <3>3. usage'[s] = usage[s] + 0 /\ usage[s] \in Int
      BY <2>1, <2>2, <2>4 DEF Charge
    <3> QED  BY <3>2, <3>3
  <2>5. Demand(p)[s] \in Nat
    BY <2>2, DemandNat
  <2> QED  BY <2>3, <2>4, <2>5
<1>3. CASE AdoptRoute(b)
  <2>1. PICK p \in plan_bundle(b, "STRICT", Uncharge(usage, plan[b])) :
             /\ p # None /\ usage' = Charge(Uncharge(usage, plan[b]), p)
             /\ plan' = [plan EXCEPT ![b] = p]
    BY <1>3 DEF AdoptRoute
  <2>2. plan[b] \in Plan
    BY <1>0, <1>3 DEF AdoptRoute, IsNextRefined, TypeOK, Shape
  <2>3. /\ p \in Plan /\ Fits(p, Uncharge(usage, plan[b]))
        /\ Uncharge(usage, plan[b]) \in [Slot -> Int]
    BY <1>0, <2>1, <2>2, PlanBundle, BooksType DEF TypeOK
  <2>4. plan'[b] = p
    BY <1>0, <2>1 DEF TypeOK
  <2> QED  BY <2>1, <2>3, <2>4, ChargeRoom
<1> QED  BY <1>1, <1>2, <1>3, NewRoute

(* A route booked as overflow-free stays within capacity wherever it runs, *)
(* with everything that stands at that moment counted in.                  *)
THEOREM StrictRoutesHaveRoom == Spec => StrictLeavesRoom
<1> DEFINE Room == \A b \in Bundle :
       plan'[b] \notin {None, plan[b]} /\ b \notin soft' =>
         \A s \in Slot : Demand(plan'[b])[s] > 0 => usage'[s] <= Cap[s]
<1>1. TypeShape /\ RipUpSound /\ [Next]_vars => [Room]_vars
  BY StrictStep
<1>2. Init => TypeShape /\ RipUpSound
  BY InitTypeShape, InitRipUpSound
<1>3. TypeShape /\ RipUpSound /\ [Next]_vars => (TypeShape /\ RipUpSound)'
  BY NextTypeShape, NextRipUpSound
<1> QED  BY <1>1, <1>2, <1>3, PTL DEF Spec, StrictLeavesRoom

LEMMA MoveStep ==
  ASSUME TypeShape, RipUpSound, [Next]_vars, NEW b \in Bundle,
         plan[b] # None, plan'[b] \notin {None, plan[b]}
  PROVE  /\ b \notin Locked \cup soft'
         /\ Pin[b] \cap Pool[b] # {} => plan'[b].topo \in Pin[b]
<1>0. TypeOK /\ Shape
  BY DEF TypeShape
<1>1. CASE PlanStrict(b)
  BY <1>0, <1>1 DEF PlanStrict, IsNext, Shape, Turns
<1>2. CASE AcceptRipUp /\ b \in {victim, target}
  <2>1. PICK p \in plan_bundle(victim, "STRICT", usage) :
             p # None /\ plan' = [plan EXCEPT ![victim] = p, ![target] = mine]
    BY <1>2 DEF AcceptRipUp
  <2>2. b = victim /\ b # target /\ soft' = soft \ {victim} /\ victim \notin Locked
    BY <1>0, <1>2 DEF AcceptRipUp, RipUpSound, Shape, Turns
  <2>3. plan'[b] = p
    BY <1>0, <2>1, <2>2 DEF TypeOK
  <2>4. p.topo \in Sweep(b)
    BY <2>1, <2>2 DEF plan_bundle, Found
  <2> QED  BY <2>2, <2>3, <2>4 DEF Sweep
<1>3. CASE AdoptRoute(b)
  BY <1>3 DEF AdoptRoute
<1>4. CASE PlanRelaxed /\ b = target
  BY <1>0, <1>4 DEF PlanRelaxed, Shape, Turns
<1> QED  BY <1>1, <1>2, <1>3, <1>4, NewRoute

(* A planned bundle moves only to an overflow-free route, a locked template *)
(* copy never moves, and a pinned bundle stays with its pin.               *)
THEOREM MovesAlwaysSound == Spec => MovesAreSound
<1> DEFINE Sound == \A b \in Bundle :
       plan[b] # None /\ plan'[b] \notin {None, plan[b]} =>
         /\ b \notin Locked \cup soft'
         /\ Pin[b] \cap Pool[b] # {} => plan'[b].topo \in Pin[b]
<1>1. TypeShape /\ RipUpSound /\ [Next]_vars => [Sound]_vars
  BY MoveStep
<1>2. Init => TypeShape /\ RipUpSound
  BY InitTypeShape, InitRipUpSound
<1>3. TypeShape /\ RipUpSound /\ [Next]_vars => (TypeShape /\ RipUpSound)'
  BY NextTypeShape, NextRipUpSound
<1> QED  BY <1>1, <1>2, <1>3, PTL DEF Spec, MovesAreSound

=============================================================================
