---------------------- MODULE IncrementalPlanner_proofs ----------------------
(***************************************************************************)
(* The incremental calls keep the contract of ReplanContract, for every    *)
(* design, every session and every order of the calls: at any moment the   *)
(* books are those of the recorded routes, and the record is that of the   *)
(* session but for what the running call has ripped up or booked.          *)
(***************************************************************************)
EXTENDS IncrementalPlanner, FiniteSetTheorems, FunctionTheorems, TLAPS

-----------------------------------------------------------------------------
(* Sums of track demand, by counting tracks.                               *)

(* A track belongs to one owner and has an index below its demand. *)
LEMMA TracksMember ==
  ASSUME NEW S, NEW f
  PROVE  \A t : t \in TracksOf(S, f) <=>
                  \E x \in S : \E i \in 1..f[x] : t = <<x, i>>
BY DEF TracksOf

(* The tracks of one owner: as many as its demand. *)
LEMMA OwnTracks ==
  ASSUME NEW x, NEW n \in Nat
  PROVE  IsFiniteSet({x} \X (1..n)) /\ Cardinality({x} \X (1..n)) = n
<1>1. IsFiniteSet({x}) /\ Cardinality({x}) = 1
  BY FS_Singleton
<1>2. IsFiniteSet(1..n) /\ Cardinality(1..n) = n
  BY FS_Interval
<1>3. /\ IsFiniteSet({x} \X (1..n))
      /\ Cardinality({x} \X (1..n)) = Cardinality({x}) * Cardinality(1..n)
  BY <1>1, <1>2, FS_Product
<1> QED  BY <1>1, <1>2, <1>3

(* Finitely many owners claim finitely many tracks: the sum is a number. *)
LEMMA TracksFinite ==
  ASSUME NEW S, IsFiniteSet(S), NEW f, \A x \in S : f[x] \in Nat
  PROVE  IsFiniteSet(TracksOf(S, f)) /\ Total(S, f) \in Nat
<1> DEFINE T == {{x} \X (1..f[x]) : x \in S}
<1> DEFINE own == [x \in S |-> {x} \X (1..f[x])]
<1>1. own \in Surjection(S, T)
  <2>1. own \in [S -> T]
    OBVIOUS
  <2>2. \A t \in T : \E x \in S : own[x] = t
    OBVIOUS
  <2> QED  BY <2>1, <2>2 DEF Surjection
<1>2. IsFiniteSet(T)
  <2> HIDE DEF T, own
  <2> QED  BY <1>1, FS_Surjection
<1>3. ASSUME NEW t \in T  PROVE IsFiniteSet(t)
  <2>1. PICK x \in S : t = {x} \X (1..f[x])
    OBVIOUS
  <2>2. IsFiniteSet({x} \X (1..f[x]))
    BY OwnTracks
  <2> QED  BY <2>1, <2>2
<1>4. IsFiniteSet(UNION T)
  <2> HIDE DEF T, own
  <2> QED  BY <1>2, <1>3, FS_UNION
<1>5. TracksOf(S, f) = UNION T
  BY DEF TracksOf
<1>6. IsFiniteSet(TracksOf(S, f))
  BY <1>4, <1>5
<1> QED  BY <1>6, FS_CardinalityType DEF Total

(* One owner can be taken out of a sum. *)
LEMMA TotalSplit ==
  ASSUME NEW S, IsFiniteSet(S), NEW f, \A x \in S : f[x] \in Nat, NEW b \in S
  PROVE  /\ Total(S \ {b}, f) \in Nat
         /\ Total(S, f) = Total(S \ {b}, f) + f[b]
<1> DEFINE rest == TracksOf(S \ {b}, f)
<1> DEFINE own == {b} \X (1..f[b])
<1>1. IsFiniteSet(S \ {b})
  BY FS_RemoveElement
<1>2. IsFiniteSet(rest) /\ Total(S \ {b}, f) \in Nat
  BY <1>1, TracksFinite
<1>3. IsFiniteSet(own) /\ Cardinality(own) = f[b]
  BY OwnTracks
<1>4. TracksOf(S, f) = rest \cup own
  <2>1. \A t : t \in own <=> \E i \in 1..f[b] : t = <<b, i>>
    OBVIOUS
  <2> HIDE DEF own
  <2>2. \A t : t \in TracksOf(S, f) <=> t \in rest \/ t \in own
    BY <2>1, TracksMember
  <2> QED  BY <2>2
<1>5. rest \cap own = {}
  BY TracksMember
<1>6. Cardinality(rest \cup own) = Cardinality(rest) + Cardinality(own) - 0
  <2> HIDE DEF rest, own
  <2> QED  BY <1>2, <1>3, <1>5, FS_Union, FS_EmptySet
<1> QED  BY <1>2, <1>3, <1>4, <1>6 DEF Total

(* The sum depends on the demands only, whatever function carries them. *)
LEMMA TotalSame ==
  ASSUME NEW S, NEW f, NEW g, \A x \in S : f[x] = g[x]
  PROVE  Total(S, f) = Total(S, g)
<1>1. \A t : t \in TracksOf(S, f) <=> t \in TracksOf(S, g)
  BY TracksMember
<1>2. TracksOf(S, f) = TracksOf(S, g)
  BY <1>1
<1> QED  BY <1>2 DEF Total

(* When one owner changes its demand the sum changes by as much. *)
LEMMA TotalChange ==
  ASSUME NEW S, IsFiniteSet(S), NEW f, NEW g, NEW b \in S,
         \A x \in S : f[x] \in Nat /\ g[x] \in Nat,
         \A x \in S \ {b} : f[x] = g[x]
  PROVE  Total(S, g) = Total(S, f) - f[b] + g[b]
<1>1. Total(S \ {b}, f) = Total(S \ {b}, g)
  BY TotalSame
<1>2. /\ Total(S \ {b}, f) \in Nat
      /\ Total(S, f) = Total(S \ {b}, f) + f[b]
  BY TotalSplit
<1>3. Total(S, g) = Total(S \ {b}, g) + g[b]
  BY TotalSplit
<1> QED  BY <1>1, <1>2, <1>3

-----------------------------------------------------------------------------
(* The books for given routes and a given contention.                      *)

Routes == [Bundle -> Plan \cup {None}]
Owes(r, s) == [b \in Bundle |-> IF r[b] = None THEN 0 ELSE Demand(r[b])[s]]
Drawn(r, i) == [s \in Slot |-> Total(Bundle, Owes(r, s)) + i[s]]
Lifted(r, b) == [r EXCEPT ![b] = None]

(* The contract speaks of the same books, searches and routes. *)
LEMMA SameDemand ==
  /\ Contract!Slot = Slot
  /\ \A p : Contract!Demand(p) = Demand(p)
  /\ \A S, f : Contract!Total(S, f) = Total(S, f)
<1>1. Contract!Slot = Slot
  BY DEF Contract!Slot, Slot
<1>2. \A p : Contract!Demand(p) = Demand(p)
  BY DEF Contract!Demand, Demand
<1>3. \A S, f : Contract!Total(S, f) = Total(S, f)
  BY DEF Contract!Total, Total, Contract!TracksOf, TracksOf, Contract!Cardinality, Cardinality
<1> QED  BY <1>1, <1>2, <1>3

LEMMA SameBooks == \A r : Contract!Books(r) = Drawn(r, injected)
BY SameDemand DEF Contract!Books, Drawn, Owes

LEMMA SameSearch ==
  \A T, mode, u : Contract!Found(T, mode, u) = Found(T, mode, u)
BY DEF Contract!Found, Found, Contract!Admissible, Admissible, Contract!Fits, Fits,
       Contract!FitsUpto, FitsUpto, Contract!MayFail, MayFail, Contract!PlansOf,
       PlansOf, Contract!GetsStuck, GetsStuck, Contract!Slot, Slot

LEMMA SameLadder ==
  /\ \A T, u : Contract!Relax(T, u) = Relax(T, u)
  /\ \A T, u : Contract!Ladder(T, u) = Ladder(T, u)
BY SameSearch DEF Contract!Relax, Relax, Contract!Ladder, Ladder

LEMMA SameRoutes == Contract!Routes = Routes
BY DEF Contract!Routes, Routes

(* A search comes back with a route or with None. *)
LEMMA FoundType ==
  ASSUME NEW T, NEW mode, NEW u, NEW p \in Found(T, mode, u)
  PROVE  p \in Plan \cup {None}
BY DEF Found

LEMMA LadderType ==
  ASSUME NEW T, NEW u
  PROVE  /\ Relax(T, u) \subseteq Plan \cup {None}
         /\ Ladder(T, u) \subseteq Plan \cup {None}
BY FoundType DEF Relax, Ladder

-----------------------------------------------------------------------------
(* What charging one route does to the books.                              *)

LEMMA DemandNat ==
  ASSUME NEW p \in Plan, NEW s \in Slot
  PROVE  Demand(p)[s] \in Nat
<1>1. Len(p.layers) \in 0..Len(p.layers)
  BY PlanAssumption
<1> QED  BY <1>1, PlanAssumption DEF Demand

LEMMA OwesNat ==
  ASSUME NEW r \in Routes, NEW s \in Slot
  PROVE  \A b \in Bundle : Owes(r, s)[b] \in Nat
BY DemandNat DEF Owes, Routes

LEMMA DrawnType ==
  ASSUME NEW r \in Routes, NEW i \in [Slot -> Nat]
  PROVE  Drawn(r, i) \in [Slot -> Nat]
<1> SUFFICES ASSUME NEW s \in Slot  PROVE Total(Bundle, Owes(r, s)) + i[s] \in Nat
  BY DEF Drawn
<1>1. Total(Bundle, Owes(r, s)) \in Nat
  BY OwesNat, SessionAssumption, TracksFinite
<1> QED  BY <1>1

(* Routes that differ in one bundle owe the same but for that bundle. *)
LEMMA OneRoute ==
  ASSUME NEW r \in Routes, NEW q \in Routes, NEW b \in Bundle,
         \A c \in Bundle \ {b} : r[c] = q[c], NEW s \in Slot
  PROVE  Total(Bundle, Owes(q, s))
           = Total(Bundle, Owes(r, s)) - Owes(r, s)[b] + Owes(q, s)[b]
<1>1. \A c \in Bundle : Owes(r, s)[c] \in Nat /\ Owes(q, s)[c] \in Nat
  BY OwesNat
<1>2. \A c \in Bundle \ {b} : Owes(r, s)[c] = Owes(q, s)[c]
  BY DEF Owes
<1>3. IsFiniteSet(Bundle)
  BY SessionAssumption
<1> HIDE DEF Owes
<1> DEFINE f == Owes(r, s)  g == Owes(q, s)
<1>4. /\ \A c \in Bundle : f[c] \in Nat /\ g[c] \in Nat
      /\ \A c \in Bundle \ {b} : f[c] = g[c]
  BY <1>1, <1>2
<1> HIDE DEF f, g
<1>5. Total(Bundle, g) = Total(Bundle, f) - f[b] + g[b]
  BY <1>3, <1>4, TotalChange
<1> QED  BY <1>5 DEF f, g

(* commit_plan on the books of r, for a bundle r has no route of, leaves   *)
(* the books with it.                                                      *)
LEMMA Committed ==
  ASSUME NEW r \in Routes, NEW i \in [Slot -> Nat], NEW b \in Bundle, r[b] = None,
         NEW p \in Plan
  PROVE  /\ Charge(Drawn(r, i), p) = Drawn([r EXCEPT ![b] = p], i)
         /\ [r EXCEPT ![b] = p] \in Routes
<1> DEFINE q == [r EXCEPT ![b] = p]
<1>1. q \in Routes /\ q[b] = p /\ \A c \in Bundle \ {b} : r[c] = q[c]
  BY DEF Routes
<1>2. ASSUME NEW s \in Slot
      PROVE  Drawn(r, i)[s] + Demand(p)[s] = Drawn(q, i)[s]
  <2>1. Owes(r, s)[b] = 0 /\ Owes(q, s)[b] = Demand(p)[s]
    BY <1>1, PlanAssumption DEF Owes
  <2>2. Total(Bundle, Owes(q, s)) = Total(Bundle, Owes(r, s)) - Owes(r, s)[b] + Owes(q, s)[b]
    BY <1>1, OneRoute
  <2>3. Total(Bundle, Owes(r, s)) \in Nat
    BY OwesNat, SessionAssumption, TracksFinite
  <2>4. Drawn(r, i)[s] = Total(Bundle, Owes(r, s)) + i[s]
        /\ Drawn(q, i)[s] = Total(Bundle, Owes(q, s)) + i[s]
    BY DEF Drawn
  <2> QED  BY <2>1, <2>2, <2>3, <2>4, DemandNat
<1>3. Drawn(q, i) = [s \in Slot |-> Drawn(q, i)[s]]
  BY DEF Drawn
<1> HIDE DEF q
<1>4. Charge(Drawn(r, i), p) = Drawn(q, i)
  BY <1>2, <1>3 DEF Charge
<1> QED  BY <1>1, <1>4 DEF q

(* With sign -1 it leaves the books without the route that was recorded. *)
LEMMA Uncommitted ==
  ASSUME NEW r \in Routes, NEW i \in [Slot -> Nat], NEW b \in Bundle, r[b] # None
  PROVE  /\ Uncharge(Drawn(r, i), r[b]) = Drawn(Lifted(r, b), i)
         /\ Lifted(r, b) \in Routes
<1>1. /\ Lifted(r, b) \in Routes /\ Lifted(r, b)[b] = None /\ r[b] \in Plan
      /\ \A c \in Bundle \ {b} : r[c] = Lifted(r, b)[c]
  BY DEF Routes, Lifted
<1>2. ASSUME NEW s \in Slot
      PROVE  Drawn(r, i)[s] - Demand(r[b])[s] = Drawn(Lifted(r, b), i)[s]
  <2>1. Owes(r, s)[b] = Demand(r[b])[s] /\ Owes(Lifted(r, b), s)[b] = 0
    BY <1>1 DEF Owes
  <2>2. Total(Bundle, Owes(Lifted(r, b), s))
          = Total(Bundle, Owes(r, s)) - Owes(r, s)[b] + Owes(Lifted(r, b), s)[b]
    BY <1>1, OneRoute
  <2>3. Total(Bundle, Owes(r, s)) \in Nat
    BY OwesNat, SessionAssumption, TracksFinite
  <2>4. Drawn(r, i)[s] = Total(Bundle, Owes(r, s)) + i[s]
        /\ Drawn(Lifted(r, b), i)[s] = Total(Bundle, Owes(Lifted(r, b), s)) + i[s]
    BY DEF Drawn
  <2> QED  BY <1>1, <2>1, <2>2, <2>3, <2>4, DemandNat
<1>3. Drawn(Lifted(r, b), i) = [s \in Slot |-> Drawn(Lifted(r, b), i)[s]]
  BY DEF Drawn
<1>4. Uncharge(Drawn(r, i), r[b]) = Drawn(Lifted(r, b), i)
  BY <1>2, <1>3 DEF Uncharge
<1> QED  BY <1>1, <1>4

-----------------------------------------------------------------------------
(* The invariant.                                                          *)

Types ==
  /\ injected \in [Slot -> Nat]
  /\ charged \in Routes /\ route \in Routes
  /\ pinned \subseteq Bundle /\ tried \subseteq Bundle /\ contended \subseteq Band
  /\ pc \in {"prompt", "negotiate", "round", "ladder", "ripped", "squeezed"}
  /\ mine \in Plan \cup {None} /\ victim \in Bundle \cup {None}
  /\ IF Calling THEN call \in Bundle ELSE call = None
  /\ pc \notin {"prompt", "negotiate"} => snap \in [route : Routes, pinned : SUBSET Bundle]

(* The books are drawn from the record, ... *)
Record == usage = Drawn(charged, injected)

(* ... and the record in a call is the session's, but for the target and   *)
(* the victim.  The target had no room of its own before a rip-up, and has *)
(* some with the victim gone.                                              *)
Beside == Lifted(route, call)
Displaced == Lifted(Beside, victim)

Standing ==
  /\ pc = "ladder" => charged = Beside
  /\ pc = "ripped" => charged = Displaced
  /\ pc = "squeezed" =>
       /\ mine \in Found(Free(call), "STRICT", Drawn(Displaced, injected))
       /\ mine # None
       /\ charged = [Displaced EXCEPT ![call] = mine]
  /\ pc \in {"ripped", "squeezed"} =>
       /\ victim \in Bundle /\ victim # call /\ victim \notin Locked
       /\ route[victim] # None
       /\ None \in Found(Free(call), "STRICT", Drawn(Beside, injected))

IInv == Types /\ Record /\ Standing

(* A step of the contract, or one it does not see. *)
ContractStep == [Contract!Next]_(Contract!vars)

LEMMA InitIInv == Init => IInv /\ Contract!Init
<1> SUFFICES ASSUME Init  PROVE IInv /\ Contract!Init
  OBVIOUS
<1>1. ~Calling
  BY DEF Init, Calling
<1>2. Types
  BY <1>1, SessionAssumption DEF Init, Types, Routes, Slot
<1>3. usage = Drawn(route, injected)
  BY SameBooks DEF Init
<1>4. Record /\ Standing
  BY <1>3 DEF Init, Record, Standing
<1>5. Contract!Init
  BY <1>1, <1>2, SameRoutes, SameDemand DEF Init, Types, Contract!Init, Calling
<1> QED  BY <1>2, <1>4, <1>5 DEF IInv

(* Redrawing the books without b. *)
LEMMA Recharged ==
  ASSUME IInv, NEW b \in Bundle
  PROVE  /\ recharge_committed_(b) = [usage |-> Drawn(Lifted(route, b), injected),
                                     charged |-> Lifted(route, b)]
         /\ Lifted(route, b) \in Routes
         /\ Lifted(route, b) = Contract!Without(b)
<1>1. Lifted(route, b) = [c \in Bundle |-> IF c = b THEN None ELSE route[c]]
      /\ Lifted(route, b) \in Routes
  BY DEF Lifted, IInv, Types, Routes
<1>2. Lifted(route, b) = Contract!Without(b)
  BY DEF Lifted, Contract!Without
<1> QED  BY <1>1, <1>2, SameBooks DEF recharge_committed_

LEMMA RechargedAll ==
  ASSUME IInv
  PROVE  recharge_committed_(None) = [usage |-> Drawn(route, injected), charged |-> route]
<1>1. route = [c \in Bundle |-> IF c = None THEN None ELSE route[c]]
  BY SessionAssumption DEF IInv, Types, Routes
<1> QED  BY <1>1, SameBooks DEF recharge_committed_

-----------------------------------------------------------------------------
(* Calls that are one step.                                                *)

LEMMA StepRecharge ==
  ASSUME IInv, recharge_committed \/ \E b \in Target : candidate_costs(b)
  PROVE  IInv' /\ ContractStep
<1>1. /\ usage' = Drawn(route, injected) /\ charged' = route
      /\ pc = "prompt" /\ UNCHANGED <<injected, session, pc, search>>
  BY RechargedAll DEF recharge_committed, candidate_costs, Book
<1>2. IInv'
  BY <1>1 DEF IInv, Types, Record, Standing, Calling, session, search
<1>3. Contract!Redraw
  BY <1>1, SameBooks DEF IInv, Types, Contract!Redraw, Calling, session, search
<1> QED  BY <1>2, <1>3 DEF ContractStep, Contract!Next

LEMMA StepCandidates ==
  ASSUME IInv, NEW b \in Target, replan_candidates(b)
  PROVE  IInv' /\ ContractStep
<1>1. b \in Bundle
  BY SessionAssumption
<1>2. /\ usage' = Drawn(Lifted(route, b), injected) /\ charged' = Lifted(route, b)
      /\ pc = "prompt" /\ UNCHANGED <<injected, session, pc, search>>
  BY <1>1, Recharged DEF replan_candidates, Book
<1>3. IInv'
  BY <1>1, <1>2, Recharged DEF IInv, Types, Record, Standing, Calling, session, search
<1>4. usage' = Contract!Books(Contract!Without(b))
  BY <1>1, <1>2, Recharged, SameBooks
<1>5. Contract!Redraw
  BY <1>1, <1>2, <1>4 DEF IInv, Types, Contract!Redraw, Calling, session, search
<1> QED  BY <1>3, <1>5 DEF ContractStep, Contract!Next

LEMMA StepReplan ==
  ASSUME IInv, NEW b \in Target, NEW t \in Pool[b], replan_bundle(b, t)
  PROVE  IInv' /\ ContractStep
<1> DEFINE books == Drawn(Lifted(route, b), injected)
<1>1. b \in Bundle
  BY SessionAssumption
<1>2. /\ recharge_committed_(b).usage = books
      /\ recharge_committed_(b).charged = Lifted(route, b)
      /\ Lifted(route, b) \in Routes
      /\ Contract!Books(Contract!Without(b)) = books
  BY <1>1, Recharged, SameBooks
<1>3. /\ pc = "prompt" /\ Contract!Movable(b) /\ ~Calling /\ ~Calling'
      /\ UNCHANGED <<injected, pc, call, contended, tried, victim, mine, snap>>
  BY DEF replan_bundle, Movable, Calling, search, session
<1>4. PICK p \in Ladder(Contract!To(b, t), books) :
        \/ p = None /\ usage' = books /\ charged' = Lifted(route, b) /\ UNCHANGED session
        \/ /\ p # None
           /\ usage' = Charge(books, p)
           /\ charged' = [Lifted(route, b) EXCEPT ![b] = p]
           /\ \/ UNCHANGED session
              \/ /\ route' = [route EXCEPT ![b] = p]
                 /\ pinned' = pinned \cup {b}
  BY <1>2 DEF replan_bundle, Book, Commit
<1> HIDE DEF books
<1>5. p \in Contract!Ladder(Contract!To(b, t), Contract!Books(Contract!Without(b)))
  BY <1>2, SameLadder
<1>6. CASE p = None
  <2>1. usage' = books /\ charged' = Lifted(route, b) /\ UNCHANGED session
    BY <1>4, <1>6
  <2>2. IInv'
    BY <1>2, <1>3, <2>1 DEF books, IInv, Types, Record, Standing, Calling, session
  <2>3. Contract!Single(b, t)
    BY <1>2, <1>3, <1>5, <1>6, <2>1 DEF IInv, Types, Contract!Single, session
  <2> QED  BY <1>1, <2>2, <2>3 DEF ContractStep, Contract!Next
<1>7. CASE p # None
  <2>1. p \in Plan
    BY <1>7, LadderType
  <2>2. Lifted(route, b)[b] = None
        /\ [Lifted(route, b) EXCEPT ![b] = p] = [route EXCEPT ![b] = p]
    BY <1>1 DEF Lifted, IInv, Types, Routes
  <2>3. usage' = Drawn([route EXCEPT ![b] = p], injected)
        /\ charged' = [route EXCEPT ![b] = p] /\ charged' \in Routes
    BY <1>1, <1>2, <1>4, <1>7, <2>1, <2>2, Committed DEF books, IInv, Types
  <2>4. /\ route' \in Routes /\ pinned' \subseteq Bundle
        /\ \/ UNCHANGED <<route, pinned>>
           \/ route' = [route EXCEPT ![b] = p] /\ pinned' = pinned \cup {b}
    BY <1>1, <1>4, <1>7, <2>3 DEF IInv, Types, session
  <2>5. IInv'
    BY <1>3, <2>3, <2>4 DEF IInv, Types, Record, Standing, Calling
  <2>6. usage' = Contract!Books(Contract!With(b, p))
        /\ Contract!With(b, p) = [route EXCEPT ![b] = p]
    BY <2>3, SameBooks DEF Contract!With
  <2>7. Contract!Single(b, t)
    BY <1>3, <1>5, <1>7, <2>4, <2>6 DEF IInv, Types, Contract!Single
  <2> QED  BY <1>1, <2>5, <2>7 DEF ContractStep, Contract!Next
<1> QED  BY <1>6, <1>7

-----------------------------------------------------------------------------
(* Iterations of negotiate_congestion.                                     *)

(* Another contention on the same routes. *)
LEMMA Repriced ==
  ASSUME NEW r \in Routes, NEW i \in [Slot -> Nat], NEW d \in [Slot -> Nat]
  PROVE  [s \in Slot |-> Drawn(r, i)[s] - i[s] + d[s]] = Drawn(r, d)
<1>1. ASSUME NEW s \in Slot
      PROVE  Drawn(r, i)[s] - i[s] + d[s] = Drawn(r, d)[s]
  <2>1. Total(Bundle, Owes(r, s)) \in Nat
    BY OwesNat, SessionAssumption, TracksFinite
  <2>2. Drawn(r, i)[s] = Total(Bundle, Owes(r, s)) + i[s]
        /\ Drawn(r, d)[s] = Total(Bundle, Owes(r, s)) + d[s]
    BY DEF Drawn
  <2> QED  BY <2>1, <2>2
<1>2. Drawn(r, d) = [s \in Slot |-> Drawn(r, d)[s]]
  BY DEF Drawn
<1> QED  BY <1>1, <1>2

LEMMA StepBeginRound ==
  ASSUME IInv, BeginRound
  PROVE  IInv' /\ ContractStep
<1>1. PICK d \in Prices :
        /\ usage' = [s \in Slot |-> usage[s] - injected[s] + d[s]]
        /\ injected' = d
  BY DEF BeginRound
<1>2. d \in [Slot -> Nat]
  BY SessionAssumption
<1>3. usage' = Drawn(charged, d)
  BY <1>1, <1>2, Repriced DEF IInv, Record, Types
<1>4. IInv'
  BY <1>1, <1>2, <1>3 DEF BeginRound, IInv, Types, Record, Standing, Calling, search
<1>5. Contract!Price
  BY <1>1, <1>2, SameDemand DEF BeginRound, IInv, Types, Contract!Price, Calling, search
<1> QED  BY <1>4, <1>5 DEF ContractStep, Contract!Next

LEMMA StepEndRound ==
  ASSUME IInv, EndRound
  PROVE  IInv' /\ ContractStep
<1>1. /\ pc = "round" /\ pc' = "negotiate" /\ route' \in Routes /\ pinned' \subseteq Bundle
      /\ UNCHANGED <<usage, charged, injected, search>>
  BY DEF EndRound, IInv, Types
<1>2. IInv'
  BY <1>1 DEF IInv, Types, Record, Standing, Calling, search
<1>3. Contract!Edit
  BY <1>1, SameRoutes DEF IInv, Types, Contract!Edit, Calling, search
<1> QED  BY <1>2, <1>3 DEF ContractStep, Contract!Next

LEMMA StepEndNegotiate ==
  ASSUME IInv, EndNegotiate
  PROVE  IInv' /\ ContractStep
<1> DEFINE z == [s \in Slot |-> 0]
<1>1. z \in [Slot -> Nat]
  OBVIOUS
<1>2. [s \in Slot |-> usage[s] - injected[s] + z[s]] = Drawn(charged, z)
  BY <1>1, Repriced DEF IInv, Record, Types
<1>3. usage \in [Slot -> Nat]
  BY DrawnType DEF IInv, Record, Types
<1>4. usage' = [s \in Slot |-> usage[s] - injected[s] + z[s]] /\ injected' = z
  BY <1>3 DEF EndNegotiate, IInv, Types
<1> HIDE DEF z
<1>5. IInv'
  BY <1>1, <1>2, <1>4
     DEF EndNegotiate, IInv, Types, Record, Standing, Calling, session, search
<1>6. injected' \in [Contract!Slot -> Nat]
      /\ usage' = [s \in Contract!Slot |-> usage[s] - injected[s] + injected'[s]]
  BY <1>1, <1>4, SameDemand
<1>7. Contract!Price
  BY <1>6 DEF EndNegotiate, IInv, Types, Contract!Price, Calling, session, search
<1> QED  BY <1>5, <1>7 DEF ContractStep, Contract!Next

-----------------------------------------------------------------------------
(* The steps of replan_bundle_ripup.                                       *)

LEMMA StepEnter ==
  ASSUME IInv, NEW b \in Target, Enter(b)
  PROVE  IInv' /\ ContractStep
<1>1. b \in Bundle
  BY SessionAssumption
<1>2. /\ usage' = Drawn(Lifted(route, b), injected) /\ charged' = Lifted(route, b)
      /\ Lifted(route, b) \in Routes
  BY <1>1, Recharged DEF Enter, Book
<1>3. /\ pc = "round" /\ pc' = "ladder" /\ Contract!Movable(b) /\ ~Calling /\ Calling'
      /\ pinned' = pinned \ {b} /\ call' = b /\ tried' = {}
      /\ UNCHANGED <<injected, route, snap, victim, mine>>
  BY DEF Enter, Calling, Movable
<1>4. contended' \subseteq Band
  BY DEF Enter, ContendedBy
<1>5. IInv'
  BY <1>1, <1>2, <1>3, <1>4 DEF IInv, Types, Record, Standing, Beside, Lifted
<1>6. Contract!Enter(b)
  BY <1>3 DEF IInv, Types, Contract!Enter
<1> QED  BY <1>1, <1>5, <1>6 DEF ContractStep, Contract!Next

(* What a call returns with: the routes r, and their books. *)
LEMMA Returned ==
  ASSUME IInv, Calling, NEW r \in Routes, Return(r), charged' = r,
         usage' = Drawn(r, injected)
  PROVE  IInv' /\ ~Calling' /\ call' = None /\ UNCHANGED <<injected, pinned>>
BY DEF IInv, Types, Record, Standing, Return, Calling

(* The target is planned: its route is added to the others'. *)
LEMMA PlannedBeside ==
  ASSUME IInv, pc = "ladder", NEW p \in Plan,
         Book(Commit(usage, charged, call, p)), Return([route EXCEPT ![call] = p]),
         p \in Ladder(Free(call), usage)
  PROVE  IInv' /\ ContractStep
<1>1. /\ Calling /\ call \in Bundle /\ charged = Beside /\ usage = Drawn(Beside, injected)
      /\ route \in Routes /\ Beside \in Routes /\ injected \in [Slot -> Nat]
  BY DEF IInv, Types, Record, Standing, Calling
<1>a. Beside[call] = None
  BY <1>1 DEF Beside, Lifted, Routes
<1>2. /\ [Beside EXCEPT ![call] = p] = [route EXCEPT ![call] = p]
      /\ Beside = Contract!Without(call)
      /\ [route EXCEPT ![call] = p] = Contract!With(call, p)
  BY <1>1 DEF Beside, Lifted, Routes, Contract!Without, Contract!With
<1>3. /\ usage' = Drawn([route EXCEPT ![call] = p], injected)
      /\ charged' = [route EXCEPT ![call] = p] /\ charged' \in Routes
  <2>1. /\ Charge(Drawn(Beside, injected), p) = Drawn([Beside EXCEPT ![call] = p], injected)
        /\ [Beside EXCEPT ![call] = p] \in Routes
    BY <1>1, <1>a, Committed
  <2>2. usage' = Charge(usage, p) /\ charged' = [charged EXCEPT ![call] = p]
    BY DEF Book, Commit
  <2> QED  BY <1>1, <1>2, <2>1, <2>2
<1>4. IInv' /\ ~Calling' /\ call' = None /\ UNCHANGED <<injected, pinned>>
  BY <1>1, <1>3, Returned
<1>5. route' = Contract!With(call, p) /\ usage' = Contract!Books(route')
  BY <1>2, <1>3, SameBooks DEF Return
<1>6. p \in Contract!Ladder(Contract!Free(call), Contract!Books(Contract!Without(call)))
  BY <1>1, <1>2, SameLadder, SameBooks DEF Free
<1>7. Contract!Alone
  BY <1>1, <1>4, <1>5, <1>6, SessionAssumption, PlanAssumption DEF Contract!Alone
<1> QED  BY <1>4, <1>7 DEF ContractStep, Contract!Next

LEMMA StepReturnStrict ==
  ASSUME IInv, ReturnStrict
  PROVE  IInv' /\ ContractStep
<1>1. PICK p \in Strict \ {None} :
        Book(Commit(usage, charged, call, p)) /\ Return([route EXCEPT ![call] = p])
  BY DEF ReturnStrict
<1>2. p \in Plan /\ p \in Ladder(Free(call), usage)
  BY FoundType DEF Strict, Ladder
<1> QED  BY <1>1, <1>2, PlannedBeside DEF ReturnStrict

LEMMA StepReturnRelaxed ==
  ASSUME IInv, ReturnRelaxed
  PROVE  IInv' /\ ContractStep
<1>1. PICK p \in Relax(Free(call), usage) :
        \/ p = None /\ Return(route) /\ UNCHANGED <<usage, charged>>
        \/ /\ p # None
           /\ Book(Commit(usage, charged, call, p))
           /\ Return([route EXCEPT ![call] = p])
  BY DEF ReturnRelaxed
<1>2. pc = "ladder" /\ p \in Ladder(Free(call), usage)
  BY DEF ReturnRelaxed, Strict, Ladder
<1>3. CASE p # None
  <2>1. p \in Plan
    BY <1>3, LadderType
  <2> QED  BY <1>1, <1>2, <1>3, <2>1, PlannedBeside
<1>4. CASE p = None
  <2>1. /\ Calling /\ call \in Bundle /\ charged = Beside /\ usage = Drawn(Beside, injected)
        /\ Beside = Contract!Without(call)
    BY <1>2 DEF IInv, Types, Record, Standing, Calling, Beside, Lifted, Contract!Without
  <2>2. /\ route' = route /\ pc' = "round" /\ call' = None
        /\ contended' = {} /\ tried' = {} /\ victim' = None /\ mine' = None
        /\ UNCHANGED <<usage, charged, injected, pinned, snap>>
    BY <1>1, <1>4, PlanAssumption DEF Return
  <2>3. IInv' /\ ~Calling'
    BY <1>2, <2>2 DEF IInv, Types, Record, Standing, Calling
  <2>4. usage' = Contract!Books(Contract!Without(call))
    BY <2>1, <2>2, SameBooks
  <2>5. p \in Contract!Ladder(Contract!Free(call), Contract!Books(Contract!Without(call)))
    BY <1>2, <2>2, <2>4, SameLadder DEF Free
  <2>6. Contract!Alone
    BY <1>4, <2>1, <2>2, <2>3, <2>4, <2>5, SessionAssumption DEF Contract!Alone
  <2> QED  BY <2>3, <2>6 DEF ContractStep, Contract!Next
<1> QED  BY <1>3, <1>4

(* Inside a call nothing is seen of the contract's state. *)
LEMMA Inside ==
  ASSUME Calling, Calling', UNCHANGED <<injected, route, pinned, call>>
  PROVE  ContractStep
BY DEF ContractStep, Contract!vars

LEMMA StepRipUp ==
  ASSUME IInv, NEW v \in Bundle, RipUp(v)
  PROVE  IInv' /\ ContractStep
<1>1. /\ pc = "ladder" /\ Calling /\ call \in Bundle /\ charged = Beside
      /\ usage = Drawn(Beside, injected) /\ Beside \in Routes /\ route \in Routes
      /\ injected \in [Slot -> Nat]
  BY DEF RipUp, IInv, Types, Record, Standing, Calling
<1>2. /\ v # call /\ v \notin Locked /\ route[v] # None
      /\ None \in Found(Free(call), "STRICT", Drawn(Beside, injected))
  BY <1>1 DEF RipUp, Victims, Strict
<1>3. Beside[v] # None /\ Beside[v] = route[v]
  BY <1>1, <1>2 DEF Beside, Lifted, Routes
<1>4. /\ Uncharge(Drawn(Beside, injected), Beside[v]) = Drawn(Lifted(Beside, v), injected)
      /\ Lifted(Beside, v) \in Routes
  BY <1>1, <1>3, Uncommitted
<1>5. /\ pc' = "ripped" /\ victim' = v
      /\ usage' = Uncharge(usage, charged[v]) /\ charged' = [charged EXCEPT ![v] = None]
      /\ UNCHANGED <<injected, route, pinned, snap, call, contended, tried, mine>>
  BY DEF RipUp, Rest, Book, Uncommit, session
<1>6. charged' = Displaced' /\ charged' = Lifted(Beside, v)
  BY <1>1, <1>5 DEF Displaced, Beside, Lifted
<1>7. Calling'
  BY <1>5 DEF Calling
<1>8. Types' /\ Record'
  BY <1>1, <1>4, <1>5, <1>6, <1>7 DEF IInv, Types, Record
<1>9. (None \in Found(Free(call), "STRICT", Drawn(Beside, injected)))'
  BY <1>2, <1>5 DEF Beside, Lifted, Drawn, Owes, Free, Contract!Free
<1>10. Standing'
  BY <1>2, <1>5, <1>6, <1>9 DEF Standing
<1> QED  BY <1>1, <1>5, <1>7, <1>8, <1>10, Inside DEF IInv

(* What a rip-up knows: the target is off the record, and the victim too. *)
LEMMA RippedFacts ==
  ASSUME IInv, pc \in {"ripped", "squeezed"}
  PROVE  /\ Calling /\ call \in Bundle /\ victim \in Bundle /\ victim # call
         /\ route \in Routes /\ Beside \in Routes /\ Displaced \in Routes
         /\ injected \in [Slot -> Nat]
         /\ Displaced[call] = None /\ Displaced[victim] = None
         /\ route[victim] \in Plan
         /\ Beside = Contract!Without(call)
<1>1. /\ Calling /\ call \in Bundle /\ victim \in Bundle /\ victim # call
      /\ route \in Routes /\ injected \in [Slot -> Nat] /\ route[victim] # None
  BY DEF IInv, Types, Standing, Calling
<1>2. Beside \in Routes /\ Beside[call] = None /\ Beside = Contract!Without(call)
  BY <1>1 DEF Beside, Lifted, Routes, Contract!Without
<1>3. Displaced \in Routes /\ Displaced[call] = None /\ Displaced[victim] = None
  BY <1>1, <1>2 DEF Displaced, Lifted, Routes
<1>4. route[victim] \in Plan
  BY <1>1 DEF Routes
<1> QED  BY <1>1, <1>2, <1>3, <1>4

LEMMA StepPlanMine ==
  ASSUME IInv, PlanMine
  PROVE  IInv' /\ ContractStep
<1>1. /\ pc = "ripped" /\ pc' = "squeezed"
      /\ UNCHANGED <<injected, route, pinned, snap, call, contended, tried, victim>>
  BY DEF PlanMine, Rest, session
<1>2. PICK p \in Strict \ {None} :
        /\ mine' = p /\ usage' = Charge(usage, p) /\ charged' = [charged EXCEPT ![call] = p]
  BY DEF PlanMine, Rest, Book, Commit
<1>3. charged = Displaced /\ usage = Drawn(Displaced, injected)
  BY <1>1 DEF IInv, Record, Standing
<1>4. p \in Plan /\ p \in Found(Free(call), "STRICT", Drawn(Displaced, injected))
  BY <1>3, FoundType DEF Strict
<1>5. /\ Charge(Drawn(Displaced, injected), p) = Drawn([Displaced EXCEPT ![call] = p], injected)
      /\ [Displaced EXCEPT ![call] = p] \in Routes
  BY <1>1, <1>4, RippedFacts, Committed
<1>6. Calling /\ Calling'
  BY <1>1 DEF Calling
<1>7. Types' /\ Record'
  BY <1>1, <1>2, <1>3, <1>4, <1>5, <1>6 DEF IInv, Types, Record
<1>8. (mine \in Found(Free(call), "STRICT", Drawn(Displaced, injected)))'
  BY <1>1, <1>2, <1>4 DEF Displaced, Beside, Lifted, Drawn, Owes, Free, Contract!Free
<1>9. (None \in Found(Free(call), "STRICT", Drawn(Beside, injected)))'
  <2>1. None \in Found(Free(call), "STRICT", Drawn(Beside, injected))
    BY <1>1 DEF IInv, Standing
  <2> QED  BY <1>1, <2>1 DEF Beside, Lifted, Drawn, Owes, Free, Contract!Free
<1>10. charged' = [Displaced EXCEPT ![call] = mine]'
  BY <1>1, <1>2, <1>3 DEF Displaced, Beside, Lifted
<1>11. mine' # None
  BY <1>2
<1>12. (/\ victim \in Bundle /\ victim # call /\ victim \notin Locked
        /\ route[victim] # None)'
  BY <1>1 DEF IInv, Standing
<1>13. Standing'
  BY <1>1, <1>8, <1>9, <1>10, <1>11, <1>12 DEF Standing
<1> QED  BY <1>1, <1>6, <1>7, <1>13, Inside DEF IInv

(* Putting the victim back restores the record of before the rip-up. *)
LEMMA StepRestore ==
  ASSUME IInv, Restore
  PROVE  IInv' /\ ContractStep
<1>1. /\ pc \in {"ripped", "squeezed"} /\ pc' = "ladder" /\ tried' = tried \cup {victim}
      /\ victim' = None /\ mine' = None
      /\ UNCHANGED <<injected, route, pinned, snap, call, contended>>
  BY DEF Restore, Rest, session
<1>2. /\ Charge(Drawn(Displaced, injected), route[victim])
           = Drawn([Displaced EXCEPT ![victim] = route[victim]], injected)
      /\ [Displaced EXCEPT ![victim] = route[victim]] = Beside
  <2>1. Charge(Drawn(Displaced, injected), route[victim])
           = Drawn([Displaced EXCEPT ![victim] = route[victim]], injected)
    BY <1>1, RippedFacts, Committed
  <2>2. Displaced = [Beside EXCEPT ![victim] = None]
    BY DEF Displaced, Lifted
  <2>3. Beside[victim] = route[victim]
    BY <1>1, RippedFacts DEF Beside, Lifted, Routes
  <2> QED  BY <1>1, <2>1, <2>2, <2>3, RippedFacts DEF Routes
<1>3. usage' = Drawn(Beside, injected) /\ charged' = Beside
  <2>1. CASE pc = "ripped"
    <3>1. charged = Displaced /\ usage = Drawn(Displaced, injected)
      BY <2>1 DEF IInv, Record, Standing
    <3>2. /\ usage' = Charge(usage, route[victim])
          /\ charged' = [charged EXCEPT ![victim] = route[victim]]
      BY <2>1 DEF Restore, Rest, Book, Commit
    <3> QED  BY <1>2, <3>1, <3>2
  <2>2. CASE pc = "squeezed"
    <3>1. /\ charged = [Displaced EXCEPT ![call] = mine] /\ usage = Drawn(charged, injected)
          /\ charged \in Routes /\ mine # None
      BY <2>2 DEF IInv, Types, Record, Standing
    <3>2. /\ usage' = Charge(Uncharge(usage, charged[call]), route[victim])
          /\ charged' = [[charged EXCEPT ![call] = None] EXCEPT ![victim] = route[victim]]
      BY <2>2 DEF Restore, Rest, Book, Commit, Uncommit
    <3>3. charged[call] = mine /\ Lifted(charged, call) = Displaced
          /\ [charged EXCEPT ![call] = None] = Displaced
      BY <2>2, <3>1, RippedFacts DEF Lifted, Routes
    <3>4. Uncharge(Drawn(charged, injected), charged[call]) = Drawn(Displaced, injected)
      BY <2>2, <3>1, <3>3, RippedFacts, Uncommitted
    <3> QED  BY <1>2, <3>1, <3>2, <3>3, <3>4
  <2> QED  BY <1>1, <2>1, <2>2
<1>4. Calling /\ Calling'
  BY <1>1 DEF Calling
<1>5. charged' = Beside' /\ Standing'
  BY <1>1, <1>3 DEF Standing, Beside, Lifted
<1>6. Types' /\ Record'
  BY <1>1, <1>3, <1>4, RippedFacts DEF IInv, Types, Record
<1> QED  BY <1>1, <1>4, <1>5, <1>6, Inside DEF IInv

LEMMA StepAcceptRipUp ==
  ASSUME IInv, AcceptRipUp
  PROVE  IInv' /\ ContractStep
<1>1. pc = "squeezed"
  BY DEF AcceptRipUp
<1>2. PICK q \in Theirs \ {None} :
        /\ usage' = Charge(usage, q) /\ charged' = [charged EXCEPT ![victim] = q]
        /\ Return([route EXCEPT ![call] = mine, ![victim] = q])
  BY DEF AcceptRipUp, Book, Commit
<1>3. /\ charged = [Displaced EXCEPT ![call] = mine] /\ usage = Drawn(charged, injected)
      /\ mine \in Found(Free(call), "STRICT", Drawn(Displaced, injected)) /\ mine # None
      /\ mine \in Plan /\ charged \in Routes /\ victim \notin Locked /\ route[victim] # None
      /\ None \in Found(Free(call), "STRICT", Drawn(Beside, injected))
  BY <1>1 DEF IInv, Types, Record, Standing
<1>4. q \in Plan /\ q \in Found(Sweep(victim), "STRICT", Drawn(charged, injected))
  BY <1>2, <1>3, FoundType DEF Theirs
<1>5. charged[victim] = None
  BY <1>1, <1>3, RippedFacts DEF Routes
<1>6. /\ Charge(Drawn(charged, injected), q) = Drawn([charged EXCEPT ![victim] = q], injected)
      /\ [charged EXCEPT ![victim] = q] \in Routes
  <2>1. charged \in Routes /\ injected \in [Slot -> Nat] /\ victim \in Bundle
    BY <1>1, <1>3, RippedFacts
  <2> QED  BY <1>4, <1>5, <2>1, Committed
<1>7. /\ [charged EXCEPT ![victim] = q] = [route EXCEPT ![call] = mine, ![victim] = q]
      /\ charged = [Contract!With(call, mine) EXCEPT ![victim] = None]
      /\ Displaced = [Contract!Without(call) EXCEPT ![victim] = None]
      /\ [route EXCEPT ![call] = mine, ![victim] = q]
            = [Contract!With(call, mine) EXCEPT ![victim] = q]
  BY <1>1, <1>3, RippedFacts
     DEF Displaced, Beside, Lifted, Routes, Contract!With, Contract!Without
<1>8. IInv' /\ ~Calling' /\ call' = None /\ UNCHANGED <<injected, pinned>>
  <2>1. charged' = [route EXCEPT ![call] = mine, ![victim] = q]
        /\ usage' = Drawn([route EXCEPT ![call] = mine, ![victim] = q], injected)
        /\ [route EXCEPT ![call] = mine, ![victim] = q] \in Routes
    BY <1>2, <1>3, <1>6, <1>7
  <2> QED  BY <1>1, <1>2, <2>1, Returned, RippedFacts
<1>9. /\ route' = [Contract!With(call, mine) EXCEPT ![victim] = q]
      /\ usage' = Contract!Books(route')
  BY <1>2, <1>3, <1>6, <1>7, SameBooks DEF Return
<1>10. /\ None \in Contract!Found(Contract!Free(call), "STRICT",
                   Contract!Books(Contract!Without(call)))
       /\ mine \in Contract!Found(Contract!Free(call), "STRICT",
                   Contract!Books([Contract!Without(call) EXCEPT ![victim] = None]))
       /\ q \in Contract!Found(Contract!Sweep(victim), "STRICT",
                   Contract!Books([Contract!With(call, mine) EXCEPT ![victim] = None]))
  BY <1>1, <1>3, <1>4, <1>7, SameSearch, SameBooks, RippedFacts DEF Free, Sweep
<1>11. Contract!Displace(victim)
  <2>1. /\ call # None /\ victim # call /\ victim \notin Locked /\ route[victim] # None
        /\ q # None /\ mine # None
    BY <1>1, <1>2, <1>3, RippedFacts, SessionAssumption
  <2>2. (IF Calling THEN None ELSE usage)' = Contract!Books(route')
    BY <1>8, <1>9
  <2> QED  BY <1>8, <1>9, <1>10, <2>1, <2>2 DEF Contract!Displace
<1> QED  BY <1>1, <1>8, <1>11, RippedFacts DEF ContractStep, Contract!Next

-----------------------------------------------------------------------------
(* Every step.                                                             *)

LEMMA Stutter ==
  ASSUME IInv, UNCHANGED vars
  PROVE  IInv' /\ ContractStep
<1>1. UNCHANGED <<usage, charged, injected, route, pinned, snap, pc, call, contended,
                  tried, victim, mine>>
  BY DEF vars, session, search
<1>2. Types' /\ Record' /\ Standing' /\ Calling' = Calling
  BY <1>1 DEF IInv, Types, Record, Standing, Calling, Beside, Displaced, Lifted, Drawn, Owes,
     Free, Contract!Free
<1> QED  BY <1>1, <1>2 DEF IInv, ContractStep, Contract!vars

LEMMA EveryStep ==
  ASSUME IInv, [Next]_vars
  PROVE  IInv' /\ ContractStep
<1>1. CASE Run
  BY <1>1, StepReturnStrict, StepPlanMine, StepAcceptRipUp, StepRestore, StepReturnRelaxed,
     StepRipUp DEF Run
<1>2. CASE recharge_committed \/ \E b \in Target : candidate_costs(b)
  BY <1>2, StepRecharge
<1>3. CASE BeginRound \/ EndRound \/ EndNegotiate
  BY <1>3, StepBeginRound, StepEndRound, StepEndNegotiate
<1>4. CASE \E b \in Target : \/ replan_candidates(b) \/ Enter(b)
                             \/ \E t \in Pool[b] : replan_bundle(b, t)
  BY <1>4, StepCandidates, StepEnter, StepReplan
<1>5. CASE UNCHANGED vars
  BY <1>5, Stutter
<1> QED  BY <1>1, <1>2, <1>3, <1>4, <1>5 DEF Next

(* Types, the record of routes, and where a call stands that is under way: *)
(* what the three theorems below rest on.                                  *)
THEOREM InvariantHolds == Spec => []IInv
<1>1. Init => IInv
  BY InitIInv
<1>2. IInv /\ [Next]_vars => IInv'
  BY EveryStep
<1> QED  BY <1>1, <1>2, PTL DEF Spec

(* The types of the state. *)
THEOREM TypeCorrect == Spec => []TypeOK
<1>1. IInv => TypeOK
  BY DrawnType, SameRoutes, SessionAssumption DEF IInv, Types, Record, TypeOK
<1> QED  BY <1>1, InvariantHolds, PTL

(* At every moment, in the middle of a call too, the books are the record  *)
(* and the injected demand, once.                                          *)
THEOREM BooksAlwaysMatch == Spec => []BooksMatchTheRecord
<1>1. IInv => BooksMatchTheRecord
  <2> SUFFICES ASSUME IInv, NEW s \in Slot
               PROVE  usage[s] = injected[s] + Total(Bundle, Owes(charged, s))
    BY DEF BooksMatchTheRecord, Owes
  <2>1. Total(Bundle, Owes(charged, s)) \in Nat /\ injected[s] \in Nat
    BY OwesNat, SessionAssumption, TracksFinite DEF IInv, Types
  <2>2. usage[s] = Total(Bundle, Owes(charged, s)) + injected[s]
    BY DEF IInv, Record, Drawn
  <2> QED  BY <2>1, <2>2
<1> QED  BY <1>1, InvariantHolds, PTL

(* However many victims a call rips up and restores, it answers, and       *)
(* leaves the books, as if they had been drawn up from scratch.            *)
THEOREM ContractIsKept == Spec => KeepsTheContract
<1>1. Init => Contract!Init
  BY InitIInv
<1>2. IInv /\ [Next]_vars => [Contract!Next]_(Contract!vars)
  BY EveryStep DEF ContractStep
<1> QED  BY <1>1, <1>2, InvariantHolds, PTL DEF Spec, KeepsTheContract, Contract!Spec
=============================================================================
