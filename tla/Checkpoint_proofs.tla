-------------------------- MODULE Checkpoint_proofs --------------------------
(***************************************************************************)
(* What the saves of a session keep true for any bundles and any plans,    *)
(* wherever a statement is refused, a BEGIN or a COMMIT fails or the       *)
(* process dies: the file changes by whole saves, the memo of the selective*)
(* save is what the file holds, the fingerprint is that of the rows, and   *)
(* detailed wires lie over placed bundles.                                 *)
(*                                                                         *)
(* The saves are nested stacks of steps.  The invariant says for each step *)
(* that may be next what the open transaction has made of the file so far. *)
(***************************************************************************)
EXTENDS Checkpoint, SequenceTheorems, FiniteSetTheorems, TLAPS

-----------------------------------------------------------------------------
(* Rows.  What a step leaves of a store is compared but for the fingerprint,*)
(* which SnapshotDescribesTheRows ties to the rows.                        *)

Same(s, t) ==
  /\ s.known = t.known /\ s.templates = t.templates /\ s.pool = t.pool
  /\ s.plan = t.plan /\ s.bus = t.bus /\ s.net = t.net

Described(s) == s.snap # None => s.snap.bus = s.bus /\ s.snap.net = s.net

(* Routed rows have their bundles' rows (the foreign keys), detailed wires *)
(* their placed bundle; an instance is known by its plan.                  *)
Sound(s) ==
  /\ Described(s)
  /\ Rows(s.bus) \subseteq s.known
  /\ Rows(s.net) \subseteq Rows(s.bus)
  /\ s.known \cap Instance \subseteq Rows(s.plan)

BundleRows == [Blank EXCEPT !.known = Normal, !.templates = TRUE]

(* The store a whole save makes of the file, and of its routed rows. *)
Into(t, described) ==
  /\ Same(work, t)
  /\ described <=> work.snap # None
  /\ described => work.snap.bus = t.bus /\ work.snap.net = t.net

Unrouted(s) == [s EXCEPT !.bus = NoRows, !.net = NoRows]

RouteBase == Store!WithParents(disk, nuts)

Saved ==
  \/ Into(Store!Bundles, FALSE) \/ Into(Store!Topologies, FALSE)
  \/ Into(Store!Planned(disk, Instance), FALSE)
  \/ Into(Store!Planned(disk, Store!Replaced(disk)),
          Store!Replaced(disk) = {} /\ disk.snap # None)
  \/ Into(Store!Routed(RouteBase), TRUE)
  \/ Into(Store!Detailed(Store!WithParents(disk, det)), TRUE)
  \/ Into(Store!Detailed(Store!Routed(RouteBase)), TRUE)

-----------------------------------------------------------------------------
(* Control.  The steps of each batch, from each of its steps on. *)

StepName == {"begin", "commit", "clear bundles", "bundles", "topologies", "plan",
             "plan selectively", "parents", "clear bus", "bus", "placed", "net"}

End == <<"commit">>
FromBundles == <<"bundles">> \o End
FromClear == <<"clear bundles">> \o FromBundles
BundleSteps == <<"begin">> \o FromClear
FromPool == <<"topologies">> \o End
PoolSteps == <<"begin">> \o (BundleSteps \o FromPool)
FromPlan == <<"plan">> \o End
PlanSteps == <<"begin">> \o FromPlan
FromSelective == <<"plan selectively">> \o End
SelectiveSteps == <<"begin">> \o FromSelective
FromBus == <<"bus">> \o End
FromClearBus == <<"clear bus">> \o FromBus
FromParents == <<"parents">> \o FromClearBus
RouteSteps == <<"begin">> \o FromParents
FromNet == <<"net">> \o End
FromPlaced == <<"placed">> \o FromNet
DetSteps == <<"begin">> \o FromPlaced

(* A frame is what remains to do once a batch has ended, and how many      *)
(* batches are open then.                                                  *)
Rest == {<<>>, RouteSteps, DetSteps, RouteSteps \o DetSteps}
Ends == {[then |-> r, depth |-> 0] : r \in Rest}
Around(steps, F) == {[then |-> steps \o f.then, depth |-> f.depth + 1] : f \in F}

InnerBundles == Around(FromPool, Ends)
InnerRoutes == Around(FromNet, Ends)
Routes == Ends \cup InnerRoutes
Parent == Around(FromClearBus, Routes)

(* A batch is about to begin, or has steps left. *)
Before(steps, f) == todo = steps \o f.then /\ depth = f.depth
At(steps, f) == todo = steps \o f.then /\ depth = f.depth + 1

(* Between the saves, *)
Outside ==
  /\ depth = 0 /\ work = disk
  /\ \/ todo = <<>>
     \/ \E e \in Ends :
          \/ Before(BundleSteps, e) \/ Before(PoolSteps, e) \/ Before(PlanSteps, e)
          \/ Before(SelectiveSteps, e) \/ Before(RouteSteps, e) \/ Before(DetSteps, e)

(* in the batch that stores the bundles, alone or for the candidates, *)
InBundles(f) ==
  \/ At(FromClear, f)
  \/ At(FromBundles, f) /\ work = Blank /\ memo = None
  \/ At(End, f) /\ work = BundleRows /\ memo = None

(* in the batches that store candidates, a plan or a detailed route, *)
InSave(e) ==
  \/ At(FromPool, e) /\ work = BundleRows /\ memo = None
  \/ At(FromPlan, e) /\ work = disk
  \/ At(FromSelective, e) /\ work = disk
  \/ At(FromPlaced, e) /\ work = disk
  \/ /\ At(FromNet, e)
     /\ Rows(det) \subseteq Rows(work.bus)
     /\ \/ Same(work, Store!WithParents(disk, det))
        \/ Same(work, Store!Routed(RouteBase))
  \/ At(End, e) /\ Saved

(* in that of a placed route, alone or for the detailed one, *)
InRoute(f) ==
  \/ At(FromParents, f) /\ work = disk
  \/ At(FromClearBus, f) /\ Same(work, RouteBase)
  \/ At(FromBus, f) /\ Same(work, Unrouted(RouteBase))
  \/ At(End, f) /\ Into(Store!Routed(RouteBase), TRUE)

(* and in that of the plan a placed route needs. *)
InParents(f) ==
  /\ ~(Rows(nuts) \subseteq disk.known)
  /\ \/ Before(PlanSteps, f) /\ work = disk
     \/ At(FromPlan, f) /\ work = disk
     \/ At(End, f) /\ Same(work, Store!Planned(disk, Instance))

Control ==
  \/ Outside
  \/ \E f \in Ends \cup InnerBundles : InBundles(f)
  \/ \E f \in InnerBundles : Before(BundleSteps, f)
  \/ \E e \in Ends : InSave(e)
  \/ \E f \in Routes : InRoute(f)
  \/ \E f \in InnerRoutes : Before(RouteSteps, f) /\ work = disk
  \/ \E f \in Parent : InParents(f)

(* A fresh session has decided nothing; a detailed route refines the placed *)
(* one of the session.                                                     *)
Refined ==
  /\ stage = "empty" => plan = NoRows /\ nuts = NoRows
  /\ det \in {NoRows, nuts}

Types ==
  /\ stage \in {"empty", "bundled", "pool"}
  /\ expanded \in BOOLEAN /\ planner \in BOOLEAN /\ open \in BOOLEAN
  /\ original \in {None} \cup [Normal -> Topo \cup {None}]
  /\ plan \in Plans /\ nuts \in Plans /\ det \in Plans
  /\ memo = None \/ (DOMAIN memo \subseteq Instance /\ \A i \in DOMAIN memo : memo[i] \in Row)
  /\ disk \in Stored /\ work \in Stored

Inv ==
  /\ Types /\ Refined /\ Control
  /\ Sound(disk) /\ Sound(work)
  /\ MemoIsTrue

-----------------------------------------------------------------------------
(* Steps as sequences.                                                     *)

(* A step before others: what is next, and what is left then. *)
Peeled(s, x, t, k) == s \o k # <<>> /\ Head(s \o k) = x /\ Tail(s \o k) = t \o k

LEMMA Peel ==
  ASSUME NEW x \in StepName, NEW t \in Seq(StepName), NEW k \in Seq(StepName)
  PROVE  <<x>> \o t \in Seq(StepName) /\ Peeled(<<x>> \o t, x, t, k)
<1>1. (<<x>> \o t) \o k = <<x>> \o (t \o k) /\ t \o k \in Seq(StepName)
  OBVIOUS
<1>2. Head(<<x>> \o (t \o k)) = x /\ Tail(<<x>> \o (t \o k)) = t \o k
  BY <1>1
<1> QED
  BY <1>1, <1>2 DEF Peeled

LEMMA EndPeeled ==
  ASSUME NEW k \in Seq(StepName)
  PROVE  /\ End \in Seq(StepName)
         /\ End \o k # <<>> /\ Head(End \o k) = "commit" /\ Tail(End \o k) = k
<1>1. "commit" \in StepName
  BY DEF StepName
<1> QED
  BY <1>1 DEF End

LEMMA Heads ==
  ASSUME NEW k \in Seq(StepName)
  PROVE  /\ FromBundles \in Seq(StepName) /\ Peeled(FromBundles, "bundles", End, k)
         /\ FromClear \in Seq(StepName) /\ Peeled(FromClear, "clear bundles", FromBundles, k)
         /\ FromPool \in Seq(StepName) /\ Peeled(FromPool, "topologies", End, k)
         /\ FromPlan \in Seq(StepName) /\ Peeled(FromPlan, "plan", End, k)
         /\ FromSelective \in Seq(StepName) /\ Peeled(FromSelective, "plan selectively", End, k)
         /\ FromBus \in Seq(StepName) /\ Peeled(FromBus, "bus", End, k)
         /\ FromClearBus \in Seq(StepName) /\ Peeled(FromClearBus, "clear bus", FromBus, k)
         /\ FromParents \in Seq(StepName) /\ Peeled(FromParents, "parents", FromClearBus, k)
         /\ FromNet \in Seq(StepName) /\ Peeled(FromNet, "net", End, k)
         /\ FromPlaced \in Seq(StepName) /\ Peeled(FromPlaced, "placed", FromNet, k)
         /\ BundleSteps \in Seq(StepName) /\ Peeled(BundleSteps, "begin", FromClear, k)
         /\ PlanSteps \in Seq(StepName) /\ Peeled(PlanSteps, "begin", FromPlan, k)
         /\ SelectiveSteps \in Seq(StepName) /\ Peeled(SelectiveSteps, "begin", FromSelective, k)
         /\ RouteSteps \in Seq(StepName) /\ Peeled(RouteSteps, "begin", FromParents, k)
         /\ DetSteps \in Seq(StepName) /\ Peeled(DetSteps, "begin", FromPlaced, k)
<1>1. End \in Seq(StepName)
  BY EndPeeled
<1>2. FromBundles \in Seq(StepName) /\ Peeled(FromBundles, "bundles", End, k)
  <2>1. "bundles" \in StepName
    BY DEF StepName
  <2> QED
    BY <1>1, <2>1, Peel DEF FromBundles
<1>3. FromClear \in Seq(StepName) /\ Peeled(FromClear, "clear bundles", FromBundles, k)
  <2>1. "clear bundles" \in StepName
    BY DEF StepName
  <2> QED
    BY <1>2, <2>1, Peel DEF FromClear
<1>4. FromPool \in Seq(StepName) /\ Peeled(FromPool, "topologies", End, k)
  <2>1. "topologies" \in StepName
    BY DEF StepName
  <2> QED
    BY <1>1, <2>1, Peel DEF FromPool
<1>5. FromPlan \in Seq(StepName) /\ Peeled(FromPlan, "plan", End, k)
  <2>1. "plan" \in StepName
    BY DEF StepName
  <2> QED
    BY <1>1, <2>1, Peel DEF FromPlan
<1>6. FromSelective \in Seq(StepName) /\ Peeled(FromSelective, "plan selectively", End, k)
  <2>1. "plan selectively" \in StepName
    BY DEF StepName
  <2> QED
    BY <1>1, <2>1, Peel DEF FromSelective
<1>7. FromBus \in Seq(StepName) /\ Peeled(FromBus, "bus", End, k)
  <2>1. "bus" \in StepName
    BY DEF StepName
  <2> QED
    BY <1>1, <2>1, Peel DEF FromBus
<1>8. FromClearBus \in Seq(StepName) /\ Peeled(FromClearBus, "clear bus", FromBus, k)
  <2>1. "clear bus" \in StepName
    BY DEF StepName
  <2> QED
    BY <1>7, <2>1, Peel DEF FromClearBus
<1>9. FromParents \in Seq(StepName) /\ Peeled(FromParents, "parents", FromClearBus, k)
  <2>1. "parents" \in StepName
    BY DEF StepName
  <2> QED
    BY <1>8, <2>1, Peel DEF FromParents
<1>10. FromNet \in Seq(StepName) /\ Peeled(FromNet, "net", End, k)
  <2>1. "net" \in StepName
    BY DEF StepName
  <2> QED
    BY <1>1, <2>1, Peel DEF FromNet
<1>11. FromPlaced \in Seq(StepName) /\ Peeled(FromPlaced, "placed", FromNet, k)
  <2>1. "placed" \in StepName
    BY DEF StepName
  <2> QED
    BY <1>10, <2>1, Peel DEF FromPlaced
<1>12. BundleSteps \in Seq(StepName) /\ Peeled(BundleSteps, "begin", FromClear, k)
  <2>1. "begin" \in StepName
    BY DEF StepName
  <2> QED
    BY <1>3, <2>1, Peel DEF BundleSteps
<1>13. PlanSteps \in Seq(StepName) /\ Peeled(PlanSteps, "begin", FromPlan, k)
  <2>1. "begin" \in StepName
    BY DEF StepName
  <2> QED
    BY <1>5, <2>1, Peel DEF PlanSteps
<1>14. SelectiveSteps \in Seq(StepName) /\ Peeled(SelectiveSteps, "begin", FromSelective, k)
  <2>1. "begin" \in StepName
    BY DEF StepName
  <2> QED
    BY <1>6, <2>1, Peel DEF SelectiveSteps
<1>15. RouteSteps \in Seq(StepName) /\ Peeled(RouteSteps, "begin", FromParents, k)
  <2>1. "begin" \in StepName
    BY DEF StepName
  <2> QED
    BY <1>9, <2>1, Peel DEF RouteSteps
<1>16. DetSteps \in Seq(StepName) /\ Peeled(DetSteps, "begin", FromPlaced, k)
  <2>1. "begin" \in StepName
    BY DEF StepName
  <2> QED
    BY <1>11, <2>1, Peel DEF DetSteps
<1> QED
  BY <1>2, <1>3, <1>4, <1>5, <1>6, <1>7, <1>8, <1>9, <1>10, <1>11, <1>12, <1>13, <1>14, <1>15, <1>16

LEMMA Typed ==
  /\ <<>> \in Seq(StepName) /\ FromPool \in Seq(StepName) /\ FromNet \in Seq(StepName)
  /\ FromClearBus \in Seq(StepName) /\ RouteSteps \in Seq(StepName)
  /\ DetSteps \in Seq(StepName) /\ BundleSteps \in Seq(StepName)
<1>1. <<>> \in Seq(StepName)
  OBVIOUS
<1> QED
  BY <1>1, Heads, Zenon

LEMMA PoolPeeled ==
  ASSUME NEW k \in Seq(StepName)
  PROVE  /\ PoolSteps \in Seq(StepName)
         /\ PoolSteps \o k # <<>> /\ Head(PoolSteps \o k) = "begin"
         /\ Tail(PoolSteps \o k) = BundleSteps \o (FromPool \o k)
<1>1. "begin" \in StepName
  BY DEF StepName
<1>2. BundleSteps \in Seq(StepName) /\ FromPool \in Seq(StepName)
  BY Heads
<1>3. BundleSteps \o FromPool \in Seq(StepName)
  BY <1>2
<1>4. PoolSteps \in Seq(StepName) /\ Peeled(PoolSteps, "begin", BundleSteps \o FromPool, k)
  BY <1>1, <1>3, Peel DEF PoolSteps
<1>5. (BundleSteps \o FromPool) \o k = BundleSteps \o (FromPool \o k)
  BY <1>2
<1> QED
  BY <1>4, <1>5 DEF Peeled

-----------------------------------------------------------------------------
(* Frames.                                                                 *)

LEMMA RestSteps ==
  /\ Rest \subseteq Seq(StepName)
  /\ \A r \in Rest : r = <<>> \/ \E q \in Rest : r = RouteSteps \o q \/ r = DetSteps \o q
<1>1. RouteSteps \in Seq(StepName) /\ DetSteps \in Seq(StepName) /\ <<>> \in Seq(StepName)
  BY Typed
<1>2. RouteSteps \o <<>> = RouteSteps /\ DetSteps \o <<>> = DetSteps
  BY <1>1
<1> QED
  BY <1>1, <1>2 DEF Rest

LEMMA EndFrames ==
  /\ \A e \in Ends : e.then \in Rest /\ e.then \in Seq(StepName) /\ e.depth = 0
  /\ \A r \in Rest : \E e \in Ends : e.then = r /\ e.depth = 0
<1>1. ASSUME NEW e \in Ends
      PROVE  e.then \in Rest /\ e.then \in Seq(StepName) /\ e.depth = 0
  <2>1. PICK r \in Rest : e = [then |-> r, depth |-> 0]
    BY DEF Ends
  <2>2. e.then = r /\ e.depth = 0
    BY <2>1
  <2>3. r \in Seq(StepName)
    BY RestSteps
  <2> QED
    BY <2>2, <2>3
<1>2. ASSUME NEW r \in Rest  PROVE \E e \in Ends : e.then = r /\ e.depth = 0
  <2> DEFINE e == [then |-> r, depth |-> 0]
  <2>1. e \in Ends
    BY Zenon DEF Ends
  <2>2. e.then = r /\ e.depth = 0
    OBVIOUS
  <2> HIDE DEF e
  <2> QED
    BY <2>1, <2>2
<1> QED
  BY <1>1, <1>2

LEMMA AroundFrames ==
  ASSUME NEW s \in Seq(StepName), NEW F,
         \A f \in F : f.then \in Seq(StepName) /\ f.depth \in Nat
  PROVE  /\ \A g \in Around(s, F) :
              /\ g.then \in Seq(StepName) /\ g.depth \in Nat /\ g.depth > 0
              /\ \E f \in F : g.then = s \o f.then /\ g.depth = f.depth + 1
         /\ \A f \in F : \E g \in Around(s, F) :
              g.then = s \o f.then /\ g.depth = f.depth + 1
<1>1. ASSUME NEW g \in Around(s, F)
      PROVE  /\ g.then \in Seq(StepName) /\ g.depth \in Nat /\ g.depth > 0
             /\ \E f \in F : g.then = s \o f.then /\ g.depth = f.depth + 1
  <2>1. PICK f \in F : g = [then |-> s \o f.then, depth |-> f.depth + 1]
    BY DEF Around
  <2>2. g.then = s \o f.then /\ g.depth = f.depth + 1
    BY <2>1
  <2>3. f.then \in Seq(StepName) /\ f.depth \in Nat
    OBVIOUS
  <2>4. s \o f.then \in Seq(StepName)
    BY <2>3
  <2>5. f.depth + 1 \in Nat /\ f.depth + 1 > 0
    BY <2>3
  <2>6. g.then \in Seq(StepName) /\ g.depth \in Nat /\ g.depth > 0
    BY <2>2, <2>4, <2>5, Zenon
  <2> QED
    BY <2>2, <2>6, Zenon
<1>2. ASSUME NEW f \in F
      PROVE  \E g \in Around(s, F) : g.then = s \o f.then /\ g.depth = f.depth + 1
  <2> DEFINE g == [then |-> s \o f.then, depth |-> f.depth + 1]
  <2>1. g \in Around(s, F)
    BY Zenon DEF Around
  <2>2. g.then = s \o f.then /\ g.depth = f.depth + 1
    OBVIOUS
  <2> HIDE DEF g
  <2> QED
    BY <2>1, <2>2, Zenon
<1> QED
  BY <1>1, <1>2, Zenon

LEMMA InnerFrames ==
  /\ \A g \in InnerBundles :
       /\ g.then \in Seq(StepName) /\ g.depth = 1
       /\ \E e \in Ends : g.then = FromPool \o e.then
  /\ \A e \in Ends : \E g \in InnerBundles : g.then = FromPool \o e.then /\ g.depth = 1
  /\ \A g \in InnerRoutes :
       /\ g.then \in Seq(StepName) /\ g.depth = 1
       /\ \E e \in Ends : g.then = FromNet \o e.then
  /\ \A e \in Ends : \E g \in InnerRoutes : g.then = FromNet \o e.then /\ g.depth = 1
  /\ \A f \in Routes : f.then \in Seq(StepName) /\ f.depth \in {0, 1}
<1>1. FromPool \in Seq(StepName) /\ FromNet \in Seq(StepName)
  BY Typed
<1>2. \A e \in Ends : e.then \in Seq(StepName) /\ e.depth = 0 /\ e.depth \in Nat
  BY EndFrames
<1>3. /\ \A g \in InnerBundles :
           /\ g.then \in Seq(StepName) /\ g.depth = 1
           /\ \E e \in Ends : g.then = FromPool \o e.then
      /\ \A e \in Ends : \E g \in InnerBundles : g.then = FromPool \o e.then /\ g.depth = 1
  <2>1. /\ \A g \in InnerBundles :
             /\ g.then \in Seq(StepName)
             /\ \E e \in Ends : g.then = FromPool \o e.then /\ g.depth = e.depth + 1
        /\ \A e \in Ends : \E g \in InnerBundles :
             g.then = FromPool \o e.then /\ g.depth = e.depth + 1
    BY <1>1, <1>2, AroundFrames, Zenon DEF InnerBundles
  <2>2. \A e \in Ends : e.depth + 1 = 1
    BY <1>2
  <2> QED
    <3>1. ASSUME NEW g \in InnerBundles
          PROVE  g.depth = 1 /\ \E e \in Ends : g.then = FromPool \o e.then
      <4>1. PICK e \in Ends : g.then = FromPool \o e.then /\ g.depth = e.depth + 1
        BY <2>1, Zenon
      <4> QED
        BY <2>2, <4>1
    <3>2. ASSUME NEW e \in Ends
          PROVE  \E g \in InnerBundles : g.then = FromPool \o e.then /\ g.depth = 1
      <4>1. PICK g \in InnerBundles : g.then = FromPool \o e.then /\ g.depth = e.depth + 1
        BY <2>1, Zenon
      <4> QED
        BY <2>2, <4>1
    <3> QED
      BY <2>1, <3>1, <3>2, Zenon
<1>4. /\ \A g \in InnerRoutes :
           /\ g.then \in Seq(StepName) /\ g.depth = 1
           /\ \E e \in Ends : g.then = FromNet \o e.then
      /\ \A e \in Ends : \E g \in InnerRoutes : g.then = FromNet \o e.then /\ g.depth = 1
  <2>1. /\ \A g \in InnerRoutes :
             /\ g.then \in Seq(StepName)
             /\ \E e \in Ends : g.then = FromNet \o e.then /\ g.depth = e.depth + 1
        /\ \A e \in Ends : \E g \in InnerRoutes :
             g.then = FromNet \o e.then /\ g.depth = e.depth + 1
    BY <1>1, <1>2, AroundFrames, Zenon DEF InnerRoutes
  <2>2. \A e \in Ends : e.depth + 1 = 1
    BY <1>2
  <2> QED
    <3>1. ASSUME NEW g \in InnerRoutes
          PROVE  g.depth = 1 /\ \E e \in Ends : g.then = FromNet \o e.then
      <4>1. PICK e \in Ends : g.then = FromNet \o e.then /\ g.depth = e.depth + 1
        BY <2>1, Zenon
      <4> QED
        BY <2>2, <4>1
    <3>2. ASSUME NEW e \in Ends
          PROVE  \E g \in InnerRoutes : g.then = FromNet \o e.then /\ g.depth = 1
      <4>1. PICK g \in InnerRoutes : g.then = FromNet \o e.then /\ g.depth = e.depth + 1
        BY <2>1, Zenon
      <4> QED
        BY <2>2, <4>1
    <3> QED
      BY <2>1, <3>1, <3>2, Zenon
<1> QED
  BY <1>2, <1>3, <1>4 DEF Routes

LEMMA ParentFrames ==
  /\ \A g \in Parent :
       /\ g.then \in Seq(StepName) /\ g.depth \in Nat /\ g.depth > 0
       /\ \E f \in Routes : g.then = FromClearBus \o f.then /\ g.depth = f.depth + 1
  /\ \A f \in Routes : \E g \in Parent :
       g.then = FromClearBus \o f.then /\ g.depth = f.depth + 1
<1>1. FromClearBus \in Seq(StepName)
  BY Typed
<1>2. \A f \in Routes : f.then \in Seq(StepName) /\ f.depth \in Nat
  BY InnerFrames
<1> QED
  BY <1>1, <1>2, AroundFrames DEF Parent

-----------------------------------------------------------------------------
(* Where the save is when a step is next.                                  *)

LEMMA OutsideHead == Outside /\ todo # <<>> => Head(todo) = "begin"
<1> SUFFICES ASSUME Outside, todo # <<>>  PROVE Head(todo) = "begin"
  OBVIOUS
<1>1. PICK e \in Ends :
        \/ Before(BundleSteps, e) \/ Before(PoolSteps, e) \/ Before(PlanSteps, e)
        \/ Before(SelectiveSteps, e) \/ Before(RouteSteps, e) \/ Before(DetSteps, e)
  BY DEF Outside
<1>2. e.then \in Seq(StepName)
  BY EndFrames
<1>3. /\ Peeled(BundleSteps, "begin", FromClear, e.then)
      /\ Peeled(PlanSteps, "begin", FromPlan, e.then)
      /\ Peeled(SelectiveSteps, "begin", FromSelective, e.then)
      /\ Peeled(RouteSteps, "begin", FromParents, e.then)
      /\ Peeled(DetSteps, "begin", FromPlaced, e.then)
  BY <1>2, Heads, Zenon
<1>4. Head(PoolSteps \o e.then) = "begin"
  BY <1>2, PoolPeeled
<1> QED
  BY <1>1, <1>3, <1>4 DEF Before, Peeled

LEMMA BundlesHead ==
  ASSUME NEW f \in Ends \cup InnerBundles, InBundles(f)
  PROVE  /\ todo # <<>>
         /\ \/ Head(todo) = "clear bundles" /\ At(FromClear, f)
            \/ /\ Head(todo) = "bundles" /\ At(FromBundles, f)
               /\ work = Blank /\ memo = None
            \/ /\ Head(todo) = "commit" /\ At(End, f)
               /\ work = BundleRows /\ memo = None
<1>1. f.then \in Seq(StepName)
  BY EndFrames, InnerFrames
<1>2. /\ Peeled(FromClear, "clear bundles", FromBundles, f.then)
      /\ Peeled(FromBundles, "bundles", End, f.then)
  BY <1>1, Heads, Zenon
<1>3. End \o f.then # <<>> /\ Head(End \o f.then) = "commit"
  BY <1>1, EndPeeled
<1> QED
  BY <1>2, <1>3 DEF InBundles, At, Peeled

LEMMA SaveHead ==
  ASSUME NEW e \in Ends, InSave(e)
  PROVE  /\ todo # <<>>
         /\ \/ /\ Head(todo) = "topologies" /\ At(FromPool, e)
               /\ work = BundleRows /\ memo = None
            \/ Head(todo) = "plan" /\ At(FromPlan, e) /\ work = disk
            \/ Head(todo) = "plan selectively" /\ At(FromSelective, e) /\ work = disk
            \/ Head(todo) = "placed" /\ At(FromPlaced, e) /\ work = disk
            \/ /\ Head(todo) = "net" /\ At(FromNet, e)
               /\ Rows(det) \subseteq Rows(work.bus)
               /\ \/ Same(work, Store!WithParents(disk, det))
                  \/ Same(work, Store!Routed(RouteBase))
            \/ Head(todo) = "commit" /\ At(End, e) /\ Saved
<1>1. e.then \in Seq(StepName)
  BY EndFrames
<1>2. /\ Peeled(FromPool, "topologies", End, e.then)
      /\ Peeled(FromPlan, "plan", End, e.then)
      /\ Peeled(FromSelective, "plan selectively", End, e.then)
      /\ Peeled(FromPlaced, "placed", FromNet, e.then)
      /\ Peeled(FromNet, "net", End, e.then)
  BY <1>1, Heads, Zenon
<1>3. End \o e.then # <<>> /\ Head(End \o e.then) = "commit"
  BY <1>1, EndPeeled
<1> QED
  BY <1>2, <1>3 DEF InSave, At, Peeled

LEMMA RouteHead ==
  ASSUME NEW f \in Routes, InRoute(f)
  PROVE  /\ todo # <<>>
         /\ \/ Head(todo) = "parents" /\ At(FromParents, f) /\ work = disk
            \/ Head(todo) = "clear bus" /\ At(FromClearBus, f) /\ Same(work, RouteBase)
            \/ /\ Head(todo) = "bus" /\ At(FromBus, f)
               /\ Same(work, Unrouted(RouteBase))
            \/ Head(todo) = "commit" /\ At(End, f) /\ Into(Store!Routed(RouteBase), TRUE)
<1>1. f.then \in Seq(StepName)
  BY InnerFrames
<1>2. /\ Peeled(FromParents, "parents", FromClearBus, f.then)
      /\ Peeled(FromClearBus, "clear bus", FromBus, f.then)
      /\ Peeled(FromBus, "bus", End, f.then)
  BY <1>1, Heads, Zenon
<1>3. End \o f.then # <<>> /\ Head(End \o f.then) = "commit"
  BY <1>1, EndPeeled
<1> QED
  BY <1>2, <1>3 DEF InRoute, At, Peeled

LEMMA ParentsHead ==
  ASSUME NEW f \in Parent, InParents(f)
  PROVE  /\ todo # <<>>
         /\ \/ Head(todo) = "begin" /\ Before(PlanSteps, f) /\ work = disk
            \/ Head(todo) = "plan" /\ At(FromPlan, f) /\ work = disk
            \/ /\ Head(todo) = "commit" /\ At(End, f)
               /\ Same(work, Store!Planned(disk, Instance))
<1>1. f.then \in Seq(StepName)
  BY ParentFrames
<1>2. /\ Peeled(PlanSteps, "begin", FromPlan, f.then)
      /\ Peeled(FromPlan, "plan", End, f.then)
  BY <1>1, Heads, Zenon
<1>3. End \o f.then # <<>> /\ Head(End \o f.then) = "commit"
  BY <1>1, EndPeeled
<1> QED
  BY <1>2, <1>3 DEF InParents, Before, At, Peeled

LEMMA InnerHead ==
  ASSUME \/ \E f \in InnerBundles : Before(BundleSteps, f)
         \/ \E f \in InnerRoutes : Before(RouteSteps, f)
  PROVE  todo # <<>> /\ Head(todo) = "begin"
<1>1. CASE \E f \in InnerBundles : Before(BundleSteps, f)
  <2>1. PICK f \in InnerBundles : Before(BundleSteps, f)
    BY <1>1
  <2>2. Peeled(BundleSteps, "begin", FromClear, f.then)
    BY InnerFrames, Heads, Zenon
  <2> QED
    BY <2>1, <2>2 DEF Before, Peeled
<1>2. CASE \E f \in InnerRoutes : Before(RouteSteps, f)
  <2>1. PICK f \in InnerRoutes : Before(RouteSteps, f)
    BY <1>2
  <2>2. Peeled(RouteSteps, "begin", FromParents, f.then)
    BY InnerFrames, Heads, Zenon
  <2> QED
    BY <2>1, <2>2 DEF Before, Peeled
<1> QED
  BY <1>1, <1>2

-----------------------------------------------------------------------------
(* Where the save is, by the step that is next.                            *)

LEMMA Where ==
  ASSUME Control, todo # <<>>
  PROVE
    \/ /\ Head(todo) = "begin"
       /\ \/ Outside
          \/ \E f \in InnerBundles : Before(BundleSteps, f)
          \/ \E f \in InnerRoutes : Before(RouteSteps, f) /\ work = disk
          \/ \E f \in Parent :
               Before(PlanSteps, f) /\ work = disk /\ ~(Rows(nuts) \subseteq disk.known)
    \/ Head(todo) = "clear bundles" /\ \E f \in Ends \cup InnerBundles : At(FromClear, f)
    \/ /\ Head(todo) = "bundles" /\ work = Blank /\ memo = None
       /\ \E f \in Ends \cup InnerBundles : At(FromBundles, f)
    \/ /\ Head(todo) = "topologies" /\ work = BundleRows /\ memo = None
       /\ \E e \in Ends : At(FromPool, e)
    \/ /\ Head(todo) = "plan" /\ work = disk
       /\ \/ \E e \in Ends : At(FromPlan, e)
          \/ \E f \in Parent : At(FromPlan, f) /\ ~(Rows(nuts) \subseteq disk.known)
    \/ /\ Head(todo) = "plan selectively" /\ work = disk
       /\ \E e \in Ends : At(FromSelective, e)
    \/ Head(todo) = "parents" /\ work = disk /\ \E f \in Routes : At(FromParents, f)
    \/ /\ Head(todo) = "clear bus" /\ Same(work, RouteBase)
       /\ \E f \in Routes : At(FromClearBus, f)
    \/ /\ Head(todo) = "bus" /\ Same(work, Unrouted(RouteBase))
       /\ \E f \in Routes : At(FromBus, f)
    \/ Head(todo) = "placed" /\ work = disk /\ \E e \in Ends : At(FromPlaced, e)
    \/ /\ Head(todo) = "net" /\ Rows(det) \subseteq Rows(work.bus)
       /\ \/ Same(work, Store!WithParents(disk, det))
          \/ Same(work, Store!Routed(RouteBase))
       /\ \E e \in Ends : At(FromNet, e)
    \/ /\ Head(todo) = "commit"
       /\ \/ \E f \in Ends \cup InnerBundles : At(End, f) /\ work = BundleRows /\ memo = None
          \/ \E e \in Ends : At(End, e) /\ Saved
          \/ \E f \in Routes : At(End, f) /\ Into(Store!Routed(RouteBase), TRUE)
          \/ \E f \in Parent :
               /\ At(End, f) /\ Same(work, Store!Planned(disk, Instance))
               /\ ~(Rows(nuts) \subseteq disk.known)
<1>1. CASE Outside
  BY <1>1, OutsideHead, Zenon
<1>2. CASE \E f \in Ends \cup InnerBundles : InBundles(f)
  <2>1. PICK f \in Ends \cup InnerBundles : InBundles(f)
    BY <1>2
  <2> QED
    BY <2>1, BundlesHead, Zenon
<1>3. CASE \E f \in InnerBundles : Before(BundleSteps, f)
  BY <1>3, InnerHead, Zenon
<1>4. CASE \E e \in Ends : InSave(e)
  <2>1. PICK e \in Ends : InSave(e)
    BY <1>4
  <2> QED
    BY <2>1, SaveHead, Zenon
<1>5. CASE \E f \in Routes : InRoute(f)
  <2>1. PICK f \in Routes : InRoute(f)
    BY <1>5
  <2> QED
    BY <2>1, RouteHead, Zenon
<1>6. CASE \E f \in InnerRoutes : Before(RouteSteps, f) /\ work = disk
  BY <1>6, InnerHead, Zenon
<1>7. CASE \E f \in Parent : InParents(f)
  <2>1. PICK f \in Parent : InParents(f)
    BY <1>7
  <2>2. ~(Rows(nuts) \subseteq disk.known)
    BY <2>1 DEF InParents
  <2> QED
    BY <2>1, <2>2, ParentsHead, Zenon
<1> QED
  BY <1>1, <1>2, <1>3, <1>4, <1>5, <1>6, <1>7 DEF Control

(* With nothing left to do, or no batch open, the saves are over. *)
LEMMA Idle ==
  ASSUME Control
  PROVE  /\ depth \in Nat
         /\ todo = <<>> => Outside
         /\ depth = 0 => work = disk
<1>0. /\ \A f \in Ends : f.depth = 0
      /\ \A f \in InnerBundles : f.depth = 1
      /\ \A f \in InnerRoutes : f.depth = 1
      /\ \A f \in Routes : f.depth \in {0, 1}
      /\ \A f \in Parent : f.depth \in Nat /\ f.depth > 0
  BY EndFrames, InnerFrames, ParentFrames
<1>1. CASE Outside
  BY <1>1 DEF Outside
<1>2. CASE \E f \in Ends \cup InnerBundles : InBundles(f)
  <2>1. PICK f \in Ends \cup InnerBundles : InBundles(f)
    BY <1>2
  <2>2. depth = f.depth + 1
    BY <2>1 DEF InBundles, At
  <2>3. todo # <<>>
    BY <2>1, BundlesHead, Zenon
  <2> QED
    BY <1>0, <2>2, <2>3
<1>3. CASE \E f \in InnerBundles : Before(BundleSteps, f)
  BY <1>0, <1>3, InnerHead DEF Before
<1>4. CASE \E e \in Ends : InSave(e)
  <2>1. PICK e \in Ends : InSave(e)
    BY <1>4
  <2>2. depth = e.depth + 1
    BY <2>1 DEF InSave, At
  <2>3. todo # <<>>
    BY <2>1, SaveHead, Zenon
  <2> QED
    BY <1>0, <2>2, <2>3
<1>5. CASE \E f \in Routes : InRoute(f)
  <2>1. PICK f \in Routes : InRoute(f)
    BY <1>5
  <2>2. depth = f.depth + 1
    BY <2>1 DEF InRoute, At
  <2>3. todo # <<>>
    BY <2>1, RouteHead, Zenon
  <2> QED
    BY <1>0, <2>2, <2>3
<1>6. CASE \E f \in InnerRoutes : Before(RouteSteps, f) /\ work = disk
  BY <1>0, <1>6, InnerHead DEF Before
<1>7. CASE \E f \in Parent : InParents(f)
  <2>1. PICK f \in Parent : InParents(f)
    BY <1>7
  <2>2. depth = f.depth \/ depth = f.depth + 1
    BY <2>1 DEF InParents, At, Before
  <2>3. todo # <<>>
    BY <2>1, ParentsHead, Zenon
  <2> QED
    BY <1>0, <2>2, <2>3
<1> QED
  BY <1>1, <1>2, <1>3, <1>4, <1>5, <1>6, <1>7 DEF Control

-----------------------------------------------------------------------------
(* Rows and stores.                                                        *)

LEMMA SameNames ==
  /\ Store!Bundle = Bundle /\ Store!NoRows = NoRows /\ Store!Blank = Blank
  /\ Store!Bundles = BundleRows
  /\ \A f : Store!Rows(f) = Rows(f)
  /\ \A f, S : Store!Without(f, S) = Without(f, S)
BY DEF Store!Bundle, Bundle, Store!NoRows, NoRows, Store!Blank, Blank, Store!Bundles,
       BundleRows, Store!Rows, Rows, Store!Without, Without

LEMMA RowFacts ==
  /\ None \notin Row /\ None \notin Topo
  /\ None \notin [bus : Plans, net : Plans, n : Nat]
  /\ IsFiniteSet(Bundle) /\ Cardinality(Bundle) \in Nat
  /\ Normal \cap Instance = {}
  /\ Outcome \subseteq Plans
<1>1. IsFiniteSet(Bundle)
  BY CheckpointAssumption, FS_Union DEF Bundle
<1>2. [topo : Topo, layer : Layer] \subseteq Row
  BY DEF Row
<1>3. Outcome \subseteq Plans
  <2> SUFFICES ASSUME NEW o \in Outcome  PROVE o \in Plans
    OBVIOUS
  <2>1. o \in [Bundle -> [topo : Topo, layer : Layer] \cup {None}]
    BY CheckpointAssumption
  <2> QED
    BY <1>2, <2>1 DEF Plans
<1> QED
  BY <1>1, <1>3, CheckpointAssumption, FS_CardinalityType

LEMMA PlanRows ==
  /\ NoRows \in Plans /\ Rows(NoRows) = {}
  /\ \A f \in Plans : f # NoRows => Rows(f) # {}
  /\ \A f \in Plans : Rows(f) \subseteq Bundle /\ Cardinality(Rows(f)) \in 0..Cardinality(Bundle)
  /\ \A f \in Plans : \A S : /\ Without(f, S) \in Plans
                             /\ Rows(Without(f, S)) = Rows(f) \ S
  /\ \A f \in Plans : Without(f, {}) = f
<1>1. NoRows \in Plans /\ Rows(NoRows) = {}
  BY DEF Plans, NoRows, Rows
<1>2. ASSUME NEW f \in Plans  PROVE f # NoRows => Rows(f) # {}
  <2> SUFFICES ASSUME Rows(f) = {}  PROVE f = NoRows
    OBVIOUS
  <2>1. \A b \in Bundle : f[b] = None
    BY DEF Rows
  <2> QED
    BY <2>1 DEF Plans, NoRows
<1>3. ASSUME NEW f \in Plans
      PROVE  Rows(f) \subseteq Bundle /\ Cardinality(Rows(f)) \in 0..Cardinality(Bundle)
  <2>1. Rows(f) \subseteq Bundle
    BY DEF Rows
  <2>2. IsFiniteSet(Rows(f)) /\ Cardinality(Rows(f)) <= Cardinality(Bundle)
    BY <2>1, RowFacts, FS_Subset
  <2>3. Cardinality(Rows(f)) \in Nat
    BY <2>2, FS_CardinalityType
  <2> QED
    BY <2>1, <2>2, <2>3, RowFacts
<1>4. ASSUME NEW f \in Plans, NEW S
      PROVE  Without(f, S) \in Plans /\ Rows(Without(f, S)) = Rows(f) \ S
  BY DEF Plans, Without, Rows
<1>5. ASSUME NEW f \in Plans  PROVE Without(f, {}) = f
  BY DEF Plans, Without
<1> QED
  BY <1>1, <1>2, <1>3, <1>4, <1>5

LEMMA ChosenType == Types => Chosen \in [Normal -> Topo \cup {None}]
<1> SUFFICES ASSUME Types  PROVE Chosen \in [Normal -> Topo \cup {None}]
  OBVIOUS
<1>1. ASSUME NEW n \in Normal  PROVE TopoOf(plan[n]) \in Topo \cup {None}
  BY DEF Types, Plans, Row, TopoOf, Bundle
<1> QED
  BY <1>1 DEF Types, Chosen

LEMMA StoredBases ==
  /\ Blank \in Stored /\ BundleRows \in Stored /\ Sound(Blank) /\ Sound(BundleRows)
<1>1. Blank \in Stored
  BY PlanRows DEF Blank, Stored
<1>2. BundleRows \in Stored
  BY <1>1 DEF BundleRows, Stored, Bundle
<1>3. Blank.bus = NoRows /\ Blank.net = NoRows /\ Blank.known = {} /\ Blank.snap = None
  BY DEF Blank
<1>4. /\ BundleRows.bus = NoRows /\ BundleRows.net = NoRows /\ BundleRows.known = Normal
      /\ BundleRows.snap = None
  BY <1>3 DEF BundleRows, Blank
<1> QED
  BY <1>1, <1>2, <1>3, <1>4, PlanRows, RowFacts DEF Sound, Described

(* The context of a save does not change while it is made. *)
LEMMA Kept ==
  ASSUME UNCHANGED <<session, disk>>
  PROVE  /\ RouteBase' = RouteBase
         /\ (Unrouted(RouteBase))' = Unrouted(RouteBase)
         /\ (Store!Routed(RouteBase))' = Store!Routed(RouteBase)
         /\ (Store!WithParents(disk, det))' = Store!WithParents(disk, det)
         /\ (Store!Planned(disk, Instance))' = Store!Planned(disk, Instance)
         /\ (Store!Planned(disk, Store!Replaced(disk)))' = Store!Planned(disk, Store!Replaced(disk))
         /\ (Store!Replaced(disk))' = Store!Replaced(disk)
         /\ Store!Topologies' = Store!Topologies
         /\ (Store!Detailed(Store!WithParents(disk, det)))'
              = Store!Detailed(Store!WithParents(disk, det))
         /\ (Store!Detailed(Store!Routed(RouteBase)))' = Store!Detailed(Store!Routed(RouteBase))
         /\ Chosen' = Chosen
<1>1. plan' = plan /\ nuts' = nuts /\ det' = det /\ disk' = disk
  BY DEF session
<1>2. Chosen' = Chosen
  BY DEF session, Chosen
<1>3. /\ (Store!Planned(disk, Instance))' = Store!Planned(disk, Instance)
      /\ (Store!Replaced(disk))' = Store!Replaced(disk)
      /\ (Store!Planned(disk, Store!Replaced(disk)))' = Store!Planned(disk, Store!Replaced(disk))
  BY <1>1 DEF Store!Planned, Store!PlanRow, Store!Replaced
<1>4. RouteBase' = RouteBase /\ (Store!WithParents(disk, det))' = Store!WithParents(disk, det)
  BY <1>1, <1>3 DEF RouteBase, Store!WithParents
<1>5. /\ (Unrouted(RouteBase))' = Unrouted(RouteBase)
      /\ (Store!Routed(RouteBase))' = Store!Routed(RouteBase)
      /\ (Store!Detailed(Store!WithParents(disk, det)))'
           = Store!Detailed(Store!WithParents(disk, det))
      /\ (Store!Detailed(Store!Routed(RouteBase)))' = Store!Detailed(Store!Routed(RouteBase))
  BY <1>1, <1>4 DEF Unrouted, Store!Routed, Store!Detailed
<1>6. Store!Topologies' = Store!Topologies
  BY <1>2 DEF Store!Topologies
<1> QED
  BY <1>2, <1>3, <1>4, <1>5, <1>6

-----------------------------------------------------------------------------
(* How each step moves the save on.                                        *)

(* A batch ended with nothing around it: the next save, or none. *)
LEMMA Ended ==
  ASSUME NEW e \in Ends, todo' = e.then, depth' = 0, work' = disk'
  PROVE  Outside'
<1>1. e.then \in Rest
  BY EndFrames
<1>2. CASE todo' = <<>>
  BY <1>2 DEF Outside
<1>3. CASE \E q \in Rest : todo' = RouteSteps \o q \/ todo' = DetSteps \o q
  <2>1. PICK q \in Rest : todo' = RouteSteps \o q \/ todo' = DetSteps \o q
    BY <1>3
  <2>2. PICK d \in Ends : d.then = q /\ d.depth = 0
    BY EndFrames
  <2>3. (Before(RouteSteps, d) \/ Before(DetSteps, d))'
    BY <2>1, <2>2 DEF Before
  <2> QED
    BY <2>3 DEF Outside
<1> QED
  BY <1>1, <1>2, <1>3, RestSteps

LEMMA BeginControl == Control /\ begin_batch => Control'
<1> SUFFICES ASSUME Control, begin_batch  PROVE Control'
  OBVIOUS
<1>0. /\ todo # <<>> /\ Head(todo) = "begin" /\ todo' = Tail(todo) /\ depth' = depth + 1
      /\ work' = (IF depth = 0 THEN disk ELSE work) /\ disk' = disk
      /\ UNCHANGED <<session, disk>>
  BY DEF begin_batch, Next1, Done
<1>1. \/ Outside
      \/ \E f \in InnerBundles : Before(BundleSteps, f)
      \/ \E f \in InnerRoutes : Before(RouteSteps, f) /\ work = disk
      \/ \E f \in Parent :
           Before(PlanSteps, f) /\ work = disk /\ ~(Rows(nuts) \subseteq disk.known)
  BY <1>0, Where
<1>2. CASE Outside
  <2>1. depth = 0 /\ work' = disk'
    BY <1>0, <1>2 DEF Outside
  <2>2. PICK e \in Ends :
          \/ Before(BundleSteps, e) \/ Before(PoolSteps, e) \/ Before(PlanSteps, e)
          \/ Before(SelectiveSteps, e) \/ Before(RouteSteps, e) \/ Before(DetSteps, e)
    BY <1>0, <1>2 DEF Outside
  <2>3. e.then \in Seq(StepName) /\ e.depth = 0
    BY EndFrames
  <2>4. /\ Tail(BundleSteps \o e.then) = FromClear \o e.then
        /\ Tail(PlanSteps \o e.then) = FromPlan \o e.then
        /\ Tail(SelectiveSteps \o e.then) = FromSelective \o e.then
        /\ Tail(RouteSteps \o e.then) = FromParents \o e.then
        /\ Tail(DetSteps \o e.then) = FromPlaced \o e.then
    <3>1. /\ Peeled(BundleSteps, "begin", FromClear, e.then)
          /\ Peeled(PlanSteps, "begin", FromPlan, e.then)
          /\ Peeled(SelectiveSteps, "begin", FromSelective, e.then)
          /\ Peeled(RouteSteps, "begin", FromParents, e.then)
          /\ Peeled(DetSteps, "begin", FromPlaced, e.then)
      BY <2>3, Heads, Zenon
    <3> QED
      BY <3>1 DEF Peeled
  <2>5. CASE Before(BundleSteps, e)
    <3>1. At(FromClear, e)'
      BY <1>0, <2>4, <2>5 DEF At, Before
    <3> QED
      BY <3>1 DEF Control, InBundles
  <2>6. CASE Before(PoolSteps, e)
    <3>1. todo' = BundleSteps \o (FromPool \o e.then)
      BY <1>0, <2>3, <2>6, PoolPeeled DEF Before
    <3>2. PICK g \in InnerBundles : g.then = FromPool \o e.then /\ g.depth = 1
      BY InnerFrames
    <3>3. depth' = 1
      BY <1>0, <2>1
    <3>4. Before(BundleSteps, g)'
      BY <3>1, <3>2, <3>3, Zenon DEF Before
    <3> QED
      BY <3>4 DEF Control
  <2>7. CASE Before(PlanSteps, e)
    <3>1. At(FromPlan, e)'
      BY <1>0, <2>4, <2>7 DEF At, Before
    <3> QED
      BY <2>1, <3>1 DEF Control, InSave
  <2>8. CASE Before(SelectiveSteps, e)
    <3>1. At(FromSelective, e)'
      BY <1>0, <2>4, <2>8 DEF At, Before
    <3> QED
      BY <2>1, <3>1 DEF Control, InSave
  <2>9. CASE Before(RouteSteps, e)
    <3>1. At(FromParents, e)'
      BY <1>0, <2>4, <2>9 DEF At, Before
    <3>2. InRoute(e)'
      BY <2>1, <3>1 DEF InRoute
    <3> QED
      BY <3>2 DEF Control, Routes
  <2>10. CASE Before(DetSteps, e)
    <3>1. At(FromPlaced, e)'
      BY <1>0, <2>4, <2>10 DEF At, Before
    <3> QED
      BY <2>1, <3>1 DEF Control, InSave
  <2> QED
    BY <2>2, <2>5, <2>6, <2>7, <2>8, <2>9, <2>10
<1>3. CASE \E f \in InnerBundles : Before(BundleSteps, f)
  <2>1. PICK f \in InnerBundles : Before(BundleSteps, f)
    BY <1>3
  <2>2. Peeled(BundleSteps, "begin", FromClear, f.then)
    BY InnerFrames, Heads, Zenon
  <2>3. At(FromClear, f)'
    BY <1>0, <2>1, <2>2 DEF At, Before, Peeled
  <2> QED
    BY <2>3 DEF Control, InBundles
<1>4. CASE \E f \in InnerRoutes : Before(RouteSteps, f) /\ work = disk
  <2>1. PICK f \in InnerRoutes : Before(RouteSteps, f) /\ work = disk
    BY <1>4
  <2>2. Peeled(RouteSteps, "begin", FromParents, f.then)
    BY InnerFrames, Heads, Zenon
  <2>3. At(FromParents, f)'
    BY <1>0, <2>1, <2>2 DEF At, Before, Peeled
  <2>4. InRoute(f)'
    BY <1>0, <2>1, <2>3 DEF InRoute
  <2> QED
    BY <2>4 DEF Control, Routes
<1>5. CASE \E f \in Parent :
             Before(PlanSteps, f) /\ work = disk /\ ~(Rows(nuts) \subseteq disk.known)
  <2>1. PICK f \in Parent :
          Before(PlanSteps, f) /\ work = disk /\ ~(Rows(nuts) \subseteq disk.known)
    BY <1>5
  <2>2. Peeled(PlanSteps, "begin", FromPlan, f.then)
    BY ParentFrames, Heads, Zenon
  <2>3. At(FromPlan, f)'
    BY <1>0, <2>1, <2>2 DEF At, Before, Peeled
  <2>4. InParents(f)'
    BY <1>0, <2>1, <2>3 DEF InParents, session, Rows
  <2> QED
    BY <2>4 DEF Control
<1> QED
  BY <1>1, <1>2, <1>3, <1>4, <1>5

LEMMA CommitControl == Types /\ Refined /\ Control /\ commit_batch => Control'
<1> SUFFICES ASSUME Types, Refined, Control, commit_batch  PROVE Control'
  OBVIOUS
<1>0. /\ todo # <<>> /\ Head(todo) = "commit" /\ todo' = Tail(todo) /\ depth' = depth - 1
      /\ disk' = (IF depth = 1 THEN work ELSE disk) /\ work' = work
      /\ UNCHANGED session /\ memo' = memo
  BY DEF commit_batch, Next1, Done
<1>1. ASSUME NEW f, f.then \in Seq(StepName), f.depth \in Nat, At(End, f)
      PROVE  todo' = f.then /\ depth' = f.depth /\ (depth = 1 <=> f.depth = 0)
  <2>1. todo = End \o f.then /\ depth = f.depth + 1
    BY <1>1 DEF At
  <2>2. Tail(End \o f.then) = f.then
    BY <1>1, EndPeeled
  <2>3. todo' = f.then
    BY <1>0, <2>1, <2>2, Zenon
  <2>4. depth' = f.depth /\ (depth = 1 <=> f.depth = 0)
    BY <1>0, <1>1, <2>1
  <2> QED
    BY <2>3, <2>4
<1>2. \/ \E f \in Ends \cup InnerBundles : At(End, f) /\ work = BundleRows /\ memo = None
      \/ \E e \in Ends : At(End, e)
      \/ \E f \in Routes : At(End, f) /\ Into(Store!Routed(RouteBase), TRUE)
      \/ \E f \in Parent :
           /\ At(End, f) /\ Same(work, Store!Planned(disk, Instance))
           /\ ~(Rows(nuts) \subseteq disk.known)
  BY <1>0, Where
<1>3. CASE \E e \in Ends : At(End, e)
  <2>1. PICK e \in Ends : At(End, e)
    BY <1>3
  <2>2. todo' = e.then /\ depth' = 0 /\ depth = 1
    BY <1>1, <2>1, EndFrames
  <2>3. work' = disk'
    BY <1>0, <2>2
  <2> QED
    BY <2>2, <2>3, Ended DEF Control
<1>4. CASE \E f \in InnerBundles : At(End, f) /\ work = BundleRows /\ memo = None
  <2>1. PICK f \in InnerBundles : At(End, f) /\ work = BundleRows /\ memo = None
    BY <1>4
  <2>2. f.then \in Seq(StepName) /\ f.depth = 1
    BY InnerFrames
  <2>3. PICK e \in Ends : f.then = FromPool \o e.then
    BY InnerFrames
  <2>4. todo' = FromPool \o e.then /\ depth' = 1
    <3>1. todo' = f.then /\ depth' = f.depth
      BY <1>1, <2>1, <2>2
    <3> QED
      BY <2>2, <2>3, <3>1, Zenon
  <2>5. At(FromPool, e)'
    BY <2>4, EndFrames DEF At
  <2>6. InSave(e)'
    BY <1>0, <2>1, <2>5 DEF InSave, BundleRows, Blank
  <2> QED
    BY <2>6 DEF Control
<1>5. CASE \E f \in InnerRoutes : At(End, f) /\ Into(Store!Routed(RouteBase), TRUE)
  <2>1. PICK f \in InnerRoutes : At(End, f) /\ Into(Store!Routed(RouteBase), TRUE)
    BY <1>5
  <2>2. f.then \in Seq(StepName) /\ f.depth = 1
    BY InnerFrames
  <2>3. PICK e \in Ends : f.then = FromNet \o e.then
    BY InnerFrames
  <2>4. todo' = FromNet \o e.then /\ depth' = 1 /\ depth # 1
    <3>1. todo' = f.then /\ depth' = f.depth /\ (depth = 1 <=> f.depth = 0)
      BY <1>1, <2>1, <2>2
    <3>2. depth # 1
      BY <2>2, <3>1
    <3> QED
      BY <2>2, <2>3, <3>1, <3>2, Zenon
  <2>5. At(FromNet, e)'
    BY <2>4, EndFrames DEF At
  <2>6. disk' = disk /\ (Store!Routed(RouteBase))' = Store!Routed(RouteBase)
    BY <1>0, <2>4, Kept
  <2>7. Same(work, Store!Routed(RouteBase))
    BY <2>1 DEF Into
  <2>8. Same(work, Store!Routed(RouteBase))'
    BY <1>0, <2>6, <2>7 DEF Same
  <2>9. Rows(det) \subseteq Rows(work.bus)
    <3>1. work.bus = nuts
      <4>1. RouteBase = disk \/ RouteBase = Store!Planned(disk, Instance)
        BY DEF RouteBase, Store!WithParents
      <4>2. Store!Routed(RouteBase).bus = nuts
        BY <4>1 DEF Store!Routed, Store!Planned, Types, Stored
      <4> QED
        BY <2>7, <4>2 DEF Same
    <3> QED
      BY <3>1, PlanRows DEF Refined
  <2>10. Rows(det)' \subseteq Rows(work.bus)'
    BY <1>0, <2>9 DEF session, Rows
  <2>11. InSave(e)'
    BY <2>5, <2>8, <2>10 DEF InSave
  <2> QED
    BY <2>11 DEF Control
<1>6. CASE \E f \in Parent :
             /\ At(End, f) /\ Same(work, Store!Planned(disk, Instance))
             /\ ~(Rows(nuts) \subseteq disk.known)
  <2>1. PICK f \in Parent :
             /\ At(End, f) /\ Same(work, Store!Planned(disk, Instance))
             /\ ~(Rows(nuts) \subseteq disk.known)
    BY <1>6
  <2>2. f.then \in Seq(StepName) /\ f.depth \in Nat /\ f.depth > 0
    BY ParentFrames
  <2>3. PICK r \in Routes : f.then = FromClearBus \o r.then /\ f.depth = r.depth + 1
    BY ParentFrames
  <2>4. At(FromClearBus, r)' /\ depth # 1
    <3>1. todo' = f.then /\ depth' = f.depth /\ (depth = 1 <=> f.depth = 0)
      BY <1>1, <2>1, <2>2
    <3>2. depth # 1
      BY <2>2, <3>1
    <3>3. todo' = FromClearBus \o r.then /\ depth' = r.depth + 1
      BY <2>3, <3>1, Zenon
    <3> QED
      BY <3>2, <3>3 DEF At
  <2>5. disk' = disk /\ RouteBase' = RouteBase
    BY <1>0, <2>4, Kept
  <2>6. RouteBase = Store!Planned(disk, Instance)
    BY <2>1, SameNames DEF RouteBase, Store!WithParents
  <2>7. Same(work, RouteBase)'
    BY <1>0, <2>1, <2>5, <2>6 DEF Same
  <2>8. InRoute(r)'
    BY <2>4, <2>7 DEF InRoute
  <2> QED
    BY <2>8 DEF Control
<1> QED
  <2>1. CASE \E f \in Ends \cup InnerBundles : At(End, f) /\ work = BundleRows /\ memo = None
    BY <1>3, <1>4, <2>1
  <2>2. CASE \E f \in Routes : At(End, f) /\ Into(Store!Routed(RouteBase), TRUE)
    BY <1>3, <1>5, <2>2 DEF Routes
  <2> QED
    BY <1>2, <1>3, <1>6, <2>1, <2>2

LEMMA Pair == \A x, y \in StepName : <<x, y>> = <<x>> \o <<y>>
<1> SUFFICES ASSUME NEW x \in StepName, NEW y \in StepName
             PROVE  <<x, y>> = <<x>> \o <<y>>
  OBVIOUS
<1>1. <<x, y>> \in Seq(StepName) /\ Len(<<x, y>>) = 2 /\ <<x, y>>[1] = x /\ <<x, y>>[2] = y
  OBVIOUS
<1>2. <<x>> \o <<y>> \in Seq(StepName) /\ Len(<<x>> \o <<y>>) = 2
  OBVIOUS
<1>3. (<<x>> \o <<y>>)[1] = x /\ (<<x>> \o <<y>>)[2] = y
  OBVIOUS
<1>4. \A i \in 1 .. 2 : <<x, y>>[i] = (<<x>> \o <<y>>)[i]
  BY <1>1, <1>3
<1> HIDE DEF StepName
<1> QED
  BY <1>1, <1>2, <1>4, SeqEqual, Zenon

LEMMA Triple == \A x, y, z \in StepName : <<x, y, z>> = <<x>> \o (<<y>> \o <<z>>)
<1> SUFFICES ASSUME NEW x \in StepName, NEW y \in StepName, NEW z \in StepName
             PROVE  <<x, y, z>> = <<x>> \o (<<y>> \o <<z>>)
  OBVIOUS
<1> DEFINE t == <<x, y, z>>
<1> DEFINE c == <<x>> \o (<<y>> \o <<z>>)
<1>1. t \in Seq(StepName) /\ Len(t) = 3 /\ t[1] = x /\ t[2] = y /\ t[3] = z
  OBVIOUS
<1>2. c \in Seq(StepName) /\ Len(c) = 3
  OBVIOUS
<1>3. c[1] = x /\ c[2] = y /\ c[3] = z
  OBVIOUS
<1> HIDE DEF t, c
<1>4. \A i \in 1 .. 3 : t[i] = c[i]
  BY <1>1, <1>3
<1>5. t = c
  BY <1>1, <1>2, <1>4, SeqEqual, Zenon
<1> QED
  BY <1>5 DEF t, c

LEMMA Concat ==
  /\ \A x \in StepName : <<x>> \in Seq(StepName)
  /\ \A s, t \in Seq(StepName) : s \o t \in Seq(StepName)
  /\ \A s, t, u \in Seq(StepName) : (s \o t) \o u = s \o (t \o u)
OBVIOUS

(* The saves of the session are these batches. *)
LEMMA SaveSteps ==
  /\ PersistBundles = BundleSteps /\ PersistTopologies = PoolSteps
  /\ PersistPlannerOutput(FALSE) = PlanSteps
  /\ PersistPlannerOutput(TRUE) = SelectiveSteps
  /\ \A f : PersistNuts(f) = IF f = NoRows THEN <<>> ELSE RouteSteps
  /\ \A f : PersistDetailedNuts(f) = IF f = NoRows THEN <<>> ELSE DetSteps
<1> DEFINE S(x) == <<x>>
<1> DEFINE Then(s, t) == s \o t
<1>1. /\ "begin" \in StepName /\ "commit" \in StepName /\ "clear bundles" \in StepName
      /\ "bundles" \in StepName /\ "topologies" \in StepName /\ "plan" \in StepName
      /\ "plan selectively" \in StepName /\ "parents" \in StepName
      /\ "clear bus" \in StepName /\ "bus" \in StepName /\ "placed" \in StepName
      /\ "net" \in StepName
  BY DEF StepName
<1>2. \A x \in StepName : S(x) \in Seq(StepName)
  BY Concat
<1>3. /\ End = S("commit") /\ FromBundles = Then(S("bundles"), End)
      /\ FromClear = Then(S("clear bundles"), FromBundles)
      /\ BundleSteps = Then(S("begin"), FromClear)
      /\ FromPool = Then(S("topologies"), End)
      /\ PoolSteps = Then(S("begin"), Then(BundleSteps, FromPool))
      /\ FromPlan = Then(S("plan"), End) /\ PlanSteps = Then(S("begin"), FromPlan)
      /\ FromSelective = Then(S("plan selectively"), End)
      /\ SelectiveSteps = Then(S("begin"), FromSelective)
      /\ FromBus = Then(S("bus"), End) /\ FromClearBus = Then(S("clear bus"), FromBus)
      /\ FromParents = Then(S("parents"), FromClearBus)
      /\ RouteSteps = Then(S("begin"), FromParents)
      /\ FromNet = Then(S("net"), End) /\ FromPlaced = Then(S("placed"), FromNet)
      /\ DetSteps = Then(S("begin"), FromPlaced)
  BY DEF End, FromBundles, FromClear, BundleSteps, FromPool, PoolSteps, FromPlan, PlanSteps,
         FromSelective, SelectiveSteps, FromBus, FromClearBus, FromParents, RouteSteps,
         FromNet, FromPlaced, DetSteps
<1>4. \A x, y, z \in StepName :
        <<x, y>> = Then(S(x), S(y)) /\ <<x, y, z>> = Then(S(x), Then(S(y), S(z)))
  BY Pair, Triple
<1>5. \A s : Batch(s) = Then(Then(S("begin"), s), S("commit"))
  BY DEF Batch
<1>6. \A s, t \in Seq(StepName) : Then(s, t) \in Seq(StepName)
  BY Concat
<1>7. \A s, t, u \in Seq(StepName) : Then(Then(s, t), u) = Then(s, Then(t, u))
  BY Concat
<1>8. /\ PersistBundles = Batch(<<"clear bundles", "bundles">>)
      /\ PersistTopologies = Batch(Then(PersistBundles, S("topologies")))
      /\ PersistPlannerOutput(FALSE) = Batch(S("plan"))
      /\ PersistPlannerOutput(TRUE) = Batch(S("plan selectively"))
      /\ \A f : PersistNuts(f) = IF f = NoRows THEN <<>>
                                 ELSE Batch(<<"parents", "clear bus", "bus">>)
      /\ \A f : PersistDetailedNuts(f) = IF f = NoRows THEN <<>> ELSE Batch(<<"placed", "net">>)
  BY DEF PersistBundles, PersistTopologies, PersistPlannerOutput, PersistNuts,
         PersistDetailedNuts
<1>9. BundleSteps \in Seq(StepName)
  BY Typed
<1> HIDE DEF S, Then
<1>10. ASSUME NEW x \in StepName
       PROVE  Batch(S(x)) = Then(S("begin"), Then(S(x), End))
  <2>1. S("begin") \in Seq(StepName) /\ S(x) \in Seq(StepName) /\ S("commit") \in Seq(StepName)
    BY <1>1, <1>2
  <2> QED
    BY <1>3, <1>5, <1>7, <2>1, Zenon
<1>11. ASSUME NEW x \in StepName, NEW t \in Seq(StepName)
       PROVE  Batch(Then(t, S(x))) = Then(S("begin"), Then(t, Then(S(x), End)))
  <2>1. S("begin") \in Seq(StepName) /\ S(x) \in Seq(StepName) /\ S("commit") \in Seq(StepName)
    BY <1>1, <1>2
  <2>2. Then(t, S(x)) \in Seq(StepName)
    BY <1>6, <2>1, Zenon
  <2>3. Then(Then(S("begin"), Then(t, S(x))), S("commit"))
          = Then(S("begin"), Then(Then(t, S(x)), S("commit")))
    BY <1>7, <2>1, <2>2, Zenon
  <2>4. Then(Then(t, S(x)), S("commit")) = Then(t, Then(S(x), S("commit")))
    BY <1>7, <2>1, Zenon
  <2> QED
    BY <1>3, <1>5, <2>3, <2>4, Zenon
<1>12. ASSUME NEW x \in StepName, NEW y \in StepName
       PROVE  Batch(<<x, y>>) = Then(S("begin"), Then(S(x), Then(S(y), End)))
  <2>1. S(x) \in Seq(StepName) /\ <<x, y>> = Then(S(x), S(y))
    BY <1>2, <1>4, Zenon
  <2> QED
    BY <1>11, <2>1, Zenon
<1>13. ASSUME NEW x \in StepName, NEW y \in StepName, NEW z \in StepName
       PROVE  Batch(<<x, y, z>>) = Then(S("begin"), Then(S(x), Then(S(y), Then(S(z), End))))
  <2>1. S(x) \in Seq(StepName) /\ S(y) \in Seq(StepName) /\ S(z) \in Seq(StepName)
    BY <1>2, Zenon
  <2>2. Then(S(x), S(y)) \in Seq(StepName) /\ Then(S(z), End) \in Seq(StepName)
    BY <1>1, <1>2, <1>3, <1>6, <2>1, Zenon
  <2>3. <<x, y, z>> = Then(Then(S(x), S(y)), S(z))
    <3>1. <<x, y, z>> = Then(S(x), Then(S(y), S(z)))
      BY <1>4, Zenon
    <3>2. Then(Then(S(x), S(y)), S(z)) = Then(S(x), Then(S(y), S(z)))
      BY <1>7, <2>1, Zenon
    <3> QED
      BY <3>1, <3>2, Zenon
  <2>4. Batch(<<x, y, z>>) = Then(S("begin"), Then(Then(S(x), S(y)), Then(S(z), End)))
    BY <1>11, <2>2, <2>3, Zenon
  <2>5. Then(Then(S(x), S(y)), Then(S(z), End)) = Then(S(x), Then(S(y), Then(S(z), End)))
    BY <1>7, <2>1, <2>2, Zenon
  <2> QED
    BY <2>4, <2>5, Zenon
<1>14. PersistBundles = BundleSteps
  <2>1. Batch(<<"clear bundles", "bundles">>)
          = Then(S("begin"), Then(S("clear bundles"), Then(S("bundles"), End)))
    BY <1>1, <1>12, Zenon
  <2> QED
    BY <1>3, <1>8, <2>1, Zenon
<1>15. PersistTopologies = PoolSteps
  <2>1. Batch(Then(BundleSteps, S("topologies")))
          = Then(S("begin"), Then(BundleSteps, Then(S("topologies"), End)))
    BY <1>1, <1>9, <1>11, Zenon
  <2> QED
    BY <1>3, <1>8, <1>14, <2>1, Zenon
<1>16. PersistPlannerOutput(FALSE) = PlanSteps /\ PersistPlannerOutput(TRUE) = SelectiveSteps
  <2>1. /\ Batch(S("plan")) = Then(S("begin"), Then(S("plan"), End))
        /\ Batch(S("plan selectively")) = Then(S("begin"), Then(S("plan selectively"), End))
    BY <1>1, <1>10, Zenon
  <2> QED
    BY <1>3, <1>8, <2>1, Zenon
<1>17. Batch(<<"parents", "clear bus", "bus">>) = RouteSteps
  <2>1. Batch(<<"parents", "clear bus", "bus">>)
          = Then(S("begin"), Then(S("parents"), Then(S("clear bus"), Then(S("bus"), End))))
    <3>1. "parents" \in StepName /\ "clear bus" \in StepName /\ "bus" \in StepName
      BY <1>1, Zenon
    <3> QED
      BY <1>13, <3>1, Zenon
  <2> QED
    BY <1>3, <2>1, Zenon
<1>18. Batch(<<"placed", "net">>) = DetSteps
  <2>1. Batch(<<"placed", "net">>)
          = Then(S("begin"), Then(S("placed"), Then(S("net"), End)))
    BY <1>1, <1>12, Zenon
  <2> QED
    BY <1>3, <2>1, Zenon
<1> QED
  BY <1>8, <1>14, <1>15, <1>16, <1>17, <1>18, Zenon

LEMMA EnsureParentsControl ==
  Types /\ Sound(disk) /\ Control /\ ensure_parents => Control'
<1> SUFFICES ASSUME Types, Sound(disk), Control, ensure_parents  PROVE Control'
  OBVIOUS
<1>0. /\ todo # <<>> /\ Head(todo) = "parents" /\ todo' = Parents(nuts) \o Tail(todo)
      /\ UNCHANGED <<session, disk>> /\ work' = work /\ depth' = depth
  BY DEF ensure_parents, Next1, store
<1>1. work = disk /\ \E f \in Routes : At(FromParents, f)
  BY <1>0, Where
<1>2. PICK f \in Routes : At(FromParents, f)
  BY <1>1
<1>3. f.then \in Seq(StepName) /\ FromClearBus \in Seq(StepName)
  BY InnerFrames, Typed
<1>4. Tail(todo) = FromClearBus \o f.then
  <2>1. Peeled(FromParents, "parents", FromClearBus, f.then)
    BY <1>3, Heads, Zenon
  <2> QED
    BY <1>2, <2>1 DEF At, Peeled
<1>5. CASE Rows(nuts) \subseteq work.known
  <2>1. todo' = FromClearBus \o f.then
    BY <1>0, <1>3, <1>4, <1>5 DEF Parents
  <2>2. At(FromClearBus, f)'
    BY <1>0, <1>2, <2>1 DEF At
  <2>3. RouteBase = disk
    BY <1>1, <1>5, SameNames DEF RouteBase, Store!WithParents
  <2>4. Same(work, RouteBase)'
    BY <1>0, <1>1, <2>3, Kept DEF Same
  <2>5. InRoute(f)'
    BY <2>2, <2>4 DEF InRoute
  <2> QED
    BY <2>5 DEF Control
<1>6. CASE ~(Rows(nuts) \subseteq work.known)
  <2>1. PICK g \in Parent : g.then = FromClearBus \o f.then /\ g.depth = f.depth + 1
    BY ParentFrames
  <2>2. todo' = PlanSteps \o g.then
    BY <1>0, <1>4, <1>6, <2>1, SaveSteps DEF Parents
  <2>3. Before(PlanSteps, g)'
    BY <1>0, <1>2, <2>1, <2>2, Zenon DEF Before, At
  <2>4. (~(Rows(nuts) \subseteq disk.known))'
    BY <1>0, <1>1, <1>6 DEF session, Rows
  <2>5. InParents(g)'
    BY <1>0, <1>1, <2>3, <2>4, Zenon DEF InParents
  <2> QED
    BY <2>5 DEF Control
<1> QED
  BY <1>5, <1>6

LEMMA EnsurePlacedControl ==
  Types /\ Refined /\ Sound(disk) /\ Control /\ ensure_placed => Control'
<1> SUFFICES ASSUME Types, Refined, Sound(disk), Control, ensure_placed  PROVE Control'
  OBVIOUS
<1>0. /\ todo # <<>> /\ Head(todo) = "placed"
      /\ todo' = (IF Rows(det) \subseteq Rows(work.bus) THEN Parents(det)
                  ELSE PersistNuts(nuts)) \o Tail(todo)
      /\ UNCHANGED <<session, disk>> /\ work' = work /\ depth' = depth
  BY DEF ensure_placed, Next1, store
<1>1. work = disk /\ \E e \in Ends : At(FromPlaced, e)
  BY <1>0, Where
<1>2. PICK e \in Ends : At(FromPlaced, e)
  BY <1>1
<1>3. e.then \in Seq(StepName) /\ FromNet \in Seq(StepName)
  BY EndFrames, Typed
<1>4. Tail(todo) = FromNet \o e.then
  <2>1. Peeled(FromPlaced, "placed", FromNet, e.then)
    BY <1>3, Heads, Zenon
  <2> QED
    BY <1>2, <2>1 DEF At, Peeled
<1>5. CASE Rows(det) \subseteq Rows(work.bus)
  <2>0. Rows(det) \subseteq disk.known
    BY <1>1, <1>5 DEF Sound
  <2>1. todo' = FromNet \o e.then
    BY <1>0, <1>1, <1>3, <1>4, <1>5, <2>0 DEF Parents
  <2>2. At(FromNet, e)'
    BY <1>0, <1>2, <2>1 DEF At
  <2>3. Store!WithParents(disk, det) = disk
    BY <2>0, SameNames DEF Store!WithParents
  <2>4. Same(work, Store!WithParents(disk, det))'
    BY <1>0, <1>1, <2>3, Kept DEF Same
  <2>5. Rows(det)' \subseteq Rows(work.bus)'
    BY <1>0, <1>5 DEF session, Rows
  <2>6. InSave(e)'
    BY <2>2, <2>4, <2>5 DEF InSave
  <2> QED
    BY <2>6 DEF Control
<1>6. CASE ~(Rows(det) \subseteq Rows(work.bus))
  <2>1. nuts # NoRows
    BY <1>6, PlanRows DEF Refined
  <2>2. PICK g \in InnerRoutes : g.then = FromNet \o e.then /\ g.depth = 1
    BY InnerFrames
  <2>3. todo' = RouteSteps \o g.then
    BY <1>0, <1>4, <1>6, <2>1, <2>2, SaveSteps
  <2>4. depth = 1
    BY <1>2, EndFrames DEF At
  <2>5. Before(RouteSteps, g)'
    BY <1>0, <2>2, <2>3, <2>4, Zenon DEF Before
  <2> QED
    BY <1>0, <1>1, <2>5 DEF Control
<1> QED
  BY <1>5, <1>6

-----------------------------------------------------------------------------
(* The save of the plan.                                                   *)

LEMMA RowParts ==
  /\ \A r \in Row : r = [topo |-> r.topo, layer |-> r.layer]
  /\ \A r \in Row : \A l : [r EXCEPT !.layer = l] = [topo |-> r.topo, layer |-> l]
BY DEF Row

LEMMA PlanValues ==
  ASSUME Types
  PROVE  /\ \A b \in Bundle : plan[b] = None \/ plan[b] \in Row
         /\ \A b \in Bundle : b \in Rows(plan) <=> plan[b] # None
         /\ \A i \in Planned : plan[i] \in Row /\ i \in Instance
         /\ \A i \in Instance : i \in Planned <=> plan[i] # None
         /\ \A b \in Bundle : (b \in Normal <=> ~(b \in Instance))
         /\ Normal \subseteq Bundle /\ Instance \subseteq Bundle
         /\ Rows(plan) \cap Normal \subseteq Normal /\ Planned \subseteq Bundle
BY RowFacts DEF Types, Plans, Rows, Planned, Bundle

(* A save that skips, updates or rewrites instances row by row leaves the  *)
(* rows of the plan, all the same.                                         *)
LEMMA InstanceRows ==
  ASSUME Types, MemoIsTrue, NEW i \in Planned
  PROVE  InstanceRow(i, Selective) = plan[i]
<1>1. plan[i] \in Row /\ i \in Instance
  BY PlanValues
<1>2. CASE ~Selective
  BY <1>2 DEF InstanceRow
<1>3. CASE Selective
  <2>1. memo # None /\ DOMAIN memo = Planned
    BY <1>3 DEF Selective
  <2>2. memo[i] \in Row /\ work.plan[i] = memo[i]
    BY <1>1, <2>1 DEF Types, MemoIsTrue
  <2>3. CASE memo[i] = plan[i]
    BY <1>3, <2>2, <2>3 DEF InstanceRow, LayersOnly
  <2>4. CASE memo[i] # plan[i] /\ LayersOnly(i)
    <3>1. work.plan[i] # None
      BY <2>2, RowFacts
    <3>2. InstanceRow(i, Selective) = [work.plan[i] EXCEPT !.layer = plan[i].layer]
      BY <1>3, <2>4, <3>1 DEF InstanceRow
    <3>3. memo[i].topo = plan[i].topo
      BY <2>4 DEF LayersOnly
    <3>4. [memo[i] EXCEPT !.layer = plan[i].layer]
            = [topo |-> memo[i].topo, layer |-> plan[i].layer]
      BY <2>2, RowParts
    <3>5. plan[i] = [topo |-> plan[i].topo, layer |-> plan[i].layer]
      BY <1>1, RowParts
    <3> QED
      BY <2>2, <3>2, <3>3, <3>4, <3>5
  <2>5. CASE memo[i] # plan[i] /\ ~LayersOnly(i)
    BY <2>5 DEF InstanceRow
  <2> QED
    BY <2>3, <2>4, <2>5
<1> QED
  BY <1>2, <1>3

(* The instances a selective save touches are those whose rows differ. *)
LEMMA ChangedRows ==
  ASSUME Types, MemoIsTrue, Selective
  PROVE  Changed = Store!Replaced(work)
<1>1. memo # None /\ DOMAIN memo = Planned
  BY DEF Selective
<1>2. \A i \in Instance : work.plan[i] = IF i \in Planned THEN memo[i] ELSE None
  BY <1>1 DEF MemoIsTrue
<1>3. \A i \in Instance : i \in Planned <=> plan[i] # None
  BY PlanValues
<1>4. \A i \in Planned : i \in Instance
  BY PlanValues
<1> QED
  BY <1>2, <1>3, <1>4 DEF Changed, Store!Replaced

LEMMA PlannerParts ==
  ASSUME Types, MemoIsTrue
  PROVE  /\ PlannerRows.known = (work.known \cap Normal) \cup Rows(plan)
         /\ PlannerRows.templates = work.templates
         /\ PlannerRows.pool = work.pool \cup ((Rows(plan) \cap Normal) \ work.known)
         /\ PlannerRows.plan = [b \in Bundle |-> IF b \in Normal THEN NormalRow(b) ELSE plan[b]]
         /\ PlannerRows.bus = Without(work.bus, Cleared)
         /\ PlannerRows.net = Without(work.net, Cleared)
         /\ PlannerRows.snap = (IF ClearsSnapshot THEN None ELSE work.snap)
         /\ PlannerRows = [work EXCEPT !.known = PlannerRows.known, !.pool = PlannerRows.pool,
                                       !.plan = PlannerRows.plan, !.bus = PlannerRows.bus,
                                       !.net = PlannerRows.net, !.snap = PlannerRows.snap]
<1> DEFINE p == [b \in Bundle |->
                   IF b \in Normal THEN NormalRow(b)
                   ELSE IF b \in Planned THEN InstanceRow(b, Selective) ELSE None]
<1>1. p = [b \in Bundle |-> IF b \in Normal THEN NormalRow(b) ELSE plan[b]]
  <2>1. ASSUME NEW b \in Bundle, b \notin Normal
        PROVE  plan[b] = IF b \in Planned THEN InstanceRow(b, Selective) ELSE None
    BY <2>1, PlanValues, InstanceRows
  <2> QED
    BY <2>1
<1> DEFINE k == (work.known \cap Normal) \cup Rows(plan)
<1> DEFINE o == work.pool \cup ((Rows(plan) \cap Normal) \ work.known)
<1> DEFINE u == Without(work.bus, Cleared)
<1> DEFINE v == Without(work.net, Cleared)
<1> DEFINE s == IF ClearsSnapshot THEN None ELSE work.snap
<1>2. PlannerRows = [work EXCEPT !.known = k, !.pool = o, !.plan = p, !.bus = u, !.net = v,
                                 !.snap = s]
  BY Zenon DEF PlannerRows
<1> HIDE DEF k, o, u, v, s, p
<1>3. work \in Stored
  BY DEF Types
<1> HIDE DEF PlannerRows
<1>6. /\ PlannerRows.known = k /\ PlannerRows.templates = work.templates
      /\ PlannerRows.pool = o /\ PlannerRows.plan = p /\ PlannerRows.bus = u
      /\ PlannerRows.net = v /\ PlannerRows.snap = s
  BY <1>2, <1>3 DEF Stored
<1>7. PlannerRows = [work EXCEPT !.known = PlannerRows.known, !.pool = PlannerRows.pool,
                                 !.plan = PlannerRows.plan, !.bus = PlannerRows.bus,
                                 !.net = PlannerRows.net, !.snap = PlannerRows.snap]
  BY <1>2, <1>6, Zenon
<1> QED
  BY <1>1, <1>6, <1>7, Zenon DEF k, o, u, v, s

LEMMA PlannedParts ==
  ASSUME NEW s \in Stored, NEW gone
  PROVE  /\ Store!Planned(s, gone).known = (s.known \cap Normal) \cup Rows(plan)
         /\ Store!Planned(s, gone).templates = s.templates
         /\ Store!Planned(s, gone).pool = s.pool \cup ((Rows(plan) \cap Normal) \ s.known)
         /\ Store!Planned(s, gone).plan = [b \in Bundle |-> Store!PlanRow(s, b)]
         /\ Store!Planned(s, gone).bus = Without(s.bus, gone)
         /\ Store!Planned(s, gone).net = Without(s.net, gone)
         /\ Store!Planned(s, gone).snap = s.snap
BY SameNames DEF Store!Planned, Stored

(* It is the save that the file is promised. *)
LEMMA PlannerIsPlanned ==
  ASSUME Types, MemoIsTrue
  PROVE  /\ Same(PlannerRows, Store!Planned(work, Cleared))
         /\ ~Selective => Cleared = Instance
         /\ Selective => Cleared = Store!Replaced(work)
<1>1. work \in Stored
  BY DEF Types
<1>2. \A b \in Bundle :
        Store!PlanRow(work, b) = IF b \in Normal THEN NormalRow(b) ELSE plan[b]
  BY PlanValues DEF Store!PlanRow, NormalRow
<1>3. Store!Planned(work, Cleared).plan
        = [b \in Bundle |-> IF b \in Normal THEN NormalRow(b) ELSE plan[b]]
  BY <1>1, <1>2, PlannedParts
<1>4. Same(PlannerRows, Store!Planned(work, Cleared))
  <2> HIDE DEF PlannerRows, Store!Planned
  <2> QED
    BY <1>1, <1>3, PlannerParts, PlannedParts, Zenon DEF Same
<1>5. ~Selective => Cleared = Instance
  BY DEF Cleared
<1>6. Selective => Cleared = Store!Replaced(work)
  BY ChangedRows DEF Cleared
<1> QED
  BY <1>4, <1>5, <1>6

LEMMA PlannerStored ==
  ASSUME Types, MemoIsTrue, Sound(work)
  PROVE  PlannerRows \in Stored /\ Sound(PlannerRows)
<1> DEFINE t == PlannerRows
<1>1. work \in Stored
  BY DEF Types
<1>2. /\ t.known = (work.known \cap Normal) \cup Rows(plan)
      /\ t.templates = work.templates
      /\ t.pool = work.pool \cup ((Rows(plan) \cap Normal) \ work.known)
      /\ t.plan = [b \in Bundle |-> IF b \in Normal THEN NormalRow(b) ELSE plan[b]]
      /\ t.bus = Without(work.bus, Cleared) /\ t.net = Without(work.net, Cleared)
      /\ t.snap = (IF ClearsSnapshot THEN None ELSE work.snap)
  BY PlannerParts
<1>3. t = [work EXCEPT !.known = t.known, !.pool = t.pool, !.plan = t.plan, !.bus = t.bus,
                       !.net = t.net, !.snap = t.snap]
  BY PlannerParts
<1> HIDE DEF t
<1>4. t.plan \in Plans
  <2>1. \A b \in Normal : NormalRow(b) \in Row \cup {None}
    BY <1>1, PlanValues DEF NormalRow, Stored, Plans
  <2> QED
    BY <1>2, <2>1, PlanValues DEF Plans
<1>5. t.bus \in Plans /\ t.net \in Plans
  BY <1>1, <1>2, PlanRows DEF Stored
<1>6. t.known \in SUBSET Bundle /\ t.templates \in BOOLEAN /\ t.pool \in SUBSET Normal
  BY <1>1, <1>2, PlanValues, PlanRows DEF Types, Stored
<1>7. t.snap \in {None} \cup [bus : Plans, net : Plans, n : 0..Cardinality(Bundle)]
  BY <1>1, <1>2 DEF Stored
<1>8. t \in Stored
  BY <1>1, <1>3, <1>4, <1>5, <1>6, <1>7 DEF Stored
<1>9. Rows(t.bus) = Rows(work.bus) \ Cleared /\ Rows(t.net) = Rows(work.net) \ Cleared
  BY <1>1, <1>2, PlanRows DEF Stored
<1>10. Described(t)
  <2>1. CASE ClearsSnapshot
    BY <1>2, <2>1 DEF Described
  <2>2. CASE ~ClearsSnapshot
    <3>1. Cleared = {} /\ t.snap = work.snap
      BY <1>2, <2>2 DEF ClearsSnapshot, Cleared
    <3>2. t.bus = work.bus /\ t.net = work.net
      BY <1>1, <1>2, <3>1, PlanRows DEF Stored
    <3> QED
      BY <3>1, <3>2 DEF Sound, Described
  <2> QED
    BY <2>1, <2>2
<1>11. Rows(t.bus) \subseteq t.known
  <2> SUFFICES ASSUME NEW b \in Rows(work.bus), b \notin Cleared
               PROVE  b \in (work.known \cap Normal) \cup Rows(plan)
    BY <1>2, <1>9
  <2>1. b \in work.known /\ b \in Bundle
    BY DEF Sound, Rows
  <2>2. CASE b \in Normal
    BY <2>1, <2>2
  <2>3. CASE b \in Instance
    <3>1. Selective
      BY <2>3 DEF Cleared
    <3>2. work.plan[b] # None
      BY <2>1, <2>3 DEF Sound, Rows
    <3>3. memo # None /\ DOMAIN memo = Planned
      BY <3>1 DEF Selective
    <3>4. b \in Planned
      BY <2>3, <3>2, <3>3 DEF MemoIsTrue
    <3> QED
      BY <3>4 DEF Planned
  <2> QED
    BY <2>1, <2>2, <2>3, PlanValues
<1>12. t.known \cap Instance \subseteq Rows(t.plan)
  <2> SUFFICES ASSUME NEW b \in t.known, b \in Instance  PROVE b \in Rows(t.plan)
    OBVIOUS
  <2>1. b \in Rows(plan) /\ b \in Bundle /\ b \notin Normal
    BY <1>2, RowFacts DEF Bundle
  <2>2. t.plan[b] # None
    BY <1>2, <2>1, PlanValues
  <2> QED
    BY <2>1, <2>2 DEF Rows
<1>13. Rows(t.net) \subseteq Rows(t.bus)
  BY <1>9 DEF Sound
<1>14. Sound(t)
  BY <1>10, <1>11, <1>12, <1>13 DEF Sound
<1> QED
  BY <1>8, <1>14 DEF t

-----------------------------------------------------------------------------
(* Every step keeps the invariant.                                         *)

(* A step of a save leaves the session alone. *)
LEMMA SaveKeeps ==
  ASSUME Inv, UNCHANGED <<session, open>>, Control', MemoIsTrue',
         disk' \in Stored, Sound(disk)', work' \in Stored, Sound(work)',
         memo' = None \/ memo' = memo \/ memo' = [i \in Planned |-> plan[i]]
  PROVE  Inv'
<1>1. CASE memo' = [i \in Planned |-> plan[i]]
  <2>1. Types
    BY DEF Inv
  <2>2. \A i \in Planned : plan[i] \in Row /\ i \in Instance
    BY <2>1, PlanValues
  <2>3. memo' = None
          \/ (DOMAIN memo' \subseteq Instance /\ \A i \in DOMAIN memo' : memo'[i] \in Row)
    BY <1>1, <2>2
  <2> QED
    BY <2>3 DEF Inv, Types, Refined, session
<1>2. CASE memo' = None \/ memo' = memo
  BY <1>2 DEF Inv, Types, Refined, session
<1> QED
  BY <1>1, <1>2

LEMMA BeginStep == Inv /\ begin_batch => Inv'
<1> SUFFICES ASSUME Inv, begin_batch  PROVE Inv'
  OBVIOUS
<1>1. Control' /\ (depth = 0 => work = disk)
  BY BeginControl, Idle DEF Inv
<1>2. work' = work /\ disk' = disk /\ UNCHANGED <<session, open>> /\ memo' = memo
  BY <1>1 DEF begin_batch
<1>3. MemoIsTrue'
  BY <1>2 DEF Inv, MemoIsTrue
<1>4. Sound(disk)' /\ Sound(work)' /\ disk' \in Stored /\ work' \in Stored
  BY <1>2 DEF Inv, Types, Sound, Described, Rows
<1> QED
  BY <1>1, <1>2, <1>3, <1>4, SaveKeeps

LEMMA CommitStep == Inv /\ commit_batch => Inv'
<1> SUFFICES ASSUME Inv, commit_batch  PROVE Inv'
  OBVIOUS
<1>1. Control'
  BY CommitControl DEF Inv
<1>2. /\ work' = work /\ (disk' = disk \/ disk' = work)
      /\ UNCHANGED <<session, open>> /\ memo' = memo
  BY DEF commit_batch
<1>3. MemoIsTrue'
  BY <1>2 DEF Inv, MemoIsTrue
<1>4. Sound(work)' /\ work' \in Stored
  BY <1>2 DEF Inv, Types, Sound, Described, Rows
<1>5. Sound(disk)' /\ disk' \in Stored
  BY <1>2 DEF Inv, Types, Sound, Described, Rows
<1> QED
  BY <1>1, <1>2, <1>3, <1>4, <1>5, SaveKeeps

LEMMA EnsureStep == Inv /\ (ensure_parents \/ ensure_placed) => Inv'
<1> SUFFICES ASSUME Inv, ensure_parents \/ ensure_placed  PROVE Inv'
  OBVIOUS
<1>1. Control'
  BY EnsureParentsControl, EnsurePlacedControl DEF Inv
<1>2. work' = work /\ disk' = disk /\ UNCHANGED <<session, open>> /\ memo' = memo
  BY DEF ensure_parents, ensure_placed, store
<1>3. MemoIsTrue'
  BY <1>2 DEF Inv, MemoIsTrue
<1>4. Sound(disk)' /\ Sound(work)' /\ disk' \in Stored /\ work' \in Stored
  BY <1>2 DEF Inv, Types, Sound, Described, Rows
<1> QED
  BY <1>1, <1>2, <1>3, <1>4, SaveKeeps

(* What a write leaves alone, and how it moves on within its batch. *)
LEMMA Writes ==
  ASSUME Inv, NEW s, Write(s)
  PROVE  /\ work' = s /\ todo' = Tail(todo) /\ depth' = depth /\ disk' = disk
         /\ UNCHANGED <<session, open>> /\ UNCHANGED <<session, disk>>
         /\ disk' \in Stored /\ Sound(disk)'
<1>1. /\ work' = s /\ todo' = Tail(todo) /\ depth' = depth /\ disk' = disk
      /\ UNCHANGED <<session, open>> /\ UNCHANGED <<session, disk>>
  BY DEF Write, Done
<1>2. disk' \in Stored /\ Sound(disk)'
  BY <1>1 DEF Inv, Types, Sound, Described, Rows
<1> QED
  BY <1>1, <1>2

LEMMA MovesOn ==
  ASSUME NEW s, NEW x, NEW t, NEW f, Peeled(s, x, t, f.then), At(s, f),
         todo' = Tail(todo), depth' = depth
  PROVE  At(t, f)'
BY DEF Peeled, At

LEMMA ClearBundlesStep == Inv /\ clear_bundles => Inv'
<1> SUFFICES ASSUME Inv, clear_bundles  PROVE Inv'
  OBVIOUS
<1>1. todo # <<>> /\ Head(todo) = "clear bundles" /\ memo' = None /\ Write(Blank)
  BY DEF clear_bundles, Next1
<1>2. /\ work' = Blank /\ todo' = Tail(todo) /\ depth' = depth
      /\ UNCHANGED <<session, open>> /\ disk' \in Stored /\ Sound(disk)'
  BY <1>1, Writes
<1>3. PICK f \in Ends \cup InnerBundles : At(FromClear, f)
  BY <1>1, Where DEF Inv
<1>4. Peeled(FromClear, "clear bundles", FromBundles, f.then)
  BY EndFrames, InnerFrames, Heads, Zenon
<1>5. At(FromBundles, f)'
  BY <1>2, <1>3, <1>4, MovesOn
<1>6. InBundles(f)'
  BY <1>1, <1>2, <1>5 DEF InBundles, Blank
<1>7. Control'
  BY <1>6 DEF Control
<1>8. work' \in Stored /\ Sound(work)'
  BY <1>2, StoredBases DEF Sound, Described, Rows, Blank
<1> QED
  BY <1>1, <1>2, <1>7, <1>8, SaveKeeps DEF MemoIsTrue

LEMMA PersistBundlesStep == Inv /\ persist_bundles => Inv'
<1> SUFFICES ASSUME Inv, persist_bundles  PROVE Inv'
  OBVIOUS
<1> DEFINE s == [work EXCEPT !.known = Normal, !.templates = TRUE]
<1>1. todo # <<>> /\ Head(todo) = "bundles" /\ memo' = memo /\ Write(s)
  BY DEF persist_bundles, Next1
<1>2. /\ work' = s /\ todo' = Tail(todo) /\ depth' = depth
      /\ UNCHANGED <<session, open>> /\ disk' \in Stored /\ Sound(disk)'
  BY <1>1, Writes
<1>3. work = Blank /\ memo = None /\ \E f \in Ends \cup InnerBundles : At(FromBundles, f)
  BY <1>1, Where DEF Inv
<1>4. PICK f \in Ends \cup InnerBundles : At(FromBundles, f)
  BY <1>3
<1>5. Peeled(FromBundles, "bundles", End, f.then)
  BY EndFrames, InnerFrames, Heads, Zenon
<1>6. At(End, f)'
  BY <1>2, <1>4, <1>5, MovesOn
<1>7. work' = BundleRows
  BY <1>2, <1>3 DEF BundleRows
<1>8. InBundles(f)'
  BY <1>1, <1>3, <1>6, <1>7 DEF InBundles, BundleRows, Blank
<1>9. Control'
  BY <1>8 DEF Control
<1>10. work' \in Stored /\ Sound(work)'
  BY <1>7, StoredBases DEF Sound, Described, Rows, BundleRows, Blank
<1> QED
  BY <1>1, <1>2, <1>3, <1>9, <1>10, SaveKeeps DEF MemoIsTrue

LEMMA PersistTopologiesStep == Inv /\ persist_topologies => Inv'
<1> SUFFICES ASSUME Inv, persist_topologies  PROVE Inv'
  OBVIOUS
<1> DEFINE p == [b \in Bundle |-> IF b \in Normal THEN Selected(b) ELSE None]
<1> DEFINE s == [work EXCEPT !.pool = Normal, !.plan = p]
<1>1. todo # <<>> /\ Head(todo) = "topologies" /\ memo' = memo /\ Write(s)
  BY DEF persist_topologies, Next1
<1>2. /\ work' = s /\ todo' = Tail(todo) /\ depth' = depth
      /\ UNCHANGED <<session, open>> /\ disk' \in Stored /\ Sound(disk)'
      /\ UNCHANGED <<session, disk>>
  BY <1>1, Writes
<1>3. work = BundleRows /\ memo = None /\ \E e \in Ends : At(FromPool, e)
  BY <1>1, Where DEF Inv
<1>4. PICK e \in Ends : At(FromPool, e)
  BY <1>3
<1>5. Peeled(FromPool, "topologies", End, e.then)
  BY EndFrames, Heads, Zenon
<1>6. At(End, e)'
  BY <1>2, <1>4, <1>5, MovesOn
<1>7. p \in Plans
  <2>1. Chosen \in [Normal -> Topo \cup {None}]
    BY ChosenType DEF Inv
  <2>2. ASSUME NEW n \in Normal  PROVE Selected(n) \in Row \cup {None}
    BY <2>1 DEF Selected, Row
  <2> QED
    BY <2>2 DEF Plans
<1>8. /\ BundleRows \in Stored /\ BundleRows.known = Normal /\ BundleRows.templates = TRUE
      /\ BundleRows.bus = NoRows /\ BundleRows.net = NoRows /\ BundleRows.snap = None
  BY StoredBases DEF BundleRows, Blank
<1>9. p = [b \in Bundle |-> IF b \in Normal /\ Chosen[b] # None
                            THEN [topo |-> Chosen[b], layer |-> NoLayer] ELSE None]
  BY DEF Selected
<1>10. Store!Topologies = [BundleRows EXCEPT !.pool = Normal, !.plan = p]
  BY <1>9, SameNames DEF Store!Topologies
<1> HIDE DEF p, BundleRows
<1>11. work' = Store!Topologies /\ work'.snap = None /\ work' \in Stored
  BY <1>2, <1>3, <1>7, <1>8, <1>10 DEF Stored
<1>12. Into(Store!Topologies, FALSE)'
  BY <1>2, <1>11, Kept DEF Into, Same
<1>13. InSave(e)'
  BY <1>6, <1>12 DEF InSave, Saved
<1>14. Control'
  BY <1>13 DEF Control
<1>15. /\ work'.bus = NoRows /\ work'.net = NoRows /\ work'.known = Normal
  BY <1>2, <1>3, <1>8 DEF Stored
<1>16. Sound(work)'
  BY <1>11, <1>15, PlanRows, RowFacts DEF Sound, Described, Rows
<1> QED
  BY <1>1, <1>2, <1>3, <1>11, <1>14, <1>16, SaveKeeps DEF MemoIsTrue

LEMMA PersistPlannerStep == Inv /\ persist_planner_output => Inv'
<1> SUFFICES ASSUME Inv, persist_planner_output  PROVE Inv'
  OBVIOUS
<1>1. /\ todo # <<>> /\ Head(todo) \in {"plan", "plan selectively"}
      /\ memo' = [i \in Planned |-> plan[i]] /\ Write(PlannerRows)
  BY DEF persist_planner_output, Next1
<1>2. /\ work' = PlannerRows /\ todo' = Tail(todo) /\ depth' = depth /\ disk' = disk
      /\ UNCHANGED <<session, open>> /\ disk' \in Stored /\ Sound(disk)'
      /\ UNCHANGED <<session, disk>>
  BY <1>1, Writes
<1>3. Types /\ MemoIsTrue /\ Sound(work) /\ Sound(disk) /\ Control
  BY DEF Inv
<1>4. work' \in Stored /\ Sound(PlannerRows)
  BY <1>2, <1>3, PlannerStored
<1>5. Sound(work)'
  BY <1>2, <1>4 DEF Sound, Described, Rows
<1>6. MemoIsTrue'
  <2>1. PlannerRows.plan = [b \in Bundle |-> IF b \in Normal THEN NormalRow(b) ELSE plan[b]]
    BY <1>3, PlannerParts
  <2>2. ASSUME NEW i \in Instance
        PROVE  work'.plan[i] = IF i \in DOMAIN memo' THEN memo'[i] ELSE None
    <3>1. i \in Bundle /\ i \notin Normal /\ (i \in Planned <=> plan[i] # None)
      BY <1>3, PlanValues
    <3>2. work'.plan[i] = plan[i]
      BY <1>2, <2>1, <3>1
    <3> QED
      BY <1>1, <3>1, <3>2
  <2> QED
    BY <2>2 DEF MemoIsTrue
<1>7. work = disk
  BY <1>1, <1>3, Where
<1>8. Same(PlannerRows, Store!Planned(disk, Cleared))
  BY <1>3, <1>7, PlannerIsPlanned
<1>9. CASE Head(todo) = "plan"
  <2>1. ~Selective
    BY <1>9 DEF Selective, Next1
  <2>2. Cleared = Instance /\ PlannerRows.snap = None
    BY <1>3, <2>1, PlannerParts DEF Cleared, ClearsSnapshot
  <2>3. Same(work, Store!Planned(disk, Instance))'
    BY <1>2, <1>8, <2>2, Kept DEF Same
  <2>4. \/ \E e \in Ends : At(FromPlan, e)
        \/ \E f \in Parent : At(FromPlan, f) /\ ~(Rows(nuts) \subseteq disk.known)
    <3>1. Control /\ todo # <<>> /\ Head(todo) = "plan"
      BY <1>1, <1>3, <1>9
    <3> QED
      BY <3>1, Where
  <2>5. CASE \E e \in Ends : At(FromPlan, e)
    <3>1. PICK e \in Ends : At(FromPlan, e)
      BY <2>5
    <3>2. Peeled(FromPlan, "plan", End, e.then)
      BY EndFrames, Heads, Zenon
    <3>3. At(End, e)'
      BY <1>2, <3>1, <3>2, MovesOn
    <3>4. Into(Store!Planned(disk, Instance), FALSE)'
      BY <1>2, <2>2, <2>3 DEF Into
    <3>5. InSave(e)'
      BY <3>3, <3>4 DEF InSave, Saved
    <3>6. Control'
      BY <3>5 DEF Control
    <3> QED
      BY <1>1, <1>2, <1>4, <1>5, <1>6, <3>6, SaveKeeps
  <2>6. CASE \E f \in Parent : At(FromPlan, f) /\ ~(Rows(nuts) \subseteq disk.known)
    <3>1. PICK f \in Parent : At(FromPlan, f) /\ ~(Rows(nuts) \subseteq disk.known)
      BY <2>6
    <3>2. Peeled(FromPlan, "plan", End, f.then)
      BY ParentFrames, Heads, Zenon
    <3>3. At(End, f)'
      BY <1>2, <3>1, <3>2, MovesOn
    <3>4. (~(Rows(nuts) \subseteq disk.known))'
      BY <1>2, <3>1 DEF session, Rows
    <3>5. InParents(f)'
      BY <2>3, <3>3, <3>4 DEF InParents
    <3>6. Control'
      BY <3>5 DEF Control
    <3> QED
      BY <1>1, <1>2, <1>4, <1>5, <1>6, <3>6, SaveKeeps
  <2> QED
    BY <2>4, <2>5, <2>6
<1>10. CASE Head(todo) = "plan selectively"
  <2>1. PICK e \in Ends : At(FromSelective, e)
    BY <1>1, <1>3, <1>10, Where
  <2>2. Peeled(FromSelective, "plan selectively", End, e.then)
    BY EndFrames, Heads, Zenon
  <2>3. At(End, e)'
    BY <1>2, <2>1, <2>2, MovesOn
  <2>4. ASSUME ~Selective  PROVE InSave(e)'
    <3>1. Cleared = Instance /\ PlannerRows.snap = None
      BY <1>3, <2>4, PlannerParts DEF Cleared, ClearsSnapshot
    <3>2. Into(Store!Planned(disk, Instance), FALSE)'
      BY <1>2, <1>8, <3>1, Kept DEF Into, Same
    <3> QED
      BY <2>3, <3>2 DEF InSave, Saved
  <2>5. ASSUME Selective  PROVE InSave(e)'
    <3> DEFINE t == Store!Planned(disk, Store!Replaced(disk))
    <3> DEFINE d == Store!Replaced(disk) = {} /\ disk.snap # None
    <3>1. Cleared = Store!Replaced(disk) /\ Cleared = Changed
      BY <1>3, <1>7, <2>5, PlannerIsPlanned DEF Cleared
    <3>2. PlannerRows.snap = IF Changed # {} THEN None ELSE disk.snap
      BY <1>3, <1>7, <2>5, PlannerParts DEF ClearsSnapshot
    <3>3. d <=> PlannerRows.snap # None
      BY <3>1, <3>2
    <3>4. Same(PlannerRows, t)
      BY <1>8, <3>1
    <3>5. d => PlannerRows.snap.bus = t.bus /\ PlannerRows.snap.net = t.net
      <4>1. Described(PlannerRows)
        BY <1>4 DEF Sound
      <4> QED
        BY <3>3, <3>4, <4>1 DEF Described, Same
    <3>6. t' = t /\ d' = d
      BY <1>2, Kept
    <3> HIDE DEF t, d
    <3>7. Into(t, d)'
      BY <1>2, <3>3, <3>4, <3>5, <3>6 DEF Into, Same
    <3>8. Into(Store!Planned(disk, Store!Replaced(disk)),
               Store!Replaced(disk) = {} /\ disk.snap # None)'
      BY <3>7 DEF t, d
    <3> QED
      BY <2>3, <3>8 DEF InSave, Saved
  <2>6. InSave(e)'
    BY <2>4, <2>5
  <2>7. Control'
    BY <2>6 DEF Control
  <2> QED
    BY <1>1, <1>2, <1>4, <1>5, <1>6, <2>7, SaveKeeps
<1> QED
  BY <1>1, <1>9, <1>10

LEMMA PlannedStored ==
  ASSUME Types, NEW s \in Stored, NEW gone
  PROVE  Store!Planned(s, gone) \in Stored
<1> DEFINE k == (s.known \cap Normal) \cup Rows(plan)
<1> DEFINE o == s.pool \cup ((Rows(plan) \cap Normal) \ s.known)
<1> DEFINE p == [b \in Bundle |-> Store!PlanRow(s, b)]
<1> DEFINE u == Without(s.bus, gone)
<1> DEFINE v == Without(s.net, gone)
<1>1. Store!Planned(s, gone)
        = [s EXCEPT !.known = k, !.pool = o, !.plan = p, !.bus = u, !.net = v]
  BY SameNames, Zenon DEF Store!Planned
<1>2. \A b \in Bundle : Store!PlanRow(s, b) \in Row \cup {None}
  BY PlanValues DEF Store!PlanRow, Stored, Plans
<1>3. p \in Plans
  BY <1>2 DEF Plans
<1>4. u \in Plans /\ v \in Plans
  BY PlanRows DEF Stored
<1>5. k \in SUBSET Bundle /\ o \in SUBSET Normal
  BY PlanValues, PlanRows DEF Types, Stored
<1> HIDE DEF k, o, p, u, v
<1>6. [s EXCEPT !.known = k, !.pool = o, !.plan = p, !.bus = u, !.net = v] \in Stored
  BY <1>3, <1>4, <1>5 DEF Stored
<1> QED
  BY <1>1, <1>6

LEMMA BasesStored ==
  ASSUME Types
  PROVE  /\ RouteBase \in Stored /\ Store!WithParents(disk, det) \in Stored
         /\ RouteBase = disk \/ RouteBase = Store!Planned(disk, Instance)
<1>1. disk \in Stored
  BY DEF Types
<1>2. Store!Planned(disk, Instance) \in Stored
  BY <1>1, PlannedStored
<1> QED
  BY <1>1, <1>2 DEF RouteBase, Store!WithParents

(* What a route's save changes of a store, field by field. *)
LEMMA RoutedParts ==
  ASSUME Types, NEW s \in Stored
  PROVE  /\ Store!Routed(s) \in Stored /\ Unrouted(s) \in Stored /\ Store!Detailed(s) \in Stored
         /\ Store!Routed(s).bus = nuts /\ Store!Routed(s).net = NoRows
         /\ Unrouted(s).bus = NoRows /\ Unrouted(s).net = NoRows
         /\ Store!Detailed(s).bus = s.bus /\ Store!Detailed(s).net = det
         /\ \A t \in {Store!Routed(s), Unrouted(s), Store!Detailed(s)} :
              /\ t.known = s.known /\ t.templates = s.templates
              /\ t.pool = s.pool /\ t.plan = s.plan
<1>1. nuts \in Plans /\ det \in Plans /\ NoRows \in Plans
  BY PlanRows DEF Types
<1>2. /\ Store!Routed(s) = [s EXCEPT !.bus = nuts, !.net = NoRows]
      /\ Unrouted(s) = [s EXCEPT !.bus = NoRows, !.net = NoRows]
      /\ Store!Detailed(s) = [s EXCEPT !.net = det]
  BY SameNames, Zenon DEF Store!Routed, Unrouted, Store!Detailed
<1>3. Store!Routed(s) \in Stored /\ Unrouted(s) \in Stored /\ Store!Detailed(s) \in Stored
  BY <1>1, <1>2 DEF Stored
<1>4. /\ Store!Routed(s).bus = nuts /\ Store!Routed(s).net = NoRows
      /\ Unrouted(s).bus = NoRows /\ Unrouted(s).net = NoRows
      /\ Store!Detailed(s).bus = s.bus /\ Store!Detailed(s).net = det
  BY <1>2 DEF Stored
<1>5. \A t \in {Store!Routed(s), Unrouted(s), Store!Detailed(s)} :
              /\ t.known = s.known /\ t.templates = s.templates
              /\ t.pool = s.pool /\ t.plan = s.plan
  <2> DEFINE Else(t) == /\ t.known = s.known /\ t.templates = s.templates
                        /\ t.pool = s.pool /\ t.plan = s.plan
  <2>1. Else(Store!Routed(s))
    BY <1>2 DEF Stored
  <2>2. Else(Unrouted(s))
    BY <1>2 DEF Stored
  <2>3. Else(Store!Detailed(s))
    BY <1>2 DEF Stored
  <2> QED
    BY <2>1, <2>2, <2>3
<1> QED
  BY <1>3, <1>4, <1>5

LEMMA Counted ==
  ASSUME NEW u \in Plans, NEW v \in Plans, NEW n \in 0..Cardinality(Bundle)
  PROVE  /\ Snapshot(u, v, n) \in [bus : Plans, net : Plans, n : 0..Cardinality(Bundle)]
         /\ Snapshot(u, v, n) # None
         /\ Snapshot(u, v, n).bus = u /\ Snapshot(u, v, n).net = v
<1>1. n \in Nat
  BY RowFacts
<1>2. Snapshot(u, v, n) \in [bus : Plans, net : Plans, n : Nat]
  BY <1>1 DEF Snapshot
<1> QED
  BY <1>2, RowFacts DEF Snapshot

LEMMA ClearBusStep == Inv /\ clear_bus_routing => Inv'
<1> SUFFICES ASSUME Inv, clear_bus_routing  PROVE Inv'
  OBVIOUS
<1> DEFINE s == [work EXCEPT !.bus = NoRows, !.net = NoRows, !.snap = None]
<1>1. todo # <<>> /\ Head(todo) = "clear bus" /\ memo' = memo /\ Write(s)
  BY DEF clear_bus_routing, Next1
<1>2. /\ work' = s /\ todo' = Tail(todo) /\ depth' = depth
      /\ UNCHANGED <<session, open>> /\ disk' \in Stored /\ Sound(disk)'
      /\ UNCHANGED <<session, disk>>
  BY <1>1, Writes
<1>3. Types /\ Sound(work) /\ Control /\ MemoIsTrue /\ work \in Stored
  BY DEF Inv, Types
<1>4. Same(work, RouteBase) /\ \E f \in Routes : At(FromClearBus, f)
  BY <1>1, <1>3, Where
<1>5. PICK f \in Routes : At(FromClearBus, f)
  BY <1>4
<1>6. Peeled(FromClearBus, "clear bus", FromBus, f.then)
  BY InnerFrames, Heads, Zenon
<1>7. At(FromBus, f)'
  BY <1>2, <1>5, <1>6, MovesOn
<1>8. /\ work' \in Stored
      /\ work'.bus = NoRows /\ work'.net = NoRows /\ work'.snap = None
      /\ work'.known = work.known /\ work'.templates = work.templates
      /\ work'.pool = work.pool /\ work'.plan = work.plan
  BY <1>2, <1>3, PlanRows DEF Stored
<1>9. Same(work', Unrouted(RouteBase))
  BY <1>3, <1>4, <1>8, BasesStored, RoutedParts DEF Same
<1>10. Same(work, Unrouted(RouteBase))'
  BY <1>2, <1>9, Kept DEF Same
<1>11. InRoute(f)'
  BY <1>7, <1>10 DEF InRoute
<1>12. Control'
  BY <1>11 DEF Control
<1>13. Sound(work)'
  BY <1>3, <1>8, PlanRows DEF Sound, Described, Rows
<1>14. MemoIsTrue'
  BY <1>1, <1>3, <1>8 DEF MemoIsTrue
<1> QED
  BY <1>1, <1>2, <1>8, <1>12, <1>13, <1>14, SaveKeeps

LEMMA PersistNutsStep == Inv /\ persist_nuts => Inv'
<1> SUFFICES ASSUME Inv, persist_nuts  PROVE Inv'
  OBVIOUS
<1> DEFINE n == Snapshot(nuts, NoRows, Cardinality(Rows(nuts)))
<1> DEFINE s == [work EXCEPT !.bus = nuts, !.snap = n]
<1>1. /\ todo # <<>> /\ Head(todo) = "bus" /\ memo' = memo /\ Write(s)
      /\ Rows(nuts) \subseteq work.known
  BY DEF persist_nuts, Next1
<1>2. /\ work' = s /\ todo' = Tail(todo) /\ depth' = depth
      /\ UNCHANGED <<session, open>> /\ disk' \in Stored /\ Sound(disk)'
      /\ UNCHANGED <<session, disk>>
  BY <1>1, Writes
<1>3. Types /\ Sound(work) /\ Control /\ MemoIsTrue /\ work \in Stored /\ nuts \in Plans
  BY DEF Inv, Types
<1>4. Same(work, Unrouted(RouteBase)) /\ \E f \in Routes : At(FromBus, f)
  BY <1>1, <1>3, Where
<1>5. PICK f \in Routes : At(FromBus, f)
  BY <1>4
<1>6. Peeled(FromBus, "bus", End, f.then)
  BY InnerFrames, Heads, Zenon
<1>7. At(End, f)'
  BY <1>2, <1>5, <1>6, MovesOn
<1>8. /\ n \in [bus : Plans, net : Plans, n : 0..Cardinality(Bundle)] /\ n # None
      /\ n.bus = nuts /\ n.net = NoRows
  BY <1>3, PlanRows, Counted
<1> HIDE DEF n
<1>9. /\ work' \in Stored
      /\ work'.bus = nuts /\ work'.net = work.net /\ work'.snap = n
      /\ work'.known = work.known /\ work'.templates = work.templates
      /\ work'.pool = work.pool /\ work'.plan = work.plan
  BY <1>2, <1>3, <1>8 DEF Stored
<1>10. RouteBase \in Stored
  BY <1>3, BasesStored
<1>11. work.net = NoRows /\ Same(work', Store!Routed(RouteBase))
  BY <1>3, <1>4, <1>9, <1>10, RoutedParts DEF Same
<1>12. Store!Routed(RouteBase).bus = nuts /\ Store!Routed(RouteBase).net = NoRows
  BY <1>3, <1>10, RoutedParts
<1>13. Into(Store!Routed(RouteBase), TRUE)'
  BY <1>2, <1>8, <1>9, <1>11, <1>12, Kept DEF Into, Same
<1>14. InRoute(f)'
  BY <1>7, <1>13 DEF InRoute
<1>15. Control'
  BY <1>14 DEF Control
<1>16. Sound(work)'
  BY <1>1, <1>3, <1>8, <1>9, <1>11, PlanRows DEF Sound, Described, Rows
<1>17. MemoIsTrue'
  BY <1>1, <1>3, <1>9 DEF MemoIsTrue
<1> QED
  BY <1>1, <1>2, <1>9, <1>15, <1>16, <1>17, SaveKeeps

LEMMA PersistDetailedStep == Inv /\ persist_detailed_nuts => Inv'
<1> SUFFICES ASSUME Inv, persist_detailed_nuts  PROVE Inv'
  OBVIOUS
<1> DEFINE n == Snapshot(work.bus, det, KeptCount)
<1> DEFINE s == [work EXCEPT !.net = det, !.snap = n]
<1>1. /\ todo # <<>> /\ Head(todo) = "net" /\ memo' = memo /\ Write(s)
  BY DEF persist_detailed_nuts, Next1
<1>2. /\ work' = s /\ todo' = Tail(todo) /\ depth' = depth
      /\ UNCHANGED <<session, open>> /\ disk' \in Stored /\ Sound(disk)'
      /\ UNCHANGED <<session, disk>>
  BY <1>1, Writes
<1>3. /\ Types /\ Sound(work) /\ Control /\ MemoIsTrue /\ work \in Stored
      /\ nuts \in Plans /\ det \in Plans
  BY DEF Inv, Types
<1>4. /\ Rows(det) \subseteq Rows(work.bus)
      /\ \/ Same(work, Store!WithParents(disk, det))
         \/ Same(work, Store!Routed(RouteBase))
      /\ \E e \in Ends : At(FromNet, e)
  BY <1>1, <1>3, Where
<1>5. PICK e \in Ends : At(FromNet, e)
  BY <1>4
<1>6. Peeled(FromNet, "net", End, e.then)
  BY EndFrames, Heads, Zenon
<1>7. At(End, e)'
  BY <1>2, <1>5, <1>6, MovesOn
<1>8. KeptCount \in 0..Cardinality(Bundle)
  BY <1>3, RowFacts DEF KeptCount, Stored
<1>9. work.bus \in Plans
  BY <1>3 DEF Stored
<1>10. /\ n \in [bus : Plans, net : Plans, n : 0..Cardinality(Bundle)] /\ n # None
       /\ n.bus = work.bus /\ n.net = det
  <2>1. det \in Plans
    BY <1>3
  <2>2. \A u, v \in Plans : \A c \in 0..Cardinality(Bundle) :
          /\ Snapshot(u, v, c) \in [bus : Plans, net : Plans, n : 0..Cardinality(Bundle)]
          /\ Snapshot(u, v, c) # None
          /\ Snapshot(u, v, c).bus = u /\ Snapshot(u, v, c).net = v
    BY Counted
  <2>3. PICK u \in Plans : u = work.bus
    BY <1>9
  <2>4. PICK c \in 0..Cardinality(Bundle) : c = KeptCount
    BY <1>8
  <2>5. n = Snapshot(u, det, c)
    BY <2>3, <2>4
  <2>6. /\ Snapshot(u, det, c) \in [bus : Plans, net : Plans, n : 0..Cardinality(Bundle)]
        /\ Snapshot(u, det, c) # None
        /\ Snapshot(u, det, c).bus = u /\ Snapshot(u, det, c).net = det
    BY <2>1, <2>2
  <2> QED
    BY <2>3, <2>5, <2>6
<1> HIDE DEF n
<1>11. /\ work' \in Stored
       /\ work'.bus = work.bus /\ work'.net = det /\ work'.snap = n
       /\ work'.known = work.known /\ work'.templates = work.templates
       /\ work'.pool = work.pool /\ work'.plan = work.plan
  BY <1>2, <1>3, <1>10 DEF Stored
<1>12. ASSUME NEW t \in Stored, Same(work, t)
       PROVE  /\ Same(work', Store!Detailed(t))
              /\ work'.snap.bus = Store!Detailed(t).bus /\ work'.snap.net = Store!Detailed(t).net
  BY <1>3, <1>10, <1>11, <1>12, RoutedParts DEF Same
<1>13. /\ RouteBase \in Stored /\ Store!WithParents(disk, det) \in Stored
       /\ Store!Routed(RouteBase) \in Stored
  BY <1>3, BasesStored, RoutedParts
<1>14. Saved'
  <2>1. CASE Same(work, Store!WithParents(disk, det))
    <3>1. Into(Store!Detailed(Store!WithParents(disk, det)), TRUE)'
      BY <1>2, <1>10, <1>11, <1>12, <1>13, <2>1, Kept DEF Into, Same
    <3> QED
      BY <3>1 DEF Saved
  <2>2. CASE Same(work, Store!Routed(RouteBase))
    <3>1. Into(Store!Detailed(Store!Routed(RouteBase)), TRUE)'
      BY <1>2, <1>10, <1>11, <1>12, <1>13, <2>2, Kept DEF Into, Same
    <3> QED
      BY <3>1 DEF Saved
  <2> QED
    BY <1>4, <2>1, <2>2
<1>15. InSave(e)'
  BY <1>7, <1>14 DEF InSave
<1>16. Control'
  BY <1>15 DEF Control
<1>17. Sound(work)'
  BY <1>3, <1>4, <1>10, <1>11 DEF Sound, Described, Rows
<1>18. MemoIsTrue'
  BY <1>1, <1>3, <1>11 DEF MemoIsTrue
<1> QED
  BY <1>1, <1>2, <1>11, <1>16, <1>17, <1>18, SaveKeeps

-----------------------------------------------------------------------------
(* What goes wrong, and the commands, leave the saves ended or not begun.  *)

LEMMA OutsideSteps ==
  ASSUME work' = disk', depth' = 0,
         \/ todo' = <<>>
         \/ \E r \in Rest : todo' = r \/ todo' = SelectiveSteps \o r
         \/ todo' \in {BundleSteps, PoolSteps, PlanSteps, SelectiveSteps}
  PROVE  Control'
<1>1. CASE todo' = <<>>
  BY <1>1 DEF Control, Outside
<1>2. CASE \E r \in Rest : todo' = r
  <2>1. PICK r \in Rest : todo' = r
    BY <1>2
  <2>2. PICK e \in Ends : e.then = r /\ e.depth = 0
    BY EndFrames
  <2> QED
    BY <2>1, <2>2, Ended DEF Control
<1>3. CASE \E r \in Rest : todo' = SelectiveSteps \o r
  <2>1. PICK r \in Rest : todo' = SelectiveSteps \o r
    BY <1>3
  <2>2. PICK e \in Ends : e.then = r /\ e.depth = 0
    BY EndFrames
  <2>3. Before(SelectiveSteps, e)'
    BY <2>1, <2>2 DEF Before
  <2> QED
    BY <2>3 DEF Control, Outside
<1>4. CASE todo' \in {BundleSteps, PoolSteps, PlanSteps, SelectiveSteps}
  <2>1. PICK e \in Ends : e.then = <<>> /\ e.depth = 0
    BY EndFrames DEF Rest
  <2>2. PICK s \in {BundleSteps, PoolSteps, PlanSteps, SelectiveSteps} : todo' = s
    BY <1>4
  <2>3. s \in Seq(StepName)
    BY Heads, PoolPeeled, Typed
  <2>4. s \o e.then = s
    BY <2>1, <2>3
  <2>5. Before(s, e)'
    BY <2>1, <2>2, <2>4, Zenon DEF Before
  <2>6. (\/ Before(BundleSteps, e) \/ Before(PoolSteps, e) \/ Before(PlanSteps, e)
         \/ Before(SelectiveSteps, e))'
    BY <2>2, <2>5
  <2> QED
    BY <2>6 DEF Control, Outside
<1> QED
  BY <1>1, <1>2, <1>3, <1>4

LEMMA RollbackStep == Inv /\ rollback_batch => Inv'
<1> SUFFICES ASSUME Inv, rollback_batch  PROVE Inv'
  OBVIOUS
<1>1. /\ depth' = 0 /\ work' = disk /\ memo' = None /\ todo' = <<>> /\ disk' = disk
      /\ UNCHANGED <<session, open>>
  BY DEF rollback_batch
<1>2. Control'
  BY <1>1, OutsideSteps
<1>3. Sound(disk)' /\ Sound(work)' /\ disk' \in Stored /\ work' \in Stored
  BY <1>1 DEF Inv, Types, Sound, Described, Rows
<1> QED
  BY <1>1, <1>2, <1>3, SaveKeeps DEF MemoIsTrue

LEMMA BeginFailsStep == Inv /\ BeginFails => Inv'
<1> SUFFICES ASSUME Inv, BeginFails  PROVE Inv'
  OBVIOUS
<1>1. /\ depth = 0 /\ depth' = depth /\ work' = work /\ memo' = memo /\ todo' = <<>>
      /\ disk' = disk /\ UNCHANGED <<session, open>>
  BY DEF BeginFails, store
<1>2. Control'
  BY <1>1, OutsideSteps, Idle DEF Inv
<1>3. Sound(disk)' /\ Sound(work)' /\ disk' \in Stored /\ work' \in Stored
  BY <1>1 DEF Inv, Types, Sound, Described, Rows
<1>4. MemoIsTrue'
  BY <1>1 DEF Inv, MemoIsTrue
<1> QED
  BY <1>1, <1>2, <1>3, <1>4, SaveKeeps

LEMMA CrashStep == Inv /\ Crash => Inv'
<1> SUFFICES ASSUME Inv, Crash  PROVE Inv'
  OBVIOUS
<1>1. /\ stage' = "empty" /\ expanded' = FALSE /\ original' = None /\ planner' = FALSE
      /\ plan' = NoRows /\ nuts' = NoRows /\ det' = NoRows
      /\ memo' = None /\ open' = FALSE
      /\ work' = disk /\ depth' = 0 /\ todo' = <<>> /\ disk' = disk
  BY DEF Crash
<1>2. Control'
  BY <1>1, OutsideSteps
<1>3. Sound(disk)' /\ Sound(work)' /\ disk' \in Stored /\ work' \in Stored
  BY <1>1 DEF Inv, Types, Sound, Described, Rows
<1>4. Types' /\ Refined'
  BY <1>1, <1>3, PlanRows DEF Types, Refined
<1> QED
  BY <1>1, <1>2, <1>3, <1>4 DEF Inv, MemoIsTrue

(* A command finds no batch open, and the memo and the stores stay. *)
LEMMA CommandKeeps ==
  ASSUME Inv, Command, memo' = memo \/ memo' = None,
         stage' \in {"empty", "bundled", "pool"},
         expanded' \in BOOLEAN, planner' \in BOOLEAN, open' \in BOOLEAN,
         original' \in {None} \cup [Normal -> Topo \cup {None}],
         plan' \in Plans, nuts' \in Plans, det' \in Plans,
         Refined',
         \/ todo' = <<>>
         \/ \E r \in Rest : todo' = r \/ todo' = SelectiveSteps \o r
         \/ todo' \in {BundleSteps, PoolSteps, PlanSteps, SelectiveSteps}
  PROVE  Inv'
<1>1. todo = <<>> /\ work' = work /\ disk' = disk /\ depth' = depth
  BY DEF Command, store
<1>2. Outside
  BY <1>1, Idle DEF Inv
<1>3. work' = disk' /\ depth' = 0
  BY <1>1, <1>2 DEF Outside
<1>4. Control'
  BY <1>3, OutsideSteps
<1>5. Sound(disk)' /\ Sound(work)' /\ disk' \in Stored /\ work' \in Stored
  BY <1>1 DEF Inv, Types, Sound, Described, Rows
<1>6. MemoIsTrue'
  BY <1>1 DEF Inv, MemoIsTrue
<1>7. Types'
  BY <1>5 DEF Inv, Types
<1> QED
  BY <1>4, <1>5, <1>6, <1>7 DEF Inv

LEMMA CommandTodo ==
  /\ \A f : PersistNuts(f) \in Rest
  /\ \A f : PersistDetailedNuts(f) \in Rest
  /\ \A f : \E r \in Rest : PersistPlannerOutput(TRUE) \o PersistNuts(f) = SelectiveSteps \o r
  /\ \A f, d : \E r \in Rest : CheckpointRouting(f, d) = SelectiveSteps \o r
  /\ \A f : <<>> \o PersistNuts(f) \in Rest
<1>1. \A f : PersistNuts(f) \in {<<>>, RouteSteps}
  BY SaveSteps
<1>2. \A f : PersistDetailedNuts(f) \in {<<>>, DetSteps}
  BY SaveSteps
<1>3. PersistPlannerOutput(TRUE) = SelectiveSteps
  BY SaveSteps
<1>4. /\ <<>> \in Seq(StepName) /\ RouteSteps \in Seq(StepName) /\ DetSteps \in Seq(StepName)
      /\ SelectiveSteps \in Seq(StepName)
  BY Typed, Heads
<1>5. \A f : PersistNuts(f) \in Rest /\ PersistDetailedNuts(f) \in Rest
  BY <1>1, <1>2, Zenon DEF Rest
<1>6. \A f : PersistNuts(f) \in Seq(StepName) /\ PersistDetailedNuts(f) \in Seq(StepName)
  BY <1>1, <1>2, <1>4, Zenon
<1>7. \A f : <<>> \o PersistNuts(f) = PersistNuts(f)
  BY <1>6
<1>8. ASSUME NEW f, NEW d
      PROVE  \E r \in Rest : CheckpointRouting(f, d) = SelectiveSteps \o r
  <2>1. CheckpointRouting(f, d)
          = SelectiveSteps \o (PersistNuts(f) \o PersistDetailedNuts(d))
    <3>1. \A a, b \in Seq(StepName) : (SelectiveSteps \o a) \o b = SelectiveSteps \o (a \o b)
      BY <1>4, Concat
    <3>2. CheckpointRouting(f, d) = (SelectiveSteps \o PersistNuts(f)) \o PersistDetailedNuts(d)
      BY <1>3 DEF CheckpointRouting
    <3> QED
      BY <1>6, <3>1, <3>2, Zenon
  <2>2. PersistNuts(f) \o PersistDetailedNuts(d) \in Rest
    <3>1. /\ <<>> \o <<>> = <<>> /\ <<>> \o DetSteps = DetSteps
          /\ RouteSteps \o <<>> = RouteSteps
      BY <1>4
    <3>2. PersistNuts(f) = <<>> \/ PersistNuts(f) = RouteSteps
      BY <1>1
    <3>3. PersistDetailedNuts(d) = <<>> \/ PersistDetailedNuts(d) = DetSteps
      BY <1>2
    <3> QED
      BY <3>1, <3>2, <3>3, Zenon DEF Rest
  <2> QED
    BY <2>1, <2>2, Zenon
<1> QED
  BY <1>3, <1>5, <1>7, <1>8, Zenon

LEMMA OpenStep == Inv /\ open_bdb => Inv'
BY CommandKeeps DEF open_bdb, Command, Inv, Types, Refined, session

LEMMA BundlerStep == Inv /\ run_bundler => Inv'
<1> SUFFICES ASSUME Inv, run_bundler  PROVE Inv'
  OBVIOUS
<1>1. /\ Command /\ stage' = "bundled" /\ expanded' = FALSE /\ original' = None
      /\ plan' = NoRows /\ (todo' = <<>> \/ todo' = BundleSteps)
      /\ UNCHANGED <<planner, nuts, det, memo, open>>
  BY SaveSteps DEF run_bundler, Saves
<1>2. Refined'
  BY <1>1 DEF Inv, Refined
<1> QED
  BY <1>1, <1>2, PlanRows, CommandKeeps DEF Inv, Types

LEMMA TopologiesStep == Inv /\ generate_topologies => Inv'
<1> SUFFICES ASSUME Inv, generate_topologies  PROVE Inv'
  OBVIOUS
<1>1. /\ Command /\ stage' = "pool" /\ plan' = NoRows
      /\ (todo' = <<>> \/ todo' = PoolSteps)
      /\ UNCHANGED <<expanded, original, planner, nuts, det, memo, open>>
  BY SaveSteps DEF generate_topologies, Saves
<1>2. Refined'
  BY <1>1 DEF Inv, Refined
<1> QED
  BY <1>1, <1>2, PlanRows, CommandKeeps DEF Inv, Types

LEMMA PlannerRunStep == Inv /\ run_planner => Inv'
<1> SUFFICES ASSUME Inv, run_planner  PROVE Inv'
  OBVIOUS
<1>1. /\ Command /\ stage = "pool" /\ plan' \in Outcome /\ planner' = TRUE
      /\ expanded' = (Instance # {})
      /\ original' = (IF expanded \/ Instance = {} THEN original ELSE Chosen)
      /\ (todo' = <<>> \/ todo' = PlanSteps)
      /\ UNCHANGED <<stage, nuts, det, memo, open>>
  BY SaveSteps DEF run_planner, Saves
<1>2. Refined'
  BY <1>1 DEF Inv, Refined
<1>3. original' \in {None} \cup [Normal -> Topo \cup {None}]
  BY <1>1, ChosenType DEF Inv, Types
<1>4. plan' \in Plans
  BY <1>1, RowFacts
<1> QED
  BY <1>1, <1>2, <1>3, <1>4, CommandKeeps DEF Inv, Types

LEMMA SelectStep ==
  ASSUME Inv, NEW n \in Normal, NEW t \in Topo, select_topology(n, t)
  PROVE  Inv'
<1> DEFINE new == [topo |-> t, layer |-> IF plan[n] = None THEN NoLayer ELSE plan[n].layer]
<1>1. /\ Command /\ stage = "pool"
      /\ plan' = [plan EXCEPT ![n] = new] \/ plan' \in Outcome
      /\ original' = (IF original = None THEN None ELSE [original EXCEPT ![n] = t])
      /\ (todo' = <<>> \/ todo' = PoolSteps)
      /\ UNCHANGED <<stage, expanded, planner, nuts, det, memo, open>>
  BY SaveSteps DEF select_topology, Saves
<1>2. Refined'
  BY <1>1 DEF Inv, Refined
<1>3. plan \in Plans /\ n \in Bundle
  BY DEF Inv, Types, Bundle
<1>4. new \in Row
  BY <1>3, RowFacts DEF Plans, Row
<1> HIDE DEF new
<1>5. plan' \in Plans
  BY <1>1, <1>3, <1>4, RowFacts DEF Plans
<1>6. original' \in {None} \cup [Normal -> Topo \cup {None}]
  BY <1>1 DEF Inv, Types
<1> QED
  BY <1>1, <1>2, <1>5, <1>6, CommandKeeps DEF Inv, Types

LEMMA NutsStep == Inv /\ run_nuts => Inv'
<1> SUFFICES ASSUME Inv, run_nuts  PROVE Inv'
  OBVIOUS
<1>1. /\ Command /\ Rows(plan) # {} /\ (plan' = plan \/ plan' \in Outcome)
      /\ nuts' = plan' /\ det' = NoRows
      /\ Saves((IF plan' = plan THEN <<>> ELSE PersistPlannerOutput(TRUE)) \o PersistNuts(nuts'))
      /\ UNCHANGED <<stage, expanded, original, planner, memo, open>>
  BY DEF run_nuts
<1>2. todo' = <<>> \/ \E r \in Rest : todo' = r \/ todo' = SelectiveSteps \o r
  <2>1. CASE plan' = plan
    BY <1>1, <2>1, CommandTodo DEF Saves
  <2>2. CASE plan' # plan
    BY <1>1, <2>2, CommandTodo DEF Saves
  <2> QED
    BY <2>1, <2>2
<1>3. stage # "empty"
  BY <1>1, PlanRows DEF Inv, Refined
<1>4. Refined'
  BY <1>1, <1>3 DEF Refined
<1>5. plan' \in Plans /\ nuts' \in Plans /\ det' \in Plans
  BY <1>1, RowFacts, PlanRows DEF Inv, Types
<1> QED
  BY <1>1, <1>2, <1>4, <1>5, CommandKeeps DEF Inv, Types

LEMMA DetailedStep == Inv /\ run_detailed_nuts => Inv'
<1> SUFFICES ASSUME Inv, run_detailed_nuts  PROVE Inv'
  OBVIOUS
<1>1. /\ Command /\ nuts # NoRows /\ det' = nuts
      /\ Saves(PersistDetailedNuts(det'))
      /\ UNCHANGED <<stage, expanded, original, planner, plan, nuts, memo, open>>
  BY DEF run_detailed_nuts
<1>2. todo' = <<>> \/ \E r \in Rest : todo' = r \/ todo' = SelectiveSteps \o r
  BY <1>1, CommandTodo DEF Saves
<1>3. Refined'
  BY <1>1 DEF Inv, Refined
<1> QED
  BY <1>1, <1>2, <1>3, CommandKeeps DEF Inv, Types

LEMMA HealStep == Inv /\ heal => Inv'
<1> SUFFICES ASSUME Inv, heal  PROVE Inv'
  OBVIOUS
<1>1. /\ Command /\ nuts # NoRows /\ plan' \in Outcome
      /\ nuts' = plan' /\ det' = (IF det = NoRows THEN NoRows ELSE plan')
      /\ Saves(CheckpointRouting(nuts', det'))
      /\ UNCHANGED <<stage, expanded, original, planner, memo, open>>
  BY DEF heal
<1>2. todo' = <<>> \/ \E r \in Rest : todo' = r \/ todo' = SelectiveSteps \o r
  BY <1>1, CommandTodo DEF Saves
<1>3. Refined'
  BY <1>1 DEF Inv, Refined
<1>4. plan' \in Plans /\ nuts' \in Plans /\ det' \in Plans
  BY <1>1, RowFacts, PlanRows
<1> QED
  BY <1>1, <1>2, <1>3, <1>4, CommandKeeps DEF Inv, Types

LEMMA LoadStep == ASSUME Inv, NEW view \in BOOLEAN, load_pipeline(view)  PROVE Inv'
<1>1. /\ Command /\ stage = "empty" /\ stage' = "pool" /\ expanded' = view
      /\ plan' = Seen(disk.plan, view) /\ nuts' = Seen(disk.bus, view) /\ memo' = None
      /\ UNCHANGED <<original, planner, det, open, todo>>
  BY DEF load_pipeline
<1>2. \A f \in Plans : Seen(f, view) \in Plans
  BY DEF Seen, Plans
<1>3. plan' \in Plans /\ nuts' \in Plans
  BY <1>1, <1>2 DEF Inv, Types, Stored
<1>4. Refined'
  BY <1>1 DEF Inv, Refined
<1>5. todo' = <<>>
  BY <1>1 DEF Command
<1> QED
  BY <1>1, <1>3, <1>4, <1>5, CommandKeeps DEF Inv, Types

-----------------------------------------------------------------------------
LEMMA InitInv == Init => Inv
<1> SUFFICES ASSUME Init  PROVE Inv
  OBVIOUS
<1>1. /\ stage = "empty" /\ expanded = FALSE /\ original = None /\ planner = FALSE
      /\ plan = NoRows /\ nuts = NoRows /\ det = NoRows /\ memo = None /\ open = FALSE
      /\ disk = Blank /\ work = Blank /\ depth = 0 /\ todo = <<>>
  BY DEF Init
<1>2. Types /\ Refined
  BY <1>1, PlanRows, StoredBases DEF Types, Refined
<1>3. Control
  BY <1>1 DEF Control, Outside
<1> QED
  BY <1>1, <1>2, <1>3, StoredBases DEF Inv, MemoIsTrue

LEMMA NextInv == Inv /\ [Next]_vars => Inv'
<1> SUFFICES ASSUME Inv, [Next]_vars  PROVE Inv'
  OBVIOUS
<1>1. CASE Step
  BY <1>1, BeginStep, CommitStep, ClearBundlesStep, PersistBundlesStep,
     PersistTopologiesStep, PersistPlannerStep, EnsureStep, ClearBusStep, PersistNutsStep,
     PersistDetailedStep, Zenon DEF Step
<1>2. CASE rollback_batch \/ BeginFails \/ Crash
  BY <1>2, RollbackStep, BeginFailsStep, CrashStep, Zenon
<1>3. CASE open_bdb \/ run_bundler \/ generate_topologies \/ run_planner
  BY <1>3, OpenStep, BundlerStep, TopologiesStep, PlannerRunStep, Zenon
<1>4. CASE \E n \in Normal, t \in Topo : select_topology(n, t)
  BY <1>4, SelectStep, Zenon
<1>5. CASE run_nuts \/ run_detailed_nuts \/ heal
  BY <1>5, NutsStep, DetailedStep, HealStep, Zenon
<1>6. CASE \E view \in BOOLEAN : load_pipeline(view)
  BY <1>6, LoadStep, Zenon
<1>7. CASE UNCHANGED vars
  <2>1. UNCHANGED <<session, open>> /\ UNCHANGED <<disk, work, depth, todo, memo>>
    BY <1>7 DEF vars, store
  <2>2. Types' /\ Refined' /\ MemoIsTrue' /\ Sound(disk)' /\ Sound(work)'
    BY <2>1 DEF Inv, Types, Refined, MemoIsTrue, Sound, Described, Rows, session
  <2>3. Control'
    <3>1. UNCHANGED <<session, disk>>
      BY <2>1
    <3>2. /\ Saved' <=> Saved
          /\ \A f : InRoute(f)' <=> InRoute(f)
          /\ \A f : InParents(f)' <=> InParents(f)
          /\ \A f : InBundles(f)' <=> InBundles(f)
          /\ Outside' <=> Outside
          /\ \A f : Before(BundleSteps, f)' <=> Before(BundleSteps, f)
          /\ \A f : Before(RouteSteps, f)' <=> Before(RouteSteps, f)
      BY <2>1, <3>1, Kept DEF Saved, Into, Same, InRoute, InParents, InBundles, Outside,
         Before, At, session, Rows
    <3>3. \A f : InSave(f)' <=> InSave(f)
      <4>1. /\ Same(work, Store!WithParents(disk, det))' <=> Same(work, Store!WithParents(disk, det))
            /\ Same(work, Store!Routed(RouteBase))' <=> Same(work, Store!Routed(RouteBase))
        BY <2>1, <3>1, Kept DEF Same
      <4>2. Rows(det)' = Rows(det) /\ Rows(work.bus)' = Rows(work.bus)
        BY <2>1 DEF session, Rows
      <4>3. \A f : /\ At(FromPool, f)' <=> At(FromPool, f)
                   /\ At(FromPlan, f)' <=> At(FromPlan, f)
                   /\ At(FromSelective, f)' <=> At(FromSelective, f)
                   /\ At(FromPlaced, f)' <=> At(FromPlaced, f)
                   /\ At(FromNet, f)' <=> At(FromNet, f)
                   /\ At(End, f)' <=> At(End, f)
        BY <2>1 DEF At
      <4>4. work' = work /\ disk' = disk /\ memo' = memo
        BY <2>1
      <4> QED
        BY <3>2, <4>1, <4>2, <4>3, <4>4 DEF InSave
    <3> QED
      BY <2>1, <3>2, <3>3 DEF Inv, Control
  <2> QED
    BY <2>2, <2>3 DEF Inv
<1> QED
  BY <1>1, <1>2, <1>3, <1>4, <1>5, <1>6, <1>7 DEF Next

LEMMA AlwaysInv == Spec => []Inv
BY InitInv, NextInv, PTL DEF Spec

-----------------------------------------------------------------------------
(* Type correctness: every variable keeps its type, and a command that has *)
(* ended, in whatever way, leaves no batch open and a connection that sees *)
(* the file (rollback_batch and the batches of bdb.cpp).                   *)
THEOREM TypeInvariant == Spec => []TypeOK
<1>1. Inv => TypeOK
  <2> SUFFICES ASSUME Inv  PROVE TypeOK
    OBVIOUS
  <2>1. Types /\ Control
    BY DEF Inv
  <2>2. depth \in Nat /\ (todo = <<>> => Outside) /\ (depth = 0 => work = disk)
    BY <2>1, Idle
  <2>3. todo = <<>> => depth = 0
    BY <2>2 DEF Outside
  <2> QED
    BY <2>1, <2>2, <2>3 DEF TypeOK, Types
<1> QED
  BY <1>1, AlwaysInv, PTL

(* The fingerprint in the file is that of the routed rows in the file,     *)
(* after any selective, full or half failed save (persist.py, bdb.cpp).    *)
THEOREM SnapshotTrue == Spec => []SnapshotDescribesTheRows
<1>1. Inv => SnapshotDescribesTheRows
  BY DEF Inv, Sound, Described, SnapshotDescribesTheRows
<1> QED
  BY <1>1, AlwaysInv, PTL

(* What the session remembers to have stored of the instances is what its  *)
(* connection reads back: _persisted_plan_fp never outlives the rows.      *)
THEOREM MemoTrue == Spec => []MemoIsTrue
<1>1. Inv => MemoIsTrue
  BY DEF Inv
<1> QED
  BY <1>1, AlwaysInv, PTL

(* A detailed wire in the file lies over a placed bundle in the file.      *)
THEOREM DetailedPlaced == Spec => []DetailedOverPlaced
<1>1. Inv => DetailedOverPlaced
  BY DEF Inv, Sound, DetailedOverPlaced
<1> QED
  BY <1>1, AlwaysInv, PTL

-----------------------------------------------------------------------------
(* The saves implement the store that changes by whole saves.              *)

LEMMA SoundParts ==
  ASSUME NEW s \in Stored, NEW t \in Stored, Same(s, t)
  PROVE  [s EXCEPT !.snap = None] = [t EXCEPT !.snap = None]
BY DEF Same, Stored

LEMMA IntoHolds ==
  ASSUME work \in Stored, NEW t \in Stored, NEW d, Into(t, d), disk' = work
  PROVE  Store!Holds(t, d)
<1>1. [disk' EXCEPT !.snap = None] = [t EXCEPT !.snap = None]
  BY SoundParts DEF Into
<1> QED
  BY <1>1 DEF Into, Store!Holds

LEMMA SavedIsSave ==
  ASSUME Inv, Saved, disk' = work, UNCHANGED <<plan, Chosen, nuts, det>>
  PROVE  Store!Save
<1>1. Types /\ work \in Stored /\ disk \in Stored
  BY DEF Inv, Types
<1>2. /\ Store!Planned(disk, Instance) \in Stored
      /\ Store!Planned(disk, Store!Replaced(disk)) \in Stored
  BY <1>1, PlannedStored
<1>3. /\ RouteBase \in Stored /\ Store!Routed(RouteBase) \in Stored
      /\ Store!Detailed(Store!WithParents(disk, det)) \in Stored
      /\ Store!Detailed(Store!Routed(RouteBase)) \in Stored
  BY <1>1, BasesStored, RoutedParts
<1>4. Store!Bundles \in Stored
  BY SameNames, StoredBases
<1>5. CASE Into(Store!Bundles, FALSE)
  BY <1>1, <1>4, <1>5, IntoHolds DEF Store!Save, Store!SaveBundles
<1>6. CASE Into(Store!Topologies, FALSE)
  <2>1. Store!Topologies \in Stored
    <3> DEFINE p == [b \in Bundle |-> IF b \in Normal /\ Chosen[b] # None
                                      THEN [topo |-> Chosen[b], layer |-> NoLayer] ELSE None]
    <3>1. Store!Topologies = [BundleRows EXCEPT !.pool = Normal, !.plan = p]
      BY SameNames DEF Store!Topologies
    <3>2. p \in Plans
      <4>1. \A b \in Normal : Chosen[b] \in Topo \cup {None}
        BY <1>1, ChosenType
      <4> QED
        BY <4>1 DEF Plans, Row
    <3>3. BundleRows \in Stored
      BY StoredBases
    <3> HIDE DEF p
    <3> QED
      BY <3>1, <3>2, <3>3 DEF Stored
  <2> QED
    BY <1>1, <1>6, <2>1, IntoHolds DEF Store!Save, Store!SaveTopologies
<1>7. CASE Into(Store!Planned(disk, Instance), FALSE)
  BY <1>1, <1>2, <1>7, IntoHolds DEF Store!Save, Store!SavePlan
<1>8. CASE Into(Store!Planned(disk, Store!Replaced(disk)),
                Store!Replaced(disk) = {} /\ disk.snap # None)
  BY <1>1, <1>2, <1>8, IntoHolds DEF Store!Save, Store!SavePlan
<1>9. CASE Into(Store!Routed(RouteBase), TRUE)
  BY <1>1, <1>3, <1>9, IntoHolds DEF Store!Save, Store!SaveRoute, RouteBase
<1>10. CASE \/ Into(Store!Detailed(Store!WithParents(disk, det)), TRUE)
            \/ Into(Store!Detailed(Store!Routed(RouteBase)), TRUE)
  BY <1>1, <1>3, <1>10, IntoHolds DEF Store!Save, Store!SaveDetailed, RouteBase
<1> QED
  BY <1>5, <1>6, <1>7, <1>8, <1>9, <1>10 DEF Saved

(* Only the last COMMIT of a save changes the file, and it makes of it     *)
(* what one save of a stage makes.                                         *)
LEMMA CommitIsSave ==
  ASSUME Inv, commit_batch
  PROVE  [Store!Next]_(Store!vars)
<1>1. /\ todo # <<>> /\ Head(todo) = "commit"
      /\ disk' = (IF depth = 1 THEN work ELSE disk) /\ UNCHANGED session
  BY DEF commit_batch, Next1
<1>2. CASE depth # 1
  BY <1>1, <1>2 DEF Store!Next, Store!Work
<1>3. CASE depth = 1
  <2>1. disk' = work /\ UNCHANGED <<plan, Chosen, nuts, det>>
    BY <1>1, <1>3 DEF session, Chosen
  <2>2. \/ \E f \in Ends \cup InnerBundles : At(End, f) /\ work = BundleRows /\ memo = None
        \/ \E e \in Ends : At(End, e) /\ Saved
        \/ \E f \in Routes : At(End, f) /\ Into(Store!Routed(RouteBase), TRUE)
        \/ \E f \in Parent :
             /\ At(End, f) /\ Same(work, Store!Planned(disk, Instance))
             /\ ~(Rows(nuts) \subseteq disk.known)
    <3>1. Control
      BY DEF Inv
    <3> QED
      BY <1>1, <3>1, Where
  <2>3. \A f \in Parent : ~At(End, f)
    BY <1>3, ParentFrames DEF At
  <2>4. work = BundleRows => Into(Store!Bundles, FALSE)
    BY SameNames DEF Into, Same, BundleRows, Blank
  <2>5. Saved
    BY <2>2, <2>3, <2>4 DEF Saved
  <2> QED
    BY <2>1, <2>5, SavedIsSave DEF Store!Next
<1> QED
  BY <1>2, <1>3

(* Whatever fails or dies between two steps of a save, the file changes by *)
(* whole saves only: the spec of the session's saves implements the store. *)
THEOREM WholeSaves == Spec => WritesWholeSaves
<1>1. Init => Store!Init
  BY SameNames DEF Init, Store!Init
<1>2. Inv /\ [Next]_vars => [Store!Next]_(Store!vars)
  <2> SUFFICES ASSUME Inv, [Next]_vars  PROVE [Store!Next]_(Store!vars)
    OBVIOUS
  <2>1. CASE commit_batch
    BY <2>1, CommitIsSave
  <2>2. CASE UNCHANGED disk
    BY <2>2 DEF Store!Next, Store!Work
  <2>3. commit_batch \/ UNCHANGED disk
    BY DEF Next, Step, begin_batch, clear_bundles, persist_bundles, persist_topologies,
       persist_planner_output, ensure_parents, ensure_placed, clear_bus_routing,
       persist_nuts, persist_detailed_nuts, Write, rollback_batch, BeginFails, Crash,
       Command, open_bdb, run_bundler, generate_topologies, run_planner, select_topology,
       run_nuts, run_detailed_nuts, heal, load_pipeline, store, vars
  <2> QED
    BY <2>1, <2>2, <2>3
<1> QED
  BY <1>1, <1>2, AlwaysInv, PTL DEF Spec, WritesWholeSaves, Store!Spec
=============================================================================
