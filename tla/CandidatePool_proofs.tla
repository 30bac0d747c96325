------------------------- MODULE CandidatePool_proofs -------------------------
(***************************************************************************)
(* The indices into a candidate pool, for any shapes, ranks, families and  *)
(* bounds: they stay inside the pool and follow their candidates whichever *)
(* commands append to the pool, re-sort it, replace it or delete from it.  *)
(* The order of a pool is a count of candidates, so that a re-sorted pool  *)
(* is a rearrangement follows from counting, with no induction.            *)
(***************************************************************************)
EXTENDS CandidatePool, FiniteSetTheorems, SequenceTheorems, TLAPS

-----------------------------------------------------------------------------
(* Least and greatest places.                                              *)

LEMMA LeastIs ==
  ASSUME NEW S \in SUBSET Nat, S # {}
  PROVE  Least(S) \in S /\ \A y \in S : Least(S) =< y
<1> DEFINE R == {ss \in Nat \X Nat : ss[1] < ss[2]}
<1>1. IsWellFoundedOn(R, Nat)
  BY NatLessThanWellFounded DEF OpToRel
<1>2. \A x, y \in Nat : <<y, x>> \in R <=> y < x
  OBVIOUS
<1> HIDE DEF R
<1>3. PICK x \in S : \A y \in S : ~ (<<y, x>> \in R)
  BY <1>1, WFMin
<1>4. ASSUME NEW y \in S  PROVE x =< y
  <2>1. x \in Nat /\ y \in Nat /\ ~(y < x)
    BY <1>2, <1>3
  <2> QED
    BY <2>1
<1> QED
  BY <1>4 DEF Least

LEMMA GreatestIs ==
  ASSUME NEW n \in Nat, NEW S \in SUBSET (1 .. n), S # {}
  PROVE  Greatest(S) \in S
<1> DEFINE M == {n - x : x \in S}
<1>0. \A x \in S : x \in Nat /\ n - x \in Nat
  OBVIOUS
<1>1. M \in SUBSET Nat /\ M # {}
  BY <1>0
<1>2. Least(M) \in M /\ \A y \in M : Least(M) =< y
  BY <1>1, LeastIs
<1>3. PICK x \in S : Least(M) = n - x
  BY <1>2
<1>4. \A y \in S : n - x =< n - y
  BY <1>2, <1>3
<1>5. \A y \in S : y =< x
  BY <1>0, <1>4
<1> QED
  BY <1>5 DEF Greatest

-----------------------------------------------------------------------------
(* Pools that are made of the candidates of another one.                   *)

(* A strict order of the places I. *)
Orders(order, I) ==
  /\ \A i \in I : <<i, i>> \notin order
  /\ \A i, j \in I : i # j => <<i, j>> \in order \/ <<j, i>> \in order
  /\ \A i, j, k \in I : <<i, j>> \in order /\ <<j, k>> \in order => <<i, k>> \in order

(* q has every candidate of p at a place of I once, and no other; from     *)
(* says where each of them was.                                            *)
Rearranges(q, p, I, from) ==
  /\ q \in Seq(Topologies)
  /\ from \in [DOMAIN q -> I]
  /\ \A k \in DOMAIN q : q[k] = p[from[k]]
  /\ \A k, l \in DOMAIN q : from[k] = from[l] => k = l
  /\ \A i \in I : \E k \in DOMAIN q : from[k] = i

Standing(I, order, i) == Cardinality({j \in I : <<j, i>> \in order}) + 1

(* A place is determined by how many come before it, and every number of   *)
(* places up to their count comes before one of them.                      *)
LEMMA RankIs ==
  ASSUME NEW I, IsFiniteSet(I), NEW order, Orders(order, I)
  PROVE  /\ Cardinality(I) \in Nat
         /\ \A i \in I : Standing(I, order, i) \in 1 .. Cardinality(I)
         /\ \A i, j \in I : Standing(I, order, i) = Standing(I, order, j) => i = j
         /\ \A k \in 1 .. Cardinality(I) : \E i \in I : Standing(I, order, i) = k
<1> DEFINE n == Cardinality(I)
           before(i) == {j \in I : <<j, i>> \in order}
           rank(i) == Standing(I, order, i)
<1>0. \A i : rank(i) = Cardinality(before(i)) + 1
  BY DEF Standing
<1>1. n \in Nat
  BY FS_CardinalityType
<1>2. \A i \in I : /\ IsFiniteSet(before(i)) /\ Cardinality(before(i)) \in Nat
                   /\ Cardinality(before(i)) =< n /\ Cardinality(before(i)) # n
  <2> TAKE i \in I
  <2>1. before(i) \in SUBSET I /\ i \notin before(i)
    BY DEF Orders
  <2>2. IsFiniteSet(before(i)) /\ Cardinality(before(i)) =< n
        /\ (n = Cardinality(before(i)) => I = before(i))
    BY <2>1, FS_Subset
  <2>3. Cardinality(before(i)) \in Nat
    BY <2>2, FS_CardinalityType
  <2> QED
    BY <2>1, <2>2, <2>3
<1> HIDE DEF rank
<1>3. ASSUME NEW i \in I  PROVE rank(i) \in 1 .. n
  <2>1. /\ rank(i) = Cardinality(before(i)) + 1 /\ Cardinality(before(i)) \in Nat
        /\ Cardinality(before(i)) =< n /\ Cardinality(before(i)) # n
    BY <1>0, <1>2
  <2> HIDE DEF n, before
  <2> QED
    BY <1>1, <2>1
<1>4. ASSUME NEW i \in I, NEW j \in I, <<i, j>> \in order  PROVE rank(i) # rank(j)
  <2>1. before(i) \in SUBSET before(j) /\ i \in before(j) /\ i \notin before(i)
    BY <1>4 DEF Orders
  <2>2. Cardinality(before(j)) = Cardinality(before(i)) => before(j) = before(i)
    BY <1>2, <2>1, FS_Subset
  <2>3. Cardinality(before(j)) # Cardinality(before(i))
    BY <2>1, <2>2
  <2> QED
    BY <1>0, <1>2, <2>3
<1>5. ASSUME NEW i \in I, NEW j \in I, rank(i) = rank(j)  PROVE i = j
  <2>1. <<i, j>> \notin order /\ <<j, i>> \notin order
    BY <1>4, <1>5
  <2> QED
    BY <2>1 DEF Orders
<1> DEFINE g == [i \in I |-> rank(i)]
<1>6. g \in Injection(I, 1 .. n)
  <2> HIDE DEF n
  <2>1. g \in [I -> 1 .. n]
    BY <1>3
  <2>2. \A i, j \in I : g[i] = g[j] => i = j
    BY <1>5
  <2> QED
    BY <2>1, <2>2 DEF Injection, IsInjective
<1>7. IsFiniteSet(1 .. n) /\ Cardinality(1 .. n) = n
  BY <1>1, FS_Interval
<1>8. g \in Surjection(I, 1 .. n)
  <2> HIDE DEF g
  <2> QED
    BY <1>6, <1>7, FS_Injection
<1>9. \A k \in 1 .. n : \E i \in I : rank(i) = k
  BY <1>8 DEF Surjection
<1> QED
  BY <1>1, <1>3, <1>5, <1>9 DEF rank

LEMMA ArrangedRearranges ==
  ASSUME NEW p \in Seq(Topologies), NEW I \in SUBSET DOMAIN p,
         NEW order, Orders(order, I)
  PROVE  \E from : Rearranges(Arranged(p, I, order), p, I, from)
<1> DEFINE n == Cardinality(I)
           rank(i) == Standing(I, order, i)
           from == [k \in 1 .. n |-> CHOOSE i \in I : rank(i) = k]
           q == Arranged(p, I, order)
<1>1. IsFiniteSet(I)
  <2>1. DOMAIN p = 1 .. Len(p) /\ Len(p) \in Nat
    OBVIOUS
  <2>2. IsFiniteSet(DOMAIN p)
    BY <2>1, FS_Interval
  <2> QED
    BY <2>2, FS_Subset
<1>2. /\ n \in Nat
      /\ \A i \in I : rank(i) \in 1 .. n
      /\ \A i, j \in I : rank(i) = rank(j) => i = j
      /\ \A k \in 1 .. n : \E i \in I : rank(i) = k
  BY <1>1, RankIs
<1>3. q = [k \in 1 .. n |-> p[from[k]]]
  BY DEF Arranged, Standing
<1> HIDE DEF n, rank, q
<1>4. \A k \in 1 .. n : from[k] \in I /\ rank(from[k]) = k
  BY <1>2
<1>5. from \in [1 .. n -> I]
  BY <1>4
<1> HIDE DEF from
<1>6. \A k \in 1 .. n : p[from[k]] \in Topologies
  BY <1>5
<1>7. q \in Seq(Topologies) /\ DOMAIN q = 1 .. n
  BY <1>2, <1>3, <1>6
<1>8. \A i \in I : \E k \in 1 .. n : from[k] = i
  BY <1>2, <1>4, <1>5
<1>9. Rearranges(q, p, I, from)
  BY <1>3, <1>4, <1>5, <1>7, <1>8 DEF Rearranges
<1> QED
  BY <1>9 DEF q

(* Some candidates of a pool, as they stand. *)
LEMMA OnlyRearranges ==
  ASSUME NEW p \in Seq(Topologies), NEW I \in SUBSET DOMAIN p
  PROVE  \E from : Rearranges(Only(p, I), p, I, from)
<1> DEFINE order == {e \in I \X I : e[1] < e[2]}
<1>1. \A i \in I : i \in Nat
  OBVIOUS
<1>2. \A i, j \in I : <<i, j>> \in order <=> i < j
  OBVIOUS
<1> HIDE DEF order
<1>3. Orders(order, I)
  BY <1>1, <1>2 DEF Orders
<1>4. \E from : Rearranges(Arranged(p, I, order), p, I, from)
  BY <1>3, ArrangedRearranges
<1> QED
  BY <1>4 DEF Only, order

(* A re-sorted pool. *)
LEMMA SortedRearranges ==
  ASSUME NEW p \in Seq(Topologies)
  PROVE  \E from : Rearranges(Sorted(p), p, DOMAIN p, from)
<1> DEFINE I == DOMAIN p
           order == {e \in I \X I : Before(p, e[1], e[2])}
<1>1. \A i \in I : /\ i \in Nat /\ p[i] \in Topologies /\ p[i].cuts \in Nat
                   /\ Rank[p[i].shape] \in Nat
  <2>1. \A i \in I : i \in Nat /\ p[i] \in Topologies
    OBVIOUS
  <2> QED
    BY <2>1, RankAssumption, BoundsAssumption DEF Topologies
<1>2. \A i, j \in I : <<i, j>> \in order <=> Before(p, i, j)
  OBVIOUS
<1> HIDE DEF order, I
<1>3. \A i \in I : ~Before(p, i, i)
  BY <1>1 DEF Before
<1>4. \A i, j \in I : i # j => Before(p, i, j) \/ Before(p, j, i)
  BY <1>1 DEF Before
<1>5. \A i, j, k \in I : Before(p, i, j) /\ Before(p, j, k) => Before(p, i, k)
  BY <1>1 DEF Before
<1>6. Orders(order, I)
  BY <1>2, <1>3, <1>4, <1>5 DEF Orders
<1>7. I \in SUBSET DOMAIN p
  BY DEF I
<1>8. \E from : Rearranges(Arranged(p, I, order), p, I, from)
  BY <1>6, <1>7, ArrangedRearranges
<1> QED
  BY <1>8 DEF Sorted, order, I

-----------------------------------------------------------------------------
(* What the commands build.                                                *)

LEMMA WholeIsTopology ==
  ASSUME NEW s \in Shapes  PROVE Whole(s) \in Topologies
BY BoundsAssumption DEF Whole, Topologies

(* The generator answers with unsplit candidates of its own. *)
LEMMA FreshIs ==
  ASSUME NEW S \in SUBSET Generated
  PROVE  /\ Fresh(S) \in Seq(Topologies)
         /\ \A k \in DOMAIN Fresh(S) : Fresh(S)[k].cuts = 0 /\ Fresh(S)[k].shape \in Generated
<1> DEFINE W == {Whole(s) : s \in S}
           n == Cardinality(W)
           w == SetToSeq(W)
           whole == [s \in S |-> Whole(s)]
<1>1. IsFiniteSet(S)
  BY ShapesAssumption, FS_Subset
<1>2. whole \in Surjection(S, W)
  <2>1. whole \in [S -> W] /\ \A t \in W : \E s \in S : whole[s] = t
    OBVIOUS
  <2> HIDE DEF whole, W
  <2> QED
    BY <2>1 DEF Surjection
<1>3. \A t \in W : t \in Topologies /\ t.cuts = 0 /\ t.shape \in Generated
  BY WholeIsTopology DEF Whole, Shapes
<1> HIDE DEF W, whole
<1>4. IsFiniteSet(W)
  BY <1>1, <1>2, FS_Surjection
<1>5. n \in Nat /\ \E f \in [1 .. n -> W] : IsInjective(f)
  BY <1>4, FS_CardinalityType DEF ExistsBijection, Bijection, Injection
<1>6. w \in [1 .. n -> W]
  BY <1>5 DEF SetToSeq
<1> HIDE DEF w, n
<1>7. w \in Seq(Topologies) /\ DOMAIN w = 1 .. n
  BY <1>3, <1>5, <1>6
<1>8. PICK from : Rearranges(Sorted(w), w, DOMAIN w, from)
  BY <1>7, SortedRearranges
<1>9. Fresh(S) = Sorted(w)
  BY DEF Fresh, w, W
<1>10. /\ Sorted(w) \in Seq(Topologies)
       /\ \A k \in DOMAIN Sorted(w) : from[k] \in 1 .. n /\ Sorted(w)[k] = w[from[k]]
  BY <1>7, <1>8 DEF Rearranges
<1> QED
  BY <1>3, <1>6, <1>9, <1>10

(* A deletion by value keeps everything else. *)
LEMMA DroppedIs ==
  ASSUME NEW p \in Seq(Topologies), NEW D
  PROVE  /\ Dropped(p, D) \in Seq(Topologies)
         /\ \A k \in DOMAIN Dropped(p, D) :
              Dropped(p, D)[k] \notin D /\ \E i \in DOMAIN p : Dropped(p, D)[k] = p[i]
         /\ \A i \in DOMAIN p : p[i] \notin D => Places(Dropped(p, D), p[i]) # {}
<1> DEFINE I == {i \in DOMAIN p : p[i] \notin D}
           q == Dropped(p, D)
<1>1. PICK from : Rearranges(q, p, I, from)
  BY OnlyRearranges DEF Dropped
<1>2. \A i : i \in I <=> i \in DOMAIN p /\ p[i] \notin D
  OBVIOUS
<1> HIDE DEF I, q
<1>3. \A k \in DOMAIN q : q[k] = p[from[k]] /\ from[k] \in DOMAIN p /\ p[from[k]] \notin D
  BY <1>1, <1>2 DEF Rearranges
<1>4. \A i \in DOMAIN p : p[i] \notin D => Places(q, p[i]) # {}
  BY <1>1, <1>2 DEF Rearranges, Places
<1>5. q \in Seq(Topologies)
  BY <1>1 DEF Rearranges
<1> QED
  BY <1>3, <1>4, <1>5 DEF q

(* The drawings of the user, in a pool that is typed. *)
LEMMA KeptIs ==
  ASSUME pool \in Seq(Topologies)
  PROVE  /\ Kept \in Seq(Topologies)
         /\ \A k \in DOMAIN Kept : User(Kept[k])
         /\ \A i \in DOMAIN pool : User(pool[i]) => Places(Kept, pool[i]) # {}
<1> DEFINE I == {i \in DOMAIN pool : User(pool[i])}
           q == Kept
<1>1. PICK from : Rearranges(q, pool, I, from)
  BY OnlyRearranges DEF Kept
<1>2. \A i : i \in I <=> i \in DOMAIN pool /\ User(pool[i])
  OBVIOUS
<1> HIDE DEF I, q
<1>3. \A k \in DOMAIN q : User(q[k])
  BY <1>1, <1>2 DEF Rearranges
<1>4. \A i \in DOMAIN pool : User(pool[i]) => Places(q, pool[i]) # {}
  BY <1>1, <1>2 DEF Rearranges, Places
<1>5. q \in Seq(Topologies)
  BY <1>1 DEF Rearranges
<1> QED
  BY <1>3, <1>4, <1>5 DEF q

(* Two pools, one behind the other. *)
LEMMA Joint ==
  ASSUME NEW p \in Seq(Topologies), NEW q \in Seq(Topologies)
  PROVE  /\ p \o q \in Seq(Topologies)
         /\ \A i \in DOMAIN p : i \in DOMAIN (p \o q) /\ (p \o q)[i] = p[i]
         /\ \A k \in DOMAIN (p \o q) \ DOMAIN p : \E j \in DOMAIN q : (p \o q)[k] = q[j]
         /\ \A t : Places(q, t) # {} => Places(p \o q, t) # {}
<1> DEFINE r == p \o q
<1>1. /\ r \in Seq(Topologies) /\ Len(p) \in Nat /\ Len(q) \in Nat
      /\ DOMAIN r = 1 .. (Len(p) + Len(q)) /\ DOMAIN p = 1 .. Len(p) /\ DOMAIN q = 1 .. Len(q)
      /\ \A i \in 1 .. Len(p) : r[i] = p[i]
      /\ \A j \in 1 .. Len(q) : r[Len(p) + j] = q[j]
  BY LenProperties, ConcatProperties
<1> HIDE DEF r
<1>2. \A i \in DOMAIN p : i \in DOMAIN r /\ r[i] = p[i]
  BY <1>1
<1>3. ASSUME NEW k \in DOMAIN r \ DOMAIN p  PROVE \E j \in DOMAIN q : r[k] = q[j]
  <2>1. k - Len(p) \in 1 .. Len(q) /\ k = Len(p) + (k - Len(p))
    BY <1>1
  <2> QED
    BY <1>1, <2>1
<1>4. ASSUME NEW t, Places(q, t) # {}  PROVE Places(r, t) # {}
  <2>1. PICK j \in DOMAIN q : q[j] = t
    BY <1>4 DEF Places
  <2>2. Len(p) + j \in DOMAIN r /\ r[Len(p) + j] = t
    BY <1>1, <2>1
  <2> QED
    BY <2>2 DEF Places
<1> QED
  BY <1>1, <1>2, <1>3, <1>4 DEF r

(* A pool without the candidate at i. *)
LEMMA RemoveIs ==
  ASSUME NEW p \in Seq(Topologies), NEW i \in DOMAIN p
  PROVE  /\ RemoveAt(p, i) \in Seq(Topologies)
         /\ \A k \in DOMAIN RemoveAt(p, i) : \E j \in DOMAIN p \ {i} : RemoveAt(p, i)[k] = p[j]
         /\ \A j \in DOMAIN p \ {i} : Places(RemoveAt(p, i), p[j]) # {}
<1> DEFINE n == Len(p)
           a == SubSeq(p, 1, i - 1)
           z == SubSeq(p, i + 1, n)
<1>1. n \in Nat /\ DOMAIN p = 1 .. n /\ i \in 1 .. n
  OBVIOUS
<1>2. /\ a \in Seq(Topologies) /\ DOMAIN a = 1 .. (i - 1)
      /\ \A k \in 1 .. (i - 1) : a[k] = p[k]
  BY <1>1
<1>3. /\ z \in Seq(Topologies) /\ DOMAIN z = 1 .. (n - i)
      /\ \A k \in 1 .. (n - i) : z[k] = p[i + k]
  BY <1>1
<1> HIDE DEF n, a, z
<1>4. /\ a \o z \in Seq(Topologies)
      /\ \A k \in DOMAIN a : k \in DOMAIN (a \o z) /\ (a \o z)[k] = a[k]
      /\ \A k \in DOMAIN (a \o z) \ DOMAIN a : \E j \in DOMAIN z : (a \o z)[k] = z[j]
      /\ \A t : Places(z, t) # {} => Places(a \o z, t) # {}
  BY <1>2, <1>3, Joint
<1>5. RemoveAt(p, i) = a \o z
  BY DEF RemoveAt, a, z, n
<1> DEFINE r == a \o z
<1> HIDE DEF r
<1>6. ASSUME NEW k \in DOMAIN r  PROVE \E j \in DOMAIN p \ {i} : r[k] = p[j]
  <2>1. CASE k \in DOMAIN a
    BY <1>1, <1>2, <1>4, <2>1 DEF r
  <2>2. CASE k \notin DOMAIN a
    <3>1. PICK j \in DOMAIN z : r[k] = z[j]
      BY <1>4, <2>2 DEF r
    <3>2. r[k] = p[i + j] /\ i + j \in DOMAIN p \ {i}
      BY <1>1, <1>3, <3>1
    <3> QED
      BY <3>2
  <2> QED
    BY <2>1, <2>2
<1>7. ASSUME NEW j \in DOMAIN p \ {i}  PROVE Places(r, p[j]) # {}
  <2>1. CASE j < i
    <3>1. j \in DOMAIN a /\ a[j] = p[j]
      BY <1>1, <1>2, <2>1
    <3> QED
      BY <1>4, <3>1 DEF Places, r
  <2>2. CASE j > i
    <3>0. j - i \in DOMAIN z /\ i + (j - i) = j
      BY <1>1, <1>3, <2>2
    <3>1. j - i \in DOMAIN z /\ z[j - i] = p[j]
      BY <1>3, <3>0
    <3>2. Places(z, p[j]) # {}
      BY <3>1 DEF Places
    <3> QED
      BY <1>4, <3>2 DEF r
  <2> QED
    BY <1>1, <2>1, <2>2
<1> QED
  BY <1>4, <1>5, <1>6, <1>7 DEF r

(* A re-sort moves every index with its candidate. *)
LEMMA MovedFollows ==
  ASSUME NEW p \in Seq(Topologies), NEW q, NEW from,
         Rearranges(q, p, DOMAIN p, from), NEW i
  PROVE  /\ i \in DOMAIN p => Moved(p, q, i) \in DOMAIN q /\ q[Moved(p, q, i)] = p[i]
         /\ i \notin DOMAIN p => Moved(p, q, i) = i
<1>1. CASE i \in DOMAIN p
  <2>1. Places(q, p[i]) # {}
    BY <1>1 DEF Rearranges, Places
  <2>2. Len(q) \in Nat /\ DOMAIN q = 1 .. Len(q)
    BY DEF Rearranges
  <2>3. Places(q, p[i]) \in SUBSET (1 .. Len(q))
    BY <2>2 DEF Places
  <2>4. Greatest(Places(q, p[i])) \in Places(q, p[i])
    BY <2>1, <2>2, <2>3, GreatestIs
  <2> QED
    BY <1>1, <2>4 DEF Moved, Places
<1>2. CASE i \notin DOMAIN p
  BY <1>2 DEF Moved
<1> QED
  BY <1>1, <1>2

-----------------------------------------------------------------------------
(* The indices point where they should, after every command.               *)

Loose(t) == t.cuts > 0 /\ ~User(t)

Sound == TypeOK /\ SplitsAreNamed /\ OverridesDieWithTheSplit

LEMMA PoolFacts ==
  ASSUME TypeOK
  PROVE  /\ Len(pool) \in Nat /\ DOMAIN pool = 1 .. Len(pool)
         /\ \A i \in DOMAIN pool : /\ i \in Nat \ {0}
                                   /\ pool[i] \in Topologies /\ pool[i].cuts \in 0 .. MaxCuts
                                   /\ pool[i].shape \in Shapes
<1>1. pool \in Seq(Topologies)
  BY DEF TypeOK
<1>2. /\ Len(pool) \in Nat /\ DOMAIN pool = 1 .. Len(pool)
      /\ \A i \in DOMAIN pool : i \in Nat \ {0} /\ pool[i] \in Topologies
  BY <1>1
<1>3. \A t \in Topologies : t.cuts \in 0 .. MaxCuts /\ t.shape \in Shapes
  BY DEF Topologies
<1> QED
  BY <1>2, <1>3

LEMMA SweepIs ==
  \A p, s, single, members : Sweep(p, s, single, members) \subseteq DOMAIN p
BY DEF Sweep

(* A command that leaves the pool and its bookkeeping alone. *)
LEMMA SamePool ==
  ASSUME Sound, UNCHANGED <<pool, slot, orig>>, sel' \in {0} \cup DOMAIN pool,
         pinned' \in BOOLEAN, group' \subseteq Nat \ {0}, planner' \in BOOLEAN,
         over' = over \/ over' = None
  PROVE  Sound'
BY DEF Sound, TypeOK, SplitsAreNamed, OverridesDieWithTheSplit

LEMMA SelectSound ==
  ASSUME Sound,
         \/ \E i \in DOMAIN pool : SelectTopology(i) \/ SelectGroup(i)
         \/ SelectElsewhere \/ Unpin
  PROVE  Sound'
<1>0. TypeOK /\ \A i \in DOMAIN pool : i \in Nat \ {0}
  BY PoolFacts DEF Sound
<1>1. ASSUME NEW i \in DOMAIN pool, SelectTopology(i)  PROVE Sound'
  <2>1. sel' \in {0} \cup DOMAIN pool
    BY <1>1, SweepIs DEF SelectTopology, Replanned
  <2>2. /\ UNCHANGED <<pool, slot, orig>> /\ (over' = over \/ over' = None)
        /\ pinned' \in BOOLEAN /\ group' \subseteq Nat \ {0} /\ planner' \in BOOLEAN
    BY <1>0, <1>1 DEF SelectTopology, TypeOK
  <2> QED
    BY <2>1, <2>2, SamePool
<1>2. ASSUME NEW i \in DOMAIN pool, SelectGroup(i)  PROVE Sound'
  <2>1. Members(i) \in SUBSET DOMAIN pool /\ Members(i) # {}
    BY DEF Members
  <2>2. Members(i) \in SUBSET Nat /\ Members(i) \subseteq Nat \ {0}
    BY <1>0, <2>1
  <2>3. Least(Members(i)) \in DOMAIN pool
    BY <2>1, <2>2, LeastIs
  <2>4. sel' \in {0} \cup DOMAIN pool
    BY <1>2, <2>3, SweepIs DEF SelectGroup, Replanned
  <2>5. /\ UNCHANGED <<pool, slot, orig>> /\ (over' = over \/ over' = None)
        /\ pinned' \in BOOLEAN /\ group' \subseteq Nat \ {0} /\ planner' \in BOOLEAN
    BY <1>0, <1>2, <2>2 DEF SelectGroup, TypeOK
  <2> QED
    BY <2>4, <2>5, SamePool
<1>3. CASE SelectElsewhere
  <2>1. sel' \in {0} \cup DOMAIN pool
    BY <1>0, <1>3, SweepIs DEF SelectElsewhere, Replanned, TypeOK
  <2>2. /\ UNCHANGED <<pool, slot, orig>> /\ over' = over
        /\ pinned' \in BOOLEAN /\ group' \subseteq Nat \ {0} /\ planner' \in BOOLEAN
    BY <1>0, <1>3 DEF SelectElsewhere, TypeOK
  <2> QED
    BY <2>1, <2>2, SamePool
<1>4. CASE Unpin
  BY <1>0, <1>4, SamePool DEF Unpin, TypeOK
<1> QED
  BY <1>1, <1>2, <1>3, <1>4

(* generate_topologies. *)
LEMMA GenerateSound ==
  ASSUME Sound, NEW S \in SUBSET Generated, NEW D \in SUBSET {Whole(s) : s \in S},
         Generate(S, D)
  PROVE  Sound'
<1> DEFINE all == Fresh(S) \o Kept
           new == Dropped(all, D)
           held == IF pinned /\ sel \in DOMAIN pool THEN Places(all, pool[sel]) ELSE {}
<1>1. Fresh(S) \in Seq(Topologies) /\ Kept \in Seq(Topologies)
  BY FreshIs, KeptIs DEF Sound, TypeOK
<1>2. all \in Seq(Topologies)
  BY <1>1, Joint
<1>3. \A k \in DOMAIN all : ~Loose(all[k])
  <2> TAKE k \in DOMAIN all
  <2>1. CASE k \in DOMAIN Fresh(S)
    <3>1. all[k] = Fresh(S)[k] /\ Fresh(S)[k].cuts = 0
      BY <1>1, <2>1, Joint, FreshIs
    <3> QED
      BY <3>1 DEF Loose
  <2>2. CASE k \notin DOMAIN Fresh(S)
    <3>1. PICK j \in DOMAIN Kept : all[k] = Kept[j]
      BY <1>1, <2>2, Joint
    <3> QED
      BY <3>1, KeptIs DEF Loose, Sound, TypeOK
  <2> QED
    BY <2>1, <2>2
<1> HIDE DEF all
<1>4. /\ new \in Seq(Topologies)
      /\ \A k \in DOMAIN new : \E i \in DOMAIN all : new[k] = all[i]
      /\ \A i \in DOMAIN all : all[i] \notin D => Places(new, all[i]) # {}
  BY <1>2, DroppedIs
<1> HIDE DEF new
<1>5. /\ pool' = new /\ pinned' = (held # {}) /\ slot' = 0 /\ orig' = 0 /\ over' = None
      /\ sel' = IF held = {} THEN 0 ELSE Least(Places(new, pool[sel]))
      /\ group' = group /\ planner' = planner
      /\ \A i \in held : all[i] \notin D
  BY DEF Generate, all, new
<1>6. sel' \in {0} \cup DOMAIN new
  <2>1. CASE held = {}
    BY <1>5, <2>1
  <2>2. CASE held # {}
    <3>1. PICK i \in DOMAIN all : i \in held /\ all[i] = pool[sel]
      BY <2>2 DEF Places
    <3>2. Places(new, pool[sel]) # {}
      BY <1>4, <1>5, <3>1
    <3>3. Places(new, pool[sel]) \in SUBSET Nat
      BY <1>4 DEF Places
    <3>4. Least(Places(new, pool[sel])) \in DOMAIN new
      BY <3>2, <3>3, LeastIs DEF Places
    <3> QED
      BY <1>5, <2>2, <3>4
  <2> QED
    BY <2>1, <2>2
<1>7. TypeOK'
  <2> HIDE DEF held
  <2> QED
    BY <1>4, <1>5, <1>6 DEF Sound, TypeOK
<1>8. SplitsAreNamed'
  BY <1>3, <1>4, <1>5 DEF SplitsAreNamed, Loose, User
<1> QED
  BY <1>5, <1>7, <1>8 DEF Sound, OverridesDieWithTheSplit

(* What generate_more_topologies merges in is unsplit. *)
LEMMA MergeIs ==
  ASSUME pool \in Seq(Topologies), NEW S \in SUBSET Generated
  PROVE  /\ Merge(S) \in Seq(Topologies)
         /\ \A i \in DOMAIN pool : i \in DOMAIN Merge(S) /\ Merge(S)[i] = pool[i]
         /\ \A k \in DOMAIN Merge(S) \ DOMAIN pool : Merge(S)[k].cuts = 0
<1> DEFINE D == {pool[i] : i \in DOMAIN pool}
           more == Dropped(Fresh(S), D)
<1>1. /\ Fresh(S) \in Seq(Topologies)
      /\ \A k \in DOMAIN Fresh(S) : Fresh(S)[k].cuts = 0
  BY FreshIs
<1> HIDE DEF D
<1>2. more \in Seq(Topologies) /\ \A k \in DOMAIN more : more[k].cuts = 0
  BY <1>1, DroppedIs
<1> HIDE DEF more
<1>3. Merge(S) = pool \o more
  BY DEF Merge, more, D
<1>4. /\ pool \o more \in Seq(Topologies)
      /\ \A i \in DOMAIN pool : i \in DOMAIN (pool \o more) /\ (pool \o more)[i] = pool[i]
      /\ \A k \in DOMAIN (pool \o more) \ DOMAIN pool :
           \E j \in DOMAIN more : (pool \o more)[k] = more[j]
  BY <1>2, Joint
<1> QED
  BY <1>2, <1>3, <1>4

LEMMA AccreteSound ==
  ASSUME Sound, NEW S \in SUBSET Generated, GenerateMore(S)
  PROVE  Sound'
<1> DEFINE p == Merge(S)
           new == Sorted(p)
<1>1. /\ p \in Seq(Topologies)
      /\ \A i \in DOMAIN pool : i \in DOMAIN p /\ p[i] = pool[i]
      /\ \A k \in DOMAIN p \ DOMAIN pool : p[k].cuts = 0
  BY MergeIs DEF Sound, TypeOK
<1>2. PICK from : Rearranges(new, p, DOMAIN p, from)
  BY <1>1, SortedRearranges
<1>3. /\ pool' = new /\ sel' = Moved(p, new, sel) /\ slot' = Moved(p, new, slot)
      /\ orig' = Moved(p, new, orig)
      /\ group' = {Moved(p, new, i) : i \in group \cap DOMAIN p}
      /\ UNCHANGED <<pinned, over, planner>>
  BY DEF GenerateMore, Resort
<1> HIDE DEF p, new
<1>4. \A i \in DOMAIN p : Moved(p, new, i) \in DOMAIN new /\ new[Moved(p, new, i)] = p[i]
  BY <1>1, <1>2, MovedFollows
<1>5. 0 \notin DOMAIN p /\ Moved(p, new, 0) = 0
  BY <1>1, <1>2, MovedFollows
<1>6. new \in Seq(Topologies)
  BY <1>2 DEF Rearranges
<1>7. \A i \in DOMAIN new : i \in Nat \ {0}
  BY <1>6
<1>8. TypeOK'
  <2>1. /\ sel' \in {0} \cup DOMAIN new /\ slot' \in {0} \cup DOMAIN new
        /\ orig' \in {0} \cup DOMAIN new
    BY <1>1, <1>3, <1>4, <1>5 DEF Sound, TypeOK
  <2>2. group' \subseteq Nat \ {0}
    BY <1>3, <1>4, <1>7
  <2> QED
    BY <1>3, <1>6, <2>1, <2>2 DEF Sound, TypeOK
<1>9. /\ (slot' = 0) = (slot = 0) /\ (orig' = 0) = (orig = 0)
      /\ slot # 0 => new[slot'] = pool[slot]
  BY <1>1, <1>3, <1>4, <1>5, <1>7 DEF Sound, TypeOK
<1>10. ASSUME NEW k \in DOMAIN new, Loose(new[k])  PROVE k = slot'
  <2>1. from[k] \in DOMAIN p /\ new[k] = p[from[k]]
    BY <1>2 DEF Rearranges
  <2>2. from[k] \in DOMAIN pool /\ pool[from[k]] = p[from[k]]
    BY <1>1, <1>10, <2>1 DEF Loose
  <2>3. from[k] = slot
    BY <1>10, <2>1, <2>2 DEF Sound, SplitsAreNamed, Loose
  <2>4. slot' \in DOMAIN new /\ new[slot'] = p[slot] /\ Loose(new[slot'])
    BY <1>3, <1>4, <1>10, <2>1, <2>3
  <2>5. from[slot'] \in DOMAIN p /\ new[slot'] = p[from[slot']]
    BY <1>2, <2>4 DEF Rearranges
  <2>6. from[slot'] \in DOMAIN pool /\ pool[from[slot']] = p[from[slot']]
    BY <1>1, <2>4, <2>5 DEF Loose
  <2>7. from[slot'] = slot
    BY <2>4, <2>5, <2>6 DEF Sound, SplitsAreNamed, Loose
  <2> QED
    BY <1>2, <2>3, <2>4, <2>7 DEF Rearranges
<1>11. SplitsAreNamed'
  BY <1>3, <1>9, <1>10 DEF Sound, SplitsAreNamed, Loose, User
<1>12. OverridesDieWithTheSplit'
  BY <1>3, <1>9 DEF Sound, OverridesDieWithTheSplit, User
<1> QED
  BY <1>8, <1>11, <1>12 DEF Sound

LEMMA CommitSound ==
  ASSUME Sound, EditCommit
  PROVE  Sound'
<1>1. PICK t \in {Whole(s) : s \in Hand} \cup {pool[i] : i \in DOMAIN pool},
           pin \in BOOLEAN, windows \in BOOLEAN : Commit(t, pin, windows)
  BY DEF EditCommit
<1>2. t \in Topologies /\ (Places(pool, t) = {} => ~Loose(t))
  <2>1. CASE t \in {Whole(s) : s \in Hand}
    BY <2>1, WholeIsTopology DEF Whole, Loose, Shapes
  <2>2. CASE t \in {pool[i] : i \in DOMAIN pool}
    BY <2>2, PoolFacts DEF Places, Sound
  <2> QED
    BY <2>1, <2>2
<1> DEFINE found == Places(pool, t)
           idx == IF found = {} THEN Len(pool) + 1 ELSE Least(found)
<1>3. /\ pool' = IF found = {} THEN Append(pool, t) ELSE pool
      /\ sel' = IF pin THEN idx ELSE sel
      /\ pinned' = (pinned \/ pin)
      /\ over' = over \/ (over' = t)
      /\ UNCHANGED <<group, slot, orig, planner>>
  BY <1>1 DEF Commit
<1>4. /\ pool' \in Seq(Topologies)
      /\ \A i \in DOMAIN pool : i \in DOMAIN pool' /\ pool'[i] = pool[i]
      /\ \A k \in DOMAIN pool' \ DOMAIN pool : pool'[k] = t /\ ~Loose(t)
      /\ idx \in DOMAIN pool'
  <2>1. CASE found = {}
    <3>1. pool' = Append(pool, t) /\ ~Loose(t) /\ idx = Len(pool) + 1
      BY <1>2, <1>3, <2>1
    <3>2. /\ pool \in Seq(Topologies) /\ Len(pool) \in Nat /\ DOMAIN pool = 1 .. Len(pool)
      BY PoolFacts DEF Sound, TypeOK
    <3>3. /\ pool' \in Seq(Topologies) /\ DOMAIN pool' = 1 .. (Len(pool) + 1)
          /\ \A i \in 1 .. Len(pool) : pool'[i] = pool[i]
          /\ pool'[Len(pool) + 1] = t
      BY <1>2, <3>1, <3>2
    <3> QED
      BY <3>1, <3>2, <3>3
  <2>2. CASE found # {}
    <3>1. found \in SUBSET Nat
      BY PoolFacts DEF Places, Sound
    <3>2. Least(found) \in DOMAIN pool
      BY <2>2, <3>1, LeastIs DEF Places
    <3> QED
      BY <1>3, <2>2, <3>2 DEF Sound, TypeOK
  <2> QED
    BY <2>1, <2>2
<1> HIDE DEF idx, found
<1>5. TypeOK'
  <2>1. pinned' \in BOOLEAN
    BY <1>3 DEF Sound, TypeOK
  <2>2. sel' \in {0} \cup DOMAIN pool'
    BY <1>3, <1>4 DEF Sound, TypeOK
  <2> QED
    BY <1>2, <1>3, <1>4, <2>1, <2>2 DEF Sound, TypeOK
<1>6. SplitsAreNamed'
  BY <1>3, <1>4 DEF Sound, SplitsAreNamed, TypeOK, Loose, User
<1>7. Loose(t) => slot # 0 /\ pool[slot] = t
  BY <1>2 DEF Places, Sound, SplitsAreNamed, TypeOK, Loose
<1>8. OverridesDieWithTheSplit'
  BY <1>3, <1>4, <1>7 DEF Sound, OverridesDieWithTheSplit, TypeOK, Loose, User
<1> QED
  BY <1>5, <1>6, <1>8 DEF Sound

LEMMA RunPlannerSound ==
  ASSUME Sound, RunPlanner
  PROVE  Sound'
<1>1. /\ pool' = WithoutSplit /\ slot' = 0 /\ orig' = 0
      /\ over' = IF slot = 0 THEN over ELSE None
      /\ planner' = TRUE /\ UNCHANGED <<pinned, group>>
      /\ sel' \in {0} \cup DOMAIN WithoutSplit
  BY SweepIs DEF RunPlanner
<1>2. /\ WithoutSplit \in Seq(Topologies)
      /\ \A k \in DOMAIN WithoutSplit : ~Loose(WithoutSplit[k])
  <2>1. CASE slot \in DOMAIN pool
    <3>1. /\ WithoutSplit \in Seq(Topologies)
          /\ \A k \in DOMAIN WithoutSplit :
               \E j \in DOMAIN pool \ {slot} : WithoutSplit[k] = pool[j]
      BY <2>1, RemoveIs DEF WithoutSplit, Sound, TypeOK
    <3> QED
      BY <3>1 DEF Sound, SplitsAreNamed, Loose
  <2>2. CASE slot \notin DOMAIN pool
    BY <2>2 DEF WithoutSplit, Sound, TypeOK, SplitsAreNamed, Loose
  <2> QED
    BY <2>1, <2>2
<1>3. TypeOK'
  BY <1>1, <1>2 DEF Sound, TypeOK
<1>4. SplitsAreNamed'
  BY <1>1, <1>2 DEF SplitsAreNamed, Loose, User
<1>5. OverridesDieWithTheSplit'
  BY <1>1 DEF Sound, OverridesDieWithTheSplit, User
<1> QED
  BY <1>3, <1>4, <1>5 DEF Sound

(* run_nuts writes the split where the bookkeeping says. *)
LEMMA RunNutsWrites ==
  ASSUME Sound, RunNuts
  PROVE  /\ pool' \in Seq(Topologies) /\ DOMAIN pool \subseteq DOMAIN pool'
         /\ slot' \in DOMAIN pool' /\ slot' # 0 /\ orig' \in DOMAIN pool /\ orig' # 0
         /\ \A i \in DOMAIN pool' \ {slot'} : i \in DOMAIN pool /\ pool'[i] = pool[i]
         /\ slot \in DOMAIN pool => slot' = slot
         /\ slot \notin DOMAIN pool => slot' \notin DOMAIN pool
         /\ pool'[slot'] = Split(pool[sel]) /\ Split(pool[sel]) \in Topologies
         /\ Split(pool[sel]).cuts > 0
         /\ sel' = slot' /\ over' = Split(pool[sel])
         /\ UNCHANGED <<pinned, group, planner>>
<1> DEFINE t == Split(pool[sel])
           n == Len(pool)
<1>0. /\ TypeOK /\ n \in Nat /\ DOMAIN pool = 1 .. n /\ pool \in Seq(Topologies)
      /\ sel \in DOMAIN pool /\ pool[sel] \in Topologies
      /\ pool[sel].cuts \in Nat /\ pool[sel].cuts < MaxCuts
      /\ sel' = slot' /\ over' = t /\ UNCHANGED <<pinned, group, planner>>
  BY PoolFacts DEF RunNuts, Sound, TypeOK
<1>1. t \in Topologies /\ t.cuts > 0
  BY <1>0, BoundsAssumption DEF Split, Topologies
<1> HIDE DEF t, n
<1>2. CASE slot \in DOMAIN pool
  <2>1. pool' = [pool EXCEPT ![slot] = t] /\ slot' = slot /\ orig' = orig
    BY <1>2 DEF RunNuts, t
  <2>2. orig \in DOMAIN pool /\ orig # 0 /\ slot # 0
    BY <1>0, <1>2 DEF Sound, TypeOK, SplitsAreNamed
  <2>3. pool' \in Seq(Topologies) /\ DOMAIN pool' = DOMAIN pool
    BY <1>0, <1>1, <1>2, <2>1, ExceptSeq DEF n
  <2>4. pool'[slot] = t /\ \A i \in DOMAIN pool' \ {slot} : pool'[i] = pool[i]
    BY <1>2, <2>1
  <2> QED
    BY <1>0, <1>1, <1>2, <2>1, <2>2, <2>3, <2>4 DEF t
<1>3. CASE slot \notin DOMAIN pool
  <2>1. pool' = Append(pool, t) /\ slot' = Len(pool') /\ orig' = sel
    BY <1>3 DEF RunNuts, t
  <2>2. /\ pool' \in Seq(Topologies) /\ DOMAIN pool' = 1 .. (n + 1) /\ Len(pool') = n + 1
        /\ \A i \in 1 .. n : pool'[i] = pool[i]
        /\ pool'[n + 1] = t
    BY <1>0, <1>1, <2>1 DEF n
  <2>3. slot' = n + 1 /\ n + 1 \in DOMAIN pool' /\ n + 1 # 0 /\ n + 1 \notin DOMAIN pool
    BY <1>0, <2>1, <2>2
  <2>4. \A i \in DOMAIN pool' \ {n + 1} : i \in DOMAIN pool
    BY <1>0, <2>2
  <2>5. sel # 0 /\ DOMAIN pool \subseteq DOMAIN pool'
    BY <1>0, <2>2
  <2> QED
    BY <1>0, <1>1, <1>3, <2>1, <2>2, <2>3, <2>4, <2>5 DEF t
<1> QED
  BY <1>2, <1>3

LEMMA RunNutsSound ==
  ASSUME Sound, RunNuts
  PROVE  Sound'
<1>1. TypeOK'
  BY RunNutsWrites DEF Sound, TypeOK
<1>2. SplitsAreNamed'
  <2>1. ASSUME NEW i \in DOMAIN pool', pool'[i].cuts > 0, ~User(pool'[i])
        PROVE  i = slot'
    <3>1. CASE i # slot'
      <4>1. i \in DOMAIN pool /\ pool'[i] = pool[i]
        BY <3>1, RunNutsWrites
      <4>2. i = slot
        BY <2>1, <4>1 DEF Sound, SplitsAreNamed
      <4> QED
        BY <3>1, <4>1, <4>2, RunNutsWrites
    <3> QED
      BY <3>1
  <2> QED
    BY <2>1, RunNutsWrites DEF SplitsAreNamed, User
<1>3. OverridesDieWithTheSplit'
  BY RunNutsWrites DEF OverridesDieWithTheSplit
<1> QED
  BY <1>1, <1>2, <1>3 DEF Sound

LEMMA InitSound == Init => Sound
<1> SUFFICES ASSUME Init PROVE Sound
  OBVIOUS
<1>1. pool = <<>> /\ DOMAIN pool = {} /\ pool \in Seq(Topologies)
  BY DEF Init
<1>2. TypeOK
  BY <1>1 DEF Init, TypeOK
<1>3. SplitsAreNamed
  BY <1>1 DEF Init, SplitsAreNamed
<1>4. OverridesDieWithTheSplit
  BY DEF Init, OverridesDieWithTheSplit
<1> QED
  BY <1>2, <1>3, <1>4 DEF Sound

LEMMA NextSound == Sound /\ [Next]_vars => Sound'
<1> SUFFICES ASSUME Sound, [Next]_vars  PROVE Sound'
  OBVIOUS
<1>1. CASE Regenerate
  BY <1>1, GenerateSound DEF Regenerate
<1>2. CASE Accrete
  BY <1>2, AccreteSound DEF Accrete
<1>3. CASE \/ \E i \in DOMAIN pool : SelectTopology(i) \/ SelectGroup(i)
           \/ SelectElsewhere \/ Unpin
  BY <1>3, SelectSound
<1>4. CASE EditCommit
  BY <1>4, CommitSound
<1>5. CASE RunPlanner
  BY <1>5, RunPlannerSound
<1>6. CASE RunNuts
  BY <1>6, RunNutsSound
<1>7. CASE UNCHANGED vars
  BY <1>7 DEF vars, Sound, TypeOK, SplitsAreNamed, OverridesDieWithTheSplit, User
<1> QED
  BY <1>1, <1>2, <1>3, <1>4, <1>5, <1>6, <1>7 DEF Next

LEMMA SoundHolds == Spec => []Sound
BY InitSound, NextSound, PTL DEF Spec

(* The indices the session follows without a bounds check stay inside the  *)
(* pool, through every sequence of commands.                               *)
THEOREM IndicesInThePool == Spec => []TypeOK
<1>1. Sound => TypeOK
  BY DEF Sound
<1> QED
  BY <1>1, SoundHolds, PTL

(* A split of a generated candidate is in the pool only while the dogleg   *)
(* bookkeeping names it, and nothing but a split is named.                 *)
THEOREM SplitsAlwaysNamed == Spec => []SplitsAreNamed
<1>1. Sound => SplitsAreNamed
  BY DEF Sound
<1> QED
  BY <1>1, SoundHolds, PTL

(* The overrides of a split go when the split goes, or is written over.    *)
THEOREM OverridesAlwaysDie == Spec => []OverridesDieWithTheSplit
<1>1. Sound => OverridesDieWithTheSplit
  BY DEF Sound
<1> QED
  BY <1>1, SoundHolds, PTL

-----------------------------------------------------------------------------
(* What a command may never do to the candidates.                          *)

(* A regeneration keeps the drawings, whatever its cleanups drop. *)
LEMMA GenerateKeeps ==
  ASSUME Sound, NEW S \in SUBSET Generated, NEW D \in SUBSET {Whole(s) : s \in S},
         Generate(S, D), NEW i \in DOMAIN pool, User(pool[i])
  PROVE  Places(pool', pool[i]) # {}
<1> DEFINE all == Fresh(S) \o Kept
<1>1. Fresh(S) \in Seq(Topologies) /\ Kept \in Seq(Topologies)
      /\ Places(Kept, pool[i]) # {}
  BY FreshIs, KeptIs DEF Sound, TypeOK
<1>2. all \in Seq(Topologies) /\ Places(all, pool[i]) # {}
  BY <1>1, Joint
<1>3. pool[i] \notin D
  BY ShapesAssumption DEF User, Whole
<1> HIDE DEF all
<1>4. PICK k \in DOMAIN all : all[k] = pool[i]
  BY <1>2 DEF Places
<1>5. Places(Dropped(all, D), pool[i]) # {}
  BY <1>2, <1>3, <1>4, DroppedIs
<1>6. pool' = Dropped(all, D)
  BY DEF Generate, all
<1> QED
  BY <1>5, <1>6

LEMMA SamePlaces ==
  ASSUME NEW p, NEW i \in DOMAIN p  PROVE Places(p, p[i]) # {}
BY DEF Places

(* Every command but a regeneration keeps the candidates that are no split. *)
LEMMA NextKeeps ==
  ASSUME Sound, [Next]_vars, NEW i \in DOMAIN pool, ~(pool[i].cuts > 0)
  PROVE  Places(pool', pool[i]) # {} \/ (~User(pool[i]) /\ Regenerate)
<1>1. CASE Regenerate
  BY <1>1, GenerateKeeps DEF Regenerate
<1>2. CASE Accrete
  <2>1. PICK S \in SUBSET Generated : GenerateMore(S)
    BY <1>2 DEF Accrete
  <2>2. Merge(S) \in Seq(Topologies) /\ i \in DOMAIN Merge(S) /\ Merge(S)[i] = pool[i]
    BY MergeIs DEF Sound, TypeOK
  <2>3. PICK from : Rearranges(Sorted(Merge(S)), Merge(S), DOMAIN Merge(S), from)
    BY <2>2, SortedRearranges
  <2>4. Places(Sorted(Merge(S)), pool[i]) # {}
    BY <2>2, <2>3 DEF Rearranges, Places
  <2> QED
    BY <2>1, <2>4 DEF GenerateMore, Resort
<1>3. CASE pool' = pool
  BY <1>3, SamePlaces
<1>4. CASE \/ \E j \in DOMAIN pool : SelectTopology(j) \/ SelectGroup(j)
           \/ SelectElsewhere \/ Unpin \/ UNCHANGED vars
  BY <1>3, <1>4 DEF SelectTopology, SelectGroup, SelectElsewhere, Unpin, vars
<1>5. CASE EditCommit
  <2>1. PICK t \in {Whole(s) : s \in Hand} \cup {pool[j] : j \in DOMAIN pool},
             pin \in BOOLEAN, windows \in BOOLEAN : Commit(t, pin, windows)
    BY <1>5 DEF EditCommit
  <2>2. pool' = pool \/ pool' = Append(pool, t)
    BY <2>1 DEF Commit
  <2>3. i \in DOMAIN Append(pool, t) /\ Append(pool, t)[i] = pool[i]
    BY DEF Sound, TypeOK
  <2> QED
    BY <1>3, <2>2, <2>3 DEF Places
<1>6. CASE RunPlanner
  <2>1. pool' = WithoutSplit
    BY <1>6 DEF RunPlanner
  <2>2. CASE slot \in DOMAIN pool
    <3>1. i # slot /\ pool \in Seq(Topologies)
      BY PoolFacts DEF Sound, SplitsAreNamed, TypeOK
    <3> QED
      BY <2>1, <2>2, <3>1, RemoveIs DEF WithoutSplit
  <2>3. CASE slot \notin DOMAIN pool
    BY <1>3, <2>1, <2>3 DEF WithoutSplit
  <2> QED
    BY <2>2, <2>3
<1>7. CASE RunNuts
  <2>1. /\ DOMAIN pool \subseteq DOMAIN pool'
        /\ \A j \in DOMAIN pool' \ {slot'} : pool'[j] = pool[j]
        /\ slot \in DOMAIN pool => slot' = slot
        /\ slot \notin DOMAIN pool => slot' \notin DOMAIN pool
    BY <1>7, RunNutsWrites
  <2>2. i # slot
    BY PoolFacts DEF Sound, SplitsAreNamed
  <2>3. i # slot' /\ i \in DOMAIN pool'
    BY <2>1, <2>2
  <2> QED
    BY <2>1, <2>3 DEF Places
<1> QED
  BY <1>1, <1>2, <1>4, <1>5, <1>6, <1>7 DEF Next

(* No command takes a genuine candidate out of the pool, but a regeneration *)
(* that replaces the generated ones; a drawing of the user stays for good. *)
THEOREM CandidatesAlwaysKept == Spec => CandidatesAreKept
<1>1. Sound /\ [Next]_vars =>
        [\A i \in DOMAIN pool :
           \/ pool[i].cuts > 0
           \/ Places(pool', pool[i]) # {}
           \/ ~User(pool[i]) /\ Regenerate]_vars
  BY NextKeeps
<1> QED
  BY <1>1, SoundHolds, PTL DEF Spec, CandidatesAreKept

LEMMA AccreteFollows ==
  ASSUME Sound, Accrete
  PROVE  /\ Follows(sel, sel') /\ Follows(slot, slot') /\ Follows(orig, orig')
         /\ group \subseteq DOMAIN pool => Family(pool, group) = Family(pool', group')
<1>1. PICK S \in SUBSET Generated : GenerateMore(S)
  BY DEF Accrete
<1> DEFINE p == Merge(S)
           new == Sorted(p)
<1>2. /\ p \in Seq(Topologies)
      /\ \A i \in DOMAIN pool : i \in DOMAIN p /\ p[i] = pool[i]
  BY MergeIs DEF Sound, TypeOK
<1>3. PICK from : Rearranges(new, p, DOMAIN p, from)
  BY <1>2, SortedRearranges
<1>4. /\ pool' = new /\ sel' = Moved(p, new, sel) /\ slot' = Moved(p, new, slot)
      /\ orig' = Moved(p, new, orig)
      /\ group' = {Moved(p, new, i) : i \in group \cap DOMAIN p}
  BY <1>1 DEF GenerateMore, Resort
<1> HIDE DEF p, new
<1>5. \A i \in DOMAIN pool :
         /\ Moved(p, new, i) \in DOMAIN new /\ Moved(p, new, i) # 0
         /\ new[Moved(p, new, i)] = pool[i]
  <2>1. \A i \in DOMAIN new : i # 0
    BY <1>3 DEF Rearranges
  <2> QED
    BY <1>2, <1>3, <2>1, MovedFollows
<1>6. Moved(p, new, 0) = 0
  <2>1. 0 \notin DOMAIN p
    BY <1>2
  <2> QED
    BY <1>2, <1>3, <2>1, MovedFollows
<1>7. Follows(sel, sel') /\ Follows(slot, slot') /\ Follows(orig, orig')
  <2>1. \A i \in {0} \cup DOMAIN pool : Follows(i, Moved(p, new, i))
    BY <1>4, <1>5, <1>6, PoolFacts DEF Follows, Sound
  <2> QED
    BY <1>4, <2>1 DEF Sound, TypeOK
<1>8. ASSUME group \subseteq DOMAIN pool
      PROVE  Family(pool, group) = Family(new, group')
  <2>1. group' = {Moved(p, new, i) : i \in group}
    BY <1>2, <1>4, <1>8
  <2>2. Family(pool, group) = {pool[i] : i \in group}
    BY <1>8 DEF Family
  <2>3. group' \subseteq DOMAIN new
    BY <1>5, <1>8, <2>1
  <2>4. Family(new, group') = {new[j] : j \in group'}
    BY <2>3 DEF Family
  <2>5. \A i \in group : new[Moved(p, new, i)] = pool[i]
    BY <1>5, <1>8
  <2> QED
    BY <2>1, <2>2, <2>4, <2>5
<1> QED
  BY <1>4, <1>7, <1>8

(* A re-sort after new candidates came in changes no decision: every index *)
(* names the topology it named before, and so does a pinned family.        *)
THEOREM AccretionAlwaysKeeps == Spec => AccretionKeepsReferences
<1>1. Sound =>
        [\/ /\ Follows(sel, sel') /\ Follows(slot, slot') /\ Follows(orig, orig')
            /\ group \subseteq DOMAIN pool =>
                 Family(pool, group) = Family(pool', group')
         \/ ~Accrete]_vars
  BY AccreteFollows
<1> QED
  BY <1>1, SoundHolds, PTL DEF AccretionKeepsReferences
=============================================================================
