----------------------------- MODULE Nuts_proofs -----------------------------
(***************************************************************************)
(* What the passes of the track solver keep, for every design, whatever    *)
(* tracks they choose: wires reach their junctions, the scoped settling is *)
(* exact, elected crossings stay covered, and no pass after the fixpoint   *)
(* leaves more overlaps.                                                   *)
(***************************************************************************)
EXTENDS Nuts, FiniteSetTheorems, WellFoundedInduction, TLAPS

-----------------------------------------------------------------------------
(* Least and greatest coordinates.                                         *)

LEMMA LeastExists ==
  ASSUME NEW S \in SUBSET Nat, S # {}
  PROVE  \E x \in S : \A y \in S : x <= y
<1> DEFINE R == {ss \in Nat \X Nat : ss[1] < ss[2]}
<1>1. IsWellFoundedOn(R, Nat)
  BY NatLessThanWellFounded DEF OpToRel
<1>2. \A x, y \in Nat : <<y, x>> \in R <=> y < x
  OBVIOUS
<1> HIDE DEF R
<1>3. \E x \in S : \A y \in S : ~ (<<y, x>> \in R)
  BY <1>1, WFMin
<1>4. PICK x \in S : \A y \in S : ~ (<<y, x>> \in R)
  BY <1>3
<1>5. ASSUME NEW y \in S PROVE x <= y
  <2>1. ~ (y < x) /\ x \in Nat /\ y \in Nat
    BY <1>2, <1>4
  <2> QED  BY <2>1
<1> QED  BY <1>4, <1>5

LEMMA GreatestExists ==
  ASSUME NEW N \in Nat, NEW S \in SUBSET (0..N), S # {}
  PROVE  \E x \in S : \A y \in S : x >= y
<1> DEFINE D == {N - x : x \in S}
<1>1. D \in SUBSET Nat /\ D # {}
  <2>1. \A x \in S : N - x \in Nat
    OBVIOUS
  <2> QED  BY <2>1
<1>2. PICK d \in D : \A e \in D : d <= e
  BY <1>1, LeastExists
<1>3. PICK x \in S : d = N - x
  BY <1>2
<1>4. ASSUME NEW y \in S PROVE x >= y
  <2>1. N - y \in D
    OBVIOUS
  <2>2. d <= N - y
    BY <1>2, <2>1
  <2> QED  BY <1>3, <2>2
<1> QED  BY <1>3, <1>4

LEMMA MinFacts ==
  ASSUME NEW S \in SUBSET Coord, S # {}
  PROVE  Min(S) \in S /\ \A y \in S : Min(S) <= y
<1>1. S \in SUBSET Nat
  BY SegmentAssumption DEF Coord
<1> QED  BY <1>1, LeastExists DEF Min

LEMMA MaxFacts ==
  ASSUME NEW S \in SUBSET Coord, S # {}
  PROVE  Max(S) \in S /\ \A y \in S : Max(S) >= y
BY SegmentAssumption, GreatestExists DEF Max, Coord

-----------------------------------------------------------------------------
(* Spans cover what they are settled on.                                   *)

Tracked(p) == p \in [Seg -> Coord \cup {Unplaced}]
Spanned(sp) == sp \in [Seg -> Coord \X Coord]
Covers(x, R) == \A r \in R : sp_lo(x) <= r /\ r <= sp_hi(x)

LEMMA PairFacts ==
  ASSUME NEW x \in Coord \X Coord
  PROVE  /\ x = <<x[1], x[2]>> /\ x[1] \in Coord /\ x[2] \in Coord
         /\ x[1] \in Int /\ x[2] \in Int
         /\ sp_lo(x) \in Coord /\ sp_hi(x) \in Coord
         /\ sp_lo(x) \in Int /\ sp_hi(x) \in Int
         /\ sp_lo(x) <= x[1] /\ sp_lo(x) <= x[2] /\ x[1] <= sp_hi(x) /\ x[2] <= sp_hi(x)
BY SegmentAssumption DEF Coord, sp_lo, sp_hi

LEMMA SpanOfPair ==
  ASSUME NEW a \in Int, NEW b \in Int
  PROVE  /\ a <= b => sp_lo(<<a, b>>) = a /\ sp_hi(<<a, b>>) = b
         /\ a <= b => sp_lo(<<b, a>>) = a /\ sp_hi(<<b, a>>) = b
BY DEF sp_lo, sp_hi

LEMMA CoordInt == Coord \subseteq Int
BY SegmentAssumption DEF Coord

LEMMA CoveringFacts ==
  ASSUME NEW x \in Coord \X Coord, NEW C \in SUBSET Coord
  PROVE  Covering(x, C) \in Coord \X Coord /\ Covers(Covering(x, C), C)
<1>1. x[1] \in Coord /\ x[2] \in Coord /\ x[1] \in Int /\ x[2] \in Int
  BY PairFacts
<1>2. ASSUME NEW a \in Coord
      PROVE  /\ Min({a} \cup C) \in Coord /\ Max({a} \cup C) \in Coord
             /\ Min({a} \cup C) \in Int /\ Max({a} \cup C) \in Int
             /\ Min({a} \cup C) <= a /\ Max({a} \cup C) >= a
             /\ \A c \in C : Min({a} \cup C) <= c /\ Max({a} \cup C) >= c
  <2>1. {a} \cup C \in SUBSET Coord /\ {a} \cup C # {}
    OBVIOUS
  <2>2. Min({a} \cup C) \in {a} \cup C /\ \A y \in {a} \cup C : Min({a} \cup C) <= y
    BY <2>1, MinFacts
  <2>3. Max({a} \cup C) \in {a} \cup C /\ \A y \in {a} \cup C : Max({a} \cup C) >= y
    BY <2>1, MaxFacts
  <2> QED  BY <2>1, <2>2, <2>3, CoordInt
<1>3. CASE x[1] <= x[2]
  <2> DEFINE lo == Min({x[1]} \cup C)
             hi == Max({x[2]} \cup C)
  <2>1. Covering(x, C) = <<lo, hi>>
    BY <1>3 DEF Covering
  <2>2. lo \in Coord /\ hi \in Coord /\ lo \in Int /\ hi \in Int
    BY <1>1, <1>2
  <2>3. lo <= x[1] /\ x[2] <= hi /\ \A c \in C : lo <= c /\ c <= hi
    <3>1. lo <= x[1] /\ \A c \in C : lo <= c
      BY <1>1, <1>2
    <3>2. hi >= x[2] /\ \A c \in C : hi >= c
      BY <1>1, <1>2
    <3> QED  BY <3>1, <3>2, <2>2, <1>1, CoordInt
  <2> HIDE DEF lo, hi
  <2>4. lo <= hi
    BY <2>2, <2>3, <1>1, <1>3
  <2>5. sp_lo(<<lo, hi>>) = lo /\ sp_hi(<<lo, hi>>) = hi
    BY <2>2, <2>4, SpanOfPair
  <2> QED  BY <2>1, <2>2, <2>3, <2>5 DEF Covers
<1>4. CASE ~ (x[1] <= x[2])
  <2> DEFINE lo == Min({x[2]} \cup C)
             hi == Max({x[1]} \cup C)
  <2>1. Covering(x, C) = <<hi, lo>>
    BY <1>4 DEF Covering
  <2>2. lo \in Coord /\ hi \in Coord /\ lo \in Int /\ hi \in Int
    BY <1>1, <1>2
  <2>3. lo <= x[2] /\ x[1] <= hi /\ \A c \in C : lo <= c /\ c <= hi
    <3>1. lo <= x[2] /\ \A c \in C : lo <= c
      BY <1>1, <1>2
    <3>2. hi >= x[1] /\ \A c \in C : hi >= c
      BY <1>1, <1>2
    <3> QED  BY <3>1, <3>2, <2>2, <1>1, CoordInt
  <2> HIDE DEF lo, hi
  <2>4. lo <= hi
    BY <2>2, <2>3, <1>1, <1>4
  <2>5. sp_lo(<<hi, lo>>) = lo /\ sp_hi(<<hi, lo>>) = hi
    BY <2>2, <2>4, SpanOfPair
  <2> QED  BY <2>1, <2>2, <2>3, <2>5 DEF Covers
<1> QED  BY <1>3, <1>4

LEMMA PartnersAreSegments ==
  ASSUME NEW f
  PROVE  Partners(f) \subseteq Seg
BY JunctionAssumption DEF Partners

LEMMA PartnersAreMutual ==
  ASSUME NEW f, NEW t \in Partners(f)
  PROVE  f \in Partners(t)
<1>1. PICK j \in Junction : j.of = f /\ j.to = t
  BY DEF Partners
<1>2. PICK k \in Junction : k.of = j.to /\ k.to = j.of
  BY JunctionAssumption
<1> QED  BY <1>1, <1>2 DEF Partners

LEMMA ReachIsCoord ==
  ASSUME NEW f \in Seg, NEW p, Tracked(p)
  PROVE  Reach(f, p) \in SUBSET Coord
<1>1. \A t \in Placed(Partners(f), p) : p[t] \in Coord
  BY PartnersAreSegments DEF Placed, Tracked
<1>2. Faces[f] \in SUBSET Coord
  BY SegmentAssumption
<1> QED  BY <1>1, <1>2 DEF Reach

LEMMA CentersAreCoord ==
  ASSUME NEW f, NEW lo, NEW src, NEW p, Tracked(p)
  PROVE  Centers(Requests(f, lo, src, p), p) \in SUBSET Coord
<1>1. \A j \in Requests(f, lo, src, p) : j.to \in Seg /\ p[j.to] # Unplaced
  BY JunctionAssumption DEF Requests, Placed
<1>2. \A j \in Requests(f, lo, src, p) : p[j.to] \in Coord
  BY <1>1 DEF Tracked
<1> QED  BY <1>2 DEF Centers

LEMMA EndsAreCoord ==
  ASSUME NEW x \in Coord, NEW R, NEW p, Centers(R, p) \in SUBSET Coord
  PROVE  LowEnd(x, R, p) \in Coord /\ HighEnd(x, R, p) \in Coord
<1>1. CASE R = {}
  BY <1>1 DEF LowEnd, HighEnd
<1>2. CASE R # {}
  <2> DEFINE S == Centers(R, p) \cup IF IsSet(R) THEN {} ELSE {x}
  <2>1. S \in SUBSET Coord
    OBVIOUS
  <2>2. S # {}
    BY <1>2 DEF Centers
  <2>3. LowEnd(x, R, p) = Min(S) /\ HighEnd(x, R, p) = Max(S)
    BY <1>2 DEF LowEnd, HighEnd
  <2> HIDE DEF S
  <2> QED  BY <2>1, <2>2, <2>3, MinFacts, MaxFacts
<1> QED  BY <1>1, <1>2

(* A follower that is adjusted reaches everything it must. *)
LEMMA AdjustedFacts ==
  ASSUME NEW f \in Seg, NEW x \in Coord \X Coord, NEW src, NEW p, Tracked(p)
  PROVE  Adjusted(f, x, src, p) \in Coord \X Coord /\ Covers(Adjusted(f, x, src, p), Reach(f, p))
<1> DEFINE low == LowEnd(x[1], Requests(f, TRUE, src, p), p)
           high == HighEnd(x[2], Requests(f, FALSE, src, p), p)
<1>1. low \in Coord /\ high \in Coord
  BY CentersAreCoord, EndsAreCoord, PairFacts
<1>2. Adjusted(f, x, src, p) = Covering(<<low, high>>, Reach(f, p))
  BY DEF Adjusted
<1> HIDE DEF low, high
<1>3. <<low, high>> \in Coord \X Coord
  BY <1>1
<1> QED  BY <1>2, <1>3, ReachIsCoord, CoveringFacts

-----------------------------------------------------------------------------
(* Settlings.                                                              *)

Reached(p, sp) ==
  \A s \in Seg : Placed(Partners(s), p) # {} => Covers(sp[s], Reach(s, p))

LEMMA SettleFacts ==
  ASSUME NEW src, NEW targets, NEW p, Tracked(p), NEW sp, Spanned(sp)
  PROVE  LET new == do_span_adjustments(src, targets, p, sp)
         IN  /\ Spanned(new)
             /\ \A f \in Seg :
                  IF f \in targets /\ Placed(Partners(f) \cap src, p) # {}
                  THEN Covers(new[f], Reach(f, p)) ELSE new[f] = sp[f]
<1>1. \A f \in Seg : sp[f] \in Coord \X Coord
  BY DEF Spanned
<1>2. \A f \in Seg : /\ Adjusted(f, sp[f], src, p) \in Coord \X Coord
                     /\ Covers(Adjusted(f, sp[f], src, p), Reach(f, p))
  BY <1>1, AdjustedFacts
<1> QED  BY <1>1, <1>2 DEF do_span_adjustments, Spanned

(* After a move of M, it is enough to settle those who meet M. *)
LEMMA SettleAfterMove ==
  ASSUME NEW M, NEW src, NEW targets, NEW p, NEW q, Tracked(p), Tracked(q),
         NEW sp, Spanned(sp), Reached(p, sp),
         \A s \in Seg \ M : q[s] = p[s],
         \A f \in Seg : Partners(f) \cap M # {} =>
           f \in targets /\ Placed(Partners(f) \cap src, q) # {}
  PROVE  Reached(q, do_span_adjustments(src, targets, q, sp))
<1> DEFINE new == do_span_adjustments(src, targets, q, sp)
<1> SUFFICES ASSUME NEW f \in Seg, Placed(Partners(f), q) # {}
             PROVE  Covers(new[f], Reach(f, q))
  BY DEF Reached
<1>1. CASE f \in targets /\ Placed(Partners(f) \cap src, q) # {}
  BY <1>1, SettleFacts
<1>2. CASE ~ (f \in targets /\ Placed(Partners(f) \cap src, q) # {})
  <2>1. new[f] = sp[f]
    BY <1>2 DEF do_span_adjustments
  <2>2. \A t \in Partners(f) : q[t] = p[t]
    BY <1>2, PartnersAreSegments
  <2>3. Placed(Partners(f), q) = Placed(Partners(f), p) /\ Reach(f, q) = Reach(f, p)
    BY <2>2 DEF Placed, Reach
  <2> QED  BY <2>1, <2>3 DEF Reached
<1> QED  BY <1>1, <1>2

LEMMA SettleAll ==
  ASSUME NEW p, Tracked(p), NEW sp, Spanned(sp)
  PROVE  Spanned(settle_spans(p, sp)) /\ Reached(p, settle_spans(p, sp))
<1>1. \A f \in Seg : Partners(f) \cap Seg = Partners(f)
  BY PartnersAreSegments
<1> QED  BY <1>1, SettleFacts DEF settle_spans, Reached

LEMMA SettleScoped ==
  ASSUME NEW M, NEW p, NEW q, Tracked(p), Tracked(q),
         NEW sp, Spanned(sp), Reached(p, sp),
         \A s \in Seg \ M : q[s] = p[s], \A s \in M : q[s] # Unplaced
  PROVE  Spanned(settle_spans_scoped(M, q, sp)) /\ Reached(q, settle_spans_scoped(M, q, sp))
<1> DEFINE targets == UNION {Partners(m) : m \in M}
           src == UNION {Partners(t) : t \in targets}
<1>1. settle_spans_scoped(M, q, sp) = do_span_adjustments(src, targets, q, sp)
  BY DEF settle_spans_scoped
<1>2. ASSUME NEW f \in Seg, Partners(f) \cap M # {}
      PROVE  f \in targets /\ Placed(Partners(f) \cap src, q) # {}
  <2>1. PICK m \in M : m \in Partners(f)
    BY <1>2
  <2>2. f \in Partners(m)
    BY <2>1, PartnersAreMutual
  <2>3. f \in targets
    BY <2>2
  <2>4. m \in Placed(Partners(f) \cap src, q)
    BY <2>1, <2>3 DEF Placed
  <2> QED  BY <2>3, <2>4
<1> HIDE DEF targets, src
<1>3. Spanned(do_span_adjustments(src, targets, q, sp))
  BY SettleFacts
<1>4. Reached(q, do_span_adjustments(src, targets, q, sp))
  BY <1>2, SettleAfterMove
<1> QED  BY <1>1, <1>3, <1>4

(* Settled spans.  What a settling from src wants of an end, it has got: a *)
(* span whose ends are in order begins, and ends, at something it must     *)
(* reach wherever the end is set, and a reversed one wherever the end is   *)
(* asked for at all.                                                       *)

Settled(f, x, src, p) ==
  /\ Requests(f, TRUE, src, p) # {} /\ (IsSet(Requests(f, TRUE, src, p)) \/ ~ (x[1] <= x[2]))
       => x[1] \in Reach(f, p)
  /\ Requests(f, FALSE, src, p) # {} /\ (IsSet(Requests(f, FALSE, src, p)) \/ ~ (x[1] <= x[2]))
       => x[2] \in Reach(f, p)

AllSettled(p, sp, src) == \A f \in Seg : Settled(f, sp[f], src, p)

(* A pair made to cover R: its extent, and which end is which. *)
LEMMA CoveringShape ==
  ASSUME NEW a \in Coord, NEW b \in Coord, NEW R \in SUBSET Coord
  PROVE  LET y == Covering(<<a, b>>, R)
         IN  /\ sp_lo(y) \in {a, b} \cup R /\ sp_hi(y) \in {a, b} \cup R
             /\ \A z \in {a, b} \cup R : sp_lo(y) <= z /\ z <= sp_hi(y)
             /\ y = IF a <= b THEN <<sp_lo(y), sp_hi(y)>> ELSE <<sp_hi(y), sp_lo(y)>>
<1>0. Coord \subseteq Int
  BY CoordInt
<1>1. ASSUME NEW x \in Coord
      PROVE  /\ Min({x} \cup R) \in {x} \cup R /\ \A z \in {x} \cup R : Min({x} \cup R) <= z
             /\ Max({x} \cup R) \in {x} \cup R /\ \A z \in {x} \cup R : Max({x} \cup R) >= z
  <2>1. {x} \cup R \in SUBSET Coord /\ {x} \cup R # {}
    OBVIOUS
  <2> HIDE DEF Coord
  <2> QED  BY <2>1, MinFacts, MaxFacts
<1>2. CASE a <= b
  <2> DEFINE lo == Min({a} \cup R)
             hi == Max({b} \cup R)
  <2>1. Covering(<<a, b>>, R) = <<lo, hi>>
    BY <1>2 DEF Covering
  <2>2. lo \in {a} \cup R /\ hi \in {b} \cup R
    BY <1>1
  <2>3. \A z \in {a} \cup R : lo <= z
    BY <1>1
  <2>4. \A z \in {b} \cup R : hi >= z
    BY <1>1
  <2> HIDE DEF lo, hi
  <2>5. lo \in Int /\ hi \in Int /\ a \in Int /\ b \in Int /\ R \subseteq Int
    BY <1>0, <2>2
  <2>6. lo <= a /\ lo <= b /\ a <= hi /\ b <= hi /\ lo <= hi
    BY <1>2, <2>3, <2>4, <2>5
  <2>7. \A z \in {a, b} \cup R : lo <= z /\ z <= hi
    BY <2>3, <2>4, <2>5, <2>6
  <2>8. sp_lo(<<lo, hi>>) = lo /\ sp_hi(<<lo, hi>>) = hi
    BY <2>5, <2>6, SpanOfPair
  <2> QED  BY <1>2, <2>1, <2>2, <2>7, <2>8
<1>3. CASE ~ (a <= b)
  <2> DEFINE lo == Min({b} \cup R)
             hi == Max({a} \cup R)
  <2>1. Covering(<<a, b>>, R) = <<hi, lo>>
    BY <1>3 DEF Covering
  <2>2. lo \in {b} \cup R /\ hi \in {a} \cup R
    BY <1>1
  <2>3. \A z \in {b} \cup R : lo <= z
    BY <1>1
  <2>4. \A z \in {a} \cup R : hi >= z
    BY <1>1
  <2> HIDE DEF lo, hi
  <2>5. lo \in Int /\ hi \in Int /\ a \in Int /\ b \in Int /\ R \subseteq Int
    BY <1>0, <2>2
  <2>6. lo <= a /\ lo <= b /\ a <= hi /\ b <= hi /\ lo <= hi
    BY <1>3, <2>3, <2>4, <2>5
  <2>7. \A z \in {a, b} \cup R : lo <= z /\ z <= hi
    BY <2>3, <2>4, <2>5, <2>6
  <2>8. sp_lo(<<hi, lo>>) = lo /\ sp_hi(<<hi, lo>>) = hi
    BY <2>5, <2>6, SpanOfPair
  <2> QED  BY <1>3, <2>1, <2>2, <2>7, <2>8
<1> QED  BY <1>2, <1>3

(* An end that is asked for at a coordinate to reach comes to one, the     *)
(* other ends stay or come to one.                                         *)
LEMMA CoveringEnds ==
  ASSUME NEW a \in Coord, NEW b \in Coord, NEW R \in SUBSET Coord
  PROVE  LET y == Covering(<<a, b>>, R)
         IN  /\ y[1] \in {a} \cup R /\ (a \in R => y[1] \in R)
             /\ y[2] \in {b} \cup R /\ (b \in R => y[2] \in R)
             /\ (y[1] <= y[2]) <=> (a <= b)
             /\ ~ (a <= b) => /\ (\E c \in R : a <= c) => y[1] \in R
                              /\ (\E c \in R : c <= b) => y[2] \in R
             /\ sp_lo(y) \in {a, b} \cup R /\ sp_hi(y) \in {a, b} \cup R
             /\ \A z \in {a, b} \cup R : sp_lo(y) <= z /\ z <= sp_hi(y)
<1> DEFINE y == Covering(<<a, b>>, R)
           lo == sp_lo(y)
           hi == sp_hi(y)
<1>1. /\ lo \in {a, b} \cup R /\ hi \in {a, b} \cup R
      /\ \A z \in {a, b} \cup R : lo <= z /\ z <= hi
      /\ y = IF a <= b THEN <<lo, hi>> ELSE <<hi, lo>>
  BY CoveringShape
<1> HIDE DEF y, lo, hi
<1>2. /\ lo \in Int /\ hi \in Int /\ a \in Int /\ b \in Int /\ R \subseteq Int
      /\ lo <= a /\ lo <= b /\ a <= hi /\ b <= hi /\ lo <= hi
  BY <1>1, CoordInt
<1>4. CASE a <= b
  <2>1. y[1] = lo /\ y[2] = hi
    BY <1>1, <1>4
  <2>2. lo \in {a} \cup R /\ (a \in R => lo \in R)
    BY <1>1, <1>2, <1>4
  <2>3. hi \in {b} \cup R /\ (b \in R => hi \in R)
    BY <1>1, <1>2, <1>4
  <2> QED  BY <1>1, <1>2, <1>4, <2>1, <2>2, <2>3 DEF y, lo, hi
<1>5. CASE ~ (a <= b)
  <2>1. y[1] = hi /\ y[2] = lo
    BY <1>1, <1>5
  <2>2. hi \in {a} \cup R /\ (a \in R => hi \in R)
    BY <1>1, <1>2, <1>5
  <2>3. lo \in {b} \cup R /\ (b \in R => lo \in R)
    BY <1>1, <1>2, <1>5
  <2>4. ASSUME NEW c \in R, a <= c  PROVE hi \in R
    BY <1>1, <1>2, <1>5, <2>2, <2>4
  <2>5. ASSUME NEW c \in R, c <= b  PROVE lo \in R
    BY <1>1, <1>2, <1>5, <2>3, <2>5
  <2>6. ~ (y[1] <= y[2])
    BY <1>2, <1>5, <2>1
  <2> QED  BY <1>1, <1>5, <2>1, <2>2, <2>3, <2>4, <2>5, <2>6 DEF y, lo, hi
<1> QED  BY <1>4, <1>5

LEMMA CentersReach ==
  ASSUME NEW f \in Seg, NEW lo, NEW src, NEW p
  PROVE  Centers(Requests(f, lo, src, p), p) \subseteq Reach(f, p)
BY DEF Centers, Requests, Reach, Partners, Placed

(* The low end before it covers: it stays, or comes to a coordinate asked  *)
(* for, and not above it; and it comes to one for certain if it is set.    *)
LEMMA LowEndFacts ==
  ASSUME NEW f \in Seg, NEW x \in Coord, NEW src, NEW p, Tracked(p)
  PROVE  LET R   == Requests(f, TRUE, src, p)
             low == LowEnd(x, R, p)
         IN  /\ low \in {x} \cup Reach(f, p)
             /\ R = {} => low = x
             /\ R # {} /\ IsSet(R) => low \in Reach(f, p)
             /\ R # {} /\ ~ IsSet(R) => low <= x
             /\ R # {} => \E c \in Reach(f, p) : low <= c
<1> DEFINE R == Requests(f, TRUE, src, p)
           C == Centers(R, p)
           S == C \cup IF IsSet(R) THEN {} ELSE {x}
<1>1. C \in SUBSET Coord /\ C \subseteq Reach(f, p)
  BY CentersAreCoord, CentersReach
<1>2. R # {} => C # {}
  BY DEF Centers
<1>3. CASE R = {}
  BY <1>3 DEF LowEnd
<1>4. CASE R # {}
  <2>1. LowEnd(x, R, p) = Min(S)
    BY <1>4 DEF LowEnd
  <2>2. S \in SUBSET Coord /\ S # {}
    BY <1>1, <1>2, <1>4
  <2>3. Min(S) \in S /\ \A y \in S : Min(S) <= y
    BY <2>2, MinFacts
  <2>4. PICK c \in C : TRUE
    BY <1>2, <1>4
  <2>5. Min(S) <= c
    BY <2>3, <2>4
  <2>6. IsSet(R) => Min(S) \in C
    BY <2>3
  <2>7. ~ IsSet(R) => Min(S) <= x
    BY <2>3
  <2>8. Min(S) \in C \cup {x}
    BY <2>3
  <2> HIDE DEF S, C, R
  <2> QED  BY <1>1, <1>4, <2>1, <2>4, <2>5, <2>6, <2>7, <2>8 DEF R
<1> QED  BY <1>3, <1>4

LEMMA HighEndFacts ==
  ASSUME NEW f \in Seg, NEW x \in Coord, NEW src, NEW p, Tracked(p)
  PROVE  LET R    == Requests(f, FALSE, src, p)
             high == HighEnd(x, R, p)
         IN  /\ high \in {x} \cup Reach(f, p)
             /\ R = {} => high = x
             /\ R # {} /\ IsSet(R) => high \in Reach(f, p)
             /\ R # {} /\ ~ IsSet(R) => high >= x
             /\ R # {} => \E c \in Reach(f, p) : c <= high
<1> DEFINE R == Requests(f, FALSE, src, p)
           C == Centers(R, p)
           S == C \cup IF IsSet(R) THEN {} ELSE {x}
<1>1. C \in SUBSET Coord /\ C \subseteq Reach(f, p)
  BY CentersAreCoord, CentersReach
<1>2. R # {} => C # {}
  BY DEF Centers
<1>3. CASE R = {}
  BY <1>3 DEF HighEnd
<1>4. CASE R # {}
  <2>1. HighEnd(x, R, p) = Max(S)
    BY <1>4 DEF HighEnd
  <2>2. S \in SUBSET Coord /\ S # {}
    BY <1>1, <1>2, <1>4
  <2>3. Max(S) \in S /\ \A y \in S : Max(S) >= y
    BY <2>2, MaxFacts
  <2>4. PICK c \in C : TRUE
    BY <1>2, <1>4
  <2>5. c <= Max(S)
    <3>1. Max(S) >= c /\ c \in Int /\ Max(S) \in Int
      BY <1>1, <2>2, <2>3, <2>4, CoordInt
    <3> QED  BY <3>1
  <2>6. IsSet(R) => Max(S) \in C
    BY <2>3
  <2>7. ~ IsSet(R) => Max(S) >= x
    BY <2>3
  <2>8. Max(S) \in C \cup {x}
    BY <2>3
  <2> HIDE DEF S, C, R
  <2> QED  BY <1>1, <1>4, <2>1, <2>4, <2>5, <2>6, <2>7, <2>8 DEF R
<1> QED  BY <1>3, <1>4

(* One adjustment gives what was asked. *)
LEMMA AdjustSettles ==
  ASSUME NEW f \in Seg, NEW x \in Coord \X Coord, NEW src, NEW p, Tracked(p)
  PROVE  Settled(f, Adjusted(f, x, src, p), src, p)
<1> DEFINE L == Requests(f, TRUE, src, p)
           H == Requests(f, FALSE, src, p)
           a == LowEnd(x[1], L, p)
           b == HighEnd(x[2], H, p)
           R == Reach(f, p)
           y == Adjusted(f, x, src, p)
<1>1. x[1] \in Coord /\ x[2] \in Coord /\ R \in SUBSET Coord
  BY PairFacts, ReachIsCoord
<1>2. a \in Coord /\ b \in Coord
  BY <1>1, CentersAreCoord, EndsAreCoord
<1>3. /\ L # {} /\ IsSet(L) => a \in R
      /\ L # {} => \E c \in R : a <= c
  BY <1>1, LowEndFacts
<1>4. /\ H # {} /\ IsSet(H) => b \in R
      /\ H # {} => \E c \in R : c <= b
  BY <1>1, HighEndFacts
<1>5. y = Covering(<<a, b>>, R)
  BY DEF Adjusted
<1> HIDE DEF a, b, R, y, L, H
<1>6. /\ a \in R => y[1] \in R
      /\ b \in R => y[2] \in R
      /\ (y[1] <= y[2]) <=> (a <= b)
      /\ ~ (a <= b) => /\ (\E c \in R : a <= c) => y[1] \in R
                       /\ (\E c \in R : c <= b) => y[2] \in R
  BY <1>1, <1>2, <1>5, CoveringEnds
<1>7. L # {} /\ (IsSet(L) \/ ~ (y[1] <= y[2])) => y[1] \in R
  BY <1>3, <1>6
<1>8. H # {} /\ (IsSet(H) \/ ~ (y[1] <= y[2])) => y[2] \in R
  BY <1>4, <1>6
<1> QED  BY <1>7, <1>8 DEF Settled, L, H, R, y

(* An adjustment by others, of a span that covers all it must reach,       *)
(* disturbs nothing of it.                                                 *)
LEMMA AdjustKeepsSettled ==
  ASSUME NEW f \in Seg, NEW x \in Coord \X Coord, NEW src, NEW p, Tracked(p),
         Covers(x, Reach(f, p)), NEW old, Settled(f, x, old, p)
  PROVE  Settled(f, Adjusted(f, x, src, p), old, p)
<1> DEFINE L == Requests(f, TRUE, src, p)
           H == Requests(f, FALSE, src, p)
           a == LowEnd(x[1], L, p)
           b == HighEnd(x[2], H, p)
           R == Reach(f, p)
           y == Adjusted(f, x, src, p)
<1>1. x[1] \in Coord /\ x[2] \in Coord /\ R \in SUBSET Coord
  BY PairFacts, ReachIsCoord
<1>2. a \in Coord /\ b \in Coord
  BY <1>1, CentersAreCoord, EndsAreCoord
<1>3. a \in {x[1]} \cup R
  BY <1>1, LowEndFacts
<1>4. b \in {x[2]} \cup R
  BY <1>1, HighEndFacts
<1>5. y = Covering(<<a, b>>, R)
  BY DEF Adjusted
<1> HIDE DEF a, b, R, y, L, H
<1>6. /\ y[1] \in {a} \cup R /\ (a \in R => y[1] \in R)
      /\ y[2] \in {b} \cup R /\ (b \in R => y[2] \in R)
      /\ (y[1] <= y[2]) <=> (a <= b)
  BY <1>1, <1>2, <1>5, CoveringEnds
<1>7. \A r \in R : sp_lo(x) <= r /\ r <= sp_hi(x)
  BY DEF Covers, R
<1>8. ((x[1] <= x[2]) <=> (y[1] <= y[2])) \/ (y[1] \in R /\ y[2] \in R)
  <2>1. x[1] \in Int /\ x[2] \in Int /\ a \in Int /\ b \in Int /\ R \subseteq Int
    BY <1>1, <1>2, CoordInt
  <2>2. ASSUME x[1] <= x[2], ~ (a <= b)  PROVE a \in R /\ b \in R
    <3>1. \A r \in R : x[1] <= r /\ r <= x[2]
      BY <1>7, <2>1, <2>2 DEF sp_lo, sp_hi
    <3> QED  BY <1>3, <1>4, <2>1, <2>2, <3>1
  <2>3. ASSUME ~ (x[1] <= x[2]), a <= b  PROVE a \in R /\ b \in R
    <3>1. \A r \in R : x[2] <= r /\ r <= x[1]
      BY <1>7, <2>1, <2>3 DEF sp_lo, sp_hi
    <3> QED  BY <1>3, <1>4, <2>1, <2>3, <3>1
  <2> QED  BY <1>6, <2>2, <2>3
<1>9. /\ x[1] \in R => y[1] \in R
      /\ x[2] \in R => y[2] \in R
  BY <1>3, <1>4, <1>6
<1>10. CASE y[1] \in R /\ y[2] \in R
  BY <1>10 DEF Settled, R, y
<1>11. CASE (x[1] <= x[2]) <=> (y[1] <= y[2])
  BY <1>9, <1>11 DEF Settled, R, y
<1> QED  BY <1>8, <1>10, <1>11

(* Settled layer by layer is settled. *)
LEMMA SettledByLayers ==
  ASSUME NEW f \in Seg, NEW x, NEW p,
         \A s \in Seg : Settled(f, x, On({Layer[s]}), p)
  PROVE  Settled(f, x, Seg, p)
<1>1. ASSUME NEW lo, NEW j \in Requests(f, lo, Seg, p)
      PROVE  /\ j.to \in Seg
             /\ j \in Requests(f, lo, On({Layer[j.to]}), p)
             /\ Requests(f, lo, On({Layer[j.to]}), p) \subseteq Requests(f, lo, Seg, p)
  BY DEF Requests, Placed, On
<1>2. ASSUME NEW lo, Requests(f, lo, Seg, p) # {}
      PROVE  \E s \in Seg : /\ Requests(f, lo, On({Layer[s]}), p) # {}
                            /\ IsSet(Requests(f, lo, Seg, p))
                                 => IsSet(Requests(f, lo, On({Layer[s]}), p))
  <2>1. CASE \E j \in Requests(f, lo, Seg, p) : j.end /\ j.to \in Jog
    <3>1. PICK j \in Requests(f, lo, Seg, p) : j.end /\ j.to \in Jog
      BY <2>1
    <3>2. j.to \in Seg /\ j \in Requests(f, lo, On({Layer[j.to]}), p)
      BY <1>1
    <3>3. IsSet(Requests(f, lo, On({Layer[j.to]}), p))
      BY <3>1, <3>2 DEF IsSet
    <3> QED  BY <3>2, <3>3
  <2>2. CASE ~ \E j \in Requests(f, lo, Seg, p) : j.end /\ j.to \in Jog
    <3>1. PICK j \in Requests(f, lo, Seg, p) : TRUE
      BY <1>2
    <3>2. /\ j.to \in Seg /\ j \in Requests(f, lo, On({Layer[j.to]}), p)
          /\ Requests(f, lo, On({Layer[j.to]}), p) \subseteq Requests(f, lo, Seg, p)
      BY <1>1
    <3>3. IsSet(Requests(f, lo, Seg, p)) => IsSet(Requests(f, lo, On({Layer[j.to]}), p))
      BY <2>2, <3>2 DEF IsSet
    <3> QED  BY <3>2, <3>3
  <2> QED  BY <2>1, <2>2
<1>3. Requests(f, TRUE, Seg, p) # {} /\ (IsSet(Requests(f, TRUE, Seg, p)) \/ ~ (x[1] <= x[2]))
        => x[1] \in Reach(f, p)
  BY <1>2 DEF Settled
<1>4. Requests(f, FALSE, Seg, p) # {} /\ (IsSet(Requests(f, FALSE, Seg, p)) \/ ~ (x[1] <= x[2]))
        => x[2] \in Reach(f, p)
  BY <1>2 DEF Settled
<1> QED  BY <1>3, <1>4 DEF Settled

(* Settling a settled span again gives the same wire. *)
LEMMA SettledStays ==
  ASSUME NEW f \in Seg, NEW x \in Coord \X Coord, NEW p, Tracked(p),
         Covers(x, Reach(f, p)), NEW src, Settled(f, x, src, p)
  PROVE  SameWire(Adjusted(f, x, src, p), x)
<1> DEFINE L == Requests(f, TRUE, src, p)
           H == Requests(f, FALSE, src, p)
           a == LowEnd(x[1], L, p)
           b == HighEnd(x[2], H, p)
           R == Reach(f, p)
           y == Adjusted(f, x, src, p)
<1>1. x[1] \in Coord /\ x[2] \in Coord /\ R \in SUBSET Coord
  BY PairFacts, ReachIsCoord
<1>2. a \in Coord /\ b \in Coord
  BY <1>1, CentersAreCoord, EndsAreCoord
<1>3. /\ a \in {x[1]} \cup R /\ (L = {} => a = x[1])
      /\ L # {} /\ ~ IsSet(L) => a <= x[1]
  BY <1>1, LowEndFacts
<1>4. /\ b \in {x[2]} \cup R /\ (H = {} => b = x[2])
      /\ H # {} /\ ~ IsSet(H) => b >= x[2]
  BY <1>1, HighEndFacts
<1>5. y = Covering(<<a, b>>, R)
  BY DEF Adjusted
<1>6. /\ L # {} /\ (IsSet(L) \/ ~ (x[1] <= x[2])) => x[1] \in R
      /\ H # {} /\ (IsSet(H) \/ ~ (x[1] <= x[2])) => x[2] \in R
  BY DEF Settled
<1>7. \A r \in R : sp_lo(x) <= r /\ r <= sp_hi(x)
  BY DEF Covers
<1> HIDE DEF a, b, R, y, L, H
<1>8. /\ sp_lo(y) \in {a, b} \cup R /\ sp_hi(y) \in {a, b} \cup R
      /\ \A z \in {a, b} \cup R : sp_lo(y) <= z /\ z <= sp_hi(y)
  BY <1>1, <1>2, <1>5, CoveringEnds
<1>9. x[1] \in Int /\ x[2] \in Int /\ a \in Int /\ b \in Int /\ R \subseteq Int
  BY <1>1, <1>2, CoordInt
<1>10. a = x[1] \/ x[1] \in R
  <2>1. CASE L # {} /\ ~ IsSet(L) /\ x[1] <= x[2]
    <3>1. \A r \in R : x[1] <= r
      BY <1>7, <1>9, <2>1 DEF sp_lo
    <3> QED  BY <1>3, <1>9, <2>1, <3>1
  <2> QED  BY <1>3, <1>6, <2>1
<1>11. b = x[2] \/ x[2] \in R
  <2>1. CASE H # {} /\ ~ IsSet(H) /\ x[1] <= x[2]
    <3>1. \A r \in R : r <= x[2]
      BY <1>7, <1>9, <2>1 DEF sp_hi
    <3> QED  BY <1>4, <1>9, <2>1, <3>1
  <2> QED  BY <1>4, <1>6, <2>1
<1>12. /\ sp_lo(x) \in {x[1], x[2]} /\ sp_hi(x) \in {x[1], x[2]}
       /\ sp_lo(x) \in Int /\ sp_hi(x) \in Int
       /\ sp_lo(x) <= x[1] /\ sp_lo(x) <= x[2] /\ x[1] <= sp_hi(x) /\ x[2] <= sp_hi(x)
  BY <1>9 DEF sp_lo, sp_hi
<1>13. {x[1], x[2]} \subseteq {a, b} \cup R /\ {a, b} \subseteq {x[1], x[2]} \cup R
  BY <1>3, <1>4, <1>10, <1>11
<1>14. sp_lo(y) \in Int /\ sp_hi(y) \in Int
  BY <1>8, <1>9
<1>15. sp_lo(y) <= sp_lo(x) /\ sp_hi(x) <= sp_hi(y)
  BY <1>8, <1>12, <1>13
<1>16. \A z \in {a, b} \cup R : sp_lo(x) <= z /\ z <= sp_hi(x)
  BY <1>7, <1>12, <1>13
<1>17. sp_lo(x) <= sp_lo(y) /\ sp_hi(y) <= sp_hi(x)
  BY <1>8, <1>16
<1>18. sp_lo(y) = sp_lo(x) /\ sp_hi(y) = sp_hi(x)
  BY <1>12, <1>14, <1>15, <1>17
<1> QED  BY <1>18 DEF SameWire, y

-----------------------------------------------------------------------------
(* Contraction.                                                            *)

LEMMA ContractedFacts ==
  ASSUME NEW x \in Coord \X Coord, NEW R \in SUBSET Coord
  PROVE  LET y == Contracted(x, R)
         IN  /\ y \in Coord \X Coord
             /\ sp_lo(x) <= sp_lo(y) /\ sp_hi(y) <= sp_hi(x)
             /\ \A r \in R : sp_lo(x) <= r /\ r <= sp_hi(x) => sp_lo(y) <= r /\ r <= sp_hi(y)
<1> DEFINE lo == Max({sp_lo(x), Min(R)})
           hi == Min({sp_hi(x), Max(R)})
           y == Contracted(x, R)
<1>1. CASE R = {} \/ lo > hi
  BY <1>1, PairFacts DEF Contracted
<1>2. CASE R # {} /\ ~ (lo > hi)
  <2>1. Min(R) \in R /\ Max(R) \in R /\ \A r \in R : Min(R) <= r /\ r <= Max(R)
    <3>1. Min(R) \in R /\ \A r \in R : Min(R) <= r
      BY <1>2, MinFacts
    <3>2. Max(R) \in R /\ \A r \in R : Max(R) >= r
      BY <1>2, MaxFacts
    <3> QED  BY <3>1, <3>2, CoordInt
  <2>2. {sp_lo(x), Min(R)} \in SUBSET Coord /\ {sp_hi(x), Max(R)} \in SUBSET Coord
    BY <2>1, PairFacts
  <2>3. lo \in {sp_lo(x), Min(R)} /\ lo >= sp_lo(x) /\ lo >= Min(R)
    BY <2>2, MaxFacts
  <2>4. hi \in {sp_hi(x), Max(R)} /\ hi <= sp_hi(x) /\ hi <= Max(R)
    BY <2>2, MinFacts
  <2>5. lo \in Coord /\ hi \in Coord /\ lo \in Int /\ hi \in Int
    BY <2>2, <2>3, <2>4, CoordInt
  <2>6. y = IF x[1] <= x[2] THEN <<lo, hi>> ELSE <<hi, lo>>
    BY <1>2 DEF Contracted
  <2>7. \A r \in R : sp_lo(x) <= r /\ r <= sp_hi(x) => lo <= r /\ r <= hi
    BY <2>1, <2>3, <2>4, PairFacts, CoordInt
  <2> HIDE DEF lo, hi, y
  <2>8. lo <= hi
    BY <1>2, <2>5
  <2>9. sp_lo(y) = lo /\ sp_hi(y) = hi
    BY <2>5, <2>6, <2>8, SpanOfPair
  <2>10. sp_lo(x) \in Int /\ sp_hi(x) \in Int
    BY PairFacts
  <2>11. y \in Coord \X Coord
    BY <2>5, <2>6
  <2>12. sp_lo(x) <= lo /\ hi <= sp_hi(x)
    BY <2>3, <2>4, <2>5, <2>10
  <2> QED  BY <2>7, <2>9, <2>11, <2>12 DEF y
<1> QED  BY <1>1, <1>2

-----------------------------------------------------------------------------
(* Every placement that is kept or may come back reaches its junctions.    *)

Placement(p, sp) == Tracked(p) /\ Spanned(sp) /\ Reached(p, sp)
Kept(s) == /\ s \in [pos : [Seg -> Int], span : [Seg -> Coord \X Coord]]
           /\ Placement(s.pos, s.span)

PlacementInv ==
  /\ Placement(pos, span)
  /\ pc \in {"sweep", "cross"} => Kept(best)
  /\ pc = "repair" => Kept(start)
  /\ corner # None => Kept(corner)
  /\ pc = "verdict" => corner # None

(* Whoever is not asked, is settled. *)
LEMMA UnaskedIsSettled ==
  ASSUME NEW f, NEW x, NEW src, NEW p, Placed(Partners(f) \cap src, p) = {}
  PROVE  Settled(f, x, src, p)
<1>1. \A lo \in BOOLEAN : Requests(f, lo, src, p) = {}
  BY DEF Requests, Placed, Partners
<1> QED  BY <1>1 DEF Settled

LEMMA SettleSettles ==
  ASSUME NEW src, NEW p, Tracked(p), NEW sp, Spanned(sp)
  PROVE  AllSettled(p, do_span_adjustments(src, Seg, p, sp), src)
<1> DEFINE new == do_span_adjustments(src, Seg, p, sp)
<1> SUFFICES ASSUME NEW f \in Seg  PROVE Settled(f, new[f], src, p)
  BY DEF AllSettled
<1>1. CASE Placed(Partners(f) \cap src, p) = {}
  BY <1>1, UnaskedIsSettled
<1>2. CASE Placed(Partners(f) \cap src, p) # {}
  <2>1. sp[f] \in Coord \X Coord
    BY DEF Spanned
  <2>2. new[f] = Adjusted(f, sp[f], src, p)
    BY <1>2 DEF do_span_adjustments
  <2> QED  BY <2>1, <2>2, AdjustSettles
<1> QED  BY <1>1, <1>2

LEMMA SettleKeepsSettled ==
  ASSUME NEW src, NEW p, NEW sp, Placement(p, sp), NEW old, AllSettled(p, sp, old)
  PROVE  AllSettled(p, do_span_adjustments(src, Seg, p, sp), old)
<1> DEFINE new == do_span_adjustments(src, Seg, p, sp)
<1> SUFFICES ASSUME NEW f \in Seg  PROVE Settled(f, new[f], old, p)
  BY DEF AllSettled
<1>1. Settled(f, sp[f], old, p)
  BY DEF AllSettled
<1>2. CASE Placed(Partners(f) \cap src, p) = {}
  <2>1. new[f] = sp[f]
    BY <1>2 DEF do_span_adjustments
  <2> QED  BY <1>1, <2>1
<1>3. CASE Placed(Partners(f) \cap src, p) # {}
  <2>1. Tracked(p) /\ sp[f] \in Coord \X Coord
    BY DEF Placement, Spanned
  <2>2. new[f] = Adjusted(f, sp[f], src, p)
    BY <1>3 DEF do_span_adjustments
  <2>3. Covers(sp[f], Reach(f, p))
    BY <1>3 DEF Placement, Reached, Placed
  <2> QED  BY <1>1, <2>1, <2>2, <2>3, AdjustKeepsSettled
<1> QED  BY <1>2, <1>3

(* From settled spans, asking the followers of M gives everybody the wire  *)
(* that asking everybody would, and the spans are settled again.           *)
LEMMA ScopedIsExact ==
  ASSUME NEW M, NEW p, NEW q, NEW sp, Tracked(q), Placement(p, sp),
         AllSettled(p, sp, Seg), \A s \in Seg \ M : q[s] = p[s]
  PROVE  LET new == settle_spans_scoped(M, q, sp)
         IN  /\ AllSettled(q, new, Seg)
             /\ \A f \in Seg : SameWire(new[f], settle_spans(q, sp)[f])
<1> DEFINE targets == UNION {Partners(m) : m \in M}
           src == UNION {Partners(t) : t \in targets}
           scoped == settle_spans_scoped(M, q, sp)
           all == settle_spans(q, sp)
<1>1. \A f \in Seg : scoped[f] = IF f \in targets /\ Placed(Partners(f) \cap src, q) # {}
                                 THEN Adjusted(f, sp[f], src, q) ELSE sp[f]
  BY DEF settle_spans_scoped, do_span_adjustments
<1>2. \A f \in Seg : all[f] = IF Placed(Partners(f) \cap Seg, q) # {}
                              THEN Adjusted(f, sp[f], Seg, q) ELSE sp[f]
  BY DEF settle_spans, do_span_adjustments
<1>3. \A f \in Seg : sp[f] \in Coord \X Coord
  BY DEF Placement, Spanned
<1> HIDE DEF scoped, all
<1>4. ASSUME NEW f \in Seg
      PROVE  Settled(f, scoped[f], Seg, q) /\ SameWire(scoped[f], all[f])
  <2>1. CASE f \in targets
    <3>1. Partners(f) \subseteq src /\ Partners(f) \cap Seg = Partners(f)
      BY <2>1, PartnersAreSegments
    <3>2. Partners(f) \cap src = Partners(f) \cap Seg
      BY <3>1
    <3>3. /\ Requests(f, TRUE, src, q) = Requests(f, TRUE, Seg, q)
          /\ Requests(f, FALSE, src, q) = Requests(f, FALSE, Seg, q)
      <4>1. \A j \in Junction : j.of = f => j.to \in Partners(f)
        BY DEF Partners
      <4> HIDE DEF src
      <4>2. \A j \in Junction : j.of = f => j.to \in src /\ j.to \in Seg
        BY <4>1, <3>1
      <4> QED  BY <4>2 DEF Requests, Placed
    <3> HIDE DEF src
    <3>4. Adjusted(f, sp[f], src, q) = Adjusted(f, sp[f], Seg, q)
      BY <3>3 DEF Adjusted
    <3> HIDE DEF targets
    <3>5. scoped[f] = all[f]
      BY <1>1, <1>2, <2>1, <3>2, <3>4
    <3>6. Settled(f, all[f], Seg, q)
      <4>1. CASE Placed(Partners(f) \cap Seg, q) = {}
        BY <4>1, UnaskedIsSettled
      <4>2. CASE Placed(Partners(f) \cap Seg, q) # {}
        BY <1>2, <1>3, <4>2, AdjustSettles
      <4> QED  BY <4>1, <4>2
    <3> QED  BY <3>5, <3>6 DEF SameWire
  <2>2. CASE f \notin targets
    <3>1. \A t \in Partners(f) : t \in Seg /\ t \notin M
      BY <2>2, PartnersAreMutual, PartnersAreSegments
    <3>2. \A t \in Partners(f) : q[t] = p[t]
      BY <3>1
    <3>3. Placed(Partners(f) \cap Seg, q) = Placed(Partners(f), p)
      BY <3>1, <3>2 DEF Placed
    <3>4. ASSUME NEW lo  PROVE Requests(f, lo, Seg, q) = Requests(f, lo, Seg, p)
      <4>1. \A j \in Junction : j.of = f => j.to \in Partners(f)
        BY DEF Partners
      <4> QED  BY <4>1, <3>2 DEF Requests, Placed
    <3>5. Reach(f, q) = Reach(f, p)
      BY <3>2 DEF Reach, Placed
    <3>6. Settled(f, sp[f], Seg, q)
      <4>1. Settled(f, sp[f], Seg, p)
        BY DEF AllSettled
      <4> QED  BY <3>4, <3>5, <4>1 DEF Settled
    <3> HIDE DEF targets, src
    <3>7. scoped[f] = sp[f]
      BY <1>1, <2>2
    <3>8. SameWire(sp[f], all[f])
      <4>1. CASE Placed(Partners(f) \cap Seg, q) = {}
        BY <1>2, <4>1 DEF SameWire
      <4>2. CASE Placed(Partners(f) \cap Seg, q) # {}
        <5>1. Covers(sp[f], Reach(f, q))
          BY <3>3, <3>5, <4>2 DEF Placement, Reached
        <5>2. SameWire(Adjusted(f, sp[f], Seg, q), sp[f])
          BY <1>3, <3>6, <5>1, SettledStays
        <5> QED  BY <1>2, <4>2, <5>2 DEF SameWire
      <4> QED  BY <4>1, <4>2
    <3> QED  BY <3>6, <3>7, <3>8
  <2> QED  BY <2>1, <2>2
<1> QED  BY <1>4 DEF AllSettled, scoped, all

LEMMA TracksAreInts ==
  ASSUME NEW p, Tracked(p)
  PROVE  p \in [Seg -> Int]
<1>1. Coord \cup {Unplaced} \subseteq Int
  BY CoordInt DEF Unplaced
<1> QED  BY <1>1 DEF Tracked

LEMMA RecordsAreKept ==
  ASSUME NEW p, NEW sp, Placement(p, sp)
  PROVE  Kept([pos |-> p, span |-> sp])
BY TracksAreInts DEF Placement, Kept, Spanned

LEMMA PutFacts ==
  ASSUME NEW S \in SUBSET Seg, NEW f \in Seatings(S), Tracked(pos)
  PROVE  /\ Tracked(Put(f))
         /\ \A s \in S : Put(f)[s] # Unplaced
         /\ \A s \in Seg \ S : Put(f)[s] = pos[s]
<1>1. DOMAIN f = S /\ \A s \in S : f[s] \in Window[s]
  BY DEF Seatings
<1>2. \A s \in S : f[s] \in Coord
  BY <1>1, SegmentAssumption
<1>3. Unplaced \notin Coord
  BY SegmentAssumption DEF Coord, Unplaced
<1> QED  BY <1>1, <1>2, <1>3 DEF Put, Tracked

(* Some layers solved again, and everything settled. *)
LEMMA SolvePlaces ==
  ASSUME Placement(pos, span), NEW layers, Solve(layers)
  PROVE  Placement(pos', span')
<1>1. PICK f \in Seatings(On(layers)) : pos' = Put(f) /\ span' = settle_spans(pos', span)
  BY DEF Solve
<1>2. On(layers) \in SUBSET Seg
  BY DEF On
<1>3. Tracked(pos')
  BY <1>1, <1>2, PutFacts DEF Placement
<1> QED  BY <1>1, <1>3, SettleAll DEF Placement

(* A set of segments moved, and its followers settled. *)
LEMMA MovePlaces ==
  ASSUME Placement(pos, span), NEW M \in SUBSET Seg, NEW f \in Seatings(M),
         pos' = Put(f), span' = settle_spans_scoped(M, pos', span)
  PROVE  Placement(pos', span')
<1>1. /\ Tracked(pos') /\ \A s \in M : pos'[s] # Unplaced
      /\ \A s \in Seg \ M : pos'[s] = pos[s]
  BY PutFacts DEF Placement
<1> QED  BY <1>1, SettleScoped DEF Placement

LEMMA SlicePlaces ==
  ASSUME Placement(pos, span), NEW layers, NEW p, Tracked(p),
         \A s \in Seg \ On(layers) : p[s] = pos[s],
         \/ p = pos
         \/ \A s \in On(layers) : p[s] # Unplaced
  PROVE  Placement(p, do_span_adjustments(On(layers), Seg, p, span))
<1> DEFINE new == do_span_adjustments(On(layers), Seg, p, span)
<1>1. Spanned(new)
  BY SettleFacts DEF Placement
<1>2. CASE p = pos
  <2>1. Reached(p, new)
    BY <1>2, SettleAfterMove, \A f \in Seg : Partners(f) \cap {} = {} DEF Placement
  <2> QED  BY <1>1, <2>1 DEF Placement
<1>3. CASE \A s \in On(layers) : p[s] # Unplaced
  <2>1. \A f \in Seg : Partners(f) \cap On(layers) # {} =>
          f \in Seg /\ Placed(Partners(f) \cap On(layers), p) # {}
    BY <1>3 DEF Placed
  <2>2. Reached(p, new)
    BY <2>1, SettleAfterMove DEF Placement
  <2> QED  BY <1>1, <2>2 DEF Placement
<1> QED  BY <1>2, <1>3

LEMMA ReachedAfterContraction ==
  ASSUME NEW p, NEW sp, Placement(p, sp)
  PROVE  /\ Placement(p, tighten_spans_to_reach(p, sp))
         /\ \A f \in Seg : LET x == sp[f]  y == tighten_spans_to_reach(p, sp)[f] IN
              /\ sp_lo(x) <= sp_lo(y) /\ sp_hi(y) <= sp_hi(x)
              /\ \A r \in Reach(f, p) \cup Crossed(f, p) :
                   sp_lo(x) <= r /\ r <= sp_hi(x) => sp_lo(y) <= r /\ r <= sp_hi(y)
<1> DEFINE new == tighten_spans_to_reach(p, sp)
<1>1. \A f \in Seg : Reach(f, p) \cup Crossed(f, p) \in SUBSET Coord
  BY ReachIsCoord, CrossingAssumption DEF Placement, Crossed, Elected, Seated
<1>2. \A f \in Seg : sp[f] \in Coord \X Coord /\ new[f] = Contracted(sp[f], Reach(f, p) \cup Crossed(f, p))
  BY DEF Placement, Spanned, tighten_spans_to_reach
<1>3. ASSUME NEW f \in Seg
      PROVE  /\ new[f] \in Coord \X Coord
             /\ sp_lo(sp[f]) <= sp_lo(new[f]) /\ sp_hi(new[f]) <= sp_hi(sp[f])
             /\ \A r \in Reach(f, p) \cup Crossed(f, p) :
                  sp_lo(sp[f]) <= r /\ r <= sp_hi(sp[f]) => sp_lo(new[f]) <= r /\ r <= sp_hi(new[f])
  <2> DEFINE x == sp[f]
             R == Reach(f, p) \cup Crossed(f, p)
             y == new[f]
  <2>1. x \in Coord \X Coord /\ R \in SUBSET Coord /\ y = Contracted(x, R)
    BY <1>1, <1>2
  <2> HIDE DEF x, R, y
  <2>2. /\ y \in Coord \X Coord
        /\ sp_lo(x) <= sp_lo(y) /\ sp_hi(y) <= sp_hi(x)
        /\ \A r \in R : sp_lo(x) <= r /\ r <= sp_hi(x) => sp_lo(y) <= r /\ r <= sp_hi(y)
    BY <2>1, ContractedFacts
  <2> QED  BY <2>2 DEF x, R, y
<1>4. new = [f \in Seg |-> new[f]]
  BY DEF tighten_spans_to_reach
<1> HIDE DEF new
<1>5. Spanned(new)
  BY <1>3, <1>4 DEF Spanned
<1>6. Reached(p, new)
  BY <1>3 DEF Placement, Reached, Covers
<1>7. Placement(p, new)
  BY <1>5, <1>6 DEF Placement
<1> QED  BY <1>3, <1>7 DEF new

LEMMA PlacementInit == Init => PlacementInv
<1> SUFFICES ASSUME Init PROVE PlacementInv
  OBVIOUS
<1>1. pos = [s \in Seg |-> Unplaced] /\ span = Nominal /\ pc = "done" /\ corner = None
  BY DEF Init
<1>2. Tracked(pos) /\ Spanned(span)
  BY <1>1, SegmentAssumption DEF Tracked, Spanned
<1>3. \A s \in Seg : Placed(Partners(s), pos) = {}
  BY <1>1, PartnersAreSegments DEF Placed
<1>4. Placement(pos, span)
  BY <1>2, <1>3 DEF Placement, Reached
<1> QED  BY <1>1, <1>4 DEF PlacementInv

(* An action after which the tracks and the spans are a placement again,   *)
(* and the copies are those there were or the one just made.               *)
LEMMA PlacementKept ==
  ASSUME PlacementInv, Placement(pos', span'),
         pc' \in {"sweep", "cross"} =>
           \/ best' = [pos |-> pos', span |-> span']
           \/ best' = best /\ pc \in {"sweep", "cross"},
         pc' = "repair" =>
           \/ start' = [pos |-> pos', span |-> span']
           \/ start' = start /\ pc = "repair",
         corner' \in {None, corner, Snapshot},
         pc' = "verdict" => corner' # None
  PROVE  PlacementInv'
<1>1. Kept([pos |-> pos', span |-> span'])
  BY RecordsAreKept
<1>2. Kept(Snapshot)
  BY RecordsAreKept DEF PlacementInv, Snapshot
<1>3. pc' \in {"sweep", "cross"} => Kept(best')
  BY <1>1 DEF PlacementInv
<1>4. pc' = "repair" => Kept(start')
  BY <1>1 DEF PlacementInv
<1>5. corner' # None => Kept(corner')
  BY <1>2 DEF PlacementInv
<1>6. Placement(pos, span)' <=> Placement(pos', span')
  OBVIOUS
<1> QED  BY <1>3, <1>4, <1>5 DEF PlacementInv, Placement, Kept, Tracked, Spanned, Reached, Covers

LEMMA KeptRestored ==
  ASSUME NEW s, Kept(s), Restore(s)
  PROVE  Placement(pos', span') /\ s = [pos |-> pos', span |-> span']
BY DEF Kept, Restore

LEMMA PlacementStep == PlacementInv /\ [Next]_vars => PlacementInv'
<1> SUFFICES ASSUME PlacementInv, [Next]_vars PROVE PlacementInv'
  OBVIOUS
<1> USE DEF PlacementInv
<1>1. CASE Run
  <2>1. pos' = [s \in Seg |-> Unplaced] /\ span' = Nominal /\ pc' = "seed" /\ corner' = corner
    BY <1>1 DEF Run
  <2>2. Tracked(pos') /\ Spanned(span')
    BY <2>1, SegmentAssumption DEF Tracked, Spanned
  <2>3. \A s \in Seg : Placed(Partners(s), pos') = {}
    BY <2>1, PartnersAreSegments DEF Placed
  <2>4. Placement(pos', span')
    BY <2>2, <2>3 DEF Placement, Reached
  <2> QED  BY <2>1, <2>4, PlacementKept
<1>2. ASSUME NEW l, RerunLayer(l) PROVE PlacementInv'
  <2>1. Placement(pos', span')
    BY <1>2, SolvePlaces DEF RerunLayer
  <2>2. pc' = "repair" /\ start' = [pos |-> pos', span |-> span'] /\ corner' = corner
    BY <1>2 DEF RerunLayer
  <2> QED  BY <2>1, <2>2, PlacementKept
<1>3. CASE SeedLayer
  <2> DEFINE L == On({Head(todo)})
  <2>1. PICK f \in Seatings(L) :
          pos' = Put(f) /\ span' = do_span_adjustments(L, Seg, pos', span)
    BY <1>3 DEF SeedLayer
  <2>2. L \in SUBSET Seg
    BY DEF On
  <2> HIDE DEF L
  <2>3. Tracked(pos') /\ (\A s \in L : pos'[s] # Unplaced) /\ \A s \in Seg \ L : pos'[s] = pos[s]
    BY <2>1, <2>2, PutFacts DEF Placement
  <2>4. Placement(pos', span')
    BY <2>1, <2>3, SlicePlaces DEF L
  <2>5. pc' \in {"respan", pc} /\ pc = "seed" /\ corner' = corner
    BY <1>3 DEF SeedLayer
  <2> QED  BY <2>4, <2>5, PlacementKept
<1>4. CASE RespanLayer
  <2>1. pos' = pos /\ span' = do_span_adjustments(On({Head(todo)}), Seg, pos, span)
    BY <1>4 DEF RespanLayer
  <2>2. Placement(pos', span')
    BY <2>1, SlicePlaces DEF Placement
  <2>3. /\ pc = "respan" /\ corner' = corner
        /\ \/ pc' = "sweep" /\ best' = [pos |-> pos, span |-> span']
           \/ pc' = pc
    BY <1>4 DEF RespanLayer
  <2> QED  BY <2>1, <2>2, <2>3, PlacementKept
<1>5. CASE SweepLead
  <2>1. Placement(pos', span')
    BY <1>5, SolvePlaces DEF SweepLead
  <2>2. pc = "sweep" /\ pc' = "cross" /\ best' = best /\ corner' = corner
    BY <1>5 DEF SweepLead
  <2> QED  BY <2>1, <2>2, PlacementKept
<1>6. CASE SweepCross
  <2>1. Placement(pos', span')
    BY <1>6, SolvePlaces DEF SweepCross
  <2>2. /\ pc = "cross" /\ pc' = "sweep" /\ corner' = corner
        /\ best' \in {best, [pos |-> pos', span |-> span']}
    BY <1>6 DEF SweepCross
  <2> QED  BY <2>1, <2>2, PlacementKept
<1>7. CASE EndFixpoint
  <2>1. pc = "sweep" /\ pc' = "repair" /\ Restore(best) /\ start' = best /\ corner' = corner
    BY <1>7 DEF EndFixpoint
  <2>2. Placement(pos', span') /\ best = [pos |-> pos', span |-> span']
    BY <2>1, KeptRestored
  <2> QED  BY <2>1, <2>2, PlacementKept
<1>8. CASE RepairVictim
  <2>1. PICK s \in Seg : \E t \in Window[s] :
          pos' = [pos EXCEPT ![s] = t] /\ span' = settle_spans_scoped({s}, pos', span)
    BY <1>8 DEF RepairVictim, find_overlaps
  <2>2. PICK t \in Window[s] :
          pos' = [pos EXCEPT ![s] = t] /\ span' = settle_spans_scoped({s}, pos', span)
    BY <2>1
  <2>3. t \in Coord /\ Unplaced \notin Coord
    BY <2>1, <2>2, SegmentAssumption DEF Coord, Unplaced
  <2>4. Tracked(pos') /\ pos'[s] = t /\ \A o \in Seg \ {s} : pos'[o] = pos[o]
    BY <2>2, <2>3 DEF Placement, Tracked
  <2>5. \A o \in {s} : pos'[o] # Unplaced
    BY <2>3, <2>4
  <2>6. Placement(pos', span')
    BY <2>2, <2>4, <2>5, SettleScoped DEF Placement
  <2>7. pc' = pc /\ start' = start /\ corner' = corner /\ pc = "repair"
    BY <1>8 DEF RepairVictim
  <2> QED  BY <2>6, <2>7, PlacementKept
<1>9. CASE RepairCluster
  <2>1. PICK C \in Clusters : \E M \in {C, On({Layer[s] : s \in C})} : \E f \in Seatings(M) :
          pos' = Put(f) /\ span' = settle_spans_scoped(M, pos', span)
    BY <1>9 DEF RepairCluster
  <2>2. PICK M \in {C, On({Layer[s] : s \in C})} : \E f \in Seatings(M) :
          pos' = Put(f) /\ span' = settle_spans_scoped(M, pos', span)
    BY <2>1
  <2>5. M \in SUBSET Seg
    <3>1. C \in SUBSET Seg
      BY <2>1 DEF Clusters, find_overlaps
    <3> QED  BY <2>2, <3>1 DEF On
  <2>3. Placement(pos', span')
    BY <2>2, <2>5, MovePlaces
  <2>4. pc' = pc /\ start' = start /\ corner' = corner /\ pc = "repair"
    BY <1>9 DEF RepairCluster
  <2> QED  BY <2>3, <2>4, PlacementKept
<1>10. CASE EndRepair
  <2>1. pc = "repair" /\ corner' = corner
        /\ pc' = IF corner # None THEN "verdict" ELSE IF only # None THEN "tighten" ELSE "corner"
    BY <1>10 DEF EndRepair
  <2>2. (UNCHANGED <<pos, span>>) \/ Restore(start)
    BY <1>10 DEF EndRepair
  <2>3. Placement(pos', span')
    BY <2>1, <2>2, KeptRestored
  <2> QED  BY <2>1, <2>3, PlacementKept
<1>11. CASE CornerRound
  <2>1. Placement(pos', span')
    BY <1>11, SolvePlaces DEF CornerRound
  <2>2. pc' = "repair" /\ corner' = Snapshot /\ start' = [pos |-> pos', span |-> span']
    BY <1>11 DEF CornerRound
  <2> QED  BY <2>1, <2>2, PlacementKept
<1>12. CASE CornerKept
  <2>1. pos' = pos /\ span' = span /\ pc' = "corner" /\ corner' = None
    BY <1>12 DEF CornerKept
  <2> QED  BY <2>1, PlacementKept
<1>13. CASE CornerReversed
  <2>1. pc = "verdict" /\ Restore(corner) /\ pc' = "tighten" /\ corner' = None
    BY <1>13 DEF CornerReversed
  <2>2. Placement(pos', span')
    BY <2>1, KeptRestored
  <2> QED  BY <2>1, <2>2, PlacementKept
<1>14. CASE EndCorner
  <2>1. pos' = pos /\ span' = span /\ pc' = "tighten" /\ corner' = corner
    BY <1>14 DEF EndCorner
  <2> QED  BY <2>1, PlacementKept
<1>15. CASE TightenMove
  <2>1. PICK M \in Aligned \cup {{s} : s \in Seg} : \E f \in Seatings(M) :
          pos' = Put(f) /\ span' = settle_spans_scoped(M, pos', span)
    BY <1>15 DEF TightenMove
  <2>2. M \in SUBSET Seg
    BY <2>1, SegmentAssumption
  <2>3. Placement(pos', span')
    BY <2>1, <2>2, MovePlaces
  <2>4. pc' = pc /\ corner' = corner /\ pc = "tighten"
    BY <1>15 DEF TightenMove
  <2> QED  BY <2>3, <2>4, PlacementKept
<1>16. CASE EndTighten
  <2>1. pos' = pos /\ span' = span /\ pc' = "reach" /\ corner' = corner
    BY <1>16 DEF EndTighten
  <2> QED  BY <2>1, PlacementKept
<1>17. CASE TightenSpans
  <2>1. pos' = pos /\ span' = tighten_spans_to_reach(pos, span) /\ pc' = "done" /\ corner' = corner
    BY <1>17 DEF TightenSpans
  <2>2. Placement(pos', span')
    BY <2>1, ReachedAfterContraction
  <2> QED  BY <2>1, <2>2, PlacementKept
<1>18. CASE UNCHANGED vars
  <2>1. pos' = pos /\ span' = span /\ pc' = pc /\ best' = best /\ start' = start /\ corner' = corner
    BY <1>18 DEF vars
  <2> QED  BY <2>1, PlacementKept
<1> QED
  BY <1>1, <1>2, <1>3, <1>4, <1>5, <1>6, <1>7, <1>8, <1>9, <1>10, <1>11, <1>12, <1>13,
     <1>14, <1>15, <1>16, <1>17, <1>18 DEF Next

(* The placement that stands and those remembered for a fixpoint, a repair *)
(* or a corner round have spans that reach every placed partner.           *)
THEOREM PlacementsReach == Spec => []PlacementInv
BY PlacementInit, PlacementStep, PTL DEF Spec

(* In every design, the wires of every placement of every pass reach what  *)
(* they are connected to, those taken back to included                     *)
(* (do_span_adjustments, nuts.cpp:894).                                    *)
THEOREM WiresReach == Spec => []JunctionsAreReached
<1>1. PlacementInv => JunctionsAreReached
  BY DEF PlacementInv, Placement, Reached, Covers, JunctionsAreReached
<1> QED  BY <1>1, PlacementsReach, PTL

-----------------------------------------------------------------------------
(* Spans are settled from the fixpoint to the last contraction.            *)

(* The layers the last step of the seed still has to visit are those of    *)
(* todo; all others have settled their followers.                          *)
SettledInv ==
  /\ pc \in {"repair", "corner", "verdict", "tighten"} => AllSettled(pos, span, Seg)
  /\ pc \in {"sweep", "cross"} => AllSettled(best.pos, best.span, Seg)
  /\ pc = "repair" => AllSettled(start.pos, start.span, Seg)
  /\ corner # None => AllSettled(corner.pos, corner.span, Seg)
  /\ pc \in {"seed", "respan"} /\ Seg # {} => todo \in Seq(Nat) /\ todo # <<>>
  /\ pc = "respan" =>
       \A s \in Seg : (\E i \in 1..Len(todo) : todo[i] = Layer[s])
                        \/ AllSettled(pos, span, On({Layer[s]}))

LEMMA SettledInit == Init => SettledInv
BY DEF Init, SettledInv

LEMMA OrderFacts == Seg # {} => Order \in Seq(Nat) /\ Order # <<>>
BY SegmentAssumption

LEMMA HeadTail ==
  ASSUME NEW q \in Seq(Nat), q # <<>>
  PROVE  /\ Tail(q) \in Seq(Nat) /\ Len(q) \in Nat /\ Len(Tail(q)) = Len(q) - 1
         /\ \A i \in 1..Len(q) : \/ q[i] = Head(q)
                                 \/ \E k \in 1..Len(Tail(q)) : Tail(q)[k] = q[i]
<1>1. /\ Tail(q) \in Seq(Nat) /\ Len(q) \in Nat /\ Len(q) >= 1 /\ Len(Tail(q)) = Len(q) - 1
      /\ \A k \in 1..Len(Tail(q)) : Tail(q)[k] = q[k + 1]
      /\ Head(q) = q[1]
  OBVIOUS
<1>2. ASSUME NEW i \in 1..Len(q)
      PROVE  q[i] = Head(q) \/ \E k \in 1..Len(Tail(q)) : Tail(q)[k] = q[i]
  <2>1. CASE i = 1
    BY <1>1, <2>1
  <2>2. CASE i # 1
    <3>1. i - 1 \in 1..Len(Tail(q)) /\ (i - 1) + 1 = i
      BY <1>1, <2>2
    <3>2. Tail(q)[i - 1] = q[i]
      BY <1>1, <3>1
    <3> QED  BY <3>1, <3>2
  <2> QED  BY <2>1, <2>2
<1> QED  BY <1>1, <1>2

LEMMA SolveSettles ==
  ASSUME Placement(pos, span), NEW layers, Solve(layers)
  PROVE  AllSettled(pos', span', Seg)
<1>1. PICK f \in Seatings(On(layers)) : pos' = Put(f) /\ span' = settle_spans(pos', span)
  BY DEF Solve
<1>2. Tracked(pos')
  BY <1>1, PutFacts DEF Placement, On
<1> QED  BY <1>1, <1>2, SettleSettles DEF Placement, settle_spans

(* A step of a repair or of a tightening. *)
Scoped == \E M \in SUBSET Seg : /\ \A s \in Seg \ M : pos'[s] = pos[s]
                                /\ span' = settle_spans_scoped(M, pos', span)

LEMMA MovesAreScoped ==
  ASSUME PlacementInv, RepairVictim \/ RepairCluster \/ TightenMove
  PROVE  Scoped
<1>1. Tracked(pos)
  BY DEF PlacementInv, Placement
<1>2. ASSUME NEW M \in SUBSET Seg,
             \E f \in Seatings(M) : pos' = Put(f) /\ span' = settle_spans_scoped(M, pos', span)
      PROVE  Scoped
  <2>1. \A s \in Seg \ M : pos'[s] = pos[s]
    BY <1>1, <1>2, PutFacts
  <2> QED  BY <1>2, <2>1 DEF Scoped
<1>3. CASE RepairVictim
  <2>1. PICK s \in Seg : \E t \in Window[s] :
          pos' = [pos EXCEPT ![s] = t] /\ span' = settle_spans_scoped({s}, pos', span)
    BY <1>3 DEF RepairVictim, find_overlaps
  <2>2. \A o \in Seg \ {s} : pos'[o] = pos[o]
    BY <1>1, <2>1 DEF Tracked
  <2>3. {s} \in SUBSET Seg
    OBVIOUS
  <2> QED  BY <2>1, <2>2, <2>3 DEF Scoped
<1>4. CASE RepairCluster
  <2>1. PICK C \in Clusters : \E M \in {C, On({Layer[s] : s \in C})} : \E f \in Seatings(M) :
          pos' = Put(f) /\ span' = settle_spans_scoped(M, pos', span)
    BY <1>4 DEF RepairCluster
  <2>2. PICK M \in {C, On({Layer[s] : s \in C})} : \E f \in Seatings(M) :
          pos' = Put(f) /\ span' = settle_spans_scoped(M, pos', span)
    BY <2>1
  <2>3. M \in SUBSET Seg
    <3>1. C \in SUBSET Seg
      BY <2>1 DEF Clusters, find_overlaps
    <3> QED  BY <2>2, <3>1 DEF On
  <2> QED  BY <1>2, <2>2, <2>3
<1>5. CASE TightenMove
  <2>1. PICK M \in Aligned \cup {{s} : s \in Seg} : \E f \in Seatings(M) :
          pos' = Put(f) /\ span' = settle_spans_scoped(M, pos', span)
    BY <1>5 DEF TightenMove
  <2>2. M \in SUBSET Seg
    <3>1. Aligned \subseteq SUBSET Seg
      BY SegmentAssumption
    <3>2. {{s} : s \in Seg} \subseteq SUBSET Seg
      OBVIOUS
    <3> QED  BY <3>1, <3>2
  <2> QED  BY <1>2, <2>1, <2>2
<1> QED  BY <1>3, <1>4, <1>5

LEMMA ScopedStep ==
  ASSUME PlacementInv, PlacementInv', AllSettled(pos, span, Seg), Scoped
  PROVE  /\ AllSettled(pos', span', Seg)
         /\ \A s \in Seg : SameWire(span'[s], settle_spans(pos', span)[s])
<1>1. PICK M \in SUBSET Seg : /\ \A s \in Seg \ M : pos'[s] = pos[s]
                              /\ span' = settle_spans_scoped(M, pos', span)
  BY DEF Scoped
<1>2. Tracked(pos') /\ Placement(pos, span)
  BY DEF PlacementInv, Placement, Tracked
<1> QED  BY <1>1, <1>2, ScopedIsExact

(* An action after which the spans are settled, and the copies are those   *)
(* there were or the one just made.                                        *)
LEMMA SettledKept ==
  ASSUME SettledInv, pc' \notin {"seed", "respan", "sweep", "cross"},
         pc' \in {"repair", "corner", "verdict", "tighten"} => AllSettled(pos', span', Seg),
         pc' = "repair" =>
           \/ start' = [pos |-> pos', span |-> span']
           \/ start' = start /\ pc = "repair",
         \/ corner' \in {None, corner}
         \/ corner' = Snapshot /\ pc = "corner"
  PROVE  SettledInv'
<1>1. pc' = "repair" => AllSettled(start'.pos, start'.span, Seg)
  BY DEF SettledInv
<1>2. corner' # None => AllSettled(corner'.pos, corner'.span, Seg)
  BY DEF SettledInv, Snapshot
<1> QED  BY <1>1, <1>2 DEF SettledInv, AllSettled, Settled, Requests, Reach, Placed

LEMMA SettledStep ==
  ASSUME PlacementInv, PlacementInv', SettledInv, [Next]_vars
  PROVE  SettledInv'
<1>0. Placement(pos, span) /\ Tracked(pos) /\ Tracked(pos') /\ Spanned(span)
  BY DEF PlacementInv, Placement, Tracked
<1>1. CASE Run
  <2>1. pc' = "seed" /\ todo' = Order /\ corner' = corner
    BY <1>1 DEF Run
  <2>2. corner' # None => AllSettled(corner'.pos, corner'.span, Seg)
    BY <2>1 DEF SettledInv
  <2> QED  BY <2>1, <2>2, OrderFacts
           DEF SettledInv, AllSettled, Settled, Requests, Reach, Placed
<1>2. ASSUME NEW l, RerunLayer(l) PROVE SettledInv'
  <2>1. AllSettled(pos', span', Seg)
    BY <1>0, <1>2, SolveSettles DEF RerunLayer
  <2>2. pc' = "repair" /\ start' = [pos |-> pos', span |-> span'] /\ corner' = corner
    BY <1>2 DEF RerunLayer
  <2> QED  BY <2>1, <2>2, SettledKept
<1>3. CASE SeedLayer
  <2>1. /\ pc = "seed" /\ corner' = corner
        /\ \/ pc' = "respan" /\ todo' = Order
           \/ pc' = "seed" /\ todo' = Tail(todo) /\ Tail(todo) # <<>>
    BY <1>3 DEF SeedLayer
  <2>2. Seg # {} => todo' \in Seq(Nat) /\ todo' # <<>>
    BY <2>1, OrderFacts, HeadTail DEF SettledInv
  <2>3. pc' = "respan" => \A s \in Seg : \E i \in 1..Len(todo') : todo'[i] = Layer[s]
    <3>1. \A s \in Seg : \E i \in 1..Len(Order) : Order[i] = Layer[s]
      BY SegmentAssumption
    <3> QED  BY <2>1, <3>1
  <2>4. corner' # None => AllSettled(corner'.pos, corner'.span, Seg)
    BY <2>1 DEF SettledInv
  <2> QED  BY <2>1, <2>2, <2>3, <2>4
           DEF SettledInv, AllSettled, Settled, Requests, Reach, Placed
<1>4. CASE RespanLayer
  <2> DEFINE l == Head(todo)
  <2>1. /\ pc = "respan" /\ pos' = pos /\ corner' = corner /\ todo' = Tail(todo)
        /\ span' = do_span_adjustments(On({l}), Seg, pos, span)
        /\ \/ pc' = "sweep" /\ best' = [pos |-> pos, span |-> span'] /\ todo' = <<>>
           \/ pc' = pc /\ todo' # <<>>
    BY <1>4 DEF RespanLayer
  <2>2. AllSettled(pos', span', On({l}))
    BY <1>0, <2>1, SettleSettles
  <2>3. \A s \in Seg : AllSettled(pos, span, On({Layer[s]}))
                         => AllSettled(pos', span', On({Layer[s]}))
    BY <1>0, <2>1, SettleKeepsSettled
  <2>4. Seg # {} => todo' \in Seq(Nat)
    BY <2>1, HeadTail DEF SettledInv
  <2>5. ASSUME NEW s \in Seg
        PROVE  (\E i \in 1..Len(todo') : todo'[i] = Layer[s])
                 \/ AllSettled(pos', span', On({Layer[s]}))
    <3>1. todo \in Seq(Nat) /\ todo # <<>>
      BY <2>1 DEF SettledInv
    <3>2. CASE AllSettled(pos, span, On({Layer[s]}))
      BY <2>3, <3>2
    <3>3. CASE \E i \in 1..Len(todo) : todo[i] = Layer[s]
      <4>1. Layer[s] = l \/ \E k \in 1..Len(Tail(todo)) : Tail(todo)[k] = Layer[s]
        BY <3>1, <3>3, HeadTail
      <4> QED  BY <2>1, <2>2, <4>1
    <3> QED  BY <2>1, <3>2, <3>3 DEF SettledInv
  <2>6. CASE pc' = "sweep"
    <3>1. \A s \in Seg : AllSettled(pos', span', On({Layer[s]}))
      <4>1. todo' = <<>>
        BY <2>1, <2>6
      <4>2. \A s \in Seg : ~ \E i \in 1..Len(todo') : todo'[i] = Layer[s]
        BY <4>1
      <4> QED  BY <2>5, <4>2
    <3>2. AllSettled(pos', span', Seg)
      BY <3>1, SettledByLayers DEF AllSettled
    <3>3. AllSettled(best'.pos, best'.span, Seg)
      BY <2>1, <2>6, <3>2
    <3>4. corner' # None => AllSettled(corner'.pos, corner'.span, Seg)
      BY <2>1 DEF SettledInv
    <3> QED  BY <2>6, <3>3, <3>4 DEF SettledInv, AllSettled, Settled, Requests, Reach, Placed
  <2>7. CASE pc' = "respan"
    <3>1. todo' # <<>>
      BY <2>1, <2>7
    <3>2. corner' # None => AllSettled(corner'.pos, corner'.span, Seg)
      BY <2>1 DEF SettledInv
    <3> QED  BY <2>4, <2>5, <2>7, <3>1, <3>2
             DEF SettledInv, AllSettled, Settled, Requests, Reach, Placed
  <2> QED  BY <2>1, <2>6, <2>7
<1>5. CASE SweepLead \/ SweepCross
  <2>1. \E layers : Solve(layers)
    BY <1>5 DEF SweepLead, SweepCross
  <2>2. AllSettled(pos', span', Seg)
    BY <1>0, <2>1, SolveSettles
  <2>3. /\ pc \in {"sweep", "cross"} /\ pc' \in {"sweep", "cross"} /\ corner' = corner
        /\ best' \in {best, [pos |-> pos', span |-> span']}
    BY <1>5 DEF SweepLead, SweepCross
  <2>4. AllSettled(best'.pos, best'.span, Seg)
    BY <2>2, <2>3 DEF SettledInv
  <2>5. corner' # None => AllSettled(corner'.pos, corner'.span, Seg)
    BY <2>3 DEF SettledInv
  <2> QED  BY <2>3, <2>4, <2>5 DEF SettledInv, AllSettled, Settled, Requests, Reach, Placed
<1>6. CASE EndFixpoint
  <2>1. pc = "sweep" /\ pc' = "repair" /\ Restore(best) /\ start' = best /\ corner' = corner
    BY <1>6 DEF EndFixpoint
  <2>2. best = [pos |-> pos', span |-> span']
    BY <2>1, KeptRestored DEF PlacementInv
  <2>3. AllSettled(pos', span', Seg)
    BY <2>1 DEF SettledInv, Restore
  <2> QED  BY <2>1, <2>2, <2>3, SettledKept
<1>7. CASE RepairVictim \/ RepairCluster \/ TightenMove
  <2>1. /\ pc' = pc /\ pc \in {"repair", "tighten"} /\ start' = start /\ corner' = corner
    BY <1>7 DEF RepairVictim, RepairCluster, TightenMove
  <2>2. AllSettled(pos, span, Seg)
    BY <2>1 DEF SettledInv
  <2>3. AllSettled(pos', span', Seg)
    BY <1>7, <2>2, MovesAreScoped, ScopedStep
  <2> QED  BY <2>1, <2>3, SettledKept
<1>8. CASE EndRepair
  <2>1. /\ pc = "repair" /\ corner' = corner /\ pc' \in {"verdict", "tighten", "corner"}
        /\ (pos' = pos /\ span' = span) \/ Restore(start)
    BY <1>8 DEF EndRepair
  <2>2. AllSettled(pos', span', Seg)
    BY <2>1 DEF SettledInv, Restore
  <2> QED  BY <2>1, <2>2, SettledKept
<1>9. CASE CornerRound
  <2>1. AllSettled(pos', span', Seg)
    BY <1>0, <1>9, SolveSettles DEF CornerRound
  <2>2. /\ pc = "corner" /\ pc' = "repair" /\ corner' = Snapshot
        /\ start' = [pos |-> pos', span |-> span']
    BY <1>9 DEF CornerRound
  <2> QED  BY <2>1, <2>2, SettledKept
<1>10. CASE CornerKept \/ CornerReversed \/ EndCorner
  <2>1. /\ pc' \in {"corner", "tighten"} /\ corner' \in {None, corner}
        /\ \/ pc \in {"verdict", "corner"} /\ pos' = pos /\ span' = span
           \/ pc = "verdict" /\ Restore(corner)
    BY <1>10 DEF CornerKept, CornerReversed, EndCorner
  <2>2. AllSettled(pos', span', Seg)
    BY <2>1 DEF SettledInv, Restore, PlacementInv
  <2> QED  BY <2>1, <2>2, SettledKept
<1>11. CASE EndTighten \/ TightenSpans
  <2>1. pc' \in {"reach", "done"} /\ corner' = corner
    BY <1>11 DEF EndTighten, TightenSpans
  <2> QED  BY <2>1, SettledKept
<1>12. CASE UNCHANGED vars
  BY <1>12 DEF vars, SettledInv, AllSettled, Settled, Requests, Reach, Placed
<1> QED
  BY <1>1, <1>2, <1>3, <1>4, <1>5, <1>6, <1>7, <1>8, <1>9, <1>10, <1>11, <1>12 DEF Next

(* Whatever was placed, swept, kept or taken back before, repairs, corner  *)
(* rounds and tightenings begin from settled spans.                        *)
THEOREM CallSitesAreSettled == Spec => []SettledInv
BY SettledInit, SettledStep, PlacementsReach, PTL DEF Spec

(* In every design, the scoped settling of repairs and tightenings gives   *)
(* every segment the wire that the global one would (the argument at       *)
(* nuts.cpp:968, that its callers enter with settled spans included).      *)
THEOREM ScopedSettlesAll == Spec => ScopedSettleIsExact
<1> DEFINE Exact == (pc \in {"repair", "tighten"} /\ pc' = pc) =>
                      \A s \in Seg : SameWire(span'[s], settle_spans(pos', span)[s])
<1>1. PlacementInv /\ PlacementInv' /\ SettledInv /\ [Next]_vars => [Exact]_vars
  <2> SUFFICES ASSUME PlacementInv, PlacementInv', SettledInv, Next,
                      pc \in {"repair", "tighten"}, pc' = pc
               PROVE  \A s \in Seg : SameWire(span'[s], settle_spans(pos', span)[s])
    OBVIOUS
  <2>1. AllSettled(pos, span, Seg)
    BY DEF SettledInv
  <2>2. RepairVictim \/ RepairCluster \/ TightenMove
    BY DEF Next, Run, RerunLayer, SeedLayer, RespanLayer, SweepLead, SweepCross, EndFixpoint,
       EndRepair, CornerRound, CornerKept, CornerReversed, EndCorner, EndTighten, TightenSpans
  <2> QED  BY <2>1, <2>2, MovesAreScoped, ScopedStep
<1> HIDE DEF Exact
<1>2. Spec => [][Exact]_vars
  BY <1>1, PlacementsReach, CallSitesAreSettled, PTL DEF Spec
<1> QED  BY <1>2 DEF Exact, ScopedSettleIsExact

LEMMA AnchorsStep ==
  ASSUME PlacementInv, Next, pc = "reach", NEW c \in Elected(pos),
         sp_lo(span[c.seg]) <= c.lo, c.hi <= sp_hi(span[c.seg])
  PROVE  sp_lo(span'[c.seg]) <= c.lo /\ c.hi <= sp_hi(span'[c.seg])
<1>1. span' = tighten_spans_to_reach(pos, span)
  BY DEF Next, TightenSpans, Run, RerunLayer, SeedLayer, RespanLayer, SweepLead, SweepCross,
      EndFixpoint, RepairVictim, RepairCluster, EndRepair, CornerRound, CornerKept,
      CornerReversed, EndCorner, TightenMove, EndTighten
<1>2. c \in Crossing
  BY DEF Elected, Seated
<1>3. c.seg \in Seg /\ c.lo \in Coord /\ c.hi \in Coord
  BY <1>2, CrossingAssumption
<1>4. c.lo \in Crossed(c.seg, pos) /\ c.hi \in Crossed(c.seg, pos)
  BY DEF Crossed
<1>5. \A r \in Reach(c.seg, pos) \cup Crossed(c.seg, pos) :
        sp_lo(span[c.seg]) <= r /\ r <= sp_hi(span[c.seg])
          => sp_lo(span'[c.seg]) <= r /\ r <= sp_hi(span'[c.seg])
  BY <1>1, <1>3, ReachedAfterContraction DEF PlacementInv
<1>6. sp_lo(span[c.seg]) \in Int /\ sp_hi(span[c.seg]) \in Int /\ c.lo \in Int /\ c.hi \in Int
  BY <1>3, PairFacts, CoordInt DEF PlacementInv, Placement, Spanned
<1>7. c.lo <= c.hi
  BY <1>2, CrossingAssumption
<1> QED  BY <1>4, <1>5, <1>6, <1>7

(* In every design, the last contraction of the spans keeps the crossings  *)
(* elected for a block covered where they were (nuts.cpp:1109).            *)
THEOREM AnchorsHold == Spec => AnchorsStayCovered
<1> DEFINE Anchored == pc = "reach" => \A c \in Elected(pos) :
             sp_lo(span[c.seg]) <= c.lo /\ c.hi <= sp_hi(span[c.seg])
               => sp_lo(span'[c.seg]) <= c.lo /\ c.hi <= sp_hi(span'[c.seg])
<1>1. PlacementInv /\ [Next]_vars => [Anchored]_vars
  <2> SUFFICES ASSUME PlacementInv, Next PROVE Anchored
    OBVIOUS
  <2> QED  BY AnchorsStep
<1> HIDE DEF Anchored
<1>2. Spec => [][Anchored]_vars
  BY <1>1, PlacementsReach, PTL DEF Spec
<1> QED  BY <1>2 DEF Anchored, AnchorsStayCovered

-----------------------------------------------------------------------------
(* Overlaps after the fixpoint.                                            *)

CountInv ==
  /\ PlacementInv
  /\ post \in Nat
  /\ pc \notin {"repair", "verdict"} => corner = None
  /\ only = None =>
       /\ pc \in {"corner", "tighten", "reach", "done"} => Overlaps(pos, span) <= post
       /\ pc = "repair" /\ corner = None => Overlaps(pos, span) <= post /\ Count(start) <= post
       /\ corner # None => Count(corner) <= post

LEMMA OverlapsAreFinite ==
  ASSUME NEW p, NEW sp
  PROVE  IsFiniteSet(find_overlaps(p, sp)) /\ Overlaps(p, sp) \in Nat
<1>1. IsFiniteSet(Seg \X Seg)
  BY SegmentAssumption, FS_Product
<1>2. find_overlaps(p, sp) \subseteq Seg \X Seg
  BY DEF find_overlaps
<1>3. IsFiniteSet(find_overlaps(p, sp))
  BY <1>1, <1>2, FS_Subset
<1> QED  BY <1>3, FS_CardinalityType DEF Overlaps

(* Shorter spans are in nobody's way who was not there before. *)
LEMMA OverlapsShrink ==
  ASSUME NEW p, NEW old, NEW new, Spanned(old), Spanned(new),
         \A f \in Seg : sp_lo(old[f]) <= sp_lo(new[f]) /\ sp_hi(new[f]) <= sp_hi(old[f])
  PROVE  Overlaps(p, new) <= Overlaps(p, old)
<1>1. \A f \in Seg : /\ sp_lo(old[f]) \in Int /\ sp_hi(old[f]) \in Int
                     /\ sp_lo(new[f]) \in Int /\ sp_hi(new[f]) \in Int
  BY PairFacts DEF Spanned
<1>2. ASSUME NEW s \in Seg, NEW t \in Seg, Neighbours(s, t, new)
      PROVE  Neighbours(s, t, old)
  BY <1>1, <1>2 DEF Neighbours
<1>3. find_overlaps(p, new) \subseteq find_overlaps(p, old)
  BY <1>2 DEF find_overlaps, segs_overlap
<1>4. Cardinality(find_overlaps(p, new)) <= Cardinality(find_overlaps(p, old))
  BY <1>3, OverlapsAreFinite, FS_Subset
<1> QED  BY <1>4 DEF Overlaps

LEMMA CountInit == Init => CountInv
<1> SUFFICES ASSUME Init PROVE CountInv
  OBVIOUS
<1>1. post = 0 /\ corner = None /\ pc = "done" /\ pos = [s \in Seg |-> Unplaced]
  BY DEF Init
<1>2. find_overlaps(pos, span) = {}
  BY <1>1 DEF find_overlaps, segs_overlap
<1>3. Overlaps(pos, span) = 0
  BY <1>2, FS_EmptySet DEF Overlaps
<1> QED  BY <1>1, <1>3, PlacementInit DEF CountInv

LEMMA CountStep == CountInv /\ PlacementInv' /\ [Next]_vars => CountInv'
<1> SUFFICES ASSUME CountInv, PlacementInv', [Next]_vars PROVE CountInv'
  OBVIOUS
<1> DEFINE n == Overlaps(pos, span)
           n1 == Overlaps(pos', span')
<1>a. n \in Nat /\ n1 \in Nat /\ Count(best) \in Nat /\ Count(start) \in Nat /\ Count(corner) \in Nat
  BY OverlapsAreFinite DEF Count
<1>b. /\ PlacementInv /\ post \in Nat
      /\ pc \notin {"repair", "verdict"} => corner = None
      /\ only = None =>
           /\ pc \in {"corner", "tighten", "reach", "done"} => n <= post
           /\ pc = "repair" /\ corner = None => n <= post /\ Count(start) <= post
           /\ corner # None => Count(corner) <= post
  BY DEF CountInv
<1>c. ASSUME post' \in Nat,
             pc' \notin {"repair", "verdict"} => corner' = None,
             only' = None => /\ pc' \in {"corner", "tighten", "reach", "done"} => n1 <= post'
                             /\ pc' = "repair" /\ corner' = None => n1 <= post' /\ Count(start)' <= post'
                             /\ corner' # None => Count(corner)' <= post'
      PROVE  CountInv'
  <2>1. Overlaps(pos, span)' = n1
    BY DEF Overlaps, find_overlaps, segs_overlap, Neighbours
  <2> HIDE DEF n1
  <2> QED  BY <1>c, <2>1 DEF CountInv
<1>d. ASSUME NEW s, pos' = s.pos, span' = s.span PROVE n1 = Count(s)
  BY <1>d DEF Count
<1> HIDE DEF n, n1
<1>1. CASE Run
  BY <1>1, <1>b, <1>c DEF Run
<1>2. ASSUME NEW l \in {Layer[s] : s \in Seg}, RerunLayer(l) PROVE CountInv'
  <2>1. l # None
    BY SegmentAssumption, NoneAssumption
  <2> QED  BY <1>2, <2>1, <1>b, <1>c DEF RerunLayer
<1>3. CASE SeedLayer
  BY <1>3, <1>b, <1>c DEF SeedLayer
<1>4. CASE RespanLayer
  BY <1>4, <1>b, <1>c DEF RespanLayer
<1>5. CASE SweepLead
  BY <1>5, <1>b, <1>c DEF SweepLead
<1>6. CASE SweepCross
  BY <1>6, <1>b, <1>c DEF SweepCross
<1>7. CASE EndFixpoint
  <2>1. n1 = Count(best) /\ post' = Count(best) /\ start' = best /\ corner' = corner /\ pc = "sweep"
        /\ pc' = "repair"
    BY <1>7, <1>d DEF EndFixpoint, Restore
  <2>2. Count(start)' = Count(best)
    BY <2>1 DEF Count, Overlaps, find_overlaps, segs_overlap, Neighbours
  <2> QED  BY <2>1, <2>2, <1>a, <1>b, <1>c
<1>8. CASE RepairVictim
  <2>1. n1 < n /\ pc' = pc /\ pc = "repair" /\ UNCHANGED <<only, start, corner, post>>
    BY <1>8 DEF RepairVictim, n, n1
  <2>2. Count(start)' = Count(start) /\ Count(corner)' = Count(corner)
    BY <2>1 DEF Count, Overlaps, find_overlaps, segs_overlap, Neighbours
  <2> QED  BY <2>1, <2>2, <1>a, <1>b, <1>c
<1>9. CASE RepairCluster
  <2>1. n1 <= n /\ pc' = pc /\ pc = "repair" /\ UNCHANGED <<only, start, corner, post>>
    BY <1>9 DEF RepairCluster, n, n1
  <2>2. Count(start)' = Count(start) /\ Count(corner)' = Count(corner)
    BY <2>1 DEF Count, Overlaps, find_overlaps, segs_overlap, Neighbours
  <2> QED  BY <2>1, <2>2, <1>a, <1>b, <1>c
<1>10. CASE EndRepair
  <2>1. /\ pc = "repair" /\ UNCHANGED <<only, corner, post>>
        /\ pc' = IF corner # None THEN "verdict" ELSE IF only # None THEN "tighten" ELSE "corner"
    BY <1>10 DEF EndRepair
  <2>2. n1 = n \/ n1 = Count(start)
    <3>1. (pos' = pos /\ span' = span) \/ (pos' = start.pos /\ span' = start.span)
      BY <1>10 DEF EndRepair, Restore
    <3> QED  BY <3>1, <1>d DEF n, n1
  <2>3. Count(corner)' = Count(corner)
    BY <2>1 DEF Count, Overlaps, find_overlaps, segs_overlap, Neighbours
  <2> QED  BY <2>1, <2>2, <2>3, <1>a, <1>b, <1>c
<1>11. CASE CornerRound
  <2>1. pc = "corner" /\ pc' = "repair" /\ corner' = Snapshot /\ UNCHANGED <<only, post>>
    BY <1>11 DEF CornerRound
  <2>2. Snapshot # None
    BY <1>b, NoneAssumption, TracksAreInts DEF Snapshot, PlacementInv, Placement, Spanned
  <2>3. Count(corner)' = n
    BY <2>1 DEF Count, Snapshot, n, Overlaps, find_overlaps, segs_overlap, Neighbours
  <2> QED  BY <2>1, <2>2, <2>3, <1>b, <1>c
<1>12. CASE CornerKept
  <2>1. /\ pc = "verdict" /\ n < Count(corner) /\ pc' = "corner" /\ corner' = None
        /\ UNCHANGED <<only, post>>
    BY <1>12 DEF CornerKept, n
  <2>2. n1 = n
    BY <1>12 DEF CornerKept, n, n1
  <2>3. corner # None
    BY <2>1, <1>b DEF PlacementInv
  <2> QED  BY <2>1, <2>2, <2>3, <1>a, <1>b, <1>c
<1>13. CASE CornerReversed
  <2>1. pc = "verdict" /\ pc' = "tighten" /\ corner' = None /\ UNCHANGED <<only, post>>
    BY <1>13 DEF CornerReversed
  <2>2. n1 = Count(corner)
    BY <1>13, <1>d DEF CornerReversed, Restore
  <2>3. corner # None
    BY <2>1, <1>b DEF PlacementInv
  <2> QED  BY <2>1, <2>2, <2>3, <1>b, <1>c
<1>14. CASE EndCorner
  <2>1. pc = "corner" /\ pc' = "tighten" /\ UNCHANGED <<only, post, corner>>
    BY <1>14 DEF EndCorner
  <2>2. n1 = n
    BY <1>14 DEF EndCorner, n, n1
  <2> QED  BY <2>1, <2>2, <1>b, <1>c
<1>15. CASE TightenMove
  <2>1. n1 <= n /\ pc' = pc /\ pc = "tighten" /\ UNCHANGED <<only, corner, post>>
    BY <1>15 DEF TightenMove, n, n1
  <2> QED  BY <2>1, <1>a, <1>b, <1>c
<1>16. CASE EndTighten
  <2>1. pc = "tighten" /\ pc' = "reach" /\ UNCHANGED <<only, post, corner>>
    BY <1>16 DEF EndTighten
  <2>2. n1 = n
    BY <1>16 DEF EndTighten, n, n1
  <2> QED  BY <2>1, <2>2, <1>b, <1>c
<1>17. CASE TightenSpans
  <2>1. /\ pc = "reach" /\ pc' = "done" /\ UNCHANGED <<pos, only, post, corner>>
        /\ span' = tighten_spans_to_reach(pos, span)
    BY <1>17 DEF TightenSpans
  <2>2. Placement(pos, span)
    BY <1>b DEF PlacementInv
  <2>3. /\ Spanned(span')
        /\ \A f \in Seg : sp_lo(span[f]) <= sp_lo(span'[f]) /\ sp_hi(span'[f]) <= sp_hi(span[f])
    BY <2>1, <2>2, ReachedAfterContraction DEF Placement
  <2>4. n1 <= n
    BY <2>1, <2>2, <2>3, OverlapsShrink DEF Placement, n, n1
  <2> QED  BY <2>1, <2>4, <1>a, <1>b, <1>c
<1>18. CASE UNCHANGED vars
  <2>1. UNCHANGED <<pos, span, pc, only, start, corner, post>>
    BY <1>18 DEF vars
  <2>2. n1 = n
    BY <2>1 DEF n, n1
  <2>3. Count(start)' = Count(start) /\ Count(corner)' = Count(corner)
    BY <2>1 DEF Count, Overlaps, find_overlaps, segs_overlap, Neighbours
  <2> QED  BY <2>1, <2>2, <2>3, <1>b, <1>c
<1> QED
  BY <1>1, <1>2, <1>3, <1>4, <1>5, <1>6, <1>7, <1>8, <1>9, <1>10, <1>11, <1>12, <1>13,
     <1>14, <1>15, <1>16, <1>17, <1>18 DEF Next

(* In every design, whatever the passes do, the solver ends with no more   *)
(* overlaps than its fixpoint left (nuts.cpp:1352, 1897, 3493).            *)
THEOREM PassesNeverWorsen == Spec => []NeverWorse
<1>1. CountInv => NeverWorse
  BY DEF CountInv, NeverWorse
<1> QED  BY <1>1, PlacementsReach, CountInit, CountStep, PTL DEF Spec

=============================================================================
