-------------------------------- MODULE Nuts --------------------------------
(***************************************************************************)
(* The passes of the track solver: run and rerun_layer of src/src/nuts.cpp *)
(* and the geometry of nuts_geom.h.                                        *)
(*                                                                         *)
(* A segment has a track, across its direction, and a span along it.  Its  *)
(* junction partners are perpendicular: the track of one is a coordinate   *)
(* on the span of the other.  So every move of a track moves the ends of   *)
(* the followers, which may make them collide, and every pass settles the  *)
(* spans after a move and takes back what did not help.                    *)
(*                                                                         *)
(* Abstractions.  All buses are one track wide; keepouts are part of the   *)
(* windows.  Where the code computes the best track, the model takes any   *)
(* in the window, and where a pass compares distances to pulls or gives    *)
(* up after some rounds, it stops at any time.  Corner constraints appear  *)
(* as the layers they have solved again.  Cutting topologies and fixed     *)
(* segments are left out.                                                  *)
(***************************************************************************)
EXTENDS Tracks, Sequences, FiniteSetsExt

CONSTANTS
  Extent,    \* coordinates of the routing area are 0..Extent
  Seg,       \* the segments, numbered in the order of their keys
  Bundle,    \* Bundle[s], Layer[s]: of a segment
  Layer,
  Order,     \* the layers, ascending
  Lead,      \* those of the leading direction
  Window,    \* Window[s]: the tracks s may have
  Nominal,   \* Nominal[s]: its span in the topology, a pair <<lo, hi>>
  Junction,  \* records [of, to, lo, end]: segment `of` meets `to`, at its low
             \* end or not, where it ends or not
  Faces,     \* Faces[s]: coordinates of the block faces that s taps
  Jog,       \* segments that are jogs of a dogleg
  Pull,      \* Pull[s]: the track s is drawn to, or Unplaced if to none
  Aligned,   \* sets of segments of a layer that hang off one partner
  Crossing,  \* records [seg, block, rect, own, lo, hi, seats]: on a track of
             \* seats, seg covers a rectangle of block by crossing it from lo
             \* to hi; own rectangles do not stand for each other
  None

Coord == 0..Extent
Unplaced == -1

ASSUME SegmentAssumption ==
  /\ Extent \in Nat /\ IsFiniteSet(Seg) /\ Seg \subseteq Nat
  /\ Order \in Seq(Nat) /\ \A s \in Seg : \E i \in DOMAIN Order : Layer[s] = Order[i]
  /\ Window \in [Seg -> SUBSET Coord] /\ Nominal \in [Seg -> Coord \X Coord]
  /\ Faces \in [Seg -> SUBSET Coord] /\ Pull \in [Seg -> Coord \cup {Unplaced}]
  /\ Aligned \subseteq SUBSET Seg

(* Whoever meets a segment is met by it. *)
ASSUME JunctionAssumption ==
  /\ Junction \subseteq [of : Seg, to : Seg, lo : BOOLEAN, end : BOOLEAN]
  /\ \A j \in Junction : \E k \in Junction : k.of = j.to /\ k.to = j.of

ASSUME CrossingAssumption ==
  /\ Crossing \subseteq [seg : Seg, block : STRING, rect : Nat, own : BOOLEAN,
                         lo : Coord, hi : Coord, seats : SUBSET Coord]
  /\ \A c \in Crossing : c.lo <= c.hi

ASSUME NoneAssumption ==
  None \notin Nat /\ None \notin [pos : [Seg -> Int], span : [Seg -> Coord \X Coord]]

VARIABLES
  pos,    \* pos[s]: the track of s; Unplaced before it has one
  span,   \* span[s]: a pair of the coordinates of the low and the high end, in
          \* this order by name only: placement may leave the low end above
  pc,     \* the pass that runs, "done" between commands
  only,   \* the layer a rerun is about, None in a run
  todo,   \* layers the seed has still to visit
  best,   \* the fixpoint's best placement
  start,  \* the placement before the repair
  corner, \* the placement before the corner round that runs, or None
  post    \* overlaps_post_fixpoint

vars == <<pos, span, pc, only, todo, best, start, corner, post>>

-----------------------------------------------------------------------------
(* Geometry.                                                               *)

sp_lo(x) == IF x[1] <= x[2] THEN x[1] ELSE x[2]
sp_hi(x) == IF x[1] <= x[2] THEN x[2] ELSE x[1]

On(layers) == {s \in Seg : Layer[s] \in layers}
Partners(s) == {j.to : j \in {k \in Junction : k.of = s}}
Placed(S, p) == {s \in S : p[s] # Unplaced}

(* Spans that only touch are in each other's way.  Segments of a bundle    *)
(* are the same nets and never are.                                        *)
Neighbours(s, t, sp) ==
  /\ Layer[s] = Layer[t] /\ Bundle[s] # Bundle[t]
  /\ sp_lo(sp[s]) <= sp_hi(sp[t]) /\ sp_lo(sp[t]) <= sp_hi(sp[s])

segs_overlap(s, t, p, sp) ==
  Neighbours(s, t, sp) /\ p[s] = p[t] /\ p[s] # Unplaced

find_overlaps(p, sp) ==
  {pair \in Seg \X Seg : pair[1] < pair[2] /\ segs_overlap(pair[1], pair[2], p, sp)}

Overlaps(p, sp) == Cardinality(find_overlaps(p, sp))

(* occupancy_from: a track no neighbour has. *)
Free(s, t, p, sp) ==
  t \in Window[s] /\ \A o \in Seg : Neighbours(s, o, sp) => p[o] # t

TotalLength(sp) == Total(Seg, [s \in Seg |-> sp_hi(sp[s]) - sp_lo(sp[s])])

-----------------------------------------------------------------------------
(* Settling spans.                                                         *)

(* What the segments of src ask of one end of f. *)
Requests(f, lo, src, p) ==
  {j \in Junction : j.of = f /\ j.lo = lo /\ j.to \in Placed(src, p)}
Centers(R, p) == {p[j.to] : j \in R}

(* Where everybody ends, or a jog does, the end is set, else only extended. *)
IsSet(R) == \/ \A j \in R : j.end
            \/ \E j \in R : j.end /\ j.to \in Jog

LowEnd(x, R, p) ==
  IF R = {} THEN x ELSE Min(Centers(R, p) \cup IF IsSet(R) THEN {} ELSE {x})
HighEnd(x, R, p) ==
  IF R = {} THEN x ELSE Max(Centers(R, p) \cup IF IsSet(R) THEN {} ELSE {x})

(* span_cover for all points of C. *)
Covering(x, C) ==
  IF x[1] <= x[2] THEN <<Min({x[1]} \cup C), Max({x[2]} \cup C)>>
                  ELSE <<Max({x[1]} \cup C), Min({x[2]} \cup C)>>

(* What f must reach: all placed partners, and its block faces. *)
Reach(f, p) == {p[t] : t \in Placed(Partners(f), p)} \cup Faces[f]

(* Mutant of Adjusted: the loop over the requests alone. *)
AdjustedByRequests(f, x, src, p) ==
  Covering(<<LowEnd(x[1], Requests(f, TRUE, src, p), p),
             HighEnd(x[2], Requests(f, FALSE, src, p), p)>>, Faces[f])

Adjusted(f, x, src, p) ==
  Covering(<<LowEnd(x[1], Requests(f, TRUE, src, p), p),
             HighEnd(x[2], Requests(f, FALSE, src, p), p)>>, Reach(f, p))

(* The segments of src move the ends of their followers among targets. *)
do_span_adjustments(src, targets, p, sp) ==
  [f \in Seg |-> IF f \in targets /\ Placed(Partners(f) \cap src, p) # {}
                 THEN Adjusted(f, sp[f], src, p) ELSE sp[f]]

settle_spans(p, sp) == do_span_adjustments(Seg, Seg, p, sp)

(* Mutant of settle_spans_scoped: the moved segments alone are asked. *)
SettleFromMoved(moved, p, sp) == do_span_adjustments(moved, Seg, p, sp)

(* After the tracks of moved changed: their followers, asked in full. *)
settle_spans_scoped(moved, p, sp) ==
  LET targets == UNION {Partners(m) : m \in moved}
  IN  do_span_adjustments(UNION {Partners(t) : t \in targets}, targets, p, sp)

(* The last change of a span: down to what it must reach, and to the       *)
(* crossings elected to cover a block, or each of its own rectangles: the  *)
(* first that is seated there, by segment and rectangle.                   *)
Seated(p) == {c \in Crossing : p[c.seg] \in c.seats}
Rivals(c, d) ==
  /\ Bundle[d.seg] = Bundle[c.seg] /\ d.block = c.block /\ d.own = c.own
  /\ c.own => d.rect = c.rect
Elected(p) ==
  {c \in Seated(p) : \A d \in Seated(p) :
     Rivals(c, d) => c.seg < d.seg \/ (c.seg = d.seg /\ c.rect <= d.rect)}
Crossed(f, p) == UNION {{c.lo, c.hi} : c \in {d \in Elected(p) : d.seg = f}}

Contracted(x, R) ==
  LET lo == Max({sp_lo(x), Min(R)})
      hi == Min({sp_hi(x), Max(R)})
  IN  IF R = {} \/ lo > hi THEN x ELSE IF x[1] <= x[2] THEN <<lo, hi>> ELSE <<hi, lo>>

(* Mutant of tighten_spans_to_reach: junctions and faces alone. *)
TightenToJunctions(p, sp) == [f \in Seg |-> Contracted(sp[f], Reach(f, p))]

tighten_spans_to_reach(p, sp) ==
  [f \in Seg |-> Contracted(sp[f], Reach(f, p) \cup Crossed(f, p))]

-----------------------------------------------------------------------------
(* Placing.                                                                *)

Seatings(S) ==
  {f \in [S -> UNION {Window[s] : s \in S}] : \A s \in S : f[s] \in Window[s]}

(* The tracks of pos but for those f gives. *)
Put(f) == [s \in Seg |-> IF s \in DOMAIN f THEN f[s] ELSE pos[s]]

Snapshot == [pos |-> pos, span |-> span]
Restore(snapshot) == pos' = snapshot.pos /\ span' = snapshot.span
Count(snapshot) == Overlaps(snapshot.pos, snapshot.span)

(* solve_layer for some layers, none of which the others wait for, and the *)
(* settling after it.                                                      *)
Solve(layers) ==
  \E f \in Seatings(On(layers)) : pos' = Put(f) /\ span' = settle_spans(pos', span)

Init ==
  /\ pos = [s \in Seg |-> Unplaced] /\ span = Nominal
  /\ pc = "done" /\ only = None /\ todo = <<>>
  /\ best = None /\ start = None /\ corner = None /\ post = 0

(* run: from the topologies, with no track given. *)
Run ==
  /\ pc = "done" /\ pc' = "seed" /\ only' = None
  /\ pos' = [s \in Seg |-> Unplaced] /\ span' = Nominal
  /\ todo' = Order
  /\ UNCHANGED <<best, start, corner, post>>

(* rerun_layer: the segments of one layer are placed anew. *)
RerunLayer(l) ==
  /\ pc = "done" /\ Placed(Seg, pos) = Seg
  /\ Solve({l})
  /\ pc' = "repair" /\ only' = l
  /\ start' = [pos |-> pos', span |-> span']
  /\ UNCHANGED <<todo, best, corner, post>>

-----------------------------------------------------------------------------
(* orientation_fixpoint.                                                   *)

(* The seed: layer by layer, each settling its own followers at once ...   *)
SeedLayer ==
  /\ pc = "seed"
  /\ \E f \in Seatings(On({Head(todo)})) :
       /\ pos' = Put(f)
       /\ span' = do_span_adjustments(On({Head(todo)}), Seg, pos', span)
  /\ IF Tail(todo) = <<>> THEN pc' = "respan" /\ todo' = Order
                          ELSE todo' = Tail(todo) /\ UNCHANGED pc
  /\ UNCHANGED <<only, best, start, corner, post>>

(* ... and then once more, still layer by layer. *)
RespanLayer ==
  /\ pc = "respan"
  /\ span' = do_span_adjustments(On({Head(todo)}), Seg, pos, span)
  /\ todo' = Tail(todo)
  /\ IF todo' = <<>> THEN pc' = "sweep" /\ best' = [pos |-> pos, span |-> span']
                     ELSE UNCHANGED <<pc, best>>
  /\ UNCHANGED <<pos, only, start, corner, post>>

Leading == {Order[i] : i \in DOMAIN Order} \cap Lead
Crosswise == {Order[i] : i \in DOMAIN Order} \ Lead

(* A sweep over both directions. *)
SweepLead ==
  /\ pc = "sweep" /\ Count(best) > 0 /\ Leading # {} /\ Crosswise # {}
  /\ Solve(Leading)
  /\ pc' = "cross"
  /\ UNCHANGED <<only, todo, best, start, corner, post>>

(* It is kept if it has fewer overlaps (and strays no further from the     *)
(* reserved bands).                                                        *)
SweepCross ==
  /\ pc = "cross" /\ pc' = "sweep"
  /\ Solve(Crosswise)
  /\ LET new == [pos |-> pos', span |-> span']
     IN  best' \in {best} \cup {x \in {new} : Count(new) < Count(best)}
  /\ UNCHANGED <<only, todo, start, corner, post>>

(* Mutant of EndFixpoint: the last sweep stays. *)
EndFixpointKeepsLast ==
  /\ pc = "sweep" /\ pc' = "repair"
  /\ start' = Snapshot /\ best' = None /\ post' = Count(best)
  /\ UNCHANGED <<pos, span, only, todo, corner>>

EndFixpoint ==
  /\ pc = "sweep" /\ pc' = "repair"
  /\ Restore(best)
  /\ start' = best /\ best' = None /\ post' = Count(best)
  /\ UNCHANGED <<only, todo, corner>>

-----------------------------------------------------------------------------
(* repair_overlaps.                                                        *)

(* One of two that collide, if it is drawn nowhere, moves to a free track, *)
(* if that leaves fewer overlaps.                                          *)
RepairVictim ==
  /\ pc = "repair"
  /\ \E pair \in find_overlaps(pos, span) : \E s \in {pair[1], pair[2]} :
       /\ Pull[s] = Unplaced
       /\ \E t \in Window[s] \ {pos[s]} :
            /\ Free(s, t, pos, span)
            /\ pos' = [pos EXCEPT ![s] = t]
            /\ span' = settle_spans_scoped({s}, pos', span)
            /\ Overlaps(pos', span') < Overlaps(pos, span)
  /\ UNCHANGED <<pc, only, todo, best, start, corner, post>>

(* Segments that are wedged into each other: a component of the overlaps. *)
Closed(C) == \A pair \in find_overlaps(pos, span) : pair[1] \in C <=> pair[2] \in C
Clusters ==
  LET Wedged == UNION {{pair[1], pair[2]} : pair \in find_overlaps(pos, span)}
  IN  {C \in SUBSET Wedged \ {{}} :
         Closed(C) /\ \A D \in SUBSET C \ {{}, C} : ~Closed(D)}
Inside(C, p, sp) ==
  Cardinality({pair \in find_overlaps(p, sp) : pair[1] \in C /\ pair[2] \in C})

(* repack_overlap_clusters: the cluster, or it and its layer, seated anew: *)
(* fewer overlaps in it, no more in all.                                   *)
RepairCluster ==
  /\ pc = "repair"
  /\ \E C \in Clusters : \E M \in {C, On({Layer[s] : s \in C})} : \E f \in Seatings(M) :
       /\ pos' = Put(f)
       /\ span' = settle_spans_scoped(M, pos', span)
       /\ Overlaps(pos', span') <= Overlaps(pos, span)
       /\ Inside(C, pos', span') < Inside(C, pos, span)
  /\ UNCHANGED <<pc, only, todo, best, start, corner, post>>

(* All is taken back unless it has helped. *)
EndRepair ==
  /\ pc = "repair"
  /\ IF Overlaps(pos, span) < Count(start) THEN UNCHANGED <<pos, span>> ELSE Restore(start)
  /\ pc' = IF corner # None THEN "verdict" ELSE IF only # None THEN "tighten" ELSE "corner"
  /\ start' = None
  /\ UNCHANGED <<only, todo, best, corner, post>>

-----------------------------------------------------------------------------
(* resolve_corner_overlaps.                                                *)

(* The layers of the trunks that overlapping stubs hang off are solved     *)
(* again, with constraints that keep the stubs apart, and repaired.        *)
CornerRound ==
  /\ pc = "corner"
  /\ LET Stubs == UNION {{pair[1], pair[2]} : pair \in find_overlaps(pos, span)}
         Trunks == UNION {Partners(s) : s \in Stubs}
     IN  \E layers \in SUBSET {Layer[t] : t \in Trunks} \ {{}} : Solve(layers)
  /\ pc' = "repair" /\ corner' = Snapshot
  /\ start' = [pos |-> pos', span |-> span']
  /\ UNCHANGED <<only, todo, best, post>>

(* The round is kept if it leaves fewer overlaps.  One that does not, or    *)
(* that puts a segment out of its interval, which the model does not see,  *)
(* is taken back and ends the pass.                                        *)
CornerKept ==
  /\ pc = "verdict" /\ Overlaps(pos, span) < Count(corner)
  /\ pc' = "corner" /\ corner' = None
  /\ UNCHANGED <<pos, span, only, todo, best, start, post>>

CornerReversed ==
  /\ pc = "verdict"
  /\ Restore(corner)
  /\ pc' = "tighten" /\ corner' = None
  /\ UNCHANGED <<only, todo, best, start, post>>

EndCorner ==
  /\ pc = "corner" /\ pc' = "tighten"
  /\ UNCHANGED <<pos, span, only, todo, best, start, corner, post>>

-----------------------------------------------------------------------------
(* tighten_pulls, and the last change of the spans.                        *)

Distance(s, t) == IF t <= Pull[s] THEN Pull[s] - t ELSE t - Pull[s]

(* A segment alone, or an aligned group as one, slides to free tracks, if  *)
(* that shortens the wires and adds no overlap.                            *)
TightenMove ==
  /\ pc = "tighten"
  /\ \E M \in Aligned \cup {{s} : s \in Seg} : \E f \in Seatings(M) :
       /\ only # None => M \subseteq On({only})
       /\ \E s \in M : Pull[s] # Unplaced
       /\ \A s \in M : f[s] = pos[s] \/ Free(s, f[s], pos, span)
       /\ \A s \in M : M = {s} => Distance(s, f[s]) < Distance(s, pos[s])
       /\ pos' = Put(f)
       /\ span' = settle_spans_scoped(M, pos', span)
       /\ Overlaps(pos', span') <= Overlaps(pos, span)
       /\ TotalLength(span') < TotalLength(span)
  /\ UNCHANGED <<pc, only, todo, best, start, corner, post>>

EndTighten ==
  /\ pc = "tighten" /\ pc' = "reach"
  /\ UNCHANGED <<pos, span, only, todo, best, start, corner, post>>

TightenSpans ==
  /\ pc = "reach" /\ pc' = "done"
  /\ span' = tighten_spans_to_reach(pos, span)
  /\ UNCHANGED <<pos, only, todo, best, start, corner, post>>

Next ==
  \/ Run \/ \E l \in {Layer[s] : s \in Seg} : RerunLayer(l)
  \/ SeedLayer \/ RespanLayer \/ SweepLead \/ SweepCross \/ EndFixpoint
  \/ RepairVictim \/ RepairCluster \/ EndRepair
  \/ CornerRound \/ CornerKept \/ CornerReversed \/ EndCorner
  \/ TightenMove \/ EndTighten \/ TightenSpans

Spec == Init /\ [][Next]_vars

-----------------------------------------------------------------------------
(* Properties.                                                             *)

(* A wire reaches what it is connected to, at every moment: the span of a  *)
(* segment covers the tracks of all its placed partners and, with them,    *)
(* the block faces it taps, although a settling asks some partners only,   *)
(* may pull an end in, and placements are taken back (do_span_adjustments, *)
(* nuts.cpp:894).                                                          *)
JunctionsAreReached ==
  \A s \in Seg : Placed(Partners(s), pos) # {} =>
    \A x \in Reach(s, pos) : sp_lo(span[s]) <= x /\ x <= sp_hi(span[s])

(* No pass after the fixpoint makes it worse: from there to the end of a   *)
(* run there are never more overlaps than the fixpoint left, except while  *)
(* a corner round is tried out (nuts.cpp:1352, 1897, 3493).                *)
NeverWorse ==
  only = None /\ corner = None /\ pc \in {"repair", "corner", "tighten", "reach", "done"}
    => Overlaps(pos, span) <= post

(* The shortcut is exact: settling the followers of the segments moved     *)
(* gives every segment the wire that settling all would.  It is so only if *)
(* the spans are settled when a repair or a tightening begins, after a     *)
(* fixpoint restored, a repair or a round taken back, a layer solved again *)
(* (the argument of settle_spans_scoped, nuts.cpp:968).                    *)
SameWire(x, y) == sp_lo(x) = sp_lo(y) /\ sp_hi(x) = sp_hi(y)

ScopedSettleIsExact ==
  [][(pc \in {"repair", "tighten"} /\ pc' = pc) =>
       \A s \in Seg : SameWire(span'[s], settle_spans(pos', span)[s])]_vars

(* A block that a bundle crosses on purpose keeps its wire: the last       *)
(* contraction leaves a crossing elected for it covered where it was       *)
(* (tighten_spans_to_reach, nuts.cpp:1109).                                *)
AnchorsStayCovered ==
  [][pc = "reach" => \A c \in Elected(pos) :
       sp_lo(span[c.seg]) <= c.lo /\ c.hi <= sp_hi(span[c.seg])
         => sp_lo(span'[c.seg]) <= c.lo /\ c.hi <= sp_hi(span'[c.seg])]_vars

=============================================================================
