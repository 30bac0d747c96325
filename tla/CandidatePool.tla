--------------------------- MODULE CandidatePool ---------------------------
(***************************************************************************)
(* One bundle's candidate pool and everything that points into it.         *)
(*                                                                         *)
(* The pool is a vector of topologies (BundleInput.candidates), and the    *)
(* session refers to its members by INDEX: the selection, the members of a *)
(* super-candidate group pin, and the two entries of the dogleg            *)
(* bookkeeping.  Script commands append to the vector, re-sort it, replace *)
(* it and delete from it, and each has to carry the indices along.  The    *)
(* per-segment overrides are arrays indexed by the segments of one         *)
(* topology and say nowhere which one it was.                              *)
(*                                                                         *)
(* The commands are those of a flat session with no BDB open and no        *)
(* selections sidecar (src/buda_session/edit.py and the handlers of        *)
(* src/buda_cmds that call it).  An index is 1-based here; 0 stands for    *)
(* the code's -1 and for an absent dictionary entry.                       *)
(***************************************************************************)
EXTENDS Integers, FiniteSets, Sequences, SequencesExt

CONSTANTS
    Generated,  \* the shapes the topology generator can produce
    Hand,       \* the shapes a user can draw (type USER)
    Rank,       \* the wirelength a shape is ranked by
    Families,   \* the nominal-locus families: sets of generated shapes
    None,       \* no topology
    MaxCuts,    \* bound: how often NUTS splits the same shape
    MaxPool     \* bound: the length of the pool

Shapes == Generated \cup Hand

ASSUME ShapesAssumption ==
    /\ None \notin Shapes /\ Generated \cap Hand = {}
    /\ IsFiniteSet(Generated)
ASSUME RankAssumption == Rank \in [Shapes -> Nat]
ASSUME FamiliesAssumption ==
    /\ Families \subseteq SUBSET Generated
    /\ \A F, G \in Families : F = G \/ F \cap G = {}
ASSUME BoundsAssumption == MaxCuts \in Nat /\ MaxPool \in Nat

\* A topology: a shape, and how many doglegs NUTS has cut into it.  A split
\* keeps the type of the topology it was cut from, so a split of a drawn
\* shape is still of type USER.
Topologies == [shape : Shapes, cuts : 0 .. MaxCuts]

Whole(s) == [shape |-> s, cuts |-> 0]
User(t) == t.shape \in Hand

VARIABLES
    pool,       \* input.candidates
    sel,        \* plan.selected_topology_index
    pinned,     \* input.topology_pinned
    group,      \* input.pinned_group
    slot,       \* _dogleg_slot[bid]: where the adopted split was put
    orig,       \* _dogleg_originals[bid]: the selection it replaced
    over,       \* the topology plan.seg_slide_* and seg_net_pull index
    planner     \* a run_planner has left a live planner in the session

vars == <<pool, sel, pinned, group, slot, orig, over, planner>>

Init ==
    /\ pool = <<>>
    /\ sel = 0
    /\ pinned = FALSE
    /\ group = {}
    /\ slot = 0
    /\ orig = 0
    /\ over = None
    /\ planner = FALSE

(***************************************************************************)
(* Pools as sequences.                                                     *)
(***************************************************************************)
Least(S) == CHOOSE x \in S : \A y \in S : x =< y
Greatest(S) == CHOOSE x \in S : \A y \in S : y =< x

\* Where a topology (a topo_uid) is in a pool.
Places(p, t) == {i \in DOMAIN p : p[i] = t}

\* The candidates of p at the places I, in an order of these places.
Arranged(p, I, order) ==
    LET rank(i) == Cardinality({j \in I : <<j, i>> \in order}) + 1 IN
    [k \in 1 .. Cardinality(I) |-> p[CHOOSE i \in I : rank(i) = k]]

\* The candidates of p at the places I, as they stand.
Only(p, I) == Arranged(p, I, {e \in I \X I : e[1] < e[2]})

\* The order of annotate_and_sort: the wirelength, then the segment count (a
\* split keeps its wirelength and has more segments), then, the sort being
\* stable, the place.
Before(p, i, j) ==
    LET wi == Rank[p[i].shape]
        wj == Rank[p[j].shape] IN
    \/ wi < wj
    \/ wi = wj /\ p[i].cuts < p[j].cuts
    \/ wi = wj /\ p[i].cuts = p[j].cuts /\ i < j

Sorted(p) ==
    Arranged(p, DOMAIN p, {e \in (DOMAIN p) \X (DOMAIN p) : Before(p, e[1], e[2])})

\* What the generator answers when its knobs make it produce the shapes S.
Fresh(S) == Sorted(SetToSeq({Whole(s) : s \in S}))

\* The index, in q, of the topology p has at i: the uid map keeps the last
\* of two equal candidates.
Moved(p, q, i) == IF i \in DOMAIN p THEN Greatest(Places(q, p[i])) ELSE i

(***************************************************************************)
(* The planner, as its caller sees it: a group pin restricts the sweep to  *)
(* the members that exist, else a usable single pin to one index, else all *)
(* of the pool is swept.  It may also assign nothing (no candidate has a   *)
(* legal layer).                                                           *)
(***************************************************************************)
Sweep(p, s, single, members) ==
    LET g == members \cap DOMAIN p IN
    IF g # {} THEN g
    ELSE IF single /\ s \in DOMAIN p THEN {s} ELSE DOMAIN p

\* _replan_layers: a bundle with no assignment keeps its selection.
Replanned(s, single, members) ==
    IF planner THEN Sweep(pool, s, single, members) \cup {s} ELSE {s}

(***************************************************************************)
(* generate_topologies, generate_topologies_for_bundle: a new pool, the    *)
(* USER candidates re-appended, the plan reset, the pin re-attached by     *)
(* uid; then the opt-in cleanups (prune, dedup, drop), which drop generated*)
(* candidates other than the selected one and never the whole pool.        *)
(***************************************************************************)
Kept == Only(pool, {i \in DOMAIN pool : User(pool[i])})

Dropped(p, D) == Only(p, {i \in DOMAIN p : p[i] \notin D})

\* Mutant of Generate: the dogleg bookkeeping survives the pool.
GenerateKeepsSlot(S, D) ==
    LET all == Fresh(S) \o Kept
        held == IF pinned /\ sel \in DOMAIN pool THEN Places(all, pool[sel])
                ELSE {}
        new == Dropped(all, D) IN
    /\ \A i \in held : all[i] \notin D
    /\ D # {} => new # <<>>
    /\ pool' = new
    /\ pinned' = (held # {})
    /\ sel' = IF held = {} THEN 0 ELSE Least(Places(new, pool[sel]))
    /\ over' = None
    /\ UNCHANGED <<slot, orig, group, planner>>

Generate(S, D) ==
    LET all == Fresh(S) \o Kept
        held == IF pinned /\ sel \in DOMAIN pool THEN Places(all, pool[sel])
                ELSE {}
        new == Dropped(all, D) IN
    /\ \A i \in held : all[i] \notin D
    /\ D # {} => new # <<>>
    /\ pool' = new
    /\ pinned' = (held # {})
    /\ sel' = IF held = {} THEN 0 ELSE Least(Places(new, pool[sel]))
    /\ slot' = 0 /\ orig' = 0
    /\ over' = None
    /\ UNCHANGED <<group, planner>>

(***************************************************************************)
(* generate_more_topologies: append what is new, re-sort, and move every   *)
(* index with its candidate.                                               *)
(***************************************************************************)
\* Mutant of Resort: the dogleg slot is looked up under another key and keeps
\* its place.
ResortForgetsSlot(p) ==
    LET new == Sorted(p) IN
    /\ pool' = new
    /\ sel' = Moved(p, new, sel)
    /\ slot' = slot
    /\ orig' = Moved(p, new, orig)
    /\ group' = {Moved(p, new, i) : i \in group \cap DOMAIN p}

\* Mutant of Resort: a group pin keeps its raw indices.
ResortForgetsGroup(p) ==
    LET new == Sorted(p) IN
    /\ pool' = new
    /\ sel' = Moved(p, new, sel)
    /\ slot' = Moved(p, new, slot)
    /\ orig' = Moved(p, new, orig)
    /\ group' = group

Resort(p) ==
    LET new == Sorted(p) IN
    /\ pool' = new
    /\ sel' = Moved(p, new, sel)
    /\ slot' = Moved(p, new, slot)
    /\ orig' = Moved(p, new, orig)
    /\ group' = {Moved(p, new, i) : i \in group \cap DOMAIN p}

Merge(S) == pool \o Dropped(Fresh(S), {pool[i] : i \in DOMAIN pool})

GenerateMore(S) ==
    /\ UNCHANGED <<pinned, over, planner>>
    /\ Len(Merge(S)) =< MaxPool
    /\ Resort(Merge(S))

(***************************************************************************)
(* select_topology <b> <n>: pin one candidate; the overrides go when it is *)
(* another than the selected one.                                          *)
(***************************************************************************)
SelectTopology(i) ==
    /\ i \in DOMAIN pool
    /\ over' = IF i = sel THEN over ELSE None
    /\ group' = {}
    /\ pinned' = TRUE
    /\ sel' \in Replanned(i, TRUE, {})
    /\ UNCHANGED <<pool, slot, orig, planner>>

\* The nominal-locus family of a candidate; a drawn or a split one is alone.
Members(i) ==
    {i} \cup {j \in DOMAIN pool :
                /\ pool[i].cuts = 0 /\ pool[j].cuts = 0
                /\ \E F \in Families : {pool[i].shape, pool[j].shape} \subseteq F}

\* select_topology <b> group:<n>: pin the candidate's whole family.
SelectGroup(i) ==
    /\ i \in DOMAIN pool
    /\ over' = IF Members(i) = {sel} THEN over ELSE None
    /\ group' = Members(i)
    /\ pinned' = FALSE
    /\ sel' \in Replanned(Least(Members(i)), FALSE, Members(i))
    /\ UNCHANGED <<pool, slot, orig, planner>>

\* select_topology on some other bundle re-plans this one too.
SelectElsewhere ==
    /\ sel' \in Replanned(sel, pinned, group)
    /\ UNCHANGED <<pool, pinned, group, slot, orig, over, planner>>

\* unpin_topology: the single and the group pin go together; the selection
\* and the overrides stay.
Unpin ==
    /\ pinned' = FALSE
    /\ group' = {}
    /\ UNCHANGED <<pool, sel, slot, orig, over, planner>>

(***************************************************************************)
(* edit_commit [pin]: a drawn topology, or an unchanged copy of a pooled   *)
(* one, is appended unless it is in the pool.  The slide windows staged in *)
(* the session become overrides if the committed candidate is the selected *)
(* one; a group pin is left alone.                                         *)
(***************************************************************************)
Commit(t, pin, windows) ==
    LET found == Places(pool, t)
        idx == IF found = {} THEN Len(pool) + 1 ELSE Least(found)
        now == IF pin THEN idx ELSE sel IN
    /\ found = {} => Len(pool) < MaxPool
    /\ pool' = IF found = {} THEN Append(pool, t) ELSE pool
    /\ sel' = now
    /\ pinned' = (pinned \/ pin)
    /\ over' = IF now = idx /\ windows THEN t ELSE over
    /\ UNCHANGED <<group, slot, orig, planner>>

EditCommit ==
    \E t \in {Whole(s) : s \in Hand} \cup {pool[i] : i \in DOMAIN pool} :
    \E pin, windows \in BOOLEAN : Commit(t, pin, windows)

(***************************************************************************)
(* run_planner (flat): _reset_doglegs deletes the slot, goes back to the   *)
(* selection it replaced and drops the overrides; then the planner chooses.*)
(***************************************************************************)
\* Mutant of WithoutSplit: the split is taken to be the last candidate.
WithoutLast == IF slot # 0 THEN SubSeq(pool, 1, Len(pool) - 1) ELSE pool

WithoutSplit == IF slot \in DOMAIN pool THEN RemoveAt(pool, slot) ELSE pool

BeforeSplit ==
    IF slot = 0 THEN sel ELSE IF orig \in DOMAIN WithoutSplit THEN orig ELSE 1

\* Mutant of RunPlanner: the split's overrides stay.
RunPlannerKeepsOverrides ==
    /\ pool' = WithoutSplit
    /\ slot' = 0 /\ orig' = 0
    /\ over' = over
    /\ sel' \in Sweep(WithoutSplit, BeforeSplit, pinned, group) \cup {0}
    /\ planner' = TRUE
    /\ UNCHANGED <<pinned, group>>

RunPlanner ==
    /\ pool' = WithoutSplit
    /\ slot' = 0 /\ orig' = 0
    /\ over' = IF slot = 0 THEN over ELSE None
    /\ sel' \in Sweep(WithoutSplit, BeforeSplit, pinned, group) \cup {0}
    /\ planner' = TRUE
    /\ UNCHANGED <<pinned, group>>

(***************************************************************************)
(* run_nuts when NUTS breaks a cycle by splitting the selected topology:   *)
(* _adopt_doglegs appends the split, or overwrites the slot it has, and    *)
(* selects it with the pulls and windows of its segments.                  *)
(***************************************************************************)
Split(t) == [t EXCEPT !.cuts = @ + 1]

RunNuts ==
    /\ sel \in DOMAIN pool /\ pool[sel].cuts < MaxCuts
    /\ IF slot \in DOMAIN pool
       THEN /\ pool' = [pool EXCEPT ![slot] = Split(pool[sel])]
            /\ UNCHANGED <<slot, orig>>
       ELSE /\ Len(pool) < MaxPool
            /\ pool' = Append(pool, Split(pool[sel]))
            /\ slot' = Len(pool')
            /\ orig' = sel
    /\ sel' = slot'
    /\ over' = Split(pool[sel])
    /\ UNCHANGED <<pinned, group, planner>>

Regenerate ==
    \E S \in SUBSET Generated :
    \E D \in SUBSET {Whole(s) : s \in S} : Generate(S, D)
Accrete == \E S \in SUBSET Generated : GenerateMore(S)

Next ==
    \/ Regenerate
    \/ Accrete
    \/ \E i \in DOMAIN pool : SelectTopology(i) \/ SelectGroup(i)
    \/ SelectElsewhere
    \/ Unpin
    \/ EditCommit
    \/ RunPlanner
    \/ RunNuts

Spec == Init /\ [][Next]_vars

(***************************************************************************)
(* Properties.                                                             *)
(***************************************************************************)

\* Every variable has its type, and the indices the session follows without
\* a bounds check stay inside the pool (edit.py:84-115, 230-239).
TypeOK ==
    /\ pool \in Seq(Topologies)
    /\ sel \in {0} \cup DOMAIN pool
    /\ pinned \in BOOLEAN
    /\ group \subseteq Nat \ {0}
    /\ slot \in {0} \cup DOMAIN pool
    /\ orig \in {0} \cup DOMAIN pool
    /\ over \in Topologies \cup {None}
    /\ planner \in BOOLEAN

\* The dogleg bookkeeping always names a split and the candidate it stands
\* for, and a split of a generated shape is in the pool only while the
\* bookkeeping names it: no command may leave one behind to be planned as an
\* ordinary candidate (edit.py:84-91, 207-208).
SplitsAreNamed ==
    /\ (slot = 0) = (orig = 0)
    /\ slot # 0 => pool[slot].cuts > 0
    /\ \A i \in DOMAIN pool :
         pool[i].cuts > 0 /\ ~User(pool[i]) => i = slot

\* Overrides that index the segments of a split of a generated shape exist
\* only while that very split is the adopted one, whichever commands moved,
\* overwrote or deleted it since (edit.py:84-91: "its overrides, indexed by
\* the obsolete split topology, must not survive").
OverridesDieWithTheSplit ==
    over # None /\ ~User(over) /\ over.cuts > 0 => slot # 0 /\ pool[slot] = over

\* No command but a regeneration takes an unsplit candidate out of the pool,
\* and none at all takes out a user's drawing: the planner's deletion of the
\* slot and NUTS's overwriting of it never hit a genuine candidate
\* (edit.py:62-70, 100-105; topologies.md: USER candidates survive).
CandidatesAreKept ==
    [][\A i \in DOMAIN pool :
         \/ pool[i].cuts > 0
         \/ Places(pool', pool[i]) # {}
         \/ ~User(pool[i]) /\ Regenerate]_vars

\* Accretion changes no decision: the selection, the adopted split, the
\* candidate it replaced and the family of a group pin are the same
\* topologies before and after the re-sort (edit.py:197-239, 242-249).
Family(p, g) == {p[i] : i \in g \cap DOMAIN p}
Follows(i, j) == IF i = 0 THEN j = 0 ELSE j # 0 /\ pool'[j] = pool[i]
AccretionKeepsReferences ==
    [][\/ /\ Follows(sel, sel') /\ Follows(slot, slot') /\ Follows(orig, orig')
          /\ group \subseteq DOMAIN pool =>
               Family(pool, group) = Family(pool', group')
       \/ ~Accrete]_vars

\* "restore the pre-split selection" (edit.py, _reset_doglegs): a pinned
\* bundle that is on the split of its pinned candidate when it is re-planned
\* comes back to that candidate.
ResetRestoresOriginal ==
    [][(/\ pinned /\ group = {} /\ sel # 0 /\ sel = slot
        /\ pool[slot].shape = pool[orig].shape
        /\ RunPlanner) => sel' = 0 \/ pool'[sel'] = pool[orig]]_vars
=============================================================================
