--------------------------- MODULE Healers_proofs ---------------------------
(***************************************************************************)
(* What Healers keeps true for every design, whatever planner and solver   *)
(* answer: prices are gone after a negotiation, the database is written at *)
(* rest only and then holds what the session holds, a rejected trial       *)
(* leaves no trace, a move made lowers the metric, and when ripup_reroute  *)
(* gives up no candidate of a contender would have.                        *)
(***************************************************************************)
EXTENDS Healers, SequenceTheorems, TLAPS

-----------------------------------------------------------------------------
(* The control of the two loops: a trial is under way, and an improving    *)
(* move found, in the search of a ripup only, and demand is injected in a  *)
(* negotiation only.                                                       *)

Searching == {"scan", "sweep", "occupants"}
Negotiating == {"negotiate", "reprice", "judge"}

Flow ==
  /\ trial # "none" => pc \in Searching
  /\ best # None => pc \in Searching
  /\ injected => pc \in Negotiating

LEMMA InitFlow == Init => Flow
BY DEF Init, Flow

LEMMA NextFlow == Flow /\ [Next]_vars => Flow'
<1> SUFFICES ASSUME Flow, [Next]_vars  PROVE Flow'
  OBVIOUS
<1> USE DEF Flow, Searching, Negotiating
<1>1. CASE RunPlanner \/ RunNuts
  <2>1. pc = "idle" /\ pc' = pc /\ trial' = trial /\ best' = best
    BY <1>1 DEF RunPlanner, RunNuts, loop, search, probe
  <2>2. injected' = FALSE \/ injected' = injected
    BY <1>1 DEF RunPlanner, RunNuts
  <2> QED  BY <2>1, <2>2
<1>2. CASE StartRipup \/ StartNegotiate
  BY <1>2 DEF StartRipup, StartNegotiate, Ready, session, search, probe
<1>3. CASE Iterate \/ StartSweep \/ StartOccupants \/ NextContender
  BY <1>3 DEF Iterate, StartSweep, StartOccupants, NextContender, session, loop, probe
<1>4. ASSUME NEW b \in Bundle, Scan(b)  PROVE Flow'
  BY <1>4 DEF Scan, session, loop, probe
<1>5. ASSUME NEW t, TryKept(t)  PROVE Flow'
  BY <1>5 DEF TryKept, StartTrial, loop, search
<1>6. ASSUME NEW b, NEW t, TryDeferred(b, t)  PROVE Flow'
  BY <1>6 DEF TryDeferred, StartTrial, loop
<1>7. CASE Replan \/ Solve \/ Verdict
  <2>1. trial # "none" /\ pc' = pc /\ injected' = injected
    BY <1>7 DEF Replan, Solve, Verdict, loop
  <2> QED  BY <2>1
<1>8. CASE TrialRaises
  BY <1>8 DEF TrialRaises, Idle
<1>9. CASE Commit
  <2>1. trial = "none" /\ trial' = trial /\ best # None /\ best' = None /\ injected' = injected
    BY <1>9 DEF Commit, probe
  <2> QED  BY <2>1
<1>10. CASE EndRipup
  BY <1>10 DEF EndRipup, Idle, Stalled, session, search, probe
<1>11. CASE Inject
  BY <1>11 DEF Inject, probe
<1>12. ASSUME NEW b \in Bundle, Reprice(b)  PROVE Flow'
  <2>1. pc = "reprice" /\ pc' = pc /\ injected' = injected /\ trial' = trial /\ best' = best
    BY <1>12 DEF Reprice, loop, probe
  <2> QED  BY <2>1
<1>13. CASE Resolve \/ Accept \/ Press
  BY <1>13 DEF Resolve, Accept, Press, session, search, probe
<1>14. CASE EndNegotiate \/ NegotiateRaises
  BY <1>14 DEF EndNegotiate, NegotiateRaises, Idle, probe
<1>15. CASE UNCHANGED vars
  BY <1>15 DEF vars, session, loop, search, probe
<1> QED
  BY <1>1, <1>2, <1>3, <1>4, <1>5, <1>6, <1>7, <1>8, <1>9, <1>10, <1>11, <1>12,
     <1>13, <1>14, <1>15 DEF Next, Ripup, Negotiate

LEMMA FlowHolds == Spec => []Flow
BY InitFlow, NextFlow, PTL DEF Spec

(* A negotiation's prices never outlive it: no trial of a later ripup is   *)
(* planned under them, whichever way the negotiation ended.                *)
THEOREM PricesNeverLeak == Spec => []InjectedNeverLeaks
<1>1. Flow => InjectedNeverLeaks
  BY DEF Flow, InjectedNeverLeaks, Searching, Negotiating
<1> QED  BY <1>1, FlowHolds, PTL

-----------------------------------------------------------------------------
(* The database.                                                           *)

Stored == bdb = [ses |-> bdb.ses, nuts |-> bdb.nuts]

LEMMA InitStored == Init => Stored
BY DEF Init, Stored

(* What is written, when, and that nothing else is. *)
Write ==
  /\ Stored'
  /\ bdb' # bdb => /\ pc' = "idle" /\ trial' = "none"
                   /\ bdb'.ses # bdb.ses => bdb'.ses = ses'
                   /\ bdb'.nuts # bdb.nuts => bdb'.nuts = nuts'

LEMMA CheckpointWrites ==
  ASSUME Stored, Checkpoint, pc' = "idle", trial' = "none"
  PROVE  Write
BY DEF Stored, Checkpoint, Write, store

LEMMA NextWrites == Flow /\ Stored /\ [Next]_vars => Write
<1> SUFFICES ASSUME Flow, Stored, [Next]_vars  PROVE Write
  OBVIOUS
<1>0. ASSUME bdb' = bdb  PROVE Write
  BY <1>0 DEF Write, Stored
<1>1. CASE RunPlanner
  <2>1. trial' = "none" /\ pc' = "idle"
    BY <1>1 DEF RunPlanner, Flow, Searching, loop, probe
  <2>2. bdb' = [ses |-> ses', nuts |-> bdb.nuts]
    BY <1>1 DEF RunPlanner, Stored
  <2> QED  BY <2>1, <2>2 DEF Write, Stored
<1>2. CASE RunNuts
  <2>1. trial' = "none" /\ pc' = "idle"
    BY <1>2 DEF RunNuts, Flow, Searching, loop, probe
  <2>2. bdb' = [ses |-> bdb.ses, nuts |-> nuts']
    BY <1>2 DEF RunNuts, Stored
  <2> QED  BY <2>1, <2>2 DEF Write, Stored
<1>3. CASE EndRipup
  <2>1. trial = "none"
    BY <1>3 DEF EndRipup, Stalled, Flow, Searching
  <2>2. trial' = "none" /\ pc' = "idle" /\ Checkpoint
    BY <1>3, <2>1 DEF EndRipup, Idle, probe
  <2> QED  BY <2>2, CheckpointWrites
<1>4. CASE EndNegotiate
  <2>1. trial = "none"
    BY <1>4 DEF EndNegotiate, Flow, Searching
  <2>2. trial' = "none" /\ pc' = "idle" /\ Checkpoint
    BY <1>4, <2>1 DEF EndNegotiate, Idle, probe
  <2> QED  BY <2>2, CheckpointWrites
<1>5. CASE StartRipup \/ StartNegotiate \/ Iterate \/ StartSweep \/ StartOccupants
           \/ NextContender \/ Replan \/ Solve \/ Verdict \/ TrialRaises \/ Commit
           \/ Inject \/ Resolve \/ Accept \/ Press \/ NegotiateRaises
  BY <1>0, <1>5 DEF StartRipup, StartNegotiate, Iterate, StartSweep, StartOccupants,
       NextContender, Replan, Solve, Verdict, TrialRaises, Commit, Inject, Resolve,
       Accept, Press, NegotiateRaises, store
<1>6. ASSUME NEW b \in Bundle, Scan(b) \/ Reprice(b)  PROVE Write
  BY <1>0, <1>6 DEF Scan, Reprice, store
<1>7. ASSUME NEW b, NEW t, TryKept(t) \/ TryDeferred(b, t)  PROVE Write
  BY <1>0, <1>7 DEF TryKept, TryDeferred, StartTrial, store
<1>8. CASE UNCHANGED vars
  BY <1>0, <1>8 DEF vars, store
<1> QED
  BY <1>1, <1>2, <1>3, <1>4, <1>5, <1>6, <1>7, <1>8 DEF Next, Ripup, Negotiate

LEMMA StoredHolds == Spec => []Stored
<1>1. Write => Stored'
  BY DEF Write
<1> QED  BY <1>1, InitStored, NextWrites, FlowHolds, PTL DEF Spec

(* No trial and no rejected iteration is ever stored: the database changes *)
(* when a command or a healer returns, to what the session then holds.     *)
THEOREM OnlyStoredAtRest == Spec => StoredAtRest
<1>1. Flow /\ Stored /\ [Next]_vars =>
        [bdb' # bdb => /\ pc' = "idle" /\ trial' = "none"
                       /\ bdb'.ses # bdb.ses => bdb'.ses = ses'
                       /\ bdb'.nuts # bdb.nuts => bdb'.nuts = nuts']_vars
  BY NextWrites DEF Write
<1> QED  BY <1>1, StoredHolds, FlowHolds, PTL DEF Spec, StoredAtRest

-----------------------------------------------------------------------------
(* Wrappers and the split in their pool.                                   *)

IsRecord(w) ==
  w = [pool |-> w.pool, sel |-> w.sel, pin |-> w.pin, layers |-> w.layers,
       over |-> w.over, slot |-> w.slot, orig |-> w.orig]

Wrapper(w) ==
  /\ IsRecord(w)
  /\ w.pool \in Seq(Topologies)
  /\ w.slot \in {0, Len(w.pool)}

Session(s) ==
  /\ s = [b \in Bundle |-> s[b]]
  /\ \A b \in Bundle : Wrapper(s[b])

(* The pool p without its last topology. *)
Shortened(p, q) ==
  /\ Len(p) + 1 = Len(q)
  /\ \A i \in 1..Len(p) : p[i] = q[i]

(* w has the pool and the split of then, or it has lost the split. *)
Back(w, then) ==
  \/ w.pool = then.pool /\ w.slot = then.slot
  \/ w.slot = 0 /\ then.slot # 0 /\ Shortened(w.pool, then.pool)

(* The pool p differs from that of then in its split and in what follows.  *)
Near(p, then) ==
  /\ p \in Seq(Topologies)
  /\ Len(p) >= Len(then.pool) \/ (then.slot # 0 /\ Len(p) + 1 = Len(then.pool))
  /\ \A i \in 1..Len(then.pool) : i # then.slot /\ i <= Len(p) => p[i] = then.pool[i]

LEMMA RemoveLast ==
  ASSUME NEW S, NEW q \in Seq(S), q # <<>>
  PROVE  RemoveAt(q, Len(q)) \in Seq(S) /\ Shortened(RemoveAt(q, Len(q)), q)
<1> DEFINE n == Len(q)
           p == SubSeq(q, 1, n - 1)
<1>1. n \in Nat /\ n >= 1 /\ \A i \in 1..n : q[i] \in S
  BY LenProperties, EmptySeq, ElementOfSeq
<1>2. p \in Seq(S) /\ Len(p) = n - 1 /\ \A i \in 1..(n - 1) : p[i] = q[i]
  <2> HIDE DEF n
  <2>1. /\ 1 \in Int /\ n - 1 \in Int
        /\ \A i \in 1..(n - 1) : q[i] \in S
        /\ (n - 1) - 1 + 1 = n - 1
        /\ \A i \in 1..(n - 1) : 1 + i - 1 = i
        /\ (IF 1 <= n - 1 THEN (n - 1) - 1 + 1 ELSE 0) = n - 1
    BY <1>1
  <2>2. /\ SubSeq(q, 1, n - 1) \in Seq(S)
        /\ Len(SubSeq(q, 1, n - 1)) = IF 1 <= n - 1 THEN (n - 1) - 1 + 1 ELSE 0
        /\ \A i \in 1..((n - 1) - 1 + 1) : SubSeq(q, 1, n - 1)[i] = q[1 + i - 1]
    BY <2>1, SubSeqProperties
  <2>3. \A i \in 1..(n - 1) : SubSeq(q, 1, n - 1)[i] = q[i]
    BY <2>1, <2>2
  <2> QED  BY <2>1, <2>2, <2>3
<1>3. SubSeq(q, n + 1, n) = <<>>
  BY <1>1, SubSeqEmpty
<1>4. RemoveAt(q, n) = p
  BY <1>2, <1>3, ConcatEmptySeq DEF RemoveAt
<1> QED  BY <1>1, <1>2, <1>4 DEF Shortened

(* Putting the split back into a pool that lost it gives the old pool. *)
LEMMA InsertLast ==
  ASSUME NEW S, NEW q \in Seq(S), NEW p \in Seq(S), Shortened(p, q)
  PROVE  InsertAt(p, Len(q), q[Len(q)]) = q
<1> DEFINE n == Len(q)
           r == Append(p, q[n])
<1>1. n \in Nat /\ Len(p) \in Nat /\ n = Len(p) + 1 /\ n \in 1..n
  BY LenProperties DEF Shortened
<1>2. q[n] \in S
  BY <1>1, ElementOfSeq
<1>3. SubSeq(p, 1, n - 1) = p
  BY <1>1, SubSeqFull
<1>4. SubSeq(p, n, Len(p)) = <<>>
  BY <1>1, SubSeqEmpty
<1>5. <<q[n]>> \in Seq(S) /\ p \o <<q[n]>> \in Seq(S)
  BY <1>2, ConcatProperties
<1>6. InsertAt(p, n, q[n]) = p \o <<q[n]>>
  BY <1>3, <1>4, <1>5, ConcatEmptySeq DEF InsertAt
<1>7. /\ Len(p \o <<q[n]>>) = n
      /\ \A i \in 1..n : (p \o <<q[n]>>)[i] = q[i]
  BY <1>1, <1>2, <1>5, ConcatProperties DEF Shortened
<1> QED  BY <1>5, <1>6, <1>7, SeqEqual

(* _rr_restore gives back the pool of the snapshot, split included. *)
LEMMA NearRestores ==
  ASSUME NEW then, Wrapper(then), NEW p, Near(p, then)
  PROVE  RestoredPool(p, then) = then.pool
<1> DEFINE q == then.pool
           sized == IF Len(p) < Len(q) THEN InsertAt(p, then.slot, q[then.slot])
                                       ELSE SubSeq(p, 1, Len(q))
<1>1. /\ p \in Seq(Topologies) /\ q \in Seq(Topologies)
      /\ Len(p) \in Nat /\ Len(q) \in Nat /\ then.slot \in {0, Len(q)}
  BY LenProperties DEF Wrapper, Near
<1>2. CASE Len(p) < Len(q)
  <2>1. then.slot = Len(q) /\ Shortened(p, q)
    BY <1>1, <1>2 DEF Near, Shortened
  <2>2. sized = q
    BY <1>1, <1>2, <2>1, InsertLast
  <2>3. [q EXCEPT ![then.slot] = q[then.slot]] = q
    BY <1>1
  <2> QED  BY <2>2, <2>3 DEF RestoredPool
<1>3. CASE Len(p) >= Len(q)
  <2>1. /\ sized \in Seq(Topologies) /\ Len(sized) = Len(q)
        /\ \A i \in 1..Len(q) : sized[i] = p[i]
    <3>1. \A i \in 1..Len(q) : p[i] \in Topologies
      BY <1>1, <1>3, ElementOfSeq
    <3>2. sized = SubSeq(p, 1, Len(q))
      BY <1>1, <1>3
    <3> QED  BY <1>1, <3>1, <3>2, SubSeqProperties
  <2>2. \A i \in 1..Len(q) : i # then.slot => sized[i] = q[i]
    BY <1>1, <1>3, <2>1 DEF Near
  <2>3. DOMAIN sized = 1..Len(q)
    BY <1>1, <2>1, LenProperties
  <2>4. CASE then.slot \in 1..Len(q)
    <3> DEFINE r == [sized EXCEPT ![then.slot] = q[then.slot]]
    <3>1. q[then.slot] \in Topologies
      BY <1>1, <2>4, ElementOfSeq
    <3>2. r \in Seq(Topologies) /\ Len(r) = Len(q)
      BY <2>1, <2>4, <3>1, ExceptSeq
    <3>3. \A i \in 1..Len(q) : r[i] = q[i]
      <4> TAKE i \in 1..Len(q)
      <4>1. r[i] = IF i = then.slot THEN q[then.slot] ELSE sized[i]
        BY <2>3
      <4> QED  BY <2>2, <4>1
    <3>4. r = q
      BY <1>1, <3>2, <3>3, SeqEqual
    <3>5. RestoredPool(p, then) = r
      BY <2>3, <2>4 DEF RestoredPool
    <3> QED  BY <3>4, <3>5
  <2>5. CASE then.slot \notin 1..Len(q)
    <3>1. sized = q
      BY <1>1, <2>1, <2>2, <2>5, SeqEqual
    <3> QED  BY <2>3, <2>5, <3>1 DEF RestoredPool
  <2> QED  BY <2>4, <2>5
<1> QED  BY <1>1, <1>2, <1>3

(* A pool that holds the split or has lost it is near the old pool. *)
LEMMA BackIsNear ==
  ASSUME NEW w, Wrapper(w), NEW then, Wrapper(then), Back(w, then)
  PROVE  Near(w.pool, then)
<1>1. /\ w.pool \in Seq(Topologies) /\ then.pool \in Seq(Topologies)
      /\ Len(w.pool) \in Nat /\ Len(then.pool) \in Nat
  BY LenProperties DEF Wrapper
<1>2. CASE w.pool = then.pool
  BY <1>1, <1>2 DEF Near
<1>3. CASE then.slot # 0 /\ Shortened(w.pool, then.pool)
  BY <1>1, <1>3 DEF Near, Shortened
<1> QED  BY <1>2, <1>3 DEF Back

LEMMA SplitIsTopology ==
  ASSUME NEW t \in Topologies  PROVE Split(t) \in Topologies
BY DEF Topologies, Split

LEMMA Except5 ==
  ASSUME NEW w, IsRecord(w), NEW p, NEW s, NEW o, NEW i, NEW v
  PROVE  IsRecord([w EXCEPT !.pool = p, !.slot = s, !.orig = o, !.sel = i, !.over = v])
<1> DEFINE w1 == [w EXCEPT !.pool = p]
           w2 == [w1 EXCEPT !.slot = s]
           w3 == [w2 EXCEPT !.orig = o]
           w4 == [w3 EXCEPT !.sel = i]
           w5 == [w4 EXCEPT !.over = v]
<1>1. IsRecord(w1)
  BY DEF IsRecord
<1> HIDE DEF w1
<1>2. IsRecord(w2)
  BY <1>1 DEF IsRecord
<1> HIDE DEF w2
<1>3. IsRecord(w3)
  BY <1>2 DEF IsRecord
<1> HIDE DEF w3
<1>4. IsRecord(w4)
  BY <1>3 DEF IsRecord
<1> HIDE DEF w4
<1>5. IsRecord(w5)
  BY <1>4 DEF IsRecord
<1> QED  BY <1>5 DEF w1, w2, w3, w4

(* An adopted split goes into the slot of its bundle or behind the pool, so *)
(* it disturbs nothing else.                                                *)
LEMMA AdoptIsNear ==
  ASSUME NEW w, Wrapper(w), w.sel \in DOMAIN w.pool,
         NEW then, Wrapper(then), Back(w, then)
  PROVE  Wrapper(Adopt(w)) /\ Adopt(w).slot # 0 /\ Near(Adopt(w).pool, then)
<1> DEFINE t == Split(Topo(w))
           n == Len(w.pool)
<1>1. /\ w.pool \in Seq(Topologies) /\ then.pool \in Seq(Topologies)
      /\ n \in Nat /\ Len(then.pool) \in Nat /\ DOMAIN w.pool = 1..n
      /\ w.slot \in {0, n}
  BY LenProperties DEF Wrapper
<1>2. t \in Topologies
  BY <1>1, ElementOfSeq, SplitIsTopology DEF Topo
<1>3. Near(w.pool, then)
  BY BackIsNear
<1>4. CASE w.slot \in DOMAIN w.pool
  <2> DEFINE p == [w.pool EXCEPT ![w.slot] = t]
  <2>1. w.slot = n /\ w.slot \in 1..n
    BY <1>1, <1>4
  <2>2. p \in Seq(Topologies) /\ Len(p) = n
    BY <1>1, <1>2, <2>1, ExceptSeq
  <2>3. \A i \in 1..n : i # w.slot => p[i] = w.pool[i]
    BY <1>1
  <2>4. w.pool = then.pool /\ w.slot = then.slot
    BY <1>1, <2>1 DEF Back
  <2>5. Near(p, then)
    BY <1>1, <2>2, <2>3, <2>4 DEF Near
  <2>6. Adopt(w).pool = p /\ Adopt(w).slot = w.slot
    BY <1>4 DEF Adopt, Wrapper, IsRecord
  <2>7. IsRecord(Adopt(w))
    BY <1>4, Except5 DEF Adopt, Wrapper
  <2> HIDE DEF p
  <2>8. Wrapper(Adopt(w))
    BY <2>1, <2>2, <2>6, <2>7 DEF Wrapper
  <2> QED  BY <1>1, <2>1, <2>5, <2>6, <2>8
<1>5. CASE w.slot \notin DOMAIN w.pool
  <2> DEFINE p == Append(w.pool, t)
  <2>1. /\ p \in Seq(Topologies) /\ Len(p) = n + 1
        /\ \A i \in 1..n : p[i] = w.pool[i]
    BY <1>1, <1>2, AppendProperties
  <2>2. w.slot = 0
    BY <1>1, <1>5
  <2> HIDE DEF p
  <2>3. ASSUME w.pool = then.pool, then.slot = 0  PROVE Near(p, then)
    BY <1>1, <2>1, <2>3 DEF Near
  <2>4. ASSUME then.slot # 0, Shortened(w.pool, then.pool)  PROVE Near(p, then)
    <3>1. then.slot = Len(then.pool) /\ Len(then.pool) = n + 1
      BY <1>1, <2>4 DEF Shortened, Wrapper
    <3>2. \A i \in 1..Len(then.pool) : i # then.slot => p[i] = then.pool[i]
      BY <1>1, <2>1, <2>4, <3>1 DEF Shortened
    <3> QED  BY <1>1, <2>1, <3>1, <3>2 DEF Near
  <2>5. Near(p, then)
    BY <2>2, <2>3, <2>4 DEF Back
  <2>6. Adopt(w).pool = p /\ Adopt(w).slot = n + 1
    BY <1>5 DEF p, Adopt, Wrapper, IsRecord
  <2>7. IsRecord(Adopt(w))
    BY <1>5, Except5 DEF Adopt, Wrapper
  <2>8. Wrapper(Adopt(w))
    BY <2>1, <2>6, <2>7 DEF Wrapper
  <2> QED  BY <1>1, <2>5, <2>6, <2>8
<1> QED  BY <1>4, <1>5

(* Forgetting the split shortens the pool by it. *)
LEMMA UndoglegIsBack ==
  ASSUME NEW w, Wrapper(w)
  PROVE  Wrapper(Undogleg(w)) /\ Back(Undogleg(w), w)
<1>1. CASE w.slot = 0
  BY <1>1 DEF Undogleg, Back
<1>2. CASE w.slot # 0
  <2> DEFINE u == Undogleg(w)
  <2>1. w.pool \in Seq(Topologies) /\ w.pool # <<>> /\ w.slot = Len(w.pool)
    BY <1>2, EmptySeq DEF Wrapper
  <2>2. u.pool = RemoveAt(w.pool, w.slot) /\ u.slot = 0
    BY <1>2 DEF Undogleg, Wrapper, IsRecord
  <2>3. u.pool \in Seq(Topologies) /\ Shortened(u.pool, w.pool)
    BY <2>1, <2>2, RemoveLast
  <2>4. IsRecord(u)
    BY <1>2 DEF Undogleg, Wrapper, IsRecord
  <2> QED  BY <1>2, <2>2, <2>3, <2>4 DEF Wrapper, Back
<1> QED  BY <1>1, <1>2

-----------------------------------------------------------------------------
(* The same of whole sessions.                                             *)

Same(s, then) ==
  \A b \in Bundle : s[b].pool = then[b].pool /\ s[b].slot = then[b].slot
AllBack(s, then) == \A b \in Bundle : Back(s[b], then[b])
AllNear(s, then) == \A b \in Bundle : Near(s[b].pool, then[b])
Beside(s, then, changed) == \A b \in Bundle \ changed : s[b] = then[b]

LEMMA SameIsNear ==
  ASSUME NEW s, Session(s), NEW then, Session(then), Same(s, then)
  PROVE  AllNear(s, then)
BY BackIsNear DEF Session, Same, AllNear, Back

LEMMA BackIsAllNear ==
  ASSUME NEW s, Session(s), NEW then, Session(then), AllBack(s, then)
  PROVE  AllNear(s, then)
BY BackIsNear DEF Session, AllBack, AllNear

Select(w, i, q, l, v) == [w EXCEPT !.sel = i, !.pin = q, !.layers = l, !.over = v]

LEMMA SelectOne ==
  ASSUME NEW w, Wrapper(w), NEW i, NEW q, NEW l, NEW v
  PROVE  /\ Wrapper(Select(w, i, q, l, v))
         /\ Select(w, i, q, l, v).pool = w.pool
         /\ Select(w, i, q, l, v).slot = w.slot
<1> DEFINE w1 == [w EXCEPT !.sel = i]
           w2 == [w1 EXCEPT !.pin = q]
           w3 == [w2 EXCEPT !.layers = l]
           w4 == [w3 EXCEPT !.over = v]
<1>1. IsRecord(w) /\ w.pool \in Seq(Topologies) /\ w.slot \in {0, Len(w.pool)}
  BY DEF Wrapper
<1>2. IsRecord(w1) /\ w1.pool = w.pool /\ w1.slot = w.slot
  BY <1>1 DEF IsRecord
<1> HIDE DEF w1
<1>3. IsRecord(w2) /\ w2.pool = w.pool /\ w2.slot = w.slot
  BY <1>2 DEF IsRecord
<1> HIDE DEF w2
<1>4. IsRecord(w3) /\ w3.pool = w.pool /\ w3.slot = w.slot
  BY <1>3 DEF IsRecord
<1> HIDE DEF w3
<1>5. IsRecord(w4) /\ w4.pool = w.pool /\ w4.slot = w.slot
  BY <1>4 DEF IsRecord
<1> HIDE DEF w4
<1>6. Wrapper(w4)
  BY <1>1, <1>5 DEF Wrapper
<1>7. Select(w, i, q, l, v) = w4
  BY DEF Select, w1, w2, w3, w4
<1> QED  BY <1>5, <1>6, <1>7

(* Pinning, planning and assigning change no pool. *)
LEMMA SelectKeeps ==
  ASSUME NEW s, Session(s), NEW b, NEW i, NEW q, NEW l, NEW v,
         NEW r, r = [c \in Bundle |-> r[c]],
         \A c \in Bundle : c # b => r[c] = s[c],
         b \in Bundle => r[b] = Select(s[b], i, q, l, v)
  PROVE  Session(r) /\ Same(r, s) /\ Beside(r, s, {b})
<1>1. \A c \in Bundle : Wrapper(r[c]) /\ r[c].pool = s[c].pool /\ r[c].slot = s[c].slot
  BY SelectOne DEF Session
<1> QED  BY <1>1 DEF Session, Same, Beside

LEMMA PinnedKeeps ==
  ASSUME NEW s, Session(s), NEW b, NEW t
  PROVE  /\ Session(Pinned(s, b, t))
         /\ Same(Pinned(s, b, t), s)
         /\ Beside(Pinned(s, b, t), s, {b})
<1> DEFINE v == IF s[b].slot # 0 \/ t # s[b].sel THEN None ELSE s[b].over
           r == Pinned(s, b, t)
<1>1. r = [c \in Bundle |-> r[c]] /\ \A c \in Bundle : c # b => r[c] = s[c]
  BY DEF Pinned, Session
<1>2. ASSUME b \in Bundle
      PROVE  r[b] = Select(s[b], t, TRUE, s[b].layers, v)
  <2>1. r[b] = [s[b] EXCEPT !.sel = t, !.pin = TRUE, !.over = v]
    BY <1>2 DEF Pinned, Session
  <2>2. IsRecord(s[b])
    BY <1>2 DEF Session, Wrapper
  <2> QED  BY <2>1, <2>2 DEF IsRecord, Select
<1> HIDE DEF r, v
<1>3. Session(r) /\ Same(r, s) /\ Beside(r, s, {b})
  BY <1>1, <1>2, SelectKeeps
<1> QED  BY <1>3 DEF r

LEMMA AssignedKeeps ==
  ASSUME NEW s, Session(s), NEW b, NEW i, NEW l
  PROVE  Session(Assigned(s, b, i, l)) /\ Same(Assigned(s, b, i, l), s)
<1> DEFINE q == s[b].pin
           v == IF i # s[b].sel THEN None ELSE s[b].over
           r == Assigned(s, b, i, l)
<1>1. r = [c \in Bundle |-> r[c]] /\ \A c \in Bundle : c # b => r[c] = s[c]
  BY DEF Assigned, Session
<1>2. ASSUME b \in Bundle  PROVE r[b] = Select(s[b], i, q, l, v)
  <2>1. r[b] = [s[b] EXCEPT !.sel = i, !.layers = l, !.over = v]
    BY <1>2 DEF Assigned, Session
  <2>2. IsRecord(s[b])
    BY <1>2 DEF Session, Wrapper
  <2> QED  BY <2>1, <2>2 DEF IsRecord, Select
<1> HIDE DEF r, q, v
<1>3. Session(r) /\ Same(r, s) /\ Beside(r, s, {b})
  BY <1>1, <1>2, SelectKeeps
<1> QED  BY <1>3 DEF r

LEMMA UnpinnedKeeps ==
  ASSUME NEW s, Session(s), NEW b
  PROVE  Session([s EXCEPT ![b].pin = FALSE]) /\ Same([s EXCEPT ![b].pin = FALSE], s)
<1> DEFINE i == s[b].sel
           l == s[b].layers
           v == s[b].over
           r == [s EXCEPT ![b].pin = FALSE]
<1>1. r = [c \in Bundle |-> r[c]] /\ \A c \in Bundle : c # b => r[c] = s[c]
  BY DEF Session
<1>2. ASSUME b \in Bundle  PROVE r[b] = Select(s[b], i, FALSE, l, v)
  <2>1. r[b] = [s[b] EXCEPT !.pin = FALSE]
    BY <1>2 DEF Session
  <2>2. IsRecord(s[b])
    BY <1>2 DEF Session, Wrapper
  <2> QED  BY <2>1, <2>2 DEF IsRecord, Select
<1> HIDE DEF r, i, l, v
<1>3. Session(r) /\ Same(r, s) /\ Beside(r, s, {b})
  BY <1>1, <1>2, SelectKeeps
<1> QED  BY <1>3 DEF r

(* A rerun of the target alone leaves the pools and the other bundles; one *)
(* of the whole planner forgets every split.                               *)
LEMMA ReplannedIsBack ==
  ASSUME NEW s, Session(s)
  PROVE  Session(Replanned(s)) /\ AllBack(Replanned(s), s)
<1> DEFINE r == [b \in Bundle |-> Undogleg(s[b])]
           t == Replanned(s)
<1>1. \A b \in Bundle : Wrapper(r[b]) /\ Back(r[b], s[b])
  BY UndoglegIsBack DEF Session
<1>2. t = [b \in Bundle |-> [r[b] EXCEPT !.sel = Batch(r)[b].sel,
                                         !.layers = Batch(r)[b].layers]]
  BY DEF Replanned
<1> HIDE DEF r, t
<1>3. ASSUME NEW b \in Bundle
      PROVE  t[b] = Select(r[b], Batch(r)[b].sel, r[b].pin, Batch(r)[b].layers, r[b].over)
  <2>1. t[b] = [r[b] EXCEPT !.sel = Batch(r)[b].sel, !.layers = Batch(r)[b].layers]
    BY <1>2
  <2>2. IsRecord(r[b])
    BY <1>1 DEF Wrapper
  <2> QED  BY <2>1, <2>2 DEF IsRecord, Select
<1>4. \A b \in Bundle : Wrapper(t[b]) /\ t[b].pool = r[b].pool /\ t[b].slot = r[b].slot
  BY <1>1, <1>3, SelectOne
<1>5. t = [b \in Bundle |-> t[b]]
  BY <1>2
<1>6. Session(t) /\ AllBack(t, s)
  BY <1>1, <1>4, <1>5 DEF Session, AllBack, Back
<1> QED  BY <1>6 DEF t

LEMMA RerunIsBack ==
  ASSUME NEW s, Session(s), NEW b
  PROVE  /\ Session(Rerun(s, b))
         /\ LayersOf(s, b) # None =>
              Same(Rerun(s, b), s) /\ Beside(Rerun(s, b), s, {b})
         /\ AllBack(Rerun(s, b), s)
<1>1. CASE LayersOf(s, b) = None
  BY <1>1, ReplannedIsBack DEF Rerun
<1>2. CASE LayersOf(s, b) # None
  <2> DEFINE l == LayersOf(s, b)
             i == s[b].sel
             q == s[b].pin
             v == s[b].over
             r == Rerun(s, b)
  <2>1. r = [s EXCEPT ![b].layers = l]
    BY <1>2 DEF Rerun
  <2>2. r = [c \in Bundle |-> r[c]] /\ \A c \in Bundle : c # b => r[c] = s[c]
    BY <2>1 DEF Session
  <2>3. ASSUME b \in Bundle  PROVE r[b] = Select(s[b], i, q, l, v)
    <3>1. r[b] = [s[b] EXCEPT !.layers = l]
      BY <2>1, <2>3 DEF Session
    <3>2. IsRecord(s[b])
      BY <2>3 DEF Session, Wrapper
    <3> QED  BY <3>1, <3>2 DEF IsRecord, Select
  <2> HIDE DEF r, i, q, l, v
  <2>4. Session(r) /\ Same(r, s) /\ Beside(r, s, {b})
    BY <2>2, <2>3, SelectKeeps
  <2>5. AllBack(r, s)
    BY <2>4 DEF Same, AllBack, Back
  <2> QED  BY <2>4, <2>5 DEF r
<1> QED  BY <1>1, <1>2

(* After a solve every pool is near the one of the snapshot, and a bundle   *)
(* without a split is as it was.                                            *)
LEMMA AdoptedIsNear ==
  ASSUME NEW s, Session(s), NEW then, Session(then), AllBack(s, then)
  PROVE  /\ Session(Adopted(s)) /\ AllNear(Adopted(s), then)
         /\ \A b \in Bundle : Adopted(s)[b].slot = 0 => Adopted(s)[b] = s[b]
<1> DEFINE r == Adopted(s)
<1>1. /\ r = [b \in Bundle |-> r[b]]
      /\ \A b \in Bundle : r[b] = s[b] \/ (Routed(s[b]) /\ r[b] = Adopt(s[b]))
  BY DEF Adopted
<1>2. \A b \in Bundle : Wrapper(s[b]) /\ Wrapper(then[b]) /\ Back(s[b], then[b])
  BY DEF Session, AllBack
<1> HIDE DEF r
<1>3. \A b \in Bundle : /\ Wrapper(r[b]) /\ Near(r[b].pool, then[b])
                        /\ r[b].slot = 0 => r[b] = s[b]
  BY <1>1, <1>2, BackIsNear, AdoptIsNear DEF Routed
<1>4. Session(r) /\ AllNear(r, then) /\ \A b \in Bundle : r[b].slot = 0 => r[b] = s[b]
  BY <1>1, <1>3 DEF Session, AllNear
<1> QED  BY <1>4 DEF r

(* _rr_restore of the changed bundles gives back the whole session. *)
LEMMA RestoreIsExact ==
  ASSUME Session(ses), Session(snap.ses), AllNear(ses, snap.ses),
         NEW only, Beside(ses, snap.ses, only)
  PROVE  Restored(only) = snap.ses
<1>1. ASSUME NEW b \in Bundle  PROVE Restored(only)[b] = snap.ses[b]
  <2>1. CASE b \in only
    <3>1. RestoredPool(ses[b].pool, snap.ses[b]) = snap.ses[b].pool
      BY NearRestores DEF Session, AllNear
    <3>2. IsRecord(snap.ses[b])
      BY DEF Session, Wrapper
    <3>3. Restored(only)[b] = [snap.ses[b] EXCEPT !.pool = snap.ses[b].pool]
      BY <2>1, <3>1 DEF Restored
    <3> QED  BY <3>2, <3>3 DEF IsRecord
  <2>2. CASE b \notin only
    <3>1. ses[b] = snap.ses[b] /\ IsRecord(ses[b])
      BY <2>2 DEF Beside, Session, Wrapper
    <3>2. Restored(only)[b] = [ses[b] EXCEPT !.slot = ses[b].slot, !.orig = ses[b].orig]
      BY <2>2, <3>1 DEF Restored
    <3> QED  BY <3>1, <3>2 DEF IsRecord
  <2> QED  BY <2>1, <2>2
<1>2. Restored(only) = [b \in Bundle |-> Restored(only)[b]]
  BY DEF Restored
<1>3. snap.ses = [b \in Bundle |-> snap.ses[b]]
  BY DEF Session
<1> QED  BY <1>1, <1>2, <1>3

-----------------------------------------------------------------------------
(* How far the session may be from the snapshot of the iteration: not at    *)
(* all between trials, and in a trial or a negotiation never so far that    *)
(* _rr_restore could not bring it back.                                     *)

Apart ==
  /\ trial = "none" => ses = snap.ses
  /\ trial # "solved" => nuts = snap.nuts
  /\ trial = "pinned" => Same(ses, snap.ses) /\ Beside(ses, snap.ses, {move[1]})
  /\ trial = "planned" => AllBack(ses, snap.ses) /\ Beside(ses, snap.ses, dirty)
  /\ trial = "solved" => AllNear(ses, snap.ses) /\ Beside(ses, snap.ses, dirty)
  /\ trial \in {"none", "pinned", "planned", "solved"}

Trace ==
  /\ Session(ses)
  /\ pc \in Searching \cup {"reprice", "judge"} => Session(snap.ses)
  /\ pc \in Searching => Apart
  /\ pc = "reprice" => Same(ses, snap.ses)
  /\ pc = "judge" => AllNear(ses, snap.ses)

LEMMA InitTrace == Init => Trace
<1> SUFFICES ASSUME Init  PROVE Session(ses)
  BY DEF Init, Trace, Searching
<1>1. ASSUME NEW b \in Bundle  PROVE Wrapper(ses[b])
  <2> DEFINE p == [i \in DOMAIN Pool[b] |-> Whole(Pool[b][i])]
  <2>1. ses[b] = [pool |-> p, sel |-> 0, pin |-> FALSE, layers |-> None, over |-> None,
                  slot |-> 0, orig |-> 0]
    BY DEF Init
  <2>2. p \in Seq(Topologies)
    <3>1. /\ Len(Pool[b]) \in Nat /\ DOMAIN Pool[b] = 1..Len(Pool[b])
          /\ \A i \in 1..Len(Pool[b]) : Pool[b][i] \in ToSet(Pool[b])
      BY PoolAssumption, LenProperties, ElementOfSeq
    <3>2. \A i \in 1..Len(Pool[b]) : Whole(Pool[b][i]) \in Topologies
      BY <3>1 DEF Whole, Topologies
    <3> QED  BY <3>1, <3>2
  <2> QED  BY <2>1, <2>2 DEF Wrapper, IsRecord
<1> QED  BY <1>1 DEF Session, Init

LEMMA PlannedIsBack ==
  ASSUME NEW s, Session(s), NEW b, NEW t
  PROVE  Session(Planned(s, b, t)) /\ AllBack(Planned(s, b, t), s)
<1> DEFINE r == Pinned(s, b, t)
<1>1. Session(r) /\ Same(r, s)
  BY PinnedKeeps
<1> HIDE DEF r
<1>2. Session(Rerun(r, b)) /\ AllBack(Rerun(r, b), r)
  BY <1>1, RerunIsBack
<1>3. AllBack(Rerun(r, b), s)
  BY <1>1, <1>2 DEF AllBack, Same, Back
<1> QED  BY <1>2, <1>3 DEF Planned, r

(* Whatever raises, in a trial or in a negotiation, a restore of all gives  *)
(* back the snapshot.                                                       *)
LEMMA RollbackOfAll ==
  ASSUME Flow, Trace, trial \in {"pinned", "planned"} \/ pc \in {"reprice", "judge"}
  PROVE  Session(snap.ses) /\ Restored(Bundle) = snap.ses
<1>1. Session(ses) /\ Session(snap.ses)
  BY DEF Flow, Trace, Searching
<1>2. Same(ses, snap.ses) \/ AllBack(ses, snap.ses) \/ AllNear(ses, snap.ses)
  BY DEF Flow, Trace, Apart, Searching
<1>3. AllNear(ses, snap.ses)
  BY <1>1, <1>2, SameIsNear, BackIsAllNear
<1>4. Beside(ses, snap.ses, Bundle)
  BY DEF Beside
<1> QED  BY <1>1, <1>3, <1>4, RestoreIsExact

LEMMA NextTrace == Flow /\ Trace /\ [Next]_vars => Trace'
<1> SUFFICES ASSUME Flow, Trace, [Next]_vars  PROVE Trace'
  OBVIOUS
<1>0. Session(ses) /\ AllBack(ses, ses) /\ AllNear(ses, ses)
  <2>1. AllBack(ses, ses)
    BY DEF AllBack, Back
  <2> QED  BY <2>1, BackIsAllNear DEF Trace
<1>1. CASE RunPlanner \/ RunNuts
  <2>1. pc' = "idle" /\ (ses' = Replanned(ses) \/ ses' = Adopted(ses))
    BY <1>1 DEF RunPlanner, RunNuts, loop
  <2>2. Session(ses')
    BY <1>0, <2>1, ReplannedIsBack, AdoptedIsNear
  <2> QED  BY <2>1, <2>2 DEF Trace, Searching
<1>2. CASE StartRipup \/ StartNegotiate
  <2>1. pc' \in {"ripup", "negotiate"} /\ ses' = ses
    BY <1>2 DEF StartRipup, StartNegotiate, session
  <2> QED  BY <1>0, <2>1 DEF Trace, Searching
<1>3. CASE Iterate
  <2>1. /\ pc' = "scan" /\ ses' = ses /\ nuts' = nuts /\ trial' = trial
        /\ snap'.ses = ses /\ snap'.nuts = nuts
    BY <1>3 DEF Iterate, session, probe, Snapshot
  <2>2. trial = "none"
    BY <1>3 DEF Iterate, Flow, Searching
  <2> QED  BY <1>0, <2>1, <2>2 DEF Trace, Apart, Searching
<1>4. ASSUME \/ StartSweep \/ StartOccupants \/ NextContender
             \/ \E b \in Bundle : Scan(b)
      PROVE  Trace'
  <2>1. /\ pc \in Searching /\ pc' \in Searching
        /\ ses' = ses /\ nuts' = nuts /\ snap' = snap
        /\ trial' = trial /\ move' = move /\ dirty' = dirty
    BY <1>4 DEF StartSweep, StartOccupants, NextContender, Scan, session, loop, probe,
         Searching
  <2> QED  BY <2>1 DEF Trace, Apart, Searching
<1>5. ASSUME NEW b, NEW t, pc \in Searching, StartTrial(b, t)  PROVE Trace'
  <2>1. /\ trial = "none" /\ trial' = "pinned" /\ move'[1] = b
        /\ pc' = pc /\ snap' = snap /\ nuts' = nuts
        /\ ses' = Pinned(ses, b, t)
    BY <1>5 DEF StartTrial, loop
  <2>2. ses = snap.ses /\ nuts = snap.nuts /\ Session(snap.ses)
    BY <1>5, <2>1 DEF Trace, Apart
  <2>3. Session(ses') /\ Same(ses', snap.ses) /\ Beside(ses', snap.ses, {b})
    BY <1>0, <2>1, <2>2, PinnedKeeps
  <2> QED  BY <1>5, <2>1, <2>2, <2>3 DEF Trace, Apart, Searching
<1>6. CASE Replan
  <2> DEFINE b == move[1]
             r == Rerun(ses, b)
  <2>1. /\ trial = "pinned" /\ trial' = "planned" /\ pc' = pc /\ snap' = snap
        /\ nuts' = nuts /\ ses' = r
        /\ dirty' = IF LayersOf(ses, b) # None THEN {b} ELSE Bundle
    BY <1>6 DEF Replan, loop
  <2>2. /\ pc \in Searching /\ Session(snap.ses) /\ nuts = snap.nuts
        /\ Same(ses, snap.ses) /\ Beside(ses, snap.ses, {b})
    BY <2>1 DEF Flow, Trace, Apart, Searching
  <2>3. /\ Session(r) /\ AllBack(r, ses)
        /\ LayersOf(ses, b) # None => Beside(r, ses, {b})
    BY <1>0, RerunIsBack
  <2> HIDE DEF b, r
  <2>4. AllBack(r, snap.ses)
    BY <2>2, <2>3 DEF AllBack, Same, Back
  <2>5. Beside(r, snap.ses, dirty')
    BY <2>1, <2>2, <2>3 DEF Beside
  <2> QED  BY <2>1, <2>2, <2>3, <2>4, <2>5 DEF Trace, Apart, Searching
<1>7. CASE Solve
  <2>1. /\ trial = "planned" /\ trial' = "solved" /\ pc' = pc /\ snap' = snap
        /\ ses' = Adopted(ses)
        /\ dirty' = dirty \cup {b \in Bundle : ses'[b].slot # 0}
    BY <1>7 DEF Solve, loop
  <2>2. /\ pc \in Searching /\ Session(snap.ses)
        /\ AllBack(ses, snap.ses) /\ Beside(ses, snap.ses, dirty)
    BY <2>1 DEF Flow, Trace, Apart, Searching
  <2>3. /\ Session(ses') /\ AllNear(ses', snap.ses)
        /\ \A b \in Bundle : ses'[b].slot = 0 => ses'[b] = ses[b]
    BY <1>0, <2>1, <2>2, AdoptedIsNear
  <2>4. Beside(ses', snap.ses, dirty')
    BY <2>1, <2>2, <2>3 DEF Beside
  <2> QED  BY <2>1, <2>2, <2>3, <2>4 DEF Trace, Apart, Searching
<1>8. CASE Verdict
  <2>1. /\ trial = "solved" /\ trial' = "none" /\ pc' = pc /\ snap' = snap
        /\ ses' = Restored(dirty) /\ nuts' = snap.nuts
    BY <1>8 DEF Verdict, Rollback, loop
  <2>2. /\ pc \in Searching /\ Session(snap.ses)
        /\ AllNear(ses, snap.ses) /\ Beside(ses, snap.ses, dirty)
    BY <2>1 DEF Flow, Trace, Apart, Searching
  <2>3. ses' = snap.ses
    BY <1>0, <2>1, <2>2, RestoreIsExact
  <2> QED  BY <2>1, <2>2, <2>3 DEF Trace, Apart, Searching
<1>9. CASE Commit
  <2> DEFINE s == Planned(ses, best.move[1], best.move[2])
  <2>1. pc' = "ripup" /\ ses' = Adopted(s)
    BY <1>9 DEF Commit
  <2>2. Session(s) /\ AllBack(s, ses)
    BY <1>0, PlannedIsBack
  <2> HIDE DEF s
  <2>3. Session(ses')
    BY <1>0, <2>1, <2>2, AdoptedIsNear
  <2> QED  BY <2>1, <2>3 DEF Trace, Searching
<1>10. ASSUME pc' = "idle" \/ pc' = "negotiate", ses' = ses \/ ses' = snap.ses,
              ses' = snap.ses => Session(snap.ses)
       PROVE  Trace'
  BY <1>0, <1>10 DEF Trace, Searching
<1>11. CASE TrialRaises
  BY <1>10, <1>11, RollbackOfAll DEF TrialRaises, Rollback, Idle
<1>12. CASE NegotiateRaises
  BY <1>10, <1>12, RollbackOfAll DEF NegotiateRaises, Rollback, Idle
<1>13. CASE Press \/ EndNegotiate \/ EndRipup
  <2>1. pc' = "idle" \/ pc' = "negotiate"
    BY <1>13 DEF Press, EndNegotiate, EndRipup, Idle
  <2>2. ses' = ses \/ (pc = "judge" /\ ses' = Restored(Bundle))
    BY <1>13 DEF Press, EndNegotiate, EndRipup, Rollback, session
  <2> QED  BY <1>0, <1>10, <2>1, <2>2, RollbackOfAll
<1>14. CASE Inject
  <2>1. pc' = "reprice" /\ ses' = ses /\ snap'.ses = ses
    BY <1>14 DEF Inject, Snapshot
  <2> QED  BY <1>0, <2>1 DEF Trace, Same, Searching
<1>15. ASSUME NEW b \in Bundle, Reprice(b)  PROVE Trace'
  <2> DEFINE s == [ses EXCEPT ![b].pin = FALSE]
  <2>1. pc = "reprice" /\ pc' = pc /\ snap' = snap
    BY <1>15 DEF Reprice, loop
  <2>2. Session(snap.ses) /\ Same(ses, snap.ses)
    BY <2>1 DEF Trace
  <2>3. Session(s) /\ Same(s, snap.ses)
    <3>1. Session(s) /\ Same(s, ses)
      BY <1>0, UnpinnedKeeps
    <3> HIDE DEF s
    <3> QED  BY <2>2, <3>1 DEF Same
  <2>4. \/ ses' = ses
        \/ ses' = s
        \/ \E i : \/ ses' = Given(s, b, i)
                 \/ \E v, j : ses' = Given(Given(s, b, i), v, j)
    BY <1>15 DEF Reprice
  <2> HIDE DEF s
  <2>5. ASSUME NEW r, Session(r), Same(r, snap.ses), NEW c, NEW i
        PROVE  Session(Given(r, c, i)) /\ Same(Given(r, c, i), snap.ses)
    <3>1. Session(Given(r, c, i)) /\ Same(Given(r, c, i), r)
      BY <2>5, AssignedKeeps DEF Given
    <3> QED  BY <2>5, <3>1 DEF Same
  <2>6. Session(ses') /\ Same(ses', snap.ses)
    BY <1>0, <2>2, <2>3, <2>4, <2>5
  <2> QED  BY <2>1, <2>2, <2>6 DEF Trace, Searching
<1>16. CASE Resolve
  <2>1. pc = "reprice" /\ pc' = "judge" /\ ses' = Adopted(ses) /\ snap' = snap
    BY <1>16 DEF Resolve
  <2>2. Session(snap.ses) /\ Same(ses, snap.ses)
    BY <2>1 DEF Trace
  <2>3. AllBack(ses, snap.ses)
    BY <2>2 DEF Same, AllBack, Back
  <2>4. Session(ses') /\ AllNear(ses', snap.ses)
    BY <1>0, <2>1, <2>2, <2>3, AdoptedIsNear
  <2> QED  BY <2>1, <2>2, <2>4 DEF Trace, Searching
<1>17. CASE Accept
  <2>1. pc' = "negotiate" /\ ses' = ses
    BY <1>17 DEF Accept, session
  <2> QED  BY <1>0, <2>1 DEF Trace, Searching
<1>18. CASE UNCHANGED vars
  BY <1>18 DEF vars, session, loop, probe, Trace, Apart, Searching
<1>19. ASSUME NEW t, TryKept(t)  PROVE Trace'
  BY <1>5, <1>19 DEF TryKept, Searching
<1>20. ASSUME NEW b, NEW t, TryDeferred(b, t)  PROVE Trace'
  BY <1>5, <1>20 DEF TryDeferred, Searching
<1> QED
  BY <1>1, <1>2, <1>3, <1>4, <1>6, <1>7, <1>8, <1>9, <1>11, <1>12, <1>13, <1>14, <1>15,
     <1>16, <1>17, <1>18, <1>19, <1>20 DEF Next, Ripup, Negotiate

LEMMA TraceHolds == Spec => []Trace
BY InitTrace, NextTrace, FlowHolds, PTL DEF Spec

(* Every rejected trial is undone to the last split: between trials the     *)
(* session is what the snapshot saw, whatever planner and solver answered.  *)
THEOREM TrialsAreUndone == Spec => []TrialsLeaveNoTrace
<1>1. Trace => TrialsLeaveNoTrace
  BY DEF Trace, Apart, TrialsLeaveNoTrace, Searching
<1> QED  BY <1>1, TraceHolds, PTL

-----------------------------------------------------------------------------
(* The database against the session.  Until a healer has made a move, the   *)
(* session it would return to is the one the database knows.                *)

Known(s, n) ==
  ~unsaved => /\ bdb.nuts = n
              /\ bdb.ses # None => \A b \in Bundle : s[b].slot = 0 => bdb.ses[b] = s[b]

Live ==
  /\ committed \in Nat
  /\ pc = "idle" => committed = 0
  /\ committed = 0 =>
       IF pc \in Searching \cup {"reprice", "judge"} THEN Known(snap.ses, snap.nuts)
                                                   ELSE Known(ses, nuts)

LEMMA InitLive == Init => Live
BY DEF Init, Live, Known, Searching

LEMMA NextLive == Flow /\ Stored /\ Trace /\ Live /\ [Next]_vars => Live'
<1> SUFFICES ASSUME Flow, Stored, Trace, Live, [Next]_vars  PROVE Live'
  OBVIOUS
<1> USE DEF Searching
<1>1. CASE RunPlanner
  <2>1. /\ pc' = "idle" /\ committed' = 0 /\ nuts' = nuts /\ unsaved' = unsaved
        /\ bdb' = [ses |-> ses', nuts |-> bdb.nuts]
    BY <1>1 DEF RunPlanner, loop, Live, Stored
  <2>2. Known(ses, nuts)
    BY <1>1 DEF RunPlanner, Live
  <2> QED  BY <2>1, <2>2 DEF Live, Known
<1>2. CASE RunNuts
  <2>1. /\ pc' = "idle" /\ committed' = 0 /\ ses' = Adopted(ses) /\ unsaved' = unsaved
        /\ bdb' = [ses |-> bdb.ses, nuts |-> nuts']
    BY <1>2 DEF RunNuts, loop, Live, Stored
  <2>2. Known(ses, nuts)
    BY <1>2 DEF RunNuts, Live
  <2>3. Session(ses) /\ AllBack(ses, ses)
    BY DEF Trace, AllBack, Back
  <2>4. \A b \in Bundle : ses'[b].slot = 0 => ses'[b] = ses[b]
    BY <2>1, <2>3, AdoptedIsNear
  <2> QED  BY <2>1, <2>2, <2>4 DEF Live, Known
<1>3. CASE StartRipup \/ StartNegotiate
  <2>1. /\ pc = "idle" /\ pc' \in {"ripup", "negotiate"} /\ committed' = committed
        /\ ses' = ses /\ nuts' = nuts /\ bdb' = bdb /\ unsaved' = unsaved
    BY <1>3 DEF StartRipup, StartNegotiate, Ready, session, store
  <2> QED  BY <2>1 DEF Live, Known
<1>4. CASE Iterate \/ Inject
  <2>1. /\ pc \in {"ripup", "negotiate"} /\ pc' \in {"scan", "reprice"}
        /\ committed' = committed /\ snap'.ses = ses /\ snap'.nuts = nuts
        /\ bdb' = bdb /\ unsaved' = unsaved
    BY <1>4 DEF Iterate, Inject, Snapshot, store
  <2> QED  BY <2>1 DEF Live, Known
<1>5. ASSUME pc \in Searching \cup {"reprice", "judge"},
             pc' \in Searching \cup {"reprice", "judge"},
             committed' = committed, snap' = snap, bdb' = bdb, unsaved' = unsaved
      PROVE  Live'
  BY <1>5 DEF Live, Known
<1>6. CASE StartSweep \/ StartOccupants \/ NextContender \/ Resolve
  BY <1>5, <1>6 DEF StartSweep, StartOccupants, NextContender, Resolve, loop, store
<1>7. CASE Replan \/ Solve \/ Verdict
  BY <1>5, <1>7 DEF Replan, Solve, Verdict, loop, store, Flow
<1>8. ASSUME NEW b \in Bundle, Scan(b) \/ Reprice(b)  PROVE Live'
  BY <1>5, <1>8 DEF Scan, Reprice, loop, store
<1>9. ASSUME NEW b, NEW t, TryKept(t) \/ TryDeferred(b, t)  PROVE Live'
  BY <1>5, <1>9 DEF TryKept, TryDeferred, StartTrial, loop, store
<1>10. CASE Commit \/ Accept
  <2>1. pc' \in {"ripup", "negotiate"} /\ committed' = committed + 1
    BY <1>10 DEF Commit, Accept
  <2> QED  BY <2>1 DEF Live
<1>11. CASE Press
  <2>1. /\ pc = "judge" /\ pc' = "negotiate" /\ committed' = committed
        /\ ses' = snap.ses /\ nuts' = snap.nuts /\ bdb' = bdb /\ unsaved' = unsaved
    BY <1>11, RollbackOfAll DEF Press, Rollback, store
  <2> QED  BY <2>1 DEF Live, Known
<1>12. CASE TrialRaises \/ NegotiateRaises
  <2>1. pc \in Searching \cup {"reprice"}
    BY <1>12 DEF TrialRaises, NegotiateRaises, Flow
  <2>2. /\ pc' = "idle" /\ committed' = 0 /\ ses' = snap.ses /\ nuts' = snap.nuts
        /\ bdb' = bdb
    BY <1>12, RollbackOfAll DEF TrialRaises, NegotiateRaises, Rollback, Idle
  <2>3. unsaved' = (unsaved \/ committed > 0)
    BY <1>12 DEF TrialRaises, NegotiateRaises
  <2>4. CASE committed > 0
    <3>1. unsaved'
      BY <2>3, <2>4, Zenon
    <3> QED  BY <2>2, <3>1 DEF Live, Known
  <2>5. CASE ~(committed > 0)
    <3>1. committed = 0 /\ Known(snap.ses, snap.nuts)
      BY <2>1, <2>5 DEF Live
    <3>2. ~unsaved' => ~unsaved
      BY <2>3, Zenon
    <3> QED  BY <2>2, <3>1, <3>2 DEF Live, Known
  <2> QED  BY <2>4, <2>5
<1>13. CASE EndRipup \/ EndNegotiate
  <2>1. pc' = "idle" /\ committed' = 0 /\ Checkpoint
    BY <1>13 DEF EndRipup, EndNegotiate, Idle
  <2>2. CASE committed > 0
    <3>1. bdb' = [ses |-> ses', nuts |-> nuts']
      BY <2>1, <2>2 DEF Checkpoint
    <3> QED  BY <2>1, <3>1 DEF Live, Known
  <2>3. CASE ~(committed > 0)
    <3>1. bdb' = bdb /\ unsaved' = unsaved /\ committed = 0
      BY <2>1, <2>3 DEF Checkpoint, store, Live
    <3>2. \/ pc \in {"ripup", "negotiate"} /\ ses' = ses /\ nuts' = nuts
          \/ pc \in {"occupants", "judge"} /\ ses' = snap.ses /\ nuts' = snap.nuts
      <4>1. CASE EndRipup
        BY <4>1 DEF EndRipup, Stalled, session, Trace, Apart
      <4>2. CASE EndNegotiate
        BY <4>2, RollbackOfAll DEF EndNegotiate, Rollback
      <4> QED  BY <1>13, <4>1, <4>2
    <3> QED  BY <2>1, <3>1, <3>2 DEF Live, Known
  <2> QED  BY <2>2, <2>3
<1>14. CASE UNCHANGED vars
  BY <1>14 DEF vars, session, store, loop, Live, Known
<1> QED
  BY <1>1, <1>2, <1>3, <1>4, <1>6, <1>7, <1>8, <1>9, <1>10, <1>11, <1>12, <1>13, <1>14
     DEF Next, Ripup, Negotiate

LEMMA LiveHolds == Spec => []Live
BY InitLive, NextLive, FlowHolds, TraceHolds, StoredHolds, PTL DEF Spec

(* The database holds what the session holds whenever a healer has          *)
(* returned, moves made or not, unless one died after it had made moves.    *)
THEOREM DatabaseIsLive == Spec => []CheckpointIsLive
<1>1. Live => CheckpointIsLive
  BY DEF Live, Known, CheckpointIsLive, Searching
<1> QED  BY <1>1, LiveHolds, PTL

(* Every way out of an iteration that made no move, the exceptions in the   *)
(* middle of a trial or of a repricing included, gives back the whole       *)
(* session and the result it began with, whatever planner and solver did    *)
(* before.                                                                  *)
LEMMA StepEndsWhole ==
  ASSUME Flow, Trace, Live, [Next]_vars,
         pc \in Searching \cup {"reprice", "judge"},
         pc' \in {"idle", "negotiate"}, committed' <= committed
  PROVE  ses' = snap.ses /\ nuts' = snap.nuts
<1> USE DEF Searching
<1>1. CASE TrialRaises \/ NegotiateRaises
  <2>1. Rollback(Bundle) /\ (trial \in {"pinned", "planned"} \/ pc = "reprice")
    BY <1>1 DEF TrialRaises, NegotiateRaises
  <2> QED  BY <2>1, RollbackOfAll DEF Rollback
<1>2. CASE EndNegotiate \/ Press
  <2>1. Rollback(Bundle) /\ pc = "judge"
    BY <1>2 DEF EndNegotiate, Press
  <2> QED  BY <2>1, RollbackOfAll DEF Rollback
<1>3. CASE EndRipup
  <2>1. pc \in Searching /\ trial = "none" /\ ses' = ses /\ nuts' = nuts
    BY <1>3 DEF EndRipup, Stalled, session
  <2> QED  BY <2>1 DEF Trace, Apart
<1>4. CASE Accept
  <2>1. committed \in Nat /\ committed' = committed + 1
    BY <1>4 DEF Accept, Live
  <2> QED  BY <2>1
<1>5. CASE RunPlanner \/ RunNuts \/ StartRipup \/ StartNegotiate \/ Iterate \/ Inject
  BY <1>5 DEF RunPlanner, RunNuts, StartRipup, StartNegotiate, Ready, Iterate, Inject
<1>6. CASE StartSweep \/ StartOccupants \/ Commit \/ Resolve
  BY <1>6 DEF StartSweep, StartOccupants, Commit, Resolve
<1>7. CASE Replan \/ Solve \/ Verdict \/ NextContender \/ UNCHANGED vars
  BY <1>7 DEF Replan, Solve, Verdict, NextContender, loop, vars
<1>8. ASSUME NEW b \in Bundle, Scan(b) \/ Reprice(b)  PROVE FALSE
  BY <1>8 DEF Scan, Reprice, loop
<1>9. ASSUME NEW b, NEW t, TryKept(t) \/ TryDeferred(b, t)  PROVE FALSE
  BY <1>9 DEF TryKept, TryDeferred, StartTrial, loop
<1> QED
  BY <1>1, <1>2, <1>3, <1>4, <1>5, <1>6, <1>7, <1>8, <1>9 DEF Next, Ripup, Negotiate

(* An iteration that makes no move leaves nothing half done, however it     *)
(* ends: session and result are those of its start.                         *)
THEOREM NothingHalfDone == Spec => IterationsEndWhole
<1>1. Flow /\ Trace /\ Live /\ [Next]_vars =>
        [/\ pc \in {"scan", "sweep", "occupants", "reprice", "judge"}
         /\ pc' \in {"idle", "negotiate"} /\ committed' <= committed
         => ses' = snap.ses /\ nuts' = snap.nuts]_vars
  BY StepEndsWhole DEF Searching
<1> QED  BY <1>1, FlowHolds, TraceHolds, LiveHolds, PTL DEF Spec, IterationsEndWhole

-----------------------------------------------------------------------------
(* The metric.  What a trial measured is what trying its move from the      *)
(* snapshot gives, and so is the metric remembered with the best move.      *)

Measured(m) == Solved(Planned(snap.ses, m[1], m[2]), TRUE)

Best ==
  pc \in Searching =>
    /\ trial = "pinned" => ses = Pinned(snap.ses, move[1], move[2])
    /\ trial = "planned" => ses = Planned(snap.ses, move[1], move[2])
    /\ trial = "solved" => nuts = Measured(move)
    /\ best # None => best.metric < cur /\ best.metric = Metric(Measured(best.move))

LEMMA InitBest == Init => Best
BY DEF Init, Best, Searching

LEMMA NextBest == Flow /\ Trace /\ Best /\ [Next]_vars => Best'
<1> SUFFICES ASSUME Flow, Trace, Best, [Next]_vars  PROVE Best'
  OBVIOUS
<1> USE DEF Searching
<1>1. ASSUME pc' \notin Searching  PROVE Best'
  BY <1>1 DEF Best
<1>2. CASE RunPlanner \/ RunNuts \/ StartRipup \/ StartNegotiate \/ Commit \/ EndRipup
           \/ TrialRaises \/ Inject \/ Resolve \/ Accept \/ Press \/ EndNegotiate
           \/ NegotiateRaises
  BY <1>1, <1>2 DEF RunPlanner, RunNuts, StartRipup, StartNegotiate, Commit, EndRipup,
       TrialRaises, Inject, Resolve, Accept, Press, EndNegotiate, NegotiateRaises, Ready,
       Idle, loop
<1>3. ASSUME NEW b \in Bundle, Reprice(b)  PROVE Best'
  BY <1>1, <1>3 DEF Reprice, loop
<1>4. CASE Iterate
  <2>1. trial' = "none" /\ best' = None
    BY <1>4 DEF Iterate, Flow, probe
  <2> QED  BY <2>1 DEF Best
<1>5. ASSUME \/ StartSweep \/ StartOccupants \/ NextContender
             \/ \E b \in Bundle : Scan(b)
      PROVE  Best'
  <2>1. /\ pc \in Searching /\ ses' = ses /\ nuts' = nuts /\ snap' = snap /\ cur' = cur
        /\ trial' = trial /\ move' = move /\ best' = best
    BY <1>5 DEF StartSweep, StartOccupants, NextContender, Scan, session, loop, search, probe
  <2> QED  BY <2>1 DEF Best, Measured
<1>6. ASSUME NEW b, NEW t, StartTrial(b, t), pc \in Searching, best' = best  PROVE Best'
  <2>1. /\ trial' = "pinned" /\ move'[1] = b /\ move'[2] = t
        /\ ses' = Pinned(snap.ses, b, t) /\ snap' = snap /\ cur' = cur
    BY <1>6 DEF StartTrial, loop, Trace, Apart
  <2> QED  BY <1>6, <2>1 DEF Best, Measured
<1>7. ASSUME NEW t, TryKept(t)  PROVE Best'
  BY <1>6, <1>7 DEF TryKept, search
<1>8. ASSUME NEW b, NEW t, TryDeferred(b, t)  PROVE Best'
  BY <1>6, <1>8 DEF TryDeferred
<1>9. CASE Replan
  <2>1. /\ trial = "pinned" /\ trial' = "planned" /\ pc \in Searching
        /\ ses' = Rerun(ses, move[1]) /\ move' = move
        /\ snap' = snap /\ cur' = cur /\ best' = best
    BY <1>9 DEF Replan, loop, search, Flow
  <2>2. ses' = Planned(snap.ses, move[1], move[2])
    BY <2>1 DEF Best, Planned
  <2> QED  BY <2>1, <2>2 DEF Best, Measured
<1>10. CASE Solve
  <2>1. /\ trial = "planned" /\ trial' = "solved" /\ pc \in Searching
        /\ nuts' = Solved(ses, TRUE) /\ move' = move
        /\ snap' = snap /\ cur' = cur /\ best' = best
    BY <1>10 DEF Solve, loop, search, Flow
  <2>2. nuts' = Measured(move)
    BY <2>1 DEF Best, Measured
  <2> QED  BY <2>1, <2>2 DEF Best, Measured
<1>11. CASE Verdict
  <2> DEFINE m == Metric(nuts)
  <2>1. /\ trial = "solved" /\ trial' = "none" /\ pc \in Searching
        /\ best' = IF Improves(m) THEN [metric |-> m, move |-> move] ELSE best
        /\ snap' = snap /\ cur' = cur
    BY <1>11 DEF Verdict, loop, Flow
  <2>2. nuts = Measured(move)
    BY <2>1 DEF Best
  <2>3. CASE Improves(m)
    <3>1. best'.metric = m /\ best'.move = move /\ m < cur
      BY <2>1, <2>3 DEF Improves
    <3> QED  BY <2>1, <2>2, <3>1 DEF Best, Measured
  <2>4. CASE ~Improves(m)
    BY <2>1, <2>4 DEF Best, Measured
  <2> QED  BY <2>3, <2>4
<1>12. CASE UNCHANGED vars
  BY <1>12 DEF vars, session, loop, search, probe, Best, Measured
<1> QED
  BY <1>2, <1>3, <1>4, <1>5, <1>7, <1>8, <1>9, <1>10, <1>11, <1>12
     DEF Next, Ripup, Negotiate

(* tighten_pulls, the pass that a trial skips, adds no overlap. *)
Tightens == \A r : Overlaps(r) \in Nat /\ Slack(r) \in Nat

LEMMA MetricIsNat ==
  ASSUME Tightens, NEW n  PROVE Metric(n) \in Nat
<1>1. Overlaps(n.routes) \in Nat /\ Slack(n.routes) \in Nat
  BY DEF Tightens
<1> QED  BY <1>1 DEF Metric

LEMMA NextCur ==
  ASSUME Tightens, cur \in Nat, [Next]_vars  PROVE cur' \in Nat
<1>0. ASSUME cur' \in {cur, 0}  PROVE cur' \in Nat
  BY <1>0
<1>1. CASE RunPlanner \/ RunNuts \/ StartRipup \/ StartNegotiate \/ EndRipup
           \/ TrialRaises \/ Resolve \/ Press \/ EndNegotiate \/ NegotiateRaises
           \/ StartSweep \/ StartOccupants \/ NextContender \/ Replan \/ Solve
           \/ Verdict \/ Commit \/ Accept \/ UNCHANGED vars
  BY <1>0, <1>1 DEF RunPlanner, RunNuts, StartRipup, StartNegotiate, EndRipup, TrialRaises,
       Resolve, Press, EndNegotiate, NegotiateRaises, StartSweep, StartOccupants,
       NextContender, Replan, Solve, Verdict, Commit, Accept, Idle, loop, vars
<1>2. CASE Iterate \/ Inject
  <2>1. cur' = Metric(nuts)
    BY <1>2 DEF Iterate, Inject
  <2>2. Metric(nuts) \in Nat
    BY MetricIsNat
  <2> QED  BY <2>1, <2>2
<1>3. ASSUME NEW b \in Bundle, Scan(b) \/ Reprice(b)  PROVE cur' \in Nat
  BY <1>3 DEF Scan, Reprice, loop
<1>4. ASSUME NEW b, NEW t, TryKept(t) \/ TryDeferred(b, t)  PROVE cur' \in Nat
  BY <1>4 DEF TryKept, TryDeferred, StartTrial, loop
<1> QED
  BY <1>1, <1>2, <1>3, <1>4 DEF Next, Ripup, Negotiate

LEMMA StepPays ==
  ASSUME Tightens, cur \in Nat, Flow, Trace, Live, Best, [Next]_vars,
         committed' > committed
  PROVE  Metric(nuts') < cur
<1>1. CASE Commit
  <2> DEFINE s == Planned(ses, best.move[1], best.move[2])
  <2>1. nuts' = Solved(s, FALSE) /\ best # None /\ trial = "none"
    BY <1>1 DEF Commit
  <2>2. ses = snap.ses /\ best.metric < cur /\ best.metric = Metric(Measured(best.move))
    BY <2>1 DEF Flow, Trace, Apart, Best
  <2>3. Measured(best.move) = Solved(s, TRUE)
    BY <2>2 DEF Measured
  <2> HIDE DEF s
  <2> DEFINE o == Overlaps(Routes(s))
             k == Slack(Routes(s))
  <2>4. Metric(Solved(s, TRUE)) = o + k
    BY DEF Metric, Solved
  <2>5. Metric(nuts') = o + 0
    BY <2>1 DEF Metric, Solved
  <2>6. o \in Nat /\ k \in Nat
    BY DEF Tightens
  <2> HIDE DEF o, k
  <2>7. o + k < cur
    BY <2>2, <2>3, <2>4
  <2>8. o + 0 < cur
    BY <2>6, <2>7
  <2> QED  BY <2>5, <2>8
<1>2. CASE Accept
  BY <1>2 DEF Accept, session
<1>3. ASSUME committed' = committed \/ committed' = 0  PROVE FALSE
  BY <1>3 DEF Live
<1>4. CASE RunPlanner \/ RunNuts \/ StartRipup \/ StartNegotiate \/ EndRipup
           \/ TrialRaises \/ Inject \/ Resolve \/ Press \/ EndNegotiate
           \/ NegotiateRaises \/ Iterate \/ StartSweep \/ StartOccupants
           \/ NextContender \/ Replan \/ Solve \/ Verdict \/ UNCHANGED vars
  BY <1>3, <1>4 DEF RunPlanner, RunNuts, StartRipup, StartNegotiate, EndRipup,
       TrialRaises, Inject, Resolve, Press, EndNegotiate, NegotiateRaises, Iterate,
       StartSweep, StartOccupants, NextContender, Replan, Solve, Verdict, Idle, loop, vars
<1>5. ASSUME NEW b \in Bundle, Scan(b) \/ Reprice(b)  PROVE FALSE
  BY <1>3, <1>5 DEF Scan, Reprice, loop
<1>6. ASSUME NEW b, NEW t, TryKept(t) \/ TryDeferred(b, t)  PROVE FALSE
  BY <1>3, <1>6 DEF TryKept, TryDeferred, StartTrial, loop
<1> QED
  BY <1>1, <1>2, <1>4, <1>5, <1>6 DEF Next, Ripup, Negotiate

LEMMA BestHolds == Spec => []Best
BY InitBest, NextBest, FlowHolds, TraceHolds, PTL DEF Spec

(* Every move made and every negotiation accepted lowers the metric, if the *)
(* pass that trials skip never adds an overlap: the full run that makes a   *)
(* move repeats, from the same session, the trial that was measured.        *)
THEOREM MovesPay ==
  ASSUME Tightens  PROVE Spec => MovesLowerTheMetric
<1>1. cur \in Nat /\ Flow /\ Trace /\ Live /\ Best /\ [Next]_vars =>
        [committed' > committed => Metric(nuts') < cur]_vars
  BY StepPays
<1>2. Init => cur \in Nat
  BY DEF Init
<1>3. cur \in Nat /\ [Next]_vars => (cur \in Nat)'
  BY NextCur
<1> QED
  BY <1>1, <1>2, <1>3, FlowHolds, TraceHolds, LiveHolds, BestHolds, PTL DEF Spec, MovesLowerTheMetric

-----------------------------------------------------------------------------
(* The verdict that nothing improves.                                       *)

(* The search variables have their types: a contender is being scanned, or  *)
(* there is no move to try; the scan is over before the sweep begins.       *)
Hunt ==
  /\ at \in Bundle \cup {None} /\ moves \subseteq Nat /\ deferred \subseteq Bundle \X Nat
  /\ at = None => moves = {}
  /\ at = None /\ pc = "scan" => trial = "none"
  /\ pc \in {"sweep", "occupants"} => waiting = {} /\ at = None
  /\ trial # "none" => move \in Bundle \X Nat

LEMMA InitHunt == Init => Hunt
BY DEF Init, Hunt

LEMMA AlternatesAreNat ==
  ASSUME Session(ses), NEW b \in Bundle  PROVE Alternates(ses, b) \subseteq Nat
<1>1. DOMAIN ses[b].pool = 1..Len(ses[b].pool) /\ Len(ses[b].pool) \in Nat
  BY LenProperties DEF Session, Wrapper
<1> QED  BY <1>1 DEF Alternates

LEMMA NextHunt == Flow /\ Trace /\ Hunt /\ [Next]_vars => Hunt'
<1> SUFFICES ASSUME Flow, Trace, Hunt, [Next]_vars  PROVE Hunt'
  OBVIOUS
<1> USE DEF Searching
<1>0. Session(ses)
  BY DEF Trace
<1>1. CASE RunPlanner \/ RunNuts \/ UNCHANGED vars
  <2>1. /\ pc' = pc /\ at' = at /\ moves' = moves /\ deferred' = deferred
        /\ waiting' = waiting /\ trial' = trial /\ move' = move
    BY <1>1 DEF RunPlanner, RunNuts, loop, search, probe, vars
  <2> QED  BY <2>1 DEF Hunt
<1>2. CASE \/ StartRipup \/ StartNegotiate \/ Iterate \/ Inject \/ Resolve \/ Accept \/ Press
  <2>1. trial = "none" /\ pc \notin Searching
    BY <1>2 DEF StartRipup, StartNegotiate, Iterate, Inject, Resolve, Accept, Press,
         Ready, Flow
  <2>2. /\ pc' \notin {"sweep", "occupants"} /\ at' = at /\ moves' = moves
        /\ deferred' = deferred /\ trial' = trial
    BY <1>2 DEF StartRipup, StartNegotiate, Iterate, Inject, Resolve, Accept, Press,
         search, probe
  <2> QED  BY <2>1, <2>2 DEF Hunt
<1>3. ASSUME NEW b \in Bundle, Reprice(b)  PROVE Hunt'
  <2>1. /\ pc = "reprice" /\ pc' = pc /\ at' = at /\ moves' = moves
        /\ deferred' = deferred /\ trial' = trial /\ trial = "none"
    BY <1>3 DEF Reprice, loop, probe, Flow
  <2> QED  BY <2>1 DEF Hunt
<1>4. CASE EndRipup \/ TrialRaises \/ EndNegotiate \/ NegotiateRaises
  <2>1. /\ pc' = "idle" /\ at' = None /\ moves' = {} /\ deferred' = {}
    BY <1>4 DEF EndRipup, TrialRaises, EndNegotiate, NegotiateRaises, Idle
  <2>2. trial' = "none"
    BY <1>4 DEF EndRipup, TrialRaises, EndNegotiate, NegotiateRaises, Stalled, Flow, probe
  <2> QED  BY <2>1, <2>2 DEF Hunt
<1>5. ASSUME NEW b \in Bundle, Scan(b)  PROVE Hunt'
  <2>1. /\ pc = "scan" /\ pc' = pc /\ at = None /\ at' = b /\ trial' = trial
    BY <1>5 DEF Scan, loop, probe
  <2>2. /\ moves' \subseteq Alternates(ses, b)
        /\ deferred' \subseteq deferred \cup ({b} \X Alternates(ses, b))
    BY <1>5 DEF Scan
  <2>3. trial' = "none" /\ b # None
    BY <2>1, NoneAssumption DEF Hunt
  <2> QED  BY <1>0, <2>1, <2>2, <2>3, AlternatesAreNat DEF Hunt
<1>6. CASE StartSweep \/ NextContender
  BY <1>6 DEF StartSweep, NextContender, Hunt, search, probe, loop
<1>7. CASE StartOccupants
  <2>1. /\ pc = "sweep" /\ pc' = "occupants" /\ at' = at /\ moves' = moves
        /\ waiting' = waiting /\ trial = "none" /\ trial' = trial
    BY <1>7 DEF StartOccupants, probe
  <2>2. PICK free \in SUBSET (Bundle \ (contenders \cup Locked)) :
          deferred' = UNION {{b} \X Alternates(ses, b) : b \in free}
    BY <1>7 DEF StartOccupants
  <2>3. deferred' \subseteq Bundle \X Nat
    BY <1>0, <2>2, AlternatesAreNat
  <2> QED  BY <2>1, <2>3 DEF Hunt
<1>8. ASSUME NEW t, TryKept(t)  PROVE Hunt'
  <2>1. /\ t \in moves /\ move' = <<at, t>> /\ pc = "scan" /\ pc' = pc /\ at' = at
        /\ moves' = moves /\ deferred' = deferred /\ waiting' = waiting
    BY <1>8 DEF TryKept, StartTrial, search, loop
  <2>2. at \in Bundle /\ at # None /\ t \in Nat
    BY <2>1 DEF Hunt
  <2> QED  BY <2>1, <2>2 DEF Hunt
<1>9. ASSUME NEW b, NEW t, TryDeferred(b, t)  PROVE Hunt'
  <2>1. /\ <<b, t>> \in deferred /\ move' = <<b, t>> /\ pc \in {"sweep", "occupants"}
        /\ pc' = pc /\ at' = at /\ moves' = moves /\ waiting' = waiting
        /\ deferred' \subseteq deferred
    BY <1>9 DEF TryDeferred, StartTrial, loop
  <2> QED  BY <2>1 DEF Hunt
<1>10. CASE Replan \/ Solve
  <2>1. /\ pc' = pc /\ at' = at /\ moves' = moves /\ deferred' = deferred
        /\ waiting' = waiting /\ trial # "none" /\ move' = move
    BY <1>10 DEF Replan, Solve, loop, search
  <2> QED  BY <2>1 DEF Hunt
<1>11. CASE Verdict
  <2>1. /\ pc' = pc /\ at' = at /\ moves' \subseteq moves /\ deferred' = deferred
        /\ waiting' = waiting /\ trial' = "none"
    BY <1>11 DEF Verdict, loop
  <2> QED  BY <2>1 DEF Hunt
<1>12. CASE Commit
  <2>1. /\ pc' = "ripup" /\ at' = None /\ deferred' = {} /\ trial' = "none"
        /\ moves' = {}
    BY <1>12 DEF Commit, probe
  <2> QED  BY <2>1 DEF Hunt
<1> QED
  BY <1>1, <1>2, <1>3, <1>4, <1>5, <1>6, <1>7, <1>8, <1>9, <1>10, <1>11, <1>12
     DEF Next, Ripup, Negotiate

LEMMA HuntHolds == Spec => []Hunt
BY InitHunt, NextHunt, FlowHolds, TraceHolds, PTL DEF Spec

(* While no move improves, every candidate of every contender is waiting,   *)
(* put off, under trial, or measured and no better.                         *)
Covered(b, t) ==
  \/ b \in waiting
  \/ at = b /\ t \in moves
  \/ <<b, t>> \in deferred
  \/ trial # "none" /\ move = <<b, t>>
  \/ Metric(Measured(<<b, t>>)) >= cur

Certified ==
  pc \in Searching =>
    /\ cur \in Nat \ {0}
    /\ pc = "scan" /\ trial # "none" => move[1] = at
    /\ best = None =>
         \A b \in contenders : \A t \in Alternates(snap.ses, b) : Covered(b, t)

LEMMA InitCertified == Init => Certified
BY DEF Init, Certified, Searching

LEMMA NextCertified ==
  ASSUME Tightens, Flow, Trace, Best, Hunt, Certified, [Next]_vars
  PROVE  Certified'
<1> USE DEF Searching
<1>1. ASSUME pc' \notin Searching  PROVE Certified'
  BY <1>1 DEF Certified
<1>2. CASE RunPlanner \/ RunNuts \/ StartRipup \/ StartNegotiate \/ Commit \/ EndRipup
           \/ TrialRaises \/ Inject \/ Resolve \/ Accept \/ Press \/ EndNegotiate
           \/ NegotiateRaises
  BY <1>1, <1>2 DEF RunPlanner, RunNuts, StartRipup, StartNegotiate, Commit, EndRipup,
       TrialRaises, Inject, Resolve, Accept, Press, EndNegotiate, NegotiateRaises, Ready,
       Idle, loop
<1>3. ASSUME NEW b \in Bundle, Reprice(b)  PROVE Certified'
  BY <1>1, <1>3 DEF Reprice, loop
<1>4. CASE Iterate
  <2>1. /\ trial' = "none" /\ cur' = Metric(nuts) /\ Metric(nuts) # 0
        /\ waiting' = contenders'
    BY <1>4 DEF Iterate, Exhausted, Flow, probe
  <2>2. Metric(nuts) \in Nat
    BY MetricIsNat
  <2>3. \A b \in contenders' : \A t : Covered(b, t)'
    BY <2>1 DEF Covered
  <2> QED  BY <2>1, <2>2, <2>3 DEF Certified
<1>5. ASSUME NEW c \in Bundle, Scan(c)  PROVE Certified'
  <2>1. /\ pc = "scan" /\ pc' = pc /\ snap' = snap /\ cur' = cur /\ best' = best
        /\ at = None /\ at' = c /\ waiting' = waiting \ {c} /\ contenders' = contenders
        /\ trial' = trial
    BY <1>5 DEF Scan, loop, probe
  <2>2. /\ deferred' = deferred \cup ({c} \X (Alternates(ses, c) \ moves'))
    BY <1>5 DEF Scan
  <2>3. moves = {} /\ trial = "none" /\ ses = snap.ses
    BY <2>1 DEF Hunt, Trace, Apart
  <2>4. ASSUME NEW b, NEW t \in Alternates(snap.ses, b), Covered(b, t)
        PROVE  Covered(b, t)'
    BY <2>1, <2>2, <2>3, <2>4 DEF Covered, Measured
  <2> QED  BY <2>1, <2>3, <2>4 DEF Certified
<1>6. CASE StartSweep \/ NextContender
  <2>1. /\ pc \in Searching /\ trial = "none" /\ trial' = trial /\ snap' = snap
        /\ cur' = cur /\ best' = best /\ waiting' = waiting /\ contenders' = contenders
        /\ moves' = moves /\ moves = {} /\ deferred' = deferred
    BY <1>6 DEF StartSweep, NextContender, loop, search, probe, Hunt
  <2>2. ASSUME NEW b, NEW t, Covered(b, t)  PROVE Covered(b, t)'
    BY <2>1, <2>2 DEF Covered, Measured
  <2> QED  BY <2>1, <2>2 DEF Certified
<1>7. CASE StartOccupants
  <2>1. /\ pc \in Searching /\ trial = "none" /\ trial' = trial /\ snap' = snap
        /\ cur' = cur /\ best' = best /\ waiting' = waiting /\ contenders' = contenders
        /\ moves' = moves /\ at' = at /\ deferred = {}
    BY <1>7 DEF StartOccupants, probe
  <2>2. ASSUME NEW b, NEW t, Covered(b, t)  PROVE Covered(b, t)'
    BY <2>1, <2>2 DEF Covered, Measured
  <2> QED  BY <2>1, <2>2 DEF Certified
<1>8. ASSUME NEW c, NEW u, (TryKept(u) /\ c = at) \/ TryDeferred(c, u)  PROVE Certified'
  <2>1. /\ pc \in Searching /\ pc' = pc /\ trial = "none" /\ snap' = snap /\ cur' = cur
        /\ best' = best /\ waiting' = waiting /\ contenders' = contenders
        /\ moves' = moves /\ at' = at /\ trial' # "none" /\ move' = <<c, u>>
        /\ deferred \ {<<c, u>>} \subseteq deferred'
        /\ pc = "scan" => c = at
    BY <1>8 DEF TryKept, TryDeferred, StartTrial, loop, search
  <2>2. ASSUME NEW b, NEW t, Covered(b, t)  PROVE Covered(b, t)'
    BY <2>1, <2>2 DEF Covered, Measured
  <2> QED  BY <2>1, <2>2 DEF Certified
<1>9. CASE Replan \/ Solve
  <2>1. /\ pc \in Searching /\ trial # "none" /\ trial' # "none" /\ pc' = pc
        /\ snap' = snap /\ cur' = cur /\ best' = best /\ waiting' = waiting
        /\ contenders' = contenders /\ moves' = moves /\ at' = at /\ move' = move
        /\ deferred' = deferred
    BY <1>9 DEF Replan, Solve, loop, search, Flow
  <2>2. ASSUME NEW b, NEW t, Covered(b, t)  PROVE Covered(b, t)'
    BY <2>1, <2>2 DEF Covered, Measured
  <2> QED  BY <2>1, <2>2 DEF Certified
<1>10. CASE Verdict
  <2> DEFINE m == Metric(nuts)
  <2>1. /\ trial = "solved" /\ trial' = "none" /\ pc \in Searching /\ pc' = pc
        /\ snap' = snap /\ cur' = cur /\ waiting' = waiting /\ contenders' = contenders
        /\ at' = at /\ deferred' = deferred
        /\ best' = IF Improves(m) THEN [metric |-> m, move |-> move] ELSE best
        /\ moves' = IF m = 0 THEN {} ELSE moves \ {move[2]}
    BY <1>10 DEF Verdict, loop, Flow
  <2>2. m \in Nat /\ cur \in Nat \ {0} /\ m = Metric(Measured(move))
    BY <2>1, MetricIsNat DEF Certified, Best
  <2> HIDE DEF m
  <2>3. ASSUME best' = None  PROVE best = None /\ m >= cur
    <3>1. [metric |-> m, move |-> move] # None
      BY <2>1, <2>2, NoneAssumption DEF Hunt
    <3>2. ~Improves(m) /\ best = None
      BY <2>1, <2>3, <3>1
    <3> QED  BY <2>2, <3>2 DEF Improves
  <2>4. ASSUME best' = None, NEW b, NEW t, Covered(b, t)  PROVE Covered(b, t)'
    <3>1. m >= cur /\ m # 0
      BY <2>2, <2>3, <2>4
    <3>2. moves' = moves \ {move[2]}
      BY <2>1, <3>1
    <3>3. CASE at = b /\ t \in moves /\ t = move[2]
      <4>1. pc = "scan"
        BY <2>1, <3>3 DEF Hunt
      <4>2. move = <<b, t>>
        BY <2>1, <3>3, <4>1 DEF Certified, Hunt
      <4> QED  BY <2>1, <2>2, <3>1, <4>2 DEF Covered, Measured
    <3>4. CASE ~(at = b /\ t \in moves /\ t = move[2])
      BY <2>1, <2>2, <2>4, <3>1, <3>2, <3>4 DEF Covered, Measured
    <3> QED  BY <3>3, <3>4
  <2> QED  BY <2>1, <2>2, <2>3, <2>4 DEF Certified
<1>11. CASE UNCHANGED vars
  BY <1>11 DEF vars, session, loop, search, probe, Certified, Covered, Measured
<1> QED
  BY <1>2, <1>3, <1>4, <1>5, <1>6, <1>7, <1>8, <1>9, <1>10, <1>11
     DEF Next, Ripup, Negotiate

LEMMA StallIsCertified ==
  ASSUME Flow, Trace, Hunt, Certified, Stalled
  PROVE  \A b \in contenders : \A t \in Alternates(ses, b) :
           Metric(Solved(Planned(ses, b, t), TRUE)) >= cur
<1>1. /\ pc = "occupants" /\ deferred = {} /\ trial = "none" /\ best = None
      /\ waiting = {} /\ at = None /\ moves = {} /\ ses = snap.ses
  BY DEF Stalled, Hunt, Trace, Apart, Searching
<1>2. ASSUME NEW b \in contenders, NEW t \in Alternates(ses, b)
      PROVE  Metric(Measured(<<b, t>>)) >= cur
  BY <1>1, <1>2 DEF Certified, Covered, Searching
<1> QED  BY <1>1, <1>2 DEF Measured

(* When ripup_reroute stops for want of an improving move, none of the      *)
(* other candidates of the contenders improves, whatever the screen put     *)
(* off and however often a trial fell back to the whole planner.            *)
THEOREM StopAlwaysCertified ==
  ASSUME Tightens  PROVE Spec => StopIsCertified
<1>1. Flow /\ Trace /\ Best /\ Hunt /\ Certified /\ [Next]_vars => Certified'
  BY NextCertified
<1>2. Spec => []Certified
  BY <1>1, InitCertified, FlowHolds, TraceHolds, BestHolds, HuntHolds, PTL DEF Spec
<1>3. Flow /\ Trace /\ Hunt /\ Certified =>
        [Stalled /\ EndRipup =>
           \A b \in contenders : \A t \in Alternates(ses, b) :
             Metric(Solved(Planned(ses, b, t), TRUE)) >= cur]_vars
  BY StallIsCertified
<1> QED
  BY <1>2, <1>3, FlowHolds, TraceHolds, HuntHolds, PTL DEF StopIsCertified

-----------------------------------------------------------------------------
(* Types, and the indices that are followed without a bounds check.        *)

(* A selection lies in the pool, which is never empty; the candidate that a *)
(* split stands for is one of those before it, so it survives the split.    *)
Fit(w) ==
  /\ Wrapper(w)
  /\ Len(w.pool) >= 1
  /\ w.sel \in 0..Len(w.pool)
  /\ w.pin \in BOOLEAN
  /\ w.over \in Topologies \cup {None}
  /\ w.slot = 0 => w.orig = 0
  /\ w.slot # 0 => w.orig \in 1..(Len(w.pool) - 1)

Fits(s) ==
  /\ Session(s)
  /\ \A b \in Bundle : Fit(s[b])

(* The planner selects candidates of the pools it was handed, and overlaps *)
(* are between routed bundles.                                              *)
Answers ==
  /\ \A s : Fits(s) => \A b \in Bundle : Batch(s)[b].sel \in 0..Len(s[b].pool)
  /\ \A r : Parties(r) \subseteq Bundle

(* A move that was found in the snapshot. *)
Candidate(b, t) == b \in Bundle /\ t \in 1..Len(snap.ses[b].pool)

(* The session and the one it may return to fit, and every move on a list, *)
(* under trial or remembered is one of the snapshot's candidates.           *)
Indices ==
  /\ Fits(ses)
  /\ pc \in Searching \cup {"reprice", "judge"} => Fits(snap.ses)
  /\ pc \notin Searching => moves = {} /\ deferred = {}
  /\ pc \in Searching =>
       /\ \A t \in moves : Candidate(at, t)
       /\ \A m \in deferred : Candidate(m[1], m[2])
       /\ trial # "none" => Candidate(move[1], move[2])
       /\ best # None => Candidate(best.move[1], best.move[2])

(* An iteration makes one move or accepts one result at most. *)
Counters ==
  /\ it \in Nat /\ committed \in Nat /\ committed <= it
  /\ pc = "idle" => it = 0
  /\ pc \in Searching \cup {"ripup"} => it <= MaxIter
  /\ pc \in Negotiating => it <= NegIter
  /\ pc \in Searching \cup {"reprice", "judge"} => committed < it
  /\ pc \in {"idle", "ripup"} \cup Searching \cup Negotiating

Sets ==
  /\ injected \in BOOLEAN /\ unsaved \in BOOLEAN
  /\ contenders \subseteq Bundle /\ waiting \subseteq Bundle /\ dirty \subseteq Bundle

LEMMA SelectFits ==
  ASSUME NEW w, Fit(w), NEW i \in 0..Len(w.pool), NEW q \in BOOLEAN, NEW l,
         NEW v \in Topologies \cup {None}
  PROVE  Fit(Select(w, i, q, l, v))
<1> DEFINE w1 == [w EXCEPT !.sel = i]
           w2 == [w1 EXCEPT !.pin = q]
           w3 == [w2 EXCEPT !.layers = l]
           w4 == [w3 EXCEPT !.over = v]
<1>1. IsRecord(w) /\ Wrapper(w)
  BY DEF Fit, Wrapper
<1>2. IsRecord(w1) /\ w1.sel = i /\ w1.orig = w.orig
  BY <1>1 DEF IsRecord
<1> HIDE DEF w1
<1>3. IsRecord(w2) /\ w2.sel = i /\ w2.orig = w.orig /\ w2.pin = q
  BY <1>2 DEF IsRecord
<1> HIDE DEF w2
<1>4. IsRecord(w3) /\ w3.sel = i /\ w3.orig = w.orig /\ w3.pin = q
  BY <1>3 DEF IsRecord
<1> HIDE DEF w3
<1>5. w4.sel = i /\ w4.orig = w.orig /\ w4.pin = q /\ w4.over = v
  BY <1>4 DEF IsRecord
<1>6. Select(w, i, q, l, v) = w4
  BY DEF Select, w1, w2, w3, w4
<1> HIDE DEF w4
<1>7. Wrapper(w4) /\ w4.pool = w.pool /\ w4.slot = w.slot
  BY <1>1, <1>6, SelectOne
<1> QED  BY <1>5, <1>6, <1>7 DEF Fit

(* A session of which one wrapper changed, to one that fits. *)
LEMMA OneFits ==
  ASSUME NEW s, Fits(s), NEW b, NEW r, r = [c \in Bundle |-> r[c]],
         \A c \in Bundle : c # b => r[c] = s[c],
         Fit(r[b])
  PROVE  Fits(r)
<1>1. \A c \in Bundle : Fit(r[c])
  BY DEF Fits
<1>2. \A c \in Bundle : Wrapper(r[c])
  BY <1>1 DEF Fit
<1> QED  BY <1>1, <1>2 DEF Fits, Session

LEMMA PinnedFits ==
  ASSUME NEW s, Fits(s), NEW b \in Bundle, NEW t \in 1..Len(s[b].pool)
  PROVE  Fits(Pinned(s, b, t))
<1> DEFINE v == IF s[b].slot # 0 \/ t # s[b].sel THEN None ELSE s[b].over
           l == s[b].layers
           r == Pinned(s, b, t)
<1>1. r = [c \in Bundle |-> r[c]] /\ \A c \in Bundle : c # b => r[c] = s[c]
  BY DEF Pinned, Fits, Session
<1>2. r[b] = Select(s[b], t, TRUE, l, v)
  <2>1. r[b] = [s[b] EXCEPT !.sel = t, !.pin = TRUE, !.over = v]
    BY DEF Pinned, Fits, Session
  <2>2. IsRecord(s[b])
    BY DEF Fits, Session, Wrapper
  <2> QED  BY <2>1, <2>2 DEF IsRecord, Select
<1>3. v \in Topologies \cup {None} /\ t \in 0..Len(s[b].pool) /\ Fit(s[b])
  BY DEF Fits, Fit
<1> HIDE DEF r, v, l
<1>4. Fit(r[b])
  BY <1>2, <1>3, SelectFits
<1>5. Fits(r)
  BY <1>1, <1>4, OneFits
<1> QED  BY <1>5 DEF r

LEMMA AssignedFits ==
  ASSUME NEW s, Fits(s), NEW b \in Bundle, NEW i \in 0..Len(s[b].pool), NEW l
  PROVE  Fits(Assigned(s, b, i, l))
<1> DEFINE q == s[b].pin
           v == IF i # s[b].sel THEN None ELSE s[b].over
           r == Assigned(s, b, i, l)
<1>1. r = [c \in Bundle |-> r[c]] /\ \A c \in Bundle : c # b => r[c] = s[c]
  BY DEF Assigned, Fits, Session
<1>2. r[b] = Select(s[b], i, q, l, v)
  <2>1. r[b] = [s[b] EXCEPT !.sel = i, !.layers = l, !.over = v]
    BY DEF Assigned, Fits, Session
  <2>2. IsRecord(s[b])
    BY DEF Fits, Session, Wrapper
  <2> QED  BY <2>1, <2>2 DEF IsRecord, Select
<1>3. v \in Topologies \cup {None} /\ q \in BOOLEAN /\ Fit(s[b])
  BY DEF Fits, Fit
<1> HIDE DEF r, q, v
<1>4. Fit(r[b])
  BY <1>2, <1>3, SelectFits
<1>5. Fits(r)
  BY <1>1, <1>4, OneFits
<1> QED  BY <1>5 DEF r

LEMMA UnpinnedFits ==
  ASSUME NEW s, Fits(s), NEW b \in Bundle
  PROVE  Fits([s EXCEPT ![b].pin = FALSE])
<1> DEFINE i == s[b].sel
           l == s[b].layers
           v == s[b].over
           r == [s EXCEPT ![b].pin = FALSE]
<1>1. r = [c \in Bundle |-> r[c]] /\ \A c \in Bundle : c # b => r[c] = s[c]
  BY DEF Fits, Session
<1>2. r[b] = Select(s[b], i, FALSE, l, v)
  <2>1. r[b] = [s[b] EXCEPT !.pin = FALSE]
    BY DEF Fits, Session
  <2>2. IsRecord(s[b])
    BY DEF Fits, Session, Wrapper
  <2> QED  BY <2>1, <2>2 DEF IsRecord, Select
<1>3. v \in Topologies \cup {None} /\ i \in 0..Len(s[b].pool) /\ Fit(s[b])
  BY DEF Fits, Fit
<1> HIDE DEF r, i, l, v
<1>4. Fit(r[b])
  BY <1>2, <1>3, SelectFits
<1>5. Fits(r)
  BY <1>1, <1>4, OneFits
<1> QED  BY <1>5 DEF r

(* Without the split the selection falls back to the candidate it stood    *)
(* for, which is there.                                                     *)
LEMMA UndoglegFits ==
  ASSUME NEW w, Fit(w)  PROVE Fit(Undogleg(w))
<1>1. CASE w.slot = 0
  BY <1>1 DEF Undogleg
<1>2. CASE w.slot # 0
  <2> DEFINE u == Undogleg(w)
             n == Len(w.pool)
             p == RemoveAt(w.pool, w.slot)
  <2>1. Wrapper(w) /\ IsRecord(w) /\ n \in Nat /\ w.slot = n /\ w.orig \in 1..(n - 1)
    BY <1>2, LenProperties DEF Fit, Wrapper
  <2>2. Wrapper(u) /\ Back(u, w)
    BY <2>1, UndoglegIsBack
  <2>3. u.pool = p /\ u.slot = 0 /\ u.orig = 0 /\ u.over = None /\ u.pin = w.pin
    BY <1>2, <2>1 DEF Undogleg, IsRecord
  <2>4. u.sel = IF w.orig \in DOMAIN p THEN w.orig ELSE 1
    BY <1>2, <2>1 DEF Undogleg, IsRecord
  <2> HIDE DEF u, p
  <2>5. Len(u.pool) \in Nat /\ DOMAIN u.pool = 1..Len(u.pool)
    BY <2>2, LenProperties DEF Wrapper
  <2>6. Len(u.pool) + 1 = n
    BY <1>2, <2>1, <2>2, <2>3, <2>5 DEF Back, Shortened
  <2>7. Len(u.pool) >= 1 /\ u.sel \in 0..Len(u.pool)
    BY <2>1, <2>3, <2>4, <2>5, <2>6
  <2>8. w.pin \in BOOLEAN
    BY DEF Fit
  <2>9. Fit(u)
    BY <2>2, <2>3, <2>7, <2>8 DEF Fit
  <2> QED  BY <2>9 DEF u
<1> QED  BY <1>1, <1>2

LEMMA ReplannedFits ==
  ASSUME Answers, NEW s, Fits(s)  PROVE Fits(Replanned(s))
<1> DEFINE r == [b \in Bundle |-> Undogleg(s[b])]
           t == Replanned(s)
<1>1. \A b \in Bundle : Fit(r[b])
  BY UndoglegFits DEF Fits
<1>2. t = [b \in Bundle |-> [r[b] EXCEPT !.sel = Batch(r)[b].sel,
                                         !.layers = Batch(r)[b].layers]]
  BY DEF Replanned
<1>3. r = [b \in Bundle |-> r[b]]
  OBVIOUS
<1> HIDE DEF r, t
<1>4. Fits(r)
  BY <1>1, <1>3 DEF Fits, Session, Fit
<1>5. ASSUME NEW b \in Bundle  PROVE Fit(t[b])
  <2>1. t[b] = [r[b] EXCEPT !.sel = Batch(r)[b].sel, !.layers = Batch(r)[b].layers]
    BY <1>2
  <2>2. IsRecord(r[b]) /\ r[b].pin \in BOOLEAN /\ r[b].over \in Topologies \cup {None}
    BY <1>1 DEF Fit, Wrapper
  <2>3. t[b] = Select(r[b], Batch(r)[b].sel, r[b].pin, Batch(r)[b].layers, r[b].over)
    BY <2>1, <2>2 DEF IsRecord, Select
  <2>4. Batch(r)[b].sel \in 0..Len(r[b].pool)
    BY <1>4 DEF Answers
  <2> QED  BY <1>1, <2>2, <2>3, <2>4, SelectFits
<1>6. t = [b \in Bundle |-> t[b]]
  BY <1>2
<1>7. Fits(t)
  BY <1>5, <1>6 DEF Fits, Session, Fit
<1> QED  BY <1>7 DEF t

LEMMA RerunFits ==
  ASSUME Answers, NEW s, Fits(s), NEW b \in Bundle  PROVE Fits(Rerun(s, b))
<1>1. CASE LayersOf(s, b) = None
  BY <1>1, ReplannedFits DEF Rerun
<1>2. CASE LayersOf(s, b) # None
  <2> DEFINE l == LayersOf(s, b)
             i == s[b].sel
             q == s[b].pin
             v == s[b].over
             r == Rerun(s, b)
  <2>1. r = [s EXCEPT ![b].layers = l]
    BY <1>2 DEF Rerun
  <2>2. r = [c \in Bundle |-> r[c]] /\ \A c \in Bundle : c # b => r[c] = s[c]
    BY <2>1 DEF Fits, Session
  <2>3. r[b] = Select(s[b], i, q, l, v)
    <3>1. r[b] = [s[b] EXCEPT !.layers = l]
      BY <2>1 DEF Fits, Session
    <3>2. IsRecord(s[b])
      BY DEF Fits, Session, Wrapper
    <3> QED  BY <3>1, <3>2 DEF IsRecord, Select
  <2>4. /\ v \in Topologies \cup {None} /\ q \in BOOLEAN /\ i \in 0..Len(s[b].pool)
        /\ Fit(s[b])
    BY DEF Fits, Fit
  <2> HIDE DEF r, i, q, l, v
  <2>5. Fit(r[b])
    BY <2>3, <2>4, SelectFits
  <2>6. Fits(r)
    BY <2>2, <2>5, OneFits
  <2> QED  BY <2>6 DEF r
<1> QED  BY <1>1, <1>2

LEMMA PlannedFits ==
  ASSUME Answers, NEW s, Fits(s), NEW b \in Bundle, NEW t \in 1..Len(s[b].pool)
  PROVE  Fits(Planned(s, b, t))
BY PinnedFits, RerunFits DEF Planned

LEMMA AdoptFits ==
  ASSUME NEW w, Fit(w), w.sel \in DOMAIN w.pool  PROVE Fit(Adopt(w))
<1> DEFINE t == Split(Topo(w))
           n == Len(w.pool)
           a == Adopt(w)
<1>1. /\ Wrapper(w) /\ IsRecord(w) /\ w.pool \in Seq(Topologies) /\ n \in Nat /\ n >= 1
      /\ DOMAIN w.pool = 1..n /\ w.slot \in {0, n} /\ w.sel \in 1..n
  BY LenProperties DEF Fit, Wrapper
<1>2. t \in Topologies
  BY <1>1, ElementOfSeq, SplitIsTopology DEF Topo
<1>3. Wrapper(a)
  <2>1. Back(w, w)
    BY DEF Back
  <2> QED  BY <1>1, <2>1, AdoptIsNear
<1>4. a.over = t /\ a.pin = w.pin /\ w.pin \in BOOLEAN
  BY <1>1 DEF Adopt, IsRecord, Fit
<1>5. CASE w.slot \in DOMAIN w.pool
  <2>1. a.slot = w.slot /\ a.orig = w.orig /\ a.sel = w.slot
    BY <1>1, <1>5 DEF Adopt, IsRecord
  <2>2. a.pool = [w.pool EXCEPT ![w.slot] = t]
    BY <1>1, <1>5 DEF Adopt, IsRecord
  <2> HIDE DEF a, t
  <2>3. Len(a.pool) = n
    BY <1>1, <1>2, <1>5, <2>2, ExceptSeq
  <2>4. w.slot = n /\ w.slot # 0 /\ w.orig \in 1..(n - 1)
    BY <1>1, <1>5 DEF Fit
  <2>5. a.sel \in 0..n
    BY <1>1, <2>1, <2>4
  <2>6. Fit(a)
    BY <1>1, <1>2, <1>3, <1>4, <2>1, <2>3, <2>4, <2>5 DEF Fit
  <2> QED  BY <2>6 DEF a
<1>6. CASE w.slot \notin DOMAIN w.pool
  <2>1. a.slot = n + 1 /\ a.orig = w.sel /\ a.sel = n + 1
    BY <1>1, <1>6 DEF Adopt, IsRecord
  <2>2. a.pool = Append(w.pool, t)
    BY <1>1, <1>6 DEF Adopt, IsRecord
  <2> HIDE DEF a, t
  <2>3. Len(a.pool) = n + 1
    BY <1>1, <1>2, <2>2, AppendProperties
  <2>4. /\ a.sel \in 0..(n + 1) /\ a.slot # 0 /\ a.orig \in 1..((n + 1) - 1)
        /\ n + 1 >= 1
    BY <1>1, <2>1
  <2>5. Fit(a)
    BY <1>2, <1>3, <1>4, <2>3, <2>4 DEF Fit
  <2> QED  BY <2>5 DEF a
<1> QED  BY <1>5, <1>6

LEMMA AdoptedFits ==
  ASSUME NEW s, Fits(s)  PROVE Fits(Adopted(s))
<1> DEFINE r == Adopted(s)
<1>1. r = [b \in Bundle |-> r[b]]
  BY DEF Adopted
<1>2. \A b \in Bundle : r[b] = s[b] \/ (Routed(s[b]) /\ r[b] = Adopt(s[b]))
  BY DEF Adopted
<1> HIDE DEF r
<1>3. \A b \in Bundle : Fit(r[b])
  BY <1>2, AdoptFits DEF Fits, Routed
<1>4. Fits(r)
  BY <1>1, <1>3 DEF Fits, Session, Fit
<1> QED  BY <1>4 DEF r

LEMMA InitFits == Init => Fits(ses)
<1> SUFFICES ASSUME Init  PROVE Fits(ses)
  OBVIOUS
<1>1. Session(ses)
  BY InitTrace DEF Trace
<1>2. ASSUME NEW b \in Bundle  PROVE Fit(ses[b])
  <2> DEFINE p == [i \in DOMAIN Pool[b] |-> Whole(Pool[b][i])]
  <2>1. ses[b] = [pool |-> p, sel |-> 0, pin |-> FALSE, layers |-> None, over |-> None,
                  slot |-> 0, orig |-> 0]
    BY DEF Init
  <2>2. Wrapper(ses[b])
    BY <1>1 DEF Session
  <2>3. Len(p) \in Nat /\ Len(p) >= 1
    <3>1. p \in Seq(Topologies) /\ DOMAIN p = 1..Len(p) /\ Len(p) \in Nat
      <4>1. p \in Seq(Topologies)
        BY <2>1, <2>2 DEF Wrapper
      <4> HIDE DEF p
      <4> QED  BY <4>1, LenProperties
    <3>2. DOMAIN p = 1..Len(Pool[b]) /\ Len(Pool[b]) \in Nat /\ Len(Pool[b]) # 0
      BY PoolAssumption, LenProperties, EmptySeq
    <3>3. 1 \in DOMAIN p
      BY <3>2
    <3> HIDE DEF p
    <3> QED  BY <3>1, <3>3
  <2> HIDE DEF p
  <2> QED  BY <2>1, <2>2, <2>3 DEF Fit
<1> QED  BY <1>1, <1>2 DEF Fits

LEMMA InitIndices == Init => Indices /\ Counters /\ Sets
<1> SUFFICES ASSUME Init  PROVE Indices /\ Counters /\ Sets
  OBVIOUS
<1>1. Indices
  BY InitFits DEF Init, Indices, Searching
<1>2. Counters
  <2>1. pc = "idle" /\ it = 0 /\ committed = 0
    BY DEF Init
  <2> QED  BY <2>1 DEF Counters, Searching, Negotiating
<1>3. Sets
  BY DEF Init, Sets
<1> QED  BY <1>1, <1>2, <1>3

(* A step of the search that leaves session and snapshot alone, and puts    *)
(* candidates of the snapshot only on its lists.                            *)
LEMMA ListsFit ==
  ASSUME Indices, pc \in Searching, pc' \in Searching, ses' = ses, snap' = snap,
         trial' = trial, move' = move, best' = best,
         \A t \in moves' : Candidate(at', t),
         \A m \in deferred' : Candidate(m[1], m[2])
  PROVE  Indices'
BY DEF Indices, Candidate

LEMMA TrialFits ==
  ASSUME Indices, Flow, Trace, Hunt, pc \in Searching, NEW b, NEW t, StartTrial(b, t),
         Candidate(b, t), at' = at, moves' = moves, deferred' \subseteq deferred,
         best' = best
  PROVE  Indices'
<1>1. /\ trial = "none" /\ move' = <<b, t>> /\ ses' = Pinned(ses, b, t)
      /\ pc' = pc /\ snap' = snap
  BY DEF StartTrial, loop
<1>2. Fits(ses) /\ Fits(snap.ses) /\ ses = snap.ses
  BY <1>1 DEF Indices, Trace, Apart
<1>3. Fits(ses')
  BY <1>1, <1>2, PinnedFits DEF Candidate
<1>4. move'[1] = b /\ move'[2] = t
  BY <1>1
<1> QED  BY <1>1, <1>2, <1>3, <1>4 DEF Indices, Candidate

LEMMA AlternatesAreCandidates ==
  ASSUME Fits(ses), ses = snap.ses, NEW b \in Bundle, NEW t \in Alternates(ses, b)
  PROVE  Candidate(b, t)
<1>1. DOMAIN ses[b].pool = 1..Len(ses[b].pool)
  BY LenProperties DEF Fits, Fit, Wrapper
<1> QED  BY <1>1 DEF Alternates, Candidate

LEMMA PlannableFits ==
  ASSUME NEW s, Fits(s), NEW b \in Bundle, NEW i \in Plannable(s, b)
  PROVE  Fits(Given(s, b, i))
<1>1. DOMAIN s[b].pool = 1..Len(s[b].pool) /\ Len(s[b].pool) \in Nat
  BY LenProperties DEF Fits, Fit, Wrapper
<1>2. i \in 0..Len(s[b].pool)
  BY <1>1 DEF Plannable
<1> QED  BY <1>2, AssignedFits DEF Given

LEMMA NextIndices ==
  ASSUME Answers, Flow, Trace, Hunt, Indices, [Next]_vars  PROVE Indices'
<1> USE DEF Searching
<1>0. Fits(ses)
  BY DEF Indices
<1>1. ASSUME pc' \notin Searching, pc' \in {"reprice", "judge"} => Fits(snap.ses)',
             Fits(ses'), moves' = {}, deferred' = {}
      PROVE  Indices'
  BY <1>1 DEF Indices
<1>2. ASSUME pc \notin Searching  PROVE moves = {} /\ deferred = {}
  BY <1>2 DEF Indices
<1>3. CASE RunPlanner \/ RunNuts
  <2>1. /\ pc = "idle" /\ pc' = "idle" /\ moves' = moves /\ deferred' = deferred
        /\ ses' = Replanned(ses) \/ ses' = Adopted(ses)
    BY <1>3 DEF RunPlanner, RunNuts, loop, search
  <2>2. Fits(ses')
    BY <1>0, <2>1, ReplannedFits, AdoptedFits
  <2> QED  BY <1>1, <1>2, <2>1, <2>2
<1>4. CASE StartRipup \/ StartNegotiate \/ Accept
  <2>1. /\ pc \notin Searching /\ pc' \in {"ripup", "negotiate"} /\ ses' = ses
        /\ moves' = moves /\ deferred' = deferred
    BY <1>4 DEF StartRipup, StartNegotiate, Accept, Ready, session, search
  <2> QED  BY <1>0, <1>1, <1>2, <2>1
<1>5. CASE Iterate
  <2>1. /\ pc = "ripup" /\ pc' = "scan" /\ ses' = ses /\ snap'.ses = ses
        /\ moves' = moves /\ deferred' = deferred /\ trial' = trial /\ best' = best
    BY <1>5 DEF Iterate, session, probe, Snapshot
  <2>2. trial = "none" /\ best = None /\ moves = {} /\ deferred = {}
    BY <1>2, <2>1 DEF Flow
  <2> QED  BY <1>0, <2>1, <2>2 DEF Indices
<1>6. ASSUME NEW b \in Bundle, Scan(b)  PROVE Indices'
  <2>1. /\ pc = "scan" /\ pc' = pc /\ at = None /\ at' = b /\ ses' = ses /\ snap' = snap
        /\ trial' = trial /\ move' = move /\ best' = best
    BY <1>6 DEF Scan, session, loop, probe
  <2>2. /\ moves' \subseteq Alternates(ses, b)
        /\ deferred' \subseteq deferred \cup ({b} \X Alternates(ses, b))
    BY <1>6 DEF Scan
  <2>3. ses = snap.ses
    BY <2>1 DEF Hunt, Trace, Apart
  <2>4. \A t \in Alternates(ses, b) : Candidate(b, t)
    BY <1>0, <2>3, AlternatesAreCandidates
  <2>5. \A m \in deferred : Candidate(m[1], m[2])
    BY <2>1 DEF Indices
  <2>6. \A m \in deferred' : Candidate(m[1], m[2])
    BY <2>2, <2>4, <2>5
  <2>7. \A t \in moves' : Candidate(at', t)
    BY <2>1, <2>2, <2>4
  <2> QED  BY <2>1, <2>6, <2>7, ListsFit
<1>7. CASE StartSweep \/ NextContender
  <2>1. /\ pc \in Searching /\ pc' \in Searching /\ ses' = ses /\ snap' = snap
        /\ trial' = trial /\ move' = move /\ best' = best
        /\ moves' = moves /\ deferred' = deferred
    BY <1>7 DEF StartSweep, NextContender, session, loop, search, probe
  <2>2. moves = {} \/ at' = at
    BY <1>7 DEF StartSweep, NextContender, search
  <2> QED  BY <2>1, <2>2, ListsFit DEF Indices
<1>8. CASE StartOccupants
  <2>1. /\ pc = "sweep" /\ pc' = "occupants" /\ ses' = ses /\ snap' = snap /\ at' = at
        /\ moves' = moves /\ trial' = trial /\ move' = move /\ best' = best
        /\ trial = "none"
    BY <1>8 DEF StartOccupants, session, probe
  <2>2. PICK free \in SUBSET (Bundle \ (contenders \cup Locked)) :
          deferred' = UNION {{b} \X Alternates(ses, b) : b \in free}
    BY <1>8 DEF StartOccupants
  <2>3. ses = snap.ses
    BY <2>1 DEF Trace, Apart
  <2>4. \A b \in Bundle : \A t \in Alternates(ses, b) : Candidate(b, t)
    BY <1>0, <2>3, AlternatesAreCandidates
  <2>5. \A m \in deferred' : \E b \in Bundle : m[1] = b /\ m[2] \in Alternates(ses, b)
    BY <2>2
  <2>6. \A m \in deferred' : Candidate(m[1], m[2])
    BY <2>4, <2>5
  <2>7. \A t \in moves' : Candidate(at', t)
    BY <2>1 DEF Indices
  <2> QED  BY <2>1, <2>6, <2>7, ListsFit
<1>9. ASSUME NEW t \in moves, TryKept(t)  PROVE Indices'
  <2>1. /\ pc \in Searching /\ StartTrial(at, t) /\ at' = at /\ moves' = moves
        /\ deferred' = deferred /\ best' = best
    BY <1>9 DEF TryKept, search
  <2>2. Candidate(at, t)
    BY <2>1 DEF Indices
  <2> QED  BY <2>1, <2>2, TrialFits
<1>10. ASSUME NEW m \in deferred, TryDeferred(m[1], m[2])  PROVE Indices'
  <2>1. /\ pc \in Searching /\ StartTrial(m[1], m[2]) /\ at' = at /\ moves' = moves
        /\ deferred' \subseteq deferred /\ best' = best
    BY <1>10 DEF TryDeferred
  <2>2. Candidate(m[1], m[2])
    BY <2>1 DEF Indices
  <2> QED  BY <2>1, <2>2, TrialFits
<1>11. CASE Replan \/ Solve
  <2>1. /\ trial \in {"pinned", "planned"} /\ pc' = pc /\ snap' = snap /\ at' = at
        /\ moves' = moves /\ deferred' = deferred /\ move' = move /\ best' = best
        /\ ses' = Rerun(ses, move[1]) \/ ses' = Adopted(ses)
    BY <1>11 DEF Replan, Solve, loop, search
  <2>2. pc \in Searching /\ Candidate(move[1], move[2])
    BY <2>1 DEF Flow, Indices
  <2>3. Fits(ses')
    BY <1>0, <2>1, <2>2, RerunFits, AdoptedFits DEF Candidate
  <2> QED  BY <2>1, <2>2, <2>3 DEF Indices, Candidate
<1>12. CASE Verdict
  <2>1. /\ trial = "solved" /\ trial' = "none" /\ pc' = pc /\ snap' = snap /\ at' = at
        /\ moves' \subseteq moves /\ deferred' = deferred
        /\ ses' = Restored(dirty)
        /\ best' = best \/ best' = [metric |-> Metric(nuts), move |-> move]
    BY <1>12 DEF Verdict, Rollback, loop
  <2>2. /\ pc \in Searching /\ Session(ses) /\ Session(snap.ses)
        /\ AllNear(ses, snap.ses) /\ Beside(ses, snap.ses, dirty)
    BY <2>1 DEF Flow, Trace, Apart
  <2>3. ses' = snap.ses
    BY <2>1, <2>2, RestoreIsExact
  <2>4. best' # None => Candidate(best'.move[1], best'.move[2])
    <3>1. Candidate(move[1], move[2]) /\ (best # None => Candidate(best.move[1], best.move[2]))
      BY <2>1, <2>2 DEF Indices
    <3>2. CASE best' = best
      BY <3>1, <3>2
    <3>3. CASE best' = [metric |-> Metric(nuts), move |-> move]
      <4>1. best'.move = move
        BY <3>3
      <4> QED  BY <3>1, <4>1
    <3> QED  BY <2>1, <3>2, <3>3
  <2> QED  BY <2>1, <2>2, <2>3, <2>4 DEF Indices, Candidate
<1>13. CASE Commit
  <2> DEFINE b == best.move[1]
             t == best.move[2]
             s == Planned(ses, b, t)
  <2>1. /\ trial = "none" /\ best # None /\ moves = {} /\ pc' = "ripup"
        /\ ses' = Adopted(s) /\ moves' = moves /\ deferred' = {}
    BY <1>13 DEF Commit
  <2>2. pc \in Searching /\ ses = snap.ses /\ Candidate(b, t)
    BY <2>1 DEF Flow, Indices, Trace, Apart
  <2> HIDE DEF b, t
  <2>3. Fits(s)
    BY <1>0, <2>2, PlannedFits DEF Candidate
  <2> HIDE DEF s
  <2>4. Fits(ses')
    BY <2>1, <2>3, AdoptedFits
  <2> QED  BY <1>1, <2>1, <2>4
<1>14. ASSUME trial \in {"pinned", "planned"} \/ pc \in {"reprice", "judge"},
              ses' = Restored(Bundle)
       PROVE  Fits(ses')
  <2>1. ses' = snap.ses
    BY <1>14, RollbackOfAll
  <2>2. Fits(snap.ses)
    BY <1>14 DEF Flow, Indices
  <2> QED  BY <2>1, <2>2
<1>15. CASE TrialRaises \/ NegotiateRaises
  <2>1. /\ pc' = "idle" /\ moves' = {} /\ deferred' = {} /\ ses' = Restored(Bundle)
        /\ trial \in {"pinned", "planned"} \/ pc \in {"reprice", "judge"}
    BY <1>15 DEF TrialRaises, NegotiateRaises, Rollback, Idle
  <2> QED  BY <1>1, <1>14, <2>1
<1>16. CASE EndRipup
  BY <1>0, <1>1, <1>16 DEF EndRipup, Idle, session
<1>17. CASE EndNegotiate
  <2>1. /\ pc' = "idle" /\ moves' = {} /\ deferred' = {}
        /\ ses' = ses \/ (pc = "judge" /\ ses' = Restored(Bundle))
    BY <1>17 DEF EndNegotiate, Rollback, Idle
  <2> QED  BY <1>0, <1>1, <1>14, <2>1
<1>18. CASE Press
  <2>1. /\ pc = "judge" /\ pc' = "negotiate" /\ moves' = moves /\ deferred' = deferred
        /\ ses' = Restored(Bundle)
    BY <1>18 DEF Press, Rollback, search
  <2> QED  BY <1>1, <1>2, <1>14, <2>1
<1>19. CASE Inject
  <2>1. /\ pc = "negotiate" /\ pc' = "reprice" /\ moves' = moves /\ deferred' = deferred
        /\ ses' = ses /\ snap'.ses = ses
    BY <1>19 DEF Inject, Snapshot
  <2> QED  BY <1>0, <1>1, <1>2, <2>1
<1>20. CASE Resolve
  <2>1. /\ pc = "reprice" /\ pc' = "judge" /\ moves' = moves /\ deferred' = deferred
        /\ ses' = Adopted(ses) /\ snap' = snap
    BY <1>20 DEF Resolve, search
  <2>2. Fits(ses') /\ Fits(snap.ses)
    BY <1>0, <2>1, AdoptedFits DEF Indices
  <2> QED  BY <1>1, <1>2, <2>1, <2>2
<1>21. ASSUME NEW b \in Bundle, Reprice(b)  PROVE Indices'
  <2> DEFINE s == [ses EXCEPT ![b].pin = FALSE]
  <2>1. /\ pc = "reprice" /\ pc' = pc /\ snap' = snap /\ moves' = moves
        /\ deferred' = deferred
    BY <1>21 DEF Reprice, loop
  <2>2. Fits(s)
    BY <1>0, UnpinnedFits
  <2>3. \/ ses' = ses
        \/ ses' = s
        \/ \E i \in Plannable(s, b) :
             \/ ses' = Given(s, b, i)
             \/ \E v \in Bundle : \E j \in Plannable(Given(s, b, i), v) :
                  ses' = Given(Given(s, b, i), v, j)
    BY <1>21 DEF Reprice
  <2> HIDE DEF s
  <2>4. \A i \in Plannable(s, b) : Fits(Given(s, b, i))
    BY <2>2, PlannableFits
  <2>5. Fits(ses')
    BY <1>0, <2>2, <2>3, <2>4, PlannableFits
  <2>6. Fits(snap.ses)
    BY <2>1 DEF Indices
  <2> QED  BY <1>1, <1>2, <2>1, <2>5, <2>6
<1>22. CASE UNCHANGED vars
  BY <1>22 DEF vars, session, loop, search, probe, Indices, Candidate
<1> QED
  BY <1>3, <1>4, <1>5, <1>6, <1>7, <1>8, <1>9, <1>10, <1>11, <1>12, <1>13, <1>15, <1>16,
     <1>17, <1>18, <1>19, <1>20, <1>21, <1>22 DEF Next, Ripup, Negotiate

LEMMA NextCounters ==
  ASSUME Flow, Counters, [Next]_vars  PROVE Counters'
<1> USE DEF Searching, Negotiating
<1>0. /\ it \in Nat /\ committed \in Nat /\ MaxIter \in Nat /\ NegIter \in Nat
      /\ committed <= it
  BY BoundsAssumption DEF Counters
<1>1. ASSUME pc' = "idle", it' = 0, committed' = 0  PROVE Counters'
  BY <1>1 DEF Counters
<1>2. ASSUME pc' = pc, it' = it, committed' = committed  PROVE Counters'
  BY <1>2 DEF Counters
<1>3. CASE RunPlanner \/ RunNuts \/ NextContender \/ Replan \/ Solve \/ Verdict
           \/ UNCHANGED vars
  BY <1>2, <1>3 DEF RunPlanner, RunNuts, NextContender, Replan, Solve, Verdict, loop, vars
<1>4. ASSUME NEW b, Scan(b) \/ Reprice(b)  PROVE Counters'
  BY <1>2, <1>4 DEF Scan, Reprice, loop
<1>5. ASSUME NEW b, NEW t, TryKept(t) \/ TryDeferred(b, t)  PROVE Counters'
  BY <1>2, <1>5 DEF TryKept, TryDeferred, StartTrial, loop
<1>6. CASE TrialRaises \/ EndRipup \/ EndNegotiate \/ NegotiateRaises
  BY <1>1, <1>6 DEF TrialRaises, EndRipup, EndNegotiate, NegotiateRaises, Idle
<1>7. CASE StartRipup \/ StartNegotiate
  <2>1. /\ pc = "idle" /\ pc' \in {"ripup", "negotiate"}
        /\ it' = it /\ committed' = committed
    BY <1>7 DEF StartRipup, StartNegotiate, Ready
  <2>2. it = 0
    BY <2>1 DEF Counters
  <2> QED  BY <1>0, <2>1, <2>2 DEF Counters
<1>8. CASE Iterate
  <2>1. /\ pc = "ripup" /\ pc' = "scan" /\ it' = it + 1 /\ committed' = committed
        /\ it # MaxIter
    BY <1>8 DEF Iterate, Exhausted
  <2>2. it <= MaxIter
    BY <2>1 DEF Counters
  <2> QED  BY <1>0, <2>1, <2>2 DEF Counters
<1>9. CASE Inject
  <2>1. /\ pc = "negotiate" /\ pc' = "reprice" /\ it' = it + 1 /\ committed' = committed
        /\ it < NegIter
    BY <1>9 DEF Inject
  <2> QED  BY <1>0, <2>1 DEF Counters
<1>10. CASE StartSweep \/ StartOccupants
  <2>1. /\ pc \in Searching /\ pc' \in Searching /\ it' = it /\ committed' = committed
    BY <1>10 DEF StartSweep, StartOccupants
  <2> QED  BY <2>1 DEF Counters
<1>11. CASE Commit
  <2>1. /\ best # None /\ pc' = "ripup" /\ it' = it /\ committed' = committed + 1
    BY <1>11 DEF Commit
  <2>2. pc \in Searching
    BY <2>1 DEF Flow
  <2>3. it <= MaxIter /\ committed < it
    BY <2>2 DEF Counters
  <2> QED  BY <1>0, <2>1, <2>3 DEF Counters
<1>12. CASE Resolve
  <2>1. /\ pc = "reprice" /\ pc' = "judge" /\ it' = it /\ committed' = committed
    BY <1>12 DEF Resolve
  <2> QED  BY <2>1 DEF Counters
<1>13. CASE Accept
  <2>1. /\ pc = "judge" /\ pc' = "negotiate" /\ it' = it /\ committed' = committed + 1
    BY <1>13 DEF Accept
  <2>2. it <= NegIter /\ committed < it
    BY <2>1 DEF Counters
  <2> QED  BY <1>0, <2>1, <2>2 DEF Counters
<1>14. CASE Press
  <2>1. /\ pc = "judge" /\ pc' = "negotiate" /\ it' = it /\ committed' = committed
    BY <1>14 DEF Press
  <2> QED  BY <2>1 DEF Counters
<1> QED
  BY <1>3, <1>4, <1>5, <1>6, <1>7, <1>8, <1>9, <1>10, <1>11, <1>12, <1>13, <1>14
     DEF Next, Ripup, Negotiate

LEMMA NextSets ==
  ASSUME Answers, Flow, Hunt, Sets, [Next]_vars  PROVE Sets'
<1>0. /\ injected \in BOOLEAN /\ unsaved \in BOOLEAN
      /\ contenders \subseteq Bundle /\ waiting \subseteq Bundle /\ dirty \subseteq Bundle
  BY DEF Sets
<1>1. ASSUME injected' \in {injected, FALSE, TRUE},
             unsaved' \in {unsaved, FALSE, unsaved \/ committed > 0},
             contenders' \subseteq Bundle, waiting' \subseteq Bundle, dirty' \subseteq Bundle
      PROVE  Sets'
  <2>1. injected' \in BOOLEAN
    BY <1>0, <1>1
  <2>2. unsaved' \in BOOLEAN
    BY <1>0, <1>1, Zenon
  <2> QED  BY <1>1, <2>1, <2>2 DEF Sets
<1>2. CASE RunPlanner \/ RunNuts \/ StartRipup \/ StartNegotiate \/ NextContender
           \/ StartSweep \/ StartOccupants \/ Resolve \/ Accept \/ Press \/ UNCHANGED vars
  <2>1. /\ injected' \in {injected, FALSE} /\ unsaved' = unsaved
        /\ contenders' = contenders /\ waiting' = waiting /\ dirty' = dirty
    BY <1>2 DEF RunPlanner, RunNuts, StartRipup, StartNegotiate, NextContender, StartSweep,
         StartOccupants, Resolve, Accept, Press, session, store, search, probe, vars
  <2> QED  BY <1>0, <1>1, <2>1
<1>3. Contenders \subseteq Bundle
  BY DEF Contenders, Answers
<1>4. CASE Iterate
  <2>1. /\ injected' = injected /\ unsaved' = unsaved /\ dirty' = dirty
        /\ contenders' = Contenders /\ waiting' = Contenders
    BY <1>4 DEF Iterate, session, store, probe
  <2> QED  BY <1>0, <1>1, <1>3, <2>1
<1>5. CASE Inject
  <2>1. /\ injected' = TRUE /\ unsaved' = unsaved /\ dirty' = dirty
        /\ contenders' = contenders /\ waiting' = Parties(nuts.routes)
    BY <1>5 DEF Inject, store, probe
  <2>2. waiting' \subseteq Bundle
    BY <2>1 DEF Answers
  <2> QED  BY <1>0, <1>1, <2>1, <2>2
<1>6. ASSUME NEW b, Scan(b) \/ Reprice(b)  PROVE Sets'
  <2>1. /\ injected' = injected /\ unsaved' = unsaved /\ dirty' = dirty
        /\ contenders' = contenders /\ waiting' \subseteq waiting
    BY <1>6 DEF Scan, Reprice, session, store, probe
  <2>2. waiting' \subseteq Bundle
    BY <1>0, <2>1
  <2> QED  BY <1>0, <1>1, <2>1, <2>2
<1>7. ASSUME NEW b, NEW t, TryKept(t) \/ TryDeferred(b, t)  PROVE Sets'
  <2>1. /\ injected' = injected /\ unsaved' = unsaved /\ dirty' = dirty
        /\ contenders' = contenders /\ waiting' = waiting
    BY <1>7 DEF TryKept, TryDeferred, StartTrial, store, search
  <2> QED  BY <1>0, <1>1, <2>1
<1>8. CASE Replan \/ Solve \/ Verdict
  <2>1. /\ injected' = injected /\ unsaved' = unsaved
        /\ contenders' = contenders /\ waiting' = waiting
    BY <1>8 DEF Replan, Solve, Verdict, store, search
  <2>2. trial # "none" /\ \/ dirty' \in {{move[1]}, Bundle, {}}
                          \/ dirty' \subseteq dirty \cup Bundle
    BY <1>8 DEF Replan, Solve, Verdict
  <2>3. move[1] \in Bundle
    BY <2>2 DEF Hunt
  <2>4. dirty' \subseteq Bundle
    BY <1>0, <2>2, <2>3
  <2> QED  BY <1>0, <1>1, <2>1, <2>4
<1>9. CASE Commit
  <2>1. /\ injected' = injected /\ unsaved' = unsaved /\ dirty' = dirty
        /\ contenders' = {} /\ waiting' = {}
    BY <1>9 DEF Commit, store, probe
  <2> QED  BY <1>0, <1>1, <2>1
<1>10. CASE TrialRaises \/ NegotiateRaises
  <2>1. /\ injected' \in {injected, FALSE} /\ unsaved' = (unsaved \/ committed > 0)
        /\ dirty' \in {dirty, {}}
        /\ contenders' = {} /\ waiting' = {}
    BY <1>10 DEF TrialRaises, NegotiateRaises, Idle, probe
  <2> QED  BY <1>0, <1>1, <2>1
<1>11. CASE EndRipup \/ EndNegotiate
  <2>1. /\ injected' \in {injected, FALSE} /\ dirty' = dirty
        /\ contenders' = {} /\ waiting' = {} /\ Checkpoint
    BY <1>11 DEF EndRipup, EndNegotiate, Idle, session, probe
  <2>2. unsaved' \in {unsaved, FALSE}
    BY <2>1 DEF Checkpoint, store
  <2> QED  BY <1>0, <1>1, <2>1, <2>2
<1> QED
  BY <1>2, <1>4, <1>5, <1>6, <1>7, <1>8, <1>9, <1>10, <1>11 DEF Next, Ripup, Negotiate

(* Indices into pools stay inside them, whatever is tried, undone, adopted  *)
(* or forgotten, if the planner selects among the candidates it is given;   *)
(* and no healer makes more moves than it has iterations.                   *)
THEOREM IndicesInThePools ==
  ASSUME Tightens, Answers  PROVE Spec => []TypeOK
<1>1. Init => cur \in Nat
  BY DEF Init
<1>2. cur \in Nat /\ [Next]_vars => (cur \in Nat)'
  BY NextCur
<1>3. /\ Flow /\ Trace /\ Hunt /\ Indices /\ Counters /\ Sets /\ [Next]_vars
        => Indices' /\ Counters' /\ Sets'
  BY NextIndices, NextCounters, NextSets
<1>4. ASSUME Flow, Trace, Indices, Counters, Sets, cur \in Nat  PROVE TypeOK
  <2>1. ASSUME NEW b \in Bundle
        PROVE  /\ ses[b].pool \in Seq(Topologies)
               /\ ses[b].sel \in {0} \cup DOMAIN ses[b].pool
               /\ ses[b].slot \in {0} \cup DOMAIN ses[b].pool
               /\ ses[b].orig \in {0} \cup DOMAIN ses[b].pool
               /\ ses[b].pin \in BOOLEAN
               /\ ses[b].over \in Topologies \cup {None}
    <3> DEFINE w == ses[b]
               n == Len(w.pool)
    <3>1. Fit(w) /\ Wrapper(w)
      <4>1. Fits(ses)
        BY <1>4 DEF Indices
      <4>2. Fit(w)
        BY <4>1 DEF Fits
      <4> QED  BY <4>2 DEF Fit
    <3> HIDE DEF w
    <3>2. /\ w.pool \in Seq(Topologies) /\ n \in Nat /\ DOMAIN w.pool = 1..n
      BY <3>1, LenProperties DEF Wrapper
    <3>3. /\ n >= 1 /\ w.sel \in 0..n /\ w.slot \in {0, n} /\ w.pin \in BOOLEAN
          /\ w.over \in Topologies \cup {None}
          /\ w.slot = 0 => w.orig = 0
          /\ w.slot # 0 => w.orig \in 1..(n - 1)
      BY <3>1 DEF Fit, Wrapper
    <3> HIDE DEF n
    <3>4. /\ w.sel \in {0} \cup 1..n /\ w.slot \in {0} \cup 1..n /\ w.orig \in {0} \cup 1..n
      BY <3>2, <3>3
    <3>5. /\ w.pool \in Seq(Topologies)
          /\ w.sel \in {0} \cup DOMAIN w.pool
          /\ w.slot \in {0} \cup DOMAIN w.pool
          /\ w.orig \in {0} \cup DOMAIN w.pool
          /\ w.pin \in BOOLEAN
          /\ w.over \in Topologies \cup {None}
      BY <3>2, <3>3, <3>4
    <3> QED  BY <3>5 DEF w
  <2>2. it \in 0..(MaxIter + NegIter) /\ committed \in 0..it
    BY <1>4, BoundsAssumption DEF Counters, Searching, Negotiating
  <2>3. pc \in {"idle", "ripup", "scan", "sweep", "occupants", "negotiate", "reprice", "judge"}
    BY <1>4 DEF Counters, Searching, Negotiating
  <2>4. trial \in {"none", "pinned", "planned", "solved"}
    BY <1>4 DEF Flow, Trace, Apart
  <2> QED  BY <1>4, <2>1, <2>2, <2>3, <2>4 DEF TypeOK, Sets
<1> QED
  BY <1>1, <1>2, <1>3, <1>4, InitIndices, FlowHolds, TraceHolds, HuntHolds, PTL DEF Spec
=============================================================================
