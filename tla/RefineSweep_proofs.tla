-------------------------- MODULE RefineSweep_proofs --------------------------
(***************************************************************************)
(* The parallel sweep is the sequential one, for every session, every      *)
(* ranking and accept test, and every number and schedule of the threads:  *)
(* the pool answers every job once, the answers are about the session as   *)
(* it stands, and what the walk does with them are the visits of the       *)
(* sequential loop.                                                        *)
(***************************************************************************)
EXTENDS RefineSweep, SequenceTheorems, TLAPS

-----------------------------------------------------------------------------
(* The pool of threads.                                                    *)

LEMMA TableLen ==
  ASSUME NEW n \in Nat, NEW f, f = [x \in 1..n |-> f[x]]
  PROVE  Len(f) = n /\ DOMAIN f = 1..n
<1> DEFINE S == {f[x] : x \in 1..n}
<1>1. f \in [1..n -> S]
  OBVIOUS
<1>2. f \in Seq(S)
  BY <1>1, SeqDef
<1>3. DOMAIN f = 1..n /\ DOMAIN f = 1..Len(f) /\ Len(f) \in Nat
  BY <1>1, <1>2, LenProperties
<1> QED  BY <1>3

Places == 1..Len(jobs)

(* A place is open, or taken by one worker, or written with a verdict.     *)
Drained ==
  /\ \A p \in Places : p >= next => out[p] = None
  /\ \A p \in Places : p < next => \/ out[p] \in Verdicts(jobs[p])
                                   \/ \E w \in Worker : at[w] = p
  /\ \A w \in Worker : at[w] # None =>
       /\ at[w] \in Places /\ at[w] < next /\ out[at[w]] = None
       /\ w \in crew /\ w \notin gone
       /\ \A v \in Worker \ {w} : at[v] # at[w]

Crewed ==
  /\ gone \subseteq crew /\ crew \subseteq Worker
  /\ gone # {} => next = Len(jobs) + 1
  /\ pool \in {"joining", "joined"} => crew # {}
  /\ pool = "joined" => crew \subseteq gone
  /\ pool = "off" => crew = {}

PoolInv ==
  /\ pool \in {"off", "starting", "joining", "joined"}
  /\ Len(jobs) \in Nat /\ DOMAIN jobs = Places
  /\ DOMAIN out = Places
  /\ next \in Nat /\ next >= 1 /\ next <= Len(jobs) + 1
  /\ DOMAIN at = Worker
  /\ Drained /\ Crewed

LEMMA NoneIsNoPlace == None \notin Nat
BY ThreadsAssumption

LEMMA PoolWork ==
  ASSUME PoolInv, Work
  PROVE  PoolInv'
<1>1. ASSUME NEW w \in Worker, Spawn(w)
      PROVE  PoolInv'
  BY <1>1 DEF Spawn, PoolInv, Drained, Crewed, Places
<1>2. ASSUME NEW w \in Worker, Claim(w), next <= Len(jobs)
      PROVE  PoolInv'
  <2>1. /\ at' = [at EXCEPT ![w] = next] /\ next' = next + 1
        /\ UNCHANGED <<pool, jobs, out, crew, gone>>
        /\ at[w] = None /\ w \in crew /\ w \notin gone
    BY <1>2 DEF Claim
  <2>2. next \in Places /\ out[next] = None
    BY <1>2 DEF PoolInv, Drained, Places
  <2>3. at'[w] = next /\ \A v \in Worker \ {w} : at'[v] = at[v] /\ DOMAIN at' = Worker
    BY <2>1 DEF PoolInv
  <2>4. Drained'
    <3>1. \A p \in Places : p >= next' => out[p] = None
      BY <2>1 DEF PoolInv, Drained, Places
    <3>2. \A p \in Places : p < next' => \/ out[p] \in Verdicts(jobs[p])
                                         \/ \E v \in Worker : at'[v] = p
      <4> SUFFICES ASSUME NEW p \in Places, p < next'
                   PROVE  out[p] \in Verdicts(jobs[p]) \/ \E v \in Worker : at'[v] = p
        OBVIOUS
      <4>1. CASE p = next
        BY <2>3, <4>1
      <4>2. CASE p # next
        <5>1. p < next
          BY <2>1, <4>2 DEF PoolInv, Places
        <5> QED  BY <2>1, <2>3, <5>1, NoneIsNoPlace DEF PoolInv, Drained, Places
      <4> QED  BY <4>1, <4>2
    <3>3. ASSUME NEW v \in Worker, at'[v] # None
          PROVE  /\ at'[v] \in Places /\ at'[v] < next' /\ out[at'[v]] = None
                 /\ v \in crew /\ v \notin gone
                 /\ \A u \in Worker \ {v} : at'[u] # at'[v]
      BY <2>1, <2>2, <2>3, <3>3, NoneIsNoPlace DEF PoolInv, Drained, Places
    <3> QED  BY <2>1, <3>1, <3>2, <3>3 DEF Drained, Places
  <2> QED  BY <1>2, <2>1, <2>3, <2>4 DEF PoolInv, Crewed, Places
<1>3. ASSUME NEW w \in Worker, Claim(w), ~(next <= Len(jobs))
      PROVE  PoolInv'
  BY <1>3 DEF Claim, PoolInv, Drained, Crewed, Places
<1>4. ASSUME NEW w \in Worker, Evaluate(w)
      PROVE  PoolInv'
  <2>1. PICK v \in Verdicts(jobs[at[w]]) : out' = [out EXCEPT ![at[w]] = v]
    BY <1>4 DEF Evaluate
  <2>2. /\ at' = [at EXCEPT ![w] = None] /\ at[w] # None /\ at[w] \in Places
        /\ UNCHANGED <<pool, jobs, next, crew, gone>>
    BY <1>4 DEF Evaluate, PoolInv, Drained
  <2>3. /\ at'[w] = None /\ \A u \in Worker \ {w} : at'[u] = at[u]
        /\ DOMAIN at' = Worker /\ DOMAIN out' = Places
        /\ out'[at[w]] = v /\ \A p \in Places : p # at[w] => out'[p] = out[p]
    BY <2>1, <2>2 DEF PoolInv
  <2>4. Drained'
    <3>1. \A p \in Places : p >= next => out'[p] = None
      BY <2>2, <2>3 DEF PoolInv, Drained, Places
    <3>2. \A p \in Places : p < next => \/ out'[p] \in Verdicts(jobs[p])
                                        \/ \E u \in Worker : at'[u] = p
      <4> SUFFICES ASSUME NEW p \in Places, p < next
                   PROVE  out'[p] \in Verdicts(jobs[p]) \/ \E u \in Worker : at'[u] = p
        OBVIOUS
      <4>1. CASE p = at[w]
        BY <2>3, <4>1
      <4>2. CASE p # at[w]
        BY <2>3, <4>2 DEF PoolInv, Drained
      <4> QED  BY <4>1, <4>2
    <3>3. ASSUME NEW u \in Worker, at'[u] # None
          PROVE  /\ at'[u] \in Places /\ at'[u] < next /\ out'[at'[u]] = None
                 /\ u \in crew /\ u \notin gone
                 /\ \A x \in Worker \ {u} : at'[x] # at'[u]
      <4>1. u # w /\ at'[u] = at[u] /\ at[u] # at[w] /\ at[u] \in Places
        BY <2>2, <2>3, <3>3 DEF PoolInv, Drained
      <4>2. \A x \in Worker \ {u} : at'[x] # at'[u]
        BY <2>3, <3>3, <4>1 DEF PoolInv, Drained
      <4> QED  BY <2>2, <2>3, <3>3, <4>1, <4>2 DEF PoolInv, Drained
    <3> QED  BY <2>2, <3>1, <3>2, <3>3 DEF Drained, Places
  <2> QED  BY <2>2, <2>3, <2>4 DEF PoolInv, Crewed, Places
<1>5. ASSUME Spawned
      PROVE  PoolInv'
  BY <1>5 DEF Spawned, PoolInv, Drained, Crewed, Places
<1>6. ASSUME Join
      PROVE  PoolInv'
  BY <1>6 DEF Join, PoolInv, Drained, Crewed, Places
<1> QED  BY <1>1, <1>2, <1>3, <1>4, <1>5, <1>6 DEF Work

(* When all have gone, every place is written. *)
LEMMA JoinedComplete ==
  ASSUME PoolInv, pool = "joined"
  PROVE  /\ \A p \in Places : out[p] \in Verdicts(jobs[p])
         /\ \A w \in Worker : at[w] = None
<1>1. crew \subseteq gone /\ gone # {} /\ next = Len(jobs) + 1
  BY DEF PoolInv, Crewed
<1>2. \A w \in Worker : at[w] = None
  BY <1>1 DEF PoolInv, Drained
<1>3. \A p \in Places : p < next /\ p # None
  BY <1>1, NoneIsNoPlace DEF PoolInv, Places
<1> QED  BY <1>2, <1>3 DEF PoolInv, Drained

LEMMA PoolComplete == PoolInv => SweepIsComplete
BY JoinedComplete DEF PoolInv, Drained, SweepIsComplete

(* A call, and the return from it. *)
LEMMA PoolCall ==
  ASSUME PoolInv, NEW n \in Nat, NEW js, js = [x \in 1..n |-> js[x]], Call(js)
  PROVE  PoolInv' /\ pool' = "starting" /\ jobs' = js
<1>1. /\ pool = "off" /\ pool' = "starting" /\ jobs' = js /\ next' = 1
      /\ out' = [x \in DOMAIN js |-> None] /\ UNCHANGED <<crew, at, gone>>
  BY DEF Call
<1>2. Len(js) = n /\ DOMAIN js = 1..n
  BY TableLen
<1>3. crew = {} /\ gone = {} /\ \A w \in Worker : at[w] = None
  BY <1>1 DEF PoolInv, Crewed, Drained
<1> QED  BY <1>1, <1>2, <1>3 DEF PoolInv, Drained, Crewed, Places

LEMMA PoolRelease ==
  ASSUME PoolInv, Release
  PROVE  PoolInv' /\ pool' = "off"
<1>1. \A w \in Worker : at[w] = None
  BY JoinedComplete DEF Release
<1>2. Len(<<>>) = 0 /\ DOMAIN <<>> = {}
  OBVIOUS
<1> QED  BY <1>1, <1>2 DEF Release, PoolInv, Drained, Crewed, Places

LEMMA PoolSame ==
  ASSUME PoolInv, UNCHANGED workers
  PROVE  PoolInv'
BY DEF workers, PoolInv, Drained, Crewed, Places

LEMMA PoolStart == PoolInit => PoolInv
<1>1. Len(<<>>) = 0 /\ DOMAIN <<>> = {}
  OBVIOUS
<1> QED  BY <1>1 DEF PoolInit, PoolInv, Drained, Crewed, Places

-----------------------------------------------------------------------------
(* The command.                                                            *)

Member == [bundle : 1..N, first : Nat, tops : Seq(Nat)]

(* The members of the chunk that are still ahead of the walk. *)
From == IF pc = "walk" THEN k ELSE 1

Types ==
  /\ pc \in {"gather", "screen", "ranked", "evaluate", "walk", "done", "raised"}
  /\ ses \in Session /\ last \in 0..N /\ i \in 1..(N + 1)
  /\ nmv \in Nat /\ committed \in Nat /\ trials \in Nat
  /\ group \in Seq(Member)
  /\ pc = "walk" => k \in 1..(Len(group) + 1)

(* The chunk holds bundles in their order, each with room for the moves it *)
(* will keep.                                                              *)
Layout ==
  /\ \A m \in 1..Len(group) :
       /\ Eligible(ses, group[m].bundle) /\ group[m].bundle < i
       /\ group[m].first + Kept(group[m].bundle) <= nmv
       /\ \A n \in 1..Len(group) : m < n =>
            /\ group[m].bundle < group[n].bundle
            /\ group[m].first + Kept(group[m].bundle) <= group[n].first
  /\ group # <<>> => committed < MaxMoves

Ranked ==
  pc \in {"ranked", "evaluate", "walk"} =>
    \A m \in 1..Len(group) :
      group[m].tops \in {Top(Screened(ses, group[m].bundle)),
                         Top(Alternates(ses, group[m].bundle))}

(* The bundles the sequential loop has still to visit before i are those   *)
(* ahead.                                                                  *)
Ahead ==
  pc \notin {"done", "raised"} =>
    /\ \A c \in (last + 1)..(i - 1) : Eligible(ses, c) =>
         \E m \in From..Len(group) : group[m].bundle = c
    /\ \A m \in From..Len(group) : group[m].bundle > last
    /\ last < i

(* The pool works for the chunk, ... *)
Calls ==
  /\ pool # "off" <=> pc \in {"screen", "evaluate"}
  /\ pc = "screen" => jobs = [m \in DOMAIN group |-> ScreenJob(group[m].bundle)]
  /\ pc = "evaluate" =>
       jobs = [p \in 1..nmv |->
                 SweepJob(group[Owner(p)].bundle,
                          group[Owner(p)].tops[p - group[Owner(p)].first])]

(* ... and what it rejects the sequential trial would reject. *)
Fresh ==
  pc = "walk" => \A m \in 1..Len(group) : \A j \in DOMAIN group[m].tops :
    outs[group[m].first + j] = "reject" => ~Accepts(ses, group[m].bundle, group[m].tops[j])

IInv == Types /\ Layout /\ Ranked /\ Ahead /\ Calls /\ Fresh /\ PoolInv

SeqStep == [Sequential!Next]_(Sequential!vars)

(* What is kept of a ranking. *)
LEMMA TopOf ==
  ASSUME NEW a \in Seq(Nat)
  PROVE  /\ Top(a) \in Seq(Nat)
         /\ Len(Top(a)) = IF Len(a) < TopN THEN Len(a) ELSE TopN
         /\ \A j \in 1..Len(Top(a)) : Top(a)[j] = a[j] /\ j \in 1..Len(a)
<1> DEFINE n == IF Len(a) < TopN THEN Len(a) ELSE TopN
<1>1. n \in 1..Len(a) \/ n = 0
  BY RefineAssumption
<1>2. n \in Nat /\ n <= Len(a)
  BY RefineAssumption
<1>3. Top(a) = SubSeq(a, 1, n)
  BY DEF Top
<1> HIDE DEF n
<1>4. Top(a) \in Seq(Nat) /\ Len(Top(a)) = n /\ \A j \in 1..n : Top(a)[j] = a[j]
  BY <1>1, <1>2, <1>3, SubSeqProperties
<1> QED  BY <1>2, <1>4 DEF n

(* A bundle keeps the same number of moves, screened or not, and each of   *)
(* them leads to a session.                                                *)
LEMMA TopsOf ==
  ASSUME NEW s \in Session, NEW b \in 1..N, Eligible(s, b),
         NEW tops \in {Top(Screened(s, b)), Top(Alternates(s, b))}
  PROVE  /\ tops \in Seq(Nat)
         /\ Len(tops) = IF Len(Alternates(s, b)) < TopN THEN Len(Alternates(s, b)) ELSE TopN
         /\ \A j \in DOMAIN tops : Moved(s, b, tops[j]) \in Session
<1>1. /\ Alternates(s, b) \in Seq(Nat) /\ Screened(s, b) \in Seq(Nat)
      /\ Len(Screened(s, b)) = Len(Alternates(s, b))
      /\ \A t \in {Alternates(s, b)[x] : x \in DOMAIN Alternates(s, b)} \cup
                   {Screened(s, b)[x] : x \in DOMAIN Screened(s, b)} :
            Moved(s, b, t) \in Session
  BY SessionAssumption
<1>2. PICK a \in {Screened(s, b), Alternates(s, b)} : tops = Top(a)
  OBVIOUS
<1>3. /\ a \in Seq(Nat) /\ Len(a) = Len(Alternates(s, b))
      /\ \A x \in DOMAIN a : Moved(s, b, a[x]) \in Session
  BY <1>1, <1>2
<1>4. /\ tops \in Seq(Nat) /\ Len(tops) = IF Len(a) < TopN THEN Len(a) ELSE TopN
      /\ \A j \in 1..Len(tops) : tops[j] = a[j] /\ j \in 1..Len(a)
  BY <1>2, <1>3, TopOf
<1>5. DOMAIN tops = 1..Len(tops) /\ DOMAIN a = 1..Len(a)
  BY <1>3, <1>4, LenProperties
<1> HIDE DEF Top
<1>6. \A j \in DOMAIN tops : Moved(s, b, tops[j]) \in Session
  BY <1>3, <1>4, <1>5
<1> QED  BY <1>3, <1>4, <1>6

LEMMA KeptNat ==
  ASSUME ses \in Session, NEW b \in 1..N, Eligible(ses, b)
  PROVE  Kept(b) \in Nat
BY SessionAssumption, RefineAssumption DEF Kept

LEMMA InitIInv == Init => IInv /\ Sequential!Init
<1> SUFFICES ASSUME Init  PROVE IInv /\ Sequential!Init
  OBVIOUS
<1>1. <<>> \in Seq(Member) /\ Len(<<>>) = 0
  OBVIOUS
<1>2. Types /\ Layout /\ Ranked /\ Ahead /\ Fresh
  BY <1>1, RefineAssumption, SessionAssumption DEF Init, Types, Layout, Ranked, Ahead, Fresh, From
<1>3. Calls /\ PoolInv
  BY PoolStart DEF Init, Calls, PoolInit
<1>4. Sequential!Init
  BY DEF Init, Sequential!Init
<1> QED  BY <1>2, <1>3, <1>4 DEF IInv

(* The threads do not touch the command. *)
LEMMA StepThreads ==
  ASSUME IInv, Threads
  PROVE  IInv' /\ SeqStep
<1>1. UNCHANGED <<command, pc, chunk>> /\ PoolInv'
  BY PoolWork DEF Threads, IInv
<1>2. UNCHANGED jobs /\ (pool' # "off" <=> pool # "off")
  BY DEF Threads, Work, Spawn, Claim, Evaluate, Spawned, Join
<1>3. Types' /\ Layout' /\ Ranked' /\ Ahead' /\ Fresh'
  BY <1>1 DEF command, chunk, IInv, Types, Layout, Ranked, Ahead, Fresh, From, Kept
<1>4. Calls'
  BY <1>1, <1>2 DEF command, chunk, IInv, Calls, ScreenJob, SweepJob, Owner
<1>5. SeqStep
  BY <1>1 DEF command, SeqStep, Sequential!vars
<1> QED  BY <1>1, <1>3, <1>4, <1>5 DEF IInv

-----------------------------------------------------------------------------
(* Gathering a chunk and calling the pool.                                 *)

LEMMA StepGather ==
  ASSUME IInv, Gather
  PROVE  IInv' /\ SeqStep
<1>1. /\ pc = "gather" /\ pc' = "gather" /\ i \in 1..N /\ committed < MaxMoves /\ i' = i + 1
      /\ UNCHANGED <<ses, last, sweeping, committed, trials, width, outs, k>>
      /\ UNCHANGED workers
  BY DEF Gather, command, IInv, Types
<1>2. PoolInv' /\ Calls'
  BY <1>1, PoolSame DEF IInv, Calls, workers
<1>3. SeqStep
  BY <1>1 DEF SeqStep, Sequential!vars
<1>4. CASE ~Eligible(ses, i)
  <2>1. UNCHANGED <<group, nmv>>
    BY <1>4 DEF Gather
  <2>2. Types' /\ Ranked' /\ Fresh'
    BY <1>1, <2>1, RefineAssumption DEF IInv, Types, Ranked, Fresh
  <2>3. Layout'
    <3>1. \A b : Kept(b)' = Kept(b)
      BY <1>1 DEF Kept
    <3>2. \A m \in 1..Len(group) : group[m].bundle < i => group[m].bundle < i'
      <4>1. \A m \in 1..Len(group) : group[m].bundle \in 1..N
        <5>1. \A m \in 1..Len(group) : group[m] \in Member
          BY DEF IInv, Types
        <5> QED  BY <5>1 DEF Member
      <4> QED  BY <1>1, <4>1 DEF IInv, Types
    <3> QED  BY <1>1, <2>1, <3>1, <3>2 DEF IInv, Layout
  <2>4. Ahead'
    BY <1>1, <1>4, <2>1 DEF IInv, Types, Ahead, From
  <2> QED  BY <1>2, <1>3, <2>2, <2>3, <2>4 DEF IInv
<1>5. CASE Eligible(ses, i)
  <2> DEFINE e == [bundle |-> i, first |-> nmv, tops |-> <<>>]
             L == Len(group)
  <2>1. group' = Append(group, e) /\ nmv' = nmv + Kept(i)
    BY <1>5 DEF Gather
  <2>2. Kept(i) \in Nat
    BY <1>1, <1>5, KeptNat DEF IInv, Types
  <2>3. e \in Member
    BY <1>1 DEF IInv, Types, Member
  <2>4. /\ group' \in Seq(Member) /\ L \in Nat /\ Len(group') = L + 1
        /\ \A m \in 1..L : group'[m] = group[m] /\ group[m] \in Member
        /\ group'[L + 1] = e
    BY <2>1, <2>3, AppendProperties DEF IInv, Types
  <2>5. e.bundle = i /\ e.first = nmv
    OBVIOUS
  <2>6. \A m \in 1..L : Kept(group[m].bundle) \in Nat /\ group[m].first \in Nat
                        /\ group[m].bundle \in 1..N
    BY <2>4, KeptNat DEF IInv, Types, Layout, Member
  <2> HIDE DEF e, L
  <2>7. Types' /\ Ranked' /\ Fresh'
    BY <1>1, <2>1, <2>2, <2>4, RefineAssumption DEF IInv, Types, Ranked, Fresh
  <2>8. ASSUME NEW m \in 1..(L + 1)
        PROVE  /\ Eligible(ses, group'[m].bundle) /\ group'[m].bundle < i'
               /\ group'[m].first + Kept(group'[m].bundle) <= nmv'
               /\ \A n \in 1..(L + 1) : m < n =>
                    /\ group'[m].bundle < group'[n].bundle
                    /\ group'[m].first + Kept(group'[m].bundle) <= group'[n].first
    <3>1. CASE m = L + 1
      BY <1>1, <1>5, <2>1, <2>2, <2>4, <2>5, <3>1 DEF IInv, Types
    <3>2. CASE m \in 1..L
      <4>1. /\ Eligible(ses, group[m].bundle) /\ group[m].bundle < i
            /\ group[m].first + Kept(group[m].bundle) <= nmv
            /\ \A n \in 1..L : m < n =>
                 /\ group[m].bundle < group[n].bundle
                 /\ group[m].first + Kept(group[m].bundle) <= group[n].first
        BY <3>2 DEF IInv, Layout, L
      <4>2. group[m].bundle < i' /\ group[m].first + Kept(group[m].bundle) <= nmv'
        BY <1>1, <2>1, <2>2, <2>6, <3>2, <4>1 DEF IInv, Types
      <4>3. ASSUME NEW n \in 1..(L + 1), m < n
            PROVE  /\ group[m].bundle < group'[n].bundle
                   /\ group[m].first + Kept(group[m].bundle) <= group'[n].first
        <5>1. CASE n = L + 1
          BY <2>4, <2>5, <4>1, <5>1
        <5>2. CASE n \in 1..L
          BY <2>4, <4>1, <4>3, <5>2
        <5> QED  BY <2>4, <5>1, <5>2
      <4> QED  BY <2>4, <3>2, <4>1, <4>2, <4>3
    <3> QED  BY <2>4, <3>1, <3>2
  <2>9. Layout'
    <3>1. \A b : Kept(b)' = Kept(b)
      BY <1>1 DEF Kept
    <3>2. Len(group') = L + 1 /\ committed' < MaxMoves
      BY <1>1, <2>4
    <3> QED  BY <1>1, <2>8, <3>1, <3>2 DEF Layout
  <2>10. Ahead'
    <3>1. From = 1 /\ From' = 1
      BY <1>1 DEF From
    <3>2. ASSUME NEW c \in (last' + 1)..(i' - 1), Eligible(ses', c)
          PROVE  \E m \in 1..(L + 1) : group'[m].bundle = c
      <4>1. CASE c = i
        BY <2>4, <2>5, <4>1
      <4>2. CASE c # i
        <5>1. c \in (last + 1)..(i - 1) /\ Eligible(ses, c)
          BY <1>1, <3>2, <4>2 DEF IInv, Types
        <5>2. PICK m \in 1..L : group[m].bundle = c
          BY <1>1, <3>1, <5>1 DEF IInv, Ahead, L
        <5> QED  BY <2>4, <5>2
      <4> QED  BY <4>1, <4>2
    <3>3. ASSUME NEW m \in 1..(L + 1)
          PROVE  group'[m].bundle > last'
      <4>1. CASE m = L + 1
        <5>1. last < i
          BY <1>1 DEF IInv, Ahead
        <5> QED  BY <1>1, <2>4, <2>5, <4>1, <5>1
      <4>2. CASE m \in 1..L
        BY <1>1, <2>4, <3>1, <4>2 DEF IInv, Ahead, L
      <4> QED  BY <2>4, <4>1, <4>2
    <3>4. last' < i'
      BY <1>1 DEF IInv, Types, Ahead
    <3> QED  BY <1>1, <2>4, <3>1, <3>2, <3>3, <3>4 DEF Ahead
  <2> QED  BY <1>2, <1>3, <2>7, <2>9, <2>10 DEF IInv
<1> QED  BY <1>4, <1>5

(* The same command state in another stage of the chunk. *)
LEMMA SameCommand ==
  ASSUME IInv, pc \notin {"walk", "done", "raised"}, pc' \notin {"walk", "done", "raised"},
         UNCHANGED <<command, i, nmv>>, Len(group') = Len(group),
         \A m \in 1..Len(group) : /\ group'[m].bundle = group[m].bundle
                                  /\ group'[m].first = group[m].first,
         group # <<>> \/ group' = <<>>
  PROVE  Layout' /\ Ahead' /\ SeqStep
<1>1. \A b : Kept(b)' = Kept(b)
  BY DEF Kept, command
<1>2. Layout'
  BY <1>1 DEF IInv, Layout, command
<1>3. From = 1 /\ From' = 1
  BY DEF From
<1>4. Ahead'
  BY <1>3 DEF IInv, Ahead, command
<1>5. SeqStep
  BY DEF IInv, Types, SeqStep, Sequential!vars, command
<1> QED  BY <1>2, <1>4, <1>5

LEMMA StepStartScreen ==
  ASSUME IInv, StartScreen
  PROVE  IInv' /\ SeqStep
<1>1. /\ pc = "gather" /\ pc' = "screen" /\ UNCHANGED <<command, chunk>>
      /\ Call([m \in DOMAIN group |-> ScreenJob(group[m].bundle)])
  BY DEF StartScreen
<1>2. DOMAIN group = 1..Len(group) /\ Len(group) \in Nat
  BY DEF IInv, Types
<1>3. PoolInv' /\ pool' = "starting" /\ jobs' = [m \in DOMAIN group |-> ScreenJob(group[m].bundle)]
  BY <1>1, <1>2, PoolCall DEF IInv
<1>4. Layout' /\ Ahead' /\ SeqStep
  BY <1>1, SameCommand DEF chunk
<1>5. Types' /\ Ranked' /\ Fresh'
  BY <1>1 DEF IInv, Types, Ranked, Fresh, command, chunk
<1>6. Calls'
  BY <1>1, <1>3 DEF Calls, ScreenJob, command, chunk
<1> QED  BY <1>3, <1>4, <1>5, <1>6 DEF IInv

LEMMA StepTakeScreens ==
  ASSUME IInv, TakeScreens
  PROVE  IInv' /\ SeqStep
<1> DEFINE L == Len(group)
<1>1. /\ pc = "screen" /\ pc' = "ranked" /\ Release /\ pool = "joined"
      /\ group' = [m \in DOMAIN group |-> [group[m] EXCEPT !.tops = out[m]]]
      /\ UNCHANGED <<command, i, width, nmv, outs, k>>
  BY DEF TakeScreens, Release
<1>2. PoolInv' /\ pool' = "off"
  BY <1>1, PoolRelease DEF IInv
<1>3. DOMAIN group = 1..L /\ L \in Nat /\ \A m \in 1..L : group[m] \in Member
  BY DEF IInv, Types
<1>4. jobs = [m \in 1..L |-> ScreenJob(group[m].bundle)]
  BY <1>1, <1>3 DEF IInv, Calls
<1>5. Places = 1..L
  BY <1>3, <1>4, TableLen DEF Places
<1>6. ASSUME NEW m \in 1..L
      PROVE  /\ out[m] \in {Top(Screened(ses, group[m].bundle)),
                            Top(Alternates(ses, group[m].bundle))}
             /\ out[m] \in Seq(Nat)
  <2>1. out[m] \in Verdicts(ScreenJob(group[m].bundle))
    BY <1>1, <1>4, <1>5, JoinedComplete DEF IInv
  <2>2. out[m] \in {Top(Screened(ses, group[m].bundle)), Top(Alternates(ses, group[m].bundle))}
    BY <2>1 DEF Verdicts, ScreenJob
  <2>3. ses \in Session /\ group[m].bundle \in 1..N /\ Eligible(ses, group[m].bundle)
    BY <1>3 DEF IInv, Types, Layout, Member
  <2> QED  BY <2>2, <2>3, TopsOf
<1>7. ASSUME NEW m \in 1..L
      PROVE  /\ group'[m] \in Member /\ group'[m].bundle = group[m].bundle
             /\ group'[m].first = group[m].first /\ group'[m].tops = out[m]
  BY <1>1, <1>3, <1>6 DEF Member
<1>8. group' \in Seq(Member) /\ Len(group') = L
  <2>1. group' = [m \in 1..L |-> group'[m]]
    BY <1>1, <1>3
  <2>2. group' \in [1..L -> Member]
    BY <1>7, <2>1
  <2> QED  BY <1>3, <2>1, <2>2, TableLen, SeqDef
<1>9. group # <<>> \/ group' = <<>>
  BY <1>1, <1>8
<1> HIDE DEF L
<1>10. Layout' /\ Ahead' /\ SeqStep
  <2>1. Len(group') = Len(group)
        /\ \A m \in 1..Len(group) : /\ group'[m].bundle = group[m].bundle
                                    /\ group'[m].first = group[m].first
    BY <1>7, <1>8 DEF L
  <2> QED  BY <1>1, <1>9, <2>1, SameCommand
<1>11. Types'
  BY <1>1, <1>8 DEF IInv, Types, command
<1>12. Ranked'
  BY <1>1, <1>6, <1>7, <1>8 DEF Ranked, command
<1>13. Calls' /\ Fresh'
  BY <1>1, <1>2 DEF Calls, Fresh
<1> QED  BY <1>2, <1>10, <1>11, <1>12, <1>13 DEF IInv

LEMMA StepStartSweep ==
  ASSUME IInv, StartSweep
  PROVE  IInv' /\ SeqStep
<1> DEFINE js == [p \in 1..nmv |->
                    SweepJob(group[Owner(p)].bundle,
                             group[Owner(p)].tops[p - group[Owner(p)].first])]
<1>1. /\ pc = "ranked" /\ pc' = "evaluate" /\ UNCHANGED <<command, chunk>> /\ Call(js)
  BY DEF StartSweep
<1>2. PoolInv' /\ pool' = "starting" /\ jobs' = js
  <2>1. js = [p \in 1..nmv |-> js[p]] /\ nmv \in Nat
    BY DEF IInv, Types
  <2> HIDE DEF js
  <2> QED  BY <1>1, <2>1, PoolCall DEF IInv
<1>3. Layout' /\ Ahead' /\ SeqStep
  BY <1>1, SameCommand DEF chunk
<1>4. Types' /\ Ranked' /\ Fresh'
  BY <1>1 DEF IInv, Types, Ranked, Fresh, command, chunk
<1>5. Calls'
  BY <1>1, <1>2 DEF Calls, SweepJob, Owner, command, chunk
<1> QED  BY <1>2, <1>3, <1>4, <1>5 DEF IInv

(* A move belongs to one member of the chunk. *)
LEMMA OwnerIs ==
  ASSUME IInv, pc \in {"ranked", "evaluate", "walk"}, NEW m \in 1..Len(group),
         NEW j \in DOMAIN group[m].tops
  PROVE  /\ group[m].first + j \in 1..nmv
         /\ Owner(group[m].first + j) = m
         /\ j \in Nat /\ group[m].first \in Nat
<1> DEFINE Has(n, p) == p \in (group[n].first + 1)..(group[n].first + Len(group[n].tops))
<1>1. DOMAIN group = 1..Len(group) /\ Len(group) \in Nat
  BY DEF IInv, Types
<1>2. ASSUME NEW n \in 1..Len(group)
      PROVE  /\ group[n].first \in Nat /\ Len(group[n].tops) = Kept(group[n].bundle)
             /\ DOMAIN group[n].tops = 1..Len(group[n].tops) /\ Len(group[n].tops) \in Nat
  <2>1. /\ group[n] \in Member /\ ses \in Session /\ Eligible(ses, group[n].bundle)
        /\ group[n].tops \in {Top(Screened(ses, group[n].bundle)),
                              Top(Alternates(ses, group[n].bundle))}
    BY DEF IInv, Types, Layout, Ranked
  <2>2. group[n].first \in Nat /\ group[n].bundle \in 1..N /\ group[n].tops \in Seq(Nat)
    BY <2>1 DEF Member
  <2>3. Len(group[n].tops) = Kept(group[n].bundle)
    BY <2>1, <2>2, TopsOf DEF Kept
  <2> QED  BY <2>2, <2>3, LenProperties
<1>3. group[m].first + Kept(group[m].bundle) <= nmv /\ nmv \in Nat
  BY DEF IInv, Types, Layout
<1>4. j \in 1..Len(group[m].tops)
  BY <1>2
<1>5. Has(m, group[m].first + j) /\ group[m].first + j \in 1..nmv
  BY <1>2, <1>3, <1>4
<1>6. ASSUME NEW n \in 1..Len(group), n # m
      PROVE  ~Has(n, group[m].first + j)
  <2> DEFINE f == group[m].first   l == Len(group[m].tops)
             g == group[n].first   h == Len(group[n].tops)
  <2>0. /\ f \in Nat /\ l \in Nat /\ g \in Nat /\ h \in Nat /\ j \in 1..l
        /\ l = Kept(group[m].bundle) /\ h = Kept(group[n].bundle)
    BY <1>2, <1>4
  <2>1. CASE n < m
    <3>1. g + h <= f
      BY <2>0, <2>1 DEF IInv, Layout
    <3> HIDE DEF f, g, h, l
    <3>2. ~(f + j \in (g + 1)..(g + h))
      BY <2>0, <3>1
    <3> QED  BY <3>2 DEF f, g, h, Has
  <2>2. CASE m < n
    <3>1. f + l <= g
      BY <2>0, <2>2 DEF IInv, Layout
    <3> HIDE DEF f, g, h, l
    <3>2. ~(f + j \in (g + 1)..(g + h))
      BY <2>0, <3>1
    <3> QED  BY <3>2 DEF f, g, h, Has
  <2>3. n \in Int /\ m \in Int
    BY <1>1
  <2>4. n < m \/ m < n
    BY <1>6, <2>3
  <2> QED  BY <2>1, <2>2, <2>4
<1> HIDE DEF Has
<1>7. Owner(group[m].first + j) = CHOOSE n \in DOMAIN group : Has(n, group[m].first + j)
  BY DEF Owner, Has
<1>8. Owner(group[m].first + j) = m
  BY <1>1, <1>5, <1>6, <1>7
<1> QED  BY <1>2, <1>4, <1>5, <1>8

LEMMA StepTakeOutcomes ==
  ASSUME IInv, TakeOutcomes
  PROVE  IInv' /\ SeqStep
<1>1. /\ pc = "evaluate" /\ pc' = "walk" /\ outs' = out /\ k' = 1 /\ Release /\ pool = "joined"
      /\ UNCHANGED <<command, i, width, nmv, group>>
  BY DEF TakeOutcomes, Release
<1>2. PoolInv' /\ pool' = "off"
  BY <1>1, PoolRelease DEF IInv
<1>3. nmv \in Nat /\ jobs = [p \in 1..nmv |->
                 SweepJob(group[Owner(p)].bundle,
                          group[Owner(p)].tops[p - group[Owner(p)].first])]
  BY <1>1 DEF IInv, Types, Calls
<1>4. Places = 1..nmv
  BY <1>3, TableLen DEF Places
<1>5. ASSUME NEW m \in 1..Len(group), NEW j \in DOMAIN group[m].tops,
             out[group[m].first + j] = "reject"
      PROVE  ~Accepts(ses, group[m].bundle, group[m].tops[j])
  <2>1. /\ group[m].first + j \in 1..nmv /\ Owner(group[m].first + j) = m
        /\ (group[m].first + j) - group[m].first = j
    BY <1>1, OwnerIs
  <2>2. jobs[group[m].first + j] = SweepJob(group[m].bundle, group[m].tops[j])
    BY <1>3, <2>1
  <2>3. out[group[m].first + j] \in Verdicts(SweepJob(group[m].bundle, group[m].tops[j]))
    BY <1>1, <1>4, <2>1, <2>2, JoinedComplete DEF IInv
  <2> QED  BY <1>5, <2>3 DEF Verdicts, SweepJob
<1>6. Fresh'
  BY <1>1, <1>5 DEF Fresh, command
<1>7. \A b : Kept(b)' = Kept(b)
  BY <1>1 DEF Kept, command
<1>8. Layout'
  BY <1>1, <1>7 DEF IInv, Layout, command
<1>9. Types' /\ Ranked' /\ Ahead' /\ Calls'
  <2>1. From = 1 /\ From' = 1
    BY <1>1 DEF From
  <2>2. Types'
    BY <1>1 DEF IInv, Types, command
  <2>3. Ranked' /\ Ahead' /\ Calls'
    BY <1>1, <1>2, <2>1 DEF IInv, Ranked, Ahead, Calls, command
  <2> QED  BY <2>2, <2>3
<1>10. SeqStep
  BY <1>1 DEF SeqStep, Sequential!vars, command
<1> QED  BY <1>2, <1>6, <1>8, <1>9, <1>10 DEF IInv

-----------------------------------------------------------------------------
(* The walk.                                                               *)

(* The member the walk stands at is the next bundle the sequential loop    *)
(* visits.                                                                 *)
LEMMA HereIsNext ==
  ASSUME IInv, pc = "walk", k <= Len(group)
  PROVE  /\ k \in 1..Len(group) /\ Len(group) \in Nat /\ Here \in Member
         /\ Sequential!Upcoming(ses, last, Here.bundle)
         /\ Here.tops \in Sequential!Tops(ses, Here.bundle)
         /\ Here.tops \in Seq(Nat)
         /\ \A j \in DOMAIN Here.tops : Moved(ses, Here.bundle, Here.tops[j]) \in Session
         /\ committed < MaxMoves
         /\ \A c \in (Here.bundle + 1)..(i - 1) : Eligible(ses, c) =>
              \E m \in (k + 1)..Len(group) : group[m].bundle = c
         /\ \A m \in (k + 1)..Len(group) : group[m].bundle > Here.bundle
         /\ Here.bundle < i /\ Here.bundle > last
<1>1. k \in 1..Len(group) /\ Len(group) \in Nat /\ group \in Seq(Member)
  BY DEF IInv, Types
<1>2. Here \in Member
  BY <1>1 DEF Here
<1>3. /\ Here.bundle \in 1..N /\ Here.tops \in Seq(Nat) /\ ses \in Session
      /\ last \in 0..N /\ i \in 1..(N + 1)
  BY <1>2 DEF Member, IInv, Types
<1>4. /\ Eligible(ses, Here.bundle) /\ Here.bundle < i
      /\ \A n \in 1..Len(group) : k < n => Here.bundle < group[n].bundle
  BY <1>1 DEF IInv, Layout, Here
<1>5. /\ \A c \in (last + 1)..(i - 1) : Eligible(ses, c) =>
            \E m \in k..Len(group) : group[m].bundle = c
      /\ Here.bundle > last
  BY <1>1 DEF IInv, Ahead, From, Here
<1>6. \A m \in (k + 1)..Len(group) : group[m].bundle > Here.bundle
  <2> SUFFICES ASSUME NEW m \in (k + 1)..Len(group)  PROVE group[m].bundle > Here.bundle
    OBVIOUS
  <2>1. m \in 1..Len(group) /\ k < m
    BY <1>1
  <2>2. group[m] \in Member
    BY <1>1, <2>1
  <2>3. group[m].bundle \in 1..N
    BY <2>2 DEF Member
  <2> QED  BY <1>3, <1>4, <2>1, <2>3
<1>7. \A c \in (Here.bundle + 1)..(i - 1) : Eligible(ses, c) =>
        \E m \in (k + 1)..Len(group) : group[m].bundle = c
  <2> SUFFICES ASSUME NEW c \in (Here.bundle + 1)..(i - 1), Eligible(ses, c)
               PROVE  \E m \in (k + 1)..Len(group) : group[m].bundle = c
    OBVIOUS
  <2>1. c \in (last + 1)..(i - 1) /\ c # Here.bundle
    BY <1>3, <1>5
  <2>2. PICK m \in k..Len(group) : group[m].bundle = c
    BY <1>5, <2>1
  <2>3. m # k
    BY <2>1, <2>2 DEF Here
  <2>4. m \in (k + 1)..Len(group)
    BY <1>1, <2>2, <2>3
  <2> QED  BY <2>2, <2>4
<1>8. \A c \in (last + 1)..(Here.bundle - 1) : ~Eligible(ses, c)
  <2> SUFFICES ASSUME NEW c \in (last + 1)..(Here.bundle - 1), Eligible(ses, c)
               PROVE  FALSE
    OBVIOUS
  <2>1. c \in (last + 1)..(i - 1) /\ c < Here.bundle
    BY <1>3, <1>4
  <2>2. PICK m \in k..Len(group) : group[m].bundle = c
    BY <1>5, <2>1
  <2>3. CASE m = k
    BY <1>3, <2>1, <2>2, <2>3 DEF Here
  <2>4. CASE m # k
    <3>1. m \in (k + 1)..Len(group)
      BY <1>1, <2>2, <2>4
    <3> QED  BY <1>3, <1>6, <2>1, <2>2, <3>1
  <2> QED  BY <2>3, <2>4
<1>9. Sequential!Upcoming(ses, last, Here.bundle)
  BY <1>3, <1>4, <1>5, <1>8 DEF Sequential!Upcoming
<1>10. Here.tops \in {Top(Screened(ses, Here.bundle)), Top(Alternates(ses, Here.bundle))}
  BY <1>1 DEF IInv, Ranked, Here
<1>11. Here.tops \in Sequential!Tops(ses, Here.bundle)
  BY <1>10 DEF Sequential!Tops, Sequential!Top, Top
<1>12. \A j \in DOMAIN Here.tops : Moved(ses, Here.bundle, Here.tops[j]) \in Session
  BY <1>3, <1>4, <1>10, TopsOf
<1>13. committed < MaxMoves
  BY <1>1 DEF IInv, Layout
<1> QED  BY <1>1, <1>2, <1>3, <1>4, <1>5, <1>6, <1>7, <1>9, <1>11, <1>12, <1>13

(* Going on to the next member without a move, which is a visit that moves *)
(* nothing.                                                                *)
LEMMA PassedOver ==
  ASSUME IInv, pc = "walk", k <= Len(group),
         \A j \in DOMAIN Here.tops : ~Accepts(ses, Here.bundle, Here.tops[j]),
         last' = Here.bundle, trials' = trials + Len(Here.tops), k' = k + 1,
         UNCHANGED <<ses, sweeping, committed, pc, i, width, nmv, group, outs, workers>>
  PROVE  IInv' /\ SeqStep
<1>1. PoolInv'
  BY PoolSame DEF IInv
<1>2. Here \in Member /\ Here.bundle \in 1..N /\ Here.tops \in Seq(Nat)
  BY HereIsNext DEF Member
<1>3. Types'
  <2>1. k' \in 1..(Len(group') + 1) /\ trials' \in Nat /\ last' \in 0..N
    BY <1>2, HereIsNext, LenProperties DEF IInv, Types
  <2> QED  BY <2>1 DEF IInv, Types
<1>4. \A b : Kept(b)' = Kept(b)
  BY DEF Kept
<1>5. Layout' /\ Ranked'
  BY <1>4 DEF IInv, Layout, Ranked
<1>6. Calls' /\ Fresh'
  BY DEF IInv, Calls, Fresh, workers
<1>7. Ahead'
  <2>1. From' = k + 1
    BY DEF From
  <2> QED  BY <2>1, HereIsNext DEF Ahead
<1>8. Sequential!Visit(Here.bundle, Here.tops)
  BY HereIsNext DEF Sequential!Visit
<1>9. SeqStep
  BY <1>2, <1>8, HereIsNext DEF SeqStep, Sequential!Next
<1> QED  BY <1>1, <1>3, <1>5, <1>6, <1>7, <1>9 DEF IInv

LEMMA StepPassOver ==
  ASSUME IInv, PassOver
  PROVE  IInv' /\ SeqStep
<1>1. /\ pc = "walk" /\ k <= Len(group) /\ ~Flagged(Here)
      /\ last' = Here.bundle /\ trials' = trials + Len(Here.tops) /\ k' = k + 1
      /\ UNCHANGED <<ses, sweeping, committed, pc, i, width, nmv, group, outs, workers>>
  BY DEF PassOver
<1>2. \A j \in DOMAIN Here.tops : ~Accepts(ses, Here.bundle, Here.tops[j])
  <2>1. \A j \in DOMAIN Here.tops : outs[Here.first + j] = "reject"
    BY <1>1 DEF Flagged, Outcome
  <2>2. k \in 1..Len(group)
    BY <1>1, HereIsNext
  <2> QED  BY <1>1, <2>1, <2>2 DEF IInv, Fresh, Here
<1> QED  BY <1>1, <1>2, PassedOver

LEMMA StepReplayRejects ==
  ASSUME IInv, ReplayRejects
  PROVE  IInv' /\ SeqStep
BY PassedOver DEF ReplayRejects

LEMMA StepReplayCommits ==
  ASSUME IInv, ReplayCommits
  PROVE  IInv' /\ SeqStep
<1>1. /\ pc = "walk" /\ k <= Len(group) /\ last' = Here.bundle /\ sweeping' = TRUE
      /\ pc' = "gather" /\ i' = Here.bundle + 1 /\ width' = ChunkMin
      /\ nmv' = 0 /\ group' = <<>> /\ outs' = <<>> /\ k' = 0
      /\ UNCHANGED workers
  BY DEF ReplayCommits
<1>2. PICK j \in DOMAIN Here.tops :
        /\ Taken(j)
        /\ ses' = Moved(ses, Here.bundle, Here.tops[j])
        /\ committed' = committed + 1 /\ trials' = trials + j
  BY DEF ReplayCommits
<1>3. /\ Here \in Member /\ Here.bundle \in 1..N /\ Here.tops \in Seq(Nat)
      /\ ses' \in Session /\ j \in Nat
  BY <1>1, <1>2, HereIsNext, LenProperties DEF Member
<1>4. group' \in Seq(Member) /\ Len(group') = 0
  BY <1>1
<1>5. Types'
  <2>1. committed \in Nat /\ trials \in Nat
    BY DEF IInv, Types
  <2>2. /\ last' \in 0..N /\ i' \in 1..(N + 1) /\ nmv' \in Nat
        /\ committed' \in Nat /\ trials' \in Nat
    BY <1>1, <1>2, <1>3, <2>1, RefineAssumption
  <2> QED  BY <1>1, <1>3, <1>4, <2>2 DEF Types
<1>6. Layout' /\ Ranked' /\ Fresh'
  BY <1>1, <1>4 DEF Layout, Ranked, Fresh
<1>7. Ahead'
  BY <1>1, <1>3, <1>4, RefineAssumption DEF Ahead, From
<1>8. PoolInv' /\ Calls'
  BY <1>1, PoolSame DEF IInv, Calls, workers
<1>9. Sequential!Visit(Here.bundle, Here.tops)
  <2>1. Sequential!FirstTaken(ses, Here.bundle, Here.tops, j)
    BY <1>2 DEF Taken, Sequential!FirstTaken
  <2> QED  BY <1>1, <1>2, <2>1, HereIsNext DEF Sequential!Visit
<1>10. SeqStep
  BY <1>1, <1>3, <1>9, HereIsNext DEF SeqStep, Sequential!Next
<1> QED  BY <1>5, <1>6, <1>7, <1>8, <1>10 DEF IInv

LEMMA StepRaise ==
  ASSUME IInv, Raise
  PROVE  IInv' /\ SeqStep
<1>1. /\ pc = "walk" /\ k <= Len(group) /\ pc' = "raised"
      /\ UNCHANGED <<command, chunk, workers>>
  BY DEF Raise
<1>2. PoolInv' /\ Calls'
  BY <1>1, PoolSame DEF IInv, Calls, workers
<1>3. \A b : Kept(b)' = Kept(b)
  BY <1>1 DEF Kept, command
<1>4. Types' /\ Layout' /\ Ranked' /\ Ahead' /\ Fresh'
  BY <1>1, <1>3 DEF IInv, Types, Layout, Ranked, Ahead, Fresh, command, chunk
<1>5. Sequential!Raise
  <2>1. Here.bundle \in 1..N
    BY <1>1, HereIsNext DEF Member
  <2> QED  BY <1>1, <2>1, HereIsNext DEF Sequential!Raise, command
<1> QED  BY <1>2, <1>4, <1>5 DEF IInv, SeqStep, Sequential!Next

LEMMA StepEndChunk ==
  ASSUME IInv, EndChunk
  PROVE  IInv' /\ SeqStep
<1>1. /\ pc = "walk" /\ k > Len(group) /\ pc' = "gather"
      /\ nmv' = 0 /\ group' = <<>> /\ outs' = <<>> /\ k' = 0
      /\ UNCHANGED <<command, i, workers>>
  BY DEF EndChunk
<1>2. PoolInv' /\ Calls'
  BY <1>1, PoolSame DEF IInv, Calls, workers
<1>3. group' \in Seq(Member) /\ Len(group') = 0
  BY <1>1
<1>4. Types' /\ Layout' /\ Ranked' /\ Fresh'
  BY <1>1, <1>3 DEF IInv, Types, Layout, Ranked, Fresh, command
<1>5. Ahead'
  <2>1. From = k /\ From' = 1
    BY <1>1 DEF From
  <2>2. k \in Nat /\ Len(group) \in Nat
    BY <1>1 DEF IInv, Types
  <2>3. \A c \in (last + 1)..(i - 1) : ~Eligible(ses, c)
    BY <1>1, <2>1, <2>2 DEF IInv, Ahead
  <2>4. last < i
    BY <1>1 DEF IInv, Ahead
  <2> QED  BY <1>1, <1>3, <2>1, <2>3, <2>4 DEF Ahead, command
<1>6. SeqStep
  BY <1>1 DEF SeqStep, Sequential!vars, command
<1> QED  BY <1>2, <1>4, <1>5, <1>6 DEF IInv

LEMMA StepEndSweep ==
  ASSUME IInv, EndSweep
  PROVE  IInv' /\ SeqStep
<1>1. /\ pc = "gather" /\ group = <<>> /\ (i > N \/ committed >= MaxMoves)
      /\ IF sweeping /\ committed < MaxMoves
         THEN i' = 1 /\ width' = ChunkMin /\ last' = 0 /\ sweeping' = FALSE /\ UNCHANGED pc
         ELSE pc' = "done" /\ UNCHANGED <<i, width, last, sweeping>>
      /\ UNCHANGED <<ses, committed, trials, nmv, group, outs, k, workers>>
  BY DEF EndSweep
<1>2. PoolInv' /\ Calls'
  BY <1>1, PoolSame DEF IInv, Calls, workers
<1>3. Len(group) = 0
  BY <1>1
<1>4. Types' /\ Layout' /\ Ranked' /\ Fresh'
  BY <1>1, <1>3, RefineAssumption DEF IInv, Types, Layout, Ranked, Fresh
<1>5. Ahead'
  BY <1>1, <1>3 DEF Ahead, From
<1>6. Sequential!SweepOver
  <2>1. SUFFICES ASSUME i > N, NEW b \in 1..N, Sequential!Upcoming(ses, last, b)
                 PROVE  FALSE
    BY <1>1 DEF Sequential!SweepOver
  <2>2. b \in (last + 1)..(i - 1) /\ Eligible(ses, b)
    <3>1. i \in 1..(N + 1) /\ last \in 0..N /\ b > last /\ Eligible(ses, b)
      BY <2>1 DEF IInv, Types, Sequential!Upcoming
    <3> QED  BY <2>1, <3>1, RefineAssumption
  <2> QED  BY <1>1, <1>3, <2>2 DEF IInv, Ahead, From
<1>7. Sequential!EndSweep
  BY <1>1, <1>6 DEF Sequential!EndSweep
<1> QED  BY <1>2, <1>4, <1>5, <1>7 DEF IInv, SeqStep, Sequential!Next

-----------------------------------------------------------------------------
(* Every step.                                                             *)

LEMMA Stutter ==
  ASSUME IInv, UNCHANGED vars
  PROVE  IInv' /\ SeqStep
<1>1. UNCHANGED <<command, pc, chunk, workers>>
  BY DEF vars
<1>2. PoolInv' /\ Calls'
  BY <1>1, PoolSame DEF IInv, Calls, workers, ScreenJob, SweepJob, Owner, command, chunk
<1>3. \A b : Kept(b)' = Kept(b)
  BY <1>1 DEF Kept, command
<1>4. Types' /\ Layout' /\ Ranked' /\ Ahead' /\ Fresh'
  BY <1>1, <1>3 DEF IInv, Types, Layout, Ranked, Ahead, Fresh, From, command, chunk
<1>5. SeqStep
  BY <1>1 DEF SeqStep, Sequential!vars, command
<1> QED  BY <1>2, <1>4, <1>5 DEF IInv

LEMMA EveryStep ==
  ASSUME IInv, [Next]_vars
  PROVE  IInv' /\ SeqStep
<1>1. CASE Threads
  BY <1>1, StepThreads
<1>2. CASE Gather \/ StartScreen \/ TakeScreens \/ StartSweep \/ TakeOutcomes
  BY <1>2, StepGather, StepStartScreen, StepTakeScreens, StepStartSweep, StepTakeOutcomes
<1>3. CASE PassOver \/ ReplayRejects \/ ReplayCommits \/ Raise \/ EndChunk \/ EndSweep
  BY <1>3, StepPassOver, StepReplayRejects, StepReplayCommits, StepRaise, StepEndChunk,
     StepEndSweep
<1>4. CASE UNCHANGED vars
  BY <1>4, Stutter
<1> QED  BY <1>1, <1>2, <1>3, <1>4 DEF Next, Command

(* Types, the layout of a chunk, what the walk has read and has still      *)
(* ahead, and the state of the pool, in every reachable state.             *)
THEOREM InvariantHolds == Spec => []IInv
<1>1. Init => IInv
  BY InitIInv
<1>2. IInv /\ [Next]_vars => IInv'
  BY EveryStep
<1> QED  BY <1>1, <1>2, PTL DEF Spec

(* However the threads are scheduled and however many could be started,    *)
(* each job is answered once.                                              *)
THEOREM SweepAlwaysComplete == Spec => []SweepIsComplete
<1>1. IInv => SweepIsComplete
  BY PoolComplete DEF IInv
<1> QED  BY <1>1, InvariantHolds, PTL

(* What the walk has still to read is about the session as it stands.      *)
THEOREM OutcomesAlwaysFresh == Spec => []OutcomesAreFresh
<1>1. IInv => OutcomesAreFresh
  <2> SUFFICES ASSUME IInv, pc = "walk", NEW m \in k..Len(group)
               PROVE  /\ group[m].tops \in {Top(Screened(ses, group[m].bundle)),
                                            Top(Alternates(ses, group[m].bundle))}
                      /\ \A j \in DOMAIN group[m].tops :
                           Outcome(group[m], j) = "reject" =>
                             ~Accepts(ses, group[m].bundle, group[m].tops[j])
    BY DEF OutcomesAreFresh
  <2>1. m \in 1..Len(group)
    BY DEF IInv, Types
  <2> QED  BY <2>1 DEF IInv, Ranked, Fresh, Outcome
<1> QED  BY <1>1, InvariantHolds, PTL

(* The parallel sweep makes the moves of the sequential loop, in its order *)
(* and with its count of trials.                                           *)
THEOREM ParallelIsSequential == Spec => MatchesSequential
<1>1. Init => Sequential!Init
  BY InitIInv
<1>2. IInv /\ [Next]_vars => [Sequential!Next]_(Sequential!vars)
  BY EveryStep DEF SeqStep
<1> QED  BY <1>1, <1>2, InvariantHolds, PTL DEF Spec, MatchesSequential, Sequential!Spec
=============================================================================
