--------------------------- MODULE WebServer_proofs ---------------------------
(***************************************************************************)
(* The safety of the web backend's locking, for any number of requests,    *)
(* sessions and clients.  Two locks and the event loop exclude each other: *)
(* a handler at a place that needs one of the three holds it (Held), and   *)
(* each has one holder.                                                    *)
(***************************************************************************)
EXTENDS WebServer, TLAPS

(* The places of a stage's handler and of the others'. *)
StagePlace == {"idle", "queued", "announcing", "submitted", "executing",
               "executed", "cancelling", "reading", "closing", "answered"}
OtherPlace == {"idle", "queued", "waiting", "executing", "reading", "answered"}
BadPlace == {"idle", "reading", "answered"}

Places ==
  /\ \A r \in Stage : pc[r] \in StagePlace
  /\ \A r \in Request \ Stage : pc[r] \in OtherPlace
  /\ \A r \in Bad : pc[r] \in BadPlace

(* A command still to run is counted. *)
Counted ==
  \A r \in Request \ Stage : pc[r] \in {"waiting", "executing"} => left[r] > 0

(* Where a handler needs the engine, the loop or its session, it holds it. *)
EngineHeld ==
  /\ \A r \in Request : pc[r] = "executing" => engine = r
  /\ \A c \in Client : peer[c] = "greeting" => engine = c

LoopHeld ==
  /\ \A r \in Request : pc[r] \in {"waiting", "reading"} => loop = r
  /\ \A r \in Request \ Stage : pc[r] = "executing" => loop = r
  /\ \A c \in Client : peer[c] = "greeting" => loop = c

SessionHeld ==
  \A r \in Request \ Bad : pc[r] \notin {"idle", "queued", "answered"} => owner[On[r]] = r

Held == EngineHeld /\ LoopHeld /\ SessionHeld

Shape == TypeOK /\ Places /\ Counted

(* A frame joins an inbox. *)
LEMMA ReceivedType ==
  ASSUME NEW q \in Seq(Frame), NEW f \in Frame
  PROVE  Received(q, f) \in Seq(Frame)
BY DEF Received

LEMMA DeliverType ==
  ASSUME TypeOK, NEW s \in Session, NEW c \in Client, NEW r \in Stage,
         NEW kind \in {"started", "heartbeat", "done"}, Deliver(s, c, kind, r)
  PROVE  /\ clients' \in [Session -> SUBSET Client]
         /\ peer' = peer
         /\ inbox' \in [Client -> Seq(Frame)]
<1> DEFINE f == [kind |-> kind, of |-> r]
<1>1. f \in Frame
  BY DEF Frame
<1>2. inbox[c] \in Seq(Frame)
  BY DEF TypeOK
<1>3. Received(inbox[c], f) \in Seq(Frame)
  BY <1>1, <1>2, ReceivedType
<1>4. CASE peer[c] = "open"
  BY <1>3, <1>4 DEF Deliver, TypeOK
<1>5. CASE peer[c] # "open"
  BY <1>5 DEF Deliver, TypeOK
<1> QED
  BY <1>4, <1>5

LEMMA InitInv == Init => Shape /\ Held
BY RequestAssumption
   DEF Init, Shape, Held, TypeOK, Places, Counted, EngineHeld, LoopHeld, SessionHeld,
       StagePlace, OtherPlace, BadPlace

-----------------------------------------------------------------------------
(* Every step keeps the shape.  The broadcasts change no place.            *)

LEMMA SendShape ==
  ASSUME Shape, NEW r \in Request, Send(r)
  PROVE  Shape'
<1>1. PICK c \in mail[r] :
        /\ Deliver(On[r], c, IF pc[r] = "announcing" THEN "started" ELSE "done", r)
        /\ mail' = [mail EXCEPT ![r] = @ \ {c}]
  BY DEF Send
<1>2. c \in Client /\ On[r] \in Session
  BY RequestAssumption DEF Shape, TypeOK
<1>3. r \in Stage
  BY DEF Send, Shape, Places, OtherPlace
<1>4. /\ clients' \in [Session -> SUBSET Client]
      /\ peer' = peer
      /\ inbox' \in [Client -> Seq(Frame)]
  BY <1>1, <1>2, <1>3, DeliverType DEF Shape
<1>5. mail' \in [Request -> SUBSET Client]
  BY <1>1 DEF Shape, TypeOK
<1> QED
  BY <1>4, <1>5 DEF Send, Shape, TypeOK, Places, Counted, hb, lock

LEMMA BeatShape ==
  ASSUME Shape, NEW r \in Stage, Beat(r)
  PROVE  Shape'
<1>0. r \in Request /\ On[r] \in Session
  BY RequestAssumption
<1>1. CASE BeatSend(r)
  <2>1. PICK c \in beatMail[r] :
          /\ Deliver(On[r], c, "heartbeat", r)
          /\ beatMail' = [beatMail EXCEPT ![r] = @ \ {c}]
    BY <1>1 DEF BeatSend
  <2>2. c \in Client
    BY DEF Shape, TypeOK
  <2>3. /\ clients' \in [Session -> SUBSET Client]
        /\ peer' = peer
        /\ inbox' \in [Client -> Seq(Frame)]
    BY <1>0, <2>1, <2>2, DeliverType DEF Shape
  <2>4. beatMail' \in [Stage -> SUBSET Client]
    BY <2>1 DEF Shape, TypeOK
  <2> QED
    BY <1>1, <2>3, <2>4 DEF BeatSend, Shape, TypeOK, Places, Counted, lock
<1>2. CASE Tick(r)
  BY <1>0, <1>2 DEF Tick, Shape, TypeOK, Places, Counted, lock, ws
<1>3. CASE BeatSleep(r)
  BY <1>3 DEF BeatSleep, Shape, TypeOK, Places, Counted, lock, ws
<1>4. CASE BeatEnd(r)
  BY <1>4 DEF BeatEnd, Shape, TypeOK, Places, Counted, lock, ws
<1> QED
  BY <1>1, <1>2, <1>3, <1>4 DEF Beat

LEMMA PeerShape ==
  ASSUME Shape, NEW c \in Client, Connect(c) \/ Greet(c) \/ Leave(c) \/ Close(c)
  PROVE  Shape'
<1>0. Joins[c] \in Session
  BY RequestAssumption
<1>1. <<[kind |-> "hello", of |-> None]>> \in Seq(Frame)
  BY DEF Frame
<1>2. CASE Connect(c)
  BY <1>0, <1>1, <1>2 DEF Connect, Shape, TypeOK, Places, Counted, lock, hb
<1>3. CASE Greet(c)
  BY <1>1, <1>3 DEF Greet, Shape, TypeOK, Places, Counted, lock, hb
<1>4. CASE Leave(c)
  BY <1>4 DEF Leave, Shape, TypeOK, Places, Counted, lock, hb
<1>5. CASE Close(c)
  BY <1>5 DEF Close, Shape, TypeOK, Places, Counted, lock, hb
<1> QED
  BY <1>2, <1>3, <1>4, <1>5

LEMMA HandleShape ==
  ASSUME Shape, NEW r \in Request, Arrive(r) \/ Handle(r)
  PROVE  Shape'
<1>0. On[r] \in Session /\ (r \in Bad => r \notin Stage) /\ Cmds[r] \in Nat
  BY RequestAssumption
<1> USE DEF Shape, TypeOK, Places, Counted, StagePlace, OtherPlace, BadPlace,
            Goto, lock, ws, hb
<1>1. CASE Arrive(r)
  <2>1. CASE r \in Bad
    <3>1. pc' = [pc EXCEPT ![r] = "reading"] /\ line' = line /\ loop' = r
      BY <1>1, <2>1 DEF Arrive
    <3>2. TypeOK'
      BY <1>1, <3>1 DEF Arrive
    <3> QED
      BY <1>0, <1>1, <2>1, <3>1, <3>2 DEF Arrive
  <2>2. CASE r \notin Bad
    <3>1. line[On[r]] \in Seq(Request)
      BY <1>0
    <3>2. Append(line[On[r]], r) \in Seq(Request)
      BY <3>1
    <3>3. line' = [line EXCEPT ![On[r]] = Append(@, r)]
      BY <1>1, <2>2 DEF Arrive
    <3>4. line' \in [Session -> Seq(Request)]
      BY <1>0, <3>2, <3>3
    <3>5. pc' = [pc EXCEPT ![r] = "queued"] /\ UNCHANGED loop
      BY <1>1, <2>2 DEF Arrive
    <3>6. TypeOK'
      BY <1>1, <3>4, <3>5 DEF Arrive
    <3> QED
      BY <1>0, <1>1, <2>2, <3>5, <3>6 DEF Arrive
  <2> QED
    BY <2>1, <2>2
<1>2. CASE Announce(r) \/ Begin(r)
  <2>1. Acquire(r)
    BY <1>2 DEF Announce, Begin
  <2>2. line' \in [Session -> Seq(Request)] /\ owner' \in [Session -> Request \cup {None}]
    BY <1>0, <2>1 DEF Acquire
  <2>3. CASE Announce(r)
    <3>1. TypeOK'
      BY <1>0, <2>2, <2>3 DEF Announce
    <3> QED
      BY <1>0, <2>3, <3>1 DEF Announce
  <2>4. CASE Begin(r)
    <3>1. r \in Request \ Stage /\ r \notin Bad
      BY <2>4 DEF Begin
    <3>2. TypeOK'
      BY <1>0, <2>2, <2>4 DEF Begin
    <3>3. Places' /\ Counted'
      BY <1>0, <2>4, <3>1 DEF Begin
    <3> QED
      BY <3>2, <3>3
  <2> QED
    BY <1>2, <2>3, <2>4
<1>3. CASE Send(r)
  BY <1>3, SendShape
<1>4. CASE Submit(r)
  <2>1. r \in Stage
    BY <1>4 DEF Submit
  <2>2. TypeOK'
    BY <1>0, <1>4, <2>1 DEF Submit
  <2> QED
    BY <1>0, <1>4, <2>1, <2>2 DEF Submit
<1>5. CASE StageTake(r)
  BY <1>0, <1>5 DEF StageTake
<1>6. CASE StageDrop(r)
  BY <1>0, <1>6 DEF StageDrop
<1>7. CASE Resume(r)
  <2>1. r \in Stage
    BY <1>7 DEF Resume
  <2>2. TypeOK'
    BY <1>0, <1>7, <2>1 DEF Resume
  <2> QED
    BY <1>0, <1>7, <2>1, <2>2 DEF Resume
<1>8. CASE StageRead(r)
  BY <1>0, <1>8 DEF StageRead
<1>9. CASE StageReadEnd(r)
  BY <1>0, <1>9 DEF StageReadEnd
<1>10. CASE StageAnswer(r)
  BY <1>0, <1>10 DEF StageAnswer, Release
<1>11. CASE Take(r)
  BY <1>0, <1>11 DEF Take
<1>12. CASE Drop(r)
  BY <1>0, <1>12 DEF Drop
<1>13. CASE Answer(r)
  <2>1. owner' \in [Session -> Request \cup {None}] /\ line' = line
    BY <1>0, <1>13 DEF Answer, Release
  <2>2. pc' = [pc EXCEPT ![r] = "answered"]
    BY <1>13 DEF Answer
  <2>3. TypeOK'
    BY <1>13, <2>1, <2>2 DEF Answer
  <2> QED
    BY <1>13, <2>2, <2>3 DEF Answer
<1> QED
  BY <1>1, <1>2, <1>3, <1>4, <1>5, <1>6, <1>7, <1>8, <1>9, <1>10, <1>11, <1>12,
     <1>13 DEF Handle

-----------------------------------------------------------------------------
(* A stuttering step keeps everything; so the shape is invariant.          *)

LEMMA ShapeStep == Shape /\ [Next]_vars => Shape'
<1> SUFFICES ASSUME Shape, [Next]_vars PROVE Shape'
  OBVIOUS
<1>1. CASE \E r \in Request : Arrive(r) \/ Handle(r)
  BY <1>1, HandleShape
<1>2. CASE \E r \in Stage : Beat(r)
  BY <1>2, BeatShape
<1>3. CASE \E c \in Client : Connect(c) \/ Greet(c) \/ Leave(c) \/ Close(c)
  BY <1>3, PeerShape
<1>4. CASE UNCHANGED vars
  BY <1>4 DEF vars, Shape, TypeOK, Places, Counted
<1> QED
  BY <1>1, <1>2, <1>3, <1>4 DEF Next

(* The variables of the web backend keep their types, for any number of    *)
(* requests, clients and sessions: no handler runs more commands than its  *)
(* request has, and only stages go through the executor.                   *)
THEOREM TypeCorrect == Spec => []TypeOK
<1>1. Init => Shape
  BY InitInv
<1>2. Shape => TypeOK
  BY DEF Shape
<1> QED
  BY <1>1, <1>2, ShapeStep, PTL DEF Spec

-----------------------------------------------------------------------------
(* Every step keeps the locks where the handlers need them.                *)

LEMMA BroadcastHeld ==
  ASSUME Shape, Held, NEW r \in Request, Send(r) \/ (r \in Stage /\ Beat(r))
  PROVE  Held'
<1>1. UNCHANGED <<pc, owner, loop, engine>>
  BY DEF Send, Beat, Tick, BeatSend, BeatSleep, BeatEnd, lock
<1>2. peer' = peer
  BY DEF Send, Beat, Tick, BeatSend, BeatSleep, BeatEnd, Deliver, ws
<1> QED
  BY <1>1, <1>2 DEF Held, EngineHeld, LoopHeld, SessionHeld

LEMMA PeerHeld ==
  ASSUME Shape, Held, NEW c \in Client, Connect(c) \/ Greet(c) \/ Leave(c) \/ Close(c)
  PROVE  Held'
<1>0. None \notin Request \cup Client /\ Request \cap Client = {}
  BY RequestAssumption
<1> USE DEF Shape, TypeOK, Held, EngineHeld, LoopHeld, SessionHeld, lock
<1>1. CASE Connect(c)
  BY <1>0, <1>1 DEF Connect
<1>2. CASE Greet(c)
  BY <1>0, <1>2 DEF Greet
<1>3. CASE Leave(c)
  BY <1>3 DEF Leave
<1>4. CASE Close(c)
  BY <1>4 DEF Close
<1> QED
  BY <1>1, <1>2, <1>3, <1>4

LEMMA HandleHeld ==
  ASSUME Shape, Held, NEW r \in Request, Arrive(r) \/ Handle(r)
  PROVE  Held'
<1>0. /\ None \notin Request \cup Client /\ Request \cap Client = {}
      /\ On \in [Request -> Session] /\ Bad \subseteq Request \ Stage
  BY RequestAssumption
<1> USE DEF Shape, TypeOK, Places, OtherPlace, BadPlace, StagePlace, Held, EngineHeld,
            LoopHeld, SessionHeld, Goto, lock, ws
<1>1. CASE Arrive(r)
  <2>1. EngineHeld'
    BY <1>0, <1>1 DEF Arrive
  <2>2. LoopHeld'
    <3>1. CASE r \in Bad
      BY <1>0, <1>1, <3>1 DEF Arrive
    <3>2. CASE r \notin Bad
      BY <1>0, <1>1, <3>2 DEF Arrive
    <3> QED
      BY <3>1, <3>2
  <2>3. SessionHeld'
    <3>1. CASE r \in Bad
      <4>1. \A q \in Request \ Bad : pc'[q] = pc[q] /\ owner'[On[q]] = owner[On[q]]
        BY <1>1, <3>1 DEF Arrive
      <4> QED
        BY <4>1
    <3>2. CASE r \notin Bad
      <4>1. pc' = [pc EXCEPT ![r] = "queued"] /\ owner' = owner
        BY <1>1, <3>2 DEF Arrive
      <4> QED
        BY <4>1
    <3> QED
      BY <3>1, <3>2
  <2> QED
    BY <2>1, <2>2, <2>3
<1>2. CASE Announce(r)
  BY <1>0, <1>2 DEF Announce, Acquire
<1>3. CASE Send(r)
  BY <1>3, BroadcastHeld
<1>4. CASE Submit(r)
  BY <1>0, <1>4 DEF Submit
<1>5. CASE StageTake(r)
  BY <1>0, <1>5 DEF StageTake
<1>6. CASE StageDrop(r)
  BY <1>0, <1>6 DEF StageDrop
<1>7. CASE Resume(r)
  BY <1>0, <1>7 DEF Resume
<1>8. CASE StageRead(r)
  BY <1>0, <1>8 DEF StageRead
<1>9. CASE StageReadEnd(r)
  BY <1>0, <1>9 DEF StageReadEnd
<1>10. CASE StageAnswer(r)
  BY <1>0, <1>10 DEF StageAnswer, Release
<1>11. CASE Begin(r)
  BY <1>0, <1>11 DEF Begin, Acquire
<1>12. CASE Take(r)
  BY <1>0, <1>12 DEF Take
<1>13. CASE Drop(r)
  BY <1>0, <1>13 DEF Drop
<1>14. CASE Answer(r)
  <2>1. EngineHeld' /\ LoopHeld'
    BY <1>0, <1>14 DEF Answer
  <2>2. CASE r \in Bad
    <3>1. \A q \in Request \ Bad : pc'[q] = pc[q] /\ owner'[On[q]] = owner[On[q]]
      BY <1>14, <2>2 DEF Answer
    <3>2. SessionHeld'
      BY <3>1
    <3> QED
      BY <2>1, <3>2
  <2>3. CASE r \notin Bad
    <3>0. /\ pc' = [pc EXCEPT ![r] = "answered"]
          /\ owner' = [owner EXCEPT ![On[r]] = None]
          /\ owner[On[r]] = r
      BY <1>14, <2>3 DEF Answer, Release
    <3>1. SessionHeld'
      BY <1>0, <3>0
    <3> QED
      BY <2>1, <3>1
  <2> QED
    BY <2>2, <2>3
<1> QED
  BY <1>1, <1>2, <1>3, <1>4, <1>5, <1>6, <1>7, <1>8, <1>9, <1>10, <1>11, <1>12,
     <1>13, <1>14 DEF Handle

LEMMA HeldStep == Shape /\ Held /\ [Next]_vars => Held'
<1> SUFFICES ASSUME Shape, Held, [Next]_vars PROVE Held'
  OBVIOUS
<1>1. CASE \E r \in Request : Arrive(r) \/ Handle(r)
  BY <1>1, HandleHeld
<1>2. CASE \E r \in Stage : Beat(r)
  <2>1. PICK r \in Stage : Beat(r)
    BY <1>2
  <2>2. r \in Request
    BY RequestAssumption
  <2> QED
    BY <2>1, <2>2, BroadcastHeld
<1>3. CASE \E c \in Client : Connect(c) \/ Greet(c) \/ Leave(c) \/ Close(c)
  BY <1>3, PeerHeld
<1>4. CASE UNCHANGED vars
  BY <1>4 DEF vars, Held, EngineHeld, LoopHeld, SessionHeld
<1> QED
  BY <1>1, <1>2, <1>3, <1>4 DEF Next

LEMMA AlwaysHeld == Spec => [](Shape /\ Held)
BY InitInv, ShapeStep, HeldStep, PTL DEF Spec

(* No two commands are captured at once, of whatever sessions and on       *)
(* whatever threads: each holds the engine lock.                           *)
THEOREM CaptureAlwaysExclusive == Spec => []CaptureIsExclusive
<1>1. Held => CaptureIsExclusive
  BY DEF Held, EngineHeld, CaptureIsExclusive, Executing
<1> QED
  BY <1>1, AlwaysHeld, PTL

(* No session is read while one of its commands runs, if no request with   *)
(* bad input comes to a session that a stage comes to: the other readers   *)
(* hold the session lock, the event loop or the engine lock.               *)
THEOREM NeverTornRead ==
  (\A b \in Bad, r \in Stage : On[b] # On[r]) => (Spec => []NoTornRead)
<1> SUFFICES ASSUME \A b \in Bad, r \in Stage : On[b] # On[r]
             PROVE  Spec => []NoTornRead
  OBVIOUS
<1>1. Shape /\ Held => NoTornRead
  <2> SUFFICES ASSUME Shape, Held, NEW r \in Request, pc[r] = "executing",
                      On[r] \in Read
               PROVE  FALSE
    BY DEF NoTornRead, Executing
  <2>1. CASE \E q \in Request : pc[q] = "reading" /\ On[q] = On[r]
    <3>1. PICK q \in Request : pc[q] = "reading" /\ On[q] = On[r]
      BY <2>1
    <3>2. r \notin Bad
      BY DEF Shape, Places, BadPlace
    <3>3. CASE r \in Stage
      BY <3>1, <3>2, <3>3 DEF Held, SessionHeld
    <3>4. CASE r \notin Stage
      BY <3>1, <3>4 DEF Held, LoopHeld
    <3> QED
      BY <3>3, <3>4
  <2>2. CASE \E c \in Client : peer[c] = "greeting"
    BY <2>2, RequestAssumption DEF Held, EngineHeld
  <2> QED
    BY <2>1, <2>2 DEF Read
<1> QED
  BY <1>1, AlwaysHeld, PTL


-----------------------------------------------------------------------------
(* What clients hear.  A stage speaks to the clients of its session while  *)
(* its handler holds the lock of that session, so the frames of a stage    *)
(* that speaks are the last a client has; the broadcasts still under way   *)
(* (mail) tell which clients have yet to hear its start or its end.        *)

Has(q, r) == \E i \in DOMAIN q : q[i].of = r
Heard(q, kind, r) == \E i \in DOMAIN q : q[i].kind = kind /\ q[i].of = r

Tidy(q) ==
  /\ \A i \in DOMAIN q : q[i].kind = "hello" <=> i = 1
  /\ \A i \in DOMAIN q : q[i].of = None <=> i = 1
  /\ \A i, j \in DOMAIN q : i < j /\ q[i].of = q[j].of =>
       /\ q[i].kind # "done" /\ q[j].kind # "started"
       /\ \A k \in i..j : q[k].of = q[i].of

Silent(r) == pc[r] \in {"idle", "queued"}
Running(r) == pc[r] \in {"submitted", "executing", "executed", "cancelling"}
Speaks(r) == pc[r] \notin {"idle", "queued", "answered"}

Inboxes == \A c \in Client : Tidy(inbox[c]) /\ (peer[c] = "open" => inbox[c] # <<>>)

(* A client is known to its own session only, and while it is there. *)
Rooms ==
  /\ \A s \in Session : \A c \in clients[s] : Joins[c] = s
  /\ \A c \in Client : peer[c] \in {"open", "greeting"} => c \in clients[Joins[c]]

Joined ==
  /\ \A r \in Stage : \A c \in mail[r] \cup beatMail[r] : Joins[c] = On[r]
  /\ \A r \in Stage, c \in Client : Has(inbox[c], r) => Joins[c] = On[r]

BeatRuns == \A r \in Stage : beat[r] # "off" => Running(r)

(* What a client has heard of a stage, by the place of its handler. *)
Told(r, c) ==
  /\ Silent(r) => ~Has(inbox[c], r)
  /\ pc[r] = "announcing" /\ c \in mail[r] => ~Has(inbox[c], r)
  /\ Speaks(r) /\ Has(inbox[c], r) => inbox[c][Len(inbox[c])].of = r
  /\ Speaks(r) /\ (pc[r] # "closing" \/ c \in mail[r]) => ~Heard(inbox[c], "done", r)
  /\ pc[r] = "closing" /\ peer[c] = "open" /\ Heard(inbox[c], "started", r)
       => c \in mail[r] \/ Heard(inbox[c], "done", r)
  /\ pc[r] = "answered" /\ peer[c] = "open" /\ Heard(inbox[c], "started", r)
       => Heard(inbox[c], "done", r)

Frames ==
  /\ Inboxes /\ Rooms /\ Joined /\ BeatRuns
  /\ \A r \in Stage, c \in Client : Told(r, c)

(* One more frame. *)
LEMMA Appended ==
  ASSUME NEW q \in Seq(Frame), NEW f \in Frame
  PROVE  /\ Append(q, f) \in Seq(Frame) /\ Append(q, f) # <<>>
         /\ Append(q, f)[Len(Append(q, f))] = f
         /\ \A r : Has(Append(q, f), r) <=> Has(q, r) \/ f.of = r
         /\ \A k, r : Heard(Append(q, f), k, r) <=> Heard(q, k, r) \/ (f.kind = k /\ f.of = r)
<1> DEFINE p == Append(q, f)
<1>1. /\ p \in Seq(Frame) /\ Len(q) \in Nat /\ Len(p) = Len(q) + 1
      /\ DOMAIN p = 1..(Len(q) + 1) /\ DOMAIN q = 1..Len(q)
      /\ \A i \in 1..Len(q) : p[i] = q[i]
      /\ p[Len(q) + 1] = f
  OBVIOUS
<1> HIDE DEF p
<1>2. \A i : i \in DOMAIN p <=> i \in DOMAIN q \/ i = Len(q) + 1
  BY <1>1
<1>3. \A r : Has(p, r) <=> Has(q, r) \/ f.of = r
  BY <1>1, <1>2 DEF Has
<1>4. \A k, r : Heard(p, k, r) <=> Heard(q, k, r) \/ (f.kind = k /\ f.of = r)
  BY <1>1, <1>2 DEF Heard
<1>5. p # <<>> /\ p[Len(p)] = f
  BY <1>1
<1> QED
  BY <1>1, <1>3, <1>4, <1>5 DEF p

(* A frame of a stage may follow what is in order when the stage has not   *)
(* ended there, spoke last, or starts.                                     *)
LEMMA AppendTidy ==
  ASSUME NEW q \in Seq(Frame), q # <<>>, Tidy(q), NEW f \in Frame,
         f.kind # "hello", f.of # None,
         Has(q, f.of) => q[Len(q)].of = f.of,
         ~Heard(q, "done", f.of),
         f.kind = "started" => ~Has(q, f.of)
  PROVE  Tidy(Append(q, f))
<1> DEFINE p == Append(q, f)
<1>1. /\ Len(q) \in Nat \ {0} /\ DOMAIN p = 1..(Len(q) + 1) /\ DOMAIN q = 1..Len(q)
      /\ \A i \in 1..Len(q) : p[i] = q[i]
      /\ p[Len(q) + 1] = f
  OBVIOUS
<1> HIDE DEF p
<1>2. \A i \in DOMAIN p : p[i].kind = "hello" <=> i = 1
  BY <1>1 DEF Tidy
<1>3. \A i \in DOMAIN p : p[i].of = None <=> i = 1
  BY <1>1 DEF Tidy
<1>4. ASSUME NEW i \in DOMAIN p, NEW j \in DOMAIN p, i < j, p[i].of = p[j].of
      PROVE  /\ p[i].kind # "done" /\ p[j].kind # "started"
             /\ \A k \in i..j : p[k].of = p[i].of
  <2>1. i \in DOMAIN q /\ p[i] = q[i] /\ i \in Nat /\ j \in Nat
    BY <1>1, <1>4
  <2>2. CASE j \in DOMAIN q
    <3>1. p[j] = q[j] /\ \A k \in i..j : k \in DOMAIN q /\ p[k] = q[k]
      BY <1>1, <2>1, <2>2
    <3> QED
      BY <1>4, <2>1, <2>2, <3>1 DEF Tidy
  <2>3. CASE j = Len(q) + 1
    <3>1. q[i].of = f.of /\ Has(q, f.of)
      BY <1>1, <1>4, <2>1, <2>3 DEF Has
    <3>2. q[i].kind # "done"
      BY <2>1, <3>1 DEF Heard
    <3>3. f.kind # "started"
      BY <3>1
    <3>4. q[Len(q)].of = f.of /\ Len(q) \in DOMAIN q
      BY <1>1, <3>1
    <3>5. ASSUME NEW k \in i..j  PROVE p[k].of = f.of
      <4>1. CASE k = j
        BY <1>1, <2>3, <4>1
      <4>2. CASE k # j
        <5>1. k \in i..Len(q) /\ k \in DOMAIN q /\ p[k] = q[k]
          BY <1>1, <2>1, <2>3, <4>2
        <5>2. CASE i = Len(q)
          BY <2>1, <3>1, <5>1, <5>2, <1>1
        <5>3. CASE i # Len(q)
          <6>1. i < Len(q)
            BY <1>1, <2>1, <5>3
          <6>2. q[k].of = q[i].of
            BY <2>1, <3>1, <3>4, <5>1, <6>1 DEF Tidy
          <6> QED
            BY <3>1, <5>1, <6>2
        <5> QED
          BY <5>2, <5>3
      <4> QED
        BY <4>1, <4>2
    <3> QED
      BY <1>1, <2>1, <2>3, <3>1, <3>2, <3>3, <3>5
  <2> QED
    BY <1>1, <2>2, <2>3
<1>5. Tidy(p)
  BY <1>2, <1>3, <1>4 DEF Tidy
<1> QED
  BY <1>5 DEF p

LEMMA Greeted ==
  /\ Tidy(<<[kind |-> "hello", of |-> None]>>)
  /\ \A r \in Stage : ~Has(<<[kind |-> "hello", of |-> None]>>, r)
  /\ \A k, r : r \in Stage => ~Heard(<<[kind |-> "hello", of |-> None]>>, k, r)
  /\ <<[kind |-> "hello", of |-> None]>> # <<>>
<1> DEFINE q == <<[kind |-> "hello", of |-> None]>>
<1>1. DOMAIN q = {1} /\ q[1].kind = "hello" /\ q[1].of = None /\ q # <<>>
  OBVIOUS
<1>2. None \notin Stage
  BY RequestAssumption
<1> HIDE DEF q
<1>3. Tidy(q)
  BY <1>1 DEF Tidy
<1>4. /\ \A r \in Stage : ~Has(q, r)
      /\ \A k, r : r \in Stage => ~Heard(q, k, r)
  BY <1>1, <1>2 DEF Has, Heard
<1> QED
  BY <1>1, <1>3, <1>4 DEF q

(* A broadcast sends such a frame; a repeated heartbeat changes nothing.    *)
LEMMA Delivered ==
  ASSUME NEW q \in Seq(Frame), q # <<>>, Tidy(q), NEW f \in Frame,
         f.kind # "hello", f.of # None,
         Has(q, f.of) => q[Len(q)].of = f.of,
         ~Heard(q, "done", f.of),
         f.kind = "started" => ~Has(q, f.of)
  PROVE  /\ Received(q, f) # <<>> /\ Tidy(Received(q, f))
         /\ Received(q, f)[Len(Received(q, f))].of = f.of
         /\ \A r : Has(Received(q, f), r) <=> Has(q, r) \/ f.of = r
         /\ \A k, r : Heard(Received(q, f), k, r)
                        <=> Heard(q, k, r) \/ (f.kind = k /\ f.of = r)
<1>1. CASE Received(q, f) = q /\ q[Len(q)] = f
  <2>1. Len(q) \in DOMAIN q
    OBVIOUS
  <2>2. Has(q, f.of) /\ Heard(q, f.kind, f.of)
    BY <1>1, <2>1 DEF Has, Heard
  <2> QED
    BY <1>1, <2>2
<1>2. CASE Received(q, f) = Append(q, f)
  <2>1. Tidy(Append(q, f))
    BY AppendTidy
  <2>2. /\ Append(q, f) # <<>> /\ Append(q, f)[Len(Append(q, f))] = f
        /\ \A r : Has(Append(q, f), r) <=> Has(q, r) \/ f.of = r
        /\ \A k, r : Heard(Append(q, f), k, r) <=> Heard(q, k, r) \/ (f.kind = k /\ f.of = r)
    BY Appended
  <2> QED
    BY <1>2, <2>1, <2>2
<1> QED
  BY <1>1, <1>2 DEF Received

LEMMA HeardHas ==
  \A q, k, r : Heard(q, k, r) => Has(q, r)
BY DEF Heard, Has

(* Two stages of a session do not speak at once: both would own its lock.  *)
LEMMA OneSpeaks ==
  ASSUME Held, NEW q \in Stage, NEW r \in Stage, Speaks(q), Speaks(r), On[q] = On[r]
  PROVE  q = r
BY RequestAssumption DEF Held, SessionHeld, Speaks

(* The send of a frame of the stage r to c: everyone else hears nothing,   *)
(* and c hears it, if it is there.                                         *)
Reached(r, c, kind) ==
  /\ peer' = peer
  /\ \A d \in Client \ {c} : inbox'[d] = inbox[d]
  /\ peer[c] # "open" => inbox' = inbox
  /\ peer[c] = "open" =>
       /\ inbox'[c][Len(inbox'[c])].of = r
       /\ \A q : Has(inbox'[c], q) <=> Has(inbox[c], q) \/ q = r
       /\ \A k, q : Heard(inbox'[c], k, q) <=> Heard(inbox[c], k, q) \/ (k = kind /\ q = r)

LEMMA DeliverFrames ==
  ASSUME Shape, Held, Frames, loop = None,
         NEW r \in Stage, Speaks(r), NEW c \in Client, Joins[c] = On[r],
         NEW kind \in {"started", "heartbeat", "done"},
         kind = "started" => ~Has(inbox[c], r),
         ~Heard(inbox[c], "done", r),
         Deliver(On[r], c, kind, r)
  PROVE  Reached(r, c, kind) /\ Inboxes' /\ Rooms'
<1>1. CASE peer[c] = "open"
  <2> DEFINE f == [kind |-> kind, of |-> r]
             p == Received(inbox[c], f)
  <2>1. f \in Frame /\ f.kind = kind /\ f.of = r /\ r # None
    BY RequestAssumption DEF Frame
  <2>2. inbox[c] \in Seq(Frame) /\ inbox[c] # <<>> /\ Tidy(inbox[c])
    BY <1>1 DEF Shape, TypeOK, Frames, Inboxes
  <2>3. Has(inbox[c], r) => inbox[c][Len(inbox[c])].of = r
    BY DEF Frames, Told
  <2>4. /\ inbox' = [inbox EXCEPT ![c] = p]
        /\ clients' = clients /\ peer' = peer
    BY <1>1 DEF Deliver
  <2> HIDE DEF f
  <2>5. /\ p # <<>> /\ Tidy(p) /\ p[Len(p)].of = r
        /\ \A q : Has(p, q) <=> Has(inbox[c], q) \/ r = q
        /\ \A k, q : Heard(p, k, q) <=> Heard(inbox[c], k, q) \/ (kind = k /\ r = q)
    BY <2>1, <2>2, <2>3, Delivered
  <2> HIDE DEF p
  <2>6. inbox'[c] = p /\ \A d \in Client \ {c} : inbox'[d] = inbox[d]
    BY <2>4 DEF Shape, TypeOK
  <2>7. Inboxes'
    <3> SUFFICES ASSUME NEW d \in Client
                 PROVE  Tidy(inbox'[d]) /\ (peer'[d] = "open" => inbox'[d] # <<>>)
      BY DEF Inboxes, Tidy
    <3>1. CASE d = c
      BY <2>5, <2>6, <3>1
    <3>2. CASE d # c
      BY <2>4, <2>6, <3>2 DEF Frames, Inboxes
    <3> QED
      BY <3>1, <3>2
  <2>8. Rooms'
    BY <2>4 DEF Frames, Rooms
  <2>9. /\ inbox'[c][Len(inbox'[c])].of = r
        /\ \A q : Has(inbox'[c], q) <=> Has(inbox[c], q) \/ q = r
        /\ \A k, q : Heard(inbox'[c], k, q) <=> Heard(inbox[c], k, q) \/ (k = kind /\ q = r)
    BY <2>5, <2>6
  <2> QED
    BY <1>1, <2>4, <2>6, <2>7, <2>8, <2>9 DEF Reached
<1>2. CASE peer[c] # "open"
  <2>1. /\ clients' = [clients EXCEPT ![On[r]] = @ \ {c}]
        /\ inbox' = inbox /\ peer' = peer
    BY <1>2 DEF Deliver
  <2>2. Inboxes'
    BY <2>1 DEF Frames, Inboxes, Tidy
  <2>3. peer[c] # "greeting"
    BY RequestAssumption DEF Held, LoopHeld
  <2>4. \A s \in Session : clients'[s] \subseteq clients[s]
                           /\ clients[s] \ {c} \subseteq clients'[s]
    BY <2>1 DEF Shape, TypeOK
  <2>5. \A s \in Session : \A d \in clients'[s] : Joins[d] = s
    BY <2>4 DEF Frames, Rooms
  <2>6. \A d \in Client : peer[d] \in {"open", "greeting"} => d \in clients'[Joins[d]]
    BY <1>2, <2>3, <2>4, RequestAssumption DEF Frames, Rooms
  <2> QED
    BY <1>2, <2>1, <2>2, <2>5, <2>6 DEF Reached, Rooms
<1> QED
  BY <1>1, <1>2

(* The places of a stage that speaks and has not begun to close. *)
Open(r) == Speaks(r) /\ pc[r] # "closing"

(* A step in which nobody hears anything leaves the frames in order when   *)
(* each handler stays, waits for the lock, announces, goes on, closes with *)
(* a broadcast to everyone, or answers with that broadcast done.           *)
LEMMA QuietFrames ==
  ASSUME Shape, Frames, UNCHANGED ws, BeatRuns',
         \A r \in Stage : mail'[r] \cup beatMail'[r]
                            \subseteq mail[r] \cup beatMail[r] \cup clients[On[r]],
         \A r \in Stage :
            \/ pc'[r] = pc[r] /\ mail'[r] = mail[r]
            \/ Silent(r) /\ (Silent(r)' \/ pc'[r] = "announcing")
            \/ Open(r) /\ Open(r)' /\ pc'[r] # "announcing"
            \/ Open(r) /\ pc'[r] = "closing" /\ mail'[r] = clients[On[r]]
            \/ pc[r] = "closing" /\ mail[r] = {} /\ pc'[r] = "answered"
  PROVE  Frames'
<1>1. clients' = clients /\ peer' = peer /\ inbox' = inbox
  BY DEF ws
<1>2. Inboxes'
  BY <1>1 DEF Frames, Inboxes, Tidy
<1>3. Joined'
  <2>1. \A r \in Stage : On[r] \in Session
    BY RequestAssumption
  <2>2. \A r \in Stage : \A c \in mail'[r] \cup beatMail'[r] : Joins[c] = On[r]
    BY <2>1 DEF Frames, Rooms, Joined
  <2> QED
    BY <1>1, <2>2 DEF Frames, Joined, Has
<1>5. Rooms'
  BY <1>1 DEF Frames, Rooms
<1>4. ASSUME NEW r \in Stage, NEW c \in Client  PROVE Told(r, c)'
  <2>0. Told(r, c) /\ Rooms /\ Joined /\ On[r] \in Session
    BY RequestAssumption DEF Frames
  <2>1. CASE pc'[r] = pc[r] /\ mail'[r] = mail[r]
    BY <1>1, <2>0, <2>1 DEF Told, Silent, Speaks, Has, Heard
  <2>2. CASE Silent(r) /\ (Silent(r)' \/ pc'[r] = "announcing")
    <3>1. ~Has(inbox[c], r)' /\ \A k : ~Heard(inbox[c], k, r)'
      BY <1>1, <2>0, <2>2, HeardHas DEF Told
    <3>2. pc'[r] \notin {"closing", "answered"}
      BY <2>2 DEF Silent
    <3> QED
      BY <3>1, <3>2 DEF Told
  <2>3. CASE Open(r) /\ Open(r)' /\ pc'[r] # "announcing"
    <3>1. ~Heard(inbox[c], "done", r)' /\ (Has(inbox[c], r)' => inbox'[c][Len(inbox'[c])].of = r)
      BY <1>1, <2>0, <2>3 DEF Told, Open
    <3>2. ~Silent(r)' /\ pc'[r] \notin {"announcing", "closing", "answered"}
      BY <2>3 DEF Open, Speaks, Silent
    <3> QED
      BY <3>1, <3>2 DEF Told
  <2>4. CASE Open(r) /\ pc'[r] = "closing" /\ mail'[r] = clients[On[r]]
    <3>1. ~Heard(inbox[c], "done", r)' /\ (Has(inbox[c], r)' => inbox'[c][Len(inbox'[c])].of = r)
      BY <1>1, <2>0, <2>4 DEF Told, Open
    <3>2. peer[c] = "open" /\ Heard(inbox[c], "started", r) => c \in mail'[r]
      BY <2>0, <2>4, HeardHas DEF Joined, Rooms
    <3>3. peer'[c] = "open" /\ Heard(inbox[c], "started", r)' => c \in mail'[r]
      BY <1>1, <3>2
    <3> QED
      BY <2>4, <3>1, <3>3 DEF Told, Silent
  <2>5. CASE pc[r] = "closing" /\ mail[r] = {} /\ pc'[r] = "answered"
    <3>1. peer'[c] = "open" /\ Heard(inbox[c], "started", r)' => Heard(inbox[c], "done", r)'
      BY <1>1, <2>0, <2>5 DEF Told
    <3> QED
      BY <2>5, <3>1 DEF Told, Silent, Speaks
  <2> QED
    BY <2>1, <2>2, <2>3, <2>4, <2>5
<1> QED
  BY <1>2, <1>3, <1>4, <1>5 DEF Frames

LEMMA InitFrames == Init => Frames
<1> SUFFICES ASSUME Init PROVE Frames
  OBVIOUS
<1>0. \A r \in Stage : r \in Request
  BY RequestAssumption
<1>1. /\ \A c \in Client : inbox[c] = <<>> /\ peer[c] = "away"
      /\ \A s \in Session : clients[s] = {}
      /\ \A r \in Stage : pc[r] = "idle" /\ mail[r] = {} /\ beat[r] = "off" /\ beatMail[r] = {}
  BY <1>0 DEF Init
<1>2. \A c \in Client : Tidy(inbox[c]) /\ \A k, r : ~Has(inbox[c], r) /\ ~Heard(inbox[c], k, r)
  BY <1>1 DEF Tidy, Has, Heard
<1> QED
  BY <1>1, <1>2 DEF Frames, Inboxes, Rooms, Joined, BeatRuns, Told, Silent, Speaks

(* Once the broadcast of r has reached c, what follows for every stage and  *)
(* client; the two broadcasts share it.                                    *)
LEMMA DeliverTold ==
  ASSUME Shape, Held, Frames, loop = None,
         NEW r \in Stage, Speaks(r), NEW c \in Client, Joins[c] = On[r],
         NEW kind \in {"started", "heartbeat", "done"},
         kind = "started" => ~Has(inbox[c], r),
         ~Heard(inbox[c], "done", r),
         Deliver(On[r], c, kind, r), pc' = pc,
         \A q \in Stage \ {r} : mail'[q] = mail[q],
         mail'[r] \subseteq mail[r], mail[r] \subseteq mail'[r] \cup {c},
         kind = "started" => pc[r] = "announcing",
         kind = "done" <=> pc[r] = "closing",
         c \in mail'[r] => pc[r] \notin {"announcing", "closing"}
  PROVE  \A q \in Stage, d \in Client :
            Told(q, d)' /\ (Has(inbox'[d], q) => Joins[d] = On[q])
<1>0. Reached(r, c, kind)
  BY DeliverFrames
<1> USE DEF Reached
<1> SUFFICES ASSUME NEW q \in Stage, NEW d \in Client
             PROVE  Told(q, d)' /\ (Has(inbox'[d], q) => Joins[d] = On[q])
  OBVIOUS
<1>1. Told(q, d) /\ (Has(inbox[d], q) => Joins[d] = On[q])
  BY DEF Frames, Joined
<1>2. Silent(q)' = Silent(q) /\ Speaks(q)' = Speaks(q) /\ pc'[q] = pc[q] /\ peer'[d] = peer[d]
  BY <1>0 DEF Silent, Speaks
<1>3. CASE inbox'[d] = inbox[d] /\ (d # c \/ peer[d] # "open")
  <2>1. d \in mail'[q] => d \in mail[q]
    BY DEF Frames
  <2>2. d # c => (d \in mail[q] => d \in mail'[q])
    BY DEF Frames
  <2> QED
    BY <1>1, <1>2, <1>3, <2>1, <2>2 DEF Told, Has, Heard
<1>4. CASE d = c /\ peer[c] = "open" /\ q = r
  <2>1. ~Silent(r) /\ pc[r] # "answered"
    BY DEF Silent, Speaks
  <2>2. pc[r] = "announcing" => c \notin mail'[r]
    OBVIOUS
  <2>3. pc[r] # "closing" \/ c \in mail'[r] => ~Heard(inbox'[c], "done", r)
    BY <1>0, <1>4
  <2>4. pc[r] = "closing" => Heard(inbox'[c], "done", r)
    BY <1>0, <1>4
  <2> QED
    BY <1>0, <1>2, <1>4, <2>1, <2>2, <2>3, <2>4 DEF Told
<1>5. CASE d = c /\ peer[c] = "open" /\ q # r
  <2>1. (Has(inbox'[c], q) <=> Has(inbox[c], q)) /\ mail'[q] = mail[q]
        /\ \A k : Heard(inbox'[c], k, q) <=> Heard(inbox[c], k, q)
    BY <1>0, <1>5
  <2>2. Speaks(q) => ~Has(inbox[c], q)
    BY <1>1, <1>5, OneSpeaks
  <2> QED
    BY <1>1, <1>2, <1>5, <2>1, <2>2 DEF Told
<1> QED
  BY <1>0, <1>3, <1>4, <1>5

LEMMA SendFrames ==
  ASSUME Shape, Held, Frames, NEW r \in Request, Send(r)
  PROVE  Frames'
<1>1. PICK c \in mail[r] :
        /\ Deliver(On[r], c, IF pc[r] = "announcing" THEN "started" ELSE "done", r)
        /\ mail' = [mail EXCEPT ![r] = @ \ {c}]
  BY DEF Send
<1>2. r \in Stage /\ c \in Client
  BY DEF Send, Shape, TypeOK, Places, OtherPlace
<1>3. /\ Joins[c] = On[r] /\ loop = None /\ pc' = pc /\ beat' = beat /\ beatMail' = beatMail
      /\ pc[r] \in {"announcing", "closing"} /\ Speaks(r)
  BY <1>2 DEF Frames, Joined, Send, Speaks, hb
<1>4. /\ \A q \in Stage \ {r} : mail'[q] = mail[q]
      /\ mail'[r] = mail[r] \ {c}
  BY <1>1, <1>2, RequestAssumption DEF Shape, TypeOK
<1>5. mail'[r] \subseteq mail[r] /\ mail[r] \subseteq mail'[r] \cup {c} /\ c \notin mail'[r]
  BY <1>4
<1>6. PICK kind \in {"started", "heartbeat", "done"} :
        kind = IF pc[r] = "announcing" THEN "started" ELSE "done"
  OBVIOUS
<1>7. /\ kind = "started" => pc[r] = "announcing"
      /\ kind = "done" <=> pc[r] = "closing"
      /\ Deliver(On[r], c, kind, r)
  BY <1>1, <1>3, <1>6
<1>8. /\ kind = "started" => ~Has(inbox[c], r)
      /\ ~Heard(inbox[c], "done", r)
  <2>1. Told(r, c)
    BY <1>2 DEF Frames
  <2> QED
    BY <1>3, <1>7, <2>1 DEF Told
<1>9. Inboxes' /\ Rooms'
  BY <1>2, <1>3, <1>7, <1>8, DeliverFrames
<1>10. \A q \in Stage, d \in Client :
          Told(q, d)' /\ (Has(inbox'[d], q) => Joins[d] = On[q])
  BY <1>2, <1>3, <1>4, <1>5, <1>7, <1>8, DeliverTold
<1>11. \A q \in Stage : \A d \in mail'[q] \cup beatMail'[q] : Joins[d] = On[q]
  BY <1>3, <1>4, <1>5 DEF Frames, Joined
<1>12. Joined'
  BY <1>10, <1>11 DEF Joined
<1>13. BeatRuns'
  BY <1>3 DEF Frames, BeatRuns, Running
<1> QED
  BY <1>9, <1>10, <1>12, <1>13 DEF Frames

LEMMA BeatSendFrames ==
  ASSUME Shape, Held, Frames, NEW r \in Stage, BeatSend(r)
  PROVE  Frames'
<1>1. PICK c \in beatMail[r] :
        /\ Deliver(On[r], c, "heartbeat", r)
        /\ beatMail' = [beatMail EXCEPT ![r] = @ \ {c}]
  BY DEF BeatSend
<1>2. c \in Client
  BY DEF Shape, TypeOK
<1>3. /\ Joins[c] = On[r] /\ loop = None /\ pc' = pc /\ beat' = beat /\ mail' = mail
      /\ Running(r)
  BY DEF Frames, Joined, BeatRuns, BeatSend
<1>4. Speaks(r) /\ pc[r] \notin {"announcing", "closing"}
  BY <1>3 DEF Running, Speaks
<1>5. ~Heard(inbox[c], "done", r)
  <2>1. Told(r, c)
    BY <1>2 DEF Frames
  <2> QED
    BY <1>4, <2>1 DEF Told
<1>6. Inboxes' /\ Rooms'
  BY <1>1, <1>2, <1>3, <1>4, <1>5, DeliverFrames
<1>7. \A q \in Stage, d \in Client :
          Told(q, d)' /\ (Has(inbox'[d], q) => Joins[d] = On[q])
  BY <1>1, <1>2, <1>3, <1>4, <1>5, DeliverTold
<1>8. \A q \in Stage : beatMail'[q] \subseteq beatMail[q]
  BY <1>1 DEF Shape, TypeOK
<1>9. Joined'
  BY <1>3, <1>7, <1>8 DEF Frames, Joined
<1>10. BeatRuns'
  BY <1>3 DEF Frames, BeatRuns, Running
<1> QED
  BY <1>6, <1>7, <1>9, <1>10 DEF Frames

LEMMA BeatFrames ==
  ASSUME Shape, Held, Frames, NEW r \in Stage, Beat(r)
  PROVE  Frames'
<1>1. CASE BeatSend(r)
  BY <1>1, BeatSendFrames
<1>2. CASE Tick(r) \/ BeatSleep(r) \/ BeatEnd(r)
  <2>1. pc' = pc /\ mail' = mail /\ UNCHANGED ws
    BY <1>2 DEF Tick, BeatSleep, BeatEnd
  <2>2. \A q \in Stage : beat'[q] # "off" => beat[q] # "off"
    BY <1>2 DEF Tick, BeatSleep, BeatEnd, Shape, TypeOK
  <2>3. BeatRuns'
    BY <2>1, <2>2 DEF Frames, BeatRuns, Running
  <2>4. \A q \in Stage : beatMail'[q] \subseteq beatMail[q] \cup clients[On[q]]
    BY <1>2 DEF Tick, BeatSleep, BeatEnd, Shape, TypeOK
  <2>5. /\ \A q \in Stage : mail'[q] \cup beatMail'[q]
                               \subseteq mail[q] \cup beatMail[q] \cup clients[On[q]]
        /\ \A q \in Stage : pc'[q] = pc[q] /\ mail'[q] = mail[q]
    BY <2>1, <2>4
  <2> QED
    BY <2>1, <2>3, <2>5, QuietFrames
<1> QED
  BY <1>1, <1>2 DEF Beat

(* A handler of another route, and a request that comes in, tell the       *)
(* clients nothing and leave the stages where they are.                    *)
LEMMA OtherFrames ==
  ASSUME Shape, Frames, NEW r \in Request,
         Arrive(r) \/ Begin(r) \/ Take(r) \/ Drop(r) \/ Answer(r)
  PROVE  Frames'
<1>1. UNCHANGED <<ws, mail, hb>>
  BY DEF Arrive, Begin, Take, Drop, Answer
<1>2. \A q \in Stage : pc'[q] = pc[q] \/ (Silent(q) /\ Silent(q)')
  <2>1. CASE Arrive(r) /\ r \notin Bad
    <3>1. pc' = [pc EXCEPT ![r] = "queued"] /\ pc[r] = "idle"
      BY <2>1 DEF Arrive, Goto
    <3> QED
      BY <3>1 DEF Silent, Shape, TypeOK
  <2>2. CASE r \notin Stage
    <3>1. \E where : Goto(r, where)
      BY DEF Arrive, Begin, Take, Drop, Answer
    <3> QED
      BY <2>2, <3>1 DEF Goto, Shape, TypeOK
  <2>3. (Arrive(r) /\ r \notin Bad) \/ r \notin Stage
    BY RequestAssumption DEF Begin, Take, Drop, Answer, Shape, Places, StagePlace
  <2> QED
    BY <2>1, <2>2, <2>3
<1>3. BeatRuns'
  BY <1>1, <1>2 DEF Frames, BeatRuns, Running, Silent, hb
<1>4. /\ UNCHANGED ws
      /\ \A q \in Stage : mail'[q] \cup beatMail'[q]
                            \subseteq mail[q] \cup beatMail[q] \cup clients[On[q]]
      /\ \A q \in Stage : \/ pc'[q] = pc[q] /\ mail'[q] = mail[q]
                          \/ Silent(q) /\ (Silent(q)' \/ pc'[q] = "announcing")
  BY <1>1, <1>2 DEF hb
<1> QED
  BY <1>3, <1>4, QuietFrames

LEMMA StageFrames ==
  ASSUME Shape, Frames, NEW r \in Request,
         \/ Announce(r) \/ Submit(r) \/ StageTake(r) \/ StageDrop(r) \/ Resume(r)
         \/ StageRead(r) \/ StageReadEnd(r) \/ StageAnswer(r)
  PROVE  Frames'
<1>1. r \in Stage /\ UNCHANGED <<ws, beatMail>>
  BY DEF Announce, Submit, StageTake, StageDrop, Resume, StageRead, StageReadEnd,
         StageAnswer, Shape, Places, OtherPlace, hb
<1>2. \A q \in Stage \ {r} : pc'[q] = pc[q] /\ mail'[q] = mail[q] /\ beat'[q] = beat[q]
  BY RequestAssumption
     DEF Announce, Submit, StageTake, StageDrop, Resume, StageRead, StageReadEnd,
         StageAnswer, Goto, Shape, TypeOK, hb
<1>3. mail'[r] \subseteq mail[r] \cup clients[On[r]]
  BY DEF Announce, Submit, StageTake, StageDrop, Resume, StageRead, StageReadEnd,
         StageAnswer, Shape, TypeOK
<1>4. \/ Silent(r) /\ pc'[r] = "announcing"
      \/ Open(r) /\ Open(r)' /\ pc'[r] # "announcing"
      \/ Open(r) /\ pc'[r] = "closing" /\ mail'[r] = clients[On[r]]
      \/ pc[r] = "closing" /\ mail[r] = {} /\ pc'[r] = "answered"
  BY DEF Announce, Submit, StageTake, StageDrop, Resume, StageRead, StageReadEnd,
         StageAnswer, Goto, Open, Silent, Speaks, Shape, TypeOK
<1>5. beat'[r] # "off" => Running(r)'
  BY <1>1 DEF Announce, Submit, StageTake, StageDrop, Resume, StageRead, StageReadEnd,
         StageAnswer, Goto, Running, Frames, BeatRuns, Shape, TypeOK, hb
<1>6. BeatRuns'
  BY <1>2, <1>5 DEF Frames, BeatRuns, Running
<1>7. \A q \in Stage : mail'[q] \cup beatMail'[q]
                         \subseteq mail[q] \cup beatMail[q] \cup clients[On[q]]
  BY <1>1, <1>2, <1>3
<1>8. \A q \in Stage :
         \/ pc'[q] = pc[q] /\ mail'[q] = mail[q]
         \/ Silent(q) /\ (Silent(q)' \/ pc'[q] = "announcing")
         \/ Open(q) /\ Open(q)' /\ pc'[q] # "announcing"
         \/ Open(q) /\ pc'[q] = "closing" /\ mail'[q] = clients[On[q]]
         \/ pc[q] = "closing" /\ mail[q] = {} /\ pc'[q] = "answered"
  BY <1>2, <1>4
<1> QED
  BY <1>1, <1>6, <1>7, <1>8, QuietFrames

LEMMA PeerFrames ==
  ASSUME Shape, Held, Frames, NEW c \in Client, Connect(c) \/ Greet(c) \/ Leave(c) \/ Close(c)
  PROVE  Frames'
<1> DEFINE hello == <<[kind |-> "hello", of |-> None]>>
<1>0. /\ Tidy(hello) /\ hello # <<>>
      /\ \A q \in Stage : ~Has(hello, q)
      /\ \A k, q : q \in Stage => ~Heard(hello, k, q)
  BY Greeted
<1>1. /\ pc' = pc /\ mail' = mail /\ beat' = beat /\ beatMail' = beatMail
      /\ \A d \in Client \ {c} : peer'[d] = peer[d] /\ inbox'[d] = inbox[d]
  BY DEF Connect, Greet, Leave, Close, Shape, TypeOK, hb
<1>2. \/ inbox'[c] = inbox[c] /\ peer'[c] # "open"
      \/ inbox'[c] = hello
  BY DEF Connect, Greet, Leave, Close, Shape, TypeOK
<1> HIDE DEF hello
<1>3. Inboxes'
  <2> SUFFICES ASSUME NEW d \in Client
               PROVE  Tidy(inbox[d])' /\ (peer'[d] = "open" => inbox'[d] # <<>>)
    BY DEF Inboxes
  <2>0. Tidy(inbox[d]) /\ (peer[d] = "open" => inbox[d] # <<>>)
    BY DEF Frames, Inboxes
  <2>1. CASE inbox'[d] = inbox[d] /\ (peer'[d] = peer[d] \/ peer'[d] # "open")
    BY <2>0, <2>1 DEF Tidy
  <2>2. CASE inbox'[d] = hello
    BY <1>0, <2>2 DEF Tidy
  <2> QED
    BY <1>1, <1>2, <2>1, <2>2
<1>4. Rooms'
  <2>1. CASE Connect(c)
    BY <1>1, <2>1, RequestAssumption DEF Connect, Frames, Rooms, Shape, TypeOK
  <2>2. CASE Greet(c)
    BY <1>1, <2>2 DEF Greet, Frames, Rooms, Shape, TypeOK
  <2>3. CASE Leave(c)
    BY <1>1, <2>3 DEF Leave, Frames, Rooms, Shape, TypeOK
  <2>4. CASE Close(c)
    <3>1. peer'[c] = "closed"
          /\ \A s \in Session : clients'[s] \subseteq clients[s]
                               /\ clients[s] \ {c} \subseteq clients'[s]
      BY <2>4 DEF Close, Shape, TypeOK
    <3> QED
      BY <1>1, <3>1, RequestAssumption DEF Frames, Rooms
  <2> QED
    BY <2>1, <2>2, <2>3, <2>4
<1>5. ASSUME NEW q \in Stage, NEW d \in Client
      PROVE  Told(q, d)' /\ (Has(inbox'[d], q) => Joins[d] = On[q])
  <2>0. Told(q, d) /\ (Has(inbox[d], q) => Joins[d] = On[q])
    BY DEF Frames, Joined
  <2>1. CASE inbox'[d] = inbox[d] /\ (peer'[d] = peer[d] \/ peer'[d] # "open")
    BY <1>1, <2>0, <2>1 DEF Told, Silent, Speaks, Has, Heard
  <2>2. CASE inbox'[d] = hello
    BY <1>0, <2>2 DEF Told
  <2> QED
    BY <1>1, <1>2, <2>1, <2>2
<1>6. Joined'
  BY <1>1, <1>5 DEF Frames, Joined
<1>7. BeatRuns'
  BY <1>1 DEF Frames, BeatRuns, Running
<1> QED
  BY <1>3, <1>4, <1>5, <1>6, <1>7 DEF Frames

LEMMA FramesStep == Shape /\ Held /\ Frames /\ [Next]_vars => Frames'
<1> SUFFICES ASSUME Shape, Held, Frames, [Next]_vars PROVE Frames'
  OBVIOUS
<1>1. CASE \E r \in Request : Arrive(r) \/ Handle(r)
  BY <1>1, SendFrames, OtherFrames, StageFrames DEF Handle
<1>2. CASE \E r \in Stage : Beat(r)
  BY <1>2, BeatFrames
<1>3. CASE \E c \in Client : Connect(c) \/ Greet(c) \/ Leave(c) \/ Close(c)
  BY <1>3, PeerFrames
<1>4. CASE UNCHANGED vars
  BY <1>4 DEF vars, Frames, Inboxes, Tidy, Rooms, Joined, BeatRuns, Told, Silent, Speaks,
              Running, Has, Heard
<1> QED
  BY <1>1, <1>2, <1>3, <1>4 DEF Next

LEMMA AlwaysFrames == Spec => [](Shape /\ Frames)
BY InitInv, InitFrames, ShapeStep, HeldStep, FramesStep, PTL DEF Spec

(* Every client of a session is greeted first and then hears its stages    *)
(* one after the other, each from its start and none after its end,        *)
(* however many stages, clients, heartbeats and disconnections there are.   *)
THEOREM FramesAlwaysInOrder == Spec => []FramesInOrder
<1>1. Frames => FramesInOrder
  BY DEF Frames, Inboxes, Tidy, FramesInOrder
<1> QED
  BY <1>1, AlwaysFrames, PTL

(* When a stage is answered, every client that saw it start and is still   *)
(* connected has its done frame: one that is gone ends no broadcast.       *)
THEOREM DoneAlwaysReachesClients == Spec => []DoneReachesClients
<1>1. Shape /\ Frames => DoneReachesClients
  <2> SUFFICES ASSUME Shape, Frames, NEW r \in Stage, NEW c \in Client,
                      pc[r] = "answered", peer[c] = "open",
                      NEW i \in DOMAIN inbox[c],
                      inbox[c][i] = [kind |-> "started", of |-> r]
               PROVE  \E j \in DOMAIN inbox[c] : inbox[c][j] = [kind |-> "done", of |-> r]
    BY DEF DoneReachesClients
  <2>1. Heard(inbox[c], "started", r)
    BY DEF Heard
  <2>2. PICK j \in DOMAIN inbox[c] : inbox[c][j].kind = "done" /\ inbox[c][j].of = r
    BY <2>1 DEF Frames, Told, Heard
  <2>3. inbox[c][j] \in Frame
    BY DEF Shape, TypeOK
  <2>4. inbox[c][j] = [kind |-> "done", of |-> r]
    BY <2>2, <2>3 DEF Frame
  <2> QED
    BY <2>4
<1> QED
  BY <1>1, AlwaysFrames, PTL
=============================================================================
