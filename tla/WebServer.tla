------------------------------ MODULE WebServer ------------------------------
(***************************************************************************)
(* The web backend: the request handlers of src/src/web/server.py over the *)
(* command shim of src/src/web/runner.py.                                  *)
(*                                                                         *)
(* One event loop runs the handlers; a handler keeps the loop from one     *)
(* await to the next.  Every session has an asyncio lock, served first     *)
(* come first served; the process has one engine lock, a thread lock held  *)
(* around every engine command, whose stdout capture is process-wide.  A   *)
(* long stage runs its command on an executor thread while its heartbeat   *)
(* task writes to the session's WebSocket clients; every other route runs  *)
(* its commands on the loop itself.                                        *)
(*                                                                         *)
(* Reading a session for an answer and running a command take time: each   *)
(* has a beginning and an end, so that what happens on another thread in   *)
(* between can be told.  Repeated heartbeats of a stage count as one frame. *)
(***************************************************************************)
EXTENDS Integers, Sequences, FiniteSets

CONSTANTS
  Request,   \* the HTTP requests that may arrive
  Client,    \* the WebSocket connections that may be made
  Session,   \* session ids
  None,
  On,        \* On[r]: the session of request r
  Joins,     \* Joins[c]: the session of client c
  Stage,     \* the requests of POST /api/stage; the others run on the loop
  Bad,       \* requests rejected before the session lock is taken
  Cmds       \* Cmds[r]: how many engine commands a non-stage request runs

ASSUME RequestAssumption ==
  /\ On \in [Request -> Session] /\ Joins \in [Client -> Session]
  /\ Stage \subseteq Request /\ Bad \subseteq Request \ Stage
  /\ Cmds \in [Request -> Nat]
  /\ None \notin Request \cup Client /\ Request \cap Client = {}

VARIABLES
  pc,        \* pc[r]: where the handler of r is
  owner,     \* owner[s]: who holds the asyncio lock of s
  line,      \* line[s]: who awaits it, in order
  loop,      \* the handler that keeps the event loop, if any
  engine,    \* the holder of _ENGINE_LOCK
  left,      \* left[r]: commands r has still to run
  clients,   \* clients[s]: st.clients
  peer,      \* peer[c]: the state of connection c
  inbox,     \* inbox[c]: the frames c has received
  mail,      \* mail[r]: the clients the broadcast of r has still to write to
  beat,      \* beat[r]: the heartbeat task of r
  beatMail   \* beatMail[r]: the clients its broadcast has still to write to

vars ==
  <<pc, owner, line, loop, engine, left, clients, peer, inbox, mail, beat, beatMail>>
lock == <<owner, line>>
ws == <<clients, peer, inbox>>
hb == <<beat, beatMail>>

Frame == [kind : {"hello", "started", "heartbeat", "done"}, of : Stage \cup {None}]

Init ==
  /\ pc = [r \in Request |-> "idle"]
  /\ owner = [s \in Session |-> None]
  /\ line = [s \in Session |-> <<>>]
  /\ loop = None /\ engine = None
  /\ left = [r \in Request |-> 0]
  /\ clients = [s \in Session |-> {}]
  /\ peer = [c \in Client |-> "away"]
  /\ inbox = [c \in Client |-> <<>>]
  /\ mail = [r \in Request |-> {}]
  /\ beat = [r \in Stage |-> "off"] /\ beatMail = [r \in Stage |-> {}]

(* async with st.lock: the first in line goes in when the lock is free. *)
Acquire(r) ==
  /\ owner[On[r]] = None /\ line[On[r]] # <<>> /\ Head(line[On[r]]) = r
  /\ owner' = [owner EXCEPT ![On[r]] = r]
  /\ line' = [line EXCEPT ![On[r]] = Tail(@)]

Release(r) ==
  /\ owner' = [owner EXCEPT ![On[r]] = None]
  /\ UNCHANGED line

Goto(r, where) == pc' = [pc EXCEPT ![r] = where]

-----------------------------------------------------------------------------
(* Frames.                                                                 *)

(* Append a frame; a heartbeat that follows the same heartbeat is not       *)
(* counted again.                                                          *)
Received(q, f) ==
  IF f.kind = "heartbeat" /\ q # <<>> /\ q[Len(q)] = f THEN q ELSE Append(q, f)

(* One send of a broadcast of s: a client that is gone is pruned. *)
Deliver(s, c, kind, r) ==
  IF peer[c] = "open"
    THEN /\ inbox' = [inbox EXCEPT ![c] = Received(@, [kind |-> kind, of |-> r])]
         /\ UNCHANGED <<clients, peer>>
    ELSE /\ clients' = [clients EXCEPT ![s] = @ \ {c}]
         /\ UNCHANGED <<inbox, peer>>

-----------------------------------------------------------------------------
(* Requests.  All of the actions below but the engine's run on the loop.   *)

(* A request with bad input reads the session for its error answer; the    *)
(* others ask for the session lock.                                        *)
Arrive(r) ==
  /\ loop = None /\ pc[r] = "idle"
  /\ \/ /\ r \in Bad
        /\ loop' = r /\ Goto(r, "reading")
        /\ UNCHANGED line
     \/ /\ r \notin Bad
        /\ line' = [line EXCEPT ![On[r]] = Append(@, r)]
        /\ Goto(r, "queued")
        /\ UNCHANGED loop
  /\ UNCHANGED <<owner, engine, left, ws, mail, hb>>

(* post_stage, with the lock: announce the stage, *)
Announce(r) ==
  /\ loop = None /\ pc[r] = "queued" /\ r \in Stage
  /\ Acquire(r)
  /\ Goto(r, "announcing")
  /\ mail' = [mail EXCEPT ![r] = clients[On[r]]]
  /\ UNCHANGED <<loop, engine, left, ws, hb>>

(* Mutant of Send: the first client that is gone ends the broadcast. *)
SendStops(r) ==
  /\ loop = None /\ pc[r] \in {"announcing", "closing"}
  /\ \E c \in mail[r] :
       /\ Deliver(On[r], c, IF pc[r] = "announcing" THEN "started" ELSE "done", r)
       /\ mail' = [mail EXCEPT ![r] = IF peer[c] = "open" THEN @ \ {c} ELSE {}]
  /\ UNCHANGED <<pc, lock, loop, engine, left, hb>>

Send(r) ==
  /\ loop = None /\ pc[r] \in {"announcing", "closing"}
  /\ \E c \in mail[r] :
       /\ Deliver(On[r], c, IF pc[r] = "announcing" THEN "started" ELSE "done", r)
       /\ mail' = [mail EXCEPT ![r] = @ \ {c}]
  /\ UNCHANGED <<pc, lock, loop, engine, left, hb>>

(* Mutant of Submit: the session lock is not held over the engine call. *)
SubmitUnlocked(r) ==
  /\ loop = None /\ pc[r] = "announcing" /\ mail[r] = {}
  /\ Goto(r, "submitted") /\ Release(r)
  /\ beat' = [beat EXCEPT ![r] = "asleep"]
  /\ UNCHANGED <<loop, engine, left, ws, mail, beatMail>>

(* start the heartbeat, hand the command to the executor and await it, *)
Submit(r) ==
  /\ loop = None /\ pc[r] = "announcing" /\ mail[r] = {}
  /\ Goto(r, "submitted")
  /\ beat' = [beat EXCEPT ![r] = "asleep"]
  /\ UNCHANGED <<lock, loop, engine, left, ws, mail, beatMail>>

(* which runs it on a thread of its own, under the engine lock; *)
StageTake(r) ==
  /\ pc[r] = "submitted" /\ engine = None
  /\ engine' = r /\ Goto(r, "executing")
  /\ UNCHANGED <<lock, loop, left, ws, mail, hb>>

StageDrop(r) ==
  /\ pc[r] = "executing" /\ r \in Stage
  /\ engine' = None /\ Goto(r, "executed")
  /\ UNCHANGED <<lock, loop, left, ws, mail, hb>>

(* back on the loop, cancel the heartbeat and await its end, *)
Resume(r) ==
  /\ loop = None /\ pc[r] = "executed"
  /\ Goto(r, "cancelling")
  /\ beat' = [beat EXCEPT ![r] = "cancelled"]
  /\ UNCHANGED <<lock, loop, engine, left, ws, mail, beatMail>>

(* read the session for the closing frame and the answer, *)
StageRead(r) ==
  /\ loop = None /\ pc[r] = "cancelling" /\ beat[r] = "off"
  /\ loop' = r /\ Goto(r, "reading")
  /\ UNCHANGED <<lock, engine, left, ws, mail, hb>>

(* Mutant of StageReadEnd: the lock is released before the closing frame. *)
StageReadEndUnlocked(r) ==
  /\ pc[r] = "reading" /\ r \in Stage
  /\ loop' = None /\ Goto(r, "closing")
  /\ mail' = [mail EXCEPT ![r] = clients[On[r]]]
  /\ Release(r)
  /\ UNCHANGED <<engine, left, ws, hb>>

StageReadEnd(r) ==
  /\ pc[r] = "reading" /\ r \in Stage
  /\ loop' = None /\ Goto(r, "closing")
  /\ mail' = [mail EXCEPT ![r] = clients[On[r]]]
  /\ UNCHANGED <<lock, engine, left, ws, hb>>

(* send that frame, release the lock and answer. *)
StageAnswer(r) ==
  /\ loop = None /\ pc[r] = "closing" /\ mail[r] = {}
  /\ Goto(r, "answered") /\ Release(r)
  /\ UNCHANGED <<loop, engine, left, ws, mail, hb>>

(* Every other route runs its commands on the loop, with the lock: for each *)
(* it waits for the engine without giving up the loop.                     *)
Begin(r) ==
  /\ loop = None /\ pc[r] = "queued" /\ r \notin Stage
  /\ Acquire(r)
  /\ loop' = r
  /\ left' = [left EXCEPT ![r] = Cmds[r]]
  /\ Goto(r, IF Cmds[r] > 0 THEN "waiting" ELSE "reading")
  /\ UNCHANGED <<engine, ws, mail, hb>>

(* Mutant of Take: the command does not wait for the engine lock. *)
TakeUnlocked(r) ==
  /\ pc[r] = "waiting"
  /\ engine' = r /\ Goto(r, "executing")
  /\ UNCHANGED <<lock, loop, left, ws, mail, hb>>

Take(r) ==
  /\ pc[r] = "waiting" /\ engine = None
  /\ engine' = r /\ Goto(r, "executing")
  /\ UNCHANGED <<lock, loop, left, ws, mail, hb>>

Drop(r) ==
  /\ pc[r] = "executing" /\ r \notin Stage
  /\ engine' = None
  /\ left' = [left EXCEPT ![r] = @ - 1]
  /\ Goto(r, IF left[r] > 1 THEN "waiting" ELSE "reading")
  /\ UNCHANGED <<lock, loop, ws, mail, hb>>

Answer(r) ==
  /\ pc[r] = "reading" /\ r \notin Stage
  /\ loop' = None /\ Goto(r, "answered")
  /\ \/ r \in Bad /\ UNCHANGED lock
     \/ r \notin Bad /\ Release(r)
  /\ UNCHANGED <<engine, left, ws, mail, hb>>

-----------------------------------------------------------------------------
(* The heartbeat task of a stage.                                          *)

Tick(r) ==
  /\ loop = None /\ beat[r] = "asleep"
  /\ beat' = [beat EXCEPT ![r] = "sending"]
  /\ beatMail' = [beatMail EXCEPT ![r] = clients[On[r]]]
  /\ UNCHANGED <<pc, lock, loop, engine, left, ws, mail>>

BeatSend(r) ==
  /\ loop = None /\ beat[r] = "sending"
  /\ \E c \in beatMail[r] :
       /\ Deliver(On[r], c, "heartbeat", r)
       /\ beatMail' = [beatMail EXCEPT ![r] = @ \ {c}]
  /\ UNCHANGED <<pc, lock, loop, engine, left, mail, beat>>

BeatSleep(r) ==
  /\ loop = None /\ beat[r] = "sending" /\ beatMail[r] = {}
  /\ beat' = [beat EXCEPT ![r] = "asleep"]
  /\ UNCHANGED <<pc, lock, loop, engine, left, ws, mail, beatMail>>

(* Mutant of BeatEnd: a cancellation that hits the task in a send is        *)
(* swallowed with the send's own errors.                                   *)
BeatEndSwallowed(r) ==
  /\ loop = None /\ beat[r] = "cancelled"
  /\ beat' = [beat EXCEPT ![r] = IF beatMail[r] = {} THEN "off" ELSE "sending"]
  /\ UNCHANGED <<pc, lock, loop, engine, left, ws, mail, beatMail>>

(* A cancelled task ends where it awaits, in the middle of a broadcast too. *)
BeatEnd(r) ==
  /\ loop = None /\ beat[r] = "cancelled"
  /\ beat' = [beat EXCEPT ![r] = "off"]
  /\ beatMail' = [beatMail EXCEPT ![r] = {}]
  /\ UNCHANGED <<pc, lock, loop, engine, left, ws, mail>>

-----------------------------------------------------------------------------
(* WebSocket connections.                                                  *)

(* ws_progress: the client is subscribed, and greeted with the state of the *)
(* session if the engine is idle, which it keeps idle while it reads.      *)
Connect(c) ==
  /\ loop = None /\ peer[c] = "away"
  /\ clients' = [clients EXCEPT ![Joins[c]] = @ \cup {c}]
  /\ \/ /\ engine = None
        /\ engine' = c /\ loop' = c
        /\ peer' = [peer EXCEPT ![c] = "greeting"]
        /\ UNCHANGED inbox
     \/ /\ engine # None
        /\ peer' = [peer EXCEPT ![c] = "open"]
        /\ inbox' = [inbox EXCEPT ![c] = <<[kind |-> "hello", of |-> None]>>]
        /\ UNCHANGED <<engine, loop>>
  /\ UNCHANGED <<pc, lock, left, mail, hb>>

Greet(c) ==
  /\ peer[c] = "greeting"
  /\ engine' = None /\ loop' = None
  /\ peer' = [peer EXCEPT ![c] = "open"]
  /\ inbox' = [inbox EXCEPT ![c] = <<[kind |-> "hello", of |-> None]>>]
  /\ UNCHANGED <<pc, lock, left, clients, mail, hb>>

(* The peer goes away; its handler notices and unsubscribes. *)
Leave(c) ==
  /\ peer[c] = "open"
  /\ peer' = [peer EXCEPT ![c] = "gone"]
  /\ UNCHANGED <<pc, lock, loop, engine, left, clients, inbox, mail, hb>>

Close(c) ==
  /\ loop = None /\ peer[c] = "gone"
  /\ peer' = [peer EXCEPT ![c] = "closed"]
  /\ clients' = [clients EXCEPT ![Joins[c]] = @ \ {c}]
  /\ UNCHANGED <<pc, lock, loop, engine, left, inbox, mail, hb>>

-----------------------------------------------------------------------------
(* What the server does of its own accord: the handler of r, its heartbeat *)
(* and the greeting of c.                                                  *)
Handle(r) ==
  \/ Announce(r) \/ Send(r) \/ Submit(r) \/ StageTake(r) \/ StageDrop(r)
  \/ Resume(r) \/ StageRead(r) \/ StageReadEnd(r) \/ StageAnswer(r)
  \/ Begin(r) \/ Take(r) \/ Drop(r) \/ Answer(r)

Beat(r) == Tick(r) \/ BeatSend(r) \/ BeatSleep(r) \/ BeatEnd(r)

Next ==
  \/ \E r \in Request : Arrive(r) \/ Handle(r)
  \/ \E r \in Stage : Beat(r)
  \/ \E c \in Client : Connect(c) \/ Greet(c) \/ Leave(c) \/ Close(c)

Spec == Init /\ [][Next]_vars

(* The loop serves its ready tasks in order and the threads are scheduled; *)
(* requests need not arrive and clients neither come nor go.               *)
FairSpec ==
  /\ Spec
  /\ \A r \in Request : SF_vars(Handle(r))
  /\ \A r \in Stage : SF_vars(Beat(r))
  /\ \A c \in Client : WF_vars(Greet(c))

-----------------------------------------------------------------------------
(* Properties.                                                             *)

TypeOK ==
  /\ pc \in [Request -> {"idle", "queued", "announcing", "submitted", "executing",
                         "executed", "cancelling", "waiting", "reading",
                         "closing", "answered"}]
  /\ owner \in [Session -> Request \cup {None}]
  /\ line \in [Session -> Seq(Request)]
  /\ loop \in Request \cup Client \cup {None}
  /\ engine \in Request \cup Client \cup {None}
  /\ left \in [Request -> Nat]
  /\ clients \in [Session -> SUBSET Client]
  /\ peer \in [Client -> {"away", "greeting", "open", "gone", "closed"}]
  /\ inbox \in [Client -> Seq(Frame)]
  /\ mail \in [Request -> SUBSET Client]
  /\ beat \in [Stage -> {"off", "asleep", "sending", "cancelled"}]
  /\ beatMail \in [Stage -> SUBSET Client]

Executing == {r \in Request : pc[r] = "executing"}

(* The sessions being read: by the answer of a request, by a greeting. *)
Read == {On[r] : r \in {q \in Request : pc[q] = "reading"}}
          \cup {Joins[c] : c \in {d \in Client : peer[d] = "greeting"}}

(* run_one swaps stdout and the C++ streams of the whole process: no two   *)
(* commands run at once, of whatever session and on whatever thread.       *)
CaptureIsExclusive == \A q, r \in Executing : q = r

(* "The session state is not reentrant": no session is read while a command *)
(* of that session runs on another thread.                                 *)
NoTornRead == \A r \in Executing : On[r] \notin Read

(* A client is greeted first, hears the stages of its session one after the *)
(* other, each from its start on, and nothing of a stage after its end.    *)
FramesInOrder ==
  \A c \in Client : LET q == inbox[c] IN
    /\ \A i \in DOMAIN q : q[i].kind = "hello" <=> i = 1
    /\ \A i, j \in DOMAIN q : i < j /\ q[i].of = q[j].of =>
         /\ q[i].kind # "done" /\ q[j].kind # "started"
         /\ \A k \in i..j : q[k].of = q[i].of

(* A client that saw a stage start and stayed has seen it end by the time  *)
(* the stage is answered, whoever else dropped out of the broadcast.       *)
DoneReachesClients ==
  \A r \in Stage, c \in Client :
    /\ pc[r] = "answered" /\ peer[c] = "open"
    /\ \E i \in DOMAIN inbox[c] : inbox[c][i] = [kind |-> "started", of |-> r]
    => \E i \in DOMAIN inbox[c] : inbox[c][i] = [kind |-> "done", of |-> r]

(* Every request is answered: nobody waits for a lock forever, and a stage *)
(* does not wait forever for its heartbeat to end.                         *)
EveryRequestAnswered == \A r \in Request : pc[r] = "queued" ~> pc[r] = "answered"
=============================================================================
