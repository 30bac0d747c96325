----------------------------- MODULE MCWebServer -----------------------------
(***************************************************************************)
(* Three instances of WebServer.                                           *)
(*                                                                         *)
(* Frames: two stages of one session and two of its clients, each of which *)
(* may come late, leave early and be gone while a broadcast is under way.  *)
(*                                                                         *)
(* Sessions: a stage and a batch of two commands on one session, a command *)
(* and a request with bad input on another, one client of the first.       *)
(*                                                                         *)
(* Bad input: a stage and a request with bad input on the same session.    *)
(***************************************************************************)
EXTENDS WebServer

MCSession == {"default", "second"}

FramesRequest == {"ripup", "nuts"}
FramesClient == {"c1", "c2"}
FramesOn == [r \in FramesRequest |-> "default"]
FramesJoins == [c \in FramesClient |-> "default"]
FramesCmds == [r \in FramesRequest |-> 0]

SessionsRequest == {"ripup", "batch", "select", "edit"}
SessionsClient == {"c1"}
SessionsOn == [r \in SessionsRequest |->
                 IF r \in {"ripup", "batch"} THEN "default" ELSE "second"]
SessionsJoins == [c \in SessionsClient |-> "default"]
SessionsCmds == [r \in SessionsRequest |->
                   CASE r = "batch" -> 2 [] r = "select" -> 1 [] OTHER -> 0]

BadRequest == {"ripup", "edit"}
BadOn == [r \in BadRequest |-> "default"]
BadCmds == [r \in BadRequest |-> 0]

=============================================================================
