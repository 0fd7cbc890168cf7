------------------------------- MODULE Server -------------------------------
(***************************************************************************)
(* A whole server: the life of its tasks and the WebSocket connections it  *)
(* accepts.  A handshake is an HTTP request that the server handles like   *)
(* any other, and the connection it leads to is detached from the server:  *)
(* neither shutdown nor drop ends it.                                      *)
(***************************************************************************)
EXTENDS Lifecycle, WsConnections

CONSTANT Asyncapi    \* whether an AsyncAPI document is configured

ASSUME AsyncapiAssumption == Asyncapi \in BOOLEAN
ASSUME HandshakeAssumption == Conn \subseteq Request

vars == <<lifecycleVars, wsVars>>

Init == LifecycleInit /\ WsInit

\* A client's request is accepted; a handshake is sent once.
Arrive(r) ==
    /\ r \in Conn => conn[r] = "new"
    /\ Accept(r)
    /\ UNCHANGED wsVars

\* Any other request is answered, and a handshake no document asks for refused.
Respond(r) ==
    /\ r \in Conn => ~Asyncapi
    /\ Answer(r)
    /\ UNCHANGED wsVars

\* ws_upgrade_handler: the answer to the handshake frees the HTTP connection.
Handshake(c) == Asyncapi /\ Answer(c) /\ \E name \in Names : Upgrade(c, name)

Handling ==
    \/ \E r \in Request : Respond(r)
    \/ \E c \in Conn : Handshake(c)

Next ==
    \/ (Owner \/ Background) /\ UNCHANGED wsVars
    \/ \E r \in Request : Arrive(r)
    \/ Handling
    \/ \E c \in Conn : Serve(c) /\ UNCHANGED lifecycleVars

Spec == Init /\ [][Next]_vars

\* The owner goes on with what it began, tasks that can run do, a request that was
\* accepted is answered (its client sends all of it or goes away), and the task of
\* a connection whose loop is over releases.
Fairness ==
    /\ WF_vars((JoinHttp \/ JoinGrpc \/ JoinRelay) /\ UNCHANGED wsVars)
    /\ WF_vars(Relay /\ UNCHANGED wsVars)
    /\ WF_vars((HttpServe \/ HttpDrain \/ HttpDone) /\ UNCHANGED wsVars)
    /\ WF_vars(Watch /\ UNCHANGED wsVars)
    /\ WF_vars((GrpcServe \/ GrpcDone) /\ UNCHANGED wsVars)
    /\ \A t \in Tasks : WF_vars(Abort(t) /\ UNCHANGED wsVars)
    /\ \A r \in Request : WF_vars(Respond(r) \/ (r \in Conn /\ Handshake(r)))

-----------------------------------------------------------------------------
(* Properties *)

\* The tasks, permits and ports of the server and the keys, limiters and counter of
\* its connections hold values of their types; no limiter lets more through than allowed.
TypeOK == LifecycleTypeOK /\ WsTypeOK

\* shutdown returns, wherever the tasks were when the signal was given and however
\* many WebSocket connections stay open.
ShutdownReturns == phase = "joinHttp" ~> phase = "stopped"

\* A server that goes out of scope gives its ports back.
DropReleases == phase = "dropped" ~> listening = {}

=============================================================================
