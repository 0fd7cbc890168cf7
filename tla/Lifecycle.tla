----------------------------- MODULE Lifecycle -----------------------------
(***************************************************************************)
(* Starting and stopping a server: start, RunningServer::shutdown and      *)
(* RunningServer's Drop (crates/specmock-runtime/src/lib.rs), the HTTP     *)
(* task (http/mod.rs, spawn_http_server) and the gRPC task                 *)
(* (grpc/protobuf.rs, spawn_grpc_server).                                  *)
(*                                                                         *)
(* The tasks run concurrently with their owner.  axum waits for the        *)
(* shutdown notification in a task of its own, the watcher, and serves     *)
(* every connection in another one; both outlive an aborted HTTP task.     *)
(* A gRPC connection is served by a detached task and never waited for.    *)
(***************************************************************************)
EXTENDS Integers

CONSTANTS
    Proto,       \* whether a protobuf document is configured
    Request      \* HTTP requests clients may send

ASSUME ProtoAssumption == Proto \in BOOLEAN

VARIABLES
    phase,       \* where the owner of the server is
    sent,        \* whether the oneshot shutdown signal was sent
    task,        \* the state of each task
    aborting,    \* tasks that were told to abort
    listening,   \* listeners that are bound
    permit,      \* the Notify objects that hold or deliver a permit
    watcher,     \* axum's wait for the notification
    active       \* requests being handled

lifecycleVars == <<phase, sent, task, aborting, listening, permit, watcher, active>>

Tasks == {"http", "grpc", "relay"}
Listeners == {"http", "grpc"}

LifecycleInit ==
    /\ phase = "starting"
    /\ sent = FALSE
    /\ task = [t \in Tasks |-> "none"]
    /\ aborting = {}
    /\ listening = {}
    /\ permit = {}
    /\ watcher = "none"
    /\ active = {}

-----------------------------------------------------------------------------
(* start *)

\* Anything up to and including the HTTP bind fails: nothing was started.
StartFails ==
    /\ phase = "starting"
    /\ phase' = "failed"
    /\ UNCHANGED <<sent, task, aborting, listening, permit, watcher, active>>

\* The configuration is valid, the documents load and the HTTP listener is bound.
StartHttp ==
    /\ phase = "starting"
    /\ phase' = IF Proto THEN "startingGrpc" ELSE "startingRelay"
    /\ task' = [task EXCEPT !["http"] = "spawned"]
    /\ listening' = listening \cup {"http"}
    /\ UNCHANGED <<sent, aborting, permit, watcher, active>>

\* The gRPC runtime does not build or bind: the error returns past the HTTP task,
\* whose handle is dropped, and past a signal that nobody relays.
StartGrpcFails ==
    /\ phase = "startingGrpc"
    /\ phase' = "leaked"
    /\ UNCHANGED <<sent, task, aborting, listening, permit, watcher, active>>

StartGrpc ==
    /\ phase = "startingGrpc"
    /\ phase' = "startingRelay"
    /\ task' = [task EXCEPT !["grpc"] = "spawned"]
    /\ listening' = listening \cup {"grpc"}
    /\ UNCHANGED <<sent, aborting, permit, watcher, active>>

StartRelay ==
    /\ phase = "startingRelay"
    /\ phase' = "running"
    /\ task' = [task EXCEPT !["relay"] = "spawned"]
    /\ UNCHANGED <<sent, aborting, listening, permit, watcher, active>>

-----------------------------------------------------------------------------
(* The tasks *)

\* Faulty variant: notify_waiters, which forgets a task that does not wait yet.
RelayToWaiters ==
    /\ task["relay"] = "spawned"
    /\ sent
    /\ permit' = permit \cup
          ((IF watcher = "waiting" THEN {"http"} ELSE {}) \cup
           (IF task["grpc"] = "serving" THEN {"grpc"} ELSE {}))
    /\ task' = [task EXCEPT !["relay"] = "done"]
    /\ UNCHANGED <<phase, sent, aborting, listening, watcher, active>>

\* The relay: the signal becomes one permit per runtime, kept until it is taken.
Relay ==
    /\ task["relay"] = "spawned"
    /\ sent
    /\ permit' = permit \cup {"http", "grpc"}
    /\ task' = [task EXCEPT !["relay"] = "done"]
    /\ UNCHANGED <<phase, sent, aborting, listening, watcher, active>>

HttpServe ==
    /\ task["http"] = "spawned"
    /\ task' = [task EXCEPT !["http"] = "serving"]
    /\ watcher' = "waiting"
    /\ UNCHANGED <<phase, sent, aborting, listening, permit, active>>

Watch ==
    /\ watcher = "waiting"
    /\ "http" \in permit
    /\ permit' = permit \ {"http"}
    /\ watcher' = "fired"
    /\ UNCHANGED <<phase, sent, task, aborting, listening, active>>

\* The accept loop ends: the listener goes, the requests being handled stay.
HttpDrain ==
    /\ task["http"] = "serving"
    /\ watcher = "fired"
    /\ task' = [task EXCEPT !["http"] = "draining"]
    /\ listening' = listening \ {"http"}
    /\ UNCHANGED <<phase, sent, aborting, permit, watcher, active>>

\* Faulty variant: the requests being handled are not waited for.
HttpDoneAtOnce ==
    /\ task["http"] = "draining"
    /\ task' = [task EXCEPT !["http"] = "done"]
    /\ UNCHANGED <<phase, sent, aborting, listening, permit, watcher, active>>

HttpDone ==
    /\ task["http"] = "draining"
    /\ active = {}
    /\ task' = [task EXCEPT !["http"] = "done"]
    /\ UNCHANGED <<phase, sent, aborting, listening, permit, watcher, active>>

GrpcServe ==
    /\ task["grpc"] = "spawned"
    /\ task' = [task EXCEPT !["grpc"] = "serving"]
    /\ UNCHANGED <<phase, sent, aborting, listening, permit, watcher, active>>

\* The select takes the notification: the loop and its listener end.
GrpcDone ==
    /\ task["grpc"] = "serving"
    /\ "grpc" \in permit
    /\ permit' = permit \ {"grpc"}
    /\ task' = [task EXCEPT !["grpc"] = "done"]
    /\ listening' = listening \ {"grpc"}
    /\ UNCHANGED <<phase, sent, aborting, watcher, active>>

\* An abort takes effect, and drops what the task owned.
Abort(t) ==
    /\ t \in aborting
    /\ task[t] \notin {"none", "done", "aborted"}
    /\ task' = [task EXCEPT ![t] = "aborted"]
    /\ listening' = listening \ {t}
    /\ UNCHANGED <<phase, sent, aborting, permit, watcher, active>>

\* A connection is accepted and its request read.
Accept(r) ==
    /\ task["http"] = "serving"
    /\ r \notin active
    /\ active' = active \cup {r}
    /\ UNCHANGED <<phase, sent, task, aborting, listening, permit, watcher>>

\* The request is answered, by a task that does not belong to the server.
Answer(r) ==
    /\ r \in active
    /\ active' = active \ {r}
    /\ UNCHANGED <<phase, sent, task, aborting, listening, permit, watcher>>

-----------------------------------------------------------------------------
(* RunningServer *)

Shutdown ==
    /\ phase = "running"
    /\ sent' = TRUE
    /\ phase' = "joinHttp"
    /\ UNCHANGED <<task, aborting, listening, permit, watcher, active>>

\* The handles are awaited in the order they were pushed.
Join(from, t, to) ==
    /\ phase = from
    /\ task[t] = "done"
    /\ phase' = to
    /\ UNCHANGED <<sent, task, aborting, listening, permit, watcher, active>>

JoinHttp == Join("joinHttp", "http", IF Proto THEN "joinGrpc" ELSE "joinRelay")
JoinGrpc == Join("joinGrpc", "grpc", "joinRelay")
JoinRelay == Join("joinRelay", "relay", "stopped")

\* Faulty variant: the task that was pushed last is the only one aborted.
DropAbortsRelay ==
    /\ phase = "running"
    /\ sent' = TRUE
    /\ aborting' = {"relay"}
    /\ phase' = "dropped"
    /\ UNCHANGED <<task, listening, permit, watcher, active>>

\* The handle goes out of scope: the tasks are told and aborted.
DropServer ==
    /\ phase = "running"
    /\ sent' = TRUE
    /\ aborting' = Tasks
    /\ phase' = "dropped"
    /\ UNCHANGED <<task, listening, permit, watcher, active>>

-----------------------------------------------------------------------------
Owner ==
    \/ StartFails \/ StartHttp \/ StartGrpcFails \/ StartGrpc \/ StartRelay
    \/ Shutdown \/ JoinHttp \/ JoinGrpc \/ JoinRelay \/ DropServer

\* What the tasks do of their own accord.
Background ==
    \/ Relay \/ HttpServe \/ Watch \/ HttpDrain \/ HttpDone \/ GrpcServe \/ GrpcDone
    \/ \E t \in Tasks : Abort(t)

Steps == {"none", "spawned", "serving", "draining", "done", "aborted"}
Phases == {"starting", "startingGrpc", "startingRelay", "running", "joinHttp", "joinGrpc",
           "joinRelay", "stopped", "dropped", "failed", "leaked"}

LifecycleTypeOK ==
    /\ phase \in Phases
    /\ sent \in BOOLEAN
    /\ task \in [Tasks -> Steps]
    /\ aborting \subseteq Tasks
    /\ listening \subseteq Listeners
    /\ permit \subseteq Listeners
    /\ watcher \in {"none", "waiting", "fired"}
    /\ active \subseteq Request

\* When shutdown has returned, no port is held, no request is cut short and nobody
\* waits for a signal that was given; a start that failed on its own holds nothing.
Released ==
    /\ phase = "stopped" => listening = {} /\ active = {} /\ watcher = "fired"
    /\ phase = "failed" => listening = {} /\ watcher = "none"

=============================================================================
