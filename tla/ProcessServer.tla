--------------------------- MODULE ProcessServer ---------------------------
(***************************************************************************)
(* A server in a process of its own: start_process_with_bin,               *)
(* wait_for_tcp_ready, ProcessMockServer::shutdown and its Drop            *)
(* (crates/specmock-sdk/src/server.rs), the child that runs spec-mock      *)
(* serve (bin/spec-mock/src/main.rs), and the other processes of the       *)
(* machine, which take and leave ports when they like.                     *)
(***************************************************************************)
EXTENDS Configuration

CONSTANTS
    Ports,       \* the ports of the machine
    Configs      \* the configurations a caller may build

ASSUME PortsAssumption == Ports \subseteq Nat \ {0}
ASSUME ConfigsAssumption == Configs \subseteq ServerConfig

VARIABLES
    config,      \* the configuration of the builder
    caller,      \* where the caller is
    target,      \* the listener that is waited for
    late,        \* whether the deadline of that wait has passed
    answered,    \* for each listener, who accepted the connection
    child,       \* the process: its state, its configuration and the ports it holds
    killed,      \* whether the child was sent a kill signal
    reaped,      \* whether the exit of the child was collected
    foreign,     \* ports that other processes hold
    taken        \* ports that other processes have held at some time

processVars == <<config, caller, target, late, answered, child, killed, reaped, foreign, taken>>
startVars == <<config, caller, target, late, answered, killed, reaped>>

Awaited == {"http", "grpc"}
NoChild == [state |-> "none", args |-> <<>>, config |-> DefaultConfig, held |-> {}]

ProcessInit ==
    /\ config \in Configs
    /\ caller = "idle"
    /\ target = "http"
    /\ late = FALSE
    /\ answered = [l \in Awaited |-> "nobody"]
    /\ child = NoChild
    /\ killed = FALSE
    /\ reaped = FALSE
    /\ foreign \in SUBSET Ports
    /\ taken = foreign

-----------------------------------------------------------------------------
(* The caller: start_process_with_bin *)

CallStart ==
    /\ caller = "idle"
    /\ caller' = "resolve http"
    /\ UNCHANGED <<config, target, late, answered, child, killed, reaped, foreign, taken>>

\* resolve_process_bind_addr: any port is replaced by one that is free now; the
\* listener that found it is closed again.
Resolve(listener, at, next) ==
    /\ caller = at
    /\ \/ config[listener] # 0 /\ config' = config /\ caller' = next
       \/ /\ config[listener] = 0
          /\ \E p \in Ports \ foreign : config' = [config EXCEPT ![listener] = p]
          /\ caller' = next
       \/ config[listener] = 0 /\ Ports \subseteq foreign /\ config' = config /\ caller' = "failed"
    /\ UNCHANGED <<target, late, answered, child, killed, reaped, foreign, taken>>

Spawn ==
    /\ caller = "spawn"
    /\ \/ /\ child' = [NoChild EXCEPT !.state = "new", !.args = Arguments(config)]
          /\ caller' = "check"
       \/ child' = child /\ caller' = "failed"
    /\ UNCHANGED <<config, target, late, answered, killed, reaped, foreign, taken>>

\* Faulty variant: the error returns and leaves the child alone.
AbandonAnyway ==
    /\ caller' = "failed"
    /\ UNCHANGED killed

\* An error of wait_for_tcp_ready: the child is killed, and not waited for.
Abandon ==
    /\ caller' = "failed"
    /\ killed' = TRUE

\* One round of wait_for_tcp_ready: has the child exited ...
Check ==
    /\ caller = "check"
    /\ \/ child.state = "exited" /\ reaped' = TRUE /\ Abandon
       \/ child.state # "exited" /\ caller' = "connect" /\ UNCHANGED <<killed, reaped>>
    /\ UNCHANGED <<config, target, late, answered, child, foreign, taken>>

\* Faulty variant: the gRPC listener is taken to be ready with the HTTP one.
ConnectedAtOnce ==
    /\ answered' = [answered EXCEPT
           ![target] = IF config[target] \in child.held THEN "child" ELSE "other"]
    /\ caller' = "started"
    /\ UNCHANGED <<target, late>>

\* ... does anyone accept a connection: then the next listener is waited for, with a
\* deadline of its own, or the server has started ...
Connected ==
    /\ answered' = [answered EXCEPT
           ![target] = IF config[target] \in child.held THEN "child" ELSE "other"]
    /\ IF target = "http" /\ config.proto # "none"
       THEN target' = "grpc" /\ late' = FALSE /\ caller' = "check"
       ELSE UNCHANGED <<target, late>> /\ caller' = "started"

Connect ==
    /\ caller = "connect"
    /\ config[target] \in child.held \cup foreign
    /\ Connected
    /\ UNCHANGED <<config, child, killed, reaped, foreign, taken>>

\* Faulty variant: the deadline is not looked at.
RefusedForever ==
    /\ caller = "connect"
    /\ config[target] \notin child.held \cup foreign
    /\ caller' = "sleep"
    /\ UNCHANGED <<config, target, late, answered, child, killed, reaped, foreign, taken>>

\* ... and if nobody does, is it too late to try again.
Refused ==
    /\ caller = "connect"
    /\ config[target] \notin child.held \cup foreign
    /\ \/ late /\ Abandon
       \/ ~late /\ caller' = "sleep" /\ UNCHANGED killed
    /\ UNCHANGED <<config, target, late, answered, child, reaped, foreign, taken>>

Sleep ==
    /\ caller = "sleep"
    /\ caller' = "check"
    /\ UNCHANGED <<config, target, late, answered, child, killed, reaped, foreign, taken>>

Deadline ==
    /\ caller \in {"check", "connect", "sleep"}
    /\ ~late
    /\ late' = TRUE
    /\ UNCHANGED <<config, caller, target, answered, child, killed, reaped, foreign, taken>>

\* The future is dropped at an await; a Child that is dropped is not killed.
Cancel ==
    /\ caller \in {"connect", "sleep"}
    /\ caller' = "cancelled"
    /\ UNCHANGED <<config, target, late, answered, child, killed, reaped, foreign, taken>>

-----------------------------------------------------------------------------
(* The caller: shutdown, called or from Drop *)

ShutdownProcess ==
    /\ caller = "started"
    /\ \/ child.state = "exited" /\ reaped' = TRUE /\ caller' = "stopped" /\ UNCHANGED killed
       \/ child.state # "exited" /\ killed' = TRUE /\ caller' = "waiting" /\ UNCHANGED reaped
    /\ UNCHANGED <<config, target, late, answered, child, foreign, taken>>

Wait ==
    /\ caller = "waiting"
    /\ child.state = "exited"
    /\ reaped' = TRUE
    /\ caller' = "stopped"
    /\ UNCHANGED <<config, target, late, answered, child, killed, foreign, taken>>

-----------------------------------------------------------------------------
(* The child: main, serve_command and start *)

Exit == child' = [child EXCEPT !.state = "exited", !.held = {}]

\* Cli::parse and serve_command, up to the start of the server.
ChildParse ==
    /\ child.state = "new"
    /\ \/ ~Parses(child.args) /\ Exit
       \/ /\ Parses(child.args)
          /\ child' = [child EXCEPT !.state = "parsed", !.config = ServeConfig(child.args)]

\* A listener is bound, if its port is free.
Bind(listener, next) ==
    \/ /\ child.config[listener] \notin foreign
       /\ child' = [child EXCEPT !.state = next, !.held = @ \cup {child.config[listener]}]
    \/ child.config[listener] \in foreign /\ Exit

\* start: validation, the sidecar and the documents, whose content may not load, and the
\* HTTP listener ...
ChildStart ==
    /\ child.state = "parsed"
    /\ \/ Exit
       \/ Startable(child.config) /\ Bind("http", "http bound")

\* ... then the gRPC listener; an error ends the process and both listeners.
ChildStartGrpc ==
    /\ child.state = "http bound"
    /\ \/ child.config.proto = "none" /\ child' = [child EXCEPT !.state = "serving"]
       \/ child.config.proto # "none" /\ (Exit \/ Bind("grpc", "serving"))

\* ctrl_c, which reaches every process of the terminal.
ChildInterrupted ==
    /\ child.state = "serving"
    /\ Exit

ChildKilled ==
    /\ killed
    /\ child.state \notin {"none", "exited"}
    /\ Exit

ChildStep == ChildParse \/ ChildStart \/ ChildStartGrpc \/ ChildInterrupted \/ ChildKilled

-----------------------------------------------------------------------------
(* Other processes *)

Take(p) ==
    /\ p \notin foreign \cup child.held
    /\ foreign' = foreign \cup {p}
    /\ taken' = taken \cup {p}

Release(p) ==
    /\ p \in foreign
    /\ foreign' = foreign \ {p}
    /\ taken' = taken

-----------------------------------------------------------------------------

CallerStep ==
    \/ Resolve("http", "resolve http", "resolve grpc") \/ Resolve("grpc", "resolve grpc", "spawn")
    \/ Spawn
    \/ Check \/ Connect \/ Refused \/ Sleep \/ Wait

ProcessNext ==
    \/ CallStart \/ CallerStep \/ Deadline \/ Cancel \/ ShutdownProcess
    \/ ChildStep /\ UNCHANGED <<startVars, foreign, taken>>
    \/ (\E p \in Ports : Take(p) \/ Release(p)) /\ UNCHANGED <<startVars, child>>

\* The caller is run by its executor, the clock advances, and a kill signal is
\* delivered; nothing makes the child start up or other processes move.
ProcessFairness ==
    /\ WF_processVars(CallerStep)
    /\ WF_processVars(Deadline)
    /\ WF_processVars(ChildKilled /\ UNCHANGED <<startVars, foreign, taken>>)

ProcessSpec == ProcessInit /\ [][ProcessNext]_processVars /\ ProcessFairness

-----------------------------------------------------------------------------
(* Properties *)

\* wait_for_tcp_ready: when start returns a handle, every listener it names was
\* accepted for, and by the child unless another process has had the port, of a
\* configuration that can be served. A port that was found free and given up again, and
\* a child that failed in between, are not mistaken for it.
ReadyIsOurs ==
    caller = "started" =>
        \A l \in IF config.proto = "none" THEN {"http"} ELSE Awaited :
            /\ answered[l] # "nobody"
            /\ config[l] \notin taken => answered[l] = "child" /\ Startable(config)

\* The child serves the configuration of the builder, whatever path it takes through
\* arguments and defaults, and has control endpoints exactly if the builder has.
ChildAsConfigured ==
    child.state \in {"parsed", "http bound", "serving"} =>
        /\ child.config = [config EXCEPT !.token = child.config.token]
        /\ child.config.token = "none" <=> config.token = "none"

\* start_process_with_bin returns, although the child may hang, exit or find its
\* port taken at any time.
StartReturns == (caller = "check") ~> (caller \in {"started", "failed", "cancelled"})

\* A start that failed, and a shutdown, leave no process and no port behind; a
\* shutdown returns, and when it has, the exit of the child was collected.
NothingLeft ==
    /\ caller = "failed" ~> child.held = {} /\ child.state \in {"none", "exited"}
    /\ caller = "waiting" ~> caller = "stopped" /\ reaped /\ child.held = {}

=============================================================================
