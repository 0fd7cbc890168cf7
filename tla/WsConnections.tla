--------------------------- MODULE WsConnections ---------------------------
(***************************************************************************)
(* WebSocket connections and the scenario sessions they hold               *)
(* (crates/specmock-runtime/src/http/ws_handler.rs).  A connection is      *)
(* handled by a task of its own.  The registry of ScenarioRuntime is the   *)
(* set of <<scenario, session>> pairs that have an instance; its own races *)
(* are the subject of ScenarioRuntime.                                     *)
(*                                                                         *)
(* A message is "governed" if the AsyncAPI runtime answers it and the      *)
(* scenario has a step for the pinned channel, otherwise "plain".  Frames  *)
(* that are not text are skipped and have no action.                       *)
(***************************************************************************)
EXTENDS Integers, FiniteSets

CONSTANTS
    Conn,          \* WebSocket connections
    Scenario,      \* connection -> the scenario it plays
    Names,         \* what clients give as ?session=, or Unnamed if they give none
    MaxSessions,   \* the session cap
    MaxMessages    \* MAX_WS_MESSAGES_PER_SECOND

\* Names are tuples.  The server mints ws-n, and a client may choose that name too.
Unnamed == <<>>
Minted(n) == <<"ws", n>>

\* The session of a connection, and who named it.
Session(name, by) == [name |-> name, by |-> by]

ASSUME MaxSessionsAssumption == MaxSessions \in Nat
ASSUME MaxMessagesAssumption == MaxMessages \in Nat \ {0}

VARIABLES
    conn,        \* "new", "open", "closing" (the loop was left) or "closed"
    session,     \* the session of each connection, with who named it
    minted,      \* ws_sessions
    count,       \* RateLimiter::message_count of each connection
    registry     \* <<scenario, session>> pairs with an instance

wsVars == <<conn, session, minted, count, registry>>

Key(c) == <<Scenario[c], session[c].name>>

WsInit ==
    /\ conn = [c \in Conn |-> "new"]
    /\ session = [c \in Conn |-> Session(Unnamed, "client")]
    /\ minted = 0
    /\ count = [c \in Conn |-> 0]
    /\ registry = {}

\* Faulty variant: the counter is read and not advanced.
UpgradeSameSession(c, name) ==
    /\ conn[c] = "new"
    /\ conn' = [conn EXCEPT ![c] = "open"]
    /\ session' = [session EXCEPT ![c] = IF name = Unnamed THEN Session(Minted(minted), "server")
                                         ELSE Session(name, "client")]
    /\ UNCHANGED <<minted, count, registry>>

\* The handshake: a session of the connection's own unless it names one.
Upgrade(c, name) ==
    /\ conn[c] = "new"
    /\ conn' = [conn EXCEPT ![c] = "open"]
    /\ \/ /\ name = Unnamed
          /\ session' = [session EXCEPT ![c] = Session(Minted(minted), "server")]
          /\ minted' = minted + 1
       \/ /\ name # Unnamed
          /\ session' = [session EXCEPT ![c] = Session(name, "client")]
          /\ UNCHANGED minted
    /\ UNCHANGED <<count, registry>>

\* Faulty variant: one message too many fits in a window.
WithinLimitAndOne(c) ==
    \/ count' = [count EXCEPT ![c] = 1]
    \/ count[c] <= MaxMessages /\ count' = [count EXCEPT ![c] = @ + 1]

\* check_and_update: a message in a new window counts from one, a message over the
\* limit of its window is refused.
WithinLimit(c) ==
    \/ count' = [count EXCEPT ![c] = 1]
    \/ count[c] < MaxMessages /\ count' = [count EXCEPT ![c] = @ + 1]
OverLimit(c) == count[c] >= MaxMessages /\ UNCHANGED count

\* apply_scenario: the instance of the session is found, made, or refused at the cap.
Resolved(c, message) ==
    IF message = "governed" /\ Cardinality(registry) < MaxSessions
    THEN registry \cup {Key(c)} ELSE registry

\* One round of the loop; an answer that cannot be sent ends it.
Receive(c, message) ==
    /\ conn[c] = "open"
    /\ \/ WithinLimit(c) /\ registry' = Resolved(c, message)
       \/ OverLimit(c) /\ UNCHANGED registry
    /\ \/ UNCHANGED conn
       \/ conn' = [conn EXCEPT ![c] = "closing"]
    /\ UNCHANGED <<session, minted>>

\* The client closes, or receiving fails.
Disconnect(c) ==
    /\ conn[c] = "open"
    /\ conn' = [conn EXCEPT ![c] = "closing"]
    /\ UNCHANGED <<session, minted, count, registry>>

\* Faulty variant: a connection that is closed keeps its instance.
CloseWithoutRelease(c) ==
    /\ conn[c] = "closing"
    /\ conn' = [conn EXCEPT ![c] = "closed"]
    /\ UNCHANGED <<session, minted, count, registry>>

\* After the loop: release, then the task and its rate limiter are gone.
ReleaseSession(c) ==
    /\ conn[c] = "closing"
    /\ conn' = [conn EXCEPT ![c] = "closed"]
    /\ registry' = registry \ {Key(c)}
    /\ count' = [count EXCEPT ![c] = 0]
    /\ UNCHANGED <<session, minted>>

\* What a connection does once it is open.
Serve(c) ==
    \/ \E message \in {"plain", "governed"} : Receive(c, message)
    \/ Disconnect(c)
    \/ ReleaseSession(c)

WsTypeOK ==
    /\ conn \in [Conn -> {"new", "open", "closing", "closed"}]
    /\ DOMAIN session = Conn
    /\ minted \in Nat
    /\ count \in [Conn -> 0..MaxMessages]

Alive(c) == conn[c] \in {"open", "closing"}

\* Sessions do not leak: whatever occupies the cap belongs to a connection that is
\* still there, however connections end and whichever of them share a session.
NoLeak == registry \subseteq {Key(c) : c \in {x \in Conn : Alive(x)}}

\* A connection that names no session keeps its instance until it closes, unless a
\* client asked for that very session: other unnamed connections cannot drop it.
OwnSession ==
    [][\A c \in Conn :
         /\ session[c].by = "server" /\ Alive(c) /\ Alive(c)'
         /\ Key(c) \in registry /\ Key(c) \notin registry'
         => \E d \in Conn : /\ conn[d] = "closing" /\ conn'[d] = "closed"
                            /\ session[d] = Session(session[c].name, "client")]_wsVars

=============================================================================
