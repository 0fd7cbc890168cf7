---------------------------- MODULE ServerProofs ----------------------------
(***************************************************************************)
(* What a stopped server has released and what a closed connection has     *)
(* given back, for any requests, connections, sessions and bounds.         *)
(***************************************************************************)
EXTENDS Server, TLAPS

\* A listener lives as long as its task accepts; nothing runs before start; tasks
\* are aborted by drop only; the owner has joined what it has passed; and an HTTP
\* task that is done was told to stop and has nothing left to answer.
LifeInv ==
    /\ task \in [Tasks -> Steps]
    /\ listening \subseteq Listeners
    /\ \A l \in Listeners : l \in listening <=> task[l] \in {"spawned", "serving"}
    /\ phase \in {"starting", "failed"} =>
          (\A t \in Tasks : task[t] = "none") /\ watcher = "none"
    /\ aborting # {} => phase = "dropped"
    /\ ~Proto => task["grpc"] = "none"
    /\ phase = "startingGrpc" => Proto
    /\ phase \in {"joinGrpc", "joinRelay", "stopped"} => task["http"] = "done"
    /\ phase \in {"joinRelay", "stopped"} => task["grpc"] \in {"none", "done"}
    /\ task["http"] \in {"draining", "done"} => watcher = "fired"
    /\ task["http"] = "done" => active = {}

LEMMA OwnerKeepsLifeInv == ASSUME LifeInv, Owner PROVE LifeInv'
<1>1. CASE StartFails
  BY <1>1 DEF LifeInv, StartFails, Tasks, Listeners, Steps
<1>2. CASE StartHttp
  BY <1>2, ProtoAssumption DEF LifeInv, StartHttp, Tasks, Listeners, Steps
<1>3. CASE StartGrpcFails
  BY <1>3 DEF LifeInv, StartGrpcFails, Tasks, Listeners, Steps
<1>4. CASE StartGrpc
  BY <1>4 DEF LifeInv, StartGrpc, Tasks, Listeners, Steps
<1>5. CASE StartRelay
  BY <1>5 DEF LifeInv, StartRelay, Tasks, Listeners, Steps
<1>6. CASE Shutdown
  BY <1>6 DEF LifeInv, Shutdown, Tasks, Listeners, Steps
<1>7. CASE JoinHttp
  BY <1>7, ProtoAssumption DEF LifeInv, JoinHttp, Join, Tasks, Listeners, Steps
<1>8. CASE JoinGrpc
  BY <1>8 DEF LifeInv, JoinGrpc, Join, Tasks, Listeners, Steps
<1>9. CASE JoinRelay
  BY <1>9 DEF LifeInv, JoinRelay, Join, Tasks, Listeners, Steps
<1>10. CASE DropServer
  BY <1>10 DEF LifeInv, DropServer, Tasks, Listeners, Steps
<1>. QED
  BY <1>1, <1>2, <1>3, <1>4, <1>5, <1>6, <1>7, <1>8, <1>9, <1>10 DEF Owner

LEMMA BackgroundKeepsLifeInv == ASSUME LifeInv, Background PROVE LifeInv'
<1>1. CASE Relay
  BY <1>1 DEF LifeInv, Relay, Tasks, Listeners, Steps
<1>2. CASE HttpServe
  BY <1>2 DEF LifeInv, HttpServe, Tasks, Listeners, Steps
<1>3. CASE Watch
  BY <1>3 DEF LifeInv, Watch, Tasks, Listeners, Steps
<1>4. CASE HttpDrain
  BY <1>4 DEF LifeInv, HttpDrain, Tasks, Listeners, Steps
<1>5. CASE HttpDone
  BY <1>5 DEF LifeInv, HttpDone, Tasks, Listeners, Steps
<1>6. CASE GrpcServe
  BY <1>6 DEF LifeInv, GrpcServe, Tasks, Listeners, Steps
<1>7. CASE GrpcDone
  BY <1>7 DEF LifeInv, GrpcDone, Tasks, Listeners, Steps
<1>8. ASSUME NEW t \in Tasks, Abort(t) PROVE LifeInv'
  BY <1>8 DEF LifeInv, Abort, Tasks, Listeners, Steps
<1>. QED
  BY <1>1, <1>2, <1>3, <1>4, <1>5, <1>6, <1>7, <1>8 DEF Background

LEMMA RequestsKeepLifeInv ==
    ASSUME LifeInv, NEW r, Accept(r) \/ Answer(r) PROVE LifeInv'
<1>1. CASE Accept(r)
  BY <1>1 DEF LifeInv, Accept, Tasks, Listeners, Steps
<1>2. CASE Answer(r)
  BY <1>2 DEF LifeInv, Answer, Tasks, Listeners, Steps
<1>. QED
  BY <1>1, <1>2

LEMMA LifeInvInductive == LifeInv /\ [Next]_vars => LifeInv'
<1>. SUFFICES ASSUME LifeInv, [Next]_vars PROVE LifeInv'
  OBVIOUS
<1>1. CASE Owner \/ Background
  BY <1>1, OwnerKeepsLifeInv, BackgroundKeepsLifeInv
<1>2. CASE UNCHANGED lifecycleVars
  BY <1>2 DEF lifecycleVars, LifeInv
<1>3. ASSUME NEW r, Accept(r) \/ Answer(r) PROVE LifeInv'
  BY <1>3, RequestsKeepLifeInv
<1>. QED
  BY <1>1, <1>2, <1>3 DEF Next, Arrive, Handling, Respond, Handshake, vars

\* For any requests and connections, with or without gRPC: when shutdown has
\* returned, both ports are free, no request was cut short and axum's watcher is
\* gone; a start that fails before its first bind leaves nothing behind.
THEOREM StoppedIsReleased == Spec => []Released
<1>1. Init => LifeInv
  BY DEF Init, LifecycleInit, LifeInv, Tasks, Listeners, Steps
<1>2. LifeInv => Released
  BY DEF LifeInv, Released, Tasks, Listeners
<1>. QED
  BY <1>1, <1>2, LifeInvInductive, PTL DEF Spec

-----------------------------------------------------------------------------
(* Connections *)

\* No two connections were given one name by the server.
UnnamedApart ==
    \A c, d \in {x \in Conn : conn[x] # "new"} :
        /\ session[c].by = "server" /\ session[d].by = "server"
        /\ session[c].name = session[d].name
        => c = d

\* Minted names come from below the counter.
WsInv ==
    /\ conn \in [Conn -> {"new", "open", "closing", "closed"}]
    /\ DOMAIN session = Conn /\ session = [c \in Conn |-> session[c]]
    /\ \A c \in Conn : /\ session[c] = Session(session[c].name, session[c].by)
                       /\ session[c].by \in {"client", "server"}
    /\ minted \in Nat
    /\ \A c \in Conn : conn[c] # "new" /\ session[c].by = "server" =>
          \E n \in Nat : n < minted /\ session[c].name = Minted(n)
    /\ UnnamedApart
    /\ NoLeak

LEMMA MintedDiffer == \A m, n : Minted(m) = Minted(n) => m = n
BY DEF Minted

LEMMA UpgradeKeepsWsInv ==
    ASSUME WsInv, NEW c \in Conn, NEW name, Upgrade(c, name) PROVE WsInv'
<1>1. /\ conn[c] = "new" /\ conn' = [conn EXCEPT ![c] = "open"]
      /\ registry' = registry
      /\ DOMAIN session' = Conn
      /\ session' = [d \in Conn |-> session'[d]]
      /\ \A d \in Conn \ {c} : session'[d] = session[d]
  BY DEF Upgrade, WsInv
<1>2. \A d \in Conn : Alive(d) => Alive(d)' /\ Key(d)' = Key(d)
  BY <1>1 DEF WsInv, Alive, Key
<1>3. NoLeak'
  BY <1>1, <1>2 DEF NoLeak, WsInv
<1>4. conn' \in [Conn -> {"new", "open", "closing", "closed"}] /\ \A d \in Conn \ {c} : conn'[d] = conn[d]
  BY <1>1 DEF WsInv
<1>5. \/ session'[c] = Session(Minted(minted), "server") /\ minted' = minted + 1
      \/ session'[c] = Session(name, "client") /\ minted' = minted
  BY DEF Upgrade, WsInv
<1>6. \A d \in Conn : /\ session'[d] = Session(session'[d].name, session'[d].by)
                      /\ session'[d].by \in {"client", "server"}
  BY <1>1, <1>5 DEF WsInv, Session
<1>7. \A d \in Conn \ {c} : conn[d] # "new" /\ session[d].by = "server" =>
          \E n \in Nat : n < minted /\ n < minted' /\ session'[d].name = Minted(n)
  BY <1>1, <1>5 DEF WsInv
<1>8. CASE session'[c] = Session(Minted(minted), "server") /\ minted' = minted + 1
  <2>1. session'[c].name = Minted(minted) /\ minted < minted' /\ minted' \in Nat
    BY <1>8 DEF Session, WsInv
  <2>2. \A d \in Conn \ {c} : conn[d] # "new" /\ session[d].by = "server" =>
            session'[d].name # session'[c].name
    <3>. SUFFICES ASSUME NEW d \in Conn \ {c}, conn[d] # "new", session[d].by = "server",
                         session'[d].name = session'[c].name
                  PROVE FALSE
      OBVIOUS
    <3>1. PICK n \in Nat : n < minted /\ session'[d].name = Minted(n)
      BY <1>7
    <3>2. n = minted
      BY <2>1, <3>1, MintedDiffer
    <3>. QED
      BY <3>1, <3>2 DEF WsInv
  <2>3. UnnamedApart'
    BY <1>1, <1>4, <2>2 DEF UnnamedApart, WsInv
  <2>4. \A d \in Conn : conn'[d] # "new" /\ session'[d].by = "server" =>
            \E n \in Nat : n < minted' /\ session'[d].name = Minted(n)
    BY <1>1, <1>4, <1>7, <2>1 DEF WsInv
  <2>. QED
    BY <1>1, <1>3, <1>4, <1>6, <2>1, <2>3, <2>4 DEF WsInv
<1>9. CASE session'[c] = Session(name, "client") /\ minted' = minted
  <2>1. session'[c].by # "server"
    BY <1>9 DEF Session
  <2>2. UnnamedApart'
    BY <1>1, <1>4, <2>1 DEF UnnamedApart, WsInv
  <2>3. \A d \in Conn : conn'[d] # "new" /\ session'[d].by = "server" =>
            \E n \in Nat : n < minted' /\ session'[d].name = Minted(n)
    BY <1>1, <1>4, <1>7, <2>1
  <2>. QED
    BY <1>1, <1>3, <1>4, <1>6, <1>9, <2>2, <2>3 DEF WsInv
<1>. QED
  BY <1>5, <1>8, <1>9

\* Once it is open, a connection changes neither sessions nor who has one.
LEMMA ServeKeepsWsInv == ASSUME WsInv, NEW c \in Conn, Serve(c) PROVE WsInv'
<1>1. /\ session' = session /\ minted' = minted
      /\ conn' \in [Conn -> {"new", "open", "closing", "closed"}]
      /\ \A d \in Conn : conn[d] = "new" <=> conn'[d] = "new"
  BY DEF Serve, Receive, Disconnect, ReleaseSession, WsInv
<1>2. UnnamedApart'
  BY <1>1 DEF UnnamedApart, WsInv
<1>3. \A d \in Conn : Key(d)' = Key(d)
  BY <1>1 DEF Key
<1>4. NoLeak'
  <2>1. ASSUME NEW message, Receive(c, message) PROVE NoLeak'
    <3>1. registry' \subseteq registry \cup {Key(c)}
      BY <2>1 DEF Receive, Resolved
    <3>2. Alive(c)' /\ \A d \in Conn : Alive(d) => Alive(d)'
      BY <2>1 DEF Receive, Alive, WsInv
    <3>. QED
      BY <1>3, <3>1, <3>2 DEF NoLeak, WsInv
  <2>2. CASE Disconnect(c)
    <3>1. registry' = registry /\ \A d \in Conn : Alive(d) => Alive(d)'
      BY <2>2 DEF Disconnect, Alive, WsInv
    <3>. QED
      BY <1>3, <3>1 DEF NoLeak, WsInv
  <2>3. CASE ReleaseSession(c)
    <3>1. registry' = registry \ {Key(c)} /\ \A d \in Conn \ {c} : Alive(d) => Alive(d)'
      BY <2>3 DEF ReleaseSession, Alive, WsInv
    <3>. QED
      BY <1>3, <3>1 DEF NoLeak, WsInv
  <2>. QED
    BY <2>1, <2>2, <2>3 DEF Serve
<1>. QED
  BY <1>1, <1>2, <1>4 DEF WsInv

LEMMA WsInvInductive == WsInv /\ [Next]_vars => WsInv'
<1>. SUFFICES ASSUME WsInv, [Next]_vars PROVE WsInv'
  OBVIOUS
<1>1. CASE UNCHANGED wsVars
  <2>1. UnnamedApart' /\ NoLeak'
    BY <1>1 DEF wsVars, WsInv, UnnamedApart, NoLeak, Key, Alive
  <2>. QED
    BY <1>1, <2>1 DEF wsVars, WsInv
<1>2. ASSUME NEW c \in Conn, NEW name, Upgrade(c, name) PROVE WsInv'
  BY <1>2, UpgradeKeepsWsInv
<1>3. ASSUME NEW c \in Conn, Serve(c) PROVE WsInv'
  BY <1>3, ServeKeepsWsInv
<1>. QED
  BY <1>1, <1>2, <1>3 DEF Next, Arrive, Handling, Respond, Handshake, vars

LEMMA WsInvInitially == Init => WsInv
<1>. SUFFICES ASSUME Init PROVE WsInv
  OBVIOUS
<1>1. /\ conn = [c \in Conn |-> "new"] /\ minted = 0 /\ registry = {}
      /\ session = [c \in Conn |-> Session(Unnamed, "client")]
  BY DEF Init, WsInit
<1>2. UnnamedApart /\ NoLeak
  BY <1>1 DEF UnnamedApart, NoLeak
<1>. QED
  BY <1>1, <1>2 DEF WsInv, Session

\* A step that takes the instance of a live unnamed connection from the registry is the
\* release of another connection, whose client asked for that session.
LEMMA OnlyNamersRelease ==
    ASSUME WsInv, [Next]_vars, NEW c \in Conn,
           session[c].by = "server", Alive(c), Alive(c)',
           Key(c) \in registry, Key(c) \notin registry'
    PROVE  \E d \in Conn : /\ conn[d] = "closing" /\ conn'[d] = "closed"
                           /\ session[d] = Session(session[c].name, "client")
<1>1. PICK d \in Conn : ReleaseSession(d)
  <2>1. ASSUME NEW d \in Conn, NEW name, Upgrade(d, name) PROVE FALSE
    BY <2>1 DEF Upgrade
  <2>2. ASSUME NEW d \in Conn, Disconnect(d) PROVE FALSE
    BY <2>2 DEF Disconnect
  <2>3. ASSUME NEW d \in Conn, NEW message, Receive(d, message) PROVE FALSE
    BY <2>3 DEF Receive, Resolved
  <2>4. ~UNCHANGED wsVars
    BY DEF wsVars
  <2>. QED
    BY <2>1, <2>2, <2>3, <2>4 DEF Next, Arrive, Handling, Respond, Handshake, Serve, vars
<1>2. conn[d] = "closing" /\ conn'[d] = "closed" /\ registry' = registry \ {Key(d)}
  BY <1>1 DEF ReleaseSession, WsInv
<1>3. c # d
  BY <1>2 DEF Alive
<1>4. session[c].name = session[d].name
  BY <1>2 DEF Key
<1>5. session[d].by # "server"
  BY <1>2, <1>3, <1>4 DEF WsInv, UnnamedApart, Alive
<1>6. session[d] = Session(session[c].name, "client")
  BY <1>4, <1>5 DEF WsInv
<1>. QED
  BY <1>2, <1>6

\* For any connections, named sessions and cap: a session that occupies the cap
\* belongs to a connection that is still there.
THEOREM SessionsDoNotLeak == Spec => []NoLeak
<1>1. WsInv => NoLeak
  BY DEF WsInv
<1>. QED
  BY <1>1, WsInvInitially, WsInvInductive, PTL DEF Spec

\* For any connections and names, the names the server mints among them: the instance of
\* a connection that names no session is dropped by its own close only, unless a client
\* asked for the name it was given.
THEOREM UnnamedIsAlone == Spec => OwnSession
<1>1. WsInv /\ [Next]_vars =>
        [\A c \in Conn :
           /\ session[c].by = "server" /\ Alive(c) /\ Alive(c)'
           /\ Key(c) \in registry /\ Key(c) \notin registry'
           => \E d \in Conn : /\ conn[d] = "closing" /\ conn'[d] = "closed"
                              /\ session[d] = Session(session[c].name, "client")]_wsVars
  BY OnlyNamersRelease
<1>. QED
  BY <1>1, WsInvInitially, WsInvInductive, PTL DEF Spec, OwnSession

-----------------------------------------------------------------------------
(* Types *)

LEMMA LifecycleTyped ==
    ASSUME LifecycleTypeOK, Owner \/ Background PROVE LifecycleTypeOK'
<1>. USE DEF LifecycleTypeOK, Tasks, Listeners, Steps, Phases
<1>1. CASE Owner
  <2>1. CASE StartFails
    BY <2>1 DEF StartFails
  <2>2. CASE StartHttp
    BY <2>2 DEF StartHttp
  <2>3. CASE StartGrpcFails
    BY <2>3 DEF StartGrpcFails
  <2>4. CASE StartGrpc
    BY <2>4 DEF StartGrpc
  <2>5. CASE StartRelay
    BY <2>5 DEF StartRelay
  <2>6. CASE Shutdown
    BY <2>6 DEF Shutdown
  <2>7. CASE JoinHttp \/ JoinGrpc \/ JoinRelay
    BY <2>7 DEF JoinHttp, JoinGrpc, JoinRelay, Join
  <2>8. CASE DropServer
    BY <2>8 DEF DropServer
  <2>. QED
    BY <1>1, <2>1, <2>2, <2>3, <2>4, <2>5, <2>6, <2>7, <2>8 DEF Owner
<1>2. CASE Background
  <2>1. CASE Relay
    BY <2>1 DEF Relay
  <2>2. CASE HttpServe
    BY <2>2 DEF HttpServe
  <2>3. CASE Watch
    BY <2>3 DEF Watch
  <2>4. CASE HttpDrain \/ HttpDone
    BY <2>4 DEF HttpDrain, HttpDone
  <2>5. CASE GrpcServe \/ GrpcDone
    BY <2>5 DEF GrpcServe, GrpcDone
  <2>6. ASSUME NEW t \in Tasks, Abort(t) PROVE LifecycleTypeOK'
    BY <2>6 DEF Abort
  <2>. QED
    BY <1>2, <2>1, <2>2, <2>3, <2>4, <2>5, <2>6 DEF Background
<1>. QED
  BY <1>1, <1>2

LEMMA RequestsTyped ==
    ASSUME LifecycleTypeOK, NEW r \in Request, Accept(r) \/ Answer(r) PROVE LifecycleTypeOK'
BY DEF LifecycleTypeOK, Accept, Answer

\* A limiter starts a window at one, and counts no further than the limit.
LEMMA ConnectionsTyped ==
    ASSUME WsTypeOK, NEW c \in Conn, Serve(c) \/ \E name \in Names : Upgrade(c, name)
    PROVE  WsTypeOK'
<1>1. ASSUME NEW message, Receive(c, message) PROVE WsTypeOK'
  <2>1. conn' \in [Conn -> {"new", "open", "closing", "closed"}] /\ session' = session /\ minted' = minted
    BY <1>1 DEF Receive, WsTypeOK
  <2>2. count' \in [Conn -> 0..MaxMessages]
    <3>1. CASE count' = [count EXCEPT ![c] = 1]
      BY <3>1, MaxMessagesAssumption DEF WsTypeOK
    <3>2. CASE count[c] < MaxMessages /\ count' = [count EXCEPT ![c] = @ + 1]
      BY <3>2, MaxMessagesAssumption DEF WsTypeOK
    <3>3. CASE count' = count
      BY <3>3 DEF WsTypeOK
    <3>. QED
      BY <1>1, <3>1, <3>2, <3>3 DEF Receive, WithinLimit, OverLimit
  <2>. QED
    BY <2>1, <2>2 DEF WsTypeOK
<1>2. CASE Disconnect(c)
  BY <1>2 DEF Disconnect, WsTypeOK
<1>3. CASE ReleaseSession(c)
  BY <1>3, MaxMessagesAssumption DEF ReleaseSession, WsTypeOK
<1>4. ASSUME NEW name, Upgrade(c, name) PROVE WsTypeOK'
  BY <1>4 DEF Upgrade, WsTypeOK
<1>. QED
  BY <1>1, <1>2, <1>3, <1>4 DEF Serve

\* For any requests, connections and rate limit: the server stays in its phases, what is
\* in progress are requests that clients sent, and no connection gets more messages
\* through in a window than the limit (RateLimiter::check_and_update).
THEOREM ServerTypes == Spec => []TypeOK
<1>1. Init => TypeOK
  <2>1. LifecycleInit => LifecycleTypeOK
    BY DEF LifecycleInit, LifecycleTypeOK, Tasks, Listeners, Steps, Phases
  <2>2. WsInit => WsTypeOK
    BY MaxMessagesAssumption DEF WsInit, WsTypeOK
  <2>. QED
    BY <2>1, <2>2 DEF Init, TypeOK
<1>2. TypeOK /\ [Next]_vars => TypeOK'
  <2>. SUFFICES ASSUME TypeOK, [Next]_vars PROVE TypeOK'
    OBVIOUS
  <2>1. LifecycleTypeOK'
    <3>1. CASE Owner \/ Background
      BY <3>1, LifecycleTyped DEF TypeOK
    <3>2. CASE UNCHANGED lifecycleVars
      BY <3>2 DEF TypeOK, lifecycleVars, LifecycleTypeOK
    <3>3. ASSUME NEW r \in Request, Accept(r) \/ Answer(r) PROVE LifecycleTypeOK'
      BY <3>3, RequestsTyped DEF TypeOK
    <3>. QED
      BY <3>1, <3>2, <3>3, HandshakeAssumption DEF Next, Arrive, Handling, Respond, Handshake, vars
  <2>2. WsTypeOK'
    <3>1. CASE UNCHANGED wsVars
      BY <3>1 DEF TypeOK, wsVars, WsTypeOK
    <3>2. ASSUME NEW c \in Conn, Serve(c) \/ \E name \in Names : Upgrade(c, name) PROVE WsTypeOK'
      BY <3>2, ConnectionsTyped DEF TypeOK
    <3>. QED
      BY <3>1, <3>2 DEF Next, Arrive, Handling, Respond, Handshake, vars
  <2>. QED
    BY <2>1, <2>2 DEF TypeOK
<1>. QED
  BY <1>1, <1>2, PTL DEF Spec

=============================================================================
