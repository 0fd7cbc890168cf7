--------------------------- MODULE ProcessProofs ---------------------------
(***************************************************************************)
(* Proofs about a server in a process of its own, for every set of ports   *)
(* and every set of configurations: what the child serves is what the      *)
(* builder was given, and what start calls ready is it.                    *)
(***************************************************************************)
EXTENDS ProcessServer, TLAPS

(* The way of a configuration through the arguments of a process *)

\* The command line reads back every option that start_process_with_bin writes, and its
\* default for an option that is left out is the value that made it be left out.
LEMMA ArgumentsReadBack ==
  ASSUME NEW c \in ServerConfig
  PROVE  ServeArgs(Arguments(c)) = OptionValues(c)
<1> DEFINE args == Arguments(c)
<1> DEFINE v == OptionValues(c)
<1>1. ASSUME NEW o \in DOMAIN v, o \notin Omitted(c) PROVE o \in DOMAIN args /\ args[o] = v[o]
  BY <1>1 DEF Arguments
<1>2. DOMAIN args = DOMAIN v \ Omitted(c)
  BY DEF Arguments
<1>3. DOMAIN v = DOMAIN ServeDefaults
  BY DEF OptionValues, ServeDefaults
<1>4. ASSUME NEW o \in Omitted(c) PROVE v[o] = ServeDefaults[o]
  <2>1. CASE o \in {"openapi", "asyncapi", "proto", "upstream", "scenarios"}
    BY <1>4, <2>1 DEF Omitted, OptionValues, ServeDefaults
  <2>2. CASE o \in {"allow_private_upstream", "no_control_endpoints"}
    <3>1. c.private \in BOOLEAN /\ (c.token = "none") \in BOOLEAN
      BY DEF ServerConfig
    <3>2. v["allow_private_upstream"] = c.private /\ v["no_control_endpoints"] = (c.token = "none")
      BY DEF OptionValues
    <3>3. v[o] = FALSE
      BY <1>4, <2>2, <3>1, <3>2, Zenon DEF Omitted
    <3>4. ServeDefaults[o] = FALSE
      BY <2>2 DEF ServeDefaults
    <3> QED BY <3>3, <3>4
  <2> QED BY <1>4, <2>1, <2>2 DEF Omitted
<1>5. ServeArgs(args) = [o \in DOMAIN v |-> v[o]]
  BY <1>1, <1>2, <1>3, <1>4 DEF ServeArgs
<1>6. v = [o \in DOMAIN v |-> v[o]]
  BY DEF OptionValues
<1> QED BY <1>5, <1>6

\* A configuration survives the way into the arguments and out of them, but for the
\* token, which the child mints anew exactly if there was one.
LEMMA ConfigReadBack ==
  ASSUME NEW c \in ServerConfig
  PROVE  /\ ServeConfig(Arguments(c)) = [c EXCEPT !.token = ServeConfig(Arguments(c)).token]
         /\ ServeConfig(Arguments(c)).token = "none" <=> c.token = "none"
         /\ ServeConfig(Arguments(c)) \in ServerConfig
<1> DEFINE args == OptionValues(c)
<1> DEFINE minted == IF c.token = "none" THEN "none" ELSE "of the child"
<1>1. ServeArgs(Arguments(c)) = args
  BY ArgumentsReadBack
<1>2. (IF args.no_control_endpoints THEN "none" ELSE "of the child") = minted
  <2>1. args.no_control_endpoints = (c.token = "none")
    BY DEF OptionValues
  <2> QED BY <2>1, Zenon
<1>3. ServeConfig(Arguments(c)) =
        [openapi |-> args.openapi, asyncapi |-> args.asyncapi, proto |-> args.proto, mode |-> args.mode,
         upstream |-> args.upstream, seed |-> args.seed, http |-> args.http_addr, grpc |-> args.grpc_addr,
         ws_path |-> args.ws_path, max_body_size |-> args.max_body_size,
         private |-> args.allow_private_upstream, scenarios |-> args.scenarios,
         max_sessions |-> args.max_sessions, max_entries |-> args.max_store_entries, token |-> minted]
  BY <1>1, <1>2, Zenon DEF ServeConfig
<1>4. ServeConfig(Arguments(c)) =
        [openapi |-> c.openapi, asyncapi |-> c.asyncapi, proto |-> c.proto, mode |-> c.mode,
         upstream |-> c.upstream, seed |-> c.seed, http |-> c.http, grpc |-> c.grpc, ws_path |-> c.ws_path,
         max_body_size |-> c.max_body_size, private |-> c.private, scenarios |-> c.scenarios,
         max_sessions |-> c.max_sessions, max_entries |-> c.max_entries, token |-> minted]
  <2> HIDE DEF minted
  <2> QED BY <1>3 DEF OptionValues
<1>5. minted \in {"none", "of the child"} /\ (minted = "none" <=> c.token = "none")
  OBVIOUS
<1> HIDE DEF minted
<1>6. c = [openapi |-> c.openapi, asyncapi |-> c.asyncapi, proto |-> c.proto, mode |-> c.mode,
         upstream |-> c.upstream, seed |-> c.seed, http |-> c.http, grpc |-> c.grpc, ws_path |-> c.ws_path,
         max_body_size |-> c.max_body_size, private |-> c.private, scenarios |-> c.scenarios,
         max_sessions |-> c.max_sessions, max_entries |-> c.max_entries, token |-> c.token]
  BY DEF ServerConfig
<1>7. minted \in {"none", "of the caller", "of the child"}
  BY <1>5
<1>8. ServeConfig(Arguments(c)) = [c EXCEPT !.token = minted]
  BY <1>4, <1>6
<1>9. [c EXCEPT !.token = minted] \in ServerConfig /\ [c EXCEPT !.token = minted].token = minted
  BY <1>7 DEF ServerConfig
<1> QED BY <1>5, <1>8, <1>9

\* Whether start accepts a configuration does not depend on the token.
LEMMA StartableWithoutToken ==
  ASSUME NEW c \in ServerConfig, NEW t
  PROVE  Startable([c EXCEPT !.token = t]) <=> Startable(c)
<1> DEFINE d == [c EXCEPT !.token = t]
<1>1. /\ \A s \in Specs : d[s] = c[s]
      /\ d.mode = c.mode /\ d.upstream = c.upstream /\ d.http = c.http /\ d.grpc = c.grpc
      /\ d.ws_path = c.ws_path /\ d.max_body_size = c.max_body_size /\ d.scenarios = c.scenarios
  BY DEF ServerConfig, Specs
<1>2. d.private = c.private
  BY DEF ServerConfig
<1> HIDE DEF d
<1>3. (\E s \in Specs : d[s] # "none") <=> (\E s \in Specs : c[s] # "none")
  BY <1>1, Zenon
<1>4. (\A s \in Specs : d[s] # "missing") <=> (\A s \in Specs : c[s] # "missing")
  BY <1>1, Zenon
<1>5. Validates(d) <=> Validates(c)
  BY <1>1, <1>2, <1>3, <1>4, Zenon DEF Validates
<1>6. LoadsScenarios(d) <=> LoadsScenarios(c)
  BY <1>1, Zenon DEF LoadsScenarios
<1>7. Builds(d) <=> Builds(c)
  BY <1>1, Zenon DEF Builds
<1> QED BY <1>5, <1>6, <1>7, Zenon DEF Startable, d

-----------------------------------------------------------------------------
(* The inductive invariant *)

ProcessTypeOK ==
    /\ config \in ServerConfig
    /\ caller \in {"idle", "resolve http", "resolve grpc", "spawn", "check", "connect", "sleep",
                   "started", "failed", "cancelled", "waiting", "stopped"}
    /\ target \in Awaited
    /\ answered \in [Awaited -> {"nobody", "child", "other"}]
    /\ child.state \in {"none", "new", "parsed", "http bound", "serving", "exited"}
    /\ child = [state |-> child.state, args |-> child.args, config |-> child.config, held |-> child.held]
    /\ foreign \subseteq taken

\* The child is spawned last, with the configuration as it then is.
SpawnedAsConfigured ==
    /\ caller \in {"idle", "resolve http", "resolve grpc", "spawn"} => child = NoChild /\ target = "http"
    /\ child.state = "new" => child.args = Arguments(config)
    /\ child.state \in {"parsed", "http bound", "serving"} => child.config \in ServerConfig

\* A child that holds a port serves a configuration that can be served.
HoldsIfStartable ==
    /\ child.held # {} => child.state \in {"http bound", "serving"}
    /\ child.state \in {"http bound", "serving"} => Startable(config)

\* A listener that was accepted for.
Accepted(l) ==
    /\ answered[l] # "nobody"
    /\ config[l] \notin taken => answered[l] = "child" /\ Startable(config)

\* The listeners are waited for in turn.
AcceptedInTurn ==
    /\ caller \in {"check", "connect", "sleep"} /\ target = "grpc" => Accepted("http")
    /\ caller = "started" => Accepted("http") /\ (config.proto # "none" => Accepted("grpc"))

ProcessInv ==
    ProcessTypeOK /\ SpawnedAsConfigured /\ ChildAsConfigured /\ HoldsIfStartable /\ AcceptedInTurn

-----------------------------------------------------------------------------
(* The caller *)

\* Before the child is spawned only the type of the configuration matters.
LEMMA ResolveKeeps ==
  ASSUME ProcessInv, NEW l \in Awaited,
         NEW at \in {"resolve http", "resolve grpc"}, NEW next \in {"resolve grpc", "spawn"},
         Resolve(l, at, next)
  PROVE  ProcessInv'
<1>1. config' \in ServerConfig
  <2>1. ASSUME NEW p \in Ports, config' = [config EXCEPT ![l] = p] PROVE config' \in ServerConfig
    <3>1. CASE l = "http"
      BY <2>1, <3>1, PortsAssumption DEF ProcessInv, ProcessTypeOK, ServerConfig
    <3>2. CASE l = "grpc"
      BY <2>1, <3>2, PortsAssumption DEF ProcessInv, ProcessTypeOK, ServerConfig
    <3> QED BY <3>1, <3>2 DEF Awaited
  <2> QED BY <2>1 DEF Resolve, ProcessInv, ProcessTypeOK
<1>2. caller' \in {"resolve grpc", "spawn", "failed"} /\ child' = NoChild /\ target' = "http"
  BY DEF Resolve, ProcessInv, SpawnedAsConfigured
<1>3. NoChild.state = "none" /\ NoChild.held = {}
  BY DEF NoChild
<1>4. ProcessTypeOK'
  BY <1>1, <1>2 DEF Resolve, ProcessInv, ProcessTypeOK
<1> QED BY <1>1, <1>2, <1>3, <1>4
    DEF ProcessInv, SpawnedAsConfigured, ChildAsConfigured, HoldsIfStartable, AcceptedInTurn

\* What the invariant says of the child, and what was accepted, survive any step that
\* leaves them, the configuration and the ports of others alone.
LEMMA CallerMoves ==
  ASSUME ProcessInv,
         caller \notin {"idle", "resolve http", "resolve grpc", "spawn"},
         caller' \in {"check", "connect", "sleep", "failed", "cancelled", "waiting", "stopped"},
         caller' \in {"check", "connect", "sleep"} => caller \in {"check", "connect", "sleep"},
         UNCHANGED <<config, target, answered, child, foreign, taken>>
  PROVE  ProcessInv'
<1>1. ProcessTypeOK'
  BY DEF ProcessInv, ProcessTypeOK
<1>2. SpawnedAsConfigured'
  BY DEF ProcessInv, SpawnedAsConfigured
<1>3. ChildAsConfigured' /\ HoldsIfStartable'
  BY DEF ProcessInv, ChildAsConfigured, HoldsIfStartable
<1>4. AcceptedInTurn'
  BY DEF ProcessInv, AcceptedInTurn, Accepted
<1> QED BY <1>1, <1>2, <1>3, <1>4 DEF ProcessInv

\* The child is spawned with the arguments of the configuration, or not at all.
LEMMA SpawnKeeps ==
  ASSUME ProcessInv, Spawn
  PROVE  ProcessInv'
<1>1. /\ UNCHANGED <<config, target, answered, foreign, taken>>
      /\ caller' \in {"check", "failed"} /\ target = "http"
      /\ child' = NoChild \/ child' = [NoChild EXCEPT !.state = "new", !.args = Arguments(config)]
  BY DEF Spawn, ProcessInv, SpawnedAsConfigured
<1>2. /\ child'.state \in {"none", "new"} /\ child'.held = {}
      /\ child'.state = "new" => child'.args = Arguments(config)
      /\ child' = [state |-> child'.state, args |-> child'.args, config |-> child'.config, held |-> child'.held]
  <2>1. CASE child' = NoChild
    BY <2>1 DEF NoChild
  <2>2. CASE child' = [NoChild EXCEPT !.state = "new", !.args = Arguments(config)]
    <3>1. child' = [state |-> "new", args |-> Arguments(config), config |-> DefaultConfig, held |-> {}]
      BY <2>2, Zenon DEF NoChild
    <3> QED BY <3>1
  <2> QED BY <1>1, <2>1, <2>2
<1>3. ProcessTypeOK'
  BY <1>1, <1>2 DEF ProcessInv, ProcessTypeOK
<1> QED BY <1>1, <1>2, <1>3
    DEF ProcessInv, SpawnedAsConfigured, ChildAsConfigured, HoldsIfStartable, AcceptedInTurn

\* Who accepts a connection to a port that no other process has had is the child, which
\* then serves a configuration that can be served.
LEMMA ConnectKeeps ==
  ASSUME ProcessInv, Connect
  PROVE  ProcessInv'
<1>1. /\ caller = "connect" /\ target \in Awaited
      /\ answered' = [answered EXCEPT ![target] = IF config[target] \in child.held THEN "child" ELSE "other"]
      /\ answered \in [Awaited -> {"nobody", "child", "other"}]
      /\ UNCHANGED <<config, child, foreign, taken>>
  BY DEF Connect, Connected, ProcessInv, ProcessTypeOK
<1>2. /\ answered' \in [Awaited -> {"nobody", "child", "other"}]
      /\ answered'[target] = IF config[target] \in child.held THEN "child" ELSE "other"
      /\ \A l \in Awaited \ {target} : answered'[l] = answered[l]
  BY <1>1
<1>3. config[target] \notin taken => config[target] \in child.held
  BY DEF Connect, ProcessInv, ProcessTypeOK
<1>4. child.held # {} => Startable(config)
  BY DEF ProcessInv, HoldsIfStartable
<1> DEFINE Good(l) == /\ answered'[l] # "nobody"
                      /\ config[l] \notin taken => answered'[l] = "child" /\ Startable(config)
<1>5. Good(target)
  BY <1>2, <1>3, <1>4
<1>6. \A l \in Awaited : Good(l) => Accepted(l)'
  BY <1>1 DEF Accepted
<1>7. Accepted("http") /\ target = "grpc" => Good("http")
  BY <1>2 DEF Accepted, Awaited
<1>8. target = "grpc" => Good("http") /\ Good("grpc")
  BY <1>1, <1>5, <1>7 DEF ProcessInv, AcceptedInTurn
<1> HIDE DEF Good
<1>9. AcceptedInTurn'
  <2>1. CASE target = "http" /\ config.proto # "none"
    BY <1>1, <1>5, <1>6, <2>1 DEF Connect, Connected, AcceptedInTurn, Awaited
  <2>2. CASE ~(target = "http" /\ config.proto # "none")
    <3>1. caller' = "started" /\ target' = target
      BY <2>2 DEF Connect, Connected
    <3> QED BY <1>1, <1>5, <1>6, <1>8, <2>2, <3>1 DEF AcceptedInTurn, Awaited
  <2> QED BY <2>1, <2>2
<1>10. ProcessTypeOK'
  BY <1>1, <1>2 DEF ProcessInv, ProcessTypeOK, Connect, Connected, Awaited
<1>11. SpawnedAsConfigured'
  BY <1>1 DEF ProcessInv, SpawnedAsConfigured, Connect, Connected
<1>12. ChildAsConfigured' /\ HoldsIfStartable'
  BY <1>1 DEF ProcessInv, ChildAsConfigured, HoldsIfStartable
<1> QED BY <1>9, <1>10, <1>11, <1>12 DEF ProcessInv

-----------------------------------------------------------------------------
(* The child *)

\* An exit leaves no port behind.
LEMMA ExitKeeps ==
  ASSUME ProcessInv, child.state # "none", Exit, UNCHANGED <<startVars, foreign, taken>>
  PROVE  ProcessInv'
<1>1. child'.state = "exited" /\ child'.held = {} /\ child'.args = child.args /\ child'.config = child.config
  BY DEF Exit, ProcessInv, ProcessTypeOK
<1>2. child' = [state |-> child'.state, args |-> child'.args, config |-> child'.config, held |-> child'.held]
  BY DEF Exit, ProcessInv, ProcessTypeOK
<1>3. child # NoChild
  <2>1. NoChild.state = "none"
    BY DEF NoChild
  <2> QED BY <2>1
<1>4. ProcessTypeOK'
  BY <1>1, <1>2 DEF ProcessInv, ProcessTypeOK, startVars
<1>5. AcceptedInTurn'
  BY DEF ProcessInv, AcceptedInTurn, Accepted, startVars
<1> QED BY <1>1, <1>3, <1>4, <1>5
    DEF ProcessInv, SpawnedAsConfigured, ChildAsConfigured, HoldsIfStartable, startVars

\* A child that goes on, from a configuration as configured.
LEMMA ChildMoves ==
  ASSUME ProcessInv, child.state # "none", UNCHANGED <<startVars, foreign, taken>>,
         NEW s \in {"parsed", "http bound", "serving"}, NEW c \in ServerConfig, NEW h,
         child' = [child EXCEPT !.state = s, !.config = c, !.held = h],
         c = [config EXCEPT !.token = c.token],
         c.token = "none" <=> config.token = "none",
         h # {} => s \in {"http bound", "serving"},
         s \in {"http bound", "serving"} => Startable(config)
  PROVE  ProcessInv'
<1>1. child'.state = s /\ child'.held = h /\ child'.args = child.args /\ child'.config = c
  BY DEF ProcessInv, ProcessTypeOK
<1>2. child' = [state |-> child'.state, args |-> child'.args, config |-> child'.config, held |-> child'.held]
  BY DEF ProcessInv, ProcessTypeOK
<1>3. child # NoChild
  <2>1. NoChild.state = "none"
    BY DEF NoChild
  <2> QED BY <2>1
<1>4. ProcessTypeOK'
  BY <1>1, <1>2 DEF ProcessInv, ProcessTypeOK, startVars
<1>5. AcceptedInTurn'
  BY DEF ProcessInv, AcceptedInTurn, Accepted, startVars
<1> QED BY <1>1, <1>3, <1>4, <1>5
    DEF ProcessInv, SpawnedAsConfigured, ChildAsConfigured, HoldsIfStartable, startVars

\* The arguments are read back into the configuration they were written from.
LEMMA ParseKeeps ==
  ASSUME ProcessInv, ChildParse, UNCHANGED <<startVars, foreign, taken>>
  PROVE  ProcessInv'
<1>1. CASE Exit
  BY <1>1, ExitKeeps DEF ChildParse
<1>2. CASE child' = [child EXCEPT !.state = "parsed", !.config = ServeConfig(child.args)]
  <2> DEFINE c == ServeConfig(child.args)
  <2>1. child.state = "new" /\ child.args = Arguments(config) /\ config \in ServerConfig
    BY DEF ChildParse, ProcessInv, SpawnedAsConfigured, ProcessTypeOK
  <2>2. c = [config EXCEPT !.token = c.token] /\ (c.token = "none" <=> config.token = "none") /\ c \in ServerConfig
    BY <2>1, ConfigReadBack
  <2>3. child.held = {}
    BY <2>1 DEF ProcessInv, HoldsIfStartable
  <2>4. child' = [child EXCEPT !.state = "parsed", !.config = c, !.held = {}]
    BY <1>2, <2>3 DEF ProcessInv, ProcessTypeOK
  <2> HIDE DEF c
  <2> QED BY <2>1, <2>2, <2>4, ChildMoves
<1> QED BY <1>1, <1>2 DEF ChildParse

\* A listener is bound only after the configuration was found to be in order.
LEMMA BindKeeps ==
  ASSUME ProcessInv, UNCHANGED <<startVars, foreign, taken>>,
         child.state \in {"parsed", "http bound"}, Startable(config),
         NEW l, NEW next \in {"http bound", "serving"}, Bind(l, next)
  PROVE  ProcessInv'
<1>1. CASE Exit
  BY <1>1, ExitKeeps
<1>2. CASE child' = [child EXCEPT !.state = next, !.held = @ \cup {child.config[l]}]
  <2> DEFINE h == child.held \cup {child.config[l]}
  <2>1. child' = [child EXCEPT !.state = next, !.config = child.config, !.held = h]
    BY <1>2 DEF ProcessInv, ProcessTypeOK
  <2>2. /\ child.config \in ServerConfig
        /\ child.config = [config EXCEPT !.token = child.config.token]
        /\ child.config.token = "none" <=> config.token = "none"
    BY DEF ProcessInv, SpawnedAsConfigured, ChildAsConfigured
  <2> HIDE DEF h
  <2> QED BY <2>1, <2>2, ChildMoves
<1> QED BY <1>1, <1>2 DEF Bind

\* Every step of the child keeps the invariant.
LEMMA ChildKeeps ==
  ASSUME ProcessInv, ChildStep, UNCHANGED <<startVars, foreign, taken>>
  PROVE  ProcessInv'
<1>1. CASE ChildParse
  BY <1>1, ParseKeeps
<1>2. CASE Exit /\ child.state # "none"
  BY <1>2, ExitKeeps
<1>3. ASSUME child.state \in {"parsed", "http bound"}, Startable(child.config)
      PROVE  Startable(config)
  <2>1. config \in ServerConfig /\ child.config = [config EXCEPT !.token = child.config.token]
    BY <1>3 DEF ProcessInv, ProcessTypeOK, ChildAsConfigured
  <2> QED BY <1>3, <2>1, StartableWithoutToken
<1>4. CASE ChildStart
  BY <1>2, <1>3, <1>4, BindKeeps DEF ChildStart
<1>5. CASE ChildStartGrpc
  <2>1. child.state = "http bound" /\ Startable(config)
    BY <1>5 DEF ChildStartGrpc, ProcessInv, HoldsIfStartable
  <2>2. CASE Bind("grpc", "serving")
    BY <2>1, <2>2, BindKeeps
  <2>3. CASE child' = [child EXCEPT !.state = "serving"]
    <3>1. child' = [child EXCEPT !.state = "serving", !.config = child.config, !.held = child.held]
      BY <2>3 DEF ProcessInv, ProcessTypeOK
    <3>2. /\ child.config \in ServerConfig
          /\ child.config = [config EXCEPT !.token = child.config.token]
          /\ child.config.token = "none" <=> config.token = "none"
      BY <2>1 DEF ProcessInv, SpawnedAsConfigured, ChildAsConfigured
    <3> QED BY <2>1, <3>1, <3>2, ChildMoves
  <2> QED BY <1>2, <1>5, <2>1, <2>2, <2>3 DEF ChildStartGrpc
<1>6. CASE ChildInterrupted \/ ChildKilled
  BY <1>2, <1>6 DEF ChildInterrupted, ChildKilled
<1> QED BY <1>1, <1>4, <1>5, <1>6 DEF ChildStep

-----------------------------------------------------------------------------
(* The theorems *)

\* Every reachable state satisfies the inductive invariant: the steps of the caller, of
\* the child and of other processes keep it.
THEOREM ProcessInvariant == ProcessSpec => []ProcessInv
<1>1. ProcessInit => ProcessInv
  <2>1. ASSUME ProcessInit PROVE ProcessInv
    <3>1. /\ NoChild.state = "none" /\ NoChild.held = {}
          /\ NoChild = [state |-> NoChild.state, args |-> NoChild.args, config |-> NoChild.config,
                       held |-> NoChild.held]
      BY DEF NoChild
    <3> QED BY <2>1, <3>1, ConfigsAssumption
        DEF ProcessInit, ProcessInv, ProcessTypeOK, SpawnedAsConfigured, ChildAsConfigured,
            HoldsIfStartable, AcceptedInTurn, Awaited
  <2> QED BY <2>1
<1>2. ProcessInv /\ [ProcessNext]_processVars => ProcessInv'
  <2> SUFFICES ASSUME ProcessInv, [ProcessNext]_processVars PROVE ProcessInv'
    OBVIOUS
  <2>1. CASE CallStart
    <3>1. child.state = "none" /\ child.held = {}
      <4>1. NoChild.state = "none" /\ NoChild.held = {}
        BY DEF NoChild
      <4> QED BY <2>1, <4>1 DEF CallStart, ProcessInv, SpawnedAsConfigured
    <3> QED BY <2>1, <3>1
        DEF CallStart, ProcessInv, ProcessTypeOK, SpawnedAsConfigured, ChildAsConfigured,
            HoldsIfStartable, AcceptedInTurn
  <2>2. CASE Resolve("http", "resolve http", "resolve grpc") \/ Resolve("grpc", "resolve grpc", "spawn")
    <3>1. "http" \in Awaited /\ "grpc" \in Awaited
      BY DEF Awaited
    <3>2. CASE Resolve("http", "resolve http", "resolve grpc")
      BY <3>1, <3>2, ResolveKeeps
    <3>3. CASE Resolve("grpc", "resolve grpc", "spawn")
      BY <3>1, <3>3, ResolveKeeps
    <3> QED BY <2>2, <3>2, <3>3
  <2>3. CASE Spawn
    BY <2>3, SpawnKeeps
  <2>4. CASE Check \/ Refused \/ Sleep \/ Wait \/ Cancel \/ ShutdownProcess
    <3>1. /\ UNCHANGED <<config, target, answered, child, foreign, taken>>
          /\ caller \notin {"idle", "resolve http", "resolve grpc", "spawn"}
          /\ caller' \in {"check", "connect", "sleep", "failed", "cancelled", "waiting", "stopped"}
          /\ caller' \in {"check", "connect", "sleep"} => caller \in {"check", "connect", "sleep"}
      BY <2>4 DEF Check, Refused, Sleep, Wait, Cancel, ShutdownProcess, Abandon
    <3> QED BY <3>1, CallerMoves
  <2>5. CASE Connect
    BY <2>5, ConnectKeeps
  <2>6. CASE Deadline
    BY <2>6, CallerMoves DEF Deadline
  <2>7. CASE ChildStep /\ UNCHANGED <<startVars, foreign, taken>>
    BY <2>7, ChildKeeps
  <2>8. CASE (\E p \in Ports : Take(p) \/ Release(p)) /\ UNCHANGED <<startVars, child>>
    <3>1. foreign' \subseteq taken' /\ taken \subseteq taken'
      BY <2>8 DEF Take, Release, ProcessInv, ProcessTypeOK
    <3> QED BY <2>8, <3>1
        DEF startVars, ProcessInv, ProcessTypeOK, SpawnedAsConfigured, ChildAsConfigured,
            HoldsIfStartable, AcceptedInTurn, Accepted
  <2>9. CASE UNCHANGED processVars
    BY <2>9
        DEF processVars, ProcessInv, ProcessTypeOK, SpawnedAsConfigured, ChildAsConfigured,
            HoldsIfStartable, AcceptedInTurn, Accepted
  <2> QED BY <2>1, <2>2, <2>3, <2>4, <2>5, <2>6, <2>7, <2>8, <2>9 DEF ProcessNext, CallerStep
<1> QED BY <1>1, <1>2, PTL DEF ProcessSpec

\* start_process_with_bin and serve: for any configuration the builder can make, the child
\* serves it in every field, and has control endpoints exactly if the builder has.
THEOREM ChildServesTheConfig == ProcessSpec => []ChildAsConfigured
<1>1. ProcessInv => ChildAsConfigured
  BY DEF ProcessInv
<1> QED BY <1>1, ProcessInvariant, PTL

\* wait_for_tcp_ready: for any ports and whatever other processes do with them, a handle is
\* returned only if each listener was accepted for, and by the child unless the port was
\* in other hands.
THEOREM ReadyMeansOurs == ProcessSpec => []ReadyIsOurs
<1>1. ProcessInv => ReadyIsOurs
  BY DEF ProcessInv, AcceptedInTurn, Accepted, ReadyIsOurs, Awaited
<1> QED BY <1>1, ProcessInvariant, PTL

=============================================================================
