--------------------------- MODULE Configuration ---------------------------
(***************************************************************************)
(* The configuration of a server: its defaults and its validation          *)
(* (crates/specmock-runtime/src/lib.rs), its way from an SDK builder into  *)
(* the arguments of a process (crates/specmock-sdk/src/server.rs) and out  *)
(* of them again (bin/spec-mock/src/main.rs).                              *)
(*                                                                         *)
(* An optional field is "none" when it is absent.  A path is "file" or     *)
(* "missing"; an upstream URL is named for what validation tells apart;    *)
(* an address is its port, 0 for any; a token is named for who minted it.  *)
(***************************************************************************)
EXTENDS Integers, Sequences

\* ServerConfig::default.
DefaultConfig ==
    [openapi |-> "none", asyncapi |-> "none", proto |-> "none", mode |-> "mock", upstream |-> "none",
     seed |-> 42, http |-> 0, grpc |-> 0, ws_path |-> "/ws", max_body_size |-> 10, private |-> FALSE,
     scenarios |-> "none", max_sessions |-> 256, max_entries |-> 1024, token |-> "none"]

\* The values of its fields. A count, a size, a seed and a port are never negative.
Paths == {"none", "file", "missing"}
Upstreams ==
    {"none", "http://host", "http://127.0.0.1", "http://10.0.0.1", "http://169.254.0.1", "http://[::1]",
     "ftp://host", "not a url"}
ServerConfig ==
    [openapi : Paths, asyncapi : Paths, proto : Paths, mode : {"mock", "proxy"}, upstream : Upstreams,
     seed : Nat, http : Nat, grpc : Nat, ws_path : {"/ws", "/other", "ws"}, max_body_size : Nat,
     private : BOOLEAN, scenarios : Paths, max_sessions : Nat, max_entries : Nat,
     token : {"none", "of the caller", "of the child"}]

Specs == {"openapi", "asyncapi", "proto"}

\* is_private_ip, of an upstream whose host is an address and not a name.
IsPrivateIp(upstream) == upstream \in {"http://127.0.0.1", "http://10.0.0.1", "http://169.254.0.1", "http://[::1]"}

\* ServerConfig::validate.
Validates(config) ==
    /\ \E s \in Specs : config[s] # "none"
    /\ config.mode = "proxy" => config.upstream # "none"
    /\ config.upstream \notin {"ftp://host", "not a url"}
    /\ config.mode = "proxy" /\ ~config.private => ~IsPrivateIp(config.upstream)
    /\ config.http = config.grpc => config.http = 0
    /\ config.ws_path # "ws"
    /\ config.max_body_size # 0
    /\ \A s \in Specs : config[s] # "missing"

\* load_scenarios: a sidecar that is named must be there.
LoadsScenarios(config) == config.scenarios # "missing"

\* HttpRuntime::from_config_with, as far as the configuration decides it: an upstream for
\* a proxy, and no scenarios in front of it.
Builds(config) ==
    /\ config.mode = "proxy" => config.upstream # "none"
    /\ ~(config.mode = "proxy" /\ config.scenarios # "none")

\* A configuration that start accepts.
Startable(config) == Validates(config) /\ LoadsScenarios(config) /\ Builds(config)

-----------------------------------------------------------------------------
(* start_process_with_bin: a configuration as arguments *)

\* Every field as the option it is written to; the token itself is not one.
OptionValues(config) ==
    [openapi |-> config.openapi, asyncapi |-> config.asyncapi, proto |-> config.proto,
     mode |-> config.mode, upstream |-> config.upstream, seed |-> config.seed,
     http_addr |-> config.http, grpc_addr |-> config.grpc, ws_path |-> config.ws_path,
     max_body_size |-> config.max_body_size, allow_private_upstream |-> config.private,
     scenarios |-> config.scenarios, max_sessions |-> config.max_sessions,
     max_store_entries |-> config.max_entries, log_level |-> "info",
     no_control_endpoints |-> config.token = "none"]

\* The options that are not always written: those of an optional field, and the flags.
Omitted(config) ==
    {o \in {"openapi", "asyncapi", "proto", "upstream", "scenarios"} : OptionValues(config)[o] = "none"}
    \cup {o \in {"allow_private_upstream", "no_control_endpoints"} : ~OptionValues(config)[o]}

\* Faulty variant: the limits of scenarios stay behind.
ArgumentsWithoutLimits(config) ==
    [o \in DOMAIN OptionValues(config) \ (Omitted(config) \cup {"max_sessions", "max_store_entries"}) |->
        OptionValues(config)[o]]

Arguments(config) ==
    [o \in DOMAIN OptionValues(config) \ Omitted(config) |-> OptionValues(config)[o]]

-----------------------------------------------------------------------------
(* spec-mock serve: arguments as a configuration *)

ServeDefaults ==
    [openapi |-> "none", asyncapi |-> "none", proto |-> "none", mode |-> "mock", upstream |-> "none",
     seed |-> 42, http_addr |-> 4010, grpc_addr |-> 5010, ws_path |-> "/ws", max_body_size |-> 10,
     allow_private_upstream |-> FALSE, scenarios |-> "none", max_sessions |-> 256,
     max_store_entries |-> 1024, log_level |-> "info", no_control_endpoints |-> FALSE]

\* The arguments of the command line with their defaults.
ServeArgs(given) ==
    [o \in DOMAIN ServeDefaults |-> IF o \in DOMAIN given THEN given[o] ELSE ServeDefaults[o]]

\* required_if_eq: an upstream must be given with proxy mode.
Parses(given) == LET args == ServeArgs(given) IN args.mode = "proxy" => args.upstream # "none"

\* The builder calls of serve_command; control_endpoints mints a token of its own.
ServeConfig(given) ==
    LET args == ServeArgs(given) IN
    [openapi |-> args.openapi, asyncapi |-> args.asyncapi, proto |-> args.proto, mode |-> args.mode,
     upstream |-> args.upstream, seed |-> args.seed, http |-> args.http_addr, grpc |-> args.grpc_addr,
     ws_path |-> args.ws_path, max_body_size |-> args.max_body_size,
     private |-> args.allow_private_upstream, scenarios |-> args.scenarios,
     max_sessions |-> args.max_sessions, max_entries |-> args.max_store_entries,
     token |-> IF args.no_control_endpoints THEN "none" ELSE "of the child"]

=============================================================================
