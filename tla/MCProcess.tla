----------------------------- MODULE MCProcess -----------------------------
(***************************************************************************)
(* Process mode for TLC: three ports, and configurations that differ from  *)
(* a plain one in one or two fields, so that every argument is needed and  *)
(* every check of the child can fail.  Ports are left to be found where a  *)
(* loss of them matters, and are fixed where the child fails anyway.       *)
(***************************************************************************)
EXTENDS ProcessServer

Plain == [DefaultConfig EXCEPT !.openapi = "file"]
Fixed == [Plain EXCEPT !.http = 1, !.grpc = 2]
Proxied == [Fixed EXCEPT !.mode = "proxy", !.upstream = "http://127.0.0.1"]
Everything ==
    [openapi |-> "file", asyncapi |-> "file", proto |-> "file", mode |-> "proxy", upstream |-> "http://host",
     seed |-> 7, http |-> 1, grpc |-> 0, ws_path |-> "/other", max_body_size |-> 1, private |-> TRUE,
     scenarios |-> "file", max_sessions |-> 1, max_entries |-> 1, token |-> "of the caller"]

MCConfigs ==
    {Plain, Everything, [Everything EXCEPT !.mode = "mock"], [Fixed EXCEPT !.scenarios = "missing"],
     Proxied, [Proxied EXCEPT !.private = TRUE], [Proxied EXCEPT !.upstream = "none"],
     [Plain EXCEPT !.proto = "file"], [Plain EXCEPT !.proto = "file", !.http = 1, !.grpc = 1],
     Fixed, [Fixed EXCEPT !.openapi = "missing"], DefaultConfig,
     [Fixed EXCEPT !.max_body_size = 0], [Fixed EXCEPT !.ws_path = "ws"],
     [Fixed EXCEPT !.upstream = "ftp://host"]}

=============================================================================
