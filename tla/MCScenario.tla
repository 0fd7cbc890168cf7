----------------------------- MODULE MCScenario -----------------------------
(***************************************************************************)
(* Instances of ScenarioRuntime for TLC: a sidecar with two scenarios and  *)
(* the calls the threads of each run may make.                             *)
(***************************************************************************)
EXTENDS ScenarioRuntime, TLC

(* The sidecar.  "orders" is the flow under test: a resource is created,   *)
(* paid and dropped; "once" is a flow whose only step cannot be repeated.  *)

MCScenarios == <<"orders", "once">>

\* A message without an identifier, and one with.  The text of a whole message is told
\* apart from the identifiers in it.
Bare(shape) == [id |-> {}, text |-> {}, shape |-> shape]
Keyed(shape, id, text) == [id |-> {id}, text |-> {text}, shape |-> shape]

Stay == [target |-> {}, responses |-> <<>>]
To(s) == [target |-> {s}, responses |-> <<>>]
Fault(s) == [target |-> {s}, responses |-> 503 :> {Bare("fault")}]

\* No step leads to "closed".
Orders ==
    [initial |-> "empty",
     states |-> [empty  |-> [make |-> To("made"), whole |-> To("made"), list |-> Stay],
                 made   |-> [make |-> Stay, pay |-> Fault("paid"), drop |-> To("empty"), list |-> Stay],
                 paid   |-> [drop |-> To("empty"), put |-> Stay],
                 closed |-> [make |-> To("empty")]]]

Once ==
    [initial |-> "fresh",
     states |-> [fresh |-> [make |-> To("spent")], spent |-> [list |-> Stay]]]

MCMachine == [orders |-> Orders, once |-> Once]

Store(action, key, from) ==
    {[resource |-> <<"users", "{user}", "orders">>, action |-> action, key |-> key, keyFrom |-> from]}

In(location) == {[location |-> location, pointer |-> "/id"]}

Entry(name, route, store, responses) ==
    [name |-> name, route |-> route, store |-> store, responses |-> responses]

\* "audit" is in the catalogue and in no scenario; "shadow" has the route of
\* "make" and comes before it; "whole" keys what it creates by the whole request.
MCCatalogue == <<
    Entry("audit", "GET /audit", {}, <<>>),
    Entry("drop", "DELETE /o", Store("delete", {"{id}"}, {}), <<>>),
    Entry("list", "GET /o", Store("list", {}, {}), 200 :> {}),
    Entry("pay", "POST /pay", {}, <<>>),
    Entry("put", "PUT /o", Store("update", {}, In("request")), <<>>),
    Entry("a shadow", "POST /o", {}, <<>>),
    Entry("make", "POST /o", Store("create", {}, In("request")), 201 :> {} @@ UnparsedStatus :> {}),
    Entry("whole", "POST /w", Store("create", {}, {[location |-> "request", pointer |-> Whole]}), <<>>) >>

\* One item with an identifier, one filed under its index, which collides.
MCSeed == [orders |-> <<[resource |-> <<"users", "u7", "orders">>,
                         items |-> <<Keyed("seed", 1, 5), Bare("seed"), Keyed("seed", 0, 6)>>]>>,
           once |-> <<>>]

NoSeed == [orders |-> <<>>, once |-> <<>>]

-----------------------------------------------------------------------------
(* Calls *)

\* A resolve call of user 7's resource 1, with everything at its default.
Http(route, session) ==
    [op |-> "resolve", scenario |-> {}, session |-> session, route |-> route,
     params |-> "{user}" :> "u7" @@ "{id}" :> 1, request |-> {Keyed("request", 1, 8)},
     response |-> Keyed("response", 2, 9), protocol |-> "http",
     preferCode |-> FALSE, validated |-> TRUE]

\* The same over gRPC, where the generated response has its own id, and over WebSocket.
Unary(route, session) == ResolveGrpc(Http(route, session))
Channel(route, session) == ResolveChannel(Http(route, session), Scenarios[1])

ReleaseOf(session) == [op |-> "release", scenario |-> {}, session |-> session]
Reset == [op |-> "reset"]

\* A request that fails validation.
Invalid(session) == [Http("POST /o", session) EXCEPT !.validated = FALSE]

\* Two sessions that both threads share, one of them under two scenarios, over HTTP and
\* gRPC; the requests of one are refused or keyed as a whole, the other deletes and also
\* releases and resets.
SharedCalls ==
    LET once(c) == [c EXCEPT !.scenario = {"once"}]
        both == {Unary("POST /o", "s1"), once(Http("POST /o", "s2"))}
    IN [t \in Thread |->
          IF t = "t1" THEN both \cup {Unary("POST /w", "s1"), once(Invalid("s1"))}
          ELSE both \cup {Http("DELETE /o", "s1"), ReleaseOf("s1"), Reset}]

\* The threads are tests that run in parallel, each with a session of its own.
PrivateCalls == [t \in Thread |->
    IF t = "t1" THEN {Http("POST /o", "s1"), Http("GET /o", "s1"), Http("DELETE /o", "s1"),
                      Http("POST /pay", "s1"), Invalid("s1"), ReleaseOf("s1")}
    ELSE {Http("POST /o", "s2"), Http("DELETE /o", "s2")}]

\* One client that makes every kind of call.
LoneCalls == [t \in Thread |->
    PrivateCalls["t1"] \cup {Unary(r, "s2") : r \in {"POST /o", "PUT /o", "POST /w"}} \cup {Reset}
    \cup {Channel("POST /o", "s2"), Channel("GET /o", "s2")}
    \cup {Http(r, "s1") : r \in {"PUT /o", "GET /audit", "GET /nosuch"}}
    \cup {[Http("POST /o", "s1") EXCEPT !.preferCode = TRUE],
          [Http("POST /o", "s1") EXCEPT !.scenario = {"once"}],
          [Http("POST /o", "s1") EXCEPT !.scenario = {"nosuch"}],
          [Http("POST /o", "s1") EXCEPT !.request = {}]}]

\* One session that is never reset or released.
RacingCalls == [t \in Thread |-> {Http(r, "s1") : r \in {"POST /o", "POST /pay", "DELETE /o"}}]

=============================================================================
