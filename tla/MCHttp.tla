------------------------------ MODULE MCHttp ------------------------------
(***************************************************************************)
(* HTTP requests for TLC: one family of cases for each decision that a     *)
(* request passes.                                                         *)
(***************************************************************************)
EXTENDS HttpHandler

Json == "application/json"
Text == "text/plain"

Entry(type, schema) == [type |-> type, example |-> FALSE, names |-> {}, schema |-> schema]
Illustrated(type) == [type |-> type, example |-> TRUE, names |-> {"n"}, schema |-> "none"]
Response(status, content) == [status |-> status, content |-> content]

Op == [method |-> "GET", template |-> <<Literal("a")>>, media |-> <<>>, schema |-> FALSE,
       required |-> FALSE, responses |-> <<Response("200", <<Entry(Json, "good")>>)>>,
       callbacks |-> {}]
Mocking == [openapi |-> TRUE, proxy |-> FALSE, scenarios |-> FALSE, control |-> FALSE]
Get == [target |-> "api", method |-> "GET", path |-> <<"a">>, token |-> FALSE, body |-> "none",
        contentType |-> "", parametersValid |-> TRUE, url |-> "none", prefer |-> <<>>, accept |-> <<>>]

Family(operations, configs, requests) ==
    [operations |-> operations, configs |-> configs, requests |-> requests]

-----------------------------------------------------------------------------
(* Routing: up to three operations, in any order, that share prefixes and    *)
(* shapes, asked for every path.                                             *)

Matcher == {Literal("a"), Param("x"), Param("y")}
Routed == {[Op EXCEPT !.method = m, !.template = t] :
              m \in {"GET", "POST"}, t \in (Matcher \X Matcher) \cup {<<Param("x")>>}}
Routing(n) ==
    Family([1..n -> Routed], {Mocking},
           {[Get EXCEPT !.path = path] : path \in ({"a", "b"} \X {"a", "b"}) \cup {<<"a">>}})

-----------------------------------------------------------------------------
(* Negotiation: up to two responses, every preference and kind of Accept. *)

Contents == {<<>>, <<Entry(Json, "good"), Illustrated(Text)>>, <<Entry(Json, "bad")>>,
             <<Entry(Text, "none")>>}
Answers == {Response(s, c) : s \in {"200", "2XX", "404", "default"}, c \in Contents}
Responses == {<<>>} \cup {<<r>> : r \in Answers} \cup
             {rs \in Answers \X Answers : rs[1].status # rs[2].status}
Accepting == {<<>>, <<[type |-> Anything, quality |-> 9]>>, <<[type |-> Text, quality |-> 10]>>,
              <<[type |-> "application/*", quality |-> 10]>>,
              <<[type |-> Json, quality |-> 5], [type |-> Text, quality |-> 10]>>,
              <<[type |-> "application/xml", quality |-> 10], [type |-> Json, quality |-> 10]>>}

\* Headers with directives that agree, repeat, contradict or cannot be read.
Segment(key, value) == <<[key |-> key, value |-> value]>>
Sent(segments) == [readable |-> TRUE, segments |-> segments]
Preferences ==
    {<<Sent(c \o e \o d)>> : c \in {<<>>, Segment("code", "404"), Segment("code", "200")},
                             e \in {<<>>, Segment("example", "n")}, d \in {<<>>, Segment("dynamic", "True")}} \cup
    {<<Sent(Segment("code", "404") \o Segment("code", "200"))>>,
     <<Sent(Segment("code", "200")), Sent(Segment("code", "404"))>>,
     <<Sent(Segment("code", "404")), Sent(Segment("wait", "5") \o Segment("code", "ok"))>>,
     <<Sent(Segment("dynamic", "true") \o Segment("dynamic", "yes"))>>,
     <<Sent(Segment("example", "n")), Sent(Segment("example", "") \o Segment("example", "nosuch"))>>,
     <<[readable |-> FALSE, segments |-> Segment("code", "404")]>>}
Negotiating ==
    Family({<<[Op EXCEPT !.responses = rs]>> : rs \in Responses}, {Mocking},
           {[Get EXCEPT !.prefer = p, !.accept = a] : p \in Preferences, a \in Accepting})

-----------------------------------------------------------------------------
(* Gating: bodies good and bad in front of scenarios, callbacks and an     *)
(* upstream.                                                               *)

Media == {<<>>, <<Json>>, <<Json, Text>>, <<"application/*">>, <<"application/vnd.x+json">>, <<Anything>>}
Callback(url, schema) == [url |-> url, schema |-> schema]
Callbacks ==
    {{}, {Callback(<<"http://host">>, "good")},
     {Callback(<<Pointer>>, "none"), Callback(<<"http://10.0.0.1">>, "good")},
     {Callback(<<"http://host", Pointer>>, "bad"), Callback(<<"http://host", Unclosed>>, "good")}}
Bodied == {[Op EXCEPT !.media = m, !.schema = s, !.required = r, !.callbacks = cb,
                      !.responses = <<Response("default", <<Entry(Json, q)>>)>>] :
              m \in Media, s \in BOOLEAN, r \in BOOLEAN, cb \in Callbacks,
              q \in {"none", "good", "bad"}}
Gating ==
    Family({<<op>> : op \in {o \in Bodied : o.schema => Json \in Range(o.media)}},
           {Mocking, [Mocking EXCEPT !.scenarios = TRUE], [Mocking EXCEPT !.proxy = TRUE]},
           {[Get EXCEPT !.body = "fine", !.contentType = Json, !.url = url] :
               url \in {"http://host", "http://10.0.0.1"}} \cup
           {[Get EXCEPT !.body = b, !.contentType = ct, !.parametersValid = ok] :
               b \in {"none", "huge", "malformed", "violating", "fine"},
               ct \in {"", Json, Text, "application/vnd.x+json"}, ok \in BOOLEAN})

-----------------------------------------------------------------------------
(* Control endpoints, a server without OpenAPI, and preferences that pass  *)
(* scenarios by.                                                           *)

Controlling ==
    Family({<<Op>>}, {[Mocking EXCEPT !.control = c, !.scenarios = s] : c \in BOOLEAN, s \in BOOLEAN},
           {[Get EXCEPT !.target = t, !.token = k, !.path = <<"_specmock", t>>] :
               t \in {"state", "reset"}, k \in BOOLEAN})
Without == Family({<<>>}, {[Mocking EXCEPT !.openapi = FALSE]}, {Get})
Naming == {<<Sent(Segment("scenario", "undeclared") \o Segment("session", "s"))>>,
           <<Sent(Segment("scenario", "undeclared") \o Segment("scenario", "declared") \o Segment("scenario", ""))>>,
           <<Sent(Segment("scenario", "undeclared")), Sent(Segment("code", "200"))>>}
Bypassing ==
    Family({<<Op>>}, {[Mocking EXCEPT !.scenarios = TRUE]}, 
           {[Get EXCEPT !.prefer = p] : p \in Preferences \cup Naming})

AcceptFamilies == <<Negotiating>>

MCFamilies ==
    <<Routing(1), Routing(2), Routing(3), Negotiating, Gating, Controlling, Without, Bypassing>>

=============================================================================
