---------------------------- MODULE MCContracts ----------------------------
(***************************************************************************)
(* OpenAPI documents and requests for TLC: a path and an operation that    *)
(* declare the same parameter in every pair of ways, bodies with nullable  *)
(* parts in both versions, and paths that meet a WebSocket route.          *)
(***************************************************************************)
EXTENDS OpenApiRequest

Of(type) == [type |-> <<type>>]
UpTo5 == [type |-> <<"integer">>, maximum |-> 5]
Nullable(schema) == schema @@ [nullable |-> TRUE]
OneInteger == [type |-> <<"array">>, items |-> UpTo5, maxItems |-> 1]
Integers == [type |-> <<"array">>, items |-> Of("integer")]
NullFirst == [type |-> <<"null", "integer">>]

\* A parameter named q.
Q(in, required, schema) == <<[name |-> "q", in |-> in, required |-> required, schema |-> schema]>>
AtPath == {<<>>} \cup {Q(i, r, s) : i \in {"query", "header"}, r \in BOOLEAN,
                                    s \in {UpTo5, Of("string"), Nullable(Of("integer")), Integers}}
AtOperation ==
    AtPath \cup {Q("query", r, s) : r \in BOOLEAN,
                    s \in {OneInteger, Nullable(Of("number")), Of("number"), NullFirst, Of("boolean"), Anyhow}}
           \cup {Q("cookie", TRUE, Of("integer")), Q("query", TRUE, UpTo5) \o Q("query", FALSE, Of("string"))}

Id(schema) == <<[name |-> "id", in |-> "path", required |-> FALSE, schema |-> schema]>>

Media(type, schema) == [type |-> type, schema |-> schema, example |-> {}, examples |-> <<[name |-> "e", value |-> 1]>>]
Header(name, schema, example) == [name |-> name, schema |-> schema, example |-> example]
Responses ==
    <<[status |-> "201", content |-> <<Media("text/csv", {}), Media("application/json", {Of("string")})>>,
       headers |-> <<Header("Location", {Of("string")}, {"there"}), Header("etag", {}, {}), Header("age", {Never}, {})>>],
      [status |-> "default", content |-> <<>>, headers |-> <<Header("location", {Of("string")}, {})>>]>>
Callbacks == <<[url |-> "u", operations |-> [post |-> {Nullable(Of("string"))}, get |-> {}]]>>

Op(parameters, body) == [parameters |-> parameters, body |-> body, responses |-> Responses, callbacks |-> Callbacks]
PathItem(template, parameters, operations) ==
    [template |-> template, parameters |-> parameters, operations |-> operations]

Contract(version, paths, routes) ==
    [document |-> [version |-> version, hasPaths |-> TRUE, paths |-> paths], routes |-> routes]

Pet == <<Literal("pets"), Param("id")>>
Mine == <<Literal("pets"), Literal("mine")>>
WsRoute == {<<"ws">>}

Parameters ==
    {Contract("3.0", <<PathItem(Pet, Id(UpTo5) \o inherited, [get |-> Op(own, {})])>>, WsRoute) :
        inherited \in AtPath, own \in AtOperation}
    \cup {Contract("3.1", <<PathItem(Pet, <<>>, [get |-> Op(own, {}), post |-> Op(Id(UpTo5), {})])>>, WsRoute) :
        own \in AtOperation}

PartsOf(s) == {s, Nullable(s)}
BodySchemas ==
    UNION {PartsOf([type |-> <<"object">>, required |-> {"n"}, properties |-> [n |-> s]]) \cup
           PartsOf([type |-> <<"array">>, items |-> s]) \cup
           {[anyOf |-> <<Of("string"), s>>], Nullable([anyOf |-> <<s>>]), [type |-> <<"object">>, additionalProperties |-> s]} :
           s \in PartsOf(Of("integer")) \cup {Nullable([type |-> <<"integer", "null">>])}}
WithBodies ==
    {Contract(v, <<PathItem(Mine, <<>>, [post |-> Op(<<>>, {[required |-> r, content |->
            <<Media("application/json", {s}), Media("text/plain", {Of("integer")})>>]})])>>, WsRoute) :
        v \in {"3.0", "3.1"}, r \in BOOLEAN, s \in BodySchemas}

Shadowing ==
    {Contract(v, <<PathItem(Mine, <<>>, [m \in ms |-> Op(<<>>, {})]), PathItem(Pet, <<>>, [m \in ns |-> Op(<<>>, {})])>>, routes) :
        v \in {"2.0", "3.0"}, ms \in SUBSET {"get", "post"}, ns \in SUBSET {"get", "put"},
        routes \in {WsRoute, {<<"pets">>, <<"pets", "x">>}, {<<"pets", "mine">>}}}

Pathless == {[c EXCEPT !.document.hasPaths = FALSE, !.document.paths = <<>>] : c \in Shadowing}

MCContracts == Parameters \cup WithBodies \cup Shadowing \cup Pathless

Text(characters, integer, number, boolean) ==
    [characters |-> characters, integer |-> integer, number |-> number, boolean |-> boolean]
Number(n) == Text(<<"number", ToString(n)>>, {NumberOf(n, TRUE)}, {NumberOf(n, TRUE)}, {})
Word == Text(<<"x">>, {}, {}, {})
NaN == Text(<<"NaN">>, {}, {Null}, {})
Half == Text(<<"half">>, {}, {NumberOf(4, FALSE)}, {})
True == Text(<<"true">>, {}, {}, {[boolean |-> TRUE]})

MCTextOfSegment == [mine |-> Word, x |-> Word, three |-> Number(3), nine |-> Number(9), pets |-> Word]

MCValuesOfQ == {<<>>, <<Number(3)>>, <<Number(9)>>, <<Word>>, <<NaN>>, <<Half>>, <<True>>,
                <<Number(3), Word>>, <<Word, Number(3)>>, <<Number(3), Number(4)>>}
Named(values) == IF values = <<>> THEN <<>> ELSE [q |-> values]
Integer == NumberOf(1, TRUE)
MCBodies == {Null, Integer, TextOf(<<"s">>), [object |-> [n |-> Null]], [object |-> [n |-> Integer]],
             [object |-> [m |-> Null]], [array |-> <<>>], [array |-> <<Integer, Null>>]}

Demand(method, segments, query, headers, body) ==
    [method |-> method, segments |-> segments, query |-> query, headers |-> headers, body |-> body]
MCDemands ==
    {Demand(m, <<"pets", id>>, Named(q), Named(h), {}) :
        m \in {"get", "post"}, id \in {"mine", "three", "nine"}, q \in MCValuesOfQ, h \in {<<>>, <<Number(9)>>, <<Word>>}}
    \cup {Demand("post", <<"pets", "mine">>, <<>>, <<>>, {v}) : v \in MCBodies}

=============================================================================
