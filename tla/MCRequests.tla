----------------------------- MODULE MCRequests -----------------------------
(***************************************************************************)
(* The three ways to ask a server for a mock, for TLC: an HTTP request, a  *)
(* gRPC call or a WebSocket message, and the making of a body from a       *)
(* schema.  A behaviour is the life of one of them; the others are at      *)
(* rest.                                                                   *)
(***************************************************************************)
EXTENDS MCHttp, GrpcCall, AsyncMessage, Payload

VARIABLE kind      \* "http", "grpc", "ws" or "body", for a whole behaviour

requestVars == <<vars, rpcVars, messageVars, payloadVars, kind>>

-----------------------------------------------------------------------------
(* gRPC: messages that nest, choose, repeat, recur and cannot be made.     *)

Field(number, label, oneof, type) == [number |-> number, label |-> label, oneof |-> oneof, kind |-> type]
Scalar(number) == Field(number, "optional", "none", "scalar")
Inner(number, type) == Field(number, "optional", "none", type)

MCMessages ==
    [empty   |-> <<>>,
     plain   |-> <<Scalar(1), Field(2, "list", "none", "scalar"), Field(3, "map", "none", "tree")>>,
     choice  |-> <<Field(4, "optional", "o", "scalar"), Scalar(5), Field(1, "optional", "o", "tree"),
                   Field(2, "optional", "p", "plain"), Field(3, "optional", "p", "void")>>,
     either  |-> <<Field(1, "optional", "o", "scalar"), Field(2, "optional", "o", "plain")>>,
     tree    |-> <<Scalar(1), Field(2, "list", "none", "tree")>>,
     void    |-> <<Scalar(1), Field(2, "optional", "none", "emptyEnum")>>,
     chain1  |-> <<Inner(1, "plain")>>,
     chain2  |-> <<Inner(1, "chain1"), Inner(2, "choice")>>,
     chain3  |-> <<Inner(1, "chain2")>>,
     chain4  |-> <<Inner(1, "chain3")>>]

MethodOf(type, client, server) == [clientStreaming |-> client, serverStreaming |-> server, output |-> type]
MCServices ==
    [path \in ((DOMAIN MCMessages) \X {"unary", "stream"}) \cup {<<"plain", "upload">>} |->
        MethodOf(path[1], path[2] = "upload", path[2] = "stream")]

Metadata ==
    {<<>>, <<[name |-> "scenario", text |-> "absent"]>>,
     <<[name |-> "scenario", text |-> "absent"], [name |-> "scenario", text |-> ""]>>,
     <<[name |-> "scenario", text |-> "absent"], [name |-> "scenario", text |-> "declared"]>>}
Bodies ==
    [read : BOOLEAN, bytes : {0, 4, 5, 6, 8}, compressed : BOOLEAN, length : {0, 1, 3}, payload : BOOLEAN]
FineBody == [read |-> TRUE, bytes |-> 6, compressed |-> FALSE, length |-> 1, payload |-> TRUE]
MCCalls ==
    [contentType : {"application/grpc", "application/GRPC+proto", "other"}, path : (DOMAIN MCServices) \cup {<<"none", "unary">>},
     body : {FineBody}, metadata : Metadata, stateful : BOOLEAN] \cup
    [contentType : {"application/grpc"}, path : {<<"plain", "unary">>, <<"choice", "stream">>},
     body : Bodies, metadata : {<<>>}, stateful : BOOLEAN]

-----------------------------------------------------------------------------
(* WebSocket: documents of both versions in which a message fits no        *)
(* channel, one or two, channels of version 3 that look alike, and an      *)
(* envelope for a channel that no document has.                            *)

Object(members) == [parses |-> TRUE, string |-> FALSE, members |-> members]
MCTexts ==
    [x       |-> [parses |-> TRUE, string |-> TRUE, members |-> <<>>],
     z       |-> [parses |-> TRUE, string |-> TRUE, members |-> <<>>],
     y       |-> [parses |-> TRUE, string |-> TRUE, members |-> <<>>],
     number  |-> [parses |-> TRUE, string |-> FALSE, members |-> <<>>],
     garbage |-> [parses |-> FALSE, string |-> FALSE, members |-> <<>>],
     toX     |-> Object([channel |-> "x", payload |-> "number"]),
     toY     |-> Object([topic |-> "y", data |-> "number", message |-> "x"]),
     to1     |-> Object([channel |-> "number", topic |-> "x", payload |-> "number"]),
     toZ     |-> Object([channel |-> "z", payload |-> "number"]),
     bare    |-> Object([channel |-> "x"]),
     event   |-> Object([payload |-> "number"])] @@ ("{}" :> Object(<<>>))

Payloads == {Absent, Broken, Accepts({"number"}), Accepts({"event", "toX", "y"})}
Exchange(payload, examples) == <<[payload |-> payload, examples |-> examples]>>
Sends == {<<>>} \cup {Exchange(p, <<>>) : p \in Payloads}
Receives == {<<>>, Exchange(Absent, <<>>), Exchange(Broken, <<>>), Exchange(Accepts({}), <<>>),
             Exchange(Accepts({}), <<"y", "x">>)}
Node(publish, subscribe) == [publish |-> publish, subscribe |-> subscribe]
DocumentsV2 ==
    {[version |-> 2, channels |-> [x |-> Node(p, r), y |-> Node(q, <<>>)]] :
        p \in Sends, q \in Sends, r \in Receives}

\* Definitions of channels: two may be equal, one may be declared nowhere.
OperationsV3 ==
    {<<>>} \cup {<<[action |-> a, channel |-> c, messages |-> m], [action |-> b, channel |-> 1, messages |-> n]>> :
        a \in {"send", "receive", "other"}, c \in {1, 2, 3}, m \in Receives, b \in {"send", "receive"},
        n \in {<<>>, Exchange(Accepts({"number"}), <<>>)}}
DocumentsV3 ==
    {[version |-> 3, names |-> <<"x", "y">>, channels |-> [x |-> 1, y |-> c], operations |-> ops] :
        c \in {1, 2}, ops \in OperationsV3}

MCMessageCases ==
    [document : DocumentsV2 \cup DocumentsV3, path : {"x", "ws"},
     text : {"garbage", "number", "toX", "toY", "toZ", "to1", "bare", "event", "y"}, stateful : BOOLEAN]

-----------------------------------------------------------------------------
(* Schemas: leaves with every bound, also beyond the ceilings, and what    *)
(* can be built from them, with mistakes the generator has to live with.   *)

MCFakerLimits == [depth |-> 2, items |-> 2, length |-> 3, span |-> 2, itemSpan |-> 1, lengthSpan |-> 1]

\* A record with some of the keywords of another one.
Some(keywords) == {Restrict(keywords, D) : D \in SUBSET DOMAIN keywords}
With(schemas, keywords) == {keywords @@ s : s \in schemas}

Leaves ==
    UNION {With(UNION {Some([minimum |-> a, maximum |-> b]) : a, b \in {-3, -1, 1}}, [type |-> <<t>>]) :
              t \in {"integer", "number"}} \cup
    With(UNION {Some([minLength |-> a, maxLength |-> b]) : a, b \in {0, 1, 2, 4}}, [type |-> <<"string">>]) \cup
    With(Some([format |-> "email", pattern |-> "supported", minLength |-> 1]), [type |-> <<"string">>]) \cup
    {[type |-> <<"string">>, pattern |-> "unsupported"], [type |-> <<"boolean">>], [type |-> <<"file">>],
     [type |-> <<"null">>], [type |-> <<"null", "integer">>], [type |-> <<>>], [title |-> <<"1", "a">>],
     [type |-> <<"integer">>, const |-> NumberOf(7, TRUE)], [enum |-> <<>>, type |-> <<"boolean">>],
     [enum |-> <<TextOf(<<"<", "a">>), Null>>, xmlName |-> <<"!">>]} \cup
    UNION {Some([type |-> <<"integer">>, example |-> e, examples |-> <<NumberOf(1, TRUE), e>>, default |-> Null]) :
              e \in {NumberOf(5, TRUE), Null}}

FewLeaves == {[type |-> <<"integer">>], [type |-> <<"integer">>, maximum |-> -1], [type |-> <<"boolean">>],
              [enum |-> <<TextOf(<<"<">>)>>], [type |-> <<"file">>]}

ObjectsOf(parts) ==
    UNION {With(Some([required |-> r, additionalProperties |-> extra]),
                [type |-> <<"object">>, properties |-> (<<"a">> :> p) @@ (<<"1", "!", "b">> :> q)]) :
              r \in {{<<"a">>}, {<<"x">>}}, extra \in {Never, Anyhow, [type |-> <<"boolean">>]},
              p \in parts, q \in parts}
ArraysOf(parts) ==
    UNION {With(Some([minItems |-> a, maxItems |-> b, items |-> p]), [type |-> <<"array">>]) :
              a, b \in {0, 1, 3}, p \in parts \cup {Never}}

\* Variants with names, some of which a mapping knows; two of them may not be told apart,
\* and two do not bear the tag that the discriminator wants.
Number == [a |-> 1, b |-> 2, c |-> 2, x |-> 3]
Kind(name) == [type |-> <<"object">>, title |-> <<name>>, required |-> {<<"a">>},
               properties |-> <<"a">> :> [type |-> <<"integer">>, const |-> NumberOf(Number[name], TRUE)]]
Closed(name) == [additionalProperties |-> Never] @@ Kind(name)
Flagged(name) ==
    [Kind(name) EXCEPT !.properties = @ @@ (<<"b">> :> [type |-> <<"boolean">>])]
Choices ==
    {[oneOf |-> v, discriminator |-> [propertyName |-> <<"b">>, mapping |-> m]] :
        v \in {<<Kind("a"), Kind("b"), Kind("x")>>, <<Kind("a"), Kind("b"), Kind("c")>>,
               <<Kind("b"), Kind("a")>>, <<Closed("b"), Kind("a")>>, <<Kind("b"), Flagged("a")>>,
               <<[type |-> <<"integer">>]>>},
        m \in {<<>>, <<[key |-> "k", target |-> <<"b">>]>>,
               <<[key |-> "k", target |-> <<"b">>], [key |-> "l", target |-> <<"a">>]>>,
               <<[key |-> "k", target |-> <<"x">>], [key |-> "l", target |-> <<"a">>]>>}} \cup
    {[oneOf |-> <<Kind("b"), Kind("a")>>, discriminator |-> d] :
        d \in {[mapping |-> <<[key |-> "k", target |-> <<"b">>]>>], [propertyName |-> <<"b">>]}} \cup
    UNION {{[anyOf |-> <<p, q>>], [oneOf |-> <<p, q>>]} : p, q \in FewLeaves} \cup
    {[anyOf |-> <<Kind("b"), Kind("c")>>], [oneOf |-> <<>>, anyOf |-> <<Kind("a")>>],
     [oneOf |-> <<Kind("a")>>, anyOf |-> <<Kind("b")>>], [oneOf |-> <<Kind("a")>>, type |-> <<"integer">>]}
Together ==
    {[allOf |-> <<p, q>>] : p, q \in {Kind("a"), [type |-> <<"integer">>],
        [type |-> <<"object">>, properties |-> <<"b">> :> [type |-> <<"boolean">>]]}} \cup {[allOf |-> <<>>]}

Small == {[type |-> <<"boolean">>], [type |-> <<"array">>, items |-> [type |-> <<"boolean">>]],
          [type |-> <<"object">>, properties |-> <<"a">> :> [type |-> <<"boolean">>], required |-> {<<"a">>}]}
Deeper(parts) ==
    {[type |-> <<"array">>, maxItems |-> 1, items |-> p] : p \in parts} \cup
    {[type |-> <<"object">>, properties |-> <<"a">> :> p] : p \in parts} \cup
    {[allOf |-> <<p>>] : p \in parts} \cup {[anyOf |-> <<p>>] : p \in parts}

MCSchemas ==
    Leaves \cup ObjectsOf(FewLeaves) \cup ArraysOf(FewLeaves) \cup Choices \cup Together \cup
    Deeper(Small) \cup Deeper(Deeper(Small))

-----------------------------------------------------------------------------

AtRest == case = [operations |-> <<>>, config |-> Mocking, request |-> Get] /\ Accepted
RpcAtRest == RpcInit({[contentType |-> "other", path |-> "none", body |-> FineBody, metadata |-> <<>>, stateful |-> FALSE]})
MessageAtRest ==
    MessageInit({[document |-> CHOOSE d \in DocumentsV2 : TRUE, path |-> "ws", text |-> "y", stateful |-> FALSE]})
PayloadAtRest == PayloadInit({[type |-> <<"null">>]}) /\ mediaType = "application/json"

RequestsInit ==
    \/ kind = "http" /\ Init /\ RpcAtRest /\ MessageAtRest /\ PayloadAtRest
    \/ kind = "grpc" /\ AtRest /\ RpcInit(RpcCalls) /\ MessageAtRest /\ PayloadAtRest
    \/ kind = "ws" /\ AtRest /\ RpcAtRest /\ MessageInit(MessageCases) /\ PayloadAtRest
    \/ kind = "body" /\ AtRest /\ RpcAtRest /\ MessageAtRest /\ PayloadInit(MCSchemas)

RequestsNext ==
    /\ \/ kind = "http" /\ Next /\ UNCHANGED <<rpcVars, messageVars, payloadVars>>
       \/ kind = "grpc" /\ (RpcNext \/ RpcFinished) /\ UNCHANGED <<vars, messageVars, payloadVars>>
       \/ kind = "ws" /\ (MessageNext \/ MessageFinished) /\ UNCHANGED <<vars, rpcVars, payloadVars>>
       \/ kind = "body" /\ (PayloadNext \/ PayloadFinished) /\ UNCHANGED <<vars, rpcVars, messageVars>>
    /\ UNCHANGED kind

RequestsSpec == RequestsInit /\ [][RequestsNext]_requestVars

=============================================================================
