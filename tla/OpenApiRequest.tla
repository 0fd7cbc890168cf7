--------------------------- MODULE OpenApiRequest ---------------------------
(***************************************************************************)
(* What the loaded operations of OpenApiDocument make of a request's       *)
(* parameters and body and of the headers of its response                  *)
(* (crates/specmock-runtime/src/http/openapi.rs), and what loading makes   *)
(* of a schema.                                                            *)
(*                                                                         *)
(* A text is a record of its characters and the values it parses to,       *)
(* [characters, integer, number, boolean].                                 *)
(***************************************************************************)
EXTENDS OpenApiDocument, Schema

CONSTANT TextOfSegment      \* the text a segment of a request path is

VARIABLES
    demand,          \* the request, once there is one
    judgement        \* what became of it

documentVars == <<contractVars, demand, judgement>>

-----------------------------------------------------------------------------
(* Schemas *)

RECURSIVE NormalizeSchema(_, _)

\* normalize_schema: the schemas inside first, then nullable, which becomes one more
\* type; nullable without a type stays as it is and says nothing to the validator.
NormalizeSchema(s, nullable) ==
    LET inner(part) == NormalizeSchema(part, nullable)
        nested == [k \in DOMAIN s |->
                      CASE k = "properties" -> [p \in DOMAIN s[k] |-> inner(s[k][p])]
                        [] k \in {"items", "additionalProperties"} -> inner(s[k])
                        [] k \in {"allOf", "anyOf", "oneOf"} -> [i \in DOMAIN s[k] |-> inner(s[k][i])]
                        [] OTHER -> s[k]]
        typed  == IF "null" \in Range(nested.type) THEN nested ELSE [nested EXCEPT !.type = Append(@, "null")]
    IN IF nullable /\ Given(s, "nullable", FALSE) /\ "type" \in DOMAIN s
       THEN Restrict(typed, DOMAIN typed \ {"nullable"})
       ELSE nested

\* Faulty variant: nullable is not looked for below the surface.
NormalizedSurface(s, version) ==
    IF version = "3.0" /\ Given(s, "nullable", FALSE) /\ "type" \in DOMAIN s
    THEN [s EXCEPT !.type = Append(@, "null")] ELSE s

\* What Normalized stands for.
NormalizedSchema(s, version) == NormalizeSchema(s, version = "3.0")

-----------------------------------------------------------------------------
(* A request *)

\* The type a text is read as: the first one listed.
InferredType(schema) == IF Given(schema, "type", <<>>) = <<>> THEN "string" ELSE schema.type[1]

\* parse_parameter_value: a text that does not parse stays a string.
ParseParameterValue(text, schema) ==
    LET type   == InferredType(schema)
        parsed == IF type \in {"integer", "number", "boolean"} THEN text[type] ELSE {}
    IN IF parsed = {} THEN TextOf(text.characters) ELSE CHOOSE v \in parsed : TRUE

IsArraySchema(schema) == "array" \in Range(Given(schema, "type", <<>>))

\* The texts a request has for a parameter: the segment bound to it, all the values of
\* the query, the first value of the header.
TextsFor(parameter, request, params) ==
    LET in(texts) == IF parameter.name \in DOMAIN texts THEN texts[parameter.name] ELSE <<>>
    IN CASE parameter.in = "path"   -> in([n \in DOMAIN params |-> <<TextOfSegment[params[n]]>>])
         [] parameter.in = "query"  -> in(request.query)
         [] parameter.in = "header" -> in([n \in DOMAIN request.headers |-> <<Head(request.headers[n])>>])

\* The part of validate_request about one parameter.
ParameterFails(parameter, request, params) ==
    LET texts == TextsFor(parameter, request, params)
        items == Given(parameter.schema, "items", Anyhow)
        value == IF parameter.in = "query" /\ IsArraySchema(parameter.schema)
                 THEN [array |-> [i \in DOMAIN texts |-> ParseParameterValue(texts[i], items)]]
                 ELSE ParseParameterValue(texts[1], parameter.schema)
    IN IF texts = <<>> THEN parameter.required ELSE ~Valid(parameter.schema, value)

\* The part about the body, which was parsed if it is JSON.
BodyFails(body, request) ==
    \/ body.required /\ request.body = {}
    \/ \E s \in body.schema, v \in request.body : ~Valid(s, v)

RequestFails(operation, request, params) ==
    \/ \E i \in DOMAIN operation.parameters : ParameterFails(operation.parameters[i], request, params)
    \/ BodyFails(operation.body, request)

\* generate_response_headers: the example or a generated value; a header with neither,
\* or with a schema nothing can be made for, is left out.
GenerateResponseHeaders(headers) ==
    LET written == SelectSeq(headers, LAMBDA h : h.example # {} \/ (h.schema # {} /\ h.schema # {Never}))
    IN [i \in DOMAIN written |->
           [name |-> written[i].name, from |-> IF written[i].example # {} THEN "example" ELSE "faker", path |-> <<>>]]

\* substitute_path_params
SubstitutePathParams(template, params) ==
    [n \in DOMAIN template |->
        LET s == template[n] IN
        IF s.kind = "Param" /\ s.name \in DOMAIN params THEN params[s.name] ELSE s.name]

\* render_location_header, for every spelling of the name.
RenderLocation(headers, template, params) ==
    [i \in DOMAIN headers |->
        IF headers[i].name \in {"location", "Location"}
        THEN [headers[i] EXCEPT !.from = "request", !.path = SubstitutePathParams(template, params)]
        ELSE headers[i]]

\* A request finds its operation, its parameters are checked, and one of the responses
\* (chosen as Negotiation says) gives the headers.
JudgeRequest(request) ==
    /\ "operations" \in DOMAIN runtime
    /\ judgement.verdict = "none"
    /\ demand' = request
    /\ LET found == MatchRoute(runtime.router, request.method, request.segments) IN
       \/ /\ found = {}
          /\ judgement' = [verdict |-> "no route", index |-> 0, headers |-> <<>>]
       \/ \E match \in found :
            LET operation == runtime.operations[match.index] IN
            \/ /\ RequestFails(operation, request, match.params)
               /\ judgement' = [verdict |-> "invalid", index |-> match.index, headers |-> <<>>]
            \/ /\ ~RequestFails(operation, request, match.params)
               /\ \E r \in DOMAIN operation.responses :
                     judgement' = [verdict |-> "valid", index |-> match.index,
                                   headers |-> RenderLocation(GenerateResponseHeaders(operation.responses[r].headers),
                                                              operation.template, match.params)]
    /\ UNCHANGED <<contract, runtime>>

DocumentInit(contracts) ==
    /\ ContractInit(contracts)
    /\ demand = [method |-> "none"]
    /\ judgement = [verdict |-> "none", index |-> 0, headers |-> <<>>]

LoadDocument == FromConfig /\ UNCHANGED <<demand, judgement>>

DocumentNext(requests) == LoadDocument \/ \E request \in requests : JudgeRequest(request)

DocumentFinished ==
    /\ "error" \in DOMAIN runtime \/ judgement.verdict # "none"
    /\ UNCHANGED documentVars

-----------------------------------------------------------------------------
(* What the document says of a request *)

\* A value satisfies a schema, where nullable is a keyword of version 3.0: null is then
\* one more value of the type.
RECURSIVE Satisfies(_, _, _)
Satisfies(v, s, version) ==
    LET waived == version = "3.0" /\ Given(s, "nullable", FALSE) /\ v = Null
        flat   == Restrict(s, DOMAIN s \ ({"properties", "additionalProperties", "items", "anyOf"} \cup
                                          IF waived THEN {"type"} ELSE {}))
        properties == Given(s, "properties", <<>>)
    IN /\ Valid(flat, v)
       /\ "object" \in DOMAIN v =>
              \A p \in DOMAIN v.object :
                  Satisfies(v.object[p], IF p \in DOMAIN properties THEN properties[p]
                                         ELSE Given(s, "additionalProperties", Anyhow), version)
       /\ "array" \in DOMAIN v /\ "items" \in DOMAIN s =>
              \A i \in DOMAIN v.array : Satisfies(v.array[i], s.items, version)
       /\ "anyOf" \in DOMAIN s => \E i \in DOMAIN s.anyOf : Satisfies(v, s.anyOf[i], version)

\* The values a text stands for in JSON: itself, or the number or boolean it spells.
Readings(text) ==
    {TextOf(text.characters)} \cup {v \in text.integer \cup text.number \cup text.boolean : v # Null}

\* A schema that says how a text is to be read: by one type, or not at all.  A nullable
\* number is left out, as NaN is read as null.
Readable(s) ==
    \/ s = Anyhow
    \/ /\ Len(Given(s, "type", <<>>)) = 1
       /\ Given(s, "nullable", FALSE) => s.type # <<"number">>

Fulfilled(p, texts, version) ==
    LET each  == [i \in DOMAIN texts |-> Readings(texts[i])]
        lists == {l \in [DOMAIN texts -> UNION Range(each)] : \A i \in DOMAIN l : l[i] \in each[i]}
    IN IF texts = <<>> THEN ~(p.required \/ p.in = "path")
       ELSE IF p.in = "query" /\ IsArraySchema(p.schema)
       THEN \E l \in lists : Satisfies([array |-> l], p.schema, version)
       ELSE \E v \in Readings(texts[1]) : Satisfies(v, p.schema, version)

Item(operation) == CHOOSE x \in Range(contract.document.paths) : x.template = operation.template

\* The body a request has is one the operation asks for.
Suits(request, node, version) ==
    \A b \in node :
        /\ b.required => request.body # {}
        /\ \A c \in Range(b.content) :
              c.type = "application/json" =>
                  \A s \in c.schema, v \in request.body : Satisfies(v, s, version)

\* A request is judged by exactly the parameters OpenAPI gives its operation and by the
\* body (validate_request), with null allowed where the document allows it
\* (normalize_schema); the Location of the response is the path that was asked for
\* (render_location_header).
JudgedAsDeclared ==
    LET operation == runtime.operations[judgement.index]
        version == contract.document.version
        item    == Item(operation)
        params  == Values(operation.template, demand.segments)
        meant   == Meant(item, operation.method)
    IN judgement.verdict \in {"valid", "invalid"} =>
         /\ demand.method = operation.method /\ Fits(operation.template, demand.segments)
         /\ (\A p \in meant : Readable(p.schema)) =>
              (judgement.verdict = "valid" <=>
                 /\ \A p \in meant : Fulfilled(p, TextsFor(p, demand, params), version)
                 /\ Suits(demand, item.operations[operation.method].body, version))
         /\ \A h \in Range(judgement.headers) :
              h.name \in {"location", "Location"} => h.from = "request" /\ h.path = demand.segments

=============================================================================
