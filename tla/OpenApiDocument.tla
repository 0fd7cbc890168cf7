-------------------------- MODULE OpenApiDocument --------------------------
(***************************************************************************)
(* From a resolved OpenAPI document to the operations a server answers     *)
(* (crates/specmock-runtime/src/http/openapi.rs, from_resolved and the     *)
(* parse functions), and the check against the WebSocket routes            *)
(* (http/mod.rs, from_config_with).                                        *)
(*                                                                         *)
(* A map of the document is a sequence in the order of its keys, as the    *)
(* JSON library keeps it; an optional value is a set of at most one        *)
(* element; a node that is not an object is absent.  A path template is a  *)
(* sequence of matchers (Router).  What a schema is, OpenApiRequest says.  *)
(***************************************************************************)
EXTENDS Router, SequencesExt

CONSTANTS
    Contracts,           \* the documents and WebSocket routes a server may be started with
    Normalized(_, _)     \* the schema the validator is given for one of the document

VARIABLES
    contract,        \* the document and the WebSocket routes of the server
    runtime          \* "none", then the error, or the operations loaded and their router

contractVars == <<contract, runtime>>

Methods == <<"get", "post", "put", "patch", "delete", "head", "options", "trace">>
Places == {"path", "query", "header"}

\* What a document is made of: sequences, but for the operations of a path, which are
\* those of its members that are named by a method.
ASSUME ContractsAssumption ==
    \A c \in Contracts :
        /\ c.document.paths \in Seq(Range(c.document.paths))
        /\ c.routes \subseteq Seq(STRING)
        /\ \A item \in Range(c.document.paths) :
              /\ item.template \in Seq(Matchers)
              /\ item.parameters \in Seq(Range(item.parameters))
              /\ DOMAIN item.operations \subseteq Range(Methods)
              /\ \A m \in DOMAIN item.operations :
                    LET operation == item.operations[m] IN
                    /\ operation.parameters \in Seq(Range(operation.parameters))
                    /\ \A response \in Range(operation.responses) :
                          response.content \in Seq(Range(response.content))

\* The members of a sequence that lie in a set, in their order.
Sieve(s, S) ==
    LET kept[n \in 0..Len(s)] ==
            IF n = 0 THEN <<>>
            ELSE IF s[n] \in S THEN Append(kept[n - 1], s[n]) ELSE kept[n - 1]
    IN kept[Len(s)]

-----------------------------------------------------------------------------
(* Parts of an operation *)

ParameterOf(p, version) ==
    [name     |-> p.name,
     in       |-> p.in,
     required |-> p.required \/ p.in = "path",
     schema   |-> Normalized(p.schema, version)]

\* parse_parameters: those in a place that is read; a path parameter is required.
ParseParameters(nodes, version) ==
    LET read == Sieve(nodes, {p \in Range(nodes) : p.in \in Places})
    IN [i \in DOMAIN read |-> ParameterOf(read[i], version)]

\* Faulty variant: a parameter of the operation is added to the inherited ones.
AppendParameters(inherited, own) == inherited \o own

\* Every parameter of the operation replaces the ones of its name and place.
OverrideParameters(inherited, own) ==
    LET others(kept, p) == {q \in Range(kept) : q.in # p.in \/ q.name # p.name}
        kept[n \in 0..Len(own)] ==
            IF n = 0 THEN inherited
            ELSE Append(Sieve(kept[n - 1], others(kept[n - 1], own[n])), own[n])
    IN kept[Len(own)]

NormalizedOption(schema, version) == {Normalized(s, version) : s \in schema}

\* parse_request_body: of the media types only the schema of application/json is kept.
ParseRequestBody(node, version) ==
    [required |-> \E b \in node : b.required,
     types    |-> UNION {{c.type : c \in Range(b.content)} : b \in node},
     schema   |-> UNION {UNION {NormalizedOption(c.schema, version) :
                                c \in {c \in Range(b.content) : c.type = "application/json"}} : b \in node}]

IsJson(type) == type \in {"application/json", "application/problem+json"}

\* parse_media_type_examples: the example, or else the first of the named ones.
ParseMediaType(c, version) ==
    [type     |-> c.type,
     schema   |-> NormalizedOption(c.schema, version),
     example  |-> IF c.example # {} \/ c.examples = <<>> THEN c.example ELSE {Head(c.examples).value},
     examples |-> c.examples]

\* parse_responses: the JSON family first, otherwise the order stays.
ParseResponses(nodes, version) ==
    [i \in DOMAIN nodes |->
        LET content == [j \in DOMAIN nodes[i].content |-> ParseMediaType(nodes[i].content[j], version)]
        IN [status  |-> nodes[i].status,
            content |-> Sieve(content, {c \in Range(content) : IsJson(c.type)}) \o
                        Sieve(content, {c \in Range(content) : ~IsJson(c.type)}),
            headers |-> [j \in DOMAIN nodes[i].headers |->
                            [name    |-> nodes[i].headers[j].name,
                             schema  |-> NormalizedOption(nodes[i].headers[j].schema, version),
                             example |-> nodes[i].headers[j].example]]]]

\* The methods of a path item, in the order they are looked up.
DeclaredMethods(operations) == Sieve(Methods, DOMAIN operations)

\* parse_callbacks: one for every URL and method.
ParseCallbacks(nodes, version) ==
    FlattenSeq([i \in DOMAIN nodes |->
        LET methods == DeclaredMethods(nodes[i].operations)
        IN [j \in DOMAIN methods |->
               [url    |-> nodes[i].url,
                method |-> methods[j],
                schema |-> NormalizedOption(nodes[i].operations[methods[j]], version)]]])

-----------------------------------------------------------------------------
(* The document *)

ParseOperation(item, method, version) ==
    LET operation == item.operations[method]
    IN [method     |-> method,
        template   |-> item.template,
        parameters |-> OverrideParameters(ParseParameters(item.parameters, version),
                                          ParseParameters(operation.parameters, version)),
        body       |-> ParseRequestBody(operation.body, version),
        responses  |-> ParseResponses(operation.responses, version),
        callbacks  |-> ParseCallbacks(operation.callbacks, version)]

\* The operations of a document, path by path.
ParseOperations(document) ==
    FlattenSeq([i \in DOMAIN document.paths |->
        LET item    == document.paths[i]
            methods == DeclaredMethods(item.operations)
        IN [j \in DOMAIN methods |-> ParseOperation(item, methods[j], document.version)]])

\* from_resolved: the error, or the operations and their router.
FromResolved(document) ==
    LET operations == ParseOperations(document)
    IN IF document.version \notin {"3.0", "3.1"} \/ ~document.hasPaths
       THEN [error |-> "parse"] ELSE [operations |-> operations, router |-> Build(operations)]

\* Some WebSocket route would take the requests of a GET operation (shadowed_path).
Shadowed(router, routes) == \E route \in routes : MatchRoute(router, "get", route) # {}

FromConfig ==
    /\ runtime = [state |-> "none"]
    /\ runtime' = LET loaded == FromResolved(contract.document) IN
                  IF "error" \in DOMAIN loaded THEN loaded
                  ELSE IF Shadowed(loaded.router, contract.routes) THEN [error |-> "config"]
                  ELSE loaded
    /\ UNCHANGED contract

ContractInit(contracts) == contract \in contracts /\ runtime = [state |-> "none"]

ContractSpec == ContractInit(Contracts) /\ [][FromConfig]_contractVars

-----------------------------------------------------------------------------
(* What the document says *)

\* The parameters OpenAPI gives an operation: its own, the last of those alike, and
\* those of its path that it does not declare again.
Meant(item, method) ==
    LET own == item.operations[method].parameters
        alike(p, q) == p.name = q.name /\ p.in = q.in
        last == {i \in DOMAIN own : \A j \in DOMAIN own : j > i => ~alike(own[i], own[j])}
    IN {p \in {own[i] : i \in last} \cup
              {p \in Range(item.parameters) : \A q \in Range(own) : ~alike(p, q)} : p.in \in Places}

\* No media type of a response is lost, and JSON comes first.
ContentKept(responses, nodes) ==
    \A i \in DOMAIN nodes :
        LET types == [j \in DOMAIN responses[i].content |-> responses[i].content[j].type]
        IN /\ Range(types) = {c.type : c \in Range(nodes[i].content)}
           /\ \A j, k \in DOMAIN types : IsJson(types[k]) /\ j < k => IsJson(types[j])

\* Operation o is what a path of the document declares for its method.
LoadedFrom(o, item, version) ==
    /\ o.method \in DOMAIN item.operations /\ o.template = item.template
    /\ Range(o.parameters) = {ParameterOf(p, version) : p \in Meant(item, o.method)}
    /\ ContentKept(o.responses, item.operations[o.method].responses)

\* A document of a version that is known, no path of which takes the requests of a
\* WebSocket route.
Servable(c) ==
    /\ c.document.version \in {"3.0", "3.1"} /\ c.document.hasPaths
    /\ \A item \in Range(c.document.paths), route \in c.routes :
          "get" \in DOMAIN item.operations => ~Fits(item.template, route)

\* A server is started exactly if its document can be served beside its WebSocket
\* routes (from_config_with), and then with every operation the document declares and no
\* other, each with exactly the parameters OpenAPI gives it, its own ones before those of
\* its path (from_resolved), and with all its media types, JSON first (parse_responses).
LoadedAsDeclared ==
    LET paths == Range(contract.document.paths)
        version == contract.document.version
    IN /\ "error" \in DOMAIN runtime => ~Servable(contract)
       /\ "operations" \in DOMAIN runtime =>
             /\ Servable(contract)
             /\ \A o \in Range(runtime.operations) : \E item \in paths : LoadedFrom(o, item, version)
             /\ \A item \in paths : \A m \in DOMAIN item.operations :
                   \E o \in Range(runtime.operations) : o.method = m /\ LoadedFrom(o, item, version)

=============================================================================
