---------------------------- MODULE HttpHandler ----------------------------
(***************************************************************************)
(* The life of one HTTP request (crates/specmock-runtime/src/http/mod.rs,  *)
(* http_fallback_handler and the control handlers; proxy.rs), from reading *)
(* its body to the answer, with every early return.  What the outside      *)
(* world contributes is chosen where it is asked: the scenario runtime's   *)
(* resolution and the upstream's response.                                 *)
(*                                                                         *)
(* A case is [operations, config, request].  The body of a request is      *)
(* "none", "huge", "malformed", "violating" or "fine", and url is what it  *)
(* holds at the pointer that callbacks use.  Operations carry, besides     *)
(* method and template, the media types and the schema of their body, the  *)
(* responses, and callbacks, a set of [url, schema]: a sequence of texts   *)
(* and expressions, and whether its body can be generated.                 *)
(***************************************************************************)
EXTENDS Router, Negotiation

CONSTANT Families     \* a sequence of [operations, configs, requests], three sets

\* "none" stands for a status or a media type that is absent, "problem" for the media
\* type of a problem document, so neither is a key of a document.
MediaEntry ==
    [type : STRING \ {"none", "problem"}, example : BOOLEAN, names : SUBSET STRING, schema : {"none", "good", "bad"}]
IsOperation(op) ==
    /\ op.responses \in Seq([status : STRING \ {"none"}, content : Seq(MediaEntry)])
    /\ op.callbacks \subseteq [url : Seq(STRING) \ {<<>>}, schema : STRING]
IsDeclared(operations) ==
    /\ Templated(operations)
    /\ \A op \in Range(operations) : IsOperation(op)
IsRequest(request) ==
    /\ request.path \in Seq(STRING)
    /\ request.body \in {"none", "huge", "malformed", "violating", "fine"}
    /\ request.accept \in Seq([type : STRING, quality : Int])
    /\ request.prefer \in Seq([readable : BOOLEAN, segments : Seq([key : STRING, value : STRING])])

\* from_config_with: no scenarios in front of an upstream.
ASSUME FamiliesAssumption ==
    \A f \in DOMAIN Families :
        /\ \A operations \in Families[f].operations : IsDeclared(operations)
        /\ \A c \in Families[f].configs : ~(c.proxy /\ c.scenarios)
        /\ \A request \in Families[f].requests : IsRequest(request)

VARIABLES
    case,       \* the document, the configuration and the request
    stage,      \* what comes next, or "done"
    matched,    \* the operation found and its parameters
    mock,       \* the mocked response
    answer,     \* the response sent
    touched     \* what the request had an effect on

vars == <<case, stage, matched, mock, answer, touched>>

Config == case.config
Request == case.request
Operations == case.operations
Operation == Operations[matched.index]

\* PreferDirectives::from_headers.
Prefer == FromHeaders(Request.prefer, Request.accept)

\* An answer lists the pointers of issues and names extension members if it is a problem.
Answered(status, type, body) ==
    [status |-> status, type |-> type, body |-> body, errors |-> {}, extensions |-> {}]
NoAnswer == Answered("none", "none", "none")

\* ProblemDetails and its constructors.
ProblemDetails(status, errors, extensions) ==
    [status |-> status, type |-> "problem", body |-> "problem", errors |-> errors, extensions |-> extensions]
ValidationError(status, issues) == ProblemDetails(status, issues, {})
NotFound == ProblemDetails("404", {}, {})
StatefulError(status, extensions) == ProblemDetails(status, {}, extensions)
UnsupportedMediaType == ProblemDetails("415", {}, {})
NotAcceptable == ProblemDetails("406", {}, {})
PayloadTooLarge == ProblemDetails("413", {}, {})

\* Faulty variant: the handler returns without an answer.
RefuseSilently(problem) ==
    /\ stage' = "done"
    /\ UNCHANGED <<case, matched, mock, answer, touched>>

\* An early return: problem_response or error_response.
Refuse(problem) ==
    /\ stage' = "done"
    /\ answer' = problem
    /\ UNCHANGED <<case, matched, mock, touched>>

Proceed(next) ==
    /\ stage' = next
    /\ UNCHANGED <<case, matched, mock, answer, touched>>

\* A request that has just been accepted.
Accepted ==
    /\ stage = "route"
    /\ matched = [index |-> 0, params |-> <<>>]
    /\ mock = Failure("none")
    /\ answer = NoAnswer
    /\ touched = {}

Init ==
    /\ \E f \in DOMAIN Families :
          case \in [operations : Families[f].operations, config : Families[f].configs,
                    request : Families[f].requests]
    /\ Accepted

-----------------------------------------------------------------------------
(* Control endpoints, which exist if there is a token *)

IsControl == Config.control /\ Request.target # "api"

Control ==
    /\ stage = "route"
    /\ IsControl
    /\ \/ ~Request.token /\ Refuse(StatefulError("401", {"control"}))
       \/ Request.token /\ ~Config.scenarios /\ Refuse(NotFound)
       \/ /\ Request.token /\ Config.scenarios
          /\ stage' = "done"
          /\ answer' = Answered("200", "application/json", "control")
          /\ touched' = IF Request.target = "reset" THEN {"reset"} ELSE {}
          /\ UNCHANGED <<case, matched, mock>>

-----------------------------------------------------------------------------
(* http_fallback_handler *)

ReadBody ==
    /\ stage = "route"
    /\ ~IsControl
    /\ \/ Request.body = "huge" /\ Refuse(PayloadTooLarge)
       \/ Request.body # "huge" /\ Proceed("match")

MatchOperation ==
    /\ stage = "match"
    /\ LET found == IF Config.openapi
                    THEN MatchRoute(Build(Operations), Request.method, Request.path) ELSE {}
       IN \/ found = {} /\ Refuse(NotFound)
          \/ /\ found # {}
             /\ matched' \in found
             /\ stage' = "mediaType"
             /\ UNCHANGED <<case, mock, answer, touched>>

CheckMediaType ==
    /\ stage = "mediaType"
    /\ LET refused == /\ Request.body # "none"
                      /\ Operation.media # <<>>
                      /\ ~MediaTypeIsAccepted(Operation.media, Request.contentType)
       IN \/ refused /\ Refuse(UnsupportedMediaType)
          \/ ~refused /\ Proceed("parse")

\* parse_optional_json_body looks at a body only if there is a schema for it and the
\* client calls it JSON.
IsParsed == Operation.schema /\ Request.body # "none" /\ Request.contentType = "application/json"

ParseBody ==
    /\ stage = "parse"
    /\ \/ IsParsed /\ Request.body = "malformed" /\ Refuse(ValidationError("400", {"/body"}))
       \/ ~(IsParsed /\ Request.body = "malformed") /\ Proceed("validate")

\* validate_request: parameters, presence of the body, and the parsed body.
Issues ==
    (IF Request.parametersValid THEN {} ELSE {"/parameter"}) \cup
    (IF \/ Operation.required /\ Request.body = "none"
        \/ IsParsed /\ Request.body = "violating" THEN {"/body"} ELSE {})

\* Faulty variant: a body that is missing is noticed by nobody.
ValidateWhatIsThere ==
    /\ stage = "validate"
    /\ LET issues == IF Request.body = "none" THEN Issues \ {"/body"} ELSE Issues
       IN \/ issues # {} /\ Refuse(ValidationError("400", issues))
          \/ issues = {} /\ Proceed(IF Config.proxy THEN "proxy" ELSE "mock")

Validate ==
    /\ stage = "validate"
    /\ \/ Issues # {} /\ Refuse(ValidationError("400", Issues))
       \/ Issues = {} /\ Proceed(IF Config.proxy THEN "proxy" ELSE "mock")

\* response_schema_for_status: the schema of the status, else of the default, each
\* that of the first JSON entry, or of the first entry if there is none.
JsonSchema(response) ==
    {entry.schema : entry \in Else(First(response.content, LAMBDA c : IsJsonMediaType(c.type)),
                                   First(response.content, LAMBDA c : TRUE))} \ {"none"}
ResponseSchema(status) ==
    LET schema(s) == UNION {JsonSchema(r) : r \in First(Operation.responses, LAMBDA r : r.status = s)}
    IN Else(schema(status), schema("default"))

\* proxy_request: the upstream cannot be reached or read, or its answer is passed on,
\* after a check if it is JSON and there is a schema for it.
Proxy ==
    /\ stage = "proxy"
    /\ touched' = touched \cup {"upstream"}
    /\ \/ \E issue \in {"/proxy", "/response/body"} : answer' = ValidationError("502", {issue})
       \/ \E status \in {"200", "500"}, body \in {"fine", "violating", "malformed", "text"} :
             LET schema == ResponseSchema(status)
                 issue  == CASE schema = {} \/ body = "text" -> {}
                             [] schema # {} /\ body = "malformed" -> {"/response/body"}
                             [] "bad" \in schema /\ body \in {"fine", "violating"} -> {"/response"}
                             [] "bad" \notin schema /\ body = "violating" -> {"/instance"}
                             [] OTHER -> {}
             IN answer' = IF issue # {} THEN ValidationError("502", issue)
                          ELSE Answered(status, "upstream", body)
    /\ stage' = "done"
    /\ UNCHANGED <<case, matched, mock>>

\* What an error of mock_response is answered with.
Refusal(failure) ==
    CASE failure.status = "404" -> NotFound
      [] failure.status = "406" -> NotAcceptable
      [] OTHER                  -> ValidationError("500", {"/response"})

Mock ==
    /\ stage = "mock"
    /\ LET response == MockResponse(Operation.responses, Prefer)
       IN \/ response.failed /\ Refuse(Refusal(response))
          \/ /\ ~response.failed
             /\ mock' = response
             /\ stage' = IF Config.scenarios THEN "resolve" ELSE "build"
             /\ UNCHANGED <<case, matched, answer, touched>>

\* A preferred code or dynamic data passes the scenario runtime by.
Bypassed == Prefer.code # {} \/ Prefer.dynamic

\* A scenario was asked for that the sidecar does not declare.
Unknown == ~Bypassed /\ Prefer.scenario = {"undeclared"}

\* StatefulFailure: its status and the names of its extension members.
StatefulFailure ==
    [UnknownScenario    |-> StatefulError("404", {"scenario"}),
     IllegalOperation   |-> StatefulError("409", {"scenario", "session", "state", "operation"}),
     ResourceNotFound   |-> StatefulError("404", {"resource"}),
     ResourceExists     |-> StatefulError("409", {"resource"}),
     SessionCapExceeded |-> StatefulError("429", {"limit"}),
     StoreCapExceeded   |-> StatefulError("500", {"limit"})]

\* What a resolution that acted makes of the mocked response: Body, Empty or Forced.
Resolved ==
    {[mock EXCEPT !.body = "stored"], [mock EXCEPT !.status = "204", !.body = "none"]} \cup
    {[mock EXCEPT !.status = "202", !.body = body] : body \in {mock.body, "stored"}}

\* The scenario runtime leaves the request alone, or acts on it, or refuses it, some
\* refusals after it has found or changed an instance.
Resolve ==
    /\ stage = "resolve"
    /\ \/ /\ ~Unknown
          /\ stage' = "build"
          /\ UNCHANGED <<mock, answer, touched>>
       \/ /\ ~Unknown /\ ~Bypassed
          /\ touched' = touched \cup {"scenario"}
          /\ mock' \in {mock} \cup Resolved
          /\ stage' = "build"
          /\ UNCHANGED answer
       \/ \E failure \in DOMAIN StatefulFailure :
             /\ ~Bypassed
             /\ failure = "UnknownScenario" <=> Unknown
             /\ touched' = IF failure \in {"UnknownScenario", "SessionCapExceeded"} THEN touched
                           ELSE touched \cup {"scenario"}
             /\ answer' = StatefulFailure[failure]
             /\ stage' = "done"
             /\ UNCHANGED mock
    /\ UNCHANGED <<case, matched>>

\* resolve_callback_url: an expression is replaced by what it points at in the parsed
\* body, and stays if there is nothing; without its closing brace there is no URL.
Pointer == "{$request.body#/url}"
Unclosed == "{$request.body#/url"
ResolveCallbackUrl(expression) ==
    IF Unclosed \in Range(expression) THEN {}
    ELSE {[i \in DOMAIN expression |->
              IF expression[i] = Pointer /\ IsParsed /\ Request.url # "none" THEN Request.url
              ELSE expression[i]]}

\* A text that begins with a scheme other than HTTP, with none, or with a private
\* address is not called.
IsValidCallbackUrl(url) == url[1] \in {"http://host"}

\* fire_callback: the request has a body if one is declared and can be generated.
FireCallback(callback) == IF callback.schema = "good" THEN "callback" ELSE "bareCallback"

\* One task for every callback with a URL that may be called.
Fired ==
    {FireCallback(c) : c \in {cb \in Operation.callbacks :
        \E url \in ResolveCallbackUrl(cb.url) : IsValidCallbackUrl(url)}}

\* build_mock_response, which writes a body only if there is a media type for it;
\* then the callbacks are sent off.
BuildResponse ==
    /\ stage = "build"
    /\ answer' = Answered(mock.status, mock.type, IF mock.type = "none" THEN "none" ELSE mock.body)
    /\ touched' = touched \cup Fired
    /\ stage' = "done"
    /\ UNCHANGED <<case, matched, mock>>

Finished == stage = "done" /\ UNCHANGED vars

Next ==
    \/ Control \/ ReadBody \/ MatchOperation \/ CheckMediaType \/ ParseBody \/ Validate
    \/ Proxy \/ Mock \/ Resolve \/ BuildResponse \/ Finished

Spec == Init /\ [][Next]_vars

-----------------------------------------------------------------------------
(* Properties *)

Stages == {"route", "match", "mediaType", "parse", "validate", "proxy", "mock", "resolve", "build", "done"}

\* The handler is at one of its stages with an operation of the document, and it has
\* an answer exactly when it is done: no path through it returns without one.
TypeOK ==
    /\ stage \in Stages
    /\ matched.index \in 0..Len(Operations)
    /\ stage = "done" <=> answer # NoAnswer
    /\ touched \subseteq {"scenario", "upstream", "callback", "bareCallback", "reset"}

\* match_operation finds an operation exactly when the document declares one for
\* the method and the path, it is the best one, and its parameters have the values
\* of the path and nothing else, whatever branches of the trie were tried first.
RouteExact ==
    stage \notin {"route", "match"} /\ ~IsControl /\ Request.body # "huge" /\ Config.openapi =>
        LET best == BestMatch(Operations, Request.method, Request.path) IN
        IF best = {} THEN matched.index = 0 /\ answer.status = "404"
        ELSE /\ matched.index \in best
             /\ matched.params = Values(Operation.template, Request.path)

\* A request the document allows: its body fits, an operation answers it, and
\* everything that operation says about bodies and parameters holds.
Acceptable ==
    /\ Request.body # "huge"
    /\ Config.openapi
    /\ \E i \in BestMatch(Operations, Request.method, Request.path) :
          LET op == Operations[i] IN
          /\ Request.parametersValid
          /\ Request.body = "none" => ~op.required
          /\ Request.body # "none" /\ op.media # <<>> =>
                Request.contentType # NoText /\ \E d \in Range(op.media) : Covers(d, Request.contentType)
          /\ op.schema /\ Request.contentType = "application/json" =>
                Request.body \in {"none", "fine"}

Outgoing == {"callback", "bareCallback"}

\* Only a request the document allows reaches scenario state, the upstream or a
\* callback; a request that is told of issues has left no trace in scenarios, and one
\* that a scenario refused, or that failed otherwise, calls nobody back; a callback
\* goes where the document or a parsed body says; a reset needs the token.
Gated ==
    /\ touched \cap ({"scenario", "upstream"} \cup Outgoing) # {} => Acceptable
    /\ answer.errors # {} => touched \subseteq {"upstream"}
    /\ answer.extensions # {} => answer.errors = {} /\ (IsControl \/ Acceptable)
    /\ touched \cap Outgoing # {} =>
          /\ answer.type # "problem"
          /\ \E c \in Operation.callbacks :
                c.url[1] = "http://host" \/ (c.url[1] = Pointer /\ Request.body = "fine" /\ Request.url = "http://host")
    /\ "reset" \in touched => Request.token /\ Config.control

\* What the client prefers, under a key: the last directive of it in the last header
\* that can be read and has one.
Wished(key) ==
    LET in(i) == {j \in DOMAIN Request.prefer[i].segments : Request.prefer[i].segments[j].key = key}
        of    == {i \in DOMAIN Request.prefer : Request.prefer[i].readable /\ in(i) # {}}
    IN UNION {{Request.prefer[i].segments[j].value : j \in {n \in in(i) : \A m \in in(i) : m <= n}} :
                i \in {n \in of : \A m \in of : m <= n}}
PreferredCode == Wished("code") \ NoCode

\* Answers that the mock made up alone.
Unaided == stage = "done" /\ ~IsControl /\ touched \cap {"scenario", "upstream"} = {} /\ answer.type # "problem"

\* A mocked answer is one the document declares: with the code that was preferred if
\* one was; otherwise a success if any is declared; in a declared media type, which
\* the client asked for if it asked for any in particular.
MockFaithful ==
    Unaided =>
        \E r \in Range(Operation.responses) :
            /\ answer.status = ParseStatusCode(r.status)
            /\ PreferredCode # {} => r.status \in PreferredCode
            /\ PreferredCode = {} /\ (\E s \in Range(Operation.responses) : Is2xx(s.status)) =>
                  Is2xx(r.status)
            /\ IF r.content = <<>> THEN answer.type = "none" /\ answer.body = "none"
               ELSE /\ \E c \in Range(r.content) : c.type = answer.type
                    /\ (\E a \in Range(Request.accept) : a.type # Anything) =>
                          \E a \in Range(Request.accept) : a.type = answer.type

\* README.md, Content Negotiation: the Accept header selects among all media types
\* declared for the response, and 406 is for one that matches none of them.
SatisfiableAccepted ==
    stage = "done" /\ matched.index # 0 /\ answer.status = "406" /\ answer.type = "problem" =>
        \A r \in SelectResponse(Operation.responses, Prefer) :
            ~ \E c \in Range(r.content), a \in Range(Request.accept) :
                 a.type \in {c.type, Anything} /\ a.quality > 0

=============================================================================
