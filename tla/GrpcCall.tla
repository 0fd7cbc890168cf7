------------------------------ MODULE GrpcCall ------------------------------
(***************************************************************************)
(* The life of one gRPC call (crates/specmock-runtime/src/grpc/            *)
(* protobuf.rs): the checks of DynamicGrpcService::call in their order,    *)
(* the generation of a response message from its descriptor, the answer of *)
(* the scenario runtime, which is chosen where it is asked, and the frames *)
(* of the body as the client polls them.                                   *)
(*                                                                         *)
(* A call is [contentType, path, body, metadata, stateful].  A body is     *)
(* [read, bytes, compressed, length, payload]: whether it arrived, how     *)
(* many bytes, the flag and the length of its frame, and whether the bytes *)
(* of that length decode as the input of the method.  A field is           *)
(* [number, label, oneof, kind] with a message, "emptyEnum" or "scalar"   *)
(* as its kind.                                                            *)
(***************************************************************************)
EXTENDS Integers, Sequences, FiniteSets, Functions

CONSTANTS
    Services,    \* path -> [clientStreaming, serverStreaming, output]
    Messages,    \* name of a message -> the sequence of its fields
    DepthLimit,  \* how deep messages are generated: 32 in the code
    RpcCalls     \* the calls a client may make

ASSUME DepthAssumption == DepthLimit \in Nat

\* What the protobuf compiler sees to: the fields of a message have numbers of their
\* own, and the output of a method is a message.
ASSUME MessagesAssumption ==
    \A name \in DOMAIN Messages :
        /\ Messages[name] \in Seq([number : Nat, label : STRING, oneof : STRING, kind : STRING])
        /\ \A i, j \in DOMAIN Messages[name] : Messages[name][i].number = Messages[name][j].number => i = j

ASSUME ServicesAssumption ==
    \A path \in DOMAIN Services :
        Services[path] \in [clientStreaming : BOOLEAN, serverStreaming : BOOLEAN, output : DOMAIN Messages]

ASSUME RpcCallsAssumption ==
    \A c \in RpcCalls :
        /\ c.body \in [read : BOOLEAN, bytes : Nat, compressed : BOOLEAN, length : Nat, payload : BOOLEAN]
        /\ c.stateful \in BOOLEAN

VARIABLES
    call,        \* the call
    step,        \* what comes next
    reply,       \* the code, the number of messages, and what the trailers say of an error
    wire,        \* the frames the client has polled
    consulted    \* the resolution of the scenario runtime, if it was asked

rpcVars == <<call, step, reply, wire, consulted>>

HeaderSize == 5
StreamingCount == 3
NoReply == [code |-> -1, messages |-> 0, details |-> {}, errors |-> {}]

-----------------------------------------------------------------------------
(* Pure parts *)

\* is_grpc_content_type, in any case and with any suffix.
IsGrpcContentType(type) == type \in {"application/grpc", "application/GRPC+proto", "application/grpc-web"}

\* decode_grpc_unary_frame: bytes after the frame are ignored.
FrameDecodes(body) ==
    /\ body.bytes >= HeaderSize
    /\ ~body.compressed
    /\ body.bytes >= body.length + HeaderSize

\* grpc_directives: the last entry of a name whose text is not blank.
Directive(metadata, name) ==
    LET good == {i \in DOMAIN metadata : metadata[i].name = name /\ metadata[i].text \notin {"", "not text"}}
    IN {metadata[i].text : i \in {n \in good : \A m \in good : n >= m}}

\* grpc_code_for.
GrpcCodeFor(status) ==
    CASE status <= 16          -> status
      [] status \in {400, 422} -> 3
      [] status = 401          -> 16
      [] status = 403          -> 7
      [] status = 404          -> 5
      [] status = 409          -> 6
      [] status = 429          -> 8
      [] status = 501          -> 12
      [] status = 503          -> 14
      [] status = 504          -> 4
      [] OTHER                 -> 13

\* The details of an error are optional, [errors, context]: the pointers of issues and
\* the names of the members beside them.
Issue(pointer) == {[errors |-> {pointer}, context |-> {}]}

\* failure_json: one issue about the whole message, and the context of the failure.
FailureJson(context) == {[errors |-> {"/"}, context |-> context]}

\* pointer_to_field_path, of the pointers this runtime reports.
FieldPath(pointer) == IF pointer \in {"/", "/body"} THEN "body" ELSE "response"

\* extract_field_violations.
FieldViolations(json) == {FieldPath(p) : p \in json.errors}

\* build_grpc_status_details_bin: the violations, or the whole document if it lists none.
StatusDetails(details) ==
    {IF FieldViolations(json) = {} THEN [type |-> "ValidationErrors", fields |-> {}]
     ELSE [type |-> "BadRequest", fields |-> FieldViolations(json)] : json \in details}

\* grpc_error_response: no message, and trailers with the details in both their forms.
ErrorReply(code, details) ==
    [code |-> code, messages |-> 0, details |-> StatusDetails(details), errors |-> details]

\* The fields that generate_dynamic_message sets: one for each oneof, the first.
Sets(fields, i) ==
    fields[i].oneof = "none" \/ \A j \in 1..(i - 1) : fields[j].oneof # fields[i].oneof

\* generate_dynamic_message and scalar_value_for_field: whether a message comes out,
\* and the paths of field numbers that are set in it. Maps stay empty, lists get one
\* item, and messages nest until the limit makes them fail.
MakeMessage(depth, deeper, name) ==
    LET fields    == Messages[name]
        set       == {i \in DOMAIN fields : Sets(fields, i)}
        valued    == {i \in set : fields[i].label # "map"}
        nested    == {i \in valued : fields[i].kind \in DOMAIN Messages}
        inner(i)  == deeper[fields[i].kind]
        broken    == \/ \E i \in valued : fields[i].kind = "emptyEnum"
                     \/ \E i \in nested : ~inner(i).ok
    IN IF depth > DepthLimit \/ broken THEN [ok |-> FALSE, paths |-> {}]
       ELSE [ok    |-> TRUE,
             paths |-> {<<fields[i].number>> : i \in set} \cup
                       UNION {{<<fields[i].number>> \o p : p \in inner(i).paths} : i \in nested}]
Generate[depth \in 0..DepthLimit + 1] ==
    [name \in DOMAIN Messages |-> MakeMessage(depth, Generate[depth + 1], name)]

-----------------------------------------------------------------------------
(* The call *)

RpcInit(calls) ==
    /\ call \in calls
    /\ step = "contentType"
    /\ reply = NoReply
    /\ wire = <<>>
    /\ consulted = "nothing"

\* An early return.
Fail(code, details) ==
    /\ step' = "send"
    /\ reply' = ErrorReply(code, details)
    /\ UNCHANGED <<call, wire, consulted>>

\* build_success_response.
SuccessReply(messages) == [code |-> 0, messages |-> messages, details |-> {}, errors |-> {}]
Succeed(messages) ==
    /\ step' = "send"
    /\ reply' = SuccessReply(messages)
    /\ UNCHANGED <<call, wire, consulted>>

Pass(next) ==
    /\ step' = next
    /\ UNCHANGED <<call, reply, wire, consulted>>

Method == Services[call.path]

CheckContentType ==
    /\ step = "contentType"
    /\ \/ ~IsGrpcContentType(call.contentType) /\ Fail(3, {})
       \/ IsGrpcContentType(call.contentType) /\ Pass("method")

FindMethod ==
    /\ step = "method"
    /\ \/ call.path \notin DOMAIN Services /\ Fail(12, {})
       \/ /\ call.path \in DOMAIN Services
          /\ \/ Method.clientStreaming /\ Fail(12, {})
             \/ ~Method.clientStreaming /\ Pass("body")

\* Faulty variant: whatever arrived is handed to the protobuf decoder.
DecodeUnframed ==
    /\ step = "body"
    /\ \/ ~call.body.read /\ Fail(3, Issue("/body"))
       \/ call.body.read /\ ~call.body.payload /\ Fail(3, Issue("/body"))
       \/ call.body.read /\ call.body.payload /\ Pass("generate")

DecodeRequest ==
    /\ step = "body"
    /\ LET decodes == call.body.read /\ FrameDecodes(call.body) /\ call.body.payload IN
       \/ ~decodes /\ Fail(3, Issue("/body"))
       \/ decodes /\ Pass("generate")

\* build_streaming_response: one message after the other, and an error in place of all
\* of them if one cannot be generated; no scenario sees the call.
StreamReply ==
    LET messages == [i \in 1..StreamingCount |-> Generate[0][Method.output]] IN
    IF \E i \in DOMAIN messages : ~messages[i].ok THEN ErrorReply(13, Issue("/response"))
    ELSE SuccessReply(Len(messages))

BuildStream ==
    /\ step = "generate"
    /\ Method.serverStreaming
    /\ step' = "send"
    /\ reply' = StreamReply
    /\ UNCHANGED <<call, wire, consulted>>

\* The one message of a unary call, which a scenario may replace.
GenerateReply ==
    /\ step = "generate"
    /\ ~Method.serverStreaming
    /\ LET generated == Generate[0][Method.output].ok IN
       \/ ~generated /\ Fail(13, Issue("/response"))
       \/ generated /\ ~call.stateful /\ Succeed(1)
       \/ generated /\ call.stateful /\ Pass("scenario")

Statuses == {0, 5, 200, 400, 401, 403, 404, 409, 422, 429, 500, 501, 503, 504}

\* resolve_grpc: a scenario of the name that was asked for, or the default one.
Resolutions ==
    [kind : {"Ungoverned", "Empty"}, status : {200}, body : {"none"}] \cup
    [kind : {"Body"}, status : {200}, body : {"fits", "other"}] \cup
    [kind : {"Forced"}, status : Statuses, body : {"none", "fits", "other"}] \cup
    [kind : {"Failed"}, status : {404, 409, 429, 500}, body : {"none"}]

\* A stored body must be of the output type; an override without a body, and a
\* failure, are errors of the nearest code; everything else leaves the generated
\* message in place.
ConsultScenario ==
    /\ step = "scenario"
    /\ \E r \in Resolutions :
          /\ "absent" \in Directive(call.metadata, "scenario") => r.kind = "Failed" /\ r.status = 404
          /\ consulted' = r.kind
          /\ step' = "send"
          /\ reply' =
                CASE r.kind = "Failed" ->
                        ErrorReply(GrpcCodeFor(r.status), FailureJson({"context"}))
                  [] r.kind \in {"Body", "Forced"} /\ r.body = "other" ->
                        ErrorReply(13, {})
                  [] r.kind = "Forced" /\ r.body = "none" ->
                        ErrorReply(GrpcCodeFor(r.status), {})
                  [] OTHER -> SuccessReply(1)
          /\ UNCHANGED <<call, wire>>

\* GrpcBody::poll_frame: the messages, then the trailers, then nothing.
PollFrame ==
    /\ step = "send"
    /\ IF Len(wire) < reply.messages THEN wire' = Append(wire, "data") /\ step' = step
       ELSE wire' = Append(wire, "trailers") /\ step' = "sent"
    /\ UNCHANGED <<call, reply, consulted>>

RpcFinished == step = "sent" /\ UNCHANGED rpcVars

RpcNext ==
    \/ CheckContentType \/ FindMethod \/ DecodeRequest \/ BuildStream \/ GenerateReply
    \/ ConsultScenario \/ PollFrame

RpcSpec == RpcInit(RpcCalls) /\ [][RpcNext]_rpcVars

-----------------------------------------------------------------------------
(* Properties *)

\* A frame that the specification of gRPC allows: five bytes, not compressed, and as
\* many bytes as it announces.
WellFramed(body) == body.read /\ ~body.compressed /\ body.bytes - HeaderSize >= body.length

\* How deep the messages of a type nest, with every field that is generated, counted
\* up to one more than the limit.
Inside(name) ==
    LET fields == Messages[name]
    IN {fields[i].kind : i \in {j \in DOMAIN fields : /\ Sets(fields, j)
                                                     /\ fields[j].label # "map"
                                                     /\ fields[j].kind \in DOMAIN Messages}}
Nesting[n \in 0..DepthLimit + 1] ==
    [name \in DOMAIN Messages |->
        IF n = 0 THEN {name} ELSE UNION {Nesting[n - 1][kind] : kind \in Inside(name)}]
TooDeep(name) == Nesting[DepthLimit + 1][name] # {}

\* A generated message has one field set of each oneof, and all fields outside of one.
Complete(name) ==
    LET fields == Messages[name]
        set(i) == \E p \in Generate[0][name].paths : p[1] = fields[i].number
    IN /\ \A i \in DOMAIN fields : fields[i].oneof = "none" => set(i)
       /\ \A o \in {fields[i].oneof : i \in DOMAIN fields} \ {"none"} :
             Cardinality({i \in DOMAIN fields : fields[i].oneof = o /\ set(i)}) = 1

\* DynamicGrpcService::call: the scenario runtime is asked only for a unary call whose
\* frame and payload are sound and whose output type can be generated; what the client
\* reads is the messages and then one set of trailers; the call succeeds
\* exactly with messages, one or a whole stream, unless a scenario declares code 0; a
\* code is one that gRPC knows, and generated messages are complete; an error blames the
\* body only for a body that cannot be decoded or for a refusal by a scenario, and only
\* the latter comes with its context.
RpcAnswered ==
    /\ consulted # "nothing" =>
          /\ call.stateful /\ IsGrpcContentType(call.contentType)
          /\ call.path \in DOMAIN Services
          /\ ~Method.clientStreaming /\ ~Method.serverStreaming
          /\ WellFramed(call.body) /\ call.body.payload
          /\ ~TooDeep(Method.output)
    /\ step = "sent" =>
          /\ wire = [i \in 1..(reply.messages + 1) |-> IF i <= reply.messages THEN "data" ELSE "trailers"]
          /\ reply.code \in 0..16
          /\ reply.messages > 0 => reply.code = 0 /\ reply.messages \in {1, StreamingCount}
          /\ reply.code = 0 /\ reply.messages = 0 => consulted = "Forced"
          /\ consulted = "nothing" /\ reply.code = 0 =>
                ~TooDeep(Method.output) /\ Complete(Method.output)
          /\ \A d \in reply.details : "body" \in d.fields =>
                consulted = "Failed" \/ ~WellFramed(call.body) \/ ~call.body.payload
          /\ \A e \in reply.errors : e.context # {} <=> consulted = "Failed"

=============================================================================
