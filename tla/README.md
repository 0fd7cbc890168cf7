# Formal models of spec-mock

spec-mock serves mock HTTP, WebSocket and gRPC endpoints from OpenAPI, AsyncAPI
and protobuf documents. A *scenario sidecar* makes it stateful: sessions, a state
machine per scenario and a resource store per session. This directory holds TLA+
models of the program, from loading its documents to answering requests and shutting
down, the TLC runs that check them on small instances, and TLAPS proofs of the
properties that matter most. Paths below are relative to `src/`; `C/` is
`crates/specmock-core/src/`, `R/` is `crates/specmock-runtime/src/`.

## The system

| part | state it keeps | operations | who uses it |
|---|---|---|---|
| resource store, `C/store.rs` | two concurrent maps (resources; creation order per namespace), an atomic count | create, read, update, delete, list, clear | one per scenario instance, shared by all threads serving its session |
| scenario machine, `C/scenario.rs` | none (declared states and steps) | allows, next_state, unreachable_states | scenario runtime; sidecar loading |
| scenario sidecar, `C/sidecar.rs` | none after loading | parse: validate, warn | start |
| scenario runtime, `R/http/scenarios.rs` | registry (scenario, session) -> instance; per instance a state under a mutex and a store | resolve (HTTP, channel, gRPC), release, reset_all | HTTP handler, WebSocket loop, gRPC service, control endpoint, SDK |
| validator cache, `C/validate.rs` | process-wide map hash -> compiled schema | validate_instance | request and message validation, proxy |
| server lifecycle, `R/lib.rs` | shutdown signal, a Notify per runtime, task handles | start, shutdown, drop | command line, SDK |
| WebSocket connections, `R/http/ws_handler.rs` | per connection a session key and a rate limiter; a counter for keys | upgrade, message loop, release | HTTP server |
| HTTP handler, `R/http/mod.rs` | none of its own | the chain of checks of a request; control endpoints | HTTP server |
| router, negotiation, OpenAPI, media | built at load, then constant | match, select, validate, encode | HTTP handler |
| proxy, `R/http/proxy.rs` | none | forward, validate the answer | HTTP handler |
| AsyncAPI, `R/ws/asyncapi.rs` | built at load | handle_message | WebSocket loop |
| gRPC, `R/grpc/protobuf.rs` | built at load | a call: decode, generate, resolve, encode | gRPC server |
| reference resolver, `C/ref_resolver.rs` | document cache during loading | resolve | loading |
| SDK, `crates/specmock-sdk/src/server.rs` | a child process in process mode | start, readiness polling, shutdown | tests of users |
| command line, `bin/spec-mock/src/main.rs` | none | parse arguments, serve, exit | users, SDK process mode |
| faker, errors, media | none | generate, format, encode | everything |

Requests are served by a multi-threaded tokio runtime, so everything in the first,
fourth, fifth, sixth and seventh row is shared between threads, without a lock
that spans more than one map operation. That is where the hard behaviour is:

* operations of several map operations (create, delete, list, clear, reset, first
  use of a session, insertion into the validator cache) interleave;
* state read under a lock is used after it is released (a request's view of its
  instance's state; the session cap; the store's capacity);
* objects outlive their place in a map (an instance that was released, a
  validator that was evicted, a connection whose server is gone);
* shutdown must reach tasks that have not started to wait for it;
* in process mode the server is another process, which may hang, exit or find its
  port taken while its starter polls it against a deadline.

The rest is sequential, with many cases rather than many interleavings: references
that resolve through a bounded cache, parameters inherited and overridden, a message
tried on every channel, a frame with a length in it, a value drawn from a schema. It
is modelled as operators and short state machines, and checked against definitions
written from what the result means.

Nothing is persisted, so there is no crash recovery to model.

## Modules

| module | models | how |
|---|---|---|
| `Store` | `C/store.rs` | one action per atomic or map operation; threads are program counters; `clear` is a sweep that removes entries one at a time |
| `LinearStore` | what the store promises to concurrent callers | a bounded map of keys and an index per namespace: a call on an entry is atomic, its entry in the index follows; a list reads the index at one instant and looks up one identifier after the other |
| `SequentialStore` | what it promises to one caller | ordered maps per namespace, with `clear` |
| `ScenarioModel` | the operators of `C/scenario.rs` and `R/http/scenarios.rs` | allows, next state, overrides, key resolution, seeding, outcome to status |
| `ScenarioRuntime` | `R/http/scenarios.rs` | registry, cap, instance creation, snapshot, store use, move, release and reset as separate steps; an instance has an identity of its own and lives while the registry or a thread refers to it. At its end, the mapping to `ScenarioFlow` |
| `ScenarioFlow` | what a session promises | the declared flow, one request at a time; a flow opens under the cap, or above it by as many as may have overtaken its request |
| `SidecarLoad` | `C/sidecar.rs`, `unreachable_states` of `C/scenario.rs` | validation as operators returning the error reported, the worklist as actions |
| `ValidatorCache` | `C/validate.rs` | one action per map operation, compilation outside any lock |
| `Lifecycle` | `R/lib.rs`, `spawn_http_server`, `spawn_grpc_server` | the owner, the tasks, Notify permits, axum's watcher and open requests |
| `WsConnections` | `R/http/ws_handler.rs` | handshake, loop, limiter, release; the registry is a set of keys. Session names are of one space: those that clients choose may be those that the server mints |
| `Server` | `Lifecycle` and `WsConnections` together | a handshake is a request of the lifecycle and opens a connection in the same step |
| `Router` | `R/http/router.rs` | the trie as maps from paths of matchers to edges and operations, built by inserting one operation after the other; the walk as a recursive function on the number of segments left; `BestMatch` and `Values` say what a match should be |
| `Negotiation` | `R/http/negotiate.rs`, `R/http/media.rs`, `mock_response` of `R/http/openapi.rs` | operators over lists of responses and media types; headers and directives are read in their order, each changing what the earlier ones left |
| `HttpHandler` | `http_fallback_handler` and the control handlers of `R/http/mod.rs`, `R/http/proxy.rs`, the problem documents of `C/error.rs`, callback destinations of `R/http/openapi.rs` | one action per check, in the order of the code; the scenario runtime and the upstream answer nondeterministically; `touched` records effects |
| `OpenApiDocument` | loading in `R/http/openapi.rs`, `from_config_with` of `R/http/mod.rs` | the parse functions as operators from a document to operations, and the one action that starts a server with them. How a schema is normalized is the parameter `Normalized` |
| `OpenApiRequest` | normalization of schemas and validation of requests in `R/http/openapi.rs` | instantiates `Normalized`; one request judged by the operations loaded, and the headers of its response |
| `RefResolver` | `C/ref_resolver.rs` | one action per call of `resolve` on a resolver that keeps its cache; the recursion threads the cache through, as the code does |
| `Schema`, `Payload` | `C/faker.rs`, `C/schema.rs`, the encoding of `R/http/media.rs` | the set of outcomes of all seeds; XML as a sequence of tags and texts. `Valid` is the JSON Schema library |
| `GrpcCall` | `R/grpc/protobuf.rs` | one action per check of a call, generation from descriptors, the frames as they are polled |
| `AsyncMessage` | `R/ws/asyncapi.rs`, the reply in `R/http/ws_handler.rs` | channels of both versions of a document, routing, validation, generation, scenario |
| `Configuration` | `ServerConfig` of `R/lib.rs`, the arguments of the SDK and of `bin/spec-mock/src/main.rs` | a configuration as a record, arguments as a partial function from options to texts |
| `ProcessServer` | process mode of `crates/specmock-sdk/src/server.rs`, `bin/spec-mock/src/main.rs` | caller, child and the other processes of the machine as interleaved actions; time is a deadline that may pass |
| `MC*` | instances for TLC; `MCFlow` restricts the clients to flows of their own; `MCServer`, `MCRequests` and `MCLoading` put several components into one run | in these three a variable fixes for a whole behaviour which component moves, the others are at rest |
| `LeastElement` | lemmas about natural numbers: a non-empty set has a least element, a function defined from its predecessor exists and stays where its steps stay | the induction that the other proofs need |
| `StoreProofs`, `ScenarioProofs`, `SidecarProofs`, `ValidatorProofs`, `ServerProofs`, `ProcessProofs` | proofs about the module they are named for | see Proofs |
| `RequestProofs` | proofs about `GrpcCall`, `AsyncMessage`, `OpenApiDocument`, `HttpHandler`, `Router` and `Negotiation` | see Proofs |

Operators whose comment begins with "Faulty variant" are not used by any
specification. Each is a plausible mistake in the operator that follows it; with
the one in place of the other, TLC finds a property violated, which shows that the
property depends on that piece of code.

Faithfulness in points that are easy to get wrong:

* scc's maps lock the bucket of a key for one call. `iter_sync` and `retain_sync`
  are sweeps over buckets, not snapshots. An operation on a key that another
  thread holds (a closure running in `get_sync`) waits: `Blocked` in
  `ScenarioRuntime`.
* scc's `insert_sync` returns the *supplied* pair on a collision, not the one in
  the map. `InsertSession` depends on it.
* axum 0.8 awaits the shutdown signal in a task of its own and serves each
  connection in another; both survive an aborted HTTP task. A WebSocket counts as
  a request only until the handshake is answered. `Watch`, `HttpDone`, `Accept`
  and `Answer` are external in this sense.
* an abort takes effect at the next suspension; the model lets a task take steps
  until it does, which includes everything the program can do.

## Runs

Every run is exhaustive over its instance.

| run | checks | instance |
|---|---|---|
| `store_concurrent` | `CountAccounting`, `CapacityRespected`, `Linearizable` | 2 threads, 3 keys in one namespace, 2 values, capacity 2, create, update, delete and list; symmetric |
| `store_sequential` | `ImplementsSequentialStore` | 1 thread, all operations |
| `store_lost_index` | `EveryEntryListed` (violated) | 2 threads creating in one namespace |
| `scenario_shared` | `TypeOK`, `ReachableOnly`, `SessionsBounded`, `SessionsIsolated`, `FiledUnderOwnId`, `OnlyLegalCallsAct` | 2 threads that share two sessions, one of them under two scenarios, cap 1, HTTP and gRPC calls, invalid and refused requests, creates keyed by the whole request, release, reset |
| `scenario_flow` | `ImplementsFlow` | 2 threads with flows of their own, three in all under a cap of 2, or 1 thread with two sessions and every kind of call |
| `scenario_one_run` | `OneRunPerSession` (violated) | 2 first requests of one session |
| `sidecar_load` | `TypeOK`, `VerdictExact`, `DeadExact`, `Ends`, `ResolvedAsWritten`, `LoadedAsDeclared`, `JudgedAsDeclared` | every two-operation catalogue, every pair of one-state scenarios with every mistake, every machine of three states and two operations; a tree of files in two directories with equal names, circles, chains, siblings and unusable files, cache limits from 1, two calls of `resolve`; OpenAPI documents that declare one parameter in every pair of ways at path and operation, nullable bodies in both versions, paths that meet WebSocket routes, documents of every version with and without paths, and requests with every text |
| `validator_cache` | `TypeOK`, `CacheBounded`, `RightValidator`, `CallsDrain` | 3 threads, limit 1, 5 schemas, one hash collision, one that does not compile |
| `validator_race` | `LoserReadsWinner` (violated) | 2 threads, 2 schemas, limit 1 |
| `server_life` | `TypeOK`, `Released`, `NoLeak`, `OwnSession`, `ReadyIsOurs`, `ChildAsConfigured`, `ShutdownReturns`, `DropReleases`, `StartReturns`, `NothingLeft` | in process: gRPC on, 1 plain request, 2 WebSocket connections that name no session or the first that the server mints, cap 1, rate limit 2; process mode: 3 ports, which others take and leave, 15 configurations that need every argument and fail every check |
| `http_request` | `TypeOK`, `RouteExact`, `Gated`, `MockFaithful`, `RpcAnswered`, `MessageRouted`, `BodiesUsable` | every sequence of up to 3 operations over templates of literals and two parameter names, with 2 methods; up to 2 responses with every preference and 6 Accept headers, Prefer headers of several directives; every kind of body, content type and declared media type with mock, scenarios and proxy; control endpoints, callbacks. gRPC calls with frames around every boundary over 10 message types, depth limit 3. Messages over documents of both versions with 2 channels, envelopes for an unknown one among them. Schemas with every keyword of the generator in pairs, nested two deep over a depth limit of 2 |
| `http_accept` | `SatisfiableAccepted` (violated) | the responses and Accept headers of `http_request` |

Why the bounds are enough. The races in the store and in the registry are between
two threads at a time: every window is opened by one operation and entered by
another. Three keys over a capacity of two give a full store, a collision, a slot that
is contended for and a list of more than one entry; two values tell an update from what
it replaced. Namespaces share the counter only; that they do not mix is in
`store_sequential`, which has two. Single reads run there as well; among other threads
they are one step, the one by which a list looks an entry up, and part of
`StoreIsLinearizable`. A cap of one makes every first request meet the cap.
Trimming needs a third thread for a trimmer to find the cache emptied by the other
two. Two connections share a session, do not, or share because one of them chose the
name that the other was given. Three operations on paths of two
segments are a walk that fails below a literal, one that fails below a parameter
or for its method, and one that succeeds. Two ports for two listeners and a third to
be taken are a collision, a loss and a success. Depth limits of 2, 3 and 7 instead of
32 and 64 put schemas, messages and documents on both sides of the limit; a cache of one
file is evicted by every second reference. What depends on more threads or keys is in
the theorems, which have no bound.

What each property says is in the comment above it. The ones that deserve more:

* `Linearizable` maps the store onto `LinearStore` by the entries map and the index: the
  map operation of a call on an entry is its linearization point, the step on the index
  is work left to do before the call returns, and a list is bound to the index it read:
  it may neither skip an identifier of it, nor repeat one, nor answer another value than
  the entry has when it is looked up. The counter is invisible. `LinearStore` has two
  liberties, which are what the code takes: a create may be refused as many entries early
  as there are other threads, since each may hold a slot; and a create that found no
  index may come too late to start one (`store_lost_index`). The type of the store is
  proved (`TypeCorrect`) rather than run.
* `ImplementsFlow` is checked, and proved, for clients that keep apart only
  (`ClientsApart`): requests that share a session may interleave inside a step, which
  the code accepts. What survives sharing is `ReachableOnly` and `OnlyLegalCallsAct`.
  `ScenarioFlow` lets a flow open above the cap, by up to the number of the other
  threads: with the exact cap as the guard of `Open`, `scenario_flow` is violated, as
  two first requests pass the check together.
* `Runnable` in `SidecarLoad` is written from what the runtime needs of a sidecar,
  not from the checks that `validate` makes: a create has to name a field of the message,
  as it looks nowhere else. `VerdictExact` is the equivalence but for the one
  thing that `validate` lets pass, creates with `key` alone (`Futile`): the document
  without them is runnable exactly if the document is accepted (see below).
* `FiledUnderOwnId` is about responses that a create keeps. A request that is kept is the
  client's, and an update stores the body it is given under the key that the path names.
  The identifiers that are excepted are requests as a whole: with the empty pointer
  `align_identifier` returns before it writes anything.
* `RightValidator` is right up to the hash, which is all the cache compares (see below).
* `OwnSession` says of each step that the instance of an unnamed connection, while it
  lives, is dropped only by a connection whose client asked for that very name.
  That a client may is listed below. HTTP and gRPC requests that name a session
  of the minted form, and resets, are outside this registry.
* `Dead` is defined by closed sets rather than by a search, so that `DeadExact`
  compares the worklist with something of another kind.
* `RouteExact` compares the walk with a definition by comparison of templates: at
  the first segment where two matching templates differ, a literal beats a
  parameter, and of two parameters the one declared first wins.
* `Gated` states what the document allows in terms of the request and the best
  operation, not of the stages the handler went through.
* `Released` leaves out the phase `leaked` (see below).
* `ReadyIsOurs` excepts ports that another process has had at some time: the code
  cannot tell another listener from its child, and says so
  (`specs/README.md:60`). What it shows is that nothing else is mistaken for a child
  that serves, such as a probe of the SDK's own or a child that failed in between.
* `ResolvedAsWritten` follows references through the files as they stand, without
  cache, recursion order or accumulated depth, and asks for equality when `resolve`
  succeeds and for a reason (`Whole`) when it fails.
* `LoadedAsDeclared` says of the paths and routes alone when a server starts
  (`Servable`), while the code asks the router it has built; and by `Meant` which
  parameters an operation has, while the code deletes and appends.
* `JudgedAsDeclared` judges a request by the document itself; the model judges it by
  the operations loaded from the document. `$defs`, `definitions` and `not`, into which
  the code's normalization also descends, are left out of `NormalizeSchema`.
* `BodiesUsable` has two parts, `XmlWellFormed` and `GeneratedValid`. The latter is
  stated for the schemas in `Manageable`, which names what the
  generator cannot honour: patterns and formats together, variants of a `oneOf` that
  one value may satisfy two of (`Apart`), variants outside the mapping of a discriminator
  or unable to bear its tag (`Taggable`), overlapping `allOf`, and a bound against the
  default of the missing one or a limit of the generator. The last contradicts a text (see
  below).
* `MessageRouted` and `RpcAnswered` constrain what a scenario is asked as much as what
  a client is told: a message or a call in doubt must not move a scenario.

## Fairness

* `SidecarLoad`: weak fairness of a search that was begun (`SearchStep`), in a
  sequential program. The resolver and the document loader are bounded recursion
  within one action; the requests of `http_request` are checked for safety only, with
  deadlock checking on: a request that is neither finished nor able to go on is an
  error.
* `ValidatorCache`: a thread inside a call keeps running. Nobody is obliged to
  call, and `CallsDrain` speaks of executions in which calls stop coming: while
  they come, one thread may trim for ever after the others.
* `Server`: tokio polls a task that was woken, so each task's next step is weakly
  fair; aborts take effect; the owner goes on joining. An accepted request is
  answered: handlers do not block on each other, but the body is read without a
  timeout, so this assumes that the client sends it or goes away. The gRPC loop's
  `select!` is random between a permit and a connection; the permit stays, hence
  weak fairness. Nothing obliges clients to connect, speak or leave, or the owner
  to stop.
* `ProcessServer`: the executor runs the caller (`CallerStep`), the clock reaches the
  deadline, and a kill that was sent is delivered. Nothing obliges the child to make
  progress, other processes to leave a port, or the caller to stop the server, and a
  start may be cancelled at every await.

## Proofs

All theorems hold for every value of the constants under the named assumptions
beside them, which TLC evaluates on the instances above.

| theorem | states | inductive argument |
|---|---|---|
| `StoreProofs!TypeCorrect` | `Spec => []TypeOK`, clear included | each action assigns within the type |
| `StoreProofs!CounterIsExact` | the counter equals the entries plus the slots held by threads between reservation and insertion or between removal and decrement | the accounting itself plus the places of threads; cardinalities of the sets of threads change by one per step |
| `StoreProofs!CapacityHolds` | entries never exceed the limit | the counter never exceeds the limit because a compare-exchange succeeds only on the value that was compared |
| `StoreProofs!StoreIsLinearizable` | `Spec => LinearStore` without clear | step simulation: each action is one step of `LinearStore` or a stutter; a thread between its map and its index operation has exactly that work left, and one that holds the index keeps it still |
| `StoreProofs!OneCallerIsServed` | `Spec => ImplementsSequentialStore` for one thread, clear included | `OneInv`: see below |
| `ScenarioProofs!OvershootBounded` | registered sessions plus threads past the cap check are at most cap + threads - 1 | threads between check and insertion are counted with the registry |
| `ScenarioProofs!IsolationHolds` | a request works on an instance of its own scenario and session only | every instance knows its owner; registry and threads agree with it, including instances whose registry entry is gone |
| `ScenarioProofs!OnlyReachableStates` | instances are in reachable states | a stale snapshot is itself reachable, and a move goes from the snapshot along a declared step |
| `SidecarProofs!VerdictIsExact` | parse accepts exactly the documents that are runnable without their futile creates | the least offending entry exists when any does (`LeastElement`) |
| `SidecarProofs!LoadTypeCorrect` | the search stays within the document, errors and warnings are declared ones | part of the invariant of the verdict; each error set is a subset of `SidecarError` |
| `SidecarProofs!DeadIsExact` | the dead states are exactly the ones reported | found states and frontier lie in every closed set; when the frontier is empty the found states are closed |
| `ScenarioProofs!OnlyLegalCallsActHolds` | `Spec => OnlyLegalCallsAct`: an instance changes only in a reset, or by a valid call that is legal in the state it was checked against | isolation, plus what a call past its checks has passed; then one case per step of a thread |
| `ScenarioProofs!StoredUnderOwnId` | every generated response that is stored is filed under the identifier it carries, or under a whole request | every table is within the capacity and filed right; one operation of a step keeps both, hence the fold over them does, hence seeding does |
| `ScenarioProofs!TypesHold` | `Spec => []TypeOK` | isolation, reachability and the stores, plus: what threads hold is what their step allows, and there are more identities than registry and threads can refer to |
| `ScenarioProofs!ClientsSeeTheirFlows` | `ClientsApart(Calls) => (Spec => ImplementsFlow)`: clients that keep apart are served as by `ScenarioFlow` | `ApartInv`: see below |
| `ValidatorProofs!CacheStaysBounded` | the cache exceeds its limit by at most the trimming threads | a thread leaves the trimming set only when the cache is within the limit |
| `ValidatorProofs!ValidatorIsRight` | a successful call returns a validator of its hash that compiles | the cache maps keys to schemas with that hash; a call past compiling has a schema that compiles |
| `ValidatorProofs!VictimsAreChosen` | `Spec => []TypeOK`: keys are hashes of schemas, and a thread has a victim exactly while it removes it | the type itself |
| `ServerProofs!StoppedIsReleased` | a stopped server holds nothing | a listener lives as long as its task accepts; aborts happen after drop only; the owner has joined what it has passed |
| `ServerProofs!SessionsDoNotLeak` | registered WebSocket sessions have a live connection | keys of live connections do not change; a release removes the key under every connection that has it |
| `ServerProofs!UnnamedIsAlone` | `Spec => OwnSession`: what an unnamed connection has is dropped by itself or by one that asked for its name | minted names lie below the counter, so a session that the server gave to one connection it gives to no other |
| `ServerProofs!ServerTypes` | `Spec => []TypeOK`, with the limit of every rate limiter | the invariants of the tasks and of the connections |
| `ProcessProofs!ChildServesTheConfig` | the child serves the configuration of the builder in every field but the token, whose presence it keeps | the arguments of a configuration parse back into it, field by field; the child keeps what it parsed |
| `ProcessProofs!ReadyMeansOurs` | a handle is returned only if each listener was accepted for, by the child unless another process has had the port | the listeners are accepted for in turn; a child that holds a port has a configuration that can be served; a port the child does not hold and that accepts is on record as taken |
| `RequestProofs!RpcAnsweredHolds` | what a gRPC client reads, and when a scenario is asked | what each check has established holds until the reply is made; generation is treated by induction on the depth that is left |
| `RequestProofs!MessageRoutedHolds` | where a WebSocket message is routed, and when a scenario is asked | why the message went where it did; the channels read are the channels declared, an invariant of the loop over operations |
| `RequestProofs!LoadedAsDeclaredHolds` | `ContractSpec => []LoadedAsDeclared`: when a server starts, and with which operations | see below |
| `RequestProofs!HandlerTypes` | `Spec => []TypeOK`: an answer exactly when done | part of the invariant of the handler |
| `RequestProofs!RouteExactHolds` | the walk of the trie finds the best match or there is none | see below |
| `RequestProofs!GatedHolds` | only a request the document allows has effects outside the handler | each stage keeps what the earlier ones established (`StageInv`); at the last stage these are `Acceptable` |
| `RequestProofs!MockFaithfulHolds` | a mocked answer is declared, preferred and asked for | the mock is right when it is made and is not touched after, unless a scenario does; the directives read are the last ones of their key, by induction over headers and their directives |

The proofs about HTTP requests are the longest. `RouteExactHolds` relates a trie and
a walk with backtracking to a definition that compares templates, in three steps.
First, `TrieInv` is an invariant of the insertion of operations: the nodes are
the starts of the templates inserted so far; the edges of a node are the matchers
that continue it, without repetition, in the order in which operations introduced
them; the entries of a node are the operations that end there, in their order.
Second, by induction on the segments that are left, the walk from a node succeeds
exactly if an operation below the node fits, and it ends at the template that is
preferred to all others below: the edge it takes is the first one, in the order of
`Before`, below which anything fits, and that order is the order of `Preferred` at the
first segment where templates differ. Third, the values bound on the way back are those
of `Values`: a parameter bound deeper down is kept. `HttpInv` then carries the match
through the handler.

`LoadedAsDeclaredHolds` is about a specification with one step, so all its weight is in
what the parse functions compute. `SieveIs` gives, for the members of a list that are kept,
the increasing enumeration of their places. `OverrideIs` says what is left after n
parameters of an operation had their turn: of the own ones the last of each kind, of
the inherited ones those unlike any. `ParametersMeant` carries this back to the list in the
document, from which parameters in places that are not read have been dropped
before: a parameter is alike only to others in its own place, so what was dropped
could not have replaced one that was kept, and the enumeration keeps the order by which
one is the last. `PartedIs` does the same for media types. `FlattenIs` gives the operations of
the whole document, and with `MatchRouteIf`, which follows from the proof of the router,
a route is shadowed exactly if a path with a GET operation fits it.

`OneCallerIsServed` needs no restriction to calls other than clear, as nothing overlaps
them. `Shelf` is what a listing would answer: the ordering index, without the
identifier that a delete in progress has still to prune, and empty from the moment a
clear has loaded the counter. `OneInv` ties the parts of the store together: the index
names each live resource once and no other, but for the one the call in progress has
stored and not indexed or removed and not pruned (`IndexExact`, `NamedOnce`); what a
create found out on its way holds when it acts (`StillTrue`), which is what fails with
two threads (`store_lost_index`); a clear leaves only what it has still to visit
(`Swept`); a list has collected the front of the index (`Collected`). Then a bijection
between indexed keys and places on shelves makes the counter the length of all shelves
together, `retain` of an identifier that occurs once removes its place, and each step
is one of `SequentialStore` or a stutter.

`ClientsSeeTheirFlows` is the refinement of the scenario runtime: a request that takes
up to seven steps, with other threads between them, is one step of a flow. Its
hypothesis `ClientsApart` says that no two threads have calls about the same session of
the same scenario, and that none resets unless it is alone; `MCFlow` evaluates it on both of its
usages. What separates the flows is `ApartInv`, with one case per place in a call: the
session a thread is about to register is still unregistered; the instance it serves is the
registered one, and still in the state it read; the instance it resets has the initial
state and the seeds up to `planted`. No other thread's step disturbs this: two threads
never hold one instance (`HoldsApart`), and what thread t does leaves the calls,
the registry entries and the instances of all others as they were (`OthersSame`), which
is what `scenario_one_run` breaks for clients that share. The mapping puts the effect of
a request at its use of the store, ahead of the move of the state; that of a reset on an
instance at the visit, ahead of its assignments. Then each action has a lemma: `Resolve` and
`ResetAll` are `Begin` or `Bypass`, `InsertSession` is `Open`, `CheckCap` is `Refuse` or nothing,
`Snapshot` is `Serve` when it refuses, `UseStore` is `Serve`, `Visit` is `ResetOne`; `Move` and the
steps of a reset change no flow. `InsertSession` needs `SessionsBounded` besides: it is why
the cap is overshot by no more than `Open` allows. The operators of the instance `Flows`
are those of the runtime, one lemma each.

What the theorems assume. `TLAPS` treats the constants as arbitrary, so what
documents, calls and messages look like has to be said:

* `Declared` machines and seeds are what a validated sidecar holds
  (`MachineAssumption`, `SeedAssumption`); `VerdictIsExact` is about that validation. The
  shape "seed" is the model's mark of seeded items.
* `CallsAssumption`: a body has one identifier at most, and a call names one scenario at
  most, an optional value; likewise the target of a declared step. Responses are
  told from requests by their shape, a mark of the model. `CatalogueAssumption`: an
  operation has one store interaction at most, and that one place of its identifier.
  `NoStateAssumption`: the
  value of an empty snapshot is no state. `ReferenceAssumption`: identities of
  instances do not run out, as memory does not in the model.
* `HashAssumption`, `PortsAssumption`, `ConfigsAssumption`, `HandshakeAssumption` and the
  bounds in `Nat` say what their constants are.
* `MessagesAssumption`, `ServicesAssumption`, `RpcCallsAssumption`: descriptors that the
  protobuf compiler accepts (no field number twice, an output type that exists) and
  calls with a frame of some size. `MessageCasesAssumption`: AsyncAPI documents of the
  shapes that parsing looks for, names in version 3 being those of all channels;
  `TextsAssumption`: "generated" is the model's name for a payload and not a text.
* `ContractsAssumption`: the parts of an OpenAPI document that are lists are sequences,
  and of the members of a path those count that are named by a method. About schemas, and
  what `Normalized` makes of them, nothing is assumed.
* `FamiliesAssumption`: paths and templates are sequences of segments, headers of
  directives, responses of entries. A status "none" and the media types "none" and
  "problem" are excluded because the model uses these names for an absent value and a
  problem document; a document cannot declare them. A callback has a URL.
  No configuration has scenarios and an upstream, which `from_config_with` refuses.

Only model-checked: everything temporal with fairness (`Ends`, `CallsDrain`,
`ShutdownReturns`, `DropReleases`, `StartReturns`, `NothingLeft`), and what is said of
recursive data,
`ResolvedAsWritten`, `JudgedAsDeclared` and `BodiesUsable`: `Schema`,
`Payload`, `RefResolver` and `OpenApiRequest` describe trees of unbounded depth by
RECURSIVE operators, about which the prover has no induction. `Router`, `Negotiation`,
`OpenApiDocument` and `GrpcCall` recur on a number only, by recursive functions; there the
least number at which a statement fails takes the place of induction (`LeastElement`).

## Where code and text disagree

Shown by a run:

* `store_lost_index`: `contains_sync` and `insert_sync` on the namespace index are
  two steps (`C/store.rs:137-138`). When two first creates of a namespace both see
  no index, the loser's resource is stored and never listed; the test at
  `C/store.rs:389` asserts that all are.
* `scenario_one_run`: the comment at `R/http/scenarios.rs:683-684` wants racing
  first requests to share an instance; the value `insert_sync` hands back is the
  caller's own, so the loser works on an instance nobody sees again.
* `validator_race`: `specs/README.md:57` says that the loser of an insertion race
  reads the winner's value; trimming may remove it first, and a valid request is
  then refused.
* `http_accept`: `best_media_type` keeps one entry of the Accept header before the
  declared types are known (`R/http/negotiate.rs:121`), so that
  `Accept: application/xml, application/json` is answered 406 by a response that
  is declared as JSON, where `README.md:149` and `:171` keep 406 for a header that
  matches nothing. The list that `negotiate_media_type` could go through never has
  more than one entry.

Met while modelling, without a run of their own:

* `README.md:602-603` says that the bounds of integers, strings and arrays are always
  honoured. A bound that is missing has a default, and where the two cross the maximum
  gives way (`C/faker.rs:178-187`, `:211-220`, `:259-265`): a maximum below the default
  minimum, `maxItems: 0` and `maxLength: 0` give values out of bounds. So do `minItems`
  and `minLength` beyond the generator's own limits, and a format with bounds of
  length. `Manageable` excepts all of these;
* `README.md:604-605` says that two schemas never share a validator. The key is a hash of
  64 bits (`C/validate.rs:30`) and the schema is not kept beside it, so two schemas with
  one hash do; `validator_cache` has such a pair, and `RightValidator` allows for it;
* a connection that names no session is given `ws-n` from the space in which clients
  choose names (`R/http/mod.rs:91-94`, `R/http/ws_handler.rs:83-90`). A client that asks
  for `ws-0` shares the state of a connection that did not ask for company, and drops it
  when it closes, where the comment at `ws_handler.rs:85` says that connections that
  want to share have to say so;
* a create with `key` but no `keyFrom` passes validation (`C/sidecar.rs:427`) and can only
  answer 404 (`R/http/scenarios.rs:761-772`), where a test has it that creates take
  `keyFrom` (`C/sidecar.rs:740-741`);
* while a create is between its entry and its index, another thread may delete the entry,
  create it again and index it; the first create then enters the identifier a second time,
  and lists show the entry twice. `C/store.rs:17-18` speaks of an identifier that is
  indexed and not yet present as the one interleaving there is;
* a `clear` that overlaps other operations leaves the counter off by their
  contributions for good (`C/store.rs:223`), so the accounting theorems exclude it;
* a full store answers `CapacityExceeded` also for a key that exists
  (`README.md:366` lists a conflict);
* the comment at `C/store.rs:111-112` calls the cap advisory; it is exact;
* the session cap can be overshot by racing first requests (`README.md:270`,
  `R/http/scenarios.rs:666`), by at most the number proved;
* of two racing requests in one session, both may act on the same state
  (`README.md:410`, `R/http/scenarios.rs:634`);
* a reset is not atomic with respect to requests of its session
  (`R/http/scenarios.rs:244-248`, `:357`);
* an operation that no state of the scenario names is refused with a conflict once
  any scenario governs it (`R/http/scenarios.rs:160-161`, `:580`);
* a gRPC update stores the request's message (`R/http/scenarios.rs:892`), where
  `:437` speaks of the response;
* `UnusedOperation` is reported once per scenario that does not use the operation,
  not once per sidecar (`C/sidecar.rs:289`, `:478-482`);
* validation does not ask whether the path of an operation has the parameter that `key`
  names, nor whether an empty pointer (`C/sidecar.rs:489-491`) leaves
  a response a place for its identifier (`R/http/scenarios.rs:779`);
* a WebSocket that ends releases its session also when the session was named and
  another connection is using it (`R/http/ws_handler.rs:88`, `:225-231`), and the
  release runs after the client has gone, so a client that reconnects at once may
  still meet a full cap (`crates/specmock-runtime/tests/ws_scenarios.rs:182`);
* the rate limiter counts in fixed windows: twice the limit fits into a second
  across two of them (`R/http/ws_handler.rs:22`);
* an Accept entry with `q=0` is the last choice rather than a refusal
  (`R/http/negotiate.rs:120`), and a response without declared content drops the
  body that a scenario stored for it (`R/http/mod.rs:627`);
* an unparsable `code=` directive withdraws an earlier one
  (`R/http/negotiate.rs:55-83`), and `resolve_callback_url` keeps expressions it cannot
  resolve verbatim in the URL it calls, if that is still a valid one;
* comments in `R/http/openapi.rs` (`:51`, `:101`, `:110`) speak of declaration order;
  serde_json without `preserve_order` keeps maps in the order of their keys;
* a parameter of type `["null", "integer"]` reads every text as a string and refuses
  it, `NaN` for a nullable number is read as null and accepted, an enumeration of
  numbers without a type refuses all of them, and `nullable` without a type is ignored
  (`R/http/openapi.rs:920-1001`);
* the depth limit of the resolver counts ordinary nesting as well as references
  (`C/ref_resolver.rs:117-186`);
* the faker draws from the range between the first and the last mapped variant, which
  may hold variants the mapping does not name, contrary to its comment
  (`C/faker.rs:334-370`); it writes the tag into whatever variant it chose, and a value
  it made for one variant of a `oneOf` may satisfy another as well;
* two channels of an AsyncAPI 3 document with equal definitions are one to an operation
  that refers to either: the first by name (`R/ws/asyncapi.rs:112-116`);
* a scenario conflict over gRPC is ALREADY_EXISTS where the comment at
  `R/grpc/protobuf.rs:312-316` says FAILED_PRECONDITION; every content type that begins
  with `application/grpc` is accepted, `application/grpc-web` too; the members of a
  failure reach clients in `x-specmock-errors` only, not in `grpc-status-details-bin`;
  a scenario that forces 200 without a body is answered INTERNAL; the state has moved
  before a stored body is found not to fit the output message; a message type that
  contains itself other than in a map is always INTERNAL; `seed + 1` may overflow;
* in process mode the token for control endpoints is printed by the child to a stdout
  that the SDK discards, where `README.md:444-447` speaks of "the token printed at
  startup"; HTTP and gRPC ports are found one after the other by binding and closing
  and may be the same one; a start that is cancelled at an await leaves the child
  running;
* `SidecarError::UnknownState` is never constructed;
* a start whose gRPC part fails leaves the HTTP task running, detached, with its
  port (`R/lib.rs:323`). This is the phase `leaked`.

## Not modelled

* Wording: titles and details of problems, log lines, warnings, error texts, the
  redaction of paths in them.
* Text below the level of names: splitting of paths, headers, query strings and
  references, percent-decoding, the words that the faker writes for each format, all
  escaped characters but one.
* What libraries decide: which values a JSON schema accepts is an input to the
  handler and the definition `Valid` to the faker; parsing of YAML and JSON, compiling
  of descriptors, protobuf wire format.
* Read-only queries (`session_state`, `sessions`) and accessors of the SDK.
* A client that stalls in the middle of a body: the code has no timeout for it.
* Callbacks after they were spawned: nothing in the code orders or retries them.
* Type definitions and re-exports (`C/contract.rs`, `C/lib.rs`).

## Plan

1. Done: store, scenario runtime, sidecar, validator cache, server lifecycle,
   WebSocket connections, process mode, HTTP requests with routing and negotiation, gRPC
   calls and WebSocket messages, each with the theorems above.
2. Done, model-checked: generated bodies (`http_request`), references and the judgement
   of requests (`sidecar_load`).
3. Theorems still to prove: the cache of `RefResolver`, which does not recur over trees.
