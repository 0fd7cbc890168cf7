-------------------------- MODULE ScenarioRuntime --------------------------
(***************************************************************************)
(* Scenario execution for one running server                               *)
(* (crates/specmock-runtime/src/http/scenarios.rs): the registry of live   *)
(* instances and the threads that resolve requests, reset and release      *)
(* through it.  One action is one atomic step of the code: one operation   *)
(* on the registry (scc locks the key's bucket), one critical section of   *)
(* an instance's mutex, or one store operation.  Instances are shared by   *)
(* reference (Arc): a thread keeps the one it obtained, registered or not. *)
(***************************************************************************)
EXTENDS ScenarioModel

CONSTANTS
    Thread,        \* request, control and connection threads
    Calls,         \* thread -> the calls it may make
    Reference,     \* identities for the instances alive at one time
    MaxSessions    \* max_sessions

ASSUME ThreadAssumption == IsFiniteSet(Thread) /\ Thread # {}
ASSUME MaxSessionsAssumption == MaxSessions \in Nat

\* Memory is not a bound: there are more identities than can be in use at one time.
ASSUME ReferenceAssumption ==
    IsFiniteSet(Reference) => Cardinality(Reference) >= 2 * Cardinality(Thread) + MaxSessions

VARIABLES
    sessions,    \* [scenario, session] -> reference, partial: the registry
    heap,        \* reference -> instance, partial: the instances in use
    pc,          \* per thread: the next atomic step of its call, or "idle"
    call,        \* per thread: the call in progress
    held,        \* per thread: the reference it holds, optional
    snap,        \* per thread: the state it read from the instance
    out,         \* per thread: the outcome so far; of the last call when idle
    unvisited,   \* per thread: registry keys its reset has still to visit
    planted      \* per thread: seed items its reset has put back

vars == <<sessions, heap, pc, call, held, snap, out, unvisited, planted>>

-----------------------------------------------------------------------------
NoCall == [op |-> "none"]
NoState == "none"

\* A message has one identifier and one text at most, a request one message, and a call
\* names one scenario or leaves it to the default.  Responses are told apart by shape.
Message(m) ==
    m = [id |-> m.id, text |-> m.text, shape |-> m.shape] /\ AtMostOne(m.id) /\ AtMostOne(m.text)

ASSUME CallsAssumption ==
    /\ DOMAIN Calls = Thread
    /\ \A c \in UNION Range(Calls) :
          /\ c.op # "reset" => AtMostOne(c.scenario)
          /\ c.op = "resolve" =>
                /\ AtMostOne(c.request)
                /\ \A m \in c.request \cup {c.response} : Message(m)
                /\ \A m \in c.request : m.shape # "response"

ASSUME NoStateAssumption == \A sc \in Range(Scenarios) : NoState \notin DOMAIN Machine[sc].states

SessionKey == [scenario : Range(Scenarios),
               session : {c.session : c \in {d \in UNION Range(Calls) : d.op # "reset"}}]

Scenario(c) == CHOOSE sc \in ScenarioOf(c) : TRUE
Operation(c) == CHOOSE op \in ByRequest(c.route) : TRUE

\* Faulty variant: instances are registered by scenario alone.
KeyedByScenario(c) ==
    [scenario |-> Scenario(c), session |-> CHOOSE s \in {k.session : k \in SessionKey} : TRUE]

\* The registry key of a resolve or release call.
KeyOf(c) == [scenario |-> Scenario(c), session |-> c.session]

\* A new instance for the flow and the session a call names.
FreshInstance(c) ==
    [scenario |-> Scenario(c), session |-> c.session,
     state |-> Machine[Scenario(c)].initial, table |-> SeedTable(Scenario(c))]

\* The instance thread t holds.
Mine(t) == heap[CHOOSE r \in held[t] : TRUE]

\* A reset holds a shared lock on the bucket of the entry it visits: lookups and
\* changes of that entry wait until the instance is reset, other resets do not.
Visiting(k) == \E t \in Thread : pc[t] \in {"reset_state", "reset_clear", "reset_seed"}
                                 /\ sessions[k] \in held[t]
Blocked(k) == k \in DOMAIN sessions /\ Visiting(k)

Goto(t, step) == pc' = [pc EXCEPT ![t] = step]

\* An instance lives as long as the registry or a thread refers to it.
Referred(registry, holding) == Range(registry) \cup UNION Range(holding)
Surviving(h, registry, holding) == Restrict(h, DOMAIN h \cap Referred(registry, holding))

WithMine(t, instance) == [heap EXCEPT ![CHOOSE r \in held[t] : TRUE] = instance]

\* The call returns: its locals go, its outcome stays for the caller to read.
Return(t, outcome) ==
    /\ Goto(t, "idle")
    /\ out' = [out EXCEPT ![t] = outcome]
    /\ call' = [call EXCEPT ![t] = NoCall]
    /\ held' = [held EXCEPT ![t] = {}]
    /\ snap' = [snap EXCEPT ![t] = NoState]

\* The call goes on holding reference r.
Hold(t, r, step) ==
    /\ Goto(t, step)
    /\ held' = [held EXCEPT ![t] = {r}]
    /\ UNCHANGED <<call, snap, out>>

-----------------------------------------------------------------------------
Init ==
    /\ sessions = [k \in {} |-> {}]
    /\ heap = [r \in {} |-> {}]
    /\ pc = [t \in Thread |-> "idle"]
    /\ call = [t \in Thread |-> NoCall]
    /\ held = [t \in Thread |-> {}]
    /\ snap = [t \in Thread |-> NoState]
    /\ out = [t \in Thread |-> Ungoverned]
    /\ unvisited = [t \in Thread |-> {}]
    /\ planted = [t \in Thread |-> 0]

-----------------------------------------------------------------------------
(* resolve_with *)

\* The outcome of a call that never reaches an instance, optional: the bypass,
\* then the scenario, then the operation, in the order the code asks.
Settled(c) ==
    IF c.preferCode THEN {Ungoverned}
    ELSE IF ScenarioOf(c) = {}
         THEN {IF c.scenario # {} THEN Failed("UnknownScenario") ELSE Ungoverned}
    ELSE IF ByRequest(c.route) = {} THEN {Ungoverned}
    ELSE {}

Resolve(t, c) ==
    /\ pc[t] = "idle"
    /\ c.op = "resolve"
    /\ \/ \E outcome \in Settled(c) :
             /\ out' = [out EXCEPT ![t] = outcome]
             /\ UNCHANGED <<pc, call>>
       \/ /\ Settled(c) = {}
          /\ Goto(t, "get")
          /\ call' = [call EXCEPT ![t] = c]
          /\ out' = [out EXCEPT ![t] = Ungoverned]
    /\ UNCHANGED <<sessions, heap, held, snap, unvisited, planted>>

\* The first look at the registry.
GetSession(t) ==
    LET k == KeyOf(call[t]) IN
    /\ pc[t] = "get"
    /\ ~Blocked(k)
    /\ \/ k \in DOMAIN sessions /\ Hold(t, sessions[k], "snapshot")
       \/ k \notin DOMAIN sessions /\ Goto(t, "cap") /\ UNCHANGED <<call, held, snap, out>>
    /\ UNCHANGED <<sessions, heap, unvisited, planted>>

\* Faulty variant: the cap admits one session more.
CheckCapLate(t) ==
    /\ pc[t] = "cap"
    /\ \/ /\ Cardinality(DOMAIN sessions) > MaxSessions
          /\ Return(t, Failed("SessionCapExceeded"))
       \/ /\ Cardinality(DOMAIN sessions) <= MaxSessions
          /\ Goto(t, "get_again")
          /\ UNCHANGED <<call, held, snap, out>>
    /\ UNCHANGED <<sessions, heap, unvisited, planted>>

\* The cap on live instances; under it the thread builds and seeds an instance
\* nobody else can see yet.
CheckCap(t) ==
    /\ pc[t] = "cap"
    /\ \/ /\ Cardinality(DOMAIN sessions) >= MaxSessions
          /\ Return(t, Failed("SessionCapExceeded"))
       \/ /\ Cardinality(DOMAIN sessions) < MaxSessions
          /\ Goto(t, "get_again")
          /\ UNCHANGED <<call, held, snap, out>>
    /\ UNCHANGED <<sessions, heap, unvisited, planted>>

\* The second look: a concurrent request may have registered the session.
GetAgain(t) ==
    LET k == KeyOf(call[t]) IN
    /\ pc[t] = "get_again"
    /\ ~Blocked(k)
    /\ \/ k \in DOMAIN sessions /\ Hold(t, sessions[k], "snapshot")
       \/ k \notin DOMAIN sessions /\ Goto(t, "insert") /\ UNCHANGED <<call, held, snap, out>>
    /\ UNCHANGED <<sessions, heap, unvisited, planted>>

\* insert_sync refuses a key that is present and hands the supplied pair back,
\* so a thread that lost the race goes on with the instance it built itself.
InsertSession(t) ==
    LET k == KeyOf(call[t])
        r == CHOOSE x \in Reference \ DOMAIN heap : TRUE
    IN /\ pc[t] = "insert"
       /\ Reference \ DOMAIN heap # {}
       /\ ~Blocked(k)
       /\ sessions' = IF k \in DOMAIN sessions THEN sessions ELSE Put(sessions, k, r)
       /\ heap' = Put(heap, r, FreshInstance(call[t]))
       /\ Hold(t, r, "snapshot")
       /\ UNCHANGED <<unvisited, planted>>

\* Faulty variant: request validation does not gate the call.
UnvalidatedSnapshot(t) ==
    LET m == Machine[Scenario(call[t])]
        s == Mine(t).state
    IN /\ pc[t] = "snapshot"
       /\ \/ /\ ~Allows(m, s, Operation(call[t]).name)
             /\ Return(t, Failed("IllegalOperation"))
          \/ /\ Allows(m, s, Operation(call[t]).name)
             /\ snap' = [snap EXCEPT ![t] = s]
             /\ Goto(t, "store")
             /\ UNCHANGED <<call, held, out>>
       /\ heap' = Surviving(heap, sessions, held')
       /\ UNCHANGED <<sessions, unvisited, planted>>

\* Read the state under the lock; legality and validation decide on that value.
Snapshot(t) ==
    LET m == Machine[Scenario(call[t])]
        s == Mine(t).state
        legal == Allows(m, s, Operation(call[t]).name)
    IN /\ pc[t] = "snapshot"
       /\ \/ ~legal /\ Return(t, Failed("IllegalOperation"))
          \/ legal /\ ~call[t].validated /\ Return(t, Ungoverned)
          \/ /\ legal /\ call[t].validated
             /\ snap' = [snap EXCEPT ![t] = s]
             /\ Goto(t, "store")
             /\ UNCHANGED <<call, held, out>>
       /\ heap' = Surviving(heap, sessions, held')
       /\ UNCHANGED <<sessions, unvisited, planted>>

\* Faulty variant: a failed store operation does not advance the machine.
StayOnFailure(t) ==
    LET op == Operation(call[t])
        m  == Machine[Scenario(call[t])]
        result == StoreResult(Mine(t).table, op, call[t])
        outcome == Overridden(result.outcome, m, snap[t], op)
    IN /\ pc[t] = "store"
       /\ \/ /\ NextState(m, snap[t], op.name) = {} \/ outcome.kind \in Failures
             /\ Return(t, outcome)
          \/ /\ NextState(m, snap[t], op.name) # {} /\ outcome.kind \notin Failures
             /\ Goto(t, "move")
             /\ out' = [out EXCEPT ![t] = outcome]
             /\ UNCHANGED <<call, held, snap>>
       /\ heap' = Surviving(WithMine(t, [Mine(t) EXCEPT !.table = result.table]), sessions, held')
       /\ UNCHANGED <<sessions, unvisited, planted>>

\* The store interaction and the override that shapes its outcome.
UseStore(t) ==
    LET op == Operation(call[t])
        m  == Machine[Scenario(call[t])]
        result == StoreResult(Mine(t).table, op, call[t])
        outcome == Overridden(result.outcome, m, snap[t], op)
    IN /\ pc[t] = "store"
       /\ \/ /\ NextState(m, snap[t], op.name) = {}
             /\ Return(t, outcome)
          \/ /\ NextState(m, snap[t], op.name) # {}
             /\ Goto(t, "move")
             /\ out' = [out EXCEPT ![t] = outcome]
             /\ UNCHANGED <<call, held, snap>>
       /\ heap' = Surviving(WithMine(t, [Mine(t) EXCEPT !.table = result.table]), sessions, held')
       /\ UNCHANGED <<sessions, unvisited, planted>>

\* Faulty variant: the operation's target is looked up in another state's steps.
MoveAnywhere(t) ==
    /\ pc[t] = "move"
    /\ \E next \in DOMAIN Machine[Mine(t).scenario].states :
          /\ Return(t, out[t])
          /\ heap' = Surviving(WithMine(t, [Mine(t) EXCEPT !.state = next]), sessions, held')
    /\ UNCHANGED <<sessions, unvisited, planted>>

\* move_to: the target of the snapshot, whatever the state is by now.
Move(t) ==
    LET m == Machine[Scenario(call[t])]
    IN /\ pc[t] = "move"
       /\ \E next \in NextState(m, snap[t], Operation(call[t]).name) :
             /\ Return(t, out[t])
             /\ heap' = Surviving(WithMine(t, [Mine(t) EXCEPT !.state = next]), sessions, held')
       /\ UNCHANGED <<sessions, unvisited, planted>>

-----------------------------------------------------------------------------
(* release, reset_all *)

Release(t, c) ==
    /\ pc[t] = "idle"
    /\ c.op = "release"
    /\ ScenarioOf(c) # {}
    /\ ~Blocked(KeyOf(c))
    /\ sessions' = Drop(sessions, KeyOf(c))
    /\ out' = [out EXCEPT ![t] = Ungoverned]
    /\ heap' = Surviving(heap, sessions', held)
    /\ UNCHANGED <<pc, call, held, snap, unvisited, planted>>

\* Iterate the registry: no snapshot, each key is visited as it is found.
ResetAll(t, c) ==
    /\ pc[t] = "idle"
    /\ c.op = "reset"
    /\ Goto(t, "scan")
    /\ call' = [call EXCEPT ![t] = c]
    /\ out' = [out EXCEPT ![t] = Ungoverned]
    /\ unvisited' = [unvisited EXCEPT ![t] = SessionKey]
    /\ UNCHANGED <<sessions, heap, held, snap, planted>>

Visit(t, k) ==
    /\ pc[t] = "scan"
    /\ k \in unvisited[t]
    /\ unvisited' = [unvisited EXCEPT ![t] = @ \ {k}]
    /\ IF k \in DOMAIN sessions
       THEN Hold(t, sessions[k], "reset_state")
       ELSE UNCHANGED <<pc, call, held, snap, out>>
    /\ UNCHANGED <<sessions, heap, planted>>

ResetState(t) ==
    /\ pc[t] = "reset_state"
    /\ heap' = WithMine(t, [Mine(t) EXCEPT !.state = Machine[Mine(t).scenario].initial])
    /\ Goto(t, "reset_clear")
    /\ UNCHANGED <<sessions, call, held, snap, out, unvisited, planted>>

\* Faulty variant: the store is left as it is.
ResetKeepsStore(t) ==
    /\ pc[t] = "reset_clear"
    /\ Goto(t, "reset_seed")
    /\ planted' = [planted EXCEPT ![t] = 0]
    /\ UNCHANGED <<sessions, heap, call, held, snap, out, unvisited>>

ResetClear(t) ==
    /\ pc[t] = "reset_clear"
    /\ heap' = WithMine(t, [Mine(t) EXCEPT !.table = EmptyTable])
    /\ Goto(t, "reset_seed")
    /\ UNCHANGED <<sessions, call, held, snap, out, unvisited, planted>>

\* apply_seed, one create at a time; the last one ends the visit.
ResetSeed(t) ==
    LET items == SeedItems(Mine(t).scenario)
        item  == items[planted[t] + 1]
    IN /\ pc[t] = "reset_seed"
       /\ \/ /\ planted[t] < Len(items)
             /\ heap' = WithMine(t, [Mine(t) EXCEPT !.table =
                                        StoreCreate(@, item.key, item.value).table])
             /\ planted' = [planted EXCEPT ![t] = @ + 1]
             /\ UNCHANGED <<pc, held>>
          \/ /\ planted[t] = Len(items)
             /\ planted' = [planted EXCEPT ![t] = 0]
             /\ Goto(t, "scan")
             /\ held' = [held EXCEPT ![t] = {}]
             /\ UNCHANGED heap
       /\ UNCHANGED <<sessions, call, snap, out, unvisited>>

EndReset(t) ==
    /\ pc[t] = "scan"
    /\ unvisited[t] = {}
    /\ Return(t, Ungoverned)
    /\ UNCHANGED <<sessions, heap, unvisited, planted>>

-----------------------------------------------------------------------------
\* The next atomic step of the call thread t is in.
Step(t) ==
    \/ GetSession(t) \/ CheckCap(t) \/ GetAgain(t) \/ InsertSession(t)
    \/ Snapshot(t) \/ UseStore(t) \/ Move(t)
    \/ \E k \in SessionKey : Visit(t, k)
    \/ ResetState(t) \/ ResetClear(t) \/ ResetSeed(t) \/ EndReset(t)

Invoke(t) == \E c \in Calls[t] : Resolve(t, c) \/ Release(t, c) \/ ResetAll(t, c)

Next == \E t \in Thread : Step(t) \/ Invoke(t)

Spec == Init /\ [][Next]_vars

-----------------------------------------------------------------------------
(* Properties *)

ResolveSteps == {"get", "cap", "get_again", "insert", "snapshot", "store", "move"}
ResetSteps   == {"scan", "reset_state", "reset_clear", "reset_seed"}

\* Steps at which a thread holds an instance.
ServingSteps   == {"snapshot", "store", "move"}
ResettingSteps == {"reset_state", "reset_clear", "reset_seed"}

\* The registry and the threads refer to live instances, every instance is in
\* use and there is an identity left for another, and a thread holds an instance
\* exactly while its call works on it.
TypeOK ==
    /\ pc \in [Thread -> {"idle"} \cup ResolveSteps \cup ResetSteps]
    /\ DOMAIN sessions \subseteq SessionKey
    /\ DOMAIN heap \subseteq Reference /\ DOMAIN heap # Reference
    /\ DOMAIN heap = Referred(sessions, held)
    /\ \A r \in DOMAIN heap :
          /\ heap[r].scenario \in Range(Scenarios)
          /\ heap[r].state \in DOMAIN Machine[heap[r].scenario].states
          /\ Cardinality(DOMAIN heap[r].table) <= StoreLimit
    /\ \A t \in Thread :
          /\ Cardinality(held[t]) = IF pc[t] \in ServingSteps \cup ResettingSteps THEN 1 ELSE 0
          /\ call[t] \in IF pc[t] = "idle" THEN {NoCall} ELSE Calls[t]
          /\ snap[t] # NoState <=> pc[t] \in {"store", "move"}
          /\ unvisited[t] \subseteq SessionKey
          /\ planted[t] \in Nat

\* Threads the cap has let through that have not registered their instance.
Admitted == {t \in Thread : pc[t] \in {"get_again", "insert"}}

\* The cap is checked before the registration it guards, so concurrent first
\* requests can pass it together; what they can add to the registry is bounded
\* by the number of threads (ScenarioRuntime::instance).
SessionsBounded ==
    Cardinality(DOMAIN sessions) + Cardinality(Admitted)
        <= Cardinality(Thread) + MaxSessions - 1

\* C holds the initial state and whatever a declared step leads to from C.
Closed(m, C) ==
    /\ m.initial \in C
    /\ \A s \in C \cap DOMAIN m.states : \A op \in DOMAIN m.states[s] :
          m.states[s][op].target \subseteq C

\* However calls and resets interleave, an instance is never in a state that its
\* machine cannot reach from the initial one: what Scenario::unreachable_states
\* warns about is dead at run time too.
ReachableOnly ==
    \A r \in DOMAIN heap :
        LET m == Machine[heap[r].scenario] IN
        \A C \in SUBSET DOMAIN m.states : Closed(m, C) => heap[r].state \in C

\* A call works on an instance of the flow and the session it names, and no two
\* entries of the registry share an instance, so no request sees or changes
\* another session's state or store.
SessionsIsolated ==
    /\ \A t \in Thread : pc[t] \in ServingSteps =>
          /\ Mine(t).scenario = Scenario(call[t])
          /\ Mine(t).session = call[t].session
    /\ IsInjective(sessions)

\* An invalid, refused or bypassing request changes nothing, neither state nor
\* store: an instance changes only in a reset, or by a validated request whose
\* operation was legal in the state its legality was checked against.
OnlyLegalCallsAct ==
    [][\A r \in DOMAIN heap \cap DOMAIN heap' : heap'[r] # heap[r] =>
         \E t \in Thread :
            /\ r \in held[t]
            /\ <<pc[t], planted[t]>> # <<pc'[t], planted'[t]>>
            /\ \/ pc[t] \in ResettingSteps
               \/ /\ call[t].validated /\ ~call[t].preferCode
                  /\ Allows(Machine[Scenario(call[t])], snap[t], Operation(call[t]).name)]_vars

\* The identifiers of creates that are keyed by their whole request: a response has
\* no place to carry them (align_identifier returns early on the empty pointer).
FromWholeRequest(spec) ==
    \E from \in spec.keyFrom : from.location = "request" /\ from.pointer = Whole
KeyedByWholeRequest(c) ==
    /\ c.op = "resolve"
    /\ \E op \in ByRequest(c.route) : \E spec \in op.store : FromWholeRequest(spec)
WholeRequests ==
    UNION {UNION {m.text : m \in c.request} :
               c \in {d \in UNION Range(Calls) : KeyedByWholeRequest(d)}}

\* A generated response that a create keeps carries the identifier it is filed under,
\* so reading it back by the identifier the client was handed finds it (apply_store):
\* all but those whose identifier is a whole request.
FiledUnderOwnId ==
    \A r \in DOMAIN heap : \A k \in DOMAIN heap[r].table :
        LET v == heap[r].table[k] IN
        v.shape = "response" => k.id \in v.id \cup v.text \cup WholeRequests

-----------------------------------------------------------------------------
(* What the documentation says and the code does not keep *)

\* scenarios.rs, instance(): whoever loses the race to register a session adopts
\* the winner's instance, so both callers share one run.
OneRunPerSession ==
    \A t \in Thread : pc[t] \in ServingSteps =>
        /\ KeyOf(call[t]) \in DOMAIN sessions
        /\ sessions[KeyOf(call[t])] \in held[t]

-----------------------------------------------------------------------------
(* What the runtime implements.  A request takes effect when it uses the   *)
(* store: from then on the flow is in the state the thread is about to     *)
(* move to.  A reset takes effect on an instance when it visits it.        *)

Holder(k, steps) == {t \in Thread : pc[t] \in steps /\ sessions[k] \in held[t]}

FlowState(k) ==
    IF Holder(k, {"move"}) = {} THEN heap[sessions[k]].state
    ELSE LET c == CHOOSE t \in Holder(k, {"move"}) : TRUE
         IN CHOOSE s \in NextState(Machine[k.scenario], snap[c], Operation(call[c]).name) : TRUE

FlowOf(k) ==
    IF Holder(k, ResettingSteps) # {}
    THEN [state |-> Machine[k.scenario].initial, table |-> SeedTable(k.scenario)]
    ELSE [state |-> FlowState(k), table |-> heap[sessions[k]].table]

Flow == [k \in DOMAIN sessions |-> FlowOf(k)]

Pending == [t \in Thread |-> IF pc[t] = "move" THEN NoCall ELSE call[t]]

Flows == INSTANCE ScenarioFlow
            WITH flow <- Flow, pending <- Pending, answer <- out, todo <- unvisited

\* Whoever has a session to himself gets the flow as declared: each of his
\* requests is served in full or refused in full, and answered from that flow
\* alone, whatever other sessions do meanwhile.
ImplementsFlow == Flows!Spec

\* Every client keeps to sessions of his own, and only a lone client resets.
ClientsApart(calls) ==
    \A t, u \in Thread : t # u => \A c \in calls[t], d \in calls[u] :
        c.op # "reset" /\ d.op # "reset" /\ KeyOf(c) # KeyOf(d)

=============================================================================
