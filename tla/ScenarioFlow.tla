---------------------------- MODULE ScenarioFlow ----------------------------
(***************************************************************************)
(* What scenario execution promises: every session of every scenario is a  *)
(* flow with one state and one store; a request takes effect at one        *)
(* instant, in full or not at all, and its answer is a function of the     *)
(* flow it addresses.  A flow is opened, fresh and seeded, by its first    *)
(* request while the cap allows, put back by a reset and forgotten by a    *)
(* release.                                                                *)
(***************************************************************************)
EXTENDS ScenarioModel

CONSTANTS Thread, Calls, SessionKey, MaxSessions

VARIABLES
    flow,      \* [scenario, session] -> [state, table], partial
    pending,   \* per thread: the call in progress
    answer,    \* per thread: the outcome of its last call
    todo       \* per thread: the flows its reset has still to put back

vars == <<flow, pending, answer, todo>>

NoCall == [op |-> "none"]

Fresh(sc) == [state |-> Machine[sc].initial, table |-> SeedTable(sc)]

Key(c) == CHOOSE k \in SessionKey : k.scenario \in ScenarioOf(c) /\ k.session = c.session
Op(c) == CHOOSE op \in ByRequest(c.route) : TRUE

\* The flow after a request and the answer to it.
Served(f, c) ==
    LET m  == Machine[Key(c).scenario]
        op == Op(c)
        result == StoreResult(f.table, op, c)
        next == NextState(m, f.state, op.name)
    IN IF ~Allows(m, f.state, op.name) THEN [flow |-> f, answer |-> Failed("IllegalOperation")]
       ELSE IF ~c.validated THEN [flow |-> f, answer |-> Ungoverned]
       ELSE [flow |-> [state |-> IF next = {} THEN f.state ELSE CHOOSE s \in next : TRUE,
                       table |-> result.table],
             answer |-> Overridden(result.outcome, m, f.state, op)]

Respond(t, outcome) ==
    /\ pending' = [pending EXCEPT ![t] = NoCall]
    /\ answer' = [answer EXCEPT ![t] = outcome]

Init ==
    /\ flow = [k \in {} |-> {}]
    /\ pending = [t \in Thread |-> NoCall]
    /\ answer = [t \in Thread |-> Ungoverned]
    /\ todo = [t \in Thread |-> {}]

\* A call that addresses no flow is answered at once.
Bypass(t, c) ==
    /\ pending[t] = NoCall
    /\ c.op = "resolve"
    /\ \/ c.preferCode /\ Respond(t, Ungoverned)
       \/ ~c.preferCode /\ ScenarioOf(c) = {} /\ c.scenario # {} /\ Respond(t, Failed("UnknownScenario"))
       \/ ~c.preferCode /\ ScenarioOf(c) = {} /\ c.scenario = {} /\ Respond(t, Ungoverned)
       \/ ~c.preferCode /\ ScenarioOf(c) # {} /\ ByRequest(c.route) = {} /\ Respond(t, Ungoverned)
    /\ UNCHANGED <<flow, todo>>

Begin(t, c) ==
    /\ pending[t] = NoCall
    /\ \/ c.op = "resolve" /\ ~c.preferCode /\ ScenarioOf(c) # {} /\ ByRequest(c.route) # {}
       \/ c.op = "reset"
    /\ pending' = [pending EXCEPT ![t] = c]
    /\ answer' = [answer EXCEPT ![t] = Ungoverned]
    /\ todo' = [todo EXCEPT ![t] = IF c.op = "reset" THEN SessionKey ELSE @]
    /\ UNCHANGED flow

Release(t, c) ==
    /\ pending[t] = NoCall
    /\ c.op = "release"
    /\ ScenarioOf(c) # {}
    /\ flow' = Drop(flow, Key(c))
    /\ Respond(t, Ungoverned)
    /\ UNCHANGED todo

\* The cap is checked before the registration, so first requests of several
\* threads can pass it together: every thread but one may add a flow above it.
Open(t) ==
    /\ pending[t].op = "resolve"
    /\ Key(pending[t]) \notin DOMAIN flow
    /\ Cardinality(DOMAIN flow) < MaxSessions + Cardinality(Thread) - 1
    /\ flow' = Put(flow, Key(pending[t]), Fresh(Key(pending[t]).scenario))
    /\ UNCHANGED <<pending, answer, todo>>

Refuse(t) ==
    /\ pending[t].op = "resolve"
    /\ Key(pending[t]) \notin DOMAIN flow
    /\ Cardinality(DOMAIN flow) >= MaxSessions
    /\ Respond(t, Failed("SessionCapExceeded"))
    /\ UNCHANGED <<flow, todo>>

Serve(t) ==
    LET k == Key(pending[t]) IN
    /\ pending[t].op = "resolve"
    /\ k \in DOMAIN flow
    /\ flow' = [flow EXCEPT ![k] = Served(@, pending[t]).flow]
    /\ Respond(t, Served(flow[k], pending[t]).answer)
    /\ UNCHANGED todo

ResetOne(t, k) ==
    /\ k \in todo[t]
    /\ flow' = IF k \in DOMAIN flow THEN [flow EXCEPT ![k] = Fresh(k.scenario)] ELSE flow
    /\ todo' = [todo EXCEPT ![t] = @ \ {k}]
    /\ UNCHANGED <<pending, answer>>

EndReset(t) ==
    /\ pending[t].op = "reset"
    /\ todo[t] = {}
    /\ Respond(t, Ungoverned)
    /\ UNCHANGED <<flow, todo>>

Next == \E t \in Thread :
    \/ \E c \in Calls[t] : Bypass(t, c) \/ Begin(t, c) \/ Release(t, c)
    \/ Open(t) \/ Refuse(t) \/ Serve(t) \/ EndReset(t)
    \/ \E k \in SessionKey : ResetOne(t, k)

Spec == Init /\ [][Next]_vars

=============================================================================
