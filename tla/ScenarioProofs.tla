--------------------------- MODULE ScenarioProofs ---------------------------
(***************************************************************************)
(* Proofs about ScenarioRuntime, for every sidecar, every set of threads   *)
(* and every calls they make: the types of the state, how far concurrent   *)
(* first requests overshoot the session cap, that sessions are isolated,   *)
(* that an instance only reaches states its machine declares reachable,    *)
(* that only a call legal in the state of the machine acts, that every     *)
(* stored resource is filed under its own id, and that clients which keep  *)
(* apart are served as by the flows of ScenarioFlow.                       *)
(***************************************************************************)
EXTENDS ScenarioRuntime, FiniteSetTheorems, LeastElement, TLAPS

Steps == {"idle"} \cup ResolveSteps \cup ResetSteps

-----------------------------------------------------------------------------
(* The session cap *)

CapInv ==
    /\ pc \in [Thread -> Steps]
    /\ IsFiniteSet(DOMAIN sessions)
    /\ SessionsBounded

\* At first nobody is registered or admitted.
LEMMA CapInit == Init => CapInv
<1> SUFFICES ASSUME Init PROVE CapInv
  OBVIOUS
<1>1. pc \in [Thread -> Steps]
  BY DEF Init, Steps
<1>2. DOMAIN sessions = {} /\ Admitted = {}
  BY DEF Init, Admitted
<1>3. Cardinality({}) = 0 /\ IsFiniteSet({})
  BY FS_EmptySet
<1>4. Cardinality(Thread) \in Nat /\ Cardinality(Thread) # 0
  BY FS_CardinalityType, FS_EmptySet, ThreadAssumption
<1> QED
  BY <1>1, <1>2, <1>3, <1>4, MaxSessionsAssumption DEF CapInv, SessionsBounded

\* A step of one thread that neither admits it nor registers a session.
LEMMA CapFrame ==
  ASSUME CapInv,
         pc' \in [Thread -> Steps],
         Admitted' \subseteq Admitted,
         DOMAIN sessions' \subseteq DOMAIN sessions
  PROVE  CapInv'
<1>1. IsFiniteSet(Admitted)
  BY FS_Subset, ThreadAssumption DEF Admitted
<1>2. Cardinality(Admitted') <= Cardinality(Admitted) /\ IsFiniteSet(Admitted')
  BY <1>1, FS_Subset
<1>3. /\ Cardinality(DOMAIN sessions') <= Cardinality(DOMAIN sessions)
      /\ IsFiniteSet(DOMAIN sessions')
  BY FS_Subset DEF CapInv
<1>4. /\ Cardinality(Thread) \in Nat
      /\ Cardinality(Admitted) \in Nat /\ Cardinality(Admitted') \in Nat
      /\ Cardinality(DOMAIN sessions) \in Nat /\ Cardinality(DOMAIN sessions') \in Nat
  BY <1>1, <1>2, <1>3, FS_CardinalityType, ThreadAssumption DEF CapInv
<1> QED
  BY <1>2, <1>3, <1>4, MaxSessionsAssumption DEF CapInv, SessionsBounded

\* One thread passes the check, registers or returns at a time.
LEMMA CapNext == CapInv /\ [Next]_vars => CapInv'
<1> SUFFICES ASSUME CapInv, [Next]_vars PROVE CapInv'
  OBVIOUS
<1>1. CASE UNCHANGED vars
  BY <1>1, CapFrame DEF CapInv, vars, Admitted
<1>2. ASSUME NEW t \in Thread, CheckCap(t) PROVE CapInv'
  <2>1. CASE Cardinality(DOMAIN sessions) >= MaxSessions
    <3>1. pc' = [pc EXCEPT ![t] = "idle"] /\ sessions' = sessions
      BY <1>2, <2>1, MaxSessionsAssumption, FS_CardinalityType DEF CheckCap, Return, Goto, CapInv
    <3> QED
      BY <3>1, CapFrame DEF CapInv, Steps, Admitted
  <2>2. CASE Cardinality(DOMAIN sessions) < MaxSessions
    <3>1. pc' = [pc EXCEPT ![t] = "get_again"] /\ sessions' = sessions
      BY <1>2, <2>2, MaxSessionsAssumption, FS_CardinalityType DEF CheckCap, Goto, CapInv
    <3>2. pc' \in [Thread -> Steps]
      BY <3>1 DEF CapInv, Steps, ResolveSteps
    <3>3. Cardinality(Admitted') <= Cardinality(Thread) /\ IsFiniteSet(Admitted')
      BY FS_Subset, ThreadAssumption DEF Admitted
    <3>4. /\ Cardinality(Thread) \in Nat /\ Cardinality(Admitted') \in Nat
          /\ Cardinality(DOMAIN sessions) \in Nat
      BY <3>3, FS_CardinalityType, ThreadAssumption DEF CapInv
    <3> QED
      BY <2>2, <3>1, <3>2, <3>3, <3>4, MaxSessionsAssumption DEF CapInv, SessionsBounded
  <2> QED
    BY <2>1, <2>2, MaxSessionsAssumption, FS_CardinalityType DEF CapInv
<1>3. ASSUME NEW t \in Thread, InsertSession(t) PROVE CapInv'
  <2> DEFINE k == KeyOf(call[t])
  <2>1. pc[t] = "insert" /\ pc' = [pc EXCEPT ![t] = "snapshot"]
    BY <1>3 DEF InsertSession, Hold, Goto
  <2>2. pc' \in [Thread -> Steps]
    BY <2>1 DEF CapInv, Steps, ResolveSteps
  <2>3. Admitted' = Admitted \ {t} /\ t \in Admitted
    BY <2>1 DEF CapInv, Admitted
  <2>4. IsFiniteSet(Admitted) /\ Cardinality(Admitted) \in Nat
    BY FS_Subset, FS_CardinalityType, ThreadAssumption DEF Admitted
  <2>5. Cardinality(Admitted') = Cardinality(Admitted) - 1
    BY <2>3, <2>4, FS_RemoveElement
  <2>6. DOMAIN sessions' = DOMAIN sessions \/ DOMAIN sessions' = DOMAIN sessions \cup {k}
    BY <1>3 DEF InsertSession, Put
  <2>7. /\ IsFiniteSet(DOMAIN sessions')
        /\ Cardinality(DOMAIN sessions') <= Cardinality(DOMAIN sessions) + 1
    BY <2>6, FS_AddElement, FS_CardinalityType DEF CapInv
  <2>8. /\ Cardinality(Thread) \in Nat /\ Cardinality(DOMAIN sessions) \in Nat
        /\ Cardinality(DOMAIN sessions') \in Nat
    BY <2>7, FS_CardinalityType, ThreadAssumption DEF CapInv
  <2> QED
    BY <2>2, <2>4, <2>5, <2>7, <2>8, MaxSessionsAssumption DEF CapInv, SessionsBounded
<1>4. ASSUME NEW t \in Thread, NEW c \in Calls[t], Release(t, c) PROVE CapInv'
  <2>1. pc' = pc /\ DOMAIN sessions' \subseteq DOMAIN sessions
    BY <1>4 DEF Release, Drop, Restrict
  <2> QED
    BY <2>1, CapFrame DEF CapInv, Admitted
\* Every other step goes to a place where no registration is due, unless it comes
\* from one.
<1>5. ASSUME NEW t \in Thread, NEW step \in Steps,
             pc' = [pc EXCEPT ![t] = step], sessions' = sessions,
             step \in {"get_again", "insert"} => t \in Admitted
      PROVE  CapInv'
  BY <1>5, CapFrame DEF CapInv, Admitted
<1>6. ASSUME NEW t \in Thread, pc' = pc, sessions' = sessions PROVE CapInv'
  BY <1>6, CapFrame DEF CapInv, Admitted
<1>7. ASSUME NEW t \in Thread,
             \/ \E c \in Calls[t] : Resolve(t, c) \/ ResetAll(t, c)
             \/ GetSession(t) \/ GetAgain(t) \/ Snapshot(t) \/ UseStore(t) \/ Move(t)
             \/ \E k \in SessionKey : Visit(t, k)
             \/ ResetState(t) \/ ResetClear(t) \/ ResetSeed(t) \/ EndReset(t)
      PROVE  CapInv'
  <2>1. ASSUME NEW c \in Calls[t], Resolve(t, c) PROVE CapInv'
    BY <2>1, <1>5, <1>6 DEF Resolve, Goto, Steps, ResolveSteps
  <2>2. ASSUME NEW c \in Calls[t], ResetAll(t, c) PROVE CapInv'
    BY <2>2, <1>5 DEF ResetAll, Goto, Steps, ResetSteps
  <2>3. CASE GetSession(t)
    BY <2>3, <1>5 DEF GetSession, Hold, Goto, Steps, ResolveSteps
  <2>4. CASE GetAgain(t)
    BY <2>4, <1>5 DEF GetAgain, Hold, Goto, Steps, ResolveSteps, Admitted
  <2>5. CASE Snapshot(t)
    BY <2>5, <1>5 DEF Snapshot, Return, Goto, Steps, ResolveSteps
  <2>6. CASE UseStore(t)
    BY <2>6, <1>5 DEF UseStore, Return, Goto, Steps, ResolveSteps
  <2>7. CASE Move(t)
    BY <2>7, <1>5 DEF Move, Return, Goto, Steps
  <2>8. ASSUME NEW k \in SessionKey, Visit(t, k) PROVE CapInv'
    BY <2>8, <1>5, <1>6 DEF Visit, Hold, Goto, Steps, ResetSteps
  <2>9. CASE ResetState(t) \/ ResetClear(t) \/ ResetSeed(t) \/ EndReset(t)
    BY <2>9, <1>5, <1>6
       DEF ResetState, ResetClear, ResetSeed, EndReset, Return, Goto, Steps, ResetSteps
  <2> QED
    BY <1>7, <2>1, <2>2, <2>3, <2>4, <2>5, <2>6, <2>7, <2>8, <2>9
<1> QED
  BY <1>1, <1>2, <1>3, <1>4, <1>7 DEF Next, Step, Invoke

\* ScenarioRuntime::instance checks the cap before it registers: for any number
\* of threads, the registry never holds more than the cap plus the threads that
\* can be between the two at one time, less one.
THEOREM OvershootBounded == Spec => []SessionsBounded
<1>1. CapInv => SessionsBounded
  BY DEF CapInv
<1> QED
  BY CapInit, CapNext, <1>1, PTL DEF Spec

-----------------------------------------------------------------------------
(* Isolation *)

IsFcn(f) == f = [x \in DOMAIN f |-> f[x]]

\* What every thread's locals are functions of.
LocalsOK ==
    /\ pc \in [Thread -> Steps]
    /\ IsFcn(call) /\ DOMAIN call = Thread
    /\ IsFcn(held) /\ DOMAIN held = Thread
    /\ IsFcn(snap) /\ DOMAIN snap = Thread

\* Every live instance is a record of a declared scenario.
InstancesOK ==
    /\ IsFcn(heap)
    /\ DOMAIN heap \subseteq Reference
    /\ \A r \in DOMAIN heap :
          /\ IsFcn(heap[r])
          /\ DOMAIN heap[r] = {"scenario", "session", "state", "table"}
          /\ heap[r].scenario \in Range(Scenarios)

\* An entry of the registry is a live instance of the key's flow and session.
RegistryOK ==
    /\ IsFcn(sessions)
    /\ \A k \in DOMAIN sessions :
          /\ sessions[k] \in DOMAIN heap
          /\ heap[sessions[k]].scenario = k.scenario
          /\ heap[sessions[k]].session = k.session
          /\ k = [scenario |-> k.scenario, session |-> k.session]

\* What thread t is resolving names a declared scenario; what it holds is live,
\* and is an instance of the flow and the session its call names.
HolderOK(t) ==
    /\ held[t] \subseteq DOMAIN heap
    /\ pc[t] \in ResolveSteps => Scenario(call[t]) \in Range(Scenarios)
    /\ pc[t] \in ResettingSteps => \E r : held[t] = {r}
    /\ pc[t] \in ServingSteps => \E r : /\ held[t] = {r}
                                        /\ heap[r].scenario = Scenario(call[t])
                                        /\ heap[r].session = call[t].session

OwnInv ==
    /\ LocalsOK
    /\ InstancesOK
    /\ RegistryOK
    /\ \A t \in Thread : HolderOK(t)

\* At first there are no instances.
LEMMA OwnInit == Init => OwnInv
BY DEF Init, OwnInv, LocalsOK, InstancesOK, RegistryOK, HolderOK, IsFcn, Steps,
       ResolveSteps, ResettingSteps, ServingSteps

\* The registry gives an instance to one key only.
LEMMA OwnImplies == OwnInv => SessionsIsolated
<1> SUFFICES ASSUME OwnInv PROVE SessionsIsolated
  OBVIOUS
<1>1. ASSUME NEW t \in Thread, pc[t] \in ServingSteps
      PROVE  Mine(t).scenario = Scenario(call[t]) /\ Mine(t).session = call[t].session
  <2>1. PICK r : /\ held[t] = {r}
                 /\ heap[r].scenario = Scenario(call[t])
                 /\ heap[r].session = call[t].session
    BY <1>1 DEF OwnInv, HolderOK
  <2>2. (CHOOSE x \in held[t] : TRUE) = r
    BY <2>1
  <2> QED
    BY <2>1, <2>2 DEF Mine
<1>2. ASSUME NEW k \in DOMAIN sessions, NEW l \in DOMAIN sessions, sessions[k] = sessions[l]
      PROVE  k = l
  BY <1>2 DEF OwnInv, RegistryOK
<1> QED
  BY <1>1, <1>2 DEF SessionsIsolated, IsInjective

\* What a step of thread t may do to the shared state: instances it drops are
\* referred to by nobody, those that stay keep their flow and session.
Keeps(h) ==
    /\ IsFcn(h)
    /\ \A r \in DOMAIN h :
          /\ r \in DOMAIN heap
          /\ IsFcn(h[r]) /\ DOMAIN h[r] = DOMAIN heap[r]
          /\ h[r].scenario = heap[r].scenario
          /\ h[r].session = heap[r].session

\* Replacing the state or the table of the instance t holds.
LEMMA KeepsMine ==
  ASSUME OwnInv, NEW t \in Thread, pc[t] \in ServingSteps \cup ResettingSteps, NEW x
  PROVE  /\ Keeps(WithMine(t, [Mine(t) EXCEPT !.state = x]))
         /\ Keeps(WithMine(t, [Mine(t) EXCEPT !.table = x]))
         /\ DOMAIN WithMine(t, [Mine(t) EXCEPT !.state = x]) = DOMAIN heap
         /\ DOMAIN WithMine(t, [Mine(t) EXCEPT !.table = x]) = DOMAIN heap
<1>1. PICK r : held[t] = {r} /\ r \in DOMAIN heap
  BY DEF OwnInv, HolderOK
<1>2. (CHOOSE y \in held[t] : TRUE) = r
  BY <1>1
<1>3. /\ IsFcn(heap[r]) /\ DOMAIN heap[r] = {"scenario", "session", "state", "table"}
  BY <1>1 DEF OwnInv, InstancesOK
<1> QED
  BY <1>1, <1>2, <1>3 DEF WithMine, Mine, Keeps, IsFcn, OwnInv, InstancesOK

\* A heap keeps its own owners.
LEMMA KeepsSame == ASSUME OwnInv PROVE Keeps(heap)
BY DEF OwnInv, InstancesOK, Keeps

\* A step that keeps the registry: thread t goes on with the same call or none,
\* with what it held, with nothing, or with what the registry has for its key.
LEMMA OwnFrame ==
  ASSUME OwnInv, NEW t \in Thread, NEW h, Keeps(h),
         LocalsOK',
         sessions' = sessions,
         heap' = Surviving(h, sessions, held') \/ heap' = h,
         DOMAIN h = DOMAIN heap,
         \A u \in Thread \ {t} : pc'[u] = pc[u] /\ call'[u] = call[u] /\ held'[u] = held[u],
         held'[t] \subseteq DOMAIN heap,
         pc'[t] \in ResolveSteps => Scenario(call'[t]) \in Range(Scenarios),
         pc'[t] \in ResettingSteps => \E r : held'[t] = {r},
         pc'[t] \in ServingSteps => \E r : /\ held'[t] = {r}
                                          /\ heap[r].scenario = Scenario(call'[t])
                                          /\ heap[r].session = call'[t].session
  PROVE  OwnInv'
<1>1. \A u \in Thread : held'[u] \subseteq DOMAIN heap
  BY DEF OwnInv, HolderOK
<1>2. \A k \in DOMAIN sessions : sessions[k] \in DOMAIN heap /\ sessions[k] \in Range(sessions)
  BY DEF OwnInv, RegistryOK, Range
<1>3. \A u \in Thread : held'[u] \subseteq UNION Range(held')
  BY DEF LocalsOK, Range
<1>4. /\ IsFcn(heap')
      /\ DOMAIN heap' \subseteq DOMAIN heap
      /\ \A r \in DOMAIN heap' : heap'[r] = h[r]
      /\ \A u \in Thread : held'[u] \subseteq DOMAIN heap'
      /\ \A k \in DOMAIN sessions : sessions[k] \in DOMAIN heap'
  BY <1>1, <1>2, <1>3 DEF Surviving, Referred, Restrict, Keeps, IsFcn
<1>5. InstancesOK'
  BY <1>4 DEF OwnInv, InstancesOK, Keeps
<1>6. RegistryOK'
  BY <1>4 DEF OwnInv, RegistryOK, Keeps
<1>7. ASSUME NEW u \in Thread PROVE HolderOK(u)'
  <2>1. CASE u = t
    <3>1. \A r \in held'[t] : heap'[r].scenario = heap[r].scenario /\ heap'[r].session = heap[r].session
      BY <1>4 DEF Keeps
    <3>2. pc'[t] \in ServingSteps => \E r : /\ held'[t] = {r}
                                           /\ heap'[r].scenario = Scenario(call'[t])
                                           /\ heap'[r].session = call'[t].session
      <4> SUFFICES ASSUME pc'[t] \in ServingSteps
                   PROVE  \E r : /\ held'[t] = {r}
                                 /\ heap'[r].scenario = Scenario(call'[t])
                                 /\ heap'[r].session = call'[t].session
        OBVIOUS
      <4>1. PICK r : /\ held'[t] = {r}
                     /\ heap[r].scenario = Scenario(call'[t])
                     /\ heap[r].session = call'[t].session
        OBVIOUS
      <4> QED
        BY <3>1, <4>1
    <3>3. held'[t] \subseteq DOMAIN heap'
      BY <1>4
    <3> QED
      BY <2>1, <3>2, <3>3 DEF HolderOK
  <2>2. CASE u # t
    <3>1. pc'[u] = pc[u] /\ call'[u] = call[u] /\ held'[u] = held[u] /\ HolderOK(u)
      BY <2>2 DEF OwnInv
    <3>2. \A r \in held[u] : heap'[r].scenario = heap[r].scenario /\ heap'[r].session = heap[r].session
      BY <1>4, <3>1 DEF Keeps
    <3>3. pc[u] \in ServingSteps => \E r : /\ held'[u] = {r}
                                          /\ heap'[r].scenario = Scenario(call[u])
                                          /\ heap'[r].session = call[u].session
      <4> SUFFICES ASSUME pc[u] \in ServingSteps
                   PROVE  \E r : /\ held'[u] = {r}
                                 /\ heap'[r].scenario = Scenario(call[u])
                                 /\ heap'[r].session = call[u].session
        OBVIOUS
      <4>1. PICK r : /\ held[u] = {r}
                     /\ heap[r].scenario = Scenario(call[u])
                     /\ heap[r].session = call[u].session
        BY <3>1 DEF HolderOK
      <4> QED
        BY <3>1, <3>2, <4>1
    <3>4. held'[u] \subseteq DOMAIN heap'
      BY <1>4
    <3> QED
      BY <3>1, <3>3, <3>4 DEF HolderOK
  <2> QED
    BY <2>1, <2>2
<1> QED
  BY <1>5, <1>6, <1>7 DEF OwnInv

\* The locals after a step of thread t, whatever it changes of them.
LEMMA LocalsStep ==
  ASSUME OwnInv, NEW t \in Thread, NEW step \in Steps,
         pc' = [pc EXCEPT ![t] = step] \/ pc' = pc,
         call' = call \/ \E c : call' = [call EXCEPT ![t] = c],
         held' = held \/ \E r : held' = [held EXCEPT ![t] = r],
         snap' = snap \/ \E s : snap' = [snap EXCEPT ![t] = s]
  PROVE  /\ LocalsOK'
         /\ \A u \in Thread \ {t} : pc'[u] = pc[u] /\ call'[u] = call[u] /\ held'[u] = held[u]
<1>1. pc' \in [Thread -> Steps] /\ \A u \in Thread \ {t} : pc'[u] = pc[u]
  BY DEF OwnInv, LocalsOK
<1>2. IsFcn(call') /\ DOMAIN call' = Thread /\ \A u \in Thread \ {t} : call'[u] = call[u]
  BY DEF OwnInv, LocalsOK, IsFcn
<1>3. IsFcn(held') /\ DOMAIN held' = Thread /\ \A u \in Thread \ {t} : held'[u] = held[u]
  BY DEF OwnInv, LocalsOK, IsFcn
<1>4. IsFcn(snap') /\ DOMAIN snap' = Thread
  BY DEF OwnInv, LocalsOK, IsFcn
<1> QED
  BY <1>1, <1>2, <1>3, <1>4 DEF LocalsOK

\* A call that returns drops what it held.
LEMMA OwnReturn ==
  ASSUME OwnInv, NEW t \in Thread, NEW outcome, Return(t, outcome),
         NEW h, Keeps(h), DOMAIN h = DOMAIN heap, sessions' = sessions,
         heap' = Surviving(h, sessions, held') \/ heap' = h
  PROVE  OwnInv'
<1>1. /\ pc' = [pc EXCEPT ![t] = "idle"] /\ held' = [held EXCEPT ![t] = {}]
      /\ call' = [call EXCEPT ![t] = NoCall] /\ snap' = [snap EXCEPT ![t] = NoState]
  BY DEF Return, Goto
<1>2. "idle" \in Steps
  BY DEF Steps
<1>3. /\ LocalsOK'
      /\ \A u \in Thread \ {t} : pc'[u] = pc[u] /\ call'[u] = call[u] /\ held'[u] = held[u]
  BY <1>1, <1>2, LocalsStep
<1>4. pc'[t] = "idle" /\ held'[t] = {}
  BY <1>1 DEF OwnInv, LocalsOK
<1> QED
  BY <1>3, <1>4, OwnFrame DEF ResolveSteps, ResettingSteps, ServingSteps

\* A step after which thread t holds what it held and is in the same call.
LEMMA OwnGoto ==
  ASSUME OwnInv, NEW t \in Thread, NEW step \in Steps,
         pc' = [pc EXCEPT ![t] = step], call' = call, held' = held,
         snap' = snap \/ \E x : snap' = [snap EXCEPT ![t] = x],
         NEW h, Keeps(h), DOMAIN h = DOMAIN heap, sessions' = sessions,
         heap' = Surviving(h, sessions, held') \/ heap' = h,
         step \in ResolveSteps => pc[t] \in ResolveSteps,
         step \in ServingSteps => pc[t] \in ServingSteps,
         step \in ResettingSteps => pc[t] \in ResettingSteps
  PROVE  OwnInv'
<1>1. /\ LocalsOK'
      /\ \A u \in Thread \ {t} : pc'[u] = pc[u] /\ call'[u] = call[u] /\ held'[u] = held[u]
  BY LocalsStep
<1>2. pc'[t] = step /\ call'[t] = call[t] /\ held'[t] = held[t] /\ HolderOK(t)
  BY DEF OwnInv, LocalsOK
<1> QED
  BY <1>1, <1>2, OwnFrame DEF HolderOK

\* A step after which thread t holds what the registry has for the key of its
\* call, or for a key its reset visits.
LEMMA OwnHold ==
  ASSUME OwnInv, NEW t \in Thread, NEW k \in DOMAIN sessions, NEW step \in Steps,
         Hold(t, sessions[k], step), sessions' = sessions, heap' = heap,
         \/ step \in ResettingSteps
         \/ step \in ServingSteps /\ pc[t] \in ResolveSteps /\ k = KeyOf(call[t])
  PROVE  OwnInv'
<1>1. /\ pc' = [pc EXCEPT ![t] = step] /\ held' = [held EXCEPT ![t] = {sessions[k]}]
      /\ call' = call /\ snap' = snap
  BY DEF Hold, Goto
<1>2. /\ LocalsOK'
      /\ \A u \in Thread \ {t} : pc'[u] = pc[u] /\ call'[u] = call[u] /\ held'[u] = held[u]
  BY <1>1, LocalsStep
<1>3. pc'[t] = step /\ call'[t] = call[t] /\ held'[t] = {sessions[k]} /\ HolderOK(t)
  BY <1>1 DEF OwnInv, LocalsOK
<1>4. /\ sessions[k] \in DOMAIN heap
      /\ heap[sessions[k]].scenario = k.scenario /\ heap[sessions[k]].session = k.session
  BY DEF OwnInv, RegistryOK
<1>5. ResettingSteps \cap ResolveSteps = {} /\ ResettingSteps \cap ServingSteps = {}
  BY DEF ResettingSteps, ResolveSteps, ServingSteps
<1>6. pc'[t] \in ServingSteps => /\ heap[sessions[k]].scenario = Scenario(call'[t])
                                 /\ heap[sessions[k]].session = call'[t].session
  BY <1>3, <1>4, <1>5 DEF KeyOf
<1>7. pc'[t] \in ResolveSteps => Scenario(call'[t]) \in Range(Scenarios)
  BY <1>3, <1>5 DEF HolderOK
<1> QED
  BY <1>2, <1>3, <1>4, <1>6, <1>7, KeepsSame, OwnFrame

\* A thread that registers its instance, or keeps it to itself.
LEMMA OwnInsert ==
  ASSUME OwnInv, NEW t \in Thread, InsertSession(t)
  PROVE  OwnInv'
<1> DEFINE c == call[t]
           k == KeyOf(c)
           r == CHOOSE x \in Reference \ DOMAIN heap : TRUE
<1>1. /\ pc[t] = "insert" /\ r \in Reference \ DOMAIN heap
      /\ sessions' = IF k \in DOMAIN sessions THEN sessions ELSE Put(sessions, k, r)
      /\ heap' = Put(heap, r, FreshInstance(c))
      /\ Hold(t, r, "snapshot")
  BY DEF InsertSession
<1>2. /\ pc' = [pc EXCEPT ![t] = "snapshot"] /\ held' = [held EXCEPT ![t] = {r}]
      /\ call' = call /\ snap' = snap
  BY <1>1 DEF Hold, Goto
<1>3. "snapshot" \in Steps /\ "snapshot" \in ServingSteps /\ "insert" \in ResolveSteps
      /\ "snapshot" \in ResolveSteps /\ "snapshot" \notin ResettingSteps
  BY DEF Steps, ServingSteps, ResolveSteps, ResettingSteps
<1>4. /\ LocalsOK'
      /\ \A u \in Thread \ {t} : pc'[u] = pc[u] /\ call'[u] = call[u] /\ held'[u] = held[u]
  BY <1>2, <1>3, LocalsStep
<1>5. pc'[t] = "snapshot" /\ call'[t] = c /\ held'[t] = {r} /\ Scenario(c) \in Range(Scenarios)
  BY <1>1, <1>2, <1>3 DEF OwnInv, LocalsOK, HolderOK
<1>6. /\ IsFcn(heap')
      /\ DOMAIN heap' = DOMAIN heap \cup {r}
      /\ \A x \in DOMAIN heap : heap'[x] = heap[x]
      /\ heap'[r] = FreshInstance(c)
  BY <1>1 DEF Put, IsFcn
<1>7. /\ IsFcn(FreshInstance(c))
      /\ DOMAIN FreshInstance(c) = {"scenario", "session", "state", "table"}
      /\ FreshInstance(c).scenario = Scenario(c) /\ FreshInstance(c).session = c.session
  BY DEF FreshInstance, IsFcn
<1>8. InstancesOK'
  <2> HIDE DEF r, c, k
  <2>1. \A x \in DOMAIN heap' : x \in DOMAIN heap \/ x = r
    BY <1>6
  <2>2. \A x \in DOMAIN heap' :
           /\ IsFcn(heap'[x])
           /\ DOMAIN heap'[x] = {"scenario", "session", "state", "table"}
           /\ heap'[x].scenario \in Range(Scenarios)
    BY <1>5, <1>6, <1>7, <2>1 DEF OwnInv, InstancesOK
  <2> QED
    BY <1>1, <1>6, <2>2 DEF OwnInv, InstancesOK
<1>9. RegistryOK'
  <2>1. CASE k \in DOMAIN sessions
    BY <1>1, <1>6, <2>1 DEF OwnInv, RegistryOK
  <2>2. CASE k \notin DOMAIN sessions
    <3>1. /\ IsFcn(sessions') /\ DOMAIN sessions' = DOMAIN sessions \cup {k}
          /\ sessions'[k] = r
          /\ \A l \in DOMAIN sessions : sessions'[l] = sessions[l]
      BY <1>1, <2>2 DEF Put, IsFcn
    <3>2. /\ k.scenario = Scenario(c) /\ k.session = c.session
          /\ k = [scenario |-> k.scenario, session |-> k.session]
      BY DEF KeyOf
    <3> HIDE DEF k, r, c
    <3> QED
      BY <1>6, <1>7, <3>1, <3>2 DEF OwnInv, RegistryOK
  <2> QED
    BY <2>1, <2>2
<1>10. ASSUME NEW u \in Thread PROVE HolderOK(u)'
  <2>1. CASE u = t
    <3> HIDE DEF r, c
    <3> QED
      BY <1>3, <1>5, <1>6, <1>7, <2>1 DEF HolderOK
  <2>2. CASE u # t
    <3>1. pc'[u] = pc[u] /\ call'[u] = call[u] /\ held'[u] = held[u] /\ HolderOK(u)
      BY <1>4, <2>2 DEF OwnInv
    <3>2. \A x \in held[u] : heap'[x] = heap[x]
      BY <1>6, <3>1 DEF HolderOK
    <3>3. held[u] \subseteq DOMAIN heap'
      BY <1>6, <3>1 DEF HolderOK
    <3> HIDE DEF r, c, k
    <3>4. pc[u] \in ServingSteps => \E x : /\ held[u] = {x}
                                          /\ heap'[x].scenario = Scenario(call[u])
                                          /\ heap'[x].session = call[u].session
      <4> SUFFICES ASSUME pc[u] \in ServingSteps
                   PROVE  \E x : /\ held[u] = {x}
                                 /\ heap'[x].scenario = Scenario(call[u])
                                 /\ heap'[x].session = call[u].session
        OBVIOUS
      <4>1. PICK x : /\ held[u] = {x}
                     /\ heap[x].scenario = Scenario(call[u])
                     /\ heap[x].session = call[u].session
        BY <3>1 DEF HolderOK
      <4> QED
        BY <3>2, <4>1
    <3> QED
      BY <3>1, <3>3, <3>4 DEF HolderOK
  <2> QED
    BY <2>1, <2>2
<1> QED
  BY <1>4, <1>8, <1>9, <1>10 DEF OwnInv

\* A request that begins, or is answered at once.
LEMMA OwnResolve ==
  ASSUME OwnInv, NEW t \in Thread, NEW c \in Calls[t], Resolve(t, c)
  PROVE  OwnInv'
<1>1. CASE UNCHANGED <<pc, call>>
  <2>1. UNCHANGED <<pc, call, held, snap, sessions, heap>>
    BY <1>1 DEF Resolve
  <2> QED
    BY <2>1 DEF OwnInv, LocalsOK, InstancesOK, RegistryOK, HolderOK
<1>2. CASE Settled(c) = {} /\ Goto(t, "get") /\ call' = [call EXCEPT ![t] = c]
  <2>1. Scenario(c) \in Range(Scenarios)
    <3>1. ScenarioOf(c) # {}
      BY <1>2 DEF Settled
    <3>2. ScenarioOf(c) \subseteq Range(Scenarios)
      BY DEF ScenarioOf
    <3> QED
      BY <3>1, <3>2 DEF Scenario
  <2>2. pc' = [pc EXCEPT ![t] = "get"] /\ "get" \in Steps /\ held' = held /\ snap' = snap
        /\ sessions' = sessions /\ heap' = heap
    BY <1>2 DEF Goto, Steps, ResolveSteps, Resolve
  <2>3. /\ LocalsOK'
        /\ \A u \in Thread \ {t} : pc'[u] = pc[u] /\ call'[u] = call[u] /\ held'[u] = held[u]
    BY <1>2, <2>2, LocalsStep
  <2>4. pc'[t] = "get" /\ call'[t] = c /\ held'[t] = held[t] /\ HolderOK(t)
    BY <1>2, <2>2 DEF OwnInv, LocalsOK
  <2>5. "get" \notin ServingSteps /\ "get" \notin ResettingSteps
    BY DEF ServingSteps, ResettingSteps
  <2>6. held'[t] \subseteq DOMAIN heap
    BY <2>4 DEF HolderOK
  <2> QED
    BY <2>1, <2>2, <2>3, <2>4, <2>5, <2>6, KeepsSame, OwnFrame
<1> QED
  BY <1>1, <1>2 DEF Resolve

\* A release takes a key from the registry; who holds the instance goes on.
LEMMA OwnRelease ==
  ASSUME OwnInv, NEW t \in Thread, NEW c \in Calls[t], Release(t, c)
  PROVE  OwnInv'
<1>1. /\ UNCHANGED <<pc, call, held, snap>>
      /\ sessions' = Drop(sessions, KeyOf(c))
      /\ heap' = Surviving(heap, sessions', held)
  BY DEF Release
<1>2. /\ IsFcn(sessions') /\ DOMAIN sessions' \subseteq DOMAIN sessions
      /\ \A k \in DOMAIN sessions' : sessions'[k] = sessions[k]
  BY <1>1 DEF Drop, Restrict, IsFcn
<1>3. \A k \in DOMAIN sessions' : sessions'[k] \in Range(sessions') \cap DOMAIN heap
  BY <1>2 DEF Range, OwnInv, RegistryOK
<1>4. \A u \in Thread : held[u] \subseteq (UNION Range(held)) \cap DOMAIN heap
  BY DEF Range, OwnInv, LocalsOK, HolderOK
<1>5. /\ IsFcn(heap') /\ DOMAIN heap' \subseteq DOMAIN heap
      /\ \A r \in DOMAIN heap' : heap'[r] = heap[r]
      /\ \A k \in DOMAIN sessions' : sessions'[k] \in DOMAIN heap'
      /\ \A u \in Thread : held[u] \subseteq DOMAIN heap'
  BY <1>1, <1>3, <1>4 DEF Surviving, Referred, Restrict, IsFcn
<1>6. LocalsOK' /\ InstancesOK' /\ RegistryOK'
  BY <1>1, <1>2, <1>5 DEF OwnInv, LocalsOK, InstancesOK, RegistryOK
<1>7. ASSUME NEW u \in Thread PROVE HolderOK(u)'
  <2>1. HolderOK(u) /\ \A r \in held[u] : heap'[r] = heap[r]
    BY <1>5 DEF OwnInv
  <2>2. pc[u] \in ServingSteps => \E x : /\ held[u] = {x}
                                        /\ heap'[x].scenario = Scenario(call[u])
                                        /\ heap'[x].session = call[u].session
    <3> SUFFICES ASSUME pc[u] \in ServingSteps
                 PROVE  \E x : /\ held[u] = {x}
                               /\ heap'[x].scenario = Scenario(call[u])
                               /\ heap'[x].session = call[u].session
      OBVIOUS
    <3>1. PICK x : /\ held[u] = {x}
                   /\ heap[x].scenario = Scenario(call[u])
                   /\ heap[x].session = call[u].session
      BY <2>1 DEF HolderOK
    <3> QED
      BY <2>1, <3>1
  <2> QED
    BY <1>1, <1>5, <2>1, <2>2 DEF HolderOK
<1> QED
  BY <1>6, <1>7 DEF OwnInv

\* Steps that change the instance a thread holds, or only where the thread is.
LEMMA OwnStep ==
  ASSUME OwnInv, NEW t \in Thread, Step(t)
  PROVE  OwnInv'
<1> USE DEF Goto
<1>1. CASE GetSession(t)
  <2>1. CASE KeyOf(call[t]) \in DOMAIN sessions
    BY <1>1, <2>1, OwnHold DEF GetSession, Steps, ServingSteps, ResolveSteps
  <2>2. CASE KeyOf(call[t]) \notin DOMAIN sessions
    BY <1>1, <2>2, OwnGoto, KeepsSame
       DEF GetSession, Steps, ServingSteps, ResolveSteps, ResettingSteps
  <2> QED
    BY <2>1, <2>2
<1>2. CASE CheckCap(t)
  <2>1. sessions' = sessions /\ heap' = heap
    BY <1>2 DEF CheckCap
  <2>2. CASE Return(t, Failed("SessionCapExceeded"))
    BY <2>1, <2>2, OwnReturn, KeepsSame
  <2>3. CASE Goto(t, "get_again") /\ UNCHANGED <<call, held, snap, out>>
    <3>1. pc[t] = "cap" /\ "get_again" \in Steps /\ "cap" \in ResolveSteps
          /\ "get_again" \notin ServingSteps /\ "get_again" \notin ResettingSteps
      BY <1>2 DEF CheckCap, Steps, ServingSteps, ResolveSteps, ResettingSteps
    <3>2. pc' = [pc EXCEPT ![t] = "get_again"] /\ call' = call /\ held' = held /\ snap' = snap
      BY <2>3
    <3> QED
      BY <2>1, <3>1, <3>2, OwnGoto, KeepsSame
  <2> QED
    BY <1>2, <2>2, <2>3 DEF CheckCap
<1>3. CASE GetAgain(t)
  <2>1. CASE KeyOf(call[t]) \in DOMAIN sessions
    BY <1>3, <2>1, OwnHold DEF GetAgain, Steps, ServingSteps, ResolveSteps
  <2>2. CASE KeyOf(call[t]) \notin DOMAIN sessions
    BY <1>3, <2>2, OwnGoto, KeepsSame
       DEF GetAgain, Steps, ServingSteps, ResolveSteps, ResettingSteps
  <2> QED
    BY <2>1, <2>2
<1>4. CASE InsertSession(t)
  BY <1>4, OwnInsert
<1>5. CASE Snapshot(t)
  <2>1. sessions' = sessions /\ heap' = Surviving(heap, sessions, held')
    BY <1>5 DEF Snapshot
  <2>2. CASE \E outcome : Return(t, outcome)
    BY <2>1, <2>2, OwnReturn, KeepsSame
  <2>3. CASE /\ Goto(t, "store") /\ UNCHANGED <<call, held, out>>
             /\ \E x : snap' = [snap EXCEPT ![t] = x]
    <3>1. /\ pc[t] = "snapshot" /\ "store" \in Steps /\ "snapshot" \in ResolveSteps
          /\ "snapshot" \in ServingSteps /\ "store" \notin ResettingSteps
      BY <1>5 DEF Snapshot, Steps, ServingSteps, ResolveSteps, ResettingSteps
    <3>2. pc' = [pc EXCEPT ![t] = "store"] /\ call' = call /\ held' = held
      BY <2>3
    <3>3. \E x : snap' = [snap EXCEPT ![t] = x]
      BY <2>3
    <3> QED
      BY <2>1, <3>1, <3>2, <3>3, OwnGoto, KeepsSame
  <2> QED
    BY <1>5, <2>2, <2>3 DEF Snapshot
<1>6. CASE UseStore(t)
  <2>1. PICK table : /\ sessions' = sessions
                     /\ heap' = Surviving(WithMine(t, [Mine(t) EXCEPT !.table = table]), sessions, held')
    BY <1>6 DEF UseStore
  <2>2. pc[t] = "store"
    BY <1>6 DEF UseStore
  <2>3. /\ Keeps(WithMine(t, [Mine(t) EXCEPT !.table = table]))
        /\ DOMAIN WithMine(t, [Mine(t) EXCEPT !.table = table]) = DOMAIN heap
    BY <2>2, KeepsMine DEF ServingSteps
  <2>4. CASE \E outcome : Return(t, outcome)
    BY <2>1, <2>3, <2>4, OwnReturn
  <2>5. CASE Goto(t, "move") /\ UNCHANGED <<call, held, snap>>
    <3>1. /\ "move" \in Steps /\ "store" \in ResolveSteps
          /\ "store" \in ServingSteps /\ "move" \notin ResettingSteps
      BY DEF Steps, ServingSteps, ResolveSteps, ResettingSteps
    <3>2. pc' = [pc EXCEPT ![t] = "move"] /\ call' = call /\ held' = held /\ snap' = snap
      BY <2>5
    <3> QED
      BY <2>1, <2>2, <2>3, <3>1, <3>2, OwnGoto
  <2> QED
    BY <1>6, <2>4, <2>5 DEF UseStore
<1>7. CASE Move(t)
  <2>1. PICK next : /\ Return(t, out[t]) /\ sessions' = sessions /\ pc[t] = "move"
                    /\ heap' = Surviving(WithMine(t, [Mine(t) EXCEPT !.state = next]), sessions, held')
    BY <1>7 DEF Move
  <2>2. /\ Keeps(WithMine(t, [Mine(t) EXCEPT !.state = next]))
        /\ DOMAIN WithMine(t, [Mine(t) EXCEPT !.state = next]) = DOMAIN heap
    BY <2>1, KeepsMine DEF ServingSteps
  <2> QED
    BY <2>1, <2>2, OwnReturn
<1>8. ASSUME NEW k \in SessionKey, Visit(t, k) PROVE OwnInv'
  <2>1. CASE k \in DOMAIN sessions
    BY <1>8, <2>1, OwnHold DEF Visit, Steps, ResetSteps, ResettingSteps
  <2>2. CASE k \notin DOMAIN sessions
    <3>1. UNCHANGED <<pc, call, held, snap, sessions, heap>>
      BY <1>8, <2>2 DEF Visit
    <3> QED
      BY <3>1 DEF OwnInv, LocalsOK, InstancesOK, RegistryOK, HolderOK
  <2> QED
    BY <2>1, <2>2
<1>9. CASE ResetState(t)
  <2>1. PICK x : heap' = WithMine(t, [Mine(t) EXCEPT !.state = x])
    BY <1>9 DEF ResetState
  <2>2. /\ Keeps(WithMine(t, [Mine(t) EXCEPT !.state = x]))
        /\ DOMAIN WithMine(t, [Mine(t) EXCEPT !.state = x]) = DOMAIN heap
    BY <1>9, KeepsMine DEF ResetState, ResettingSteps
  <2> QED
    <3>1. /\ pc[t] = "reset_state" /\ "reset_state" \in ResettingSteps
          /\ "reset_clear" \in Steps /\ "reset_clear" \notin ResolveSteps
          /\ "reset_clear" \notin ServingSteps
      BY <1>9 DEF ResetState, Steps, ResetSteps, ServingSteps, ResolveSteps, ResettingSteps
    <3>2. /\ pc' = [pc EXCEPT ![t] = "reset_clear"] /\ call' = call /\ held' = held /\ snap' = snap
          /\ sessions' = sessions
      BY <1>9 DEF ResetState
    <3> QED
      BY <2>1, <2>2, <3>1, <3>2, OwnGoto
<1>10. CASE ResetClear(t)
  <2>1. /\ Keeps(WithMine(t, [Mine(t) EXCEPT !.table = EmptyTable]))
        /\ DOMAIN WithMine(t, [Mine(t) EXCEPT !.table = EmptyTable]) = DOMAIN heap
    BY <1>10, KeepsMine DEF ResetClear, ResettingSteps
  <2> QED
    BY <1>10, <2>1, OwnGoto
       DEF ResetClear, Steps, ResetSteps, ServingSteps, ResolveSteps, ResettingSteps
<1>11. CASE ResetSeed(t)
  <2>0. pc[t] = "reset_seed" /\ sessions' = sessions /\ call' = call /\ snap' = snap
    BY <1>11 DEF ResetSeed
  <2>1. CASE UNCHANGED <<pc, held>> /\ \E x : heap' = WithMine(t, [Mine(t) EXCEPT !.table = x])
    <3>1. PICK x : heap' = WithMine(t, [Mine(t) EXCEPT !.table = x])
      BY <2>1
    <3>2. /\ Keeps(WithMine(t, [Mine(t) EXCEPT !.table = x]))
          /\ DOMAIN WithMine(t, [Mine(t) EXCEPT !.table = x]) = DOMAIN heap
      BY <2>0, KeepsMine DEF ResettingSteps
    <3>3. pc' = [pc EXCEPT ![t] = "reset_seed"]
      BY <2>0, <2>1 DEF OwnInv, LocalsOK
    <3> QED
      BY <2>0, <2>1, <3>1, <3>2, <3>3, OwnGoto
         DEF Steps, ResetSteps, ServingSteps, ResolveSteps, ResettingSteps
  <2>2. CASE Goto(t, "scan") /\ held' = [held EXCEPT ![t] = {}] /\ UNCHANGED heap
    <3>1. "scan" \in Steps /\ "scan" \notin ResolveSteps /\ "scan" \notin ServingSteps
          /\ "scan" \notin ResettingSteps
      BY DEF Steps, ResetSteps, ServingSteps, ResolveSteps, ResettingSteps
    <3>2. /\ LocalsOK'
          /\ \A u \in Thread \ {t} : pc'[u] = pc[u] /\ call'[u] = call[u] /\ held'[u] = held[u]
      BY <2>0, <2>2, <3>1, LocalsStep
    <3>3. pc'[t] = "scan" /\ held'[t] = {}
      BY <2>2 DEF OwnInv, LocalsOK
    <3> QED
      BY <2>0, <2>2, <3>1, <3>2, <3>3, KeepsSame, OwnFrame
  <2> QED
    BY <1>11, <2>1, <2>2 DEF ResetSeed
<1>12. CASE EndReset(t)
  BY <1>12, OwnReturn, KeepsSame DEF EndReset
<1> QED
  BY <1>1, <1>2, <1>3, <1>4, <1>5, <1>6, <1>7, <1>8, <1>9, <1>10, <1>11, <1>12 DEF Step

\* A reset that begins.
LEMMA OwnResetAll ==
  ASSUME OwnInv, NEW t \in Thread, NEW c \in Calls[t], ResetAll(t, c)
  PROVE  OwnInv'
<1>1. /\ pc' = [pc EXCEPT ![t] = "scan"] /\ call' = [call EXCEPT ![t] = c]
      /\ UNCHANGED <<sessions, heap, held, snap>>
  BY DEF ResetAll, Goto
<1>2. "scan" \in Steps /\ "scan" \notin ResolveSteps /\ "scan" \notin ServingSteps
      /\ "scan" \notin ResettingSteps
  BY DEF Steps, ResetSteps, ServingSteps, ResolveSteps, ResettingSteps
<1>3. /\ LocalsOK'
      /\ \A u \in Thread \ {t} : pc'[u] = pc[u] /\ call'[u] = call[u] /\ held'[u] = held[u]
  BY <1>1, <1>2, LocalsStep
<1>4. pc'[t] = "scan" /\ held'[t] \subseteq DOMAIN heap
  BY <1>1 DEF OwnInv, LocalsOK, HolderOK
<1> QED
  BY <1>1, <1>2, <1>3, <1>4, KeepsSame, OwnFrame

\* One case per step of a thread.
LEMMA OwnNext == OwnInv /\ [Next]_vars => OwnInv'
<1> SUFFICES ASSUME OwnInv, [Next]_vars PROVE OwnInv'
  OBVIOUS
<1>1. CASE UNCHANGED vars
  BY <1>1 DEF vars, OwnInv, LocalsOK, InstancesOK, RegistryOK, HolderOK
<1>2. CASE Next
  BY <1>2, OwnStep, OwnResolve, OwnRelease, OwnResetAll DEF Next, Invoke
<1> QED
  BY <1>1, <1>2

\* Whatever threads resolve, reset and release concurrently, a request only works
\* on an instance of the flow and session it names, and no instance serves two
\* entries of the registry (ScenarioRuntime::instance, the sessions field).
THEOREM IsolationHolds == Spec => []SessionsIsolated
BY OwnInit, OwnNext, OwnImplies, PTL DEF Spec

-----------------------------------------------------------------------------
(* Reachable states *)

Reached(sc, s) ==
    \A C \in SUBSET DOMAIN Machine[sc].states : Closed(Machine[sc], C) => s \in C

\* What the instances are in, and what a thread is about to move on from.
HeapReached == \A r \in DOMAIN heap : Reached(heap[r].scenario, heap[r].state)
SnapReached(t) == pc[t] \in {"store", "move"} => Reached(Scenario(call[t]), snap[t])

ReachInv == HeapReached /\ \A t \in Thread : SnapReached(t)

\* The initial state is reached.
LEMMA InitialReached == \A sc : Reached(sc, Machine[sc].initial)
BY DEF Reached, Closed

\* A step of the machine from a reached state reaches its target.
LEMMA NextReached ==
  ASSUME NEW sc, NEW s, NEW op, NEW next, Reached(sc, s), next \in NextState(Machine[sc], s, op)
  PROVE  Reached(sc, next)
<1> DEFINE m == Machine[sc]
<1>1. s \in DOMAIN m.states /\ op \in DOMAIN m.states[s] /\ next \in m.states[s][op].target
  BY DEF NextState, Allows
<1>2. ASSUME NEW C \in SUBSET DOMAIN m.states, Closed(m, C) PROVE next \in C
  <2>1. s \in C
    BY <1>2 DEF Reached
  <2> QED
    BY <1>1, <1>2, <2>1 DEF Closed
<1> QED
  BY <1>2 DEF Reached

\* A step that moves no instance and takes no snapshot.
LEMMA ReachFrame ==
  ASSUME ReachInv,
         \A r \in DOMAIN heap' : /\ r \in DOMAIN heap
                                 /\ heap'[r].scenario = heap[r].scenario
                                 /\ heap'[r].state = heap[r].state,
         \A u \in Thread : pc'[u] \in {"store", "move"} =>
            pc[u] \in {"store", "move"} /\ call'[u] = call[u] /\ snap'[u] = snap[u]
  PROVE  ReachInv'
<1>1. HeapReached'
  BY DEF ReachInv, HeapReached
<1>2. ASSUME NEW u \in Thread PROVE SnapReached(u)'
  BY DEF ReachInv, SnapReached
<1> QED
  BY <1>1, <1>2 DEF ReachInv

\* The heap after the instance t holds got another state, or another table.
WithState(t, x) == WithMine(t, [Mine(t) EXCEPT !.state = x])
WithTable(t, x) == WithMine(t, [Mine(t) EXCEPT !.table = x])

\* A change of the instance t holds changes no other.
LEMMA MineChanged ==
  ASSUME OwnInv, NEW t \in Thread, pc[t] \in ServingSteps \cup ResettingSteps, NEW x
  PROVE  \E r \in DOMAIN heap :
           /\ Mine(t) = heap[r]
           /\ DOMAIN WithState(t, x) = DOMAIN heap
           /\ WithState(t, x)[r].scenario = heap[r].scenario
           /\ WithState(t, x)[r].state = x
           /\ \A q \in DOMAIN heap \ {r} : WithState(t, x)[q] = heap[q]
           /\ DOMAIN WithTable(t, x) = DOMAIN heap
           /\ \A q \in DOMAIN heap : /\ WithTable(t, x)[q].scenario = heap[q].scenario
                                     /\ WithTable(t, x)[q].state = heap[q].state
<1>1. PICK r : held[t] = {r} /\ r \in DOMAIN heap
  BY DEF OwnInv, HolderOK
<1>2. (CHOOSE y \in held[t] : TRUE) = r
  BY <1>1
<1>3. /\ IsFcn(heap[r]) /\ DOMAIN heap[r] = {"scenario", "session", "state", "table"}
  BY <1>1 DEF OwnInv, InstancesOK
<1>4. Mine(t) = heap[r]
  BY <1>2 DEF Mine
<1>5. /\ WithState(t, x) = [heap EXCEPT ![r] = [heap[r] EXCEPT !.state = x]]
      /\ WithTable(t, x) = [heap EXCEPT ![r] = [heap[r] EXCEPT !.table = x]]
  BY <1>2, <1>4 DEF WithState, WithTable, WithMine
<1>6. /\ [heap[r] EXCEPT !.state = x].scenario = heap[r].scenario
      /\ [heap[r] EXCEPT !.state = x].state = x
      /\ [heap[r] EXCEPT !.table = x].scenario = heap[r].scenario
      /\ [heap[r] EXCEPT !.table = x].state = heap[r].state
  BY <1>3
<1>7. /\ DOMAIN WithState(t, x) = DOMAIN heap
      /\ WithState(t, x)[r].scenario = heap[r].scenario
      /\ WithState(t, x)[r].state = x
      /\ \A q \in DOMAIN heap \ {r} : WithState(t, x)[q] = heap[q]
  BY <1>1, <1>5, <1>6
<1>8. /\ DOMAIN WithTable(t, x) = DOMAIN heap
      /\ \A q \in DOMAIN heap : /\ WithTable(t, x)[q].scenario = heap[q].scenario
                                /\ WithTable(t, x)[q].state = heap[q].state
  BY <1>1, <1>5, <1>6
<1> QED
  BY <1>1, <1>4, <1>7, <1>8

\* A step that moves the instance t holds to a reached state.
LEMMA ReachMove ==
  ASSUME OwnInv, ReachInv, NEW t \in Thread, pc[t] \in ServingSteps \cup ResettingSteps,
         NEW x, Reached(Mine(t).scenario, x),
         heap' = WithState(t, x) \/ heap' = Surviving(WithState(t, x), sessions, held'),
         \A u \in Thread : pc'[u] \in {"store", "move"} =>
            pc[u] \in {"store", "move"} /\ call'[u] = call[u] /\ snap'[u] = snap[u]
  PROVE  ReachInv'
<1>1. PICK r \in DOMAIN heap :
           /\ Mine(t) = heap[r]
           /\ DOMAIN WithState(t, x) = DOMAIN heap
           /\ WithState(t, x)[r].scenario = heap[r].scenario
           /\ WithState(t, x)[r].state = x
           /\ \A q \in DOMAIN heap \ {r} : WithState(t, x)[q] = heap[q]
  BY MineChanged
<1> DEFINE h == WithState(t, x)
<1>3. \A q \in DOMAIN heap' : q \in DOMAIN heap /\ heap'[q] = h[q]
  BY <1>1 DEF Surviving, Restrict
<1>4. \A q \in DOMAIN heap : Reached(h[q].scenario, h[q].state)
  BY <1>1 DEF ReachInv, HeapReached
<1>5. HeapReached'
  BY <1>3, <1>4 DEF HeapReached
<1>6. ASSUME NEW u \in Thread PROVE SnapReached(u)'
  BY DEF ReachInv, SnapReached
<1> QED
  BY <1>5, <1>6 DEF ReachInv

\* Instances and snapshots stay in reachable states.
LEMMA ReachNext == OwnInv /\ ReachInv /\ [Next]_vars => ReachInv'
<1> SUFFICES ASSUME OwnInv, ReachInv, [Next]_vars PROVE ReachInv'
  OBVIOUS
<1> DEFINE Moved == {"store", "move"}
           Unmoved(u) == pc'[u] \in Moved => /\ pc[u] \in Moved
                                             /\ call'[u] = call[u]
                                             /\ snap'[u] = snap[u]
\* A step of t leaves the other threads' locals alone.
<1>1. ASSUME NEW t \in Thread, NEW step \in Steps \ Moved, pc' = [pc EXCEPT ![t] = step],
             call' = call \/ \E c : call' = [call EXCEPT ![t] = c],
             snap' = snap \/ \E x : snap' = [snap EXCEPT ![t] = x]
      PROVE  \A u \in Thread : Unmoved(u)
  BY <1>1 DEF OwnInv, LocalsOK, IsFcn
<1>2. CASE UNCHANGED vars
  BY <1>2, ReachFrame DEF vars
<1>3. ASSUME NEW t \in Thread, NEW outcome, Return(t, outcome) PROVE \A u \in Thread : Unmoved(u)
  BY <1>1, <1>3 DEF Return, Goto, Steps
<1>4. \A r \in DOMAIN Surviving(heap, sessions, held') :
          r \in DOMAIN heap /\ Surviving(heap, sessions, held')[r] = heap[r]
  BY DEF Surviving, Restrict
<1>5. ASSUME NEW t \in Thread, InsertSession(t) PROVE ReachInv'
  <2> DEFINE r == CHOOSE x \in Reference \ DOMAIN heap : TRUE
  <2>1. /\ heap' = Put(heap, r, FreshInstance(call[t]))
        /\ pc' = [pc EXCEPT ![t] = "snapshot"] /\ call' = call /\ snap' = snap
    BY <1>5 DEF InsertSession, Hold, Goto
  <2>2. \A u \in Thread : Unmoved(u)
    BY <2>1, <1>1 DEF Steps, ResolveSteps
  <2>3. Reached(FreshInstance(call[t]).scenario, FreshInstance(call[t]).state)
    BY InitialReached DEF FreshInstance
  <2>4. \A q \in DOMAIN heap' : \/ heap'[q] = FreshInstance(call[t])
                                \/ q \in DOMAIN heap /\ heap'[q] = heap[q]
    <3> HIDE DEF r
    <3>1. DOMAIN heap' = DOMAIN heap \cup {r}
      BY <2>1 DEF Put
    <3>2. \A q \in DOMAIN heap' : heap'[q] = IF q = r THEN FreshInstance(call[t]) ELSE heap[q]
      BY <2>1, <3>1 DEF Put
    <3> QED
      BY <3>1, <3>2
  <2>5. HeapReached'
    <3> HIDE DEF r
    <3>1. \A q \in DOMAIN heap' : Reached(heap'[q].scenario, heap'[q].state)
      BY <2>3, <2>4 DEF ReachInv, HeapReached
    <3> QED
      BY <3>1 DEF HeapReached
  <2>6. ASSUME NEW u \in Thread PROVE SnapReached(u)'
    BY <2>2 DEF ReachInv, SnapReached
  <2> QED
    BY <2>5, <2>6 DEF ReachInv
<1>6. ASSUME NEW t \in Thread, Snapshot(t) PROVE ReachInv'
  <2>1. \A q \in DOMAIN heap' : q \in DOMAIN heap /\ heap'[q] = heap[q]
    BY <1>4, <1>6 DEF Snapshot
  <2>2. CASE \E outcome : Return(t, outcome)
    BY <1>3, <2>1, <2>2, ReachFrame
  <2>3. CASE /\ pc' = [pc EXCEPT ![t] = "store"] /\ call' = call
             /\ snap' = [snap EXCEPT ![t] = Mine(t).state]
    <3>1. PICK r \in DOMAIN heap : Mine(t) = heap[r] /\ heap[r].scenario = Scenario(call[t])
      <4>1. pc[t] \in ServingSteps
        BY <1>6 DEF Snapshot, ServingSteps
      <4>2. PICK r : held[t] = {r} /\ heap[r].scenario = Scenario(call[t]) /\ r \in DOMAIN heap
        BY <4>1 DEF OwnInv, HolderOK
      <4>3. Mine(t) = heap[r]
        BY <4>2 DEF Mine
      <4> QED
        BY <4>2, <4>3
    <3>2. Reached(Scenario(call[t]), Mine(t).state)
      BY <3>1 DEF ReachInv, HeapReached
    <3>3. HeapReached'
      BY <2>1 DEF ReachInv, HeapReached
    <3>4. ASSUME NEW u \in Thread PROVE SnapReached(u)'
      <4>1. snap'[t] = Mine(t).state
        BY <2>3 DEF OwnInv, LocalsOK
      <4>2. u # t => pc'[u] = pc[u] /\ snap'[u] = snap[u]
        BY <2>3 DEF OwnInv, LocalsOK, IsFcn
      <4>3. CASE u = t
        BY <2>3, <3>2, <4>1, <4>3 DEF SnapReached
      <4>4. CASE u # t
        BY <2>3, <4>2, <4>4 DEF ReachInv, SnapReached
      <4> QED
        BY <4>3, <4>4
    <3> QED
      BY <3>3, <3>4 DEF ReachInv
  <2> QED
    BY <1>6, <2>2, <2>3 DEF Snapshot, Goto
<1>7. ASSUME NEW t \in Thread, UseStore(t) PROVE ReachInv'
  <2>1. PICK x : heap' = Surviving(WithTable(t, x), sessions, held')
    BY <1>7 DEF UseStore, WithTable
  <2>2. pc[t] = "store" /\ pc[t] \in ServingSteps
    BY <1>7 DEF UseStore, ServingSteps
  <2>3. \A q \in DOMAIN heap' : /\ q \in DOMAIN heap
                                /\ heap'[q].scenario = heap[q].scenario
                                /\ heap'[q].state = heap[q].state
    BY <2>1, <2>2, MineChanged DEF Surviving, Restrict
  <2>4. CASE \E outcome : Return(t, outcome)
    BY <1>3, <2>3, <2>4, ReachFrame
  <2>5. CASE pc' = [pc EXCEPT ![t] = "move"] /\ UNCHANGED <<call, snap>>
    <3>1. \A u \in Thread : Unmoved(u)
      BY <2>2, <2>5 DEF OwnInv, LocalsOK
    <3> QED
      BY <2>3, <3>1, ReachFrame
  <2> QED
    BY <1>7, <2>4, <2>5 DEF UseStore, Goto
<1>8. ASSUME NEW t \in Thread, Move(t) PROVE ReachInv'
  <2>1. PICK next : /\ Return(t, out[t]) /\ pc[t] = "move"
                    /\ next \in NextState(Machine[Scenario(call[t])], snap[t], Operation(call[t]).name)
                    /\ heap' = Surviving(WithState(t, next), sessions, held')
    BY <1>8 DEF Move, WithState
  <2>2. Reached(Scenario(call[t]), next)
    BY <2>1, NextReached DEF ReachInv, SnapReached
  <2>3. Mine(t).scenario = Scenario(call[t])
    BY <2>1, OwnImplies DEF SessionsIsolated, ServingSteps
  <2>4. \A u \in Thread : Unmoved(u)
    BY <1>3, <2>1
  <2> QED
    BY <2>1, <2>2, <2>3, <2>4, ReachMove DEF ServingSteps
<1>9. ASSUME NEW t \in Thread, ResetState(t) PROVE ReachInv'
  <2>1. heap' = WithState(t, Machine[Mine(t).scenario].initial)
    BY <1>9 DEF ResetState, WithState
  <2>2. \A u \in Thread : Unmoved(u)
    BY <1>1, <1>9 DEF ResetState, Goto, Steps, ResetSteps
  <2>3. pc[t] \in ResettingSteps
    BY <1>9 DEF ResetState, ResettingSteps
  <2> QED
    BY <2>1, <2>2, <2>3, InitialReached, ReachMove
<1>10. ASSUME NEW t \in Thread, ResetClear(t) \/ ResetSeed(t) PROVE ReachInv'
  <2>1. heap' = heap \/ \E x : heap' = WithTable(t, x)
    BY <1>10 DEF ResetClear, ResetSeed, WithTable
  <2>2. pc[t] \in ResettingSteps
    BY <1>10 DEF ResetClear, ResetSeed, ResettingSteps
  <2>3. \A q \in DOMAIN heap' : /\ q \in DOMAIN heap
                                /\ heap'[q].scenario = heap[q].scenario
                                /\ heap'[q].state = heap[q].state
    BY <2>1, <2>2, MineChanged
  <2>4. \A u \in Thread : Unmoved(u)
    BY <1>1, <1>10 DEF ResetClear, ResetSeed, Goto, Steps, ResetSteps
  <2> QED
    BY <2>3, <2>4, ReachFrame
<1>11. ASSUME NEW t \in Thread, NEW c \in Calls[t], Release(t, c) PROVE ReachInv'
  BY <1>11, ReachFrame DEF Release, Surviving, Restrict
<1>12. ASSUME NEW t \in Thread, NEW c \in Calls[t], Resolve(t, c) \/ ResetAll(t, c) PROVE ReachInv'
  <2>1. heap' = heap
    BY <1>12 DEF Resolve, ResetAll
  <2>2. \A u \in Thread : Unmoved(u)
    BY <1>1, <1>12 DEF Resolve, ResetAll, Goto, Steps, ResetSteps, ResolveSteps
  <2> QED
    BY <2>1, <2>2, ReachFrame
<1>13. ASSUME NEW t \in Thread,
              GetSession(t) \/ GetAgain(t) \/ CheckCap(t) \/ EndReset(t)
       PROVE  ReachInv'
  <2>1. heap' = heap
    BY <1>13 DEF GetSession, GetAgain, CheckCap, EndReset
  <2>2. \A u \in Thread : Unmoved(u)
    BY <1>1, <1>3, <1>13
       DEF GetSession, GetAgain, CheckCap, EndReset, Hold, Goto, Steps, ResetSteps, ResolveSteps
  <2> QED
    BY <2>1, <2>2, ReachFrame
<1>14. ASSUME NEW t \in Thread, NEW k \in SessionKey, Visit(t, k) PROVE ReachInv'
  <2>1. heap' = heap
    BY <1>14 DEF Visit
  <2>2. \A u \in Thread : Unmoved(u)
    BY <1>1, <1>14 DEF Visit, Hold, Goto, Steps, ResetSteps
  <2> QED
    BY <2>1, <2>2, ReachFrame
<1> QED
  BY <1>2, <1>5, <1>6, <1>7, <1>8, <1>9, <1>10, <1>11, <1>12, <1>13, <1>14 DEF Next, Step, Invoke

\* Resets and stale moves included, an instance is never in a state its machine
\* cannot reach from the initial one: what Scenario::unreachable_states reports
\* is dead in every interleaving (resolve_with, Instance::move_to, Instance::reset).
THEOREM OnlyReachableStates == Spec => []ReachableOnly
<1>1. Init => ReachInv
  BY DEF Init, ReachInv, HeapReached, SnapReached
<1>2. ReachInv => ReachableOnly
  BY DEF ReachInv, HeapReached, Reached, ReachableOnly
<1> QED
  BY OwnInit, OwnNext, <1>1, ReachNext, <1>2, PTL DEF Spec

-----------------------------------------------------------------------------
(* Calls *)

\* What a thread knows of its call at each step: it makes the call, a resolve has passed
\* the checks that need no instance, and past the snapshot also those that do.
CallOK(t) ==
    /\ call[t] \in IF pc[t] = "idle" THEN {NoCall} ELSE Calls[t]
    /\ pc[t] \in ResolveSteps => call[t].op = "resolve" /\ Settled(call[t]) = {}
    /\ pc[t] \in {"store", "move"} =>
          /\ call[t].validated
          /\ Allows(Machine[Scenario(call[t])], snap[t], Operation(call[t]).name)
    /\ pc[t] \notin {"store", "move"} => snap[t] = NoState
    /\ pc[t] \notin ServingSteps \cup ResettingSteps => held[t] = {}
    /\ unvisited[t] \subseteq SessionKey
    /\ planted[t] \in Nat

CallInv ==
    /\ IsFcn(unvisited) /\ DOMAIN unvisited = Thread
    /\ IsFcn(planted) /\ DOMAIN planted = Thread
    /\ \A t \in Thread : CallOK(t)

\* At first no call is in progress.
LEMMA CallInit == Init => CallInv
BY DEF Init, CallInv, CallOK, IsFcn, ResolveSteps, ServingSteps, ResettingSteps

\* A step of thread t is checked for thread t alone.
LEMMA CallFrame ==
  ASSUME OwnInv, OwnInv', CallInv, NEW t \in Thread, CallOK(t)',
         pc' = pc \/ \E x : pc' = [pc EXCEPT ![t] = x],
         call' = call \/ \E x : call' = [call EXCEPT ![t] = x],
         held' = held \/ \E x : held' = [held EXCEPT ![t] = x],
         snap' = snap \/ \E x : snap' = [snap EXCEPT ![t] = x],
         unvisited' = unvisited \/ \E x : unvisited' = [unvisited EXCEPT ![t] = x],
         planted' = planted \/ \E x : planted' = [planted EXCEPT ![t] = x]
  PROVE  CallInv'
<1>1. /\ IsFcn(unvisited') /\ DOMAIN unvisited' = Thread
      /\ IsFcn(planted') /\ DOMAIN planted' = Thread
  BY DEF CallInv, IsFcn
<1>2. ASSUME NEW u \in Thread \ {t} PROVE CallOK(u)'
  <2>1. /\ pc'[u] = pc[u] /\ call'[u] = call[u] /\ held'[u] = held[u] /\ snap'[u] = snap[u]
        /\ unvisited'[u] = unvisited[u] /\ planted'[u] = planted[u]
    BY DEF CallInv, OwnInv, LocalsOK, IsFcn
  <2> QED
    BY <2>1 DEF CallInv, CallOK
<1> QED
  BY <1>1, <1>2 DEF CallInv

\* A call that returns leaves nothing behind.
LEMMA CallReturn ==
  ASSUME OwnInv, OwnInv', CallInv, NEW t \in Thread, NEW outcome, Return(t, outcome),
         unvisited' = unvisited, planted' = planted
  PROVE  CallInv'
<1>1. /\ pc' = [pc EXCEPT ![t] = "idle"] /\ call' = [call EXCEPT ![t] = NoCall]
      /\ held' = [held EXCEPT ![t] = {}] /\ snap' = [snap EXCEPT ![t] = NoState]
  BY DEF Return, Goto
<1>2. pc'[t] = "idle" /\ call'[t] = NoCall /\ held'[t] = {} /\ snap'[t] = NoState
  BY <1>1 DEF OwnInv, LocalsOK, IsFcn
<1>3. CallOK(t)'
  BY <1>2 DEF CallInv, CallOK, ResolveSteps, ServingSteps, ResettingSteps
<1> QED
  BY <1>1, <1>3, CallFrame

\* A step after which thread t has the call it had.
LEMMA CallGoto ==
  ASSUME OwnInv, OwnInv', CallInv, NEW t \in Thread, NEW step, Goto(t, step), call' = call,
         held' = held \/ \E r : held' = [held EXCEPT ![t] = {r}],
         snap' = snap \/ \E x : snap' = [snap EXCEPT ![t] = x],
         unvisited' = unvisited \/ \E k : unvisited' = [unvisited EXCEPT ![t] = @ \ {k}],
         planted' = planted,
         step # "idle" /\ pc[t] # "idle",
         step \in ResolveSteps => pc[t] \in ResolveSteps,
         step \in {"store", "move"} =>
            /\ call[t].validated
            /\ Allows(Machine[Scenario(call[t])], snap'[t], Operation(call[t]).name),
         step \notin {"store", "move"} => pc[t] \notin {"store", "move"} /\ snap' = snap,
         step \notin ServingSteps \cup ResettingSteps =>
            pc[t] \notin ServingSteps \cup ResettingSteps /\ held' = held
  PROVE  CallInv'
<1>1. pc'[t] = step /\ pc' = [pc EXCEPT ![t] = step]
  BY DEF Goto, OwnInv, LocalsOK
<1>2. unvisited'[t] \subseteq SessionKey /\ planted'[t] \in Nat
  BY DEF CallInv, CallOK
<1>3. CallOK(t)'
  BY <1>1, <1>2 DEF CallInv, CallOK
<1> QED
  BY <1>1, <1>3, CallFrame

\* An idle thread that starts a call.
LEMMA CallStart ==
  ASSUME OwnInv, OwnInv', CallInv, NEW t \in Thread, NEW step, NEW c \in Calls[t],
         pc[t] = "idle", Goto(t, step), call' = [call EXCEPT ![t] = c], held' = held, snap' = snap,
         \/ step = "get" /\ c.op = "resolve" /\ Settled(c) = {} /\ unvisited' = unvisited
         \/ step = "scan" /\ unvisited' = [unvisited EXCEPT ![t] = SessionKey],
         planted' = planted
  PROVE  CallInv'
<1>1. pc'[t] = step /\ pc' = [pc EXCEPT ![t] = step] /\ call'[t] = c
  BY DEF Goto, OwnInv, LocalsOK, IsFcn
<1>2. unvisited'[t] \subseteq SessionKey /\ planted'[t] \in Nat
  BY DEF CallInv, CallOK, IsFcn
<1>3. held'[t] = {} /\ snap'[t] = NoState
  BY DEF CallInv, CallOK, ServingSteps, ResettingSteps
<1>4. CallOK(t)'
  BY <1>1, <1>2, <1>3 DEF CallOK, ResolveSteps
<1> QED
  BY <1>1, <1>4, CallFrame

\* What a call past its checks has passed stays so.
LEMMA CallNext == OwnInv /\ CallInv /\ [Next]_vars => CallInv'
<1> SUFFICES ASSUME OwnInv, CallInv, [Next]_vars PROVE CallInv'
  OBVIOUS
<1>0. OwnInv'
  BY OwnNext
<1>1. CASE UNCHANGED vars
  BY <1>1 DEF vars, CallInv, CallOK
<1> USE DEF Steps, ResolveSteps, ResetSteps, ServingSteps, ResettingSteps
<1>2. ASSUME NEW t \in Thread, NEW c \in Calls[t], Resolve(t, c) \/ ResetAll(t, c) PROVE CallInv'
  <2>1. CASE UNCHANGED <<pc, call, held, snap, unvisited, planted>>
    BY <2>1 DEF CallInv, CallOK
  <2>2. CASE ~UNCHANGED <<pc, call, held, snap, unvisited, planted>>
    BY <1>0, <1>2, <2>2, CallStart DEF Resolve, ResetAll
  <2> QED
    BY <2>1, <2>2
<1>3. ASSUME NEW t \in Thread, NEW c \in Calls[t], Release(t, c) PROVE CallInv'
  BY <1>3 DEF Release, CallInv, CallOK
<1>4. ASSUME NEW t \in Thread, GetSession(t) \/ GetAgain(t) PROVE CallInv'
  <2>1. CASE KeyOf(call[t]) \in DOMAIN sessions
    BY <1>0, <1>4, <2>1, CallGoto DEF GetSession, GetAgain, Hold, CallInv, CallOK
  <2>2. CASE KeyOf(call[t]) \notin DOMAIN sessions
    BY <1>0, <1>4, <2>2, CallGoto DEF GetSession, GetAgain
  <2> QED
    BY <2>1, <2>2
<1>5. ASSUME NEW t \in Thread, CheckCap(t) PROVE CallInv'
  BY <1>0, <1>5, CallReturn, CallGoto DEF CheckCap
<1>6. ASSUME NEW t \in Thread, InsertSession(t) PROVE CallInv'
  BY <1>0, <1>6, CallGoto DEF InsertSession, Hold
<1>7. ASSUME NEW t \in Thread, Snapshot(t) PROVE CallInv'
  <2>1. CASE \E outcome : Return(t, outcome)
    BY <1>0, <1>7, <2>1, CallReturn DEF Snapshot
  <2>2. CASE /\ Allows(Machine[Scenario(call[t])], Mine(t).state, Operation(call[t]).name)
             /\ call[t].validated /\ snap' = [snap EXCEPT ![t] = Mine(t).state]
             /\ Goto(t, "store") /\ UNCHANGED <<call, held, out>>
    <3>1. snap'[t] = Mine(t).state /\ pc[t] = "snapshot"
      BY <1>7, <2>2 DEF Snapshot, OwnInv, LocalsOK, IsFcn
    <3> QED
      BY <1>0, <1>7, <2>2, <3>1, CallGoto DEF Snapshot
  <2> QED
    BY <1>7, <2>1, <2>2 DEF Snapshot
<1>8. ASSUME NEW t \in Thread, UseStore(t) PROVE CallInv'
  <2>1. CASE \E outcome : Return(t, outcome)
    BY <1>0, <1>8, <2>1, CallReturn DEF UseStore
  <2>2. CASE Goto(t, "move") /\ UNCHANGED <<call, held, snap>>
    <3>1. /\ pc[t] = "store" /\ call[t].validated
          /\ Allows(Machine[Scenario(call[t])], snap'[t], Operation(call[t]).name)
      BY <1>8, <2>2 DEF UseStore, CallInv, CallOK
    <3> QED
      BY <1>0, <1>8, <2>2, <3>1, CallGoto DEF UseStore
  <2> QED
    BY <1>8, <2>1, <2>2 DEF UseStore
<1>9. ASSUME NEW t \in Thread, Move(t) \/ EndReset(t) PROVE CallInv'
  BY <1>0, <1>9, CallReturn DEF Move, EndReset
<1>10. ASSUME NEW t \in Thread, NEW k \in SessionKey, Visit(t, k) PROVE CallInv'
  <2>1. CASE k \in DOMAIN sessions
    BY <1>0, <1>10, <2>1, CallGoto DEF Visit, Hold
  <2>2. CASE k \notin DOMAIN sessions
    <3>1. UNCHANGED <<pc, call, held, snap, planted>> /\ unvisited' = [unvisited EXCEPT ![t] = @ \ {k}]
      BY <1>10, <2>2 DEF Visit
    <3>2. unvisited'[t] \subseteq SessionKey
      BY <3>1 DEF CallInv, CallOK, IsFcn
    <3>3. CallOK(t)'
      BY <3>1, <3>2 DEF CallInv, CallOK
    <3> QED
      BY <1>0, <3>1, <3>3, CallFrame
  <2> QED
    BY <2>1, <2>2
<1>11. ASSUME NEW t \in Thread, ResetState(t) \/ ResetClear(t) PROVE CallInv'
  BY <1>0, <1>11, CallGoto DEF ResetState, ResetClear
<1>12. ASSUME NEW t \in Thread, ResetSeed(t) PROVE CallInv'
  <2>1. /\ UNCHANGED <<call, snap, unvisited>> /\ pc[t] = "reset_seed"
        /\ \/ /\ planted' = [planted EXCEPT ![t] = @ + 1]
              /\ UNCHANGED <<pc, held>>
           \/ /\ planted' = [planted EXCEPT ![t] = 0]
              /\ pc' = [pc EXCEPT ![t] = "scan"] /\ held' = [held EXCEPT ![t] = {}]
    BY <1>12 DEF ResetSeed, Goto
  <2>2. planted'[t] \in Nat
    BY <2>1 DEF CallInv, CallOK, IsFcn
  <2>3. \/ pc'[t] = "reset_seed" /\ held'[t] = held[t]
        \/ pc'[t] = "scan" /\ held'[t] = {}
    BY <2>1 DEF OwnInv, LocalsOK, IsFcn
  <2>4. CallOK(t)'
    BY <2>1, <2>2, <2>3 DEF CallInv, CallOK
  <2> QED
    BY <1>0, <2>1, <2>4, CallFrame
<1> QED
  BY <1>1, <1>2, <1>3, <1>4, <1>5, <1>6, <1>7, <1>8, <1>9, <1>10, <1>11, <1>12 DEF Next, Step, Invoke

\* A thread only ever replaces the instance it holds.
LEMMA MineAlone ==
  ASSUME OwnInv, NEW t \in Thread, pc[t] \in ServingSteps \cup ResettingSteps, NEW x,
         NEW r \in DOMAIN heap,
         \/ heap' = WithMine(t, x)
         \/ heap' = Surviving(WithMine(t, x), sessions, held'),
         r \in DOMAIN heap', heap'[r] # heap[r]
  PROVE  r \in held[t]
<1>1. PICK q : held[t] = {q} /\ q \in DOMAIN heap
  BY DEF OwnInv, HolderOK
<1>2. (CHOOSE y \in held[t] : TRUE) = q
  BY <1>1
<1>3. heap'[r] = WithMine(t, x)[r]
  BY DEF Surviving, Restrict
<1> QED
  BY <1>1, <1>2, <1>3 DEF WithMine

\* One step changes one instance at most, and only as its thread's call allows.
LEMMA StepActsLegally ==
  ASSUME OwnInv, CallInv, NEW t \in Thread, Step(t) \/ Invoke(t),
         NEW r \in DOMAIN heap, r \in DOMAIN heap', heap'[r] # heap[r]
  PROVE  /\ r \in held[t]
         /\ <<pc[t], planted[t]>> # <<pc'[t], planted'[t]>>
         /\ \/ pc[t] \in ResettingSteps
            \/ /\ call[t].validated /\ ~call[t].preferCode
               /\ Allows(Machine[Scenario(call[t])], snap[t], Operation(call[t]).name)
<1>1. ASSUME pc[t] \in {"store", "move"}
      PROVE  /\ call[t].validated /\ ~call[t].preferCode
             /\ Allows(Machine[Scenario(call[t])], snap[t], Operation(call[t]).name)
  <2>1. Settled(call[t]) = {} /\ call[t].validated
        /\ Allows(Machine[Scenario(call[t])], snap[t], Operation(call[t]).name)
    BY <1>1 DEF CallInv, CallOK, ResolveSteps
  <2>2. ~call[t].preferCode
    BY <2>1, Zenon DEF Settled
  <2> QED
    BY <2>1, <2>2
<1>2. ASSUME NEW h, heap' = Surviving(h, sessions, held') \/ heap' = Surviving(h, sessions', held)
      PROVE  heap'[r] = h[r]
  BY <1>2 DEF Surviving, Restrict
<1>3. ASSUME heap' = heap PROVE FALSE
  BY <1>3
<1>4. CASE InsertSession(t)
  <2>1. heap'[r] = heap[r]
    BY <1>4 DEF InsertSession, Put
  <2> QED
    BY <2>1
<1>5. CASE UseStore(t)
  <2>1. pc[t] = "store" /\ \E x : heap' = Surviving(WithMine(t, x), sessions, held')
    BY <1>5 DEF UseStore
  <2>2. pc'[t] \in {"idle", "move"}
    BY <1>5 DEF UseStore, Return, Goto, OwnInv, LocalsOK
  <2> QED
    BY <1>1, <2>1, <2>2, MineAlone DEF ServingSteps
<1>6. CASE Move(t)
  <2>1. pc[t] = "move" /\ \E x : heap' = Surviving(WithMine(t, x), sessions, held')
    BY <1>6 DEF Move
  <2>2. pc'[t] = "idle"
    BY <1>6 DEF Move, Return, Goto, OwnInv, LocalsOK
  <2> QED
    BY <1>1, <2>1, <2>2, MineAlone DEF ServingSteps
<1>7. CASE ResetState(t) \/ ResetClear(t)
  <2>1. pc[t] \in {"reset_state", "reset_clear"} /\ \E x : heap' = WithMine(t, x)
    BY <1>7 DEF ResetState, ResetClear
  <2>2. pc'[t] # pc[t]
    BY <1>7 DEF ResetState, ResetClear, Goto, OwnInv, LocalsOK
  <2> QED
    BY <2>1, <2>2, MineAlone DEF ResettingSteps
<1>8. CASE ResetSeed(t)
  <2>1. pc[t] = "reset_seed" /\ (\E x : heap' = WithMine(t, x)) /\ planted' = [planted EXCEPT ![t] = @ + 1]
    BY <1>3, <1>8 DEF ResetSeed
  <2>2. planted'[t] # planted[t]
    BY <2>1 DEF CallInv, CallOK, IsFcn
  <2> QED
    BY <2>1, <2>2, MineAlone DEF ResettingSteps
<1>9. CASE Snapshot(t) \/ \E c \in Calls[t] : Release(t, c)
  BY <1>2, <1>9 DEF Snapshot, Release
<1>10. CASE \/ GetSession(t) \/ CheckCap(t) \/ GetAgain(t) \/ EndReset(t)
            \/ (\E k \in SessionKey : Visit(t, k))
            \/ (\E c \in Calls[t] : Resolve(t, c) \/ ResetAll(t, c))
  BY <1>3, <1>10 DEF GetSession, CheckCap, GetAgain, EndReset, Visit, Resolve, ResetAll
<1> QED
  BY <1>4, <1>5, <1>6, <1>7, <1>8, <1>9, <1>10 DEF Step, Invoke

\* resolve_with: for any sidecar, threads and calls, an instance changes only in a reset,
\* or by a validated call that does not bypass the scenario and whose operation was legal
\* in the state it was checked against.
THEOREM OnlyLegalCallsActHolds == Spec => OnlyLegalCallsAct
<1> DEFINE Legal ==
      \A r \in DOMAIN heap \cap DOMAIN heap' : heap'[r] # heap[r] =>
         \E t \in Thread :
            /\ r \in held[t]
            /\ <<pc[t], planted[t]>> # <<pc'[t], planted'[t]>>
            /\ \/ pc[t] \in ResettingSteps
               \/ /\ call[t].validated /\ ~call[t].preferCode
                  /\ Allows(Machine[Scenario(call[t])], snap[t], Operation(call[t]).name)
<1>1. OwnInv /\ CallInv /\ [Next]_vars => [Legal]_vars
  <2> SUFFICES ASSUME OwnInv, CallInv, Next PROVE Legal
    OBVIOUS
  <2> QED
    BY StepActsLegally DEF Next
<1>2. Spec => [](OwnInv /\ CallInv)
  BY OwnInit, OwnNext, CallInit, CallNext, PTL DEF Spec
<1>3. Spec => [][Legal]_vars
  BY <1>1, <1>2, PTL DEF Spec
<1> QED
  BY <1>3 DEF OnlyLegalCallsAct

-----------------------------------------------------------------------------
(* Stores *)

Table(tb) ==
    /\ IsFcn(tb)
    /\ IsFiniteSet(DOMAIN tb)
    /\ Cardinality(DOMAIN tb) <= StoreLimit

\* What is stored of a response is filed under its own identifier.
FiledRight(k, v) == v.shape = "response" => k.id \in v.id \cup v.text \cup WholeRequests
Filed(tb) == \A k \in DOMAIN tb : FiledRight(k, tb[k])

\* The empty table.
LEMMA EmptyTableIs == Table(EmptyTable) /\ Filed(EmptyTable)
<1>1. DOMAIN EmptyTable = {} /\ IsFcn(EmptyTable)
  BY DEF EmptyTable, IsFcn
<1> QED
  BY <1>1, FS_EmptySet, StoreLimitAssumption DEF Table, Filed

\* A create respects the capacity, and files what is filed right.
LEMMA StoreCreateKeeps ==
  ASSUME NEW tb, Table(tb), NEW k, NEW v
  PROVE  /\ Table(StoreCreate(tb, k, v).table)
         /\ Filed(tb) /\ FiledRight(k, v) => Filed(StoreCreate(tb, k, v).table)
<1> DEFINE created == StoreCreate(tb, k, v).table
<1>1. Cardinality(DOMAIN tb) \in Nat
  BY FS_CardinalityType DEF Table
<1>2. CASE Cardinality(DOMAIN tb) >= StoreLimit \/ k \in DOMAIN tb
  <2>1. created = tb
    BY <1>2 DEF StoreCreate, Result
  <2> QED
    BY <2>1
<1>3. CASE ~(Cardinality(DOMAIN tb) >= StoreLimit) /\ k \notin DOMAIN tb
  <2>1. created = Put(tb, k, v)
    BY <1>3 DEF StoreCreate, Result
  <2>2. /\ DOMAIN created = DOMAIN tb \cup {k} /\ IsFcn(created)
        /\ \A x \in DOMAIN tb \cup {k} : created[x] = IF x = k THEN v ELSE tb[x]
    BY <2>1 DEF Put, IsFcn
  <2>3. IsFiniteSet(DOMAIN created) /\ Cardinality(DOMAIN created) = Cardinality(DOMAIN tb) + 1
    BY <1>3, <2>2, FS_AddElement DEF Table
  <2>4. Cardinality(DOMAIN created) <= StoreLimit
    BY <1>1, <1>3, <2>3, StoreLimitAssumption
  <2> HIDE DEF created
  <2>5. Table(created)
    BY <2>2, <2>3, <2>4 DEF Table
  <2>6. Filed(tb) /\ FiledRight(k, v) => Filed(created)
    BY <2>2 DEF Filed
  <2> QED
    BY <2>5, <2>6 DEF created
<1> QED
  BY <1>2, <1>3

\* A keyed call respects the capacity; what it files is filed right if what it is given is.
LEMMA KeyedCallKeeps ==
  ASSUME NEW tb, Table(tb), NEW spec, NEW c, NEW k
  PROVE  /\ Table(KeyedCall(tb, spec, c, k).table)
         /\ (/\ Filed(tb)
             /\ spec.action = "create" => FiledRight(k, CreatedValue(spec, c, k.id))
             /\ spec.action = "update" => FiledRight(k, RequestBody(c)))
            => Filed(KeyedCall(tb, spec, c, k).table)
<1> DEFINE after == KeyedCall(tb, spec, c, k).table
<1>1. CASE spec.action = "create"
  <2>1. after = StoreCreate(tb, k, CreatedValue(spec, c, k.id)).table
    BY <1>1 DEF KeyedCall
  <2> QED
    BY <1>1, <2>1, StoreCreateKeeps
<1>2. CASE spec.action = "update" /\ k \in DOMAIN tb
  <2>1. after = [tb EXCEPT ![k] = RequestBody(c)]
    BY <1>2 DEF KeyedCall, Result
  <2>2. DOMAIN after = DOMAIN tb /\ IsFcn(after) /\ Table(after)
    BY <2>1 DEF IsFcn, Table
  <2>3. \A x \in DOMAIN tb : after[x] = IF x = k THEN RequestBody(c) ELSE tb[x]
    BY <2>1 DEF Table, IsFcn
  <2> HIDE DEF after
  <2>4. Filed(tb) /\ FiledRight(k, RequestBody(c)) => Filed(after)
    BY <2>2, <2>3 DEF Filed
  <2> QED
    BY <1>2, <2>2, <2>4 DEF after
<1>3. CASE spec.action = "delete" /\ k \in DOMAIN tb
  <2>1. after = Drop(tb, k)
    BY <1>3 DEF KeyedCall, Result
  <2>2. /\ DOMAIN after = DOMAIN tb \ {k} /\ IsFcn(after)
        /\ \A x \in DOMAIN tb \ {k} : after[x] = tb[x]
    BY <2>1 DEF Drop, Restrict, IsFcn
  <2>3. IsFiniteSet(DOMAIN after) /\ Cardinality(DOMAIN after) <= Cardinality(DOMAIN tb)
    BY <2>2, FS_Subset DEF Table
  <2>4. Cardinality(DOMAIN after) \in Nat /\ Cardinality(DOMAIN tb) \in Nat
    BY <2>3, FS_CardinalityType DEF Table
  <2> HIDE DEF after
  <2>5. Table(after)
    BY <2>2, <2>3, <2>4, StoreLimitAssumption DEF Table
  <2>6. Filed(tb) => Filed(after)
    BY <2>2 DEF Filed
  <2> QED
    BY <2>5, <2>6 DEF after
<1>4. CASE /\ spec.action # "create"
           /\ ~(spec.action = "update" /\ k \in DOMAIN tb)
           /\ ~(spec.action = "delete" /\ k \in DOMAIN tb)
  <2>1. after = tb
    BY <1>4 DEF KeyedCall, Result
  <2> QED
    BY <2>1
<1> QED
  BY <1>1, <1>2, <1>3, <1>4

\* The body of a request that has one.
LEMMA RequestBodyIs ==
  ASSUME NEW c, AtMostOne(c.request), NEW b \in c.request
  PROVE  RequestBody(c) = b
BY DEF RequestBody, AtMostOne

\* A call that is what it should be, for the operation it makes.
CallRight(op, c) ==
    /\ AtMostOne(c.request)
    /\ \A m \in c.request : Message(m) /\ m.shape # "response"
    /\ Message(c.response)
    /\ \A spec \in op.store :
          /\ AtMostOne(spec.keyFrom)
          /\ FromWholeRequest(spec) => UNION {m.text : m \in c.request} \subseteq WholeRequests

\* The body of a request is no response.
LEMMA RequestBodyRight ==
  ASSUME NEW c, AtMostOne(c.request), \A m \in c.request : m.shape # "response", NEW k
  PROVE  FiledRight(k, RequestBody(c))
<1>1. RequestBody(c).shape # "response"
  BY DEF RequestBody, Null
<1> QED
  BY <1>1 DEF FiledRight

\* What a create stores carries the identifier it is filed under, in whichever message
\* that was found and over whichever protocol the call came, if it is a response and the
\* identifier is not a whole request.
LEMMA CreatedRight ==
  ASSUME NEW op, NEW spec \in op.store, NEW c, CallRight(op, c),
         NEW ns, NEW id \in ResolveCreateKey(spec, c)
  PROVE  FiledRight([namespace |-> ns, id |-> id], CreatedValue(spec, c, id))
<1> DEFINE k == [namespace |-> ns, id |-> id]
<1>0. PICK from \in spec.keyFrom :
         \E m \in Subject(from, c) : id \in PointerValue(m, from.pointer)
  BY DEF ResolveCreateKey
<1>1. PICK m \in Subject(from, c) : id \in PointerValue(m, from.pointer)
  BY <1>0
<1>2. (CHOOSE f \in spec.keyFrom : TRUE) = from
  BY DEF CallRight, AtMostOne
<1>3. CreatedValue(spec, c, id) =
        IF c.protocol = "unary" THEN AlignIdentifier(c.response, from.pointer, id)
        ELSE IF from.location = "request" THEN RequestBody(c)
        ELSE c.response
  BY <1>2 DEF CreatedValue
<1>4. k.id = id
  OBVIOUS
<1> HIDE DEF k
\* The response the identifier was found in.
<1>5. CASE from.location # "request"
  <2>1. id \in c.response.id \cup c.response.text
    BY <1>1, <1>5 DEF Subject, PointerValue
  <2>2. FiledRight(k, c.response)
    BY <1>4, <2>1 DEF FiledRight
  <2>3. CASE from.pointer = Whole
    BY <1>3, <1>5, <2>2, <2>3 DEF AlignIdentifier, k
  <2>4. CASE from.pointer # Whole
    <3>1. id \in [c.response EXCEPT !.id = {id}].id
      BY DEF CallRight, Message
    <3>2. FiledRight(k, [c.response EXCEPT !.id = {id}])
      BY <1>4, <3>1 DEF FiledRight
    <3> QED
      BY <1>3, <1>5, <2>2, <2>4, <3>2 DEF AlignIdentifier, k
  <2> QED
    BY <2>3, <2>4
<1>6. CASE from.location = "request" /\ c.protocol # "unary"
  <2>1. FiledRight(k, RequestBody(c))
    BY RequestBodyRight DEF CallRight
  <2> QED
    BY <1>3, <1>6, <2>1 DEF k
\* The generated response takes the identifier over.
<1>7. CASE from.location = "request" /\ c.protocol = "unary" /\ from.pointer # Whole
  <2>1. id \in [c.response EXCEPT !.id = {id}].id
    BY DEF CallRight, Message
  <2>2. FiledRight(k, [c.response EXCEPT !.id = {id}])
    BY <1>4, <2>1 DEF FiledRight
  <2> QED
    BY <1>3, <1>7, <2>2 DEF AlignIdentifier, k
\* It cannot: the identifier is the whole request.
<1>8. CASE from.location = "request" /\ from.pointer = Whole
  <2>1. m \in c.request /\ id \in m.text
    BY <1>1, <1>8 DEF Subject, PointerValue
  <2>2. FromWholeRequest(spec)
    BY <1>1, <1>8 DEF FromWholeRequest
  <2>3. id \in WholeRequests
    BY <2>1, <2>2 DEF CallRight
  <2> QED
    BY <1>4, <2>3 DEF FiledRight, k
<1> QED
  BY <1>5, <1>6, <1>7, <1>8

\* apply_store respects the capacity, and files what it stores under its identifier.
LEMMA StoreResultKeeps ==
  ASSUME NEW tb, Table(tb), NEW op, NEW c
  PROVE  /\ Table(StoreResult(tb, op, c).table)
         /\ Filed(tb) /\ CallRight(op, c) => Filed(StoreResult(tb, op, c).table)
<1> DEFINE spec == CHOOSE x \in op.store : TRUE
           ns == BindNamespace(spec.resource, c.params)
           ids == IF spec.action = "create" THEN ResolveCreateKey(spec, c) ELSE ResolveKey(spec, c)
           id == CHOOSE x \in ids : TRUE
           k == [namespace |-> ns, id |-> id]
<1>1. CASE op.store = {} \/ spec.action = "list" \/ ids = {}
  <2>1. StoreResult(tb, op, c).table = tb
    BY <1>1 DEF StoreResult, ApplyStore, Result
  <2> QED
    BY <2>1
<1>2. CASE op.store # {} /\ spec.action # "list" /\ ids # {}
  <2>1. StoreResult(tb, op, c) = KeyedCall(tb, spec, c, k)
    BY <1>2 DEF StoreResult, ApplyStore
  <2>2. spec \in op.store /\ id \in ids /\ k.id = id
    BY <1>2
  <2>3. CallRight(op, c) /\ spec.action = "create" => FiledRight(k, CreatedValue(spec, c, k.id))
    <3> SUFFICES ASSUME CallRight(op, c), spec.action = "create"
                 PROVE  FiledRight(k, CreatedValue(spec, c, k.id))
      OBVIOUS
    <3>1. id \in ResolveCreateKey(spec, c) /\ spec \in op.store
      BY <2>2
    <3> HIDE DEF spec, id, ns
    <3> QED
      BY <3>1, CreatedRight
  <2>4. CallRight(op, c) => FiledRight(k, RequestBody(c))
    BY RequestBodyRight DEF CallRight
  <2> HIDE DEF spec, k
  <2> QED
    BY <2>1, <2>3, <2>4, KeyedCallKeeps
<1> QED
  BY <1>1, <1>2

-----------------------------------------------------------------------------
(* Seeds *)

\* The concatenation of the first i of n sequences, as a recursive function.
Concatenates(F, parts, n) == F = [i \in 0..n |-> IF i = 0 THEN <<>> ELSE F[i - 1] \o parts[i]]

\* There is such a function, whatever the sequences.
LEMMA ConcatenationExists ==
  ASSUME NEW n \in Nat, NEW U, NEW parts \in [1..n -> Seq(U)]
  PROVE  \E F : Concatenates(F, parts, n)
<1> DEFINE next == [i \in 1..n |-> [s \in Seq(U) |-> s \o parts[i]]]
<1>1. next \in [1..n -> [Seq(U) -> Seq(U)]] /\ <<>> \in Seq(U)
  OBVIOUS
<1>2. \A i \in 1..n : \A s \in Seq(U) : next[i][s] = s \o parts[i]
  OBVIOUS
<1> HIDE DEF next
<1>3. PICK F \in [0..n -> Seq(U)] : Iterates(F, <<>>, next, n)
  BY <1>1, IterationExists
<1>4. F = [i \in 0..n |-> IF i = 0 THEN <<>> ELSE next[i][F[i - 1]]]
  BY <1>3 DEF Iterates
<1>5. ASSUME NEW i \in 0..n, i # 0 PROVE next[i][F[i - 1]] = F[i - 1] \o parts[i]
  <2>1. i \in 1..n /\ i - 1 \in 0..n
    BY <1>5
  <2> QED
    BY <1>2, <2>1
<1>6. [i \in 0..n |-> IF i = 0 THEN <<>> ELSE next[i][F[i - 1]]]
        = [i \in 0..n |-> IF i = 0 THEN <<>> ELSE F[i - 1] \o parts[i]]
  BY <1>5, Zenon
<1> QED
  BY <1>4, <1>6, Zenon DEF Concatenates

\* Two sequences over U concatenate to one over U.
LEMMA ConcatenationIsSeq ==
  ASSUME NEW U, NEW r \in Seq(U), NEW s \in Seq(U)
  PROVE  r \o s \in Seq(U)
OBVIOUS

\* All it ends with are elements of its parts.
LEMMA ConcatenationType ==
  ASSUME NEW n \in Nat, NEW U, NEW parts \in [1..n -> Seq(U)], NEW F, Concatenates(F, parts, n)
  PROVE  F[n] \in Seq(U)
<1>1. \A i \in 0..n : F[i] = IF i = 0 THEN <<>> ELSE F[i - 1] \o parts[i]
  BY DEF Concatenates
<1>2. F[0] \in Seq(U)
  <2>1. F[0] = <<>>
    BY <1>1
  <2> QED
    BY <2>1
<1>3. ASSUME NEW i \in 1..n, F[i - 1] \in Seq(U) PROVE F[i] \in Seq(U)
  <2>1. i \in 0..n /\ i # 0
    OBVIOUS
  <2>2. F[i] = F[i - 1] \o parts[i] /\ parts[i] \in Seq(U)
    BY <1>1, <2>1
  <2> QED
    BY <1>3, <2>2, ConcatenationIsSeq, Zenon
<1>4. \A i \in 0..n : F[i] \in Seq(U)
  BY <1>2, <1>3, StaysIn
<1> QED
  BY <1>4

\* The items of all entries, in order.
LEMMA SeedItemsAre ==
  ASSUME NEW sc \in Range(Scenarios)
  PROVE  \E U : /\ SeedItems(sc) \in Seq(U)
                /\ \A item \in U : item.value.shape = "seed"
<1> DEFINE seed == Seed[sc]
           U == UNION {{SeedItem(seed[i], j) : j \in DOMAIN seed[i].items} : i \in DOMAIN seed}
           Items(i) == [j \in DOMAIN seed[i].items |-> SeedItem(seed[i], j)]
           n == Len(seed)
           parts == [i \in 1..n |-> Items(i)]
           F == CHOOSE f : f = [i \in 0..n |-> IF i = 0 THEN <<>> ELSE f[i - 1] \o Items(i)]
<1>1. seed \in Seq(Range(seed)) /\ n \in Nat /\ DOMAIN seed = 1..n
  BY SeedAssumption
<1>2. ASSUME NEW i \in 1..n
      PROVE  /\ seed[i].items \in Seq(Range(seed[i].items))
             /\ \A item \in Range(seed[i].items) : item.shape = "seed"
  BY <1>1, <1>2, SeedAssumption DEF Range
<1>3. ASSUME NEW i \in 1..n PROVE Items(i) \in Seq(U)
  <2>1. DOMAIN seed[i].items = 1..Len(seed[i].items) /\ Len(seed[i].items) \in Nat
    BY <1>2
  <2>2. \A j \in DOMAIN seed[i].items : SeedItem(seed[i], j) \in U
    BY <1>1
  <2> HIDE DEF U, seed
  <2> QED
    BY <2>1, <2>2
<1>4. \A item \in U : item.value.shape = "seed"
  <2> TAKE item \in U
  <2>0. PICK i \in DOMAIN seed : \E j \in DOMAIN seed[i].items : item = SeedItem(seed[i], j)
    OBVIOUS
  <2>1. PICK j \in DOMAIN seed[i].items : item = SeedItem(seed[i], j)
    BY <2>0
  <2>2. item.value = seed[i].items[j]
    BY <2>1 DEF SeedItem
  <2>3. i \in 1..n /\ seed[i].items[j] \in Range(seed[i].items)
    BY <1>1 DEF Range
  <2> QED
    BY <1>2, <2>2, <2>3
<1>5. SeedItems(sc) = F[n]
  BY DEF SeedItems
<1> HIDE DEF U, seed, Items
<1>6. parts \in [1..n -> Seq(U)]
  BY <1>3
<1>7. ASSUME NEW f
      PROVE  f = [i \in 0..n |-> IF i = 0 THEN <<>> ELSE f[i - 1] \o Items(i)]
               <=> Concatenates(f, parts, n)
  <2>1. \A i \in 0..n : i # 0 => parts[i] = Items(i)
    BY <1>1
  <2> HIDE DEF parts, n
  <2>2. [i \in 0..n |-> IF i = 0 THEN <<>> ELSE f[i - 1] \o Items(i)]
          = [i \in 0..n |-> IF i = 0 THEN <<>> ELSE f[i - 1] \o parts[i]]
    BY <2>1, Zenon
  <2> QED
    BY <2>2, Zenon DEF Concatenates
<1> HIDE DEF parts, n
<1>8. \E f : f = [i \in 0..n |-> IF i = 0 THEN <<>> ELSE f[i - 1] \o Items(i)]
  BY <1>1, <1>6, <1>7, ConcatenationExists
<1>9. F = [i \in 0..n |-> IF i = 0 THEN <<>> ELSE F[i - 1] \o Items(i)]
  BY <1>8, Zenon
<1> HIDE DEF F
<1>10. F[n] \in Seq(U)
  BY <1>1, <1>6, <1>7, <1>9, ConcatenationType
<1> QED
  BY <1>4, <1>5, <1>10

\* The partial functions from K to V.
Tables(K, V) == UNION {[D -> V] : D \in SUBSET K}

\* A create adds one of the keys with one of the values.
LEMMA StoreCreateIn ==
  ASSUME NEW K, NEW V, NEW tb \in Tables(K, V), NEW k \in K, NEW v \in V
  PROVE  StoreCreate(tb, k, v).table \in Tables(K, V)
<1>1. PICK D \in SUBSET K : tb \in [D -> V]
  BY DEF Tables
<1>2. Put(tb, k, v) \in [D \cup {k} -> V] /\ D \cup {k} \in SUBSET K
  BY <1>1 DEF Put
<1>3. Put(tb, k, v) \in Tables(K, V)
  BY <1>2 DEF Tables
<1>4. StoreCreate(tb, k, v).table \in {tb, Put(tb, k, v)}
  BY DEF StoreCreate, Result
<1> QED
  BY <1>3, <1>4

\* A seed is stored one item after the other; at every point the table fits, and holds
\* nothing a call has stored.
LEMMA SeededIs ==
  ASSUME NEW sc \in Range(Scenarios)
  PROVE  LET items == SeedItems(sc)
             n == Len(items)
         IN  /\ n \in Nat
             /\ Seeded(sc, 0) = EmptyTable
             /\ \A i \in 1..n : Seeded(sc, i)
                    = StoreCreate(Seeded(sc, i - 1), items[i].key, items[i].value).table
             /\ \A i \in 0..n : Table(Seeded(sc, i)) /\ Filed(Seeded(sc, i))
<1>1. PICK U : /\ SeedItems(sc) \in Seq(U)
               /\ \A item \in U : item.value.shape = "seed"
  BY SeedItemsAre
<1> DEFINE items == SeedItems(sc)
           n == Len(items)
           K == {item.key : item \in U}
           V == {item.value : item \in U}
           S == {tb \in Tables(K, V) : Table(tb) /\ Filed(tb)}
           Create(i, tb) == StoreCreate(tb, items[i].key, items[i].value).table
           next == [i \in 1..n |-> [tb \in S |-> Create(i, tb)]]
           F == CHOOSE f : f = [i \in 0..n |->
                   IF i = 0 THEN EmptyTable
                   ELSE StoreCreate(f[i - 1], items[i].key, items[i].value).table]
<1>2. \A i : Seeded(sc, i) = F[i]
  BY DEF Seeded
<1>3. n \in Nat /\ \A i \in 1..n : items[i] \in U
  BY <1>1
<1>4. ASSUME NEW i \in 1..n, NEW tb \in S PROVE Create(i, tb) \in S
  <2>1. /\ items[i].key \in K /\ items[i].value \in V
        /\ FiledRight(items[i].key, items[i].value)
    BY <1>1, <1>3 DEF FiledRight
  <2>2. tb \in Tables(K, V) /\ Table(tb) /\ Filed(tb)
    OBVIOUS
  <2> HIDE DEF K, V, items
  <2>3. Create(i, tb) \in Tables(K, V)
    BY <2>1, <2>2, StoreCreateIn
  <2>4. Table(Create(i, tb)) /\ Filed(Create(i, tb))
    BY <2>1, <2>2, StoreCreateKeeps
  <2> QED
    BY <2>3, <2>4
<1>5. EmptyTable \in S
  <2>1. EmptyTable \in [{} -> V] /\ {} \in SUBSET K
    BY DEF EmptyTable
  <2> QED
    BY <2>1, EmptyTableIs DEF Tables
<1> HIDE DEF S
<1>6. next \in [1..n -> [S -> S]]
  BY <1>4
<1>7. \A i \in 1..n : \A tb \in S : next[i][tb] = Create(i, tb)
  OBVIOUS
<1> HIDE DEF next, n, items
<1>8. \E f : f = [i \in 0..n |-> IF i = 0 THEN EmptyTable ELSE Create(i, f[i - 1])]
  <2>1. PICK f \in [0..n -> S] : Iterates(f, EmptyTable, next, n)
    BY <1>3, <1>5, <1>6, IterationExists
  <2>2. ASSUME NEW i \in 0..n, i # 0 PROVE next[i][f[i - 1]] = Create(i, f[i - 1])
    <3>1. i \in 1..n /\ i - 1 \in 0..n
      BY <1>3, <2>2
    <3>2. f[i - 1] \in S
      BY <2>1, <3>1
    <3> QED
      BY <1>7, <3>1, <3>2
  <2> HIDE DEF Create
  <2>3. [i \in 0..n |-> IF i = 0 THEN EmptyTable ELSE next[i][f[i - 1]]]
          = [i \in 0..n |-> IF i = 0 THEN EmptyTable ELSE Create(i, f[i - 1])]
    BY <2>2, Zenon
  <2> QED
    BY <2>1, <2>3, Zenon DEF Iterates
<1>9. F = [i \in 0..n |-> IF i = 0 THEN EmptyTable ELSE Create(i, F[i - 1])]
  BY <1>8, Zenon
<1> HIDE DEF F
<1>10. \A i \in 0..n : F[i] = IF i = 0 THEN EmptyTable ELSE Create(i, F[i - 1])
  <2> HIDE DEF Create
  <2> QED
    BY <1>9, Zenon
<1>11. F[0] = EmptyTable /\ \A i \in 1..n : F[i] = Create(i, F[i - 1])
  <2>1. 0 \in 0..n /\ \A i \in 1..n : i \in 0..n /\ i # 0
    BY <1>3
  <2> HIDE DEF Create
  <2> QED
    BY <1>10, <2>1
<1>12. \A i \in 0..n : F[i] \in S
  <2>1. F[0] \in S
    BY <1>5, <1>11
  <2>2. \A i \in 1..n : F[i - 1] \in S => F[i] \in S
    <3> TAKE i \in 1..n
    <3>1. F[i] = Create(i, F[i - 1])
      BY <1>11
    <3> HIDE DEF Create
    <3> QED
      BY <1>4, <3>1
  <2> QED
    BY <1>3, <2>1, <2>2, StaysIn
<1>13. \A i \in 0..n : Table(Seeded(sc, i)) /\ Filed(Seeded(sc, i))
  BY <1>2, <1>12 DEF S
<1>14. Seeded(sc, 0) = EmptyTable /\ \A i \in 1..n : Seeded(sc, i) = Create(i, Seeded(sc, i - 1))
  <2> HIDE DEF Create
  <2> QED
    BY <1>2, <1>11, Zenon
<1> QED
  BY <1>3, <1>13, <1>14 DEF n, items

\* The table of a fresh instance fits, and holds nothing a call has stored.
LEMMA SeedTableIs ==
  ASSUME NEW sc \in Range(Scenarios)
  PROVE  Table(SeedTable(sc)) /\ Filed(SeedTable(sc))
<1>1. Len(SeedItems(sc)) \in 0..Len(SeedItems(sc))
  BY SeededIs
<1> QED
  BY <1>1, SeededIs DEF SeedTable

-----------------------------------------------------------------------------
(* The stores of the live instances *)

\* What every table is: it fits the capacity, and is filed right.
Sound(tb) == Table(tb) /\ Filed(tb)

StoresInv == \A r \in DOMAIN heap : Sound(heap[r].table)

\* The table of the instance t holds is the only one to change.
LEMMA MineStored ==
  ASSUME OwnInv, StoresInv, NEW t \in Thread, pc[t] \in ServingSteps \cup ResettingSteps,
         NEW x, Sound(x),
         heap' = WithTable(t, x) \/ heap' = Surviving(WithTable(t, x), sessions, held')
  PROVE  StoresInv'
<1>1. PICK r : held[t] = {r} /\ r \in DOMAIN heap
  BY DEF OwnInv, HolderOK
<1>2. (CHOOSE y \in held[t] : TRUE) = r /\ Mine(t) = heap[r]
  BY <1>1 DEF Mine
<1>3. /\ IsFcn(heap[r]) /\ DOMAIN heap[r] = {"scenario", "session", "state", "table"}
  BY <1>1 DEF OwnInv, InstancesOK
<1>4. [heap[r] EXCEPT !.table = x].table = x
  BY <1>3
<1>5. WithTable(t, x) = [heap EXCEPT ![r] = [heap[r] EXCEPT !.table = x]]
  BY <1>2 DEF WithTable, WithMine
<1>6. ASSUME NEW q \in DOMAIN heap PROVE Sound(WithTable(t, x)[q].table)
  <2>1. WithTable(t, x)[q] = IF q = r THEN [heap[r] EXCEPT !.table = x] ELSE heap[q]
    BY <1>5
  <2> QED
    BY <1>4, <2>1 DEF StoresInv
<1>7. DOMAIN WithTable(t, x) = DOMAIN heap
  BY <1>5
<1>8. \A q \in DOMAIN heap' : q \in DOMAIN heap /\ heap'[q] = WithTable(t, x)[q]
  BY <1>7 DEF Surviving, Restrict
<1> QED
  BY <1>6, <1>8 DEF StoresInv, Sound, Table, Filed, FiledRight

\* The table of the instance t holds.
LEMMA MineSound ==
  ASSUME OwnInv, StoresInv, NEW t \in Thread, pc[t] \in ServingSteps \cup ResettingSteps
  PROVE  Sound(Mine(t).table) /\ Mine(t).scenario \in Range(Scenarios)
<1>1. PICK r : held[t] = {r} /\ r \in DOMAIN heap
  BY DEF OwnInv, HolderOK
<1>2. Mine(t) = heap[r]
  BY <1>1 DEF Mine
<1> QED
  BY <1>1, <1>2 DEF StoresInv, OwnInv, InstancesOK

\* The operation of a call that reached an instance is in the catalogue, and the call is
\* what it should be.
LEMMA CallIsRight ==
  ASSUME CallInv, NEW t \in Thread, pc[t] \in ResolveSteps
  PROVE  CallRight(Operation(call[t]), call[t])
<1> DEFINE c == call[t]
           op == Operation(c)
<1>1. c \in Calls[t] /\ c.op = "resolve" /\ Settled(c) = {}
  BY DEF CallInv, CallOK, ResolveSteps
<1>2. c \in UNION Range(Calls)
  BY <1>1, CallsAssumption DEF Range
<1>3. ByRequest(c.route) # {}
  BY <1>1, Zenon DEF Settled
<1>4. op \in ByRequest(c.route)
  BY <1>3 DEF Operation
<1>5. op \in Range(Catalogue)
  BY <1>4 DEF ByRequest, Range
<1> HIDE DEF c, op
<1>6. /\ AtMostOne(c.request)
      /\ \A m \in c.request : Message(m) /\ m.shape # "response"
      /\ Message(c.response)
  BY <1>1, <1>2, CallsAssumption
<1>7. \A spec \in op.store : AtMostOne(spec.keyFrom)
  BY <1>5, CatalogueAssumption
<1>8. ASSUME NEW spec \in op.store, FromWholeRequest(spec)
      PROVE  UNION {m.text : m \in c.request} \subseteq WholeRequests
  <2>1. KeyedByWholeRequest(c)
    BY <1>1, <1>4, <1>8 DEF KeyedByWholeRequest
  <2> QED
    BY <1>2, <2>1 DEF WholeRequests
<1>9. CallRight(op, c)
  BY <1>6, <1>7, <1>8 DEF CallRight
<1> QED
  BY <1>9 DEF c, op

\* Every step keeps the tables of the live instances.
LEMMA StoresNext == OwnInv /\ CallInv /\ StoresInv /\ [Next]_vars => StoresInv'
<1> SUFFICES ASSUME OwnInv, CallInv, StoresInv, [Next]_vars PROVE StoresInv'
  OBVIOUS
\* A step that changes no table.
<1>1. ASSUME \A q \in DOMAIN heap' : q \in DOMAIN heap /\ heap'[q].table = heap[q].table
      PROVE  StoresInv'
  BY <1>1 DEF StoresInv, Sound, Table, Filed, FiledRight
<1>2. ASSUME NEW t \in Thread, pc[t] \in ServingSteps \cup ResettingSteps, NEW x,
             heap' = WithState(t, x) \/ heap' = Surviving(WithState(t, x), sessions, held')
      PROVE  StoresInv'
  <2>1. PICK r : held[t] = {r} /\ r \in DOMAIN heap
    BY <1>2 DEF OwnInv, HolderOK
  <2>2. (CHOOSE y \in held[t] : TRUE) = r /\ Mine(t) = heap[r]
    BY <2>1 DEF Mine
  <2>3. /\ IsFcn(heap[r]) /\ DOMAIN heap[r] = {"scenario", "session", "state", "table"}
    BY <2>1 DEF OwnInv, InstancesOK
  <2>4. [heap[r] EXCEPT !.state = x].table = heap[r].table
    BY <2>3
  <2>5. WithState(t, x) = [heap EXCEPT ![r] = [heap[r] EXCEPT !.state = x]]
    BY <2>2 DEF WithState, WithMine
  <2>6. /\ DOMAIN WithState(t, x) = DOMAIN heap
        /\ \A q \in DOMAIN heap : WithState(t, x)[q].table = heap[q].table
    BY <2>4, <2>5
  <2>7. \A q \in DOMAIN heap' : q \in DOMAIN heap /\ heap'[q] = WithState(t, x)[q]
    BY <1>2, <2>6 DEF Surviving, Restrict
  <2> QED
    BY <1>1, <2>6, <2>7
<1>3. ASSUME NEW t \in Thread, InsertSession(t) PROVE StoresInv'
  <2> DEFINE r == CHOOSE x \in Reference \ DOMAIN heap : TRUE
             fresh == FreshInstance(call[t])
  <2>1. heap' = Put(heap, r, fresh) /\ pc[t] = "insert"
    BY <1>3 DEF InsertSession
  <2>2. Scenario(call[t]) \in Range(Scenarios)
    BY <2>1 DEF OwnInv, HolderOK, ResolveSteps
  <2>3. Sound(fresh.table)
    <3>1. fresh.table = SeedTable(Scenario(call[t]))
      BY DEF FreshInstance
    <3> QED
      BY <2>2, <3>1, SeedTableIs DEF Sound
  <2> HIDE DEF r, fresh
  <2>4. /\ DOMAIN heap' = DOMAIN heap \cup {r}
        /\ \A q \in DOMAIN heap \cup {r} : heap'[q] = IF q = r THEN fresh ELSE heap[q]
    BY <2>1 DEF Put
  <2>5. \A q \in DOMAIN heap' : Sound(heap'[q].table)
    BY <2>3, <2>4 DEF StoresInv
  <2> QED
    BY <2>5 DEF StoresInv, Sound
<1>4. ASSUME NEW t \in Thread, UseStore(t) PROVE StoresInv'
  <2> DEFINE after == StoreResult(Mine(t).table, Operation(call[t]), call[t]).table
  <2>1. pc[t] = "store" /\ heap' = Surviving(WithTable(t, after), sessions, held')
    BY <1>4 DEF UseStore, WithTable
  <2>2. pc[t] \in ServingSteps /\ pc[t] \in ResolveSteps
    BY <2>1 DEF ServingSteps, ResolveSteps
  <2>3. Sound(after)
    BY <2>2, MineSound, CallIsRight, StoreResultKeeps DEF Sound
  <2> HIDE DEF after
  <2> QED
    BY <2>1, <2>2, <2>3, MineStored
<1>5. ASSUME NEW t \in Thread, ResetClear(t) PROVE StoresInv'
  <2>1. pc[t] \in ResettingSteps /\ heap' = WithTable(t, EmptyTable)
    BY <1>5 DEF ResetClear, ResettingSteps, WithTable
  <2> QED
    BY <2>1, EmptyTableIs, MineStored DEF Sound
<1>6. ASSUME NEW t \in Thread, ResetSeed(t) PROVE StoresInv'
  <2> DEFINE items == SeedItems(Mine(t).scenario)
             item == items[planted[t] + 1]
             after == StoreCreate(Mine(t).table, item.key, item.value).table
  <2>1. pc[t] \in ResettingSteps
    BY <1>6 DEF ResetSeed, ResettingSteps
  <2>2. CASE heap' = heap
    BY <1>1, <2>2
  <2>3. CASE planted[t] < Len(items) /\ heap' = WithTable(t, after)
    <3>1. Sound(Mine(t).table) /\ Mine(t).scenario \in Range(Scenarios)
      BY <2>1, MineSound
    <3>2. PICK U : items \in Seq(U) /\ \A x \in U : x.value.shape = "seed"
      BY <3>1, SeedItemsAre
    <3>3. planted[t] + 1 \in 1..Len(items)
      BY <2>3, <3>2 DEF CallInv, CallOK
    <3>4. item.value.shape = "seed"
      BY <3>2, <3>3
    <3>5. Sound(after)
      BY <3>1, <3>4, StoreCreateKeeps DEF Sound, FiledRight
    <3> QED
      BY <2>1, <2>3, <3>5, MineStored
  <2> QED
    BY <1>6, <2>2, <2>3 DEF ResetSeed, WithTable
<1>7. ASSUME NEW t \in Thread, Move(t) PROVE StoresInv'
  <2>1. pc[t] = "move" /\ \E x : heap' = Surviving(WithState(t, x), sessions, held')
    BY <1>7 DEF Move, WithState
  <2> QED
    BY <1>2, <2>1 DEF ServingSteps
<1>8. ASSUME NEW t \in Thread, ResetState(t) PROVE StoresInv'
  <2>1. pc[t] = "reset_state" /\ \E x : heap' = WithState(t, x)
    BY <1>8 DEF ResetState, WithState
  <2> QED
    BY <1>2, <2>1 DEF ResettingSteps
<1>9. ASSUME NEW t \in Thread, Snapshot(t) \/ \E c \in Calls[t] : Release(t, c) PROVE StoresInv'
  <2>1. \E registry, holding : heap' = Surviving(heap, registry, holding)
    BY <1>9 DEF Snapshot, Release
  <2> QED
    BY <1>1, <2>1 DEF Surviving, Restrict
<1>10. ASSUME NEW t \in Thread,
             \/ GetSession(t) \/ CheckCap(t) \/ GetAgain(t) \/ EndReset(t)
             \/ (\E k \in SessionKey : Visit(t, k))
             \/ (\E c \in Calls[t] : Resolve(t, c) \/ ResetAll(t, c))
       PROVE StoresInv'
  <2>1. heap' = heap
    BY <1>10 DEF GetSession, CheckCap, GetAgain, EndReset, Visit, Resolve, ResetAll
  <2> QED
    BY <1>1, <2>1
<1>11. CASE UNCHANGED vars
  BY <1>1, <1>11 DEF vars
<1> QED
  BY <1>3, <1>4, <1>5, <1>6, <1>7, <1>8, <1>9, <1>10, <1>11 DEF Next, Step, Invoke

\* apply_store, apply_seed: for any sidecar, threads and calls, a response that a create
\* stores is filed under the identifier it carries, unless that is a whole request.
THEOREM StoredUnderOwnId == Spec => []FiledUnderOwnId
<1>1. Init => StoresInv
  BY DEF Init, StoresInv
<1>2. StoresInv => FiledUnderOwnId
  BY DEF StoresInv, Sound, Filed, FiledRight, FiledUnderOwnId
<1> QED
  BY OwnInit, OwnNext, CallInit, CallNext, <1>1, StoresNext, <1>2, PTL DEF Spec

-----------------------------------------------------------------------------
(* Types *)

\* An instance is kept exactly as long as something refers to it, and the bucket of the
\* entry a reset visits is locked: its instance stays registered.
SharingInv ==
    /\ DOMAIN sessions \subseteq SessionKey
    /\ DOMAIN heap = Referred(sessions, held)
    /\ \A t \in Thread : pc[t] \in ResettingSteps => held[t] \subseteq Range(sessions)

\* The values of a function on a finite set are no more than its arguments.
LEMMA ValuesAreFew ==
  ASSUME NEW S, IsFiniteSet(S), NEW f, IsFcn(f), DOMAIN f = S
  PROVE  LET T == {f[x] : x \in S}
         IN  IsFiniteSet(T) /\ Cardinality(T) <= Cardinality(S)
<1> DEFINE T == {f[x] : x \in S}
<1>1. f \in [S -> T]
  BY DEF IsFcn
<1>2. \A y \in T : \E x \in S : f[x] = y
  OBVIOUS
<1>3. f \in Surjection(S, T)
  BY <1>1, <1>2 DEF Surjection
<1> QED
  BY <1>3, FS_Surjection

\* A thread holds one instance while its call works on it, and none otherwise.
LEMMA HeldIs ==
  ASSUME OwnInv, CallInv, NEW t \in Thread
  PROVE  IF pc[t] \in ServingSteps \cup ResettingSteps THEN \E r : held[t] = {r} ELSE held[t] = {}
BY DEF OwnInv, HolderOK, CallInv, CallOK

\* The registry and the threads never use up the identities.
LEMMA IdentityLeft ==
  ASSUME CapInv, OwnInv, CallInv, SharingInv
  PROVE  DOMAIN heap # Reference
<1> DEFINE R == {sessions[k] : k \in DOMAIN sessions}
           Holders == {t \in Thread : held[t] # {}}
           holds == [t \in Holders |-> CHOOSE r \in held[t] : TRUE]
           H == {holds[t] : t \in Holders}
<1>1. IsFiniteSet(R) /\ Cardinality(R) <= Cardinality(DOMAIN sessions)
  BY ValuesAreFew DEF CapInv, OwnInv, RegistryOK
<1>2. IsFiniteSet(Holders) /\ Cardinality(Holders) <= Cardinality(Thread)
  BY FS_Subset, ThreadAssumption
<1>3. IsFiniteSet(H) /\ Cardinality(H) <= Cardinality(Holders)
  <2>1. IsFcn(holds) /\ DOMAIN holds = Holders
    BY DEF IsFcn
  <2> HIDE DEF holds, Holders
  <2> QED
    BY <1>2, <2>1, ValuesAreFew
<1>4. DOMAIN heap \subseteq R \cup H
  <2>1. ASSUME NEW r \in UNION Range(held) PROVE r \in H
    <3>1. PICK t \in Thread : r \in held[t]
      BY <2>1 DEF OwnInv, LocalsOK, Range
    <3>2. held[t] = {r}
      BY <3>1, HeldIs
    <3>3. t \in Holders /\ holds[t] = r
      BY <3>2
    <3> QED
      BY <3>3
  <2>2. Range(sessions) = R
    BY DEF Range
  <2> QED
    BY <2>1, <2>2 DEF SharingInv, Referred
<1> HIDE DEF R, H, Holders
<1>5. /\ Cardinality(Thread) \in Nat /\ Cardinality(Holders) \in Nat
      /\ Cardinality(R) \in Nat /\ Cardinality(H) \in Nat
      /\ Cardinality(DOMAIN sessions) \in Nat
  BY <1>1, <1>2, <1>3, FS_CardinalityType, ThreadAssumption DEF CapInv
<1>6. IsFiniteSet(R \cup H) /\ Cardinality(R \cup H) <= Cardinality(R) + Cardinality(H)
  <2>1. /\ IsFiniteSet(R \cup H) /\ IsFiniteSet(R \cap H)
        /\ Cardinality(R \cup H) = Cardinality(R) + Cardinality(H) - Cardinality(R \cap H)
    BY <1>1, <1>3, FS_Union, FS_Subset
  <2>2. Cardinality(R \cap H) \in Nat
    BY <2>1, FS_CardinalityType
  <2> QED
    BY <1>5, <2>1, <2>2
<1>7. IsFiniteSet(DOMAIN heap) /\ Cardinality(DOMAIN heap) <= Cardinality(R \cup H)
  BY <1>4, <1>6, FS_Subset
<1>8. Cardinality(DOMAIN heap) \in Nat /\ Cardinality(R \cup H) \in Nat
  BY <1>6, <1>7, FS_CardinalityType
<1>9. Cardinality(DOMAIN sessions) <= Cardinality(Thread) + MaxSessions - 1
  <2>1. Cardinality(Admitted) \in Nat
    BY FS_Subset, FS_CardinalityType, ThreadAssumption DEF Admitted
  <2> QED
    BY <1>5, <2>1, MaxSessionsAssumption DEF CapInv, SessionsBounded
<1>10. Cardinality(DOMAIN heap) < 2 * Cardinality(Thread) + MaxSessions
  BY <1>1, <1>2, <1>3, <1>5, <1>6, <1>7, <1>8, <1>9, MaxSessionsAssumption
<1> QED
  BY <1>5, <1>7, <1>8, <1>10, ReferenceAssumption, MaxSessionsAssumption

\* The references in use are the registered ones and the held ones.
LEMMA InUse ==
  ASSUME OwnInv, NEW r
  PROVE  r \in Referred(sessions, held) <=> r \in Range(sessions) \/ \E u \in Thread : r \in held[u]
BY DEF Referred, Range, OwnInv, LocalsOK

\* A step of thread t that keeps the registry.
LEMMA SharingFrame ==
  ASSUME OwnInv, OwnInv', SharingInv, NEW t \in Thread, sessions' = sessions,
         pc' = pc \/ \E x : pc' = [pc EXCEPT ![t] = x],
         held' = held \/ \E x : held' = [held EXCEPT ![t] = x],
         pc'[t] \in ResettingSteps => held'[t] \subseteq Range(sessions),
         \/ DOMAIN heap' = DOMAIN heap \cap Referred(sessions, held') /\ held'[t] \subseteq held[t]
         \/ DOMAIN heap' = DOMAIN heap /\ held'[t] = held[t]
         \/ /\ DOMAIN heap' = DOMAIN heap
            /\ held[t] \subseteq Range(sessions) /\ held'[t] \subseteq Range(sessions)
  PROVE  SharingInv'
<1>1. \A u \in Thread \ {t} : pc'[u] = pc[u] /\ held'[u] = held[u]
  BY DEF OwnInv, LocalsOK, IsFcn
<1>2. \A u \in Thread : pc'[u] \in ResettingSteps => held'[u] \subseteq Range(sessions')
  BY <1>1 DEF SharingInv
<1>3. ASSUME NEW r
      PROVE  /\ r \in Referred(sessions, held)
                  <=> r \in Range(sessions) \/ \E u \in Thread : r \in held[u]
             /\ r \in Referred(sessions, held')
                  <=> r \in Range(sessions) \/ \E u \in Thread : r \in held'[u]
  BY DEF Referred, Range, OwnInv, LocalsOK
<1>4. \A r : r \in DOMAIN heap' <=> r \in Referred(sessions, held')
  BY <1>1, <1>3 DEF SharingInv
<1>5. DOMAIN heap' = Referred(sessions', held')
  BY <1>4
<1> QED
  BY <1>2, <1>5 DEF SharingInv

\* A call that returns drops the instance it worked on, if nobody else has it.
LEMMA SharingReturn ==
  ASSUME OwnInv, OwnInv', SharingInv, NEW t \in Thread, NEW outcome, Return(t, outcome),
         sessions' = sessions,
         \/ \E h : DOMAIN h = DOMAIN heap /\ heap' = Surviving(h, sessions, held')
         \/ heap' = heap /\ held[t] = {}
  PROVE  SharingInv'
<1>1. pc' = [pc EXCEPT ![t] = "idle"] /\ held' = [held EXCEPT ![t] = {}]
  BY DEF Return, Goto
<1>2. pc'[t] = "idle" /\ held'[t] = {}
  BY <1>1 DEF OwnInv, LocalsOK, IsFcn
<1>3. \/ DOMAIN heap' = DOMAIN heap \cap Referred(sessions, held')
      \/ heap' = heap /\ held[t] = {}
  BY DEF Surviving, Restrict
<1> QED
  BY <1>1, <1>2, <1>3, SharingFrame DEF ResettingSteps

\* After every step threads hold what their place in the call allows.
LEMMA SharingNext == OwnInv /\ CallInv /\ SharingInv /\ [Next]_vars => SharingInv'
<1> SUFFICES ASSUME OwnInv, CallInv, SharingInv, [Next]_vars PROVE SharingInv'
  OBVIOUS
<1>0. OwnInv'
  BY OwnNext
<1>1. CASE UNCHANGED vars
  BY <1>1 DEF vars, SharingInv, Referred
\* A step that keeps what t holds and leaves it outside resets.
<1>2. ASSUME NEW t \in Thread, NEW step, pc' = [pc EXCEPT ![t] = step] \/ pc' = pc, held' = held,
             step \in ResettingSteps => pc[t] \in ResettingSteps,
             sessions' = sessions,
             \/ DOMAIN heap' = DOMAIN heap
             \/ \E h : DOMAIN h = DOMAIN heap /\ heap' = Surviving(h, sessions, held')
      PROVE  SharingInv'
  <2>1. pc'[t] \in ResettingSteps => held[t] \subseteq Range(sessions)
    BY <1>2 DEF SharingInv, OwnInv, LocalsOK
  <2>2. DOMAIN heap' = DOMAIN heap \/ DOMAIN heap' = DOMAIN heap \cap Referred(sessions, held')
    BY <1>2 DEF Surviving, Restrict
  <2> QED
    BY <1>0, <1>2, <2>1, <2>2, SharingFrame
\* A step after which t holds what is registered.
<1>3. ASSUME NEW t \in Thread, NEW k \in DOMAIN sessions, NEW step, Hold(t, sessions[k], step),
             held[t] = {}, sessions' = sessions, heap' = heap
      PROVE  SharingInv'
  <2>1. held' = [held EXCEPT ![t] = {sessions[k]}] /\ pc' = [pc EXCEPT ![t] = step]
    BY <1>3 DEF Hold, Goto
  <2>2. held'[t] = {sessions[k]} /\ sessions[k] \in Range(sessions)
    BY <2>1 DEF OwnInv, LocalsOK, IsFcn, Range
  <2> QED
    BY <1>0, <1>3, <2>1, <2>2, SharingFrame
<1>4. ASSUME NEW t \in Thread, pc[t] \notin ServingSteps \cup ResettingSteps PROVE held[t] = {}
  BY <1>4, HeldIs
<1>5. ASSUME NEW t \in Thread, NEW c \in Calls[t], Resolve(t, c) \/ ResetAll(t, c) PROVE SharingInv'
  <2>1. /\ \/ pc' = [pc EXCEPT ![t] = "get"] \/ pc' = [pc EXCEPT ![t] = "scan"] \/ pc' = pc
        /\ held' = held /\ sessions' = sessions /\ heap' = heap
    BY <1>5 DEF Resolve, ResetAll, Goto
  <2> QED
    BY <1>2, <2>1 DEF ResettingSteps
<1>6. ASSUME NEW t \in Thread, GetSession(t) \/ GetAgain(t) PROVE SharingInv'
  <2> DEFINE k == KeyOf(call[t])
  <2>1. held[t] = {} /\ sessions' = sessions /\ heap' = heap
    BY <1>4, <1>6 DEF GetSession, GetAgain, ServingSteps, ResettingSteps
  <2>2. \/ k \in DOMAIN sessions /\ Hold(t, sessions[k], "snapshot")
        \/ held' = held /\ \E step \in {"cap", "insert"} : pc' = [pc EXCEPT ![t] = step]
    BY <1>6 DEF GetSession, GetAgain, Goto
  <2> HIDE DEF k
  <2> QED
    BY <1>2, <1>3, <2>1, <2>2 DEF ResettingSteps
<1>7. ASSUME NEW t \in Thread, CheckCap(t) PROVE SharingInv'
  <2>1. held[t] = {} /\ sessions' = sessions /\ heap' = heap
    BY <1>4, <1>7 DEF CheckCap, ServingSteps, ResettingSteps
  <2>2. \/ \E outcome : Return(t, outcome)
        \/ pc' = [pc EXCEPT ![t] = "get_again"] /\ held' = held
    BY <1>7 DEF CheckCap, Goto
  <2> QED
    BY <1>0, <1>2, <2>1, <2>2, SharingReturn DEF ResettingSteps
<1>8. ASSUME NEW t \in Thread, Snapshot(t) PROVE SharingInv'
  <2>1. /\ \/ \E outcome : Return(t, outcome)
           \/ pc' = [pc EXCEPT ![t] = "store"] /\ held' = held
        /\ heap' = Surviving(heap, sessions, held') /\ sessions' = sessions
    BY <1>8 DEF Snapshot, Goto
  <2> QED
    BY <1>0, <1>2, <2>1, SharingReturn DEF ResettingSteps
<1>9. ASSUME NEW t \in Thread, UseStore(t) \/ Move(t) PROVE SharingInv'
  <2>1. /\ \/ \E outcome : Return(t, outcome)
           \/ pc' = [pc EXCEPT ![t] = "move"] /\ held' = held
        /\ \E x : heap' = Surviving(WithMine(t, x), sessions, held')
        /\ sessions' = sessions
    BY <1>9 DEF UseStore, Move, Goto
  <2>2. \A x : DOMAIN WithMine(t, x) = DOMAIN heap
    BY DEF WithMine
  <2> QED
    BY <1>0, <1>2, <2>1, <2>2, SharingReturn DEF ResettingSteps
<1>10. ASSUME NEW t \in Thread, EndReset(t) PROVE SharingInv'
  <2>1. held[t] = {} /\ sessions' = sessions /\ heap' = heap /\ Return(t, Ungoverned)
    BY <1>4, <1>10 DEF EndReset, ServingSteps, ResettingSteps
  <2> QED
    BY <1>0, <2>1, SharingReturn
<1>11. ASSUME NEW t \in Thread, NEW k \in SessionKey, Visit(t, k) PROVE SharingInv'
  <2>1. held[t] = {} /\ sessions' = sessions /\ heap' = heap
    BY <1>4, <1>11 DEF Visit, ServingSteps, ResettingSteps
  <2>2. \/ k \in DOMAIN sessions /\ Hold(t, sessions[k], "reset_state")
        \/ pc' = pc /\ held' = held
    BY <1>11 DEF Visit
  <2> QED
    BY <1>2, <1>3, <2>1, <2>2 DEF ResettingSteps
<1>12. ASSUME NEW t \in Thread, ResetState(t) \/ ResetClear(t) PROVE SharingInv'
  <2>1. /\ pc[t] \in ResettingSteps /\ held' = held /\ sessions' = sessions
        /\ \E step : pc' = [pc EXCEPT ![t] = step]
        /\ DOMAIN heap' = DOMAIN heap
    BY <1>12 DEF ResetState, ResetClear, Goto, WithMine, ResettingSteps
  <2> QED
    BY <1>2, <2>1
<1>13. ASSUME NEW t \in Thread, ResetSeed(t) PROVE SharingInv'
  <2>1. /\ pc[t] \in ResettingSteps /\ sessions' = sessions /\ DOMAIN heap' = DOMAIN heap
        /\ \/ pc' = pc /\ held' = held
           \/ pc' = [pc EXCEPT ![t] = "scan"] /\ held' = [held EXCEPT ![t] = {}]
    BY <1>13 DEF ResetSeed, Goto, WithMine, ResettingSteps
  <2>2. CASE pc' = [pc EXCEPT ![t] = "scan"] /\ held' = [held EXCEPT ![t] = {}]
    <3>1. held'[t] = {} /\ held[t] \subseteq Range(sessions)
      BY <2>1, <2>2 DEF SharingInv, OwnInv, LocalsOK, IsFcn
    <3> QED
      BY <1>0, <2>1, <2>2, <3>1, SharingFrame
  <2> QED
    BY <1>2, <2>1, <2>2
<1>14. ASSUME NEW t \in Thread, InsertSession(t) PROVE SharingInv'
  <2> DEFINE k == KeyOf(call[t])
             r == CHOOSE x \in Reference \ DOMAIN heap : TRUE
  <2>1. /\ pc[t] = "insert" /\ held[t] = {}
        /\ sessions' = IF k \in DOMAIN sessions THEN sessions ELSE Put(sessions, k, r)
        /\ heap' = Put(heap, r, FreshInstance(call[t]))
        /\ held' = [held EXCEPT ![t] = {r}] /\ pc' = [pc EXCEPT ![t] = "snapshot"]
    BY <1>4, <1>14 DEF InsertSession, Hold, Goto, ServingSteps, ResettingSteps
  <2>2. k \in SessionKey
    <3>1. /\ call[t] \in Calls[t] /\ call[t].op = "resolve"
          /\ Scenario(call[t]) \in Range(Scenarios)
      BY <2>1 DEF CallInv, CallOK, OwnInv, HolderOK, ResolveSteps
    <3>2. call[t] \in {d \in UNION Range(Calls) : d.op # "reset"}
      BY <3>1, CallsAssumption DEF Range
    <3> QED
      BY <3>1, <3>2 DEF KeyOf, SessionKey
  <2> HIDE DEF k, r
  <2>3. \/ sessions' = sessions
        \/ /\ k \notin DOMAIN sessions /\ DOMAIN sessions' = DOMAIN sessions \cup {k}
           /\ \A l \in DOMAIN sessions' : sessions'[l] = IF l = k THEN r ELSE sessions[l]
    BY <2>1 DEF Put
  <2>4. DOMAIN sessions' \subseteq SessionKey
    BY <2>2, <2>3 DEF SharingInv
  <2>5. Range(sessions) \subseteq Range(sessions') /\ Range(sessions') \subseteq Range(sessions) \cup {r}
    <3>1. CASE sessions' = sessions
      BY <3>1
    <3>2. CASE /\ k \notin DOMAIN sessions /\ DOMAIN sessions' = DOMAIN sessions \cup {k}
               /\ \A l \in DOMAIN sessions' : sessions'[l] = IF l = k THEN r ELSE sessions[l]
      BY <3>2 DEF Range
    <3> QED
      BY <2>3, <3>1, <3>2
  <2>6. held'[t] = {r} /\ \A u \in Thread \ {t} : held'[u] = held[u] /\ pc'[u] = pc[u]
    BY <2>1 DEF OwnInv, LocalsOK, IsFcn
  <2>7. pc'[t] = "snapshot"
    BY <2>1 DEF OwnInv, LocalsOK
  <2>8. \A u \in Thread : pc'[u] \in ResettingSteps => held'[u] \subseteq Range(sessions')
    BY <2>5, <2>6, <2>7 DEF SharingInv, ResettingSteps
  <2>9. \A x : x \in Referred(sessions', held')
                 <=> x \in Range(sessions') \/ \E u \in Thread : x \in held'[u]
    BY <1>0 DEF Referred, Range, OwnInv, LocalsOK
  <2>10. DOMAIN heap' = DOMAIN heap \cup {r}
    BY <2>1 DEF Put
  <2>11. \A x : x \in DOMAIN heap' <=> x \in Referred(sessions', held')
    BY <2>1, <2>5, <2>6, <2>9, <2>10, InUse DEF SharingInv
  <2>12. DOMAIN heap' = Referred(sessions', held')
    BY <2>11
  <2> QED
    BY <2>4, <2>8, <2>12 DEF SharingInv
<1>15. ASSUME NEW t \in Thread, NEW c \in Calls[t], Release(t, c) PROVE SharingInv'
  <2> DEFINE k == KeyOf(c)
  <2>1. /\ sessions' = Drop(sessions, k) /\ heap' = Surviving(heap, sessions', held)
        /\ ~Blocked(k) /\ pc' = pc /\ held' = held
    BY <1>15 DEF Release
  <2> HIDE DEF k
  <2>2. /\ DOMAIN sessions' = DOMAIN sessions \ {k}
        /\ \A l \in DOMAIN sessions' : sessions'[l] = sessions[l]
    BY <2>1 DEF Drop, Restrict
  <2>3. DOMAIN sessions' \subseteq SessionKey /\ Range(sessions') \subseteq Range(sessions)
    BY <2>2 DEF SharingInv, Range
  <2>4. ASSUME NEW u \in Thread, pc'[u] \in ResettingSteps
        PROVE  held'[u] \subseteq Range(sessions')
    <3>1. PICK r : held[u] = {r}
      BY <2>1, <2>4 DEF OwnInv, HolderOK
    <3>2. PICK l \in DOMAIN sessions : r = sessions[l]
      BY <2>1, <2>4, <3>1 DEF SharingInv, Range
    <3>3. l # k
      BY <2>1, <2>4, <3>1, <3>2 DEF Blocked, Visiting, ResettingSteps
    <3>4. r \in Range(sessions')
      BY <2>2, <3>2, <3>3 DEF Range
    <3> QED
      BY <2>1, <3>1, <3>4
  <2>5. Referred(sessions', held) \subseteq Referred(sessions, held)
    BY <2>3 DEF Referred
  <2>6. DOMAIN heap' = DOMAIN heap \cap Referred(sessions', held)
    BY <2>1 DEF Surviving, Restrict
  <2>7. DOMAIN heap' = Referred(sessions', held')
    BY <2>1, <2>5, <2>6 DEF SharingInv
  <2> QED
    BY <2>3, <2>4, <2>7 DEF SharingInv
<1> QED
  BY <1>1, <1>5, <1>6, <1>7, <1>8, <1>9, <1>10, <1>11, <1>12, <1>13, <1>14, <1>15
     DEF Next, Step, Invoke

\* What every instance reaches is a declared state.
LEMMA ReachedDeclared ==
  ASSUME NEW sc \in Range(Scenarios), NEW s, Reached(sc, s)
  PROVE  s \in DOMAIN Machine[sc].states
<1>1. Closed(Machine[sc], DOMAIN Machine[sc].states)
  BY MachineAssumption DEF Declared, Closed
<1> QED
  BY <1>1 DEF Reached

\* The invariants together give the types.
LEMMA TypesFollow == CapInv /\ OwnInv /\ ReachInv /\ CallInv /\ StoresInv /\ SharingInv => TypeOK
<1> SUFFICES ASSUME CapInv, OwnInv, ReachInv, CallInv, StoresInv, SharingInv PROVE TypeOK
  OBVIOUS
<1>1. pc \in [Thread -> {"idle"} \cup ResolveSteps \cup ResetSteps]
  BY DEF CapInv, Steps
<1>2. DOMAIN sessions \subseteq SessionKey /\ DOMAIN heap = Referred(sessions, held)
  BY DEF SharingInv
<1>3. DOMAIN heap \subseteq Reference /\ DOMAIN heap # Reference
  BY IdentityLeft DEF OwnInv, InstancesOK
<1>4. ASSUME NEW r \in DOMAIN heap
      PROVE  /\ heap[r].scenario \in Range(Scenarios)
             /\ heap[r].state \in DOMAIN Machine[heap[r].scenario].states
             /\ Cardinality(DOMAIN heap[r].table) <= StoreLimit
  <2>1. heap[r].scenario \in Range(Scenarios) /\ Reached(heap[r].scenario, heap[r].state)
    BY DEF OwnInv, InstancesOK, ReachInv, HeapReached
  <2> QED
    BY <2>1, ReachedDeclared DEF StoresInv, Sound, Table
<1>5. ASSUME NEW t \in Thread
      PROVE  /\ Cardinality(held[t]) = IF pc[t] \in ServingSteps \cup ResettingSteps THEN 1 ELSE 0
             /\ call[t] \in IF pc[t] = "idle" THEN {NoCall} ELSE Calls[t]
             /\ snap[t] # NoState <=> pc[t] \in {"store", "move"}
             /\ unvisited[t] \subseteq SessionKey
             /\ planted[t] \in Nat
  <2>1. Cardinality(held[t]) = IF pc[t] \in ServingSteps \cup ResettingSteps THEN 1 ELSE 0
    BY HeldIs, FS_Singleton, FS_EmptySet
  <2>2. pc[t] \in {"store", "move"} => snap[t] # NoState
    <3> SUFFICES ASSUME pc[t] \in {"store", "move"} PROVE snap[t] # NoState
      OBVIOUS
    <3>1. Scenario(call[t]) \in Range(Scenarios)
      BY DEF OwnInv, HolderOK, ResolveSteps
    <3>2. snap[t] \in DOMAIN Machine[Scenario(call[t])].states
      BY DEF CallInv, CallOK, Allows
    <3> QED
      BY <3>1, <3>2, NoStateAssumption
  <2>3. /\ call[t] \in IF pc[t] = "idle" THEN {NoCall} ELSE Calls[t]
        /\ pc[t] \notin {"store", "move"} => snap[t] = NoState
        /\ unvisited[t] \subseteq SessionKey
        /\ planted[t] \in Nat
    BY DEF CallInv, CallOK
  <2> QED
    BY <2>1, <2>2, <2>3
<1> QED
  BY <1>1, <1>2, <1>3, <1>4, <1>5 DEF TypeOK

\* The scenario runtime, for any sidecar, threads and calls: what the registry and the
\* threads refer to is live and nothing else is, no thread keeps an instance past its call,
\* no instance leaves its declared states or outgrows its store, and there is always an
\* identity left for another.
THEOREM TypesHold == Spec => []TypeOK
<1>1. Init => ReachInv /\ StoresInv /\ SharingInv
  BY DEF Init, ReachInv, HeapReached, SnapReached, StoresInv, SharingInv, Referred, Range,
         ResettingSteps
<1> QED
  BY CapInit, CapNext, OwnInit, OwnNext, CallInit, CallNext, <1>1, ReachNext, StoresNext,
     SharingNext, TypesFollow, PTL DEF Spec

-----------------------------------------------------------------------------
(* The operators of the flows are the runtime's *)

\* How many flows there are is how many sessions there are.
LEMMA SameCardinality == \A S : Flows!Cardinality(S) = Cardinality(S)
BY DEF Flows!Cardinality, Cardinality, Flows!IsFiniteSet, IsFiniteSet

\* The scenario a call names, or falls back to.
LEMMA SameScenarioOf == \A c : Flows!ScenarioOf(c) = ScenarioOf(c)
BY DEF Flows!ScenarioOf, ScenarioOf, Flows!DefaultScenario, DefaultScenario, Flows!Range, Range

\* The operation a call is for.
LEMMA SameOp == \A c : Flows!ByRequest(c.route) = ByRequest(c.route) /\ Flows!Op(c) = Operation(c)
BY DEF Flows!ByRequest, ByRequest, Flows!Op, Operation

\* The answers.
LEMMA SameOutcomes ==
  /\ Flows!Ungoverned = Ungoverned
  /\ \A failure : Flows!Failed(failure) = Failed(failure)
BY DEF Flows!Ungoverned, Ungoverned, Flows!Failed, Failed, Flows!Outcome, Outcome,
       Flows!StatusOf, StatusOf

\* What a machine allows, and where it goes.
LEMMA SameMachine ==
  \A m, s, op : /\ Flows!Allows(m, s, op) = Allows(m, s, op)
                /\ Flows!NextState(m, s, op) = NextState(m, s, op)
                /\ Flows!StepResponses(m, s, op) = StepResponses(m, s, op)
BY DEF Flows!Allows, Allows, Flows!NextState, NextState, Flows!StepResponses, StepResponses

\* What the machine puts in the place of the answer of the store.
LEMMA SameOverride ==
  \A outcome, m, s, op : Flows!Overridden(outcome, m, s, op) = Overridden(outcome, m, s, op)
BY DEF Flows!Overridden, Overridden, Flows!StepResponses, StepResponses, Flows!Allows, Allows,
       Flows!FirstStatus, FirstStatus, Flows!UnparsedStatus, UnparsedStatus, Flows!Failures, Failures,
       Flows!Outcome, Outcome

\* What a scenario is seeded with.
LEMMA SameSeed == \A sc : Flows!SeedTable(sc) = SeedTable(sc)
BY DEF Flows!SeedTable, SeedTable, Flows!Seeded, Seeded, Flows!SeedItems, SeedItems,
       Flows!SeedItem, SeedItem, Flows!EmptyTable, EmptyTable, Flows!StoreCreate,
       StoreCreate, Flows!Cardinality, Cardinality, Flows!IsFiniteSet, IsFiniteSet,
       Flows!Result, Result, Flows!Failed, Failed, Flows!Outcome, Outcome, Flows!StatusOf,
       StatusOf, Flows!Body, Body, Flows!Put, Put

\* What the store answers, and keeps.
LEMMA SameStore == \A table, op, c : Flows!StoreResult(table, op, c) = StoreResult(table, op, c)
BY DEF Flows!StoreResult, StoreResult, Flows!ApplyStore, ApplyStore, Flows!KeyedCall,
       KeyedCall, Flows!Listed, Listed, Flows!CreatedValue, CreatedValue, Flows!RequestBody,
       RequestBody, Flows!Null, Null, Flows!AlignIdentifier, AlignIdentifier,
       Flows!PointerValue, PointerValue, Flows!Whole, Whole, Flows!Subject, Subject,
       Flows!ResolveKey, ResolveKey, Flows!ResolveCreateKey, ResolveCreateKey,
       Flows!BindNamespace, BindNamespace, Flows!Drop, Drop, Flows!Restrict, Restrict,
       Flows!Empty, Empty, Flows!Ungoverned, Ungoverned, Flows!StoreCreate, StoreCreate,
       Flows!Cardinality, Cardinality, Flows!IsFiniteSet, IsFiniteSet, Flows!Result, Result,
       Flows!Failed, Failed, Flows!Outcome, Outcome, Flows!StatusOf, StatusOf, Flows!Body,
       Body, Flows!Put, Put

-----------------------------------------------------------------------------
(* Clients that keep apart *)

\* What holds besides while clients keep apart.  Only a reset iterates the registry.  A
\* thread that is about to register its session finds it unregistered still; a thread that
\* serves holds the registered instance, in the state it read; and a reset that has come
\* past the state, or to the seed, has put that much of the instance back.
ApartOK(t) ==
    LET k == KeyOf(call[t]) IN
    /\ pc[t] \in ResetSteps => call[t].op = "reset"
    /\ pc[t] \in {"cap", "get_again", "insert"} => k \notin DOMAIN sessions
    /\ pc[t] \in ServingSteps => k \in DOMAIN sessions /\ held[t] = {sessions[k]}
    /\ pc[t] \in {"store", "move"} => snap[t] = Mine(t).state
    /\ pc[t] \in {"reset_clear", "reset_seed"} =>
          Mine(t).state = Machine[Mine(t).scenario].initial
    /\ IF pc[t] = "reset_seed"
       THEN /\ planted[t] <= Len(SeedItems(Mine(t).scenario))
            /\ Mine(t).table = Seeded(Mine(t).scenario, planted[t])
       ELSE planted[t] = 0

ApartInv == \A t \in Thread : ApartOK(t)

\* Nothing is in progress at first.
LEMMA ApartInit == Init => ApartInv
BY DEF Init, ApartInv, ApartOK, ResetSteps, ServingSteps

\* Two threads in a call: neither resets, and their keys differ.
LEMMA KeysApart ==
  ASSUME ClientsApart(Calls), CallInv,
         NEW t \in Thread, NEW u \in Thread, t # u, pc[t] # "idle", NEW d \in Calls[u]
  PROVE  call[t].op # "reset" /\ d.op # "reset" /\ KeyOf(call[t]) # KeyOf(d)
<1>1. call[t] \in Calls[t]
  BY DEF CallInv, CallOK
<1> QED
  BY <1>1 DEF ClientsApart

\* While one thread resets, every other is idle.
LEMMA ResetsAlone ==
  ASSUME ClientsApart(Calls), OwnInv, CallInv, ApartInv,
         NEW t \in Thread, NEW u \in Thread, t # u, pc[t] \in ResetSteps
  PROVE  pc[u] = "idle" /\ held[u] = {}
<1>1. call[t].op = "reset" /\ pc[t] # "idle"
  BY DEF ApartInv, ApartOK, ResetSteps
<1>2. pc[u] = "idle"
  <2>1. call[u] \in IF pc[u] = "idle" THEN {NoCall} ELSE Calls[u]
    BY DEF CallInv, CallOK
  <2> QED
    BY <1>1, <2>1, KeysApart
<1> QED
  BY <1>2, HeldIs DEF ServingSteps, ResettingSteps

\* No two threads hold one instance.
LEMMA HoldsApart ==
  ASSUME ClientsApart(Calls), OwnInv, CallInv, ApartInv,
         NEW t \in Thread, NEW u \in Thread, t # u, NEW r \in held[u]
  PROVE  r \notin held[t]
<1> SUFFICES ASSUME r \in held[t] PROVE FALSE
  OBVIOUS
<1>1. pc[t] \in ServingSteps \cup ResettingSteps /\ pc[u] \in ServingSteps \cup ResettingSteps
  BY HeldIs
<1>2. pc[t] \notin ResetSteps /\ pc[u] \notin ResetSteps
  BY ResetsAlone
<1>3. pc[t] \in ServingSteps /\ pc[u] \in ServingSteps
  BY <1>1, <1>2 DEF ResettingSteps, ResetSteps
<1>4. /\ KeyOf(call[t]) \in DOMAIN sessions /\ r = sessions[KeyOf(call[t])]
      /\ KeyOf(call[u]) \in DOMAIN sessions /\ r = sessions[KeyOf(call[u])]
  BY <1>3 DEF ApartInv, ApartOK
<1>5. KeyOf(call[t]) = KeyOf(call[u])
  BY <1>4, OwnImplies DEF SessionsIsolated, IsInjective
<1>6. call[u] \in Calls[u] /\ pc[t] # "idle"
  BY <1>3 DEF CallInv, CallOK, ServingSteps
<1> QED
  BY <1>5, <1>6, KeysApart

\* What a step of thread t leaves of the instance another thread holds.
LEMMA OthersKeep ==
  ASSUME ClientsApart(Calls), OwnInv, CallInv, ApartInv,
         NEW t \in Thread, NEW u \in Thread, t # u, NEW r \in held[u],
         held'[u] = held[u], IsFcn(held'), DOMAIN held' = Thread,
         NEW h, h = heap \/ (held[t] # {} /\ \E x : h = WithMine(t, x)),
         heap' = h \/ heap' = Surviving(h, sessions', held')
  PROVE  r \in DOMAIN heap /\ r \in DOMAIN heap' /\ heap'[r] = heap[r]
<1>2. r \in DOMAIN heap
  BY DEF OwnInv, HolderOK
<1>3. DOMAIN h = DOMAIN heap /\ h[r] = heap[r]
  <2>1. CASE h = heap
    BY <2>1
  <2>2. CASE held[t] # {} /\ \E x : h = WithMine(t, x)
    <3>1. (CHOOSE y \in held[t] : TRUE) # r
      BY <2>2, HoldsApart
    <3> QED
      BY <1>2, <2>2, <3>1 DEF WithMine
  <2> QED
    BY <2>1, <2>2
<1>4. r \in Referred(sessions', held')
  BY DEF Referred, Range
<1> QED
  BY <1>2, <1>3, <1>4 DEF Surviving, Restrict

\* A step of thread t, as the other threads see it.
OthersSame(t) ==
    /\ \A u \in Thread \ {t} :
          /\ pc'[u] = pc[u] /\ call'[u] = call[u] /\ held'[u] = held[u] /\ snap'[u] = snap[u]
          /\ planted'[u] = planted[u]
    /\ \A u \in Thread \ {t} : pc[u] # "idle" =>
          LET k == KeyOf(call[u]) IN
          /\ k \in DOMAIN sessions' <=> k \in DOMAIN sessions
          /\ k \in DOMAIN sessions => sessions'[k] = sessions[k]
    /\ \A u \in Thread \ {t} : \A r \in held[u] : heap'[r] = heap[r]

\* What thread t is checked for is all that its step can disturb.
LEMMA ApartFrame ==
  ASSUME OwnInv, CallInv, ApartInv, NEW t \in Thread, OthersSame(t), ApartOK(t)'
  PROVE  ApartInv'
<1>1. ASSUME NEW u \in Thread \ {t} PROVE ApartOK(u)'
  <2>1. ApartOK(u)
    BY DEF ApartInv
  <2>2. /\ pc'[u] = pc[u] /\ call'[u] = call[u] /\ held'[u] = held[u] /\ snap'[u] = snap[u]
        /\ planted'[u] = planted[u]
    BY DEF OthersSame
  <2>3. CASE pc[u] = "idle"
    BY <2>1, <2>2, <2>3 DEF ApartOK, ResetSteps, ServingSteps
  <2>4. CASE pc[u] # "idle"
    <3>1. /\ KeyOf(call[u]) \in DOMAIN sessions' <=> KeyOf(call[u]) \in DOMAIN sessions
          /\ KeyOf(call[u]) \in DOMAIN sessions => sessions'[KeyOf(call[u])] = sessions[KeyOf(call[u])]
      BY <2>4 DEF OthersSame
    <3>2. pc[u] \in ServingSteps \cup ResettingSteps => Mine(u)' = Mine(u)
      <4> SUFFICES ASSUME pc[u] \in ServingSteps \cup ResettingSteps PROVE Mine(u)' = Mine(u)
        OBVIOUS
      <4>1. PICK r : held[u] = {r}
        BY HeldIs
      <4>2. heap'[r] = heap[r]
        BY <4>1 DEF OthersSame
      <4> QED
        BY <2>2, <4>1, <4>2 DEF Mine
    <3>3. /\ pc[u] \in {"store", "move"} => Mine(u)' = Mine(u)
          /\ pc[u] \in {"reset_clear", "reset_seed"} => Mine(u)' = Mine(u)
      BY <3>2 DEF ServingSteps, ResettingSteps
    <3> QED
      BY <2>1, <2>2, <3>1, <3>3 DEF ApartOK
  <2> QED
    BY <2>3, <2>4
<1> QED
  BY <1>1 DEF ApartInv

\* A step that keeps the registry and changes no instance but the one t holds.
LEMMA OthersStay ==
  ASSUME ClientsApart(Calls), OwnInv, CallInv, ApartInv, NEW t \in Thread,
         sessions' = sessions,
         pc' = pc \/ \E x : pc' = [pc EXCEPT ![t] = x],
         call' = call \/ \E x : call' = [call EXCEPT ![t] = x],
         held' = held \/ \E x : held' = [held EXCEPT ![t] = x],
         snap' = snap \/ \E x : snap' = [snap EXCEPT ![t] = x],
         planted' = planted \/ \E x : planted' = [planted EXCEPT ![t] = x],
         NEW h, h = heap \/ (held[t] # {} /\ \E x : h = WithMine(t, x)),
         heap' = h \/ heap' = Surviving(h, sessions', held')
  PROVE  OthersSame(t)
<1>1. \A u \in Thread \ {t} :
         /\ pc'[u] = pc[u] /\ call'[u] = call[u] /\ held'[u] = held[u] /\ snap'[u] = snap[u]
         /\ planted'[u] = planted[u]
  BY DEF OwnInv, LocalsOK, CallInv, IsFcn
<1>2. IsFcn(held') /\ DOMAIN held' = Thread
  BY DEF OwnInv, LocalsOK, IsFcn
<1>3. \A u \in Thread \ {t} : \A r \in held[u] : heap'[r] = heap[r]
  BY <1>1, <1>2, OthersKeep
<1> QED
  BY <1>1, <1>3 DEF OthersSame

\* A call that returns.
LEMMA ApartReturn ==
  ASSUME ClientsApart(Calls), OwnInv, CallInv, ApartInv, NEW t \in Thread, NEW outcome,
         Return(t, outcome), sessions' = sessions, planted' = planted, pc[t] # "reset_seed",
         NEW h, h = heap \/ (held[t] # {} /\ \E x : h = WithMine(t, x)),
         heap' = h \/ heap' = Surviving(h, sessions', held')
  PROVE  ApartInv' /\ OthersSame(t)
<1>1. /\ pc' = [pc EXCEPT ![t] = "idle"] /\ call' = [call EXCEPT ![t] = NoCall]
      /\ held' = [held EXCEPT ![t] = {}] /\ snap' = [snap EXCEPT ![t] = NoState]
  BY DEF Return, Goto
<1>2. pc'[t] = "idle" /\ planted'[t] = 0
  BY <1>1 DEF OwnInv, LocalsOK, ApartInv, ApartOK
<1>3. ApartOK(t)'
  BY <1>2 DEF ApartOK, ResetSteps, ServingSteps
<1>4. OthersSame(t)
  BY <1>1, OthersStay
<1> QED
  BY <1>3, <1>4, ApartFrame

\* Calls that begin, and looks at the registry.
LEMMA ApartLook ==
  ASSUME ClientsApart(Calls), OwnInv, CallInv, ApartInv, NEW t \in Thread,
         \/ \E c \in Calls[t] : Resolve(t, c) \/ ResetAll(t, c)
         \/ GetSession(t) \/ CheckCap(t) \/ GetAgain(t)
         \/ \E k \in SessionKey : Visit(t, k)
  PROVE  ApartInv' /\ OthersSame(t)
<1> DEFINE k == KeyOf(call[t])
<1>1. sessions' = sessions /\ heap' = heap /\ planted' = planted /\ pc[t] # "reset_seed"
  BY DEF Resolve, ResetAll, GetSession, CheckCap, GetAgain, Visit
<1>2. planted'[t] = 0
  BY <1>1 DEF ApartInv, ApartOK
<1>3. /\ \/ pc' = pc \/ \E x : pc' = [pc EXCEPT ![t] = x]
      /\ \/ call' = call \/ \E x : call' = [call EXCEPT ![t] = x]
      /\ \/ held' = held \/ \E x : held' = [held EXCEPT ![t] = x]
      /\ \/ snap' = snap \/ \E x : snap' = [snap EXCEPT ![t] = x]
  BY DEF Resolve, ResetAll, GetSession, CheckCap, GetAgain, Visit, Hold, Goto, Return
<1>4. OthersSame(t)
  BY <1>1, <1>3, OthersStay
<1>5. ASSUME NEW step, pc' = [pc EXCEPT ![t] = step] PROVE pc'[t] = step
  BY <1>5 DEF OwnInv, LocalsOK
<1>6. ASSUME NEW c \in Calls[t], Resolve(t, c) PROVE ApartOK(t)'
  <2>1. pc'[t] \in {"idle", "get"}
    BY <1>5, <1>6 DEF Resolve, Goto
  <2> QED
    BY <1>2, <2>1 DEF ApartOK, ResetSteps, ServingSteps
<1>7. ASSUME NEW c \in Calls[t], ResetAll(t, c) PROVE ApartOK(t)'
  <2>1. pc'[t] = "scan" /\ call'[t].op = "reset"
    BY <1>7 DEF ResetAll, Goto, OwnInv, LocalsOK, IsFcn
  <2> QED
    BY <1>2, <2>1 DEF ApartOK, ResetSteps, ServingSteps
<1>8. ASSUME GetSession(t) \/ GetAgain(t) PROVE ApartOK(t)'
  <2>1. CASE Hold(t, sessions[k], "snapshot") /\ k \in DOMAIN sessions
    <3>1. pc'[t] = "snapshot" /\ call' = call /\ held'[t] = {sessions[k]}
      BY <2>1 DEF Hold, Goto, OwnInv, LocalsOK, IsFcn
    <3> QED
      BY <1>1, <1>2, <2>1, <3>1 DEF ApartOK, ResetSteps, ServingSteps
  <2>2. CASE k \notin DOMAIN sessions /\ call' = call /\ \E step \in {"cap", "insert"} : Goto(t, step)
    <3>1. pc'[t] \in {"cap", "insert"}
      BY <2>2, <1>5 DEF Goto
    <3> QED
      BY <1>1, <1>2, <2>2, <3>1 DEF ApartOK, ResetSteps, ServingSteps
  <2> QED
    BY <1>8, <2>1, <2>2 DEF GetSession, GetAgain
<1>9. ASSUME CheckCap(t) PROVE ApartOK(t)'
  <2>1. CASE \E outcome : Return(t, outcome)
    <3>1. pc'[t] = "idle"
      BY <2>1, <1>5 DEF Return, Goto
    <3> QED
      BY <1>2, <3>1 DEF ApartOK, ResetSteps, ServingSteps
  <2>2. CASE Goto(t, "get_again") /\ call' = call
    <3>1. pc'[t] = "get_again" /\ k \notin DOMAIN sessions
      BY <1>5, <1>9, <2>2 DEF Goto, CheckCap, ApartInv, ApartOK
    <3> QED
      BY <1>1, <1>2, <2>2, <3>1 DEF ApartOK, ResetSteps, ServingSteps
  <2> QED
    BY <1>9, <2>1, <2>2 DEF CheckCap
<1>10. ASSUME NEW l \in SessionKey, Visit(t, l) PROVE ApartOK(t)'
  <2>1. pc'[t] \in {"scan", "reset_state"} /\ call' = call /\ call[t].op = "reset"
    BY <1>5, <1>10 DEF Visit, Hold, Goto, ApartInv, ApartOK, ResetSteps
  <2> QED
    BY <1>2, <2>1 DEF ApartOK, ResetSteps, ServingSteps
<1>11. ApartOK(t)'
  BY <1>6, <1>7, <1>8, <1>9, <1>10
<1> QED
  BY <1>4, <1>11, ApartFrame

\* The first request of a session registers it.
LEMMA ApartInsert ==
  ASSUME ClientsApart(Calls), OwnInv, CallInv, ApartInv, NEW t \in Thread, InsertSession(t)
  PROVE  ApartInv' /\ OthersSame(t)
<1> DEFINE k == KeyOf(call[t])
           r == CHOOSE x \in Reference \ DOMAIN heap : TRUE
<1>1. /\ pc[t] = "insert" /\ k \notin DOMAIN sessions /\ planted[t] = 0
  BY DEF InsertSession, ApartInv, ApartOK
<1>2. /\ sessions' = Put(sessions, k, r) /\ heap' = Put(heap, r, FreshInstance(call[t]))
      /\ pc' = [pc EXCEPT ![t] = "snapshot"] /\ held' = [held EXCEPT ![t] = {r}]
      /\ call' = call /\ snap' = snap /\ planted' = planted
  BY <1>1 DEF InsertSession, Hold, Goto
<1>3. r \notin DOMAIN heap
  BY DEF InsertSession
<1> HIDE DEF k, r
<1>4. /\ DOMAIN sessions' = DOMAIN sessions \cup {k} /\ sessions'[k] = r
      /\ \A l \in DOMAIN sessions : l # k => sessions'[l] = sessions[l]
  BY <1>2 DEF Put
<1>5. \A q \in DOMAIN heap : heap'[q] = heap[q]
  BY <1>2, <1>3 DEF Put
<1>6. pc'[t] = "snapshot" /\ held'[t] = {r} /\ planted'[t] = 0 /\ call'[t] = call[t]
  BY <1>1, <1>2 DEF OwnInv, LocalsOK, IsFcn
<1>7. ApartOK(t)'
  BY <1>4, <1>6 DEF ApartOK, ResetSteps, ServingSteps, k
<1>8. \A u \in Thread \ {t} :
        pc'[u] = pc[u] /\ call'[u] = call[u] /\ held'[u] = held[u] /\ snap'[u] = snap[u]
        /\ planted'[u] = planted[u]
  BY <1>2 DEF OwnInv, LocalsOK, IsFcn
<1>9. ASSUME NEW u \in Thread \ {t}, pc[u] # "idle" PROVE KeyOf(call[u]) # k
  <2>1. call[u] \in Calls[u]
    BY <1>9 DEF CallInv, CallOK
  <2> QED
    BY <1>1, <2>1, KeysApart DEF k
<1>10. \A u \in Thread : held[u] \subseteq DOMAIN heap
  BY DEF OwnInv, HolderOK
<1>11. OthersSame(t)
  BY <1>4, <1>5, <1>8, <1>9, <1>10 DEF OthersSame
<1> QED
  BY <1>7, <1>11, ApartFrame

\* A release takes its own session from the registry.
LEMMA ApartRelease ==
  ASSUME ClientsApart(Calls), OwnInv, CallInv, ApartInv, NEW t \in Thread,
         NEW c \in Calls[t], Release(t, c)
  PROVE  ApartInv' /\ OthersSame(t)
<1>1. /\ pc[t] = "idle" /\ planted[t] = 0
      /\ sessions' = Drop(sessions, KeyOf(c)) /\ heap' = Surviving(heap, sessions', held)
      /\ pc' = pc /\ call' = call /\ held' = held /\ snap' = snap /\ planted' = planted
  BY DEF Release, ApartInv, ApartOK
<1>2. /\ DOMAIN sessions' = DOMAIN sessions \ {KeyOf(c)}
      /\ \A l \in DOMAIN sessions' : sessions'[l] = sessions[l]
  BY <1>1 DEF Drop, Restrict
<1>3. ASSUME NEW u \in Thread \ {t}, pc[u] # "idle" PROVE KeyOf(call[u]) # KeyOf(c)
  BY <1>3, KeysApart
<1>4. ASSUME NEW u \in Thread \ {t}, NEW r \in held[u] PROVE heap'[r] = heap[r]
  <2>1. IsFcn(held') /\ DOMAIN held' = Thread /\ heap' = Surviving(heap, sessions', held')
    BY <1>1 DEF OwnInv, LocalsOK
  <2> QED
    BY <1>1, <2>1, OthersKeep
<1>5. OthersSame(t)
  BY <1>1, <1>2, <1>3, <1>4 DEF OthersSame
<1>6. ApartOK(t)'
  BY <1>1 DEF ApartOK, ResetSteps, ServingSteps
<1> QED
  BY <1>5, <1>6, ApartFrame

\* The instance t holds, before and after it gets another state or another table.
LEMMA MineAfter ==
  ASSUME OwnInv, NEW t \in Thread, NEW r, held[t] = {r}, NEW x
  PROVE  /\ Mine(t) = heap[r] /\ r \in DOMAIN heap
         /\ DOMAIN WithState(t, x) = DOMAIN heap /\ DOMAIN WithTable(t, x) = DOMAIN heap
         /\ \A q \in DOMAIN heap \ {r} : /\ WithState(t, x)[q] = heap[q]
                                        /\ WithTable(t, x)[q] = heap[q]
         /\ WithState(t, x)[r].scenario = heap[r].scenario
         /\ WithState(t, x)[r].state = x
         /\ WithState(t, x)[r].table = heap[r].table
         /\ WithTable(t, x)[r].scenario = heap[r].scenario
         /\ WithTable(t, x)[r].state = heap[r].state
         /\ WithTable(t, x)[r].table = x
<1>1. r \in DOMAIN heap
  BY DEF OwnInv, HolderOK
<1>2. (CHOOSE y \in held[t] : TRUE) = r
  OBVIOUS
<1>3. /\ IsFcn(heap[r]) /\ DOMAIN heap[r] = {"scenario", "session", "state", "table"}
  BY <1>1 DEF OwnInv, InstancesOK
<1>4. Mine(t) = heap[r]
  BY <1>2 DEF Mine
<1>5. /\ WithState(t, x) = [heap EXCEPT ![r] = [heap[r] EXCEPT !.state = x]]
      /\ WithTable(t, x) = [heap EXCEPT ![r] = [heap[r] EXCEPT !.table = x]]
  BY <1>2, <1>4 DEF WithState, WithTable, WithMine
<1>6. /\ [heap[r] EXCEPT !.state = x].scenario = heap[r].scenario
      /\ [heap[r] EXCEPT !.state = x].state = x
      /\ [heap[r] EXCEPT !.state = x].table = heap[r].table
      /\ [heap[r] EXCEPT !.table = x].scenario = heap[r].scenario
      /\ [heap[r] EXCEPT !.table = x].state = heap[r].state
      /\ [heap[r] EXCEPT !.table = x].table = x
  BY <1>3
<1>7. /\ DOMAIN WithState(t, x) = DOMAIN heap
      /\ WithState(t, x)[r] = [heap[r] EXCEPT !.state = x]
      /\ \A q \in DOMAIN heap \ {r} : WithState(t, x)[q] = heap[q]
  BY <1>1, <1>5
<1>8. /\ DOMAIN WithTable(t, x) = DOMAIN heap
      /\ WithTable(t, x)[r] = [heap[r] EXCEPT !.table = x]
      /\ \A q \in DOMAIN heap \ {r} : WithTable(t, x)[q] = heap[q]
  BY <1>1, <1>5
<1> QED
  BY <1>1, <1>4, <1>6, <1>7, <1>8

\* What is still registered or held stays alive.
LEMMA Survives ==
  ASSUME NEW h, heap' = h \/ heap' = Surviving(h, sessions', held'),
         NEW r \in DOMAIN h,
         \/ \E k \in DOMAIN sessions' : r = sessions'[k]
         \/ DOMAIN held' = Thread /\ \E u \in Thread : r \in held'[u]
  PROVE  r \in DOMAIN heap' /\ heap'[r] = h[r]
<1>1. r \in Referred(sessions', held')
  BY DEF Referred, Range
<1> QED
  BY <1>1 DEF Surviving, Restrict

\* The steps of a request that serve it.
LEMMA ApartServe ==
  ASSUME ClientsApart(Calls), OwnInv, CallInv, ApartInv, NEW t \in Thread,
         Snapshot(t) \/ UseStore(t) \/ Move(t)
  PROVE  ApartInv' /\ OthersSame(t)
<1> DEFINE k == KeyOf(call[t])
<1>1. /\ pc[t] \in ServingSteps /\ pc[t] # "reset_seed"
      /\ sessions' = sessions /\ planted' = planted
  BY DEF Snapshot, UseStore, Move, ServingSteps
<1>2. planted'[t] = 0 /\ k \in DOMAIN sessions /\ held[t] = {sessions[k]}
  BY <1>1 DEF ApartInv, ApartOK
<1>3. ASSUME NEW outcome, Return(t, outcome), NEW h,
             h = heap \/ (held[t] # {} /\ \E x : h = WithMine(t, x)),
             heap' = Surviving(h, sessions, held')
      PROVE  ApartInv' /\ OthersSame(t)
  <2>1. heap' = Surviving(h, sessions', held')
    BY <1>1, <1>3
  <2> QED
    BY <1>1, <1>3, <2>1, ApartReturn
<1>4. CASE Move(t)
  BY <1>2, <1>3, <1>4 DEF Move
\* A step to step, after which t is still in its call, and the state of its instance is as
\* it was.
<1>5. ASSUME NEW step \in {"store", "move"}, Goto(t, step), call' = call, held' = held,
             snap' = snap \/ snap' = [snap EXCEPT ![t] = Mine(t).state],
             snap'[t] = Mine(t).state,
             NEW h, h = heap \/ \E x : h = WithTable(t, x),
             heap' = Surviving(h, sessions, held')
      PROVE  ApartInv' /\ OthersSame(t)
  <2>1. pc' = [pc EXCEPT ![t] = step] /\ pc'[t] = step
    BY <1>5 DEF Goto, OwnInv, LocalsOK
  <2>2. h = heap \/ (held[t] # {} /\ \E x : h = WithMine(t, x))
    BY <1>2, <1>5 DEF WithTable
  <2>3. heap' = Surviving(h, sessions', held')
    BY <1>1, <1>5
  <2>4. OthersSame(t)
    BY <1>1, <1>5, <2>1, <2>2, <2>3, OthersStay
  <2>5. Mine(t) = heap[sessions[k]] /\ sessions[k] \in DOMAIN heap
    BY <1>2, MineAfter
  <2>6. sessions[k] \in DOMAIN h /\ h[sessions[k]].state = heap[sessions[k]].state
    BY <1>2, <1>5, <2>5, MineAfter
  <2>7. heap'[sessions[k]] = h[sessions[k]]
    BY <1>1, <1>2, <2>3, <2>6, Survives
  <2>8. Mine(t)'.state = Mine(t).state
    BY <1>2, <1>5, <2>5, <2>6, <2>7 DEF Mine
  <2>9. ApartOK(t)'
    BY <1>1, <1>2, <1>5, <2>1, <2>8 DEF ApartOK, ResetSteps, ServingSteps
  <2> QED
    BY <2>4, <2>9, ApartFrame
<1>6. CASE Snapshot(t)
  <2>1. CASE \E outcome : Return(t, outcome)
    BY <1>3, <1>6, <2>1 DEF Snapshot
  <2>2. CASE /\ Goto(t, "store") /\ UNCHANGED <<call, held, out>>
             /\ snap' = [snap EXCEPT ![t] = Mine(t).state]
    <3>1. snap'[t] = Mine(t).state
      BY <2>2 DEF OwnInv, LocalsOK, IsFcn
    <3> QED
      BY <1>5, <1>6, <2>2, <3>1 DEF Snapshot
  <2> QED
    BY <1>6, <2>1, <2>2 DEF Snapshot
<1>7. CASE UseStore(t)
  <2> DEFINE after == StoreResult(Mine(t).table, Operation(call[t]), call[t]).table
  <2>1. pc[t] = "store" /\ heap' = Surviving(WithTable(t, after), sessions, held')
    BY <1>7 DEF UseStore, WithTable
  <2> HIDE DEF after
  <2>2. CASE \E outcome : Return(t, outcome)
    BY <1>2, <1>3, <2>1, <2>2 DEF WithTable
  <2>3. CASE Goto(t, "move") /\ UNCHANGED <<call, held, snap>>
    <3>1. snap[t] = Mine(t).state
      BY <2>1 DEF ApartInv, ApartOK
    <3> QED
      BY <1>5, <2>1, <2>3, <3>1
  <2> QED
    BY <1>7, <2>2, <2>3 DEF UseStore
<1> QED
  BY <1>4, <1>6, <1>7

\* The steps of a reset on the instance it visits.
LEMMA ApartReset ==
  ASSUME ClientsApart(Calls), OwnInv, CallInv, ApartInv, NEW t \in Thread,
         ResetState(t) \/ ResetClear(t) \/ ResetSeed(t)
  PROVE  ApartInv' /\ OthersSame(t)
<1>1. /\ pc[t] \in ResettingSteps /\ pc[t] \in ResetSteps /\ sessions' = sessions
      /\ call' = call /\ snap' = snap
  BY DEF ResetState, ResetClear, ResetSeed, ResettingSteps, ResetSteps
<1>2. PICK r : held[t] = {r} /\ r \in DOMAIN heap
  BY <1>1 DEF OwnInv, HolderOK
<1>3. Mine(t) = heap[r] /\ heap[r].scenario \in Range(Scenarios)
  BY <1>2, MineAfter DEF OwnInv, InstancesOK
<1>4. call[t].op = "reset"
  BY <1>1 DEF ApartInv, ApartOK
<1>5. ASSUME NEW step \in ResetSteps,
             pc' = [pc EXCEPT ![t] = step] \/ (pc' = pc /\ pc[t] = step),
             held' = held \/ held' = [held EXCEPT ![t] = {}],
             planted' = planted \/ \E n : planted' = [planted EXCEPT ![t] = n],
             heap' = heap \/ (\E x : heap' = WithState(t, x) \/ heap' = WithTable(t, x)),
             \/ step = "scan" /\ planted'[t] = 0
             \/ /\ step = "reset_clear" /\ held' = held /\ planted'[t] = 0
                /\ heap'[r].scenario = heap[r].scenario
                /\ heap'[r].state = Machine[heap[r].scenario].initial
             \/ /\ step = "reset_seed" /\ held' = held
                /\ heap'[r].scenario = heap[r].scenario
                /\ heap'[r].state = Machine[heap[r].scenario].initial
                /\ planted'[t] <= Len(SeedItems(heap[r].scenario))
                /\ heap'[r].table = Seeded(heap[r].scenario, planted'[t])
      PROVE  ApartInv' /\ OthersSame(t)
  <2>1. pc'[t] = step /\ call'[t].op = "reset"
    BY <1>1, <1>4, <1>5 DEF OwnInv, LocalsOK
  <2>2. held' = held => Mine(t)' = heap'[r]
    BY <1>2 DEF Mine
  <2>3. ApartOK(t)'
    BY <1>5, <2>1, <2>2 DEF ApartOK, ResetSteps, ServingSteps
  <2>4. heap' = heap \/ (held[t] # {} /\ \E x : heap' = WithMine(t, x))
    BY <1>2, <1>5 DEF WithState, WithTable
  <2>5. OthersSame(t)
    BY <1>1, <1>5, <2>4, OthersStay
  <2> QED
    BY <2>3, <2>5, ApartFrame
<1> USE DEF ResetSteps
<1>6. CASE ResetState(t)
  <2> DEFINE x == Machine[Mine(t).scenario].initial
  <2>1. heap' = WithState(t, x) /\ pc' = [pc EXCEPT ![t] = "reset_clear"]
        /\ held' = held /\ planted' = planted /\ pc[t] = "reset_state"
    BY <1>6 DEF ResetState, WithState, Goto
  <2>2. planted'[t] = 0
    BY <2>1 DEF ApartInv, ApartOK
  <2>3. heap'[r].scenario = heap[r].scenario /\ heap'[r].state = Machine[heap[r].scenario].initial
    BY <1>2, <1>3, <2>1, MineAfter
  <2> HIDE DEF x
  <2> QED
    BY <1>5, <2>1, <2>2, <2>3
<1>7. CASE ResetClear(t)
  <2>1. heap' = WithTable(t, EmptyTable) /\ pc' = [pc EXCEPT ![t] = "reset_seed"]
        /\ held' = held /\ planted' = planted /\ pc[t] = "reset_clear"
    BY <1>7 DEF ResetClear, WithTable, Goto
  <2>2. planted'[t] = 0 /\ Mine(t).state = Machine[Mine(t).scenario].initial
    BY <2>1 DEF ApartInv, ApartOK
  <2>3. /\ heap'[r].scenario = heap[r].scenario /\ heap'[r].state = heap[r].state
        /\ heap'[r].table = EmptyTable
    BY <1>2, <2>1, MineAfter
  <2>4. EmptyTable = Seeded(heap[r].scenario, 0) /\ 0 <= Len(SeedItems(heap[r].scenario))
    BY <1>3, SeededIs
  <2> QED
    BY <1>3, <1>5, <2>1, <2>2, <2>3, <2>4
<1>8. CASE ResetSeed(t)
  <2> DEFINE items == SeedItems(heap[r].scenario)
             n == planted[t]
             item == items[n + 1]
             after == StoreCreate(heap[r].table, item.key, item.value).table
  <2>1. /\ pc[t] = "reset_seed" /\ n \in Nat /\ n <= Len(items)
        /\ heap[r].table = Seeded(heap[r].scenario, n)
        /\ heap[r].state = Machine[heap[r].scenario].initial
    BY <1>3, <1>8 DEF ResetSeed, ApartInv, ApartOK, CallInv, CallOK
  <2>2. CASE n = Len(items)
    <3>1. /\ heap' = heap /\ pc' = [pc EXCEPT ![t] = "scan"] /\ held' = [held EXCEPT ![t] = {}]
          /\ planted' = [planted EXCEPT ![t] = 0]
      BY <1>3, <1>8, <2>2, <2>1 DEF ResetSeed, Goto
    <3>2. planted'[t] = 0
      BY <3>1 DEF CallInv
    <3> QED
      BY <1>5, <3>1, <3>2
  <2>3. CASE n # Len(items)
    <3>1. Len(items) \in Nat
      BY <1>3, SeededIs
    <3>2. n < Len(items) /\ n + 1 \in 1..Len(items) /\ (n + 1) - 1 = n
      BY <2>1, <2>3, <3>1
    <3>3. /\ pc' = pc /\ held' = held /\ planted' = [planted EXCEPT ![t] = @ + 1]
          /\ heap' = WithMine(t, [Mine(t) EXCEPT !.table =
                        StoreCreate(@, item.key, item.value).table])
      BY <1>3, <1>8, <2>3 DEF ResetSeed
    <3>4. heap' = WithTable(t, after)
      BY <1>3, <3>3 DEF WithTable
    <3>5. planted'[t] = n + 1
      BY <3>3 DEF CallInv
    <3>6. Seeded(heap[r].scenario, n + 1) = after
      <4>1. Seeded(heap[r].scenario, n + 1)
              = StoreCreate(Seeded(heap[r].scenario, (n + 1) - 1), item.key, item.value).table
        BY <1>3, <3>2, SeededIs
      <4> QED
        BY <2>1, <3>2, <4>1
    <3> HIDE DEF after, items, item, n
    <3>7. /\ heap'[r].scenario = heap[r].scenario /\ heap'[r].state = heap[r].state
          /\ heap'[r].table = after
      BY <1>2, <3>4, MineAfter
    <3>8. n + 1 <= Len(items)
      BY <3>2
    <3> QED
      BY <1>5, <2>1, <3>3, <3>4, <3>5, <3>6, <3>7, <3>8 DEF items
  <2> QED
    BY <2>2, <2>3
<1> QED
  BY <1>6, <1>7, <1>8

\* Whatever thread t does, what keeps clients apart holds after it, and the others see
\* nothing of it.
LEMMA ApartStep ==
  ASSUME ClientsApart(Calls), OwnInv, CallInv, ApartInv, NEW t \in Thread, Step(t) \/ Invoke(t)
  PROVE  ApartInv' /\ OthersSame(t)
<1>1. CASE EndReset(t)
  <2>1. /\ Return(t, Ungoverned) /\ sessions' = sessions /\ planted' = planted /\ heap' = heap
        /\ pc[t] # "reset_seed"
    BY <1>1 DEF EndReset
  <2> QED
    BY <2>1, ApartReturn
<1> QED
  BY <1>1, ApartLook, ApartInsert, ApartRelease, ApartServe, ApartReset DEF Step, Invoke

\* Clients that keep apart are kept apart.
LEMMA ApartNext ==
  ASSUME ClientsApart(Calls)
  PROVE  OwnInv /\ CallInv /\ ApartInv /\ [Next]_vars => ApartInv'
<1> SUFFICES ASSUME OwnInv, CallInv, ApartInv, [Next]_vars PROVE ApartInv'
  OBVIOUS
<1>1. CASE UNCHANGED vars
  BY <1>1 DEF vars, ApartInv, ApartOK, Mine, KeyOf, Scenario
<1> QED
  BY <1>1, ApartStep DEF Next

-----------------------------------------------------------------------------
(* The flow a call is about *)

\* The flow a call names: there is one, and it has a key.
LEMMA KeyIs ==
  ASSUME NEW t \in Thread, NEW c \in Calls[t], c.op # "reset", ScenarioOf(c) # {}
  PROVE  KeyOf(c) \in SessionKey /\ Flows!Key(c) = KeyOf(c)
<1>1. c \in UNION Range(Calls)
  BY CallsAssumption DEF Range
<1>2. AtMostOne(c.scenario)
  BY <1>1, CallsAssumption
<1>3. Scenario(c) \in ScenarioOf(c) /\ Scenario(c) \in Range(Scenarios)
  BY DEF Scenario, ScenarioOf
<1>4. \A x \in ScenarioOf(c) : x = Scenario(c)
  BY <1>2, <1>3 DEF ScenarioOf, DefaultScenario, AtMostOne
<1>5. KeyOf(c) \in SessionKey
  BY <1>1, <1>3 DEF KeyOf, SessionKey
<1>6. \A k \in SessionKey :
        k.scenario \in Flows!ScenarioOf(c) /\ k.session = c.session <=> k = KeyOf(c)
  <2> TAKE k \in SessionKey
  <2>1. k = [scenario |-> k.scenario, session |-> k.session]
    BY DEF SessionKey
  <2>2. KeyOf(c).scenario = Scenario(c) /\ KeyOf(c).session = c.session
    BY DEF KeyOf
  <2>3. Flows!ScenarioOf(c) = ScenarioOf(c)
    BY SameScenarioOf
  <2>4. ASSUME k.scenario \in ScenarioOf(c), k.session = c.session PROVE k = KeyOf(c)
    <3>1. k.scenario = Scenario(c)
      BY <1>4, <2>4
    <3> QED
      BY <2>1, <2>4, <3>1 DEF KeyOf
  <2> QED
    BY <1>3, <2>2, <2>3, <2>4
<1> HIDE DEF SessionKey
<1>7. Flows!Key(c) = CHOOSE k \in SessionKey :
         k.scenario \in Flows!ScenarioOf(c) /\ k.session = c.session
  BY DEF Flows!Key
<1> QED
  BY <1>5, <1>6, <1>7

\* A request that the machine refuses in the state of its flow, that fails validation, or
\* that is served.
LEMMA ServedCases ==
  ASSUME NEW f, NEW c, NEW k, Flows!Key(c) = k
  PROVE  LET m == Machine[k.scenario]
             op == Operation(c)
             result == StoreResult(f.table, op, c)
             next == NextState(m, f.state, op.name)
         IN Flows!Served(f, c) =
              IF ~Allows(m, f.state, op.name)
              THEN [flow |-> f, answer |-> Failed("IllegalOperation")]
              ELSE IF ~c.validated THEN [flow |-> f, answer |-> Ungoverned]
              ELSE [flow |-> [state |-> IF next = {} THEN f.state ELSE CHOOSE s \in next : TRUE,
                              table |-> result.table],
                    answer |-> Overridden(result.outcome, m, f.state, op)]
<1> DEFINE m == Machine[k.scenario]
           op == Operation(c)
           result == StoreResult(f.table, op, c)
           next == NextState(m, f.state, op.name)
<1>1. /\ Flows!Op(c) = op
      /\ Flows!StoreResult(f.table, op, c) = result
      /\ Flows!NextState(m, f.state, op.name) = next
      /\ Flows!Allows(m, f.state, op.name) = Allows(m, f.state, op.name)
      /\ Flows!Failed("IllegalOperation") = Failed("IllegalOperation")
      /\ Flows!Ungoverned = Ungoverned
      /\ Flows!Overridden(result.outcome, m, f.state, op) = Overridden(result.outcome, m, f.state, op)
  BY SameOp, SameStore, SameMachine, SameOutcomes, SameOverride
<1> HIDE DEF op, result, next
<1> QED
  BY <1>1, Zenon DEF Flows!Served, op, result, next

\* The first case: the machine refuses, and nothing changes.
LEMMA ServedRefused ==
  ASSUME NEW f, NEW c, NEW k, Flows!Key(c) = k,
         ~Allows(Machine[k.scenario], f.state, Operation(c).name)
  PROVE  Flows!Served(f, c) = [flow |-> f, answer |-> Failed("IllegalOperation")]
BY ServedCases, Zenon

\* The second: the request is not valid, and nothing changes.
LEMMA ServedInvalid ==
  ASSUME NEW f, NEW c, NEW k, Flows!Key(c) = k,
         Allows(Machine[k.scenario], f.state, Operation(c).name), ~c.validated
  PROVE  Flows!Served(f, c) = [flow |-> f, answer |-> Ungoverned]
BY ServedCases, Zenon

\* The third: the request is legal, and both state and table take its effect.
LEMMA ServedLegal ==
  ASSUME NEW f, NEW c, NEW k, Flows!Key(c) = k,
         Allows(Machine[k.scenario], f.state, Operation(c).name), c.validated
  PROVE  LET m == Machine[k.scenario]
             op == Operation(c)
             result == StoreResult(f.table, op, c)
             next == NextState(m, f.state, op.name)
         IN Flows!Served(f, c) =
              [flow |-> [state |-> IF next = {} THEN f.state ELSE CHOOSE s \in next : TRUE,
                         table |-> result.table],
               answer |-> Overridden(result.outcome, m, f.state, op)]
BY ServedCases, Zenon

\* The call thread t still has to be answered for.
LEMMA PendingStep ==
  ASSUME NEW t \in Thread, OthersSame(t)
  PROVE  Pending' = [Pending EXCEPT ![t] = IF pc'[t] = "move" THEN NoCall ELSE call'[t]]
BY DEF Pending, OthersSame

\* A flow no step of thread t is about.
LEMMA FlowFrame ==
  ASSUME NEW t \in Thread, OthersSame(t),
         NEW k, sessions'[k] = sessions[k], heap'[sessions[k]] = heap[sessions[k]],
         pc[t] \in ResettingSteps \cup {"move"} => sessions[k] \notin held[t],
         pc'[t] \in ResettingSteps \cup {"move"} => sessions[k] \notin held'[t]
  PROVE  FlowOf(k)' = FlowOf(k)
<1>1. \A u \in Thread \ {t} : /\ pc'[u] = pc[u] /\ call'[u] = call[u] /\ held'[u] = held[u]
                              /\ snap'[u] = snap[u]
  BY DEF OthersSame
<1>2. Holder(k, {"move"})' = Holder(k, {"move"}) /\ Holder(k, {"move"}) \subseteq Thread \ {t}
  BY <1>1 DEF Holder
<1>3. Holder(k, ResettingSteps)' = Holder(k, ResettingSteps)
  BY <1>1 DEF Holder
<1>4. FlowState(k)' = FlowState(k)
  <2>1. CASE Holder(k, {"move"}) = {}
    BY <1>2, <2>1 DEF FlowState
  <2>2. CASE Holder(k, {"move"}) # {}
    <3> DEFINE c == CHOOSE u \in Holder(k, {"move"}) : TRUE
    <3>1. c \in Thread \ {t} /\ (CHOOSE u \in Holder(k, {"move"})' : TRUE) = c
      BY <1>2, <2>2
    <3> HIDE DEF c
    <3>2. snap'[c] = snap[c] /\ call'[c] = call[c]
      BY <1>1, <3>1
    <3>3. FlowState(k) = CHOOSE s \in NextState(Machine[k.scenario], snap[c], Operation(call[c]).name) : TRUE
      BY <2>2 DEF FlowState, c
    <3>4. FlowState(k)' = CHOOSE s \in NextState(Machine[k.scenario], snap'[c], Operation(call'[c]).name) : TRUE
      BY <1>2, <2>2, <3>1 DEF FlowState
    <3> QED
      BY <3>2, <3>3, <3>4
  <2> QED
    BY <2>1, <2>2
<1> QED
  BY <1>3, <1>4 DEF FlowOf

-----------------------------------------------------------------------------
(* Every step of the runtime is a step of the flows, or none *)

\* Steps at which the flow of an instance is ahead of it.
AheadSteps == ResettingSteps \cup {"move"}

\* Between two calls.
LEMMA NoCallIs == Flows!NoCall = NoCall
BY DEF Flows!NoCall, NoCall

\* The call in progress, as a flow sees it.
LEMMA PendingIs ==
  ASSUME CallInv, NEW t \in Thread
  PROVE  /\ pc[t] = "idle" => Pending[t] = NoCall
         /\ pc[t] # "move" => Pending[t] = call[t]
         /\ pc[t] = "move" => Pending[t] = NoCall
BY DEF CallInv, CallOK, Pending

\* A step that looks at the registry changes no flow.
LEMMA SameFlow ==
  ASSUME NEW t \in Thread, OthersSame(t), sessions' = sessions, heap' = heap,
         pc[t] \notin AheadSteps, pc'[t] \notin AheadSteps
  PROVE  Flow' = Flow
<1>1. \A k \in DOMAIN sessions : FlowOf(k)' = FlowOf(k)
  BY FlowFrame DEF AheadSteps
<1> QED
  BY <1>1 DEF Flow

\* A call begins, or is answered without an instance.
LEMMA SimInvoke ==
  ASSUME ClientsApart(Calls), OwnInv, CallInv, ApartInv, IsFcn(unvisited),
         NEW t \in Thread, NEW c \in Calls[t], Resolve(t, c) \/ ResetAll(t, c)
  PROVE  Flows!Bypass(t, c) \/ Flows!Begin(t, c)
<1>1. OthersSame(t)
  BY ApartLook
<1>2. /\ pc[t] = "idle" /\ sessions' = sessions /\ heap' = heap
  BY DEF Resolve, ResetAll
<1>3. Pending[t] = NoCall /\ Pending[t] = Flows!NoCall
  BY <1>2, PendingIs, NoCallIs
<1>4. ASSUME NEW step \in {"idle", "get", "scan"}, pc'[t] = step PROVE Flow' = Flow
  BY <1>1, <1>2, <1>4, SameFlow DEF AheadSteps, ResettingSteps
<1>5. /\ Flows!Ungoverned = Ungoverned
      /\ Flows!Failed("UnknownScenario") = Failed("UnknownScenario")
      /\ Flows!ScenarioOf(c) = ScenarioOf(c) /\ Flows!ByRequest(c.route) = ByRequest(c.route)
  BY SameOutcomes, SameScenarioOf, SameOp
<1>6. CASE Resolve(t, c) /\ Settled(c) # {}
  <2>1. PICK outcome \in Settled(c) : out' = [out EXCEPT ![t] = outcome]
    BY <1>6 DEF Resolve
  <2>2. /\ c.op = "resolve" /\ UNCHANGED <<pc, call, unvisited>>
    BY <1>6 DEF Resolve
  <2>3. Flow' = Flow
    BY <1>2, <1>4, <2>2
  <2>4. Pending' = [Pending EXCEPT ![t] = NoCall]
    BY <1>2, <2>2, <1>3 DEF Pending
  <2>5. Flows!Respond(t, outcome)
    BY <2>1, <2>4, NoCallIs DEF Flows!Respond
  <2>6. \/ c.preferCode /\ outcome = Ungoverned
        \/ ~c.preferCode /\ ScenarioOf(c) = {} /\ c.scenario # {} /\ outcome = Failed("UnknownScenario")
        \/ ~c.preferCode /\ ScenarioOf(c) = {} /\ c.scenario = {} /\ outcome = Ungoverned
        \/ ~c.preferCode /\ ScenarioOf(c) # {} /\ ByRequest(c.route) = {} /\ outcome = Ungoverned
    BY <2>1, Zenon DEF Settled
  <2> QED
    BY <1>3, <1>5, <2>2, <2>3, <2>5, <2>6 DEF Flows!Bypass
<1>7. CASE Resolve(t, c) /\ Settled(c) = {}
  <2>1. /\ c.op = "resolve" /\ pc' = [pc EXCEPT ![t] = "get"] /\ call' = [call EXCEPT ![t] = c]
        /\ out' = [out EXCEPT ![t] = Ungoverned] /\ unvisited' = unvisited
    BY <1>7 DEF Resolve, Goto
  <2>2. pc'[t] = "get" /\ call'[t] = c
    BY <2>1 DEF OwnInv, LocalsOK, IsFcn
  <2>3. Flow' = Flow
    BY <1>4, <2>2
  <2>4. Pending' = [Pending EXCEPT ![t] = c]
    BY <1>1, <2>2, PendingStep
  <2>5. ~c.preferCode /\ ScenarioOf(c) # {} /\ ByRequest(c.route) # {}
    BY <1>7, Zenon DEF Settled
  <2>6. unvisited' = [unvisited EXCEPT ![t] = IF c.op = "reset" THEN SessionKey ELSE @]
    BY <2>1 DEF IsFcn
  <2> QED
    BY <1>3, <1>5, <2>1, <2>3, <2>4, <2>5, <2>6 DEF Flows!Begin
<1>8. CASE ResetAll(t, c)
  <2>1. /\ c.op = "reset" /\ pc' = [pc EXCEPT ![t] = "scan"] /\ call' = [call EXCEPT ![t] = c]
        /\ out' = [out EXCEPT ![t] = Ungoverned]
        /\ unvisited' = [unvisited EXCEPT ![t] = SessionKey]
    BY <1>8 DEF ResetAll, Goto
  <2>2. pc'[t] = "scan" /\ call'[t] = c
    BY <2>1 DEF OwnInv, LocalsOK, IsFcn
  <2>3. Flow' = Flow
    BY <1>4, <2>2
  <2>4. Pending' = [Pending EXCEPT ![t] = c]
    BY <1>1, <2>2, PendingStep
  <2> QED
    BY <1>3, <1>5, <2>1, <2>3, <2>4 DEF Flows!Begin
<1> QED
  BY <1>6, <1>7, <1>8

\* The cap refuses a request, as a flow that does not exist and may not.
LEMMA SimCap ==
  ASSUME ClientsApart(Calls), OwnInv, CallInv, ApartInv, NEW t \in Thread, CheckCap(t),
         IsFcn(out), DOMAIN out = Thread
  PROVE  Flows!Refuse(t) \/ UNCHANGED Flows!vars
<1> DEFINE c == call[t]
           k == KeyOf(call[t])
<1>1. OthersSame(t)
  BY ApartLook
<1>2. /\ pc[t] = "cap" /\ sessions' = sessions /\ heap' = heap /\ unvisited' = unvisited
  BY DEF CheckCap
<1>3. c \in Calls[t] /\ c.op = "resolve" /\ ScenarioOf(c) # {} /\ k \notin DOMAIN sessions
  <2>1. c \in Calls[t] /\ c.op = "resolve" /\ Settled(c) = {} /\ k \notin DOMAIN sessions
    BY <1>2 DEF CallInv, CallOK, ResolveSteps, ApartInv, ApartOK
  <2>2. ScenarioOf(c) # {}
    BY <2>1, Zenon DEF Settled
  <2> QED
    BY <2>1, <2>2
<1>4. Pending[t] = c /\ Flows!Key(c) = k
  BY <1>2, <1>3, PendingIs, KeyIs
<1>5. pc'[t] \in {"idle", "get_again"}
  BY DEF CheckCap, Return, Goto, OwnInv, LocalsOK
<1>6. Flow' = Flow /\ DOMAIN Flow = DOMAIN sessions
  BY <1>1, <1>2, <1>5, SameFlow DEF AheadSteps, ResettingSteps, Flow
<1>7. CASE Cardinality(DOMAIN sessions) >= MaxSessions /\ Return(t, Failed("SessionCapExceeded"))
  <2>1. /\ pc' = [pc EXCEPT ![t] = "idle"] /\ call' = [call EXCEPT ![t] = NoCall]
        /\ out' = [out EXCEPT ![t] = Failed("SessionCapExceeded")]
    BY <1>7 DEF Return, Goto
  <2>2. Pending' = [Pending EXCEPT ![t] = NoCall]
    <3>1. pc'[t] = "idle" /\ call'[t] = NoCall
      BY <2>1 DEF OwnInv, LocalsOK, IsFcn
    <3> QED
      BY <1>1, <3>1, PendingStep
  <2>3. Flows!Respond(t, Flows!Failed("SessionCapExceeded"))
    BY <2>1, <2>2, NoCallIs, SameOutcomes DEF Flows!Respond
  <2>4. Flows!Cardinality(DOMAIN Flow) >= MaxSessions
    BY <1>6, <1>7, SameCardinality
  <2> HIDE DEF c, k
  <2> QED
    BY <1>2, <1>3, <1>4, <1>6, <2>3, <2>4 DEF Flows!Refuse
<1>8. CASE Goto(t, "get_again") /\ UNCHANGED <<call, held, snap, out>>
  <2>1. pc'[t] = "get_again" /\ call'[t] = call[t]
    BY <1>8 DEF Goto, OwnInv, LocalsOK
  <2>2. Pending' = [Pending EXCEPT ![t] = Pending[t]]
    BY <1>1, <1>4, <2>1, PendingStep
  <2>3. Pending' = Pending
    BY <2>2 DEF Pending
  <2> QED
    BY <1>2, <1>6, <1>8, <2>3 DEF Flows!vars
<1> QED
  BY <1>7, <1>8 DEF CheckCap

\* A step that leaves every flow as it was.
LEMMA SimStutter ==
  ASSUME NEW t \in Thread, OthersSame(t), sessions' = sessions,
         \A k \in DOMAIN sessions : FlowOf(k)' = FlowOf(k),
         Pending[t] = IF pc'[t] = "move" THEN NoCall ELSE call'[t],
         out' = out, unvisited' = unvisited
  PROVE  UNCHANGED Flows!vars
<1>1. Pending' = [Pending EXCEPT ![t] = Pending[t]]
  BY PendingStep
<1>2. Pending' = Pending
  BY <1>1 DEF Pending
<1>3. Flow' = Flow
  BY DEF Flow
<1> QED
  BY <1>2, <1>3 DEF Flows!vars

\* A look that finds the session, or does not.
LEMMA SimGet ==
  ASSUME ClientsApart(Calls), OwnInv, CallInv, ApartInv, NEW t \in Thread,
         GetSession(t) \/ GetAgain(t)
  PROVE  UNCHANGED Flows!vars
<1>1. OthersSame(t)
  BY ApartLook
<1>2. /\ pc[t] \in {"get", "get_again"} /\ sessions' = sessions /\ heap' = heap
      /\ unvisited' = unvisited /\ call' = call /\ out' = out
  BY DEF GetSession, GetAgain, Hold
<1>3. pc'[t] \in {"snapshot", "cap", "insert"}
  BY DEF GetSession, GetAgain, Hold, Goto, OwnInv, LocalsOK
<1>4. \A k \in DOMAIN sessions : FlowOf(k)' = FlowOf(k)
  BY <1>1, <1>2, <1>3, FlowFrame DEF ResettingSteps
<1>5. Pending[t] = call[t]
  BY <1>2, PendingIs
<1> QED
  BY <1>1, <1>2, <1>3, <1>4, <1>5, SimStutter

\* Whoever holds the instance of k, now and after a step of thread t, is t.
LEMMA MyHolders ==
  ASSUME ClientsApart(Calls), OwnInv, CallInv, ApartInv, NEW t \in Thread, NEW k, NEW S
  PROVE  /\ sessions[k] \in held[t] => Holder(k, S) \subseteq {t}
         /\ OthersSame(t) /\ (sessions'[k] \in held[t] \/ sessions'[k] \notin DOMAIN heap)
               => Holder(k, S)' \subseteq {t}
<1>1. ASSUME NEW u \in Thread, u # t, NEW r \in held[u] PROVE r \notin held[t] /\ r \in DOMAIN heap
  BY <1>1, HoldsApart DEF OwnInv, HolderOK
<1>2. ASSUME sessions[k] \in held[t] PROVE Holder(k, S) \subseteq {t}
  BY <1>1, <1>2 DEF Holder
<1>3. ASSUME OthersSame(t), sessions'[k] \in held[t] \/ sessions'[k] \notin DOMAIN heap
      PROVE  Holder(k, S)' \subseteq {t}
  <2>1. \A u \in Thread : u # t => held'[u] = held[u]
    BY <1>3 DEF OthersSame
  <2> QED
    BY <1>1, <1>3, <2>1 DEF Holder
<1> QED
  BY <1>2, <1>3

\* The flow of an instance nobody is ahead of.
LEMMA QuietFlow ==
  ASSUME NEW k
  PROVE  /\ Holder(k, {"move"}) = {} /\ Holder(k, ResettingSteps) = {}
               => FlowOf(k) = [state |-> heap[sessions[k]].state, table |-> heap[sessions[k]].table]
         /\ Holder(k, {"move"})' = {} /\ Holder(k, ResettingSteps)' = {}
               => FlowOf(k)' = [state |-> heap'[sessions'[k]].state,
                                table |-> heap'[sessions'[k]].table]
BY DEF FlowOf, FlowState

\* The first request of a session opens its flow, under the cap or above it by as much as
\* the other threads can have overtaken it.
LEMMA SimOpen ==
  ASSUME ClientsApart(Calls), CapInv, OwnInv, CallInv, ApartInv, SharingInv,
         NEW t \in Thread, InsertSession(t)
  PROVE  Flows!Open(t)
<1>0. PICK c, k : c = call[t] /\ k = KeyOf(c)
  OBVIOUS
<1> DEFINE r == CHOOSE x \in Reference \ DOMAIN heap : TRUE
           fresh == FreshInstance(call[t])
<1>1. OthersSame(t)
  BY ApartInsert
<1>2. pc[t] = "insert" /\ unvisited' = unvisited /\ out' = out
  BY DEF InsertSession, Hold
<1>3. c \in Calls[t] /\ c.op = "resolve" /\ ScenarioOf(c) # {} /\ k \notin DOMAIN sessions
  <2>1. c \in Calls[t] /\ c.op = "resolve" /\ Settled(c) = {} /\ k \notin DOMAIN sessions
    BY <1>0, <1>2 DEF CallInv, CallOK, ResolveSteps, ApartInv, ApartOK
  <2>2. ScenarioOf(c) # {}
    BY <2>1, Zenon DEF Settled
  <2> QED
    BY <2>1, <2>2
<1>4. Pending[t] = c /\ Flows!Key(c) = k
  BY <1>0, <1>2, <1>3, PendingIs, KeyIs
<1>5. /\ sessions' = Put(sessions, k, r) /\ heap' = Put(heap, r, fresh)
      /\ pc' = [pc EXCEPT ![t] = "snapshot"] /\ held' = [held EXCEPT ![t] = {r}]
      /\ call' = call
  BY <1>0, <1>3 DEF InsertSession, Hold, Goto
<1>6. r \notin DOMAIN heap
  BY DEF InsertSession
<1>7. k.scenario = Scenario(c)
  BY <1>0 DEF KeyOf
<1>8. fresh.state = Machine[k.scenario].initial /\ fresh.table = SeedTable(k.scenario)
  BY <1>0, <1>7 DEF FreshInstance
<1>9. Cardinality(DOMAIN sessions) < MaxSessions + Cardinality(Thread) - 1
  <2>1. t \in Admitted
    BY <1>2 DEF Admitted
  <2>2. IsFiniteSet(Admitted) /\ Cardinality(Admitted) \in Nat
    BY FS_Subset, FS_CardinalityType, ThreadAssumption DEF Admitted
  <2>3. Cardinality(Admitted) # 0
    BY <2>1, <2>2, FS_EmptySet
  <2>4. Cardinality(Thread) \in Nat /\ Cardinality(DOMAIN sessions) \in Nat
    BY FS_CardinalityType, ThreadAssumption DEF CapInv
  <2> QED
    BY <2>2, <2>3, <2>4, MaxSessionsAssumption DEF CapInv, SessionsBounded
<1> HIDE DEF r, fresh
<1>10. /\ DOMAIN sessions' = DOMAIN sessions \cup {k} /\ sessions'[k] = r
       /\ \A l \in DOMAIN sessions : sessions'[l] = sessions[l] /\ l # k
  BY <1>3, <1>5 DEF Put
<1>11. heap'[r] = fresh /\ \A q \in DOMAIN heap : heap'[q] = heap[q] /\ q # r
  BY <1>5, <1>6 DEF Put
<1>12. pc'[t] = "snapshot" /\ held'[t] = {r} /\ call'[t] = c
  BY <1>0, <1>5 DEF OwnInv, LocalsOK, IsFcn
<1>13. \A l \in DOMAIN sessions : FlowOf(l)' = FlowOf(l)
  <2>1. \A l \in DOMAIN sessions : heap'[sessions[l]] = heap[sessions[l]]
    BY <1>11 DEF OwnInv, RegistryOK
  <2> QED
    BY <1>1, <1>2, <1>10, <1>12, <2>1, FlowFrame DEF ResettingSteps
<1>14. FlowOf(k)' = [state |-> Machine[k.scenario].initial, table |-> SeedTable(k.scenario)]
  <2>1. Holder(k, {"move"})' \subseteq {t} /\ Holder(k, ResettingSteps)' \subseteq {t}
    BY <1>1, <1>6, <1>10, MyHolders
  <2>2. Holder(k, {"move"})' = {} /\ Holder(k, ResettingSteps)' = {}
    BY <1>12, <2>1 DEF Holder, ResettingSteps
  <2> QED
    BY <1>8, <1>10, <1>11, <2>2, QuietFlow
<1>15. Flows!Fresh(k.scenario) = [state |-> Machine[k.scenario].initial, table |-> SeedTable(k.scenario)]
  BY SameSeed DEF Flows!Fresh
<1>16. Flow' = Flows!Put(Flow, k, Flows!Fresh(k.scenario))
  <2>1. Flow' = [l \in DOMAIN sessions \cup {k} |-> IF l = k THEN Flows!Fresh(k.scenario) ELSE Flow[l]]
    BY <1>10, <1>13, <1>14, <1>15 DEF Flow
  <2>2. DOMAIN Flow = DOMAIN sessions
    BY DEF Flow
  <2> QED
    BY <2>1, <2>2 DEF Flows!Put
<1>17. Pending' = Pending
  <2>1. Pending' = [Pending EXCEPT ![t] = Pending[t]]
    BY <1>1, <1>4, <1>12, PendingStep
  <2> QED
    BY <2>1 DEF Pending
<1>18. DOMAIN Flow = DOMAIN sessions /\ Flows!Cardinality(DOMAIN sessions) = Cardinality(DOMAIN sessions)
       /\ Flows!Cardinality(Thread) = Cardinality(Thread)
  BY SameCardinality DEF Flow
<1> QED
  BY <1>2, <1>3, <1>4, <1>9, <1>16, <1>17, <1>18 DEF Flows!Open

\* The flow of an instance whose request is about to move it.
LEMMA MovingFlow ==
  ASSUME NEW t, NEW k
  PROVE  /\ Holder(k, {"move"}) = {t} /\ Holder(k, ResettingSteps) = {}
               => FlowOf(k) = [state |-> CHOOSE s \in NextState(Machine[k.scenario], snap[t],
                                                              Operation(call[t]).name) : TRUE,
                               table |-> heap[sessions[k]].table]
         /\ Holder(k, {"move"})' = {t} /\ Holder(k, ResettingSteps)' = {}
               => FlowOf(k)' = [state |-> CHOOSE s \in NextState(Machine[k.scenario], snap'[t],
                                                               Operation(call'[t]).name) : TRUE,
                                table |-> heap'[sessions'[k]].table]
<1>1. (CHOOSE u \in {t} : TRUE) = t
  OBVIOUS
<1> QED
  BY <1>1 DEF FlowOf, FlowState

\* What is known of a request that serves.
LEMMA ServingIs ==
  ASSUME ClientsApart(Calls), OwnInv, CallInv, ApartInv, NEW t \in Thread, pc[t] \in ServingSteps,
         NEW c, c = call[t], NEW k, k = KeyOf(c)
  PROVE  /\ c.op = "resolve" /\ Flows!Key(c) = k /\ k.scenario = Scenario(c)
         /\ Scenario(c) \in Range(Scenarios)
         /\ k \in DOMAIN sessions /\ held[t] = {sessions[k]} /\ sessions[k] \in DOMAIN heap
         /\ Mine(t) = heap[sessions[k]]
         /\ pc[t] # "move" => Pending[t] = c
         /\ \A l \in DOMAIN sessions : l # k => sessions[l] # sessions[k]
<1>1. c \in Calls[t] /\ c.op = "resolve" /\ ScenarioOf(c) # {} /\ Scenario(c) \in Range(Scenarios)
  <2>1. /\ c \in Calls[t] /\ c.op = "resolve" /\ Settled(c) = {}
        /\ Scenario(c) \in Range(Scenarios)
    BY DEF CallInv, CallOK, ResolveSteps, ServingSteps, OwnInv, HolderOK
  <2>2. ScenarioOf(c) # {}
    BY <2>1, Zenon DEF Settled
  <2> QED
    BY <2>1, <2>2
<1>2. Flows!Key(c) = k /\ k.scenario = Scenario(c)
  BY <1>1, KeyIs DEF KeyOf
<1>3. k \in DOMAIN sessions /\ held[t] = {sessions[k]}
  BY DEF ApartInv, ApartOK
<1>4. Mine(t) = heap[sessions[k]] /\ sessions[k] \in DOMAIN heap
  BY <1>3, MineAfter
<1>5. \A l \in DOMAIN sessions : l # k => sessions[l] # sessions[k]
  BY <1>3, OwnImplies DEF SessionsIsolated, IsInjective
<1> QED
  BY <1>1, <1>2, <1>3, <1>4, <1>5, PendingIs

\* The flows of the other sessions, whatever thread t does to the instance it holds.
LEMMA OtherFlows ==
  ASSUME OwnInv, NEW t \in Thread, OthersSame(t), sessions' = sessions,
         NEW r, held[t] = {r}, held'[t] \subseteq {r},
         NEW h, h = heap \/ (\E x : h = WithState(t, x) \/ h = WithTable(t, x)),
         heap' = h \/ heap' = Surviving(h, sessions, held'),
         NEW l \in DOMAIN sessions, sessions[l] # r
  PROVE  FlowOf(l)' = FlowOf(l)
<1>1. sessions[l] \in DOMAIN heap
  BY DEF OwnInv, RegistryOK
<1>2. sessions[l] \in DOMAIN h /\ h[sessions[l]] = heap[sessions[l]]
  BY <1>1, MineAfter
<1>3. heap'[sessions[l]] = heap[sessions[l]]
  BY <1>2, Survives
<1> QED
  BY <1>3, FlowFrame

\* A request is answered: its own flow is served, and the others stay.
LEMMA SimAnswer ==
  ASSUME ClientsApart(Calls), OwnInv, CallInv, ApartInv, NEW t \in Thread, pc[t] \in {"snapshot", "store"},
         OthersSame(t), sessions' = sessions, unvisited' = unvisited,
         NEW c, c = call[t], NEW k, k = KeyOf(c),
         \A l \in DOMAIN sessions : l # k => FlowOf(l)' = FlowOf(l),
         FlowOf(k)' = Flows!Served(FlowOf(k), c).flow,
         out' = [out EXCEPT ![t] = Flows!Served(FlowOf(k), c).answer],
         pc'[t] = "move" \/ call'[t] = NoCall
  PROVE  Flows!Serve(t)
<1>1. /\ c.op = "resolve" /\ Flows!Key(c) = k /\ k \in DOMAIN sessions /\ Pending[t] = c
  BY ServingIs DEF ServingSteps
<1>2. Flow' = [Flow EXCEPT ![k] = Flows!Served(Flow[k], c).flow]
  BY <1>1 DEF Flow
<1>3. Flow[k] = FlowOf(k) /\ k \in DOMAIN Flow
  BY <1>1 DEF Flow
<1>4. Pending' = [Pending EXCEPT ![t] = NoCall]
  BY PendingStep
<1>5. Flows!Respond(t, Flows!Served(Flow[k], c).answer)
  BY <1>3, <1>4, NoCallIs DEF Flows!Respond
<1> QED
  BY <1>1, <1>2, <1>3, <1>5 DEF Flows!Serve

\* A request that is refused or invalid is answered, and its flow stays.
LEMMA SimSnapshot ==
  ASSUME ClientsApart(Calls), OwnInv, CallInv, ApartInv, NEW t \in Thread, Snapshot(t)
  PROVE  Flows!Serve(t) \/ UNCHANGED Flows!vars
<1>1. OthersSame(t)
  BY ApartServe
<1>2. PICK c, k : c = call[t] /\ k = KeyOf(c)
  OBVIOUS
<1>3. /\ pc[t] = "snapshot" /\ sessions' = sessions /\ unvisited' = unvisited
      /\ heap' = Surviving(heap, sessions, held')
  BY DEF Snapshot
<1> DEFINE r == sessions[k]
           m == Machine[Scenario(c)]
           op == Operation(c).name
<1>4. /\ k.scenario = Scenario(c) /\ Flows!Key(c) = k /\ k \in DOMAIN sessions
      /\ held[t] = {r} /\ r \in DOMAIN heap /\ Mine(t) = heap[r] /\ Pending[t] = c
  BY <1>2, <1>3, ServingIs DEF ServingSteps
<1>5. \A l \in DOMAIN sessions : FlowOf(l)' = FlowOf(l)
  <2>1. \A l \in DOMAIN sessions : sessions[l] \in DOMAIN heap
    BY DEF OwnInv, RegistryOK
  <2>2. \A l \in DOMAIN sessions : heap'[sessions[l]] = heap[sessions[l]]
    BY <1>3, <2>1, Survives
  <2>3. pc'[t] \in {"idle", "store"}
    BY DEF Snapshot, Return, Goto, OwnInv, LocalsOK
  <2> QED
    BY <1>1, <1>3, <2>2, <2>3, FlowFrame DEF ResettingSteps
<1>6. FlowOf(k) = [state |-> heap[r].state, table |-> heap[r].table]
  <2>1. Holder(k, {"move"}) \subseteq {t} /\ Holder(k, ResettingSteps) \subseteq {t}
    BY <1>4, MyHolders
  <2>2. Holder(k, {"move"}) = {} /\ Holder(k, ResettingSteps) = {}
    BY <1>3, <2>1 DEF Holder, ResettingSteps
  <2> QED
    BY <2>2, QuietFlow
<1>7. FlowOf(k).state = Mine(t).state
  BY <1>4, <1>6
<1>8. ASSUME NEW outcome, Return(t, outcome), Flows!Served(FlowOf(k), c).flow = FlowOf(k),
             Flows!Served(FlowOf(k), c).answer = outcome
      PROVE  Flows!Serve(t)
  <2>1. out' = [out EXCEPT ![t] = outcome] /\ call'[t] = NoCall
    BY <1>8 DEF Return, OwnInv, LocalsOK, IsFcn
  <2> QED
    BY <1>1, <1>2, <1>3, <1>4, <1>5, <1>8, <2>1, SimAnswer
<1>9. CASE ~Allows(m, Mine(t).state, op) /\ Return(t, Failed("IllegalOperation"))
  <2>1. ~Allows(Machine[k.scenario], FlowOf(k).state, op)
    BY <1>4, <1>7, <1>9
  <2>2. Flows!Served(FlowOf(k), c) = [flow |-> FlowOf(k), answer |-> Failed("IllegalOperation")]
    BY <1>4, <2>1, ServedRefused
  <2> QED
    BY <1>8, <1>9, <2>2
<1>10. CASE Allows(m, Mine(t).state, op) /\ ~c.validated /\ Return(t, Ungoverned)
  <2>1. Allows(Machine[k.scenario], FlowOf(k).state, op) /\ ~c.validated
    BY <1>4, <1>7, <1>10
  <2>2. Flows!Served(FlowOf(k), c) = [flow |-> FlowOf(k), answer |-> Ungoverned]
    BY <1>4, <2>1, ServedInvalid
  <2> QED
    BY <1>8, <1>10, <2>2
<1>11. CASE Goto(t, "store") /\ UNCHANGED <<call, held, out>>
  <2>1. pc'[t] = "store" /\ call' = call
    BY <1>11 DEF Goto, OwnInv, LocalsOK
  <2> QED
    BY <1>1, <1>2, <1>3, <1>4, <1>5, <1>11, <2>1, SimStutter
<1> QED
  BY <1>2, <1>9, <1>10, <1>11 DEF Snapshot

\* A legal request takes effect, on state and store, when it uses the store.
LEMMA SimUseStore ==
  ASSUME ClientsApart(Calls), OwnInv, CallInv, ApartInv, NEW t \in Thread, UseStore(t)
  PROVE  Flows!Serve(t)
<1>1. OthersSame(t)
  BY ApartServe
<1>2. PICK c, k : c = call[t] /\ k = KeyOf(c)
  OBVIOUS
<1> DEFINE r == sessions[k]
           op == Operation(c)
           m == Machine[Scenario(c)]
           result == StoreResult(Mine(t).table, op, c)
           outcome == Overridden(result.outcome, m, snap[t], op)
           next == NextState(m, snap[t], op.name)
           h == WithTable(t, result.table)
<1>3. /\ pc[t] = "store" /\ sessions' = sessions /\ unvisited' = unvisited
      /\ heap' = Surviving(h, sessions, held')
      /\ \/ next = {} /\ Return(t, outcome)
         \/ /\ next # {} /\ Goto(t, "move") /\ out' = [out EXCEPT ![t] = outcome]
            /\ UNCHANGED <<call, held, snap>>
  BY <1>2 DEF UseStore, WithTable
<1>4. /\ k.scenario = Scenario(c) /\ Flows!Key(c) = k /\ k \in DOMAIN sessions
      /\ held[t] = {r} /\ r \in DOMAIN heap /\ Mine(t) = heap[r]
      /\ \A l \in DOMAIN sessions : l # k => sessions[l] # r
  BY <1>2, <1>3, ServingIs DEF ServingSteps
<1>5. /\ snap[t] = heap[r].state /\ c.validated /\ Allows(m, snap[t], op.name)
  BY <1>2, <1>3, <1>4 DEF CallInv, CallOK, ApartInv, ApartOK
<1>6. FlowOf(k) = [state |-> snap[t], table |-> Mine(t).table]
  <2>1. Holder(k, {"move"}) \subseteq {t} /\ Holder(k, ResettingSteps) \subseteq {t}
    BY <1>4, MyHolders
  <2>2. Holder(k, {"move"}) = {} /\ Holder(k, ResettingSteps) = {}
    BY <1>3, <2>1 DEF Holder, ResettingSteps
  <2> QED
    BY <1>4, <1>5, <2>2, QuietFlow
<1>7. /\ Flows!Served(FlowOf(k), c).flow
            = [state |-> IF next = {} THEN snap[t] ELSE CHOOSE s \in next : TRUE, table |-> result.table]
      /\ Flows!Served(FlowOf(k), c).answer = outcome
  <2>1. FlowOf(k).state = snap[t] /\ FlowOf(k).table = Mine(t).table
    BY <1>6
  <2>2. Allows(Machine[k.scenario], FlowOf(k).state, Operation(c).name)
    BY <1>4, <1>5, <2>1
  <2> DEFINE served == Flows!Served(FlowOf(k), c)
  <2>3. served =
          LET after == StoreResult(FlowOf(k).table, Operation(c), c)
              to == NextState(Machine[k.scenario], FlowOf(k).state, Operation(c).name)
          IN [flow |-> [state |-> IF to = {} THEN FlowOf(k).state ELSE CHOOSE s \in to : TRUE,
                        table |-> after.table],
              answer |-> Overridden(after.outcome, Machine[k.scenario], FlowOf(k).state,
                                    Operation(c))]
    BY <1>4, <1>5, <2>2, ServedLegal
  <2>4. served =
          [flow |-> [state |-> IF next = {} THEN snap[t] ELSE CHOOSE s \in next : TRUE,
                     table |-> result.table],
           answer |-> outcome]
    BY <1>4, <2>1, <2>3
  <2> HIDE DEF served, next, result, outcome
  <2> QED
    BY <2>4 DEF served
<1>8. heap'[r].state = snap[t] /\ heap'[r].table = result.table
  <2> HIDE DEF result
  <2>1. r \in DOMAIN h /\ h[r].state = heap[r].state /\ h[r].table = result.table
    BY <1>4, MineAfter
  <2>2. heap'[r] = h[r]
    BY <1>3, <1>4, <2>1, Survives
  <2> QED
    BY <1>5, <2>1, <2>2
<1>9. held'[t] \subseteq {r}
  BY <1>3, <1>4 DEF Return, OwnInv, LocalsOK, IsFcn
<1>10. \A l \in DOMAIN sessions : l # k => FlowOf(l)' = FlowOf(l)
  <2> HIDE DEF result
  <2> QED
    BY <1>1, <1>3, <1>4, <1>9, OtherFlows
<1>11. Holder(k, {"move"})' \subseteq {t} /\ Holder(k, ResettingSteps)' \subseteq {t}
  BY <1>1, <1>3, <1>4, MyHolders
<1> HIDE DEF result, outcome
<1>12. CASE next = {} /\ Return(t, outcome)
  <2>1. pc'[t] = "idle" /\ call'[t] = NoCall /\ out' = [out EXCEPT ![t] = outcome]
    BY <1>12 DEF Return, Goto, OwnInv, LocalsOK, IsFcn
  <2>2. Holder(k, {"move"})' = {} /\ Holder(k, ResettingSteps)' = {}
    BY <1>11, <2>1 DEF Holder, ResettingSteps
  <2>3. FlowOf(k)' = [state |-> snap[t], table |-> result.table]
    BY <1>3, <1>8, <2>2, QuietFlow
  <2>4. FlowOf(k)' = Flows!Served(FlowOf(k), c).flow
    BY <1>7, <1>12, <2>3
  <2> QED
    BY <1>1, <1>2, <1>3, <1>7, <1>10, <2>1, <2>4, SimAnswer
<1>13. CASE next # {} /\ Goto(t, "move") /\ out' = [out EXCEPT ![t] = outcome] /\ UNCHANGED <<call, held, snap>>
  <2>1. pc'[t] = "move"
    BY <1>13 DEF Goto, OwnInv, LocalsOK
  <2>2. Holder(k, {"move"})' = {t} /\ Holder(k, ResettingSteps)' = {}
    BY <1>3, <1>4, <1>11, <1>13, <2>1 DEF Holder, ResettingSteps
  <2>3. FlowOf(k)' = [state |-> CHOOSE s \in NextState(Machine[k.scenario], snap'[t],
                                                      Operation(call'[t]).name) : TRUE,
                      table |-> heap'[sessions'[k]].table]
    BY <2>2, MovingFlow
  <2>4. FlowOf(k)' = [state |-> CHOOSE s \in next : TRUE, table |-> result.table]
    BY <1>2, <1>3, <1>4, <1>8, <1>13, <2>3
  <2>5. FlowOf(k)' = Flows!Served(FlowOf(k), c).flow
    BY <1>7, <1>13, <2>4
  <2> QED
    BY <1>1, <1>2, <1>3, <1>7, <1>10, <1>13, <2>1, <2>5, SimAnswer
<1> QED
  BY <1>3, <1>12, <1>13

\* Outcomes are kept per thread.
OutInv == IsFcn(out) /\ DOMAIN out = Thread

\* A step answers its own thread.
LEMMA OutNext == OutInv /\ [Next]_vars => OutInv'
<1> SUFFICES ASSUME OutInv, [Next]_vars PROVE OutInv'
  OBVIOUS
<1>1. ASSUME NEW t \in Thread, NEW x, out' = [out EXCEPT ![t] = x] PROVE OutInv'
  BY <1>1 DEF OutInv, IsFcn
<1>2. ASSUME out' = out PROVE OutInv'
  BY <1>2 DEF OutInv, IsFcn
<1>3. CASE UNCHANGED vars
  BY <1>2, <1>3 DEF vars
<1>4. ASSUME NEW t \in Thread, Step(t) PROVE OutInv'
  <2>1. \/ out' = out \/ \E x : out' = [out EXCEPT ![t] = x]
    BY <1>4 DEF Step, GetSession, CheckCap, GetAgain, InsertSession, Snapshot, UseStore, Move, Visit,
       ResetState, ResetClear, ResetSeed, EndReset, Hold, Return
  <2> QED
    BY <1>1, <1>2, <2>1
<1>5. ASSUME NEW t \in Thread, Invoke(t) PROVE OutInv'
  <2>1. \/ out' = out \/ \E x : out' = [out EXCEPT ![t] = x]
    BY <1>5 DEF Invoke, Resolve, Release, ResetAll
  <2> QED
    BY <1>1, <1>2, <2>1
<1> QED
  BY <1>3, <1>4, <1>5 DEF Next

\* The step that moves the instance is one its flow has behind it.
LEMMA SimMove ==
  ASSUME ClientsApart(Calls), OwnInv, CallInv, ApartInv, OutInv, NEW t \in Thread, Move(t)
  PROVE  UNCHANGED Flows!vars
<1>1. OthersSame(t)
  BY ApartServe
<1>2. PICK c, k : c = call[t] /\ k = KeyOf(c)
  OBVIOUS
<1> DEFINE r == sessions[k]
           op == Operation(c).name
           m == Machine[Scenario(c)]
<1>3. PICK next \in NextState(m, snap[t], op) :
        /\ Return(t, out[t])
        /\ heap' = Surviving(WithState(t, next), sessions, held')
  BY <1>2 DEF Move, WithState
<1>4. pc[t] = "move" /\ sessions' = sessions /\ unvisited' = unvisited
  BY DEF Move
<1>5. /\ k.scenario = Scenario(c) /\ Scenario(c) \in Range(Scenarios) /\ k \in DOMAIN sessions
      /\ held[t] = {r} /\ r \in DOMAIN heap
      /\ \A l \in DOMAIN sessions : l # k => sessions[l] # r
  BY <1>2, <1>4, ServingIs DEF ServingSteps
<1>6. /\ pc'[t] = "idle" /\ call'[t] = NoCall /\ held'[t] = {}
      /\ out' = [out EXCEPT ![t] = out[t]]
  BY <1>3 DEF Return, Goto, OwnInv, LocalsOK, IsFcn
<1>7. out' = out
  BY <1>6 DEF OutInv, IsFcn
<1>8. (CHOOSE s \in NextState(m, snap[t], op) : TRUE) = next
  <2>1. Allows(m, snap[t], op)
    BY <1>2, <1>4 DEF CallInv, CallOK
  <2>2. NextState(m, snap[t], op) = m.states[snap[t]][op].target
    BY <2>1 DEF NextState
  <2>3. AtMostOne(m.states[snap[t]][op].target)
    BY <1>5, <2>1, MachineAssumption DEF Declared, Allows
  <2> QED
    BY <2>2, <2>3 DEF AtMostOne
<1>9. FlowOf(k) = [state |-> next, table |-> heap[r].table]
  <2>1. Holder(k, {"move"}) \subseteq {t} /\ Holder(k, ResettingSteps) \subseteq {t}
    BY <1>5, MyHolders
  <2>2. Holder(k, {"move"}) = {t} /\ Holder(k, ResettingSteps) = {}
    BY <1>4, <1>5, <2>1 DEF Holder, ResettingSteps
  <2>3. FlowOf(k) = [state |-> CHOOSE s \in NextState(Machine[k.scenario], snap[t],
                                                     Operation(call[t]).name) : TRUE,
                     table |-> heap[r].table]
    BY <2>2, MovingFlow
  <2> QED
    BY <1>2, <1>5, <1>8, <2>3
<1>10. heap'[r].state = next /\ heap'[r].table = heap[r].table
  <2>1. /\ r \in DOMAIN WithState(t, next) /\ WithState(t, next)[r].state = next
        /\ WithState(t, next)[r].table = heap[r].table
    BY <1>5, MineAfter
  <2>2. heap'[r] = WithState(t, next)[r]
    BY <1>3, <1>4, <1>5, <2>1, Survives
  <2> QED
    BY <2>1, <2>2
<1>11. FlowOf(k)' = [state |-> next, table |-> heap[r].table]
  <2>1. Holder(k, {"move"})' \subseteq {t} /\ Holder(k, ResettingSteps)' \subseteq {t}
    BY <1>1, <1>4, <1>5, MyHolders
  <2>2. Holder(k, {"move"})' = {} /\ Holder(k, ResettingSteps)' = {}
    BY <1>6, <2>1 DEF Holder, ResettingSteps
  <2>3. FlowOf(k)' = [state |-> heap'[sessions'[k]].state, table |-> heap'[sessions'[k]].table]
    BY <2>2, QuietFlow
  <2> QED
    BY <1>4, <1>10, <2>3
<1>12. ASSUME NEW l \in DOMAIN sessions, l # k PROVE FlowOf(l)' = FlowOf(l)
  BY <1>1, <1>3, <1>4, <1>5, <1>6, <1>12, OtherFlows
<1>13. Pending[t] = NoCall
  BY <1>4, PendingIs
<1> QED
  BY <1>1, <1>4, <1>6, <1>7, <1>9, <1>11, <1>12, <1>13, SimStutter

\* A release forgets the flow.
LEMMA SimRelease ==
  ASSUME ClientsApart(Calls), OwnInv, CallInv, ApartInv,
         NEW t \in Thread, NEW c \in Calls[t], Release(t, c)
  PROVE  Flows!Release(t, c)
<1>1. OthersSame(t)
  BY ApartRelease
<1>2. /\ pc[t] = "idle" /\ c.op = "release" /\ ScenarioOf(c) # {}
      /\ sessions' = Drop(sessions, KeyOf(c)) /\ heap' = Surviving(heap, sessions', held)
      /\ out' = [out EXCEPT ![t] = Ungoverned]
      /\ UNCHANGED <<pc, call, held, unvisited>>
  BY DEF Release
<1>3. Flows!Key(c) = KeyOf(c) /\ Flows!ScenarioOf(c) # {} /\ Flows!Ungoverned = Ungoverned
  BY <1>2, KeyIs, SameScenarioOf, SameOutcomes
<1>4. Pending[t] = NoCall /\ Flows!NoCall = NoCall
  BY <1>2, PendingIs, NoCallIs
<1>5. Pending' = [Pending EXCEPT ![t] = NoCall]
  BY <1>2, <1>4 DEF Pending
<1>6. PICK k : k = KeyOf(c)
  OBVIOUS
<1>7. /\ DOMAIN sessions' = DOMAIN sessions \ {k}
      /\ \A l \in DOMAIN sessions' : sessions'[l] = sessions[l]
  BY <1>2, <1>6 DEF Drop, Restrict
<1>8. ASSUME NEW l \in DOMAIN sessions' PROVE FlowOf(l)' = FlowOf(l)
  <2>1. sessions[l] \in DOMAIN heap /\ sessions'[l] = sessions[l]
    BY <1>7 DEF OwnInv, RegistryOK
  <2>2. heap'[sessions[l]] = heap[sessions[l]]
    BY <1>2, <2>1, Survives
  <2> QED
    BY <1>1, <1>2, <2>1, <2>2, FlowFrame DEF ResettingSteps
<1>9. Flow' = Flows!Drop(Flow, k)
  <2>1. Flow' = [l \in DOMAIN sessions \ {k} |-> Flow[l]]
    BY <1>7, <1>8 DEF Flow
  <2>2. DOMAIN Flow = DOMAIN sessions
    BY DEF Flow
  <2> QED
    BY <2>1, <2>2, Zenon DEF Flows!Drop, Flows!Restrict
<1> QED
  BY <1>2, <1>3, <1>4, <1>5, <1>6, <1>9 DEF Flows!Release, Flows!Respond

\* The flow of an instance a reset visits, now and after a step.
LEMMA ResettingFlow ==
  ASSUME NEW t \in Thread, NEW k
  PROVE  /\ pc[t] \in ResettingSteps /\ sessions[k] \in held[t]
               => FlowOf(k) = [state |-> Machine[k.scenario].initial, table |-> SeedTable(k.scenario)]
         /\ pc'[t] \in ResettingSteps /\ sessions'[k] \in held'[t]
               => FlowOf(k)' = [state |-> Machine[k.scenario].initial, table |-> SeedTable(k.scenario)]
<1>1. pc[t] \in ResettingSteps /\ sessions[k] \in held[t] => t \in Holder(k, ResettingSteps)
  BY DEF Holder
<1>2. pc'[t] \in ResettingSteps /\ sessions'[k] \in held'[t] => t \in Holder(k, ResettingSteps)'
  BY DEF Holder
<1> QED
  BY <1>1, <1>2 DEF FlowOf

\* A visit puts the flow of its key back.
LEMMA SimVisit ==
  ASSUME ClientsApart(Calls), OwnInv, CallInv, ApartInv,
         NEW t \in Thread, NEW k \in SessionKey, Visit(t, k)
  PROVE  Flows!ResetOne(t, k)
<1>1. OthersSame(t)
  BY ApartLook
<1>2. /\ pc[t] = "scan" /\ k \in unvisited[t] /\ sessions' = sessions /\ heap' = heap
      /\ unvisited' = [unvisited EXCEPT ![t] = @ \ {k}] /\ call' = call /\ out' = out
  BY DEF Visit, Hold
<1>3. pc'[t] \in {"scan", "reset_state"} /\ Pending[t] = call[t]
  BY <1>2, PendingIs DEF Visit, Hold, Goto, OwnInv, LocalsOK
<1>4. Pending' = Pending
  <2>1. Pending' = [Pending EXCEPT ![t] = Pending[t]]
    BY <1>1, <1>2, <1>3, PendingStep
  <2> QED
    BY <2>1 DEF Pending
<1>5. DOMAIN Flow = DOMAIN sessions /\ DOMAIN Flow' = DOMAIN sessions
  BY <1>2 DEF Flow
<1>6. CASE k \notin DOMAIN sessions
  <2>1. pc'[t] = "scan"
    BY <1>2, <1>6 DEF Visit
  <2>2. Flow' = Flow
    BY <1>1, <1>2, <2>1, SameFlow DEF AheadSteps, ResettingSteps
  <2> QED
    BY <1>2, <1>4, <1>5, <1>6, <2>2 DEF Flows!ResetOne
<1>7. CASE k \in DOMAIN sessions
  <2>1. pc'[t] = "reset_state" /\ held'[t] = {sessions[k]}
    BY <1>2, <1>7 DEF Visit, Hold, Goto, OwnInv, LocalsOK, IsFcn
  <2>2. Flows!Fresh(k.scenario) = [state |-> Machine[k.scenario].initial, table |-> SeedTable(k.scenario)]
    BY SameSeed DEF Flows!Fresh
  <2>3. FlowOf(k)' = Flows!Fresh(k.scenario)
    BY <1>2, <2>1, <2>2, ResettingFlow DEF ResettingSteps
  <2>4. ASSUME NEW l \in DOMAIN sessions, l # k PROVE FlowOf(l)' = FlowOf(l)
    <3>1. sessions[l] # sessions[k]
      BY <1>7, <2>4, OwnImplies DEF SessionsIsolated, IsInjective
    <3> QED
      BY <1>1, <1>2, <2>1, <3>1, FlowFrame DEF ResettingSteps
  <2>5. Flow' = [Flow EXCEPT ![k] = Flows!Fresh(k.scenario)]
    BY <1>2, <1>7, <2>3, <2>4 DEF Flow
  <2> QED
    BY <1>2, <1>4, <1>5, <1>7, <2>5 DEF Flows!ResetOne
<1> QED
  BY <1>6, <1>7

\* The rest of a visit is behind its flow: when it ends, the instance is as new.
LEMMA SimReset ==
  ASSUME ClientsApart(Calls), OwnInv, CallInv, ApartInv, SharingInv, NEW t \in Thread,
         ResetState(t) \/ ResetClear(t) \/ ResetSeed(t)
  PROVE  UNCHANGED Flows!vars
<1>1. OthersSame(t)
  BY ApartReset
<1>2. /\ pc[t] \in ResettingSteps /\ pc[t] # "move"
      /\ sessions' = sessions /\ unvisited' = unvisited /\ out' = out /\ call' = call
  BY DEF ResetState, ResetClear, ResetSeed, ResettingSteps
<1>3. PICK r : held[t] = {r} /\ r \in DOMAIN heap
  BY <1>2 DEF OwnInv, HolderOK
<1>4. Pending[t] = call[t] /\ pc'[t] \in ResettingSteps \cup {"scan"}
  BY <1>2, PendingIs
     DEF ResetState, ResetClear, ResetSeed, Goto, OwnInv, LocalsOK, ResettingSteps
<1>5. heap' = heap \/ \E x : heap' = WithState(t, x) \/ heap' = WithTable(t, x)
  BY DEF ResetState, ResetClear, ResetSeed, WithState, WithTable
<1>6. held'[t] \subseteq {r}
  BY <1>3 DEF ResetState, ResetClear, ResetSeed, OwnInv, LocalsOK, IsFcn
<1>7. ASSUME NEW l \in DOMAIN sessions, sessions[l] # r PROVE FlowOf(l)' = FlowOf(l)
  BY <1>1, <1>2, <1>3, <1>5, <1>6, <1>7, OtherFlows
<1>8. ASSUME NEW l \in DOMAIN sessions, sessions[l] = r PROVE FlowOf(l)' = FlowOf(l)
  <2>1. FlowOf(l) = [state |-> Machine[l.scenario].initial, table |-> SeedTable(l.scenario)]
    BY <1>2, <1>3, <1>8, ResettingFlow
  <2>2. CASE pc'[t] \in ResettingSteps
    <3>1. held' = held
      BY <2>2 DEF ResetState, ResetClear, ResetSeed, Goto, OwnInv, LocalsOK, ResettingSteps
    <3> QED
      BY <1>2, <1>3, <1>8, <2>1, <2>2, <3>1, ResettingFlow
  <2>3. CASE pc'[t] = "scan"
    <3>1. /\ pc[t] = "reset_seed" /\ heap' = heap
          /\ planted[t] = Len(SeedItems(Mine(t).scenario))
      BY <2>3 DEF ResetState, ResetClear, ResetSeed, Goto, OwnInv, LocalsOK
    <3>2. Mine(t) = heap[r] /\ heap[r].scenario = l.scenario
      BY <1>3, <1>8, MineAfter DEF OwnInv, RegistryOK
    <3>3. /\ heap[r].state = Machine[l.scenario].initial
          /\ heap[r].table = SeedTable(l.scenario)
      BY <3>1, <3>2 DEF ApartInv, ApartOK, SeedTable
    <3>4. Holder(l, {"move"})' \subseteq {t} /\ Holder(l, ResettingSteps)' \subseteq {t}
      BY <1>1, <1>2, <1>3, <1>8, MyHolders
    <3>5. Holder(l, {"move"})' = {} /\ Holder(l, ResettingSteps)' = {}
      BY <2>3, <3>4 DEF Holder, ResettingSteps
    <3>6. FlowOf(l)' = [state |-> heap'[sessions'[l]].state, table |-> heap'[sessions'[l]].table]
      BY <3>5, QuietFlow
    <3> QED
      BY <1>2, <1>8, <2>1, <3>1, <3>3, <3>6
  <2> QED
    BY <1>4, <2>2, <2>3
<1>9. pc'[t] # "move"
  BY <1>4 DEF ResettingSteps
<1> QED
  BY <1>1, <1>2, <1>4, <1>7, <1>8, <1>9, SimStutter

\* A reset ends when it has visited everything.
LEMMA SimEndReset ==
  ASSUME ClientsApart(Calls), OwnInv, CallInv, ApartInv, NEW t \in Thread, EndReset(t)
  PROVE  Flows!EndReset(t)
<1>1. OthersSame(t)
  BY ApartStep DEF Step
<1>2. /\ pc[t] = "scan" /\ unvisited[t] = {} /\ sessions' = sessions /\ heap' = heap
      /\ unvisited' = unvisited /\ Return(t, Ungoverned)
  BY DEF EndReset
<1>3. /\ pc'[t] = "idle" /\ call'[t] = NoCall /\ out' = [out EXCEPT ![t] = Ungoverned]
  BY <1>2 DEF Return, Goto, OwnInv, LocalsOK, IsFcn
<1>4. Pending[t].op = "reset"
  BY <1>2, PendingIs DEF ApartInv, ApartOK, ResetSteps
<1>5. Flow' = Flow
  BY <1>1, <1>2, <1>3, SameFlow DEF AheadSteps, ResettingSteps
<1>6. Pending' = [Pending EXCEPT ![t] = NoCall]
  BY <1>1, <1>3, PendingStep
<1>7. Flows!Respond(t, Flows!Ungoverned)
  BY <1>3, <1>6, NoCallIs, SameOutcomes DEF Flows!Respond
<1> QED
  BY <1>2, <1>4, <1>5, <1>7 DEF Flows!EndReset

\* The inductive invariant of the refinement.
FlowInv == CapInv /\ OwnInv /\ CallInv /\ SharingInv /\ OutInv /\ ApartInv

\* Every step of the runtime is a step of the flows, or none.
LEMMA SimNext ==
  ASSUME ClientsApart(Calls)
  PROVE  FlowInv /\ [Next]_vars => [Flows!Next]_(Flows!vars)
<1> SUFFICES ASSUME FlowInv, [Next]_vars PROVE [Flows!Next]_(Flows!vars)
  OBVIOUS
<1>1. CapInv /\ OwnInv /\ CallInv /\ SharingInv /\ OutInv /\ ApartInv
  BY DEF FlowInv
<1>2. CASE UNCHANGED vars
  BY <1>2 DEF vars, Flows!vars, Flow, FlowOf, FlowState, Holder, Pending
<1>3. ASSUME NEW t \in Thread, Step(t) PROVE [Flows!Next]_(Flows!vars)
  <2>1. CASE GetSession(t) \/ GetAgain(t)
    BY <1>1, <2>1, SimGet
  <2>2. CASE CheckCap(t)
    <3>1. Flows!Refuse(t) \/ UNCHANGED Flows!vars
      BY <1>1, <2>2, SimCap DEF OutInv
    <3> QED
      BY <3>1 DEF Flows!Next
  <2>3. CASE InsertSession(t)
    <3>1. Flows!Open(t)
      BY <1>1, <2>3, SimOpen
    <3> QED
      BY <3>1 DEF Flows!Next
  <2>4. CASE Snapshot(t)
    <3>1. Flows!Serve(t) \/ UNCHANGED Flows!vars
      BY <1>1, <2>4, SimSnapshot
    <3> QED
      BY <3>1 DEF Flows!Next
  <2>5. CASE UseStore(t)
    <3>1. Flows!Serve(t)
      BY <1>1, <2>5, SimUseStore
    <3> QED
      BY <3>1 DEF Flows!Next
  <2>6. CASE Move(t)
    BY <1>1, <2>6, SimMove
  <2>7. ASSUME NEW k \in SessionKey, Visit(t, k) PROVE [Flows!Next]_(Flows!vars)
    <3>1. Flows!ResetOne(t, k)
      BY <1>1, <2>7, SimVisit
    <3> QED
      BY <3>1 DEF Flows!Next
  <2>8. CASE ResetState(t) \/ ResetClear(t) \/ ResetSeed(t)
    BY <1>1, <2>8, SimReset
  <2>9. CASE EndReset(t)
    <3>1. Flows!EndReset(t)
      BY <1>1, <2>9, SimEndReset
    <3> QED
      BY <3>1 DEF Flows!Next
  <2> QED
    BY <1>3, <2>1, <2>2, <2>3, <2>4, <2>5, <2>6, <2>7, <2>8, <2>9, Zenon DEF Step
<1>4. ASSUME NEW t \in Thread, Invoke(t) PROVE [Flows!Next]_(Flows!vars)
  <2>1. PICK c \in Calls[t] : Resolve(t, c) \/ Release(t, c) \/ ResetAll(t, c)
    BY <1>4 DEF Invoke
  <2>2. CASE Release(t, c)
    <3>1. Flows!Release(t, c)
      BY <1>1, <2>2, SimRelease
    <3> QED
      BY <3>1 DEF Flows!Next
  <2>3. CASE Resolve(t, c) \/ ResetAll(t, c)
    <3>1. IsFcn(unvisited)
      BY <1>1 DEF CallInv
    <3>2. Flows!Bypass(t, c) \/ Flows!Begin(t, c)
      BY <1>1, <2>3, <3>1, SimInvoke
    <3> QED
      BY <3>2 DEF Flows!Next
  <2> QED
    BY <2>1, <2>2, <2>3
<1> QED
  BY <1>2, <1>3, <1>4 DEF Next

\* At first there are no sessions, and no flows.
LEMMA SimInit == Init => Flows!Init
<1> SUFFICES ASSUME Init PROVE Flows!Init
  OBVIOUS
<1>1. Flow = [k \in {} |-> {}]
  BY DEF Init, Flow
<1>2. Pending = [t \in Thread |-> NoCall]
  BY DEF Init, Pending
<1> QED
  BY <1>1, <1>2, NoCallIs, SameOutcomes DEF Init, Flows!Init

\* Clients that keep apart, each in sessions no other thread's calls name, or a single
\* one who may also reset, are served as by the flows of ScenarioFlow: every request
\* takes effect in one step, on the state and on the store of its own session, however
\* the steps of resolve_with, release and reset_all interleave with those of others.
\* Only the session cap shows that a client is not alone, and by no more than the other
\* threads that have passed its check.
THEOREM ClientsSeeTheirFlows == ClientsApart(Calls) => (Spec => ImplementsFlow)
<1> SUFFICES ASSUME ClientsApart(Calls) PROVE Spec => ImplementsFlow
  OBVIOUS
<1>1. Init => FlowInv
  <2>1. Init => SharingInv /\ OutInv
    BY DEF Init, SharingInv, Referred, Range, ResettingSteps, OutInv, IsFcn
  <2> QED
    BY <2>1, CapInit, OwnInit, CallInit, ApartInit DEF FlowInv
<1>2. FlowInv /\ [Next]_vars => FlowInv'
  BY CapNext, OwnNext, CallNext, SharingNext, OutNext, ApartNext DEF FlowInv
<1>3. FlowInv /\ [Next]_vars => [Flows!Next]_(Flows!vars)
  BY SimNext
<1> QED
  BY <1>1, <1>2, <1>3, SimInit, PTL DEF Spec, ImplementsFlow, Flows!Spec

=============================================================================
